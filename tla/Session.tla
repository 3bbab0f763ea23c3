------------------------------ MODULE Session ------------------------------
(***************************************************************************)
(* A session of "nomlog exec" for the script                               *)
(*                                                                         *)
(*     source as s file.File "in.log"   (or file.Tail, or std.In)          *)
(*     sink s [async as t] to CLASS ...                                    *)
(*                                                                         *)
(* whose sink is one of Sinks, run synchronously or not.                   *)
(* The goroutines of FileSource and Sink meet on the channel of the source *)
(* and Exec runs the script and stops the runtime.                         *)
(***************************************************************************)
EXTENDS FileSource, Sink, Exec, FiniteSets

\* The script has one sink statement: the parser gives an iterator to one
\* reader only (ast.go:483).
ASSUME ScriptsAssumption ==
  Scripts \subseteq {<<[sink |-> s, async |-> a]>> : s \in Sinks, a \in BOOLEAN}

Entry == 1..Lines

vars == <<srcVars, sinkVars, mainVars>>

Init == SrcInit /\ SinkInit /\ MainInit

-----------------------------------------------------------------------------
(* The steps *)

\* The source scans, closes, or learns of the cancellation.
SourceRuns == /\ SrcStep(cancelled) \/ SetSrcFlag(cancelled)
              /\ UNCHANGED <<sinkVars, mainVars>>

\* The call of sink s begins: in the main goroutine at its statement, or in
\* the goroutine that the statement has started.
Begin(s) == Call(s) \/ CallFails(s) \/ CallRejected(s)

CallSync(s) == RunSync(s) /\ Begin(s) /\ UNCHANGED srcVars
StartAsync(s) == RunAsync(s) /\ UNCHANGED <<srcVars, sinkVars>>
CallAsync(s) == Started(s) /\ Begin(s) /\ UNCHANGED <<srcVars, mainVars>>

\* The sink, or a goroutine that drains for it, receives from the source.
SinkReceives(s) == Send /\ SinkReceive(s, scanned) /\ UNCHANGED mainVars
DrainReceives(s) == Send /\ DrainReceive(s) /\ UNCHANGED mainVars
EndReceived(s) == /\ srcClosed
                  /\ SinkReceiveEnd(s) \/ DrainEnd(s)
                  /\ UNCHANGED <<srcVars, mainVars>>

\* The sink writes, fails, quits, or learns of the cancellation.
SinkRuns(s) == /\ SinkStep(s) \/ SetSinkFlag(s, cancelled)
               /\ UNCHANGED <<srcVars, mainVars>>

\* The call of the sink has returned to the main goroutine, or to its own.
Returned(s) == /\ result[s] # "none"
               /\ SyncReturned(s, result[s]) \/ AsyncReturned(s)
               /\ UNCHANGED <<srcVars, sinkVars>>

MainRuns == MainStep /\ UNCHANGED <<srcVars, sinkVars>>

\* The runtime is stopped; what is left of the goroutines may be blocked.
Stopped == main = "done" /\ UNCHANGED vars

Next == \/ SourceRuns \/ MainRuns \/ Stopped
        \/ \E s \in Sinks : \/ CallSync(s) \/ StartAsync(s) \/ CallAsync(s)
                            \/ SinkReceives(s) \/ DrainReceives(s)
                            \/ EndReceived(s) \/ SinkRuns(s) \/ Returned(s)

Spec == Init /\ [][Next]_vars

\* Every goroutine runs when it can.  The flags are set without
\* synchronisation: that they are ever seen is not assumed.  Nor is it assumed
\* that standard input or a tailed file ever has another line.
Fairness ==
  /\ WF_vars(SrcOwnStep(cancelled) /\ UNCHANGED <<sinkVars, mainVars>>)
  /\ WF_vars(MainRuns)
  /\ \A s \in Sinks :
       /\ WF_vars(CallSync(s)) /\ WF_vars(StartAsync(s)) /\ WF_vars(CallAsync(s))
       /\ WF_vars(SinkReceives(s) \/ DrainReceives(s)) /\ WF_vars(EndReceived(s))
       /\ WF_vars(SinkStep(s) /\ UNCHANGED <<srcVars, mainVars>>)
       /\ WF_vars(Returned(s))

FairSpec == Spec /\ Fairness

-----------------------------------------------------------------------------
(* Properties *)

\* Every variable of the three parts has its type.
TypeOK == SrcTypeOK /\ SinkTypeOK(Entry) /\ MainTypeOK

\* The output is the beginning of the input, without gaps: a cancellation or
\* an error cuts it short, it never leaves a line out of the middle.  A sink
\* that reports success has written every line that the source has scanned,
\* unless it is one that saw the cancellation.
OutputIsPrefix ==
  \A s \in Sinks :
    /\ written[s] = [i \in 1..Len(written[s]) |-> i]
    /\ (result[s] = "ok" /\ s \notin sinkFlag) => Len(written[s]) = scanned

\* Plugin.Stopping is called after all sink operations (plugin.go:23): no sink
\* is running, nor about to, when the plugins are stopped.
StoppingAfterSinks ==
  main \in {"stopping_plugins", "done"} =>
    \A s \in Sinks : Started(s) \/ sink[s] # "idle" => sink[s] = "returned"

\* Runtime.Stop returns, whatever the sink does and whether or not the flags
\* of the cancellation are ever seen: a tailed file is let go even while it
\* gets no line.  Only a standard input that stays silent can hold Stop up.
StopReturns == main = "cancel" ~> (main = "done" \/ []InputSilent)

\* A sink that fails does not block its upstream (doc.go:9), nor does one that
\* never looks at the context and comes to its end: the goroutine of the source
\* runs to its end and closes the file.  The sinks left out are those that
\* reject their arguments, which drain nothing, and those that saw the
\* cancellation, which leave the source in its send.
SourceReleased ==
  \A s \in Sinks : (result[s] = "error" \/ (result[s] = "ok" /\ s \notin Aware))
                     ~> (SrcReleased \/ []InputSilent)
=============================================================================
