---------------------------- MODULE DupeSession ----------------------------
(***************************************************************************)
(* A session of "nomlog exec" for the script                               *)
(*                                                                         *)
(*     source as s file.File "in.log"                                      *)
(*     dupe s as a and b                                                   *)
(*     sink a [async as x] to CLASS ...                                    *)
(*     sink b [async as y] to CLASS ...                                    *)
(*                                                                         *)
(* FileSource feeds Dupe, whose two branches are read by the two sinks;    *)
(* Exec runs the script and stops the runtime.                             *)
(***************************************************************************)
EXTENDS FileSource, Sink, Exec, FiniteSets, Functions

VARIABLES pc, cur, permits, sending, releasing, closed, got, ended

D == INSTANCE Dupe WITH MaxEntries <- Lines, Live <- {}

dupeVars == <<pc, cur, permits, sending, releasing, closed, got, ended>>

vars == <<srcVars, sinkVars, mainVars, dupeVars>>

Entry == 1..Lines

Init == SrcInit /\ SinkInit /\ MainInit /\ D!Init

-----------------------------------------------------------------------------
(* The steps *)

SourceRuns == /\ SrcStep(cancelled) \/ SetSrcFlag(cancelled)
              /\ UNCHANGED <<sinkVars, mainVars, dupeVars>>

\* Dupe's goroutine is the reader of the source.
DupeTakes == Send /\ D!Take /\ UNCHANGED <<sinkVars, mainVars>>
DupeTakesEnd == /\ srcClosed
                /\ D!SourceEnd
                /\ UNCHANGED <<srcVars, sinkVars, mainVars>>

DupeRuns == /\ D!SpawnA \/ D!SpawnB \/ D!AcquireAll \/ D!CloseA \/ D!CloseB
            /\ UNCHANGED <<srcVars, sinkVars, mainVars>>

SenderReleases == /\ \E c \in Sinks, e \in Entry : D!Release(c, e)
                  /\ UNCHANGED <<srcVars, sinkVars, mainVars>>

\* The call of sink s begins: in the main goroutine at its statement, or in
\* the goroutine that the statement has started.
Begin(s) == Call(s) \/ CallFails(s) \/ CallRejected(s)

CallSync(s) == RunSync(s) /\ Begin(s) /\ UNCHANGED <<srcVars, dupeVars>>
StartAsync(s) == RunAsync(s) /\ UNCHANGED <<srcVars, sinkVars, dupeVars>>
CallAsync(s) == Started(s) /\ Begin(s) /\ UNCHANGED <<srcVars, mainVars, dupeVars>>

\* Sink s, or a goroutine that drains for it, receives from branch s.
SinkReceives(s) == /\ \E e \in Entry : D!Receive(s, e) /\ SinkReceive(s, e)
                   /\ UNCHANGED <<srcVars, mainVars>>
DrainReceives(s) == /\ \E e \in Entry : D!Receive(s, e)
                    /\ DrainReceive(s)
                    /\ UNCHANGED <<srcVars, mainVars>>
EndReceived(s) == /\ SinkReceiveEnd(s) \/ DrainEnd(s)
                  /\ D!ReceiveEnd(s) \/ (s \in ended /\ UNCHANGED dupeVars)
                  /\ UNCHANGED <<srcVars, mainVars>>

SinkRuns(s) == /\ SinkStep(s) \/ SetSinkFlag(s, cancelled)
               /\ UNCHANGED <<srcVars, mainVars, dupeVars>>

Returned(s) == /\ result[s] # "none"
               /\ SyncReturned(s, result[s]) \/ AsyncReturned(s)
               /\ UNCHANGED <<srcVars, sinkVars, dupeVars>>

MainRuns == MainStep /\ UNCHANGED <<srcVars, sinkVars, dupeVars>>

\* The runtime is stopped; what is left of the goroutines may be blocked.
Stopped == main = "done" /\ UNCHANGED vars

Next == \/ SourceRuns \/ DupeTakes \/ DupeTakesEnd \/ DupeRuns \/ SenderReleases
        \/ MainRuns \/ Stopped
        \/ \E s \in Sinks : \/ CallSync(s) \/ StartAsync(s) \/ CallAsync(s)
                            \/ SinkReceives(s) \/ DrainReceives(s)
                            \/ EndReceived(s) \/ SinkRuns(s) \/ Returned(s)

Spec == Init /\ [][Next]_vars

\* Every goroutine runs when it can.  The flags are set without
\* synchronisation: that they are ever seen is not assumed.
Fairness ==
  /\ WF_vars(SrcOwnStep(cancelled) /\ UNCHANGED <<sinkVars, mainVars, dupeVars>>)
  /\ WF_vars(DupeTakes \/ DupeTakesEnd \/ DupeRuns)
  /\ WF_vars(SenderReleases)
  /\ WF_vars(MainRuns)
  /\ \A s \in Sinks :
       /\ WF_vars(CallSync(s)) /\ WF_vars(StartAsync(s)) /\ WF_vars(CallAsync(s))
       /\ WF_vars(SinkReceives(s) \/ DrainReceives(s)) /\ WF_vars(EndReceived(s))
       /\ WF_vars(SinkStep(s) /\ UNCHANGED <<srcVars, mainVars, dupeVars>>)
       /\ WF_vars(Returned(s))

FairSpec == Spec /\ Fairness

-----------------------------------------------------------------------------
(* Properties *)

\* Every variable of the four parts has its type.
TypeOK == SrcTypeOK /\ SinkTypeOK(Entry) /\ MainTypeOK /\ D!TypeOK

\* Runtime.Stop returns (plugin.go:23, "Stopping is called after all source
\* and sink operations, when the nomlog session is shutting down").
StopReturns == <>(main = "done")

\* Documented at grammar.go:20, "This is useful to output the same log events
\* in two different ways": the script with its two sinks runs to its end.
ExecuteEnds == <>(main # "in_sink" /\ cancelled)

\* A sink that fails drains its branch (doc.go:9): the other branch goes on, and
\* the source runs to its end and closes the file.  A sink that rejects its
\* arguments, and drains nothing, is left out.
ErrorReleasesSource ==
  \A s \in Sinks : result[s] = "error" ~> SrcReleased
=============================================================================
