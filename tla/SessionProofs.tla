--------------------------- MODULE SessionProofs ---------------------------
(***************************************************************************)
(* Proofs about a session with one sink, for every length of the input and *)
(* every set of sinks: what the sink has written is the beginning of the   *)
(* input, and the plugins are stopped only after the sink.                 *)
(*                                                                         *)
(* The argument has two parts.  One follows the entries: those handed over *)
(* by the source are those written, and the one in the hand of the sink,   *)
(* until the sink returns; before it is called none are.  The other        *)
(* follows the wait group: a sink is called only by its statement, and an  *)
(* asynchronous one is counted from its statement until it has returned.   *)
(***************************************************************************)
EXTENDS Session, SequenceTheorems, TLAPS

\* The sink of the script, and whether it is asynchronous.
S == script[1].sink
Async == script[1].async

\* The number of entries that have been received from the source.
HandedOver == IF scanPc = "send" THEN scanned - 1 ELSE scanned

\* The channel of the source is closed by its deferred call only.
SrcInv == /\ srcClosed <=> scanPc \in {"close_file", "exited"}
          /\ scanPc = "send" => scanned >= 1

\* The first n lines, in order.
FirstLines(n) == [i \in 1..n |-> i]

\* What a sink has written, by where it is.
WrittenInv(s) ==
  /\ written[s] = FirstLines(Len(written[s]))
  /\ sink[s] \in {"idle", "next"} => Len(written[s]) = HandedOver
  /\ sink[s] = "check" => hand[s] = HandedOver /\ Len(written[s]) = HandedOver - 1
  /\ (result[s] = "ok" /\ s \notin sinkFlag) =>
       srcClosed /\ Len(written[s]) = scanned

\* A call that has not returned has no result, and only an error leaves
\* goroutines that take entries from the source.
ResultInv(s) == /\ result[s] = "none" <=> sink[s] # "returned"
                /\ draining[s] > 0 => result[s] = "error"

\* No sink is called but the one of the script, and that one only when its
\* statement has been reached.
CallInv == /\ \A s \in Sinks \ {S} : sink[s] = "idle" /\ written[s] = <<>>
           /\ stmt = 1 /\ main = "execute" => sink[S] = "idle"

\* Where the main goroutine is while a synchronous sink runs, and that the
\* wait group counts an asynchronous one until it has returned.
WaitInv == /\ main = "in_sink" => stmt = 1 /\ ~Async
           /\ ~Async => waiting = {}
           /\ (~Async /\ (stmt = 2 \/ main \notin {"execute", "in_sink"})) =>
                sink[S] = "returned"
           /\ Async /\ stmt = 2 => S \in waiting \/ sink[S] = "returned"
           /\ Async /\ main # "execute" => stmt = 2
           /\ main \in {"stopping_plugins", "done"} => waiting = {}

IndInv == /\ TypeOK
          /\ SrcInv
          /\ WrittenInv(S)
          /\ \A s \in Sinks : ResultInv(s)
          /\ CallInv
          /\ WaitInv

-----------------------------------------------------------------------------
(* Lemmas about the operators *)

\* A script is one sink statement, so there are two places in it.
LEMMA OneStatement ==
  ASSUME TypeOK
  PROVE  /\ S \in Sinks /\ Async \in BOOLEAN
         /\ Len(script) = 1 /\ DOMAIN script = {1} /\ stmt \in {1, 2}
         /\ waiting \subseteq {S}
         /\ \A s : Started(s) <=> stmt = 2 /\ s = S /\ Async
         /\ \A s : AtSink(s) <=> main = "execute" /\ stmt = 1 /\ s = S
<1>1. PICK s \in Sinks, a \in BOOLEAN : script = <<[sink |-> s, async |-> a]>>
  BY ScriptsAssumption DEF TypeOK, MainTypeOK
<1>2. /\ S \in Sinks /\ Async \in BOOLEAN
      /\ Len(script) = 1 /\ DOMAIN script = {1}
  BY <1>1 DEF S, Async
<1>3. stmt \in {1, 2} /\ waiting \subseteq {S}
  BY <1>2 DEF TypeOK, MainTypeOK, S
<1>4. \A r : Started(r) <=> stmt = 2 /\ r = S /\ Async
  BY <1>3 DEF Started, S, Async
<1>5. \A r : AtSink(r) <=> main = "execute" /\ stmt = 1 /\ r = S
  BY <1>2, <1>3 DEF AtSink, S
<1> QED
  BY <1>2, <1>3, <1>4, <1>5

\* Appending the next line to the first n lines gives the first n + 1.
LEMMA AppendLine ==
  ASSUME NEW n \in Nat, NEW w \in Seq(Entry), w = FirstLines(n), n + 1 \in Entry
  PROVE  /\ Append(w, n + 1) \in Seq(Entry)
         /\ Len(w) = n /\ Len(Append(w, n + 1)) = n + 1
         /\ Append(w, n + 1) = FirstLines(n + 1)
<1>1. /\ Append(w, n + 1) \in Seq(Entry)
      /\ Len(Append(w, n + 1)) = Len(w) + 1
      /\ \A i \in 1..Len(w) : Append(w, n + 1)[i] = w[i]
      /\ Append(w, n + 1)[Len(w) + 1] = n + 1
  BY AppendProperties
<1>2. Len(w) = n
  BY LenProperties DEF FirstLines
<1>3. Append(w, n + 1) \in [1..(n + 1) -> Entry]
  BY <1>1, <1>2, LenProperties
<1>4. ASSUME NEW i \in 1..(n + 1) PROVE Append(w, n + 1)[i] = i
  <2>1. CASE i = n + 1
    BY <1>1, <1>2, <2>1
  <2>2. CASE i \in 1..n
    BY <1>1, <1>2, <2>2 DEF FirstLines
  <2>3. i = n + 1 \/ i \in 1..n
    BY <1>4
  <2> QED
    BY <2>1, <2>2, <2>3
<1> QED
  BY <1>1, <1>2, <1>3, <1>4 DEF FirstLines

-----------------------------------------------------------------------------
(* The invariant holds initially *)

LEMMA InitIndInv == Init => IndInv
<1> SUFFICES ASSUME Init PROVE IndInv
  OBVIOUS
<1> USE DEF Init, SrcInit, SinkInit, MainInit
<1>1. /\ Len(script) = 1 /\ S \in Sinks
  BY ScriptsAssumption DEF S
<1>2. TypeOK
  <2>1. SrcTypeOK
    <3>1. scanned \in 0..Lines
      <4>1. scanned = 0
        BY Zenon
      <4> HIDE DEF Init, SrcInit, SinkInit, MainInit
      <4> QED
        BY <4>1, LinesAssumption
    <3> QED
      BY <3>1, Zenon DEF SrcTypeOK
  <2>2. SinkTypeOK(Entry)
    BY EmptySeq DEF SinkTypeOK
  <2>3. MainTypeOK
    <3>1. stmt \in 1..(Len(script) + 1)
      BY <1>1
    <3> QED
      BY <3>1 DEF MainTypeOK
  <2> QED
    BY <2>1, <2>2, <2>3 DEF TypeOK
<1>3. SrcInv
  BY DEF SrcInv
<1>4. WrittenInv(S)
  <2>1. Len(<<>>) = 0 /\ <<>> = FirstLines(0)
    BY DEF FirstLines
  <2> QED
    BY <1>1, <2>1 DEF WrittenInv, HandedOver
<1>5. \A s \in Sinks : ResultInv(s)
  BY DEF ResultInv
<1>6. CallInv /\ WaitInv
  BY <1>1 DEF CallInv, WaitInv
<1> QED
  BY <1>2, <1>3, <1>4, <1>5, <1>6 DEF IndInv

-----------------------------------------------------------------------------
(* The source, the main goroutine and the flags *)

\* The source on its own takes no entry out of its hands, and none is added
\* once the channel is closed.
LEMMA SourceKeeps ==
  ASSUME SrcTypeOK, SrcInv, SrcStep(cancelled) \/ SetSrcFlag(cancelled)
  PROVE  /\ SrcTypeOK' /\ SrcInv' /\ HandedOver' = HandedOver
         /\ srcClosed => srcClosed' /\ scanned' = scanned
<1> DEFINE Kept == /\ SrcTypeOK' /\ SrcInv' /\ HandedOver' = HandedOver
                   /\ srcClosed => srcClosed' /\ scanned' = scanned
<1> USE LinesAssumption DEF SrcTypeOK, SrcInv, HandedOver
<1>1. ASSUME scanPc = "scan", scanned < Lines, LineRead PROVE Kept
  BY <1>1 DEF LineRead
<1>2. ASSUME scanPc = "scan", GoTo("close_channel") PROVE Kept
  BY <1>2 DEF GoTo
<1>3. CASE TailStop(cancelled)
  BY <1>3 DEF TailStop, Tailing
<1>4. CASE CloseChannel
  BY <1>4 DEF CloseChannel
<1>5. CASE CloseFile
  BY <1>5 DEF CloseFile
<1>6. CASE SetSrcFlag(cancelled)
  BY <1>6 DEF SetSrcFlag
<1>7. CASE ScanLine \/ TailLine
  BY <1>1, <1>7, Zenon DEF ScanLine, TailLine, Scanning, Tailing, HasLine
<1>8. CASE ScanCancelled \/ ScanEnd \/ TailEnd
  BY <1>2, <1>8, Zenon DEF ScanCancelled, ScanEnd, TailEnd, Scanning, Tailing
<1> QED
  BY <1>3, <1>4, <1>5, <1>6, <1>7, <1>8, Zenon DEF SrcStep

LEMMA SourceInv == IndInv /\ SourceRuns => IndInv'
<1> SUFFICES ASSUME IndInv, SourceRuns PROVE IndInv'
  OBVIOUS
<1>1. /\ SrcTypeOK' /\ SrcInv' /\ HandedOver' = HandedOver
      /\ srcClosed => srcClosed' /\ scanned' = scanned
  BY SourceKeeps DEF IndInv, TypeOK, SourceRuns
<1>2. UNCHANGED <<sinkVars, mainVars>>
  BY DEF SourceRuns
<1>3. TypeOK'
  BY <1>1, <1>2 DEF IndInv, TypeOK, SinkTypeOK, MainTypeOK, sinkVars, mainVars
<1>4. WrittenInv(S)'
  BY <1>1, <1>2 DEF IndInv, WrittenInv, sinkVars, mainVars, S
<1>5. (\A s \in Sinks : ResultInv(s))'
  BY <1>2 DEF IndInv, ResultInv, sinkVars
<1>6. CallInv' /\ WaitInv'
  BY <1>2 DEF IndInv, CallInv, WaitInv, sinkVars, mainVars, S, Async
<1> QED
  BY <1>1, <1>3, <1>4, <1>5, <1>6 DEF IndInv

\* A step of the main goroutine or of the wait group leaves the entries alone.
LEMMA EntriesKept ==
  ASSUME IndInv, UNCHANGED <<srcVars, sinkVars, script>>
  PROVE  /\ SrcTypeOK' /\ SinkTypeOK(Entry)' /\ SrcInv' /\ WrittenInv(S)'
         /\ (\A s \in Sinks : ResultInv(s))'
BY DEF IndInv, TypeOK, SrcTypeOK, SinkTypeOK, SrcInv, WrittenInv, HandedOver, ResultInv,
       srcVars, sinkVars, S

LEMMA MainInv ==
  ASSUME IndInv, MainRuns \/ \E s \in Sinks : StartAsync(s) \/ Returned(s)
  PROVE  IndInv'
<1>1. UNCHANGED <<srcVars, sinkVars, script>>
  BY DEF MainRuns, MainStep, ExecuteReturns, Cancel, WaitReturns, PluginsStopped,
         StartAsync, RunAsync, Returned, SyncReturned, AsyncReturned
<1>2. /\ SrcTypeOK' /\ SinkTypeOK(Entry)' /\ SrcInv' /\ WrittenInv(S)'
      /\ (\A s \in Sinks : ResultInv(s))'
  BY <1>1, EntriesKept
<1>3. /\ S \in Sinks /\ Async \in BOOLEAN /\ Len(script) = 1 /\ DOMAIN script = {1}
      /\ stmt \in {1, 2} /\ waiting \subseteq {S} /\ S = script[1].sink
      /\ Async = script[1].async
      /\ \A s : AtSink(s) <=> main = "execute" /\ stmt = 1 /\ s = S
  BY OneStatement DEF IndInv, S, Async
<1>4. S' = S /\ Async' = Async /\ sink' = sink
  BY <1>1 DEF S, Async, sinkVars
<1>5. CASE MainRuns
  <2> USE DEF MainRuns, MainStep, ExecuteReturns, Cancel, WaitReturns, AllWaitedFor,
              PluginsStopped
  <2>1. MainTypeOK'
    BY <1>5 DEF IndInv, TypeOK, MainTypeOK
  <2>2. CallInv'
    BY <1>1, <1>3, <1>4, <1>5 DEF IndInv, CallInv, sinkVars
  <2>3. WaitInv'
    BY <1>1, <1>3, <1>4, <1>5 DEF IndInv, WaitInv, sinkVars
  <2> QED
    BY <1>2, <2>1, <2>2, <2>3 DEF IndInv, TypeOK
<1>6. ASSUME NEW s \in Sinks, StartAsync(s) PROVE IndInv'
  <2>1. s = S /\ stmt = 1 /\ stmt' = 2 /\ Async
    BY <1>3, <1>6 DEF StartAsync, RunAsync
  <2>2. MainTypeOK' /\ CallInv' /\ WaitInv'
    BY <1>1, <1>3, <1>4, <1>6, <2>1 DEF IndInv, TypeOK, MainTypeOK, CallInv, WaitInv, sinkVars,
       StartAsync, RunAsync, WaitGroupAdd
  <2> QED
    BY <1>2, <2>2 DEF IndInv, TypeOK
<1>7. ASSUME NEW s \in Sinks, Returned(s) PROVE IndInv'
  <2>1. sink[s] = "returned"
    BY <1>7 DEF Returned, IndInv, ResultInv
  <2>2. CASE SyncReturned(s, result[s])
    <3>1. s = S /\ ~Async /\ stmt = 1 /\ stmt' \in {1, 2}
      BY <1>3, <2>2 DEF SyncReturned, IndInv, WaitInv
    <3>2. MainTypeOK' /\ CallInv' /\ WaitInv'
      BY <1>1, <1>3, <1>4, <2>1, <2>2, <3>1 DEF IndInv, TypeOK, MainTypeOK, CallInv, WaitInv,
         sinkVars, SyncReturned
    <3> QED
      BY <1>2, <3>2 DEF IndInv, TypeOK
  <2>3. CASE AsyncReturned(s)
    <3>1. s = S
      BY <1>3, <2>3 DEF AsyncReturned
    <3>2. MainTypeOK' /\ CallInv' /\ WaitInv'
      BY <1>1, <1>3, <1>4, <2>1, <2>3, <3>1 DEF IndInv, TypeOK, MainTypeOK, CallInv, WaitInv,
         sinkVars, AsyncReturned, WaitGroupDone
    <3> QED
      BY <1>2, <3>2 DEF IndInv, TypeOK
  <2> QED
    BY <1>7, <2>2, <2>3 DEF Returned
<1> QED
  BY <1>5, <1>6, <1>7

-----------------------------------------------------------------------------
(* The steps of the sinks *)

\* The sink that begins or goes on is the one of the script.
LEMMA OnlyOneSink ==
  ASSUME IndInv, NEW s \in Sinks, sink[s] # "idle" \/ Started(s) \/ AtSink(s)
  PROVE  s = S
BY OneStatement DEF IndInv, CallInv

\* What the call of the sink decides: it waits for an entry, or has failed.
LEMMA BeginKeeps ==
  ASSUME IndInv, Begin(S)
  PROVE  /\ SinkTypeOK(Entry)'
         /\ \E r \in {"next", "returned"} : sink' = [sink EXCEPT ![S] = r]
         /\ sink[S] = "idle" /\ result[S] = "none"
         /\ result'[S] \in {"none", "error", "rejected"}
         /\ result'[S] = "none" <=> sink'[S] # "returned"
         /\ draining'[S] > 0 => result'[S] = "error"
         /\ \A s \in Sinks \ {S} : result'[s] = result[s] /\ draining'[s] = draining[s]
         /\ UNCHANGED <<written, hand, sinkFlag>>
<1>1. S \in Sinks
  BY OneStatement DEF IndInv
<1>2. SinkTypeOK(Entry) /\ sink[S] = "idle" /\ result[S] = "none" /\ draining[S] = 0
  <2>1. SinkTypeOK(Entry) /\ sink[S] = "idle" /\ ResultInv(S)
    BY <1>1 DEF IndInv, TypeOK, Begin, Call, CallFails, CallRejected
  <2> QED
    BY <1>1, <2>1, SMTT(30) DEF ResultInv, SinkTypeOK
<1> USE <1>1, <1>2 DEF SinkTypeOK
<1>3. CASE Call(S)
  BY <1>3 DEF Call
<1>4. CASE CallFails(S)
  BY <1>4 DEF CallFails, Return, DrainsAfterOpen
<1>5. CASE CallRejected(S)
  BY <1>5 DEF CallRejected, Return
<1> QED
  BY <1>3, <1>4, <1>5 DEF Begin

LEMMA BeginInv ==
  ASSUME IndInv, NEW s \in Sinks, CallSync(s) \/ CallAsync(s)
  PROVE  IndInv'
<1>1. s = S /\ S \in Sinks /\ Begin(S) /\ UNCHANGED srcVars
  BY OnlyOneSink, OneStatement DEF IndInv, CallSync, CallAsync, RunSync
<1>2. UNCHANGED <<script, stmt, waiting, cancelled>> /\ S' = S /\ Async' = Async
  BY DEF CallSync, CallAsync, RunSync, mainVars, S, Async
<1>3. main' \in {main, "in_sink"}
  BY DEF CallSync, CallAsync, RunSync, mainVars
<1>4. TypeOK'
  BY <1>1, <1>2, <1>3, BeginKeeps DEF IndInv, TypeOK, SrcTypeOK, MainTypeOK, srcVars
<1>5. SrcInv' /\ HandedOver' = HandedOver /\ UNCHANGED <<srcClosed, scanned>>
  BY <1>1 DEF IndInv, SrcInv, HandedOver, srcVars
<1>6. WrittenInv(S)'
  <2>1. sink'[S] \in {"next", "returned"} /\ result'[S] # "ok" /\ sink[S] = "idle"
    BY <1>1, BeginKeeps DEF IndInv, TypeOK, SinkTypeOK
  <2> QED
    BY <1>1, <1>2, <1>5, <2>1, BeginKeeps DEF IndInv, WrittenInv
<1>7. (\A r \in Sinks : ResultInv(r))'
  BY <1>1, BeginKeeps DEF IndInv, TypeOK, SinkTypeOK, ResultInv
<1>8. CallInv' /\ WaitInv'
  <2>1. \A r \in Sinks \ {S} : sink'[r] = "idle" /\ written'[r] = <<>>
    BY <1>1, BeginKeeps DEF IndInv, TypeOK, SinkTypeOK, CallInv
  <2>2. sink[S] = "idle"
    BY <1>1, BeginKeeps
  <2>3. CASE CallSync(s)
    <3>1. main = "execute" /\ main' = "in_sink" /\ stmt = 1 /\ ~Async
      BY <1>1, <2>3, OneStatement DEF IndInv, CallSync, RunSync, Async
    <3> QED
      BY <1>2, <2>1, <3>1 DEF IndInv, CallInv, WaitInv
  <2>4. CASE CallAsync(s)
    <3>1. stmt = 2 /\ Async /\ main' = main
      BY <1>1, <2>4, OneStatement DEF IndInv, CallAsync, mainVars
    <3> QED
      BY <1>2, <2>1, <2>2, <3>1 DEF IndInv, CallInv, WaitInv
  <2> QED
    BY <2>3, <2>4
<1> QED
  BY <1>4, <1>5, <1>6, <1>7, <1>8 DEF IndInv

\* A sink that is called goes on without the main goroutine: the statements
\* and the wait group are as they were.
LEMMA SinkGoesOn ==
  ASSUME IndInv, sink[S] \notin {"idle", "returned"}, UNCHANGED mainVars,
         NEW r \in {"next", "check", "returned"}, sink' = [sink EXCEPT ![S] = r],
         \A s \in Sinks \ {S} : written'[s] = written[s]
  PROVE  S' = S /\ MainTypeOK' /\ CallInv' /\ WaitInv'
<1>1. S' = S /\ Async' = Async /\ S \in Sinks
  BY OneStatement DEF IndInv, S, Async, mainVars
<1>2. MainTypeOK'
  BY DEF IndInv, TypeOK, MainTypeOK, mainVars
<1>3. \A s \in Sinks \ {S} : sink'[s] = sink[s]
  BY DEF IndInv, TypeOK, SinkTypeOK
<1>4. CallInv'
  BY <1>1, <1>3 DEF IndInv, CallInv, mainVars
<1>5. WaitInv'
  BY <1>1 DEF IndInv, WaitInv, mainVars
<1> QED
  BY <1>1, <1>2, <1>4, <1>5

\* The sink takes the entry that follows those it has written.
LEMMA ReceiveInv ==
  ASSUME IndInv, NEW s \in Sinks, SinkReceives(s)
  PROVE  IndInv'
<1>1. s = S /\ S \in Sinks /\ sink[S] = "next"
  BY OnlyOneSink, OneStatement DEF IndInv, SinkReceives, SinkReceive
<1>2. /\ sink' = [sink EXCEPT ![S] = "check"] /\ hand' = [hand EXCEPT ![S] = scanned]
      /\ UNCHANGED <<written, sinkFlag, draining, result>> /\ UNCHANGED mainVars
  BY <1>1 DEF SinkReceives, SinkReceive
<1>3. S' = S /\ MainTypeOK' /\ CallInv' /\ WaitInv'
  BY <1>1, <1>2, SinkGoesOn
<1>4. /\ SrcTypeOK' /\ SrcInv' /\ scanned \in Entry /\ UNCHANGED <<scanned, srcClosed>>
      /\ HandedOver = scanned - 1 /\ HandedOver' = scanned
  BY LinesAssumption DEF IndInv, TypeOK, SrcTypeOK, SrcInv, SinkReceives, Send, GoTo,
     HandedOver, Entry
<1>5. SinkTypeOK(Entry)'
  BY <1>1, <1>2, <1>4 DEF IndInv, TypeOK, SinkTypeOK, Entry
<1>6. WrittenInv(S)'
  BY <1>1, <1>2, <1>3, <1>4 DEF IndInv, TypeOK, SinkTypeOK, WrittenInv, ResultInv
<1>7. (\A r \in Sinks : ResultInv(r))'
  BY <1>1, <1>2 DEF IndInv, TypeOK, SinkTypeOK, ResultInv
<1> QED
  BY <1>3, <1>4, <1>5, <1>6, <1>7 DEF IndInv, TypeOK

\* What follows a return: the source, the statements and the wait group are as
\* they were.
LEMMA ReturnInv ==
  ASSUME IndInv, sink[S] \in {"next", "check"}, UNCHANGED <<srcVars, mainVars>>,
         NEW r \in {"ok", "error"}, NEW n \in 0..2, Return(S, r, n),
         n > 0 => r = "error",
         (r = "ok" /\ S \notin sinkFlag) => srcClosed /\ Len(written[S]) = scanned
  PROVE  IndInv'
<1>1. S \in Sinks
  BY OneStatement DEF IndInv
<1>2. S' = S /\ MainTypeOK' /\ CallInv' /\ WaitInv'
  BY <1>1, SinkGoesOn DEF Return
<1>3. SinkTypeOK(Entry)'
  BY <1>1 DEF IndInv, TypeOK, SinkTypeOK, Return
<1>4. SrcTypeOK' /\ SrcInv' /\ UNCHANGED <<srcClosed, scanned>>
  BY DEF IndInv, TypeOK, SrcTypeOK, SrcInv, srcVars
<1>5. WrittenInv(S)'
  BY <1>1, <1>2, <1>4 DEF IndInv, TypeOK, SinkTypeOK, WrittenInv, Return
<1>6. (\A s \in Sinks : ResultInv(s))'
  BY <1>1 DEF IndInv, TypeOK, SinkTypeOK, ResultInv, Return
<1> QED
  BY <1>2, <1>3, <1>4, <1>5, <1>6 DEF IndInv, TypeOK

\* A sink finds the end of the source when it has written all that was handed
\* over.  A draining goroutine finds it after an error.
LEMMA EndInv ==
  ASSUME IndInv, NEW s \in Sinks, EndReceived(s)
  PROVE  IndInv'
<1>1. srcClosed /\ UNCHANGED <<srcVars, mainVars>>
  BY DEF EndReceived
<1>2. CASE SinkReceiveEnd(s)
  <2>1. s = S /\ sink[S] = "next"
    BY <1>2, OnlyOneSink DEF SinkReceiveEnd
  <2>2. HandedOver = scanned /\ Len(written[S]) = scanned
    BY <1>1, <2>1 DEF IndInv, SrcInv, HandedOver, WrittenInv
  <2> QED
    BY <1>1, <1>2, <2>1, <2>2, ReturnInv DEF SinkReceiveEnd
<1>3. CASE DrainEnd(s)
  <2>1. S' = S /\ Async' = Async
    BY <1>1 DEF S, Async, mainVars
  <2>2. UNCHANGED <<sink, hand, written, sinkFlag, result>>
    BY <1>3 DEF DrainEnd
  <2>3. SinkTypeOK(Entry)' /\ (\A r \in Sinks : ResultInv(r))'
    BY <1>3 DEF IndInv, TypeOK, SinkTypeOK, ResultInv, DrainEnd
  <2>4. SrcTypeOK' /\ SrcInv' /\ MainTypeOK'
    BY <1>1 DEF IndInv, TypeOK, SrcTypeOK, SrcInv, MainTypeOK, srcVars, mainVars
  <2>5. WrittenInv(S)' /\ CallInv' /\ WaitInv'
    BY <1>1, <2>1, <2>2 DEF IndInv, WrittenInv, HandedOver, CallInv, WaitInv, srcVars, mainVars
  <2> QED
    BY <2>3, <2>4, <2>5 DEF IndInv, TypeOK
<1> QED
  BY <1>2, <1>3 DEF EndReceived

\* Draining goroutines take entries only from a sink that has returned an error.
LEMMA DrainInv ==
  ASSUME IndInv, NEW s \in Sinks, DrainReceives(s)
  PROVE  IndInv'
<1>1. s = S /\ S \in Sinks /\ sink[S] = "returned" /\ result[S] = "error"
  <2>1. sink[s] = "returned" /\ result[s] = "error"
    BY DEF IndInv, TypeOK, SinkTypeOK, ResultInv, DrainReceives, DrainReceive
  <2> QED
    BY <2>1, OnlyOneSink
<1>2. UNCHANGED <<sinkVars, mainVars>> /\ Send
  BY DEF DrainReceives, DrainReceive
<1>3. SrcTypeOK' /\ SrcInv'
  BY <1>2 DEF IndInv, TypeOK, SrcTypeOK, SrcInv, Send, GoTo
<1>4. /\ SinkTypeOK(Entry)' /\ MainTypeOK' /\ (\A r \in Sinks : ResultInv(r))'
      /\ CallInv' /\ WaitInv'
  BY <1>2 DEF IndInv, TypeOK, SinkTypeOK, MainTypeOK, ResultInv, CallInv, WaitInv,
     sinkVars, mainVars, S, Async
<1>5. WrittenInv(S)'
  BY <1>1, <1>2 DEF IndInv, WrittenInv, sinkVars, mainVars, S
<1> QED
  BY <1>3, <1>4, <1>5 DEF IndInv, TypeOK

\* The entry in hand is written after those before it.
LEMMA WriteInv ==
  ASSUME IndInv, Write(S), UNCHANGED <<srcVars, mainVars>>
  PROVE  IndInv'
<1>1. S \in Sinks /\ sink[S] = "check"
  BY OneStatement DEF IndInv, Write
<1> DEFINE n == Len(written[S])
<1>2. /\ written[S] \in Seq(Entry) /\ written[S] = FirstLines(n) /\ n \in Nat
      /\ hand[S] = n + 1 /\ hand[S] = HandedOver /\ n + 1 \in Entry
  <2>1. /\ written[S] \in Seq(Entry) /\ written[S] = FirstLines(n)
        /\ hand[S] = HandedOver /\ n = HandedOver - 1 /\ hand[S] \in Entry \cup {0}
    BY <1>1 DEF IndInv, TypeOK, SinkTypeOK, WrittenInv
  <2>2. n \in Nat
    BY <2>1, LenProperties
  <2>3. HandedOver \in Nat
    BY LinesAssumption DEF IndInv, TypeOK, SrcTypeOK, SrcInv, HandedOver
  <2> QED
    BY <2>1, <2>2, <2>3, LinesAssumption DEF Entry
<1>3. /\ Append(written[S], n + 1) \in Seq(Entry)
      /\ Len(Append(written[S], n + 1)) = n + 1
      /\ Append(written[S], n + 1) = FirstLines(n + 1)
  BY <1>2, AppendLine
<1> HIDE DEF n
<1>4. /\ written' = [written EXCEPT ![S] = Append(written[S], n + 1)]
      /\ sink' = [sink EXCEPT ![S] = "next"]
      /\ UNCHANGED <<hand, sinkFlag, draining, result>>
  BY <1>2 DEF Write
<1>5. written'[S] = Append(written[S], n + 1) /\ \A r \in Sinks \ {S} : written'[r] = written[r]
  BY <1>1, <1>4 DEF IndInv, TypeOK, SinkTypeOK
<1>6. S' = S /\ MainTypeOK' /\ CallInv' /\ WaitInv'
  BY <1>1, <1>4, <1>5, SinkGoesOn
<1>7. SinkTypeOK(Entry)'
  BY <1>1, <1>3, <1>4 DEF IndInv, TypeOK, SinkTypeOK
<1>8. SrcTypeOK' /\ SrcInv' /\ HandedOver' = HandedOver
  BY DEF IndInv, TypeOK, SrcTypeOK, SrcInv, HandedOver, srcVars
<1>9. WrittenInv(S)'
  <2>1. sink'[S] = "next" /\ result'[S] = "none"
    BY <1>1, <1>4 DEF IndInv, TypeOK, SinkTypeOK, ResultInv
  <2> QED
    BY <1>2, <1>3, <1>5, <1>6, <1>8, <2>1 DEF WrittenInv
<1>10. (\A r \in Sinks : ResultInv(r))'
  BY <1>1, <1>4 DEF IndInv, TypeOK, SinkTypeOK, ResultInv
<1> QED
  BY <1>6, <1>7, <1>8, <1>9, <1>10 DEF IndInv, TypeOK

LEMMA SinkRunsInv ==
  ASSUME IndInv, NEW s \in Sinks, SinkRuns(s)
  PROVE  IndInv'
<1>1. UNCHANGED <<srcVars, mainVars>>
  BY DEF SinkRuns
<1>2. s = S
  <2>1. sink[s] # "idle"
    BY DEF SinkRuns, SinkStep, Quit, Write, WriteFails, SetSinkFlag
  <2> QED
    BY <2>1, OnlyOneSink
<1>3. CASE Quit(s)
  BY <1>1, <1>2, <1>3, ReturnInv DEF Quit
<1>4. CASE Write(s)
  BY <1>1, <1>2, <1>4, WriteInv
<1>5. CASE WriteFails(s)
  BY <1>1, <1>2, <1>5, ReturnInv DEF WriteFails, WriteResult, DrainsAfterWrite
<1>6. CASE SetSinkFlag(s, cancelled)
  <2>1. UNCHANGED <<sink, hand, written, draining, result>> /\ S' = S /\ Async' = Async
    BY <1>1, <1>6 DEF SetSinkFlag, S, Async, mainVars
  <2>2. sinkFlag \subseteq sinkFlag' /\ sinkFlag' \subseteq Aware
    BY <1>6 DEF SetSinkFlag, IndInv, TypeOK, SinkTypeOK
  <2>3. SrcTypeOK' /\ SrcInv' /\ MainTypeOK' /\ SinkTypeOK(Entry)'
    BY <1>1, <2>1, <2>2 DEF IndInv, TypeOK, SrcTypeOK, SrcInv, MainTypeOK, SinkTypeOK,
       srcVars, mainVars
  <2>4. WrittenInv(S)'
    BY <1>1, <2>1, <2>2 DEF IndInv, WrittenInv, HandedOver, srcVars
  <2>5. (\A r \in Sinks : ResultInv(r))' /\ CallInv' /\ WaitInv'
    BY <1>1, <2>1 DEF IndInv, ResultInv, CallInv, WaitInv, mainVars
  <2> QED
    BY <2>3, <2>4, <2>5 DEF IndInv, TypeOK
<1> QED
  BY <1>3, <1>4, <1>5, <1>6 DEF SinkRuns, SinkStep

-----------------------------------------------------------------------------
(* Every step preserves the invariant *)

LEMMA NextIndInv == IndInv /\ [Next]_vars => IndInv'
<1> SUFFICES ASSUME IndInv, [Next]_vars PROVE IndInv'
  OBVIOUS
<1>1. CASE Stopped \/ UNCHANGED vars
  <2>1. UNCHANGED <<srcVars, sinkVars, mainVars>>
    BY <1>1 DEF Stopped, vars
  <2> QED
    BY <2>1, EntriesKept DEF IndInv, TypeOK, MainTypeOK, CallInv, WaitInv, sinkVars, mainVars,
       S, Async
<1>2. CASE SourceRuns
  BY <1>2, SourceInv
<1>3. CASE MainRuns
  BY <1>3, MainInv
<1>4. ASSUME NEW s \in Sinks, CallSync(s) \/ CallAsync(s) PROVE IndInv'
  BY <1>4, BeginInv
<1>5. ASSUME NEW s \in Sinks, StartAsync(s) \/ Returned(s) PROVE IndInv'
  BY <1>5, MainInv
<1>6. ASSUME NEW s \in Sinks, SinkReceives(s) PROVE IndInv'
  BY <1>6, ReceiveInv
<1>7. ASSUME NEW s \in Sinks, DrainReceives(s) PROVE IndInv'
  BY <1>7, DrainInv
<1>8. ASSUME NEW s \in Sinks, EndReceived(s) PROVE IndInv'
  BY <1>8, EndInv
<1>9. ASSUME NEW s \in Sinks, SinkRuns(s) PROVE IndInv'
  BY <1>9, SinkRunsInv
<1> QED
  BY <1>1, <1>2, <1>3, <1>4, <1>5, <1>6, <1>7, <1>8, <1>9 DEF Next

-----------------------------------------------------------------------------
(* Theorems *)

\* The inductive invariant holds in every state: the entries handed over are
\* accounted for and the wait group counts the running sink.
THEOREM SessionInductive == Spec => []IndInv
<1>1. Init => IndInv
  BY InitIndInv
<1>2. IndInv /\ [Next]_vars => IndInv'
  BY NextIndInv
<1> QED
  BY <1>1, <1>2, PTL DEF Spec

\* The variables of the source, the sinks and the main goroutine keep their
\* types.
THEOREM SessionTypeCorrect == Spec => []TypeOK
<1>1. IndInv => TypeOK
  BY DEF IndInv
<1> QED
  BY <1>1, SessionInductive, PTL

\* Whatever fails, is rejected or is cancelled, and however long the input is:
\* a sink has written a prefix of the input without gaps, and all that was
\* scanned if it reports success without having seen the cancellation.
THEOREM SessionOutputIsPrefix == Spec => []OutputIsPrefix
<1>1. IndInv => OutputIsPrefix
  <2> SUFFICES ASSUME IndInv, NEW s \in Sinks
               PROVE  /\ written[s] = [i \in 1..Len(written[s]) |-> i]
                      /\ (result[s] = "ok" /\ s \notin sinkFlag) => Len(written[s]) = scanned
    BY DEF OutputIsPrefix
  <2>1. CASE s = S
    BY <2>1 DEF IndInv, WrittenInv, FirstLines
  <2>2. CASE s # S
    <3>1. sink[s] = "idle" /\ written[s] = <<>> /\ result[s] = "none"
      BY <2>2 DEF IndInv, CallInv, ResultInv
    <3>2. <<>> = [i \in 1..Len(<<>>) |-> i]
      OBVIOUS
    <3> QED
      BY <3>1, <3>2
  <2> QED
    BY <2>1, <2>2
<1> QED
  BY <1>1, SessionInductive, PTL

\* The plugins are stopped only when the sink that was started or called has
\* returned: the wait group counts it from its statement, not from the moment
\* its goroutine begins to run.
THEOREM SessionStoppingAfterSinks == Spec => []StoppingAfterSinks
<1>1. IndInv => StoppingAfterSinks
  <2> SUFFICES ASSUME IndInv, main \in {"stopping_plugins", "done"}, NEW s \in Sinks,
                      Started(s) \/ sink[s] # "idle"
               PROVE  sink[s] = "returned"
    BY DEF StoppingAfterSinks
  <2>1. s = S /\ Async \in BOOLEAN
    BY OnlyOneSink, OneStatement DEF IndInv
  <2>2. CASE Async
    BY <2>1, <2>2 DEF IndInv, WaitInv
  <2>3. CASE ~Async
    BY <2>1, <2>3 DEF IndInv, WaitInv
  <2> QED
    BY <2>2, <2>3
<1> QED
  BY <1>1, SessionInductive, PTL

=============================================================================
