-------------------------------- MODULE Sink --------------------------------
(***************************************************************************)
(* The sinks of the file and std plugins: file.Sink (plugin/file/file.go), *)
(* SinkOut and SinkErr (plugin/stdstream/stdstream.go).  Each is a loop of *)
(* Iterator.Iterate that receives an entry and writes it.                  *)
(*                                                                         *)
(*  - SinkOut and SinkErr look at a flag that a second goroutine sets when *)
(*    the context is cancelled.  When they see it they answer ErrAtEnd,    *)
(*    and Iterate returns nil without draining.  file.Sink has no context. *)
(*  - A write error makes Iterate drain the iterator and return the error, *)
(*    upon which the sink drains it again: two goroutines receive what is  *)
(*    left and drop it.                                                    *)
(*                                                                         *)
(* The module gives the state and the steps; a session conjoins each       *)
(* receive with the step of the sender.                                    *)
(***************************************************************************)
EXTENDS Integers, Sequences

CONSTANTS Sinks,        \* the sinks of the session
          Aware,        \* those that look at the context
          Failing,      \* those whose file may fail to open or to be written
          BadArgs       \* those that may be given arguments they reject

ASSUME SinkAssumption == /\ Aware \subseteq Sinks
                         /\ Failing \subseteq Sinks
                         /\ BadArgs \subseteq Sinks

VARIABLES
  sink,         \* sink[s]: where the call of sink s is
  hand,         \* hand[s]: the entry it has received last, 0 at first
  written,      \* written[s]: the entries written, in order
  sinkFlag,     \* the aware sinks whose flag is set
  draining,     \* draining[s]: goroutines draining the iterator of s
  result        \* result[s]: "none" before it returns, then "ok", "error" or
                \* "rejected"

sinkVars == <<sink, hand, written, sinkFlag, draining, result>>

SinkInit == /\ sink = [s \in Sinks |-> "idle"]
            /\ hand = [s \in Sinks |-> 0]
            /\ written = [s \in Sinks |-> <<>>]
            /\ sinkFlag = {}
            /\ draining = [s \in Sinks |-> 0]
            /\ result = [s \in Sinks |-> "none"]

\* A faulty variant: the error of opening is met with a Drain, but the call
\* goes on.
CallGoesOn(s) == /\ sink[s] = "idle"
                 /\ sink' = [sink EXCEPT ![s] = "next"]
                 /\ draining' = [draining EXCEPT ![s] = 1]
                 /\ UNCHANGED <<hand, written, sinkFlag, result>>

\* The sink function is called and opens its file, or needs none.
Call(s) == /\ sink[s] = "idle"
           /\ sink' = [sink EXCEPT ![s] = "next"]
           /\ UNCHANGED <<hand, written, sinkFlag, draining, result>>

\* Goroutines started to drain the iterator by an error at the opening of the
\* file, and by one at a write.
\* A faulty variant starts none.
NoDrain == 0
DrainsAfterOpen == 1
DrainsAfterWrite == 2

\* What a sink returns after an error at a write.
WriteResult == "error"

\* The sink returns r and leaves n goroutines draining its iterator.
Return(s, r, n) == /\ sink' = [sink EXCEPT ![s] = "returned"]
                   /\ result' = [result EXCEPT ![s] = r]
                   /\ draining' = [draining EXCEPT ![s] = n]
                   /\ UNCHANGED <<hand, written, sinkFlag>>

\* os.OpenFile fails.
CallFails(s) == /\ sink[s] = "idle"
                /\ s \in Failing \ Aware
                /\ Return(s, "error", DrainsAfterOpen)

\* The function registered for file.File rejects its arguments: it returns an
\* error before the sink is called, and drains nothing.
CallRejected(s) == /\ sink[s] = "idle"
                   /\ s \in BadArgs
                   /\ Return(s, "rejected", 0)

\* Next returns entry e.
SinkReceive(s, e) == /\ sink[s] = "next"
                     /\ sink' = [sink EXCEPT ![s] = "check"]
                     /\ hand' = [hand EXCEPT ![s] = e]
                     /\ UNCHANGED <<written, sinkFlag, draining, result>>

\* Next returns ErrAtEnd.
SinkReceiveEnd(s) == /\ sink[s] = "next"
                     /\ Return(s, "ok", 0)

\* The flag is seen: the entry in hand is dropped and the sink returns.
Quit(s) == /\ sink[s] = "check"
           /\ s \in sinkFlag
           /\ Return(s, "ok", 0)

Write(s) == /\ sink[s] = "check"
            /\ s \notin sinkFlag
            /\ written' = [written EXCEPT ![s] = Append(@, hand[s])]
            /\ sink' = [sink EXCEPT ![s] = "next"]
            /\ UNCHANGED <<hand, sinkFlag, draining, result>>

WriteFails(s) == /\ sink[s] = "check"
                 /\ s \notin sinkFlag
                 /\ s \in Failing
                 /\ Return(s, WriteResult, DrainsAfterWrite)

\* A draining goroutine receives an entry and drops it.
DrainReceive(s) == draining[s] > 0 /\ UNCHANGED sinkVars

\* A draining goroutine finds the end.
DrainEnd(s) == /\ draining[s] > 0
               /\ draining' = [draining EXCEPT ![s] = @ - 1]
               /\ UNCHANGED <<sink, hand, written, sinkFlag, result>>

\* The goroutine that waits for ctx.Done sets hasCancelled.
SetSinkFlag(s, cancelled) == /\ cancelled
                             /\ s \in Aware \ sinkFlag
                             /\ sink[s] # "idle"
                             /\ sinkFlag' = sinkFlag \cup {s}
                             /\ UNCHANGED <<sink, hand, written, draining, result>>

\* The steps that a sink takes on its own once it is called.
SinkStep(s) == Quit(s) \/ Write(s) \/ WriteFails(s)

SinkTypeOK(entry) ==
  /\ sink \in [Sinks -> {"idle", "next", "check", "returned"}]
  /\ hand \in [Sinks -> entry \cup {0}]
  /\ written \in [Sinks -> Seq(entry)]
  /\ sinkFlag \subseteq Aware
  /\ draining \in [Sinks -> 0..2]
  /\ result \in [Sinks -> {"none", "ok", "error", "rejected"}]
=============================================================================
