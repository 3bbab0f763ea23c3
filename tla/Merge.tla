------------------------------- MODULE Merge -------------------------------
(***************************************************************************)
(* iterator.Merge (pkg/iterator/iterator.go): each of the two inputs is    *)
(* turned into a channel by AsChannel, whose goroutine iterates over the   *)
(* input; a third goroutine selects over the two channels and forwards     *)
(* what it receives to the output channel.  A channel found closed is set  *)
(* to nil, so that the select never takes it again; when both are nil the  *)
(* output is closed.                                                       *)
(*                                                                         *)
(* The entries of each input are numbered 1, 2, ...  Channels are          *)
(* unbuffered: a send and its receive are one step.                        *)
(***************************************************************************)
EXTENDS Integers, Sequences, SequencesExt, FiniteSets

CONSTANTS MaxEntries,   \* bound: the number of entries an input can yield
          Stalled       \* inputs that may stop yielding without ending

Input == {"a", "b"}

ASSUME MaxEntriesAssumption == MaxEntries \in Nat
ASSUME StalledAssumption == Stalled \subseteq Input

VARIABLES
  feeder,     \* feeder[i]: where the AsChannel goroutine of input i is
  fed,        \* fed[i]: the number of entries that it took from its input
  open,       \* the input channels that the merging goroutine has not nil-ed
  merging,    \* where the merging goroutine is
  held,       \* the <<input, entry>> that it is about to send, as a sequence
  out,        \* the <<input, entry>> received by the reader of the output
  outEnded    \* the reader has been told the end

vars == <<feeder, fed, open, merging, held, out, outEnded>>

Entry == 1..MaxEntries

-----------------------------------------------------------------------------
(* The steps *)

Init == /\ feeder = [i \in Input |-> "next"]
        /\ fed = [i \in Input |-> 0]
        /\ open = Input
        /\ merging = "select"
        /\ held = <<>>
        /\ out = <<>>
        /\ outEnded = FALSE

\* Input i yields an entry to the goroutine of its channel.
Take(i) == /\ feeder[i] = "next"
           /\ fed[i] < MaxEntries
           /\ fed' = [fed EXCEPT ![i] = @ + 1]
           /\ feeder' = [feeder EXCEPT ![i] = "send"]
           /\ UNCHANGED <<open, merging, held, out, outEnded>>

\* Input i ends or fails: Iterate returns and the deferred close runs.
InputEnd(i) == /\ feeder[i] = "next"
               /\ feeder' = [feeder EXCEPT ![i] = "closed"]
               /\ UNCHANGED <<fed, open, merging, held, out, outEnded>>

\* The merging goroutine is back at its select, its last send done.
AtSelect == merging = "select"

\* The select takes entries from input i.  A faulty variant takes those of a
\* only when b has ended.
PreferB(i) == i \in open /\ (i = "a" => feeder["b"] = "closed")
Selectable(i) == i \in open

\* The select receives the entry that the goroutine of input i offers.
Select(i) == /\ AtSelect
             /\ Selectable(i)
             /\ feeder[i] = "send"
             /\ feeder' = [feeder EXCEPT ![i] = "next"]
             /\ held' = Append(held, <<i, fed[i]>>)
             /\ merging' = "send"
             /\ UNCHANGED <<fed, open, out, outEnded>>

\* What is left of the open channels when the one of input i is found closed.
\* Faulty variants give up both, or none.
NilBoth(i) == {}
NilNone(i) == open
NilOne(i) == open \ {i}

\* The select finds the channel of input i closed and nils it.
SelectClosed(i) == /\ AtSelect
                   /\ i \in open
                   /\ feeder[i] = "closed"
                   /\ open' = NilOne(i)
                   /\ UNCHANGED <<feeder, fed, merging, held, out, outEnded>>

\* What is in hand after the send.  A faulty variant sends it again.
KeptAfterSend == IF Len(out) < MaxEntries THEN held ELSE <<>>
HeldAfterSend == <<>>

\* outCh <- entry: the reader of the output receives it.
Forward == /\ merging = "send"
           /\ out' = out \o held
           /\ held' = HeldAfterSend
           /\ merging' = IF held' = <<>> THEN "select" ELSE "send"
           /\ UNCHANGED <<feeder, fed, open, outEnded>>

\* Both channels are nil: the loop ends and the output is closed.
CloseOut == /\ merging = "select"
            /\ open = {}
            /\ merging' = "done"
            /\ UNCHANGED <<feeder, fed, open, held, out, outEnded>>

ReceiveEnd == /\ merging = "done"
              /\ ~outEnded
              /\ outEnded' = TRUE
              /\ UNCHANGED <<feeder, fed, open, merging, held, out>>

Terminated == outEnded /\ UNCHANGED vars

Next == \/ \E i \in Input : Take(i) \/ InputEnd(i) \/ Select(i) \/ SelectClosed(i)
        \/ Forward \/ CloseOut \/ ReceiveEnd
        \/ Terminated

Spec == Init /\ [][Next]_vars

\* The goroutines run, the reader of the output keeps reading, and an input
\* that is not stalled goes on until it ends.  An endless competition of the
\* two inputs for the select, which Go decides at random, is beyond the bound.
Fairness == /\ \A i \in Input \ Stalled : WF_vars(Take(i) \/ InputEnd(i))
            /\ \A i \in Input : WF_vars(Select(i)) /\ WF_vars(SelectClosed(i))
            /\ WF_vars(Forward) /\ WF_vars(CloseOut) /\ WF_vars(ReceiveEnd)

FairSpec == Spec /\ Fairness

-----------------------------------------------------------------------------
(* Properties *)

\* Every variable has its type.
TypeOK == /\ feeder \in [Input -> {"next", "send", "closed"}]
          /\ fed \in [Input -> 0..MaxEntries]
          /\ open \subseteq Input
          /\ merging \in {"select", "send", "done"}
          /\ held \in Seq(Input \X Entry) /\ Len(held) <= 1
          /\ out \in Seq(Input \X Entry)
          /\ outEnded \in BOOLEAN

\* The entries that the merging goroutine has taken: those that reached the
\* output, and the one in hand.
Taken == out \o held

\* The entries that input i has yielded and its goroutine does not hold.
HandedOver(i) == IF feeder[i] = "send" THEN fed[i] - 1 ELSE fed[i]
AllHandedOver == {x \in Input \X Entry : x[2] <= HandedOver(x[1])}

\* Those of one input come in the order of the input, and none comes twice.
InInputOrder(s) == \A j, k \in DOMAIN s : j < k /\ s[j][1] = s[k][1] => s[j][2] < s[k][2]

\* Merge interleaves: the entries of each input appear in the output in the
\* order of the input, none lost, none twice, at every moment.
Interleaves == Range(Taken) = AllHandedOver /\ InInputOrder(Taken)

\* The end of the output is told only after both inputs have ended and every
\* entry of both has been received, whichever of them ended first.
EndsAfterBoth ==
  outEnded => /\ \A i \in Input : feeder[i] = "closed"
              /\ Len(out) = fed["a"] + fed["b"]

\* An input that stalls does not hold up the other: each entry that either
\* input yields reaches the output.
Delivered(i, n) == <<i, n>> \in {out[k] : k \in 1..Len(out)}
StallHarmless == \A i \in Input, n \in Entry : fed[i] >= n ~> Delivered(i, n)

\* When both inputs have ended the reader of the output is told the end: the
\* merging goroutine does not go on selecting from closed channels.
OutputEnds == (\A i \in Input : feeder[i] = "closed") ~> outEnded
=============================================================================
