----------------------------- MODULE Broadcast -----------------------------
(***************************************************************************)
(* What iterator.Dupe can promise to its two readers: every entry that the *)
(* source yields reaches each reader exactly once, in some order, and a    *)
(* reader is told the end only when the source has ended and it has every  *)
(* entry.  Nothing is promised about the order in which a branch delivers: *)
(* module Dupe shows that the code does not keep it.                       *)
(*                                                                         *)
(* Entries are numbered in the order in which the source yields them.      *)
(***************************************************************************)
EXTENDS Naturals, Sequences, Functions

CONSTANTS Readers,      \* the readers of the broadcast
          MaxEntries    \* bound: the number of entries the source can yield

VARIABLES yielded,      \* entries taken from the source so far
          finished,     \* the source has reported its end
          got,          \* got[r]: entries received by reader r, in order
          ended         \* readers that have been told the end

vars == <<yielded, finished, got, ended>>

\* The entries reader r has received.
Received(r) == Range(got[r])

Init == /\ yielded = 0
        /\ finished = FALSE
        /\ got = [r \in Readers |-> <<>>]
        /\ ended = {}

Yield == /\ ~finished
         /\ yielded < MaxEntries
         /\ yielded' = yielded + 1
         /\ UNCHANGED <<finished, got, ended>>

Finish == /\ ~finished
          /\ finished' = TRUE
          /\ UNCHANGED <<yielded, got, ended>>

Deliver(r) == /\ \E e \in (1..yielded) \ Received(r) :
                    got' = [got EXCEPT ![r] = Append(@, e)]
              /\ UNCHANGED <<yielded, finished, ended>>

TellEnd(r) == /\ finished
              /\ r \notin ended
              /\ Received(r) = 1..yielded
              /\ ended' = ended \cup {r}
              /\ UNCHANGED <<yielded, finished, got>>

Next == \/ Yield
        \/ Finish
        \/ \E r \in Readers : Deliver(r) \/ TellEnd(r)

Spec == Init /\ [][Next]_vars
=============================================================================
