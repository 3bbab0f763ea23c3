------------------------------- MODULE Fanout -------------------------------
(***************************************************************************)
(* iterator.Fanout (pkg/iterator/iterator.go): one goroutine iterates over *)
(* the source and offers each entry on both output channels at once; the   *)
(* first reader to be ready takes it.  When the source has ended, or has   *)
(* failed, the goroutine closes channel a and then channel b.  When it has *)
(* failed, a Drain, started before the channels are closed, reads what the *)
(* source still has: a query appended to another, for one, can fail and be *)
(* followed by the rows of the next.                                       *)
(*                                                                         *)
(* Entries are numbered 1, 2, ... in the order in which the source yields  *)
(* them.  The channels are unbuffered: a send and its receive are one      *)
(* step.  The two goroutines of Drain, which hand each entry from one to   *)
(* the other and drop it, are one process.                                 *)
(***************************************************************************)
EXTENDS Integers, Sequences, FiniteSets, Functions

CONSTANTS MaxEntries,   \* bound: the number of entries the source can yield
          Live          \* the branches whose reader keeps reading

Branch == {"a", "b"}

ASSUME MaxEntriesAssumption == MaxEntries \in Nat
ASSUME LiveAssumption == Live \subseteq Branch

VARIABLES
  pc,       \* where the iterating goroutine is
  drain,    \* the Drain: "none", "draining" or "ended"
  drained,  \* the number of entries it has read
  cur,      \* the number of the last entry taken from the source
  closed,   \* channels closed
  got,      \* got[c]: entries received by the reader of c, in order
  ended     \* branches whose reader has been told the end

vars == <<pc, drain, drained, cur, closed, got, ended>>

Entry == 1..MaxEntries

-----------------------------------------------------------------------------
(* The steps *)

Init == /\ pc = "next"
        /\ drain = "none"
        /\ drained = 0
        /\ cur = 0
        /\ closed = {}
        /\ got = [c \in Branch |-> <<>>]
        /\ ended = {}

\* iter.Next returns an entry: Iterate calls the function given by Fanout.
Take == /\ pc = "next"
        /\ cur < MaxEntries
        /\ cur' = cur + 1
        /\ pc' = "select"
        /\ UNCHANGED <<drain, drained, closed, got, ended>>

\* iter.Next returns ErrAtEnd: Iterate returns no error.
SourceEnd == /\ pc = "next"
             /\ pc' = "close_a"
             /\ UNCHANGED <<drain, drained, cur, closed, got, ended>>

\* iter.Next returns another error, and so does Iterate: Drain is called.
SourceFails == /\ pc = "next"
               /\ pc' = "close_a"
               /\ drain' = "draining"
               /\ UNCHANGED <<drained, cur, closed, got, ended>>

\* The Drain reads an entry of those that the source has left, or is given the
\* end or an error, and stops.
DrainTake == /\ drain = "draining"
             /\ cur + drained < MaxEntries
             /\ drained' = drained + 1
             /\ UNCHANGED <<pc, drain, cur, closed, got, ended>>

DrainEnd == /\ drain = "draining"
            /\ drain' = "ended"
            /\ UNCHANGED <<pc, drained, cur, closed, got, ended>>

\* The channels on which the entry in hand is offered.  A faulty variant takes
\* them in turn.
InTurn == {IF cur % 2 = 1 THEN "a" ELSE "b"}
Offered == Branch

\* Where the goroutine goes after a send by the select.  A faulty variant
\* offers the entry to the other branch as well.
OfferAgain(c) == IF c = "a" THEN "select" ELSE "next"
AfterSelect(c) == "next"

\* The reader of c is the one that receives the entry in hand.
Receive(c) == /\ pc = "select"
              /\ c \in Offered
              /\ got' = [got EXCEPT ![c] = Append(@, cur)]
              /\ pc' = AfterSelect(c)
              /\ UNCHANGED <<drain, drained, cur, closed, ended>>

Close(c, here, there) == /\ pc = here
                         /\ closed' = closed \cup {c}
                         /\ pc' = there
                         /\ UNCHANGED <<drain, drained, cur, got, ended>>

CloseA == Close("a", "close_a", "close_b")
CloseB == Close("b", "close_b", "done")

\* A receive from c finds it closed.
FoundClosed(c) == c \in closed

\* The reader of c finds the channel closed: FromChannel returns ErrAtEnd.
ReceiveEnd(c) == /\ FoundClosed(c)
                 /\ c \notin ended
                 /\ ended' = ended \cup {c}
                 /\ UNCHANGED <<pc, drain, drained, cur, closed, got>>

Terminated == /\ pc = "done"
              /\ drain # "draining"
              /\ ended = Branch
              /\ UNCHANGED vars

Iterate == Take \/ SourceEnd \/ SourceFails \/ CloseA \/ CloseB
Drain == DrainTake \/ DrainEnd

Next == \/ Iterate
        \/ Drain
        \/ \E c \in Branch : Receive(c) \/ ReceiveEnd(c)
        \/ Terminated

Spec == Init /\ [][Next]_vars

\* The goroutines run, the source goes on until it ends, and the readers of
\* the live branches keep calling Next.
Fairness == /\ WF_vars(Iterate) /\ WF_vars(Drain)
            /\ \A c \in Live : WF_vars(Receive(c)) /\ WF_vars(ReceiveEnd(c))

FairSpec == Spec /\ Fairness

-----------------------------------------------------------------------------
(* Properties *)

\* Every variable has its type, and the channels closed are those whose close
\* the goroutine has passed.
TypeOK == /\ pc \in {"next", "select", "close_a", "close_b", "done"}
          /\ drain \in {"none", "draining", "ended"}
          /\ drained \in 0..MaxEntries
          /\ cur \in 0..MaxEntries
          /\ closed = CASE pc = "close_b" -> {"a"}
                        [] pc = "done" -> Branch
                        [] OTHER -> {}
          /\ got \in [Branch -> Seq(Entry)]
          /\ ended \subseteq Branch

\* The entries that have left the hands of the goroutine.
Sent == IF pc = "select" THEN 1..(cur - 1) ELSE 1..cur

\* Each entry reaches exactly one of the readers: none is lost, and none is
\* seen by both or twice by one.  Unlike Dupe, Fanout keeps the order of the
\* source within each branch.
Partition ==
  /\ Range(got["a"]) \cup Range(got["b"]) = Sent
  /\ Range(got["a"]) \cap Range(got["b"]) = {}
  /\ \A c \in Branch : \A i, j \in DOMAIN got[c] : i < j => got[c][i] < got[c][j]

\* One reader is enough: if the other branch is never read, a live reader gets
\* all the entries that nobody else takes, and is told the end.
LiveReadersEnd == \A c \in Live : <>(c \in ended)
=============================================================================
