-------------------------------- MODULE Dupe --------------------------------
(***************************************************************************)
(* iterator.Dupe (pkg/iterator/iterator.go): one goroutine iterates over   *)
(* the source; for each entry it starts a goroutine that sends the entry   *)
(* on channel a and another that sends it on channel b.  A weighted        *)
(* semaphore of capacity 2 limits the senders that are alive.  When the    *)
(* source ends, or fails, the iterating goroutine takes both permits and   *)
(* closes the channels.                                                    *)
(*                                                                         *)
(* Entries are numbered 1, 2, ... in the order in which the source yields  *)
(* them.  The channels are unbuffered: a send and its receive are one      *)
(* step.  The senders of a branch wait in the order in which the scheduler *)
(* happened to run them, so any of them may be the next one served.        *)
(***************************************************************************)
EXTENDS Integers, Sequences, FiniteSets, Functions

CONSTANTS MaxEntries,   \* bound: the number of entries the source can yield
          Live          \* the branches whose reader keeps reading

Branch == {"a", "b"}

ASSUME MaxEntriesAssumption == MaxEntries \in Nat
ASSUME LiveAssumption == Live \subseteq Branch

VARIABLES
  pc,         \* where the iterating goroutine is
  cur,        \* the number of the last entry taken from the source
  permits,    \* free permits of the semaphore
  sending,    \* <<branch, entry>> of the goroutines that have yet to send
  releasing,  \* <<branch, entry>> of those that sent and hold their permit
  closed,     \* channels closed
  got,        \* got[c]: entries received by the reader of c, in order
  ended       \* branches whose reader has been told the end

vars == <<pc, cur, permits, sending, releasing, closed, got, ended>>

-----------------------------------------------------------------------------
(* The semaphore *)

\* A faulty variant: room for a third sender.
CapacityThree == 3

\* semaphore.NewWeighted(2)
Capacity == 2

\* sem.Acquire(ctx, 1) can return.
PermitFree == permits > 0

\* A faulty variant: the channels are closed without waiting for the senders.
NoLastAcquire == TRUE

\* The last sem.Acquire(ctx, 2) can return: every sender has released.
AllPermitsFree == permits = Capacity

\* Faulty variants: a sender that returns keeps its permit, or releases it
\* twice.
NoRelease == permits
DoubleRelease == permits + 2

\* sem.Release(1)
Released == permits + 1

-----------------------------------------------------------------------------
(* The steps *)

Init == /\ pc = "next"
        /\ cur = 0
        /\ permits = Capacity
        /\ sending = {}
        /\ releasing = {}
        /\ closed = {}
        /\ got = [c \in Branch |-> <<>>]
        /\ ended = {}

\* iter.Next returns an entry: Iterate calls the function given by Dupe.
Take == /\ pc = "next"
        /\ cur < MaxEntries
        /\ cur' = cur + 1
        /\ pc' = "acquire_a"
        /\ UNCHANGED <<permits, sending, releasing, closed, got, ended>>

\* iter.Next returns ErrAtEnd or any other error: Iterate returns, its
\* result is dropped, and the deferred function begins.
SourceEnd == /\ pc = "next"
             /\ pc' = "acquire_all"
             /\ UNCHANGED <<cur, permits, sending, releasing, closed, got, ended>>

\* Acquire a permit and start the goroutine that sends the entry on c.
Spawn(c, here, there) == /\ pc = here
                         /\ PermitFree
                         /\ permits' = permits - 1
                         /\ sending' = sending \cup {<<c, cur>>}
                         /\ pc' = there
                         /\ UNCHANGED <<cur, releasing, closed, got, ended>>

SpawnA == Spawn("a", "acquire_a", "acquire_b")
SpawnB == Spawn("b", "acquire_b", "next")

\* A faulty variant: the sender is not stopped after its send.
ReceiveTwice(c, e) == /\ <<c, e>> \in sending
                      /\ releasing' = releasing \cup {<<c, e>>}
                      /\ got' = [got EXCEPT ![c] = Append(@, e)]
                      /\ UNCHANGED <<pc, cur, permits, sending, closed, ended>>

\* The reader of c receives entry e from one of the senders of c, which goes
\* on to its deferred release.
Receive(c, e) == /\ <<c, e>> \in sending
                 /\ sending' = sending \ {<<c, e>>}
                 /\ releasing' = releasing \cup {<<c, e>>}
                 /\ got' = [got EXCEPT ![c] = Append(@, e)]
                 /\ UNCHANGED <<pc, cur, permits, closed, ended>>

Release(c, e) == /\ <<c, e>> \in releasing
                 /\ releasing' = releasing \ {<<c, e>>}
                 /\ permits' = Released
                 /\ UNCHANGED <<pc, cur, sending, closed, got, ended>>

AcquireAll == /\ pc = "acquire_all"
              /\ AllPermitsFree
              /\ permits' = 0
              /\ pc' = "close_a"
              /\ UNCHANGED <<cur, sending, releasing, closed, got, ended>>

\* close(c)
Close(c, here, there) == /\ pc = here
                         /\ closed' = closed \cup {c}
                         /\ pc' = there
                         /\ UNCHANGED <<cur, permits, sending, releasing, got, ended>>

CloseA == Close("a", "close_a", "close_b")
CloseB == Close("b", "close_b", "done")

\* The reader of c finds the channel closed: FromChannel returns ErrAtEnd.
ReceiveEnd(c) == /\ c \in closed
                 /\ c \notin ended
                 /\ ended' = ended \cup {c}
                 /\ UNCHANGED <<pc, cur, permits, sending, releasing, closed, got>>

\* Both readers have been told the end: nothing is left to do.
Terminated == /\ pc = "done"
              /\ ended = Branch
              /\ UNCHANGED vars

\* The iterating goroutine.
Iterate == Take \/ SourceEnd \/ SpawnA \/ SpawnB \/ AcquireAll \/ CloseA \/ CloseB

Next == \/ Iterate
        \/ \E c \in Branch, e \in 1..MaxEntries : Receive(c, e) \/ Release(c, e)
        \/ \E c \in Branch : ReceiveEnd(c)
        \/ Terminated

Spec == Init /\ [][Next]_vars

\* Goroutines run, the source goes on yielding until it ends, and the readers
\* of the live branches keep calling Next.
Fairness == /\ WF_vars(Iterate)
            /\ \A c \in Branch, e \in 1..MaxEntries : WF_vars(Release(c, e))
            /\ \A c \in Live : /\ \A e \in 1..MaxEntries : WF_vars(Receive(c, e))
                               /\ WF_vars(ReceiveEnd(c))

FairSpec == Spec /\ Fairness

-----------------------------------------------------------------------------
(* Properties *)

Entry == 1..MaxEntries

\* Every variable has its type; the goroutine is at one of its steps.
TypeOK ==
  /\ pc \in {"next", "acquire_a", "acquire_b", "acquire_all", "close_a",
             "close_b", "done"}
  /\ cur \in 0..MaxEntries
  /\ permits \in 0..Capacity
  /\ sending \subseteq Branch \X Entry
  /\ releasing \subseteq Branch \X Entry
  /\ closed \subseteq Branch
  /\ got \in [Branch -> Seq(Entry)]
  /\ ended \subseteq Branch

Received(c) == Range(got[c])
Pending(c) == {e \in Entry : <<c, e>> \in sending}

\* No goroutine is left to send on a channel that has been closed: Go would
\* panic.  The code relies on the last acquisition of both permits for it.
NoSendOnClosed == \A s \in sending : s[1] \notin closed

\* A reader that is told the end has every entry taken from the source, each
\* once: Dupe neither loses an entry nor sends one twice to a branch.
CompleteAtEnd ==
  \A c \in ended : /\ Received(c) = 1..cur
                   /\ IsInjective(got[c])

\* Back-pressure: the source runs at most three entries ahead of the slower
\* reader, whatever the other reader does: two wait in senders and one is in
\* the hands of the iterating goroutine, which waits for a permit.
BoundedLag == \A c \in Branch : cur - Len(got[c]) <= 3

\* How far a branch can deviate from the order of the source: of the entries
\* before one that a reader has received, it can miss at most one.
BoundedReordering ==
  \A c \in Branch : \A e \in Received(c) :
    Cardinality((1..e) \ Received(c)) <= 1

\* While both readers keep reading and the source ends, both of them are told
\* the end: no permit is lost and no sender is left behind.
BothEnd == <>(ended = Branch)

\* Dupe implements the abstract broadcast: each branch gets each entry once
\* and is told the end after them all.
SourceFinished == pc \in {"acquire_all", "close_a", "close_b", "done"}
Abstract == INSTANCE Broadcast WITH Readers <- Branch, yielded <- cur,
                                    finished <- SourceFinished
ImplementsBroadcast == Abstract!Spec
=============================================================================
