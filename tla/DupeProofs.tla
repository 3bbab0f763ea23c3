----------------------------- MODULE DupeProofs -----------------------------
(***************************************************************************)
(* Proofs about iterator.Dupe for every number of entries: the safety      *)
(* invariants of module Dupe, and that Dupe implements Broadcast.          *)
(*                                                                         *)
(* The argument follows the permits.  While the iterating goroutine has    *)
(* not taken both of them, the free permits are the two of the semaphore   *)
(* less those of the senders alive; once it has, no sender is alive, and   *)
(* only then does it close the channels.  On each branch the entries taken *)
(* from the source are split between those received and those pending.     *)
(***************************************************************************)
EXTENDS Dupe, FiniteSetTheorems, SequenceTheorems, TLAPS

\* The senders alive: each holds a permit.
Senders == sending \cup releasing

\* The iterating goroutine holds both permits.
HoldsAll == pc \in {"close_a", "close_b", "done"}

\* How many entries have had a sender started on branch c.
Issued(c) == IF pc = "acquire_a" \/ (pc = "acquire_b" /\ c = "b")
             THEN cur - 1
             ELSE cur

\* Every permit is free, held by a sender, or held by the last acquisition.
PermitInv == /\ ~HoldsAll => permits = Capacity - Cardinality(Senders)
             /\ HoldsAll => permits = 0 /\ Senders = {}

\* The entries issued to branch c have been received once each, or have a
\* sender that waits; a sender that holds its permit on has delivered.
BranchInv(c) == /\ Received(c) \cup Pending(c) = 1..Issued(c)
                /\ Received(c) \cap Pending(c) = {}
                /\ IsInjective(got[c])
                /\ \A e \in Entry : <<c, e>> \in releasing => e \in Received(c)

\* The channels closed are those that the goroutine has come past, and only
\* the reader of a closed channel has been told the end.
CloseInv == /\ closed = {c \in Branch : pc = "done" \/ (pc = "close_b" /\ c = "a")}
            /\ ended \subseteq closed

\* An entry in the hands of the iterating goroutine exists.
CurInv == pc \in {"acquire_a", "acquire_b"} => cur >= 1

IndInv == /\ TypeOK
          /\ CurInv
          /\ PermitInv
          /\ \A c \in Branch : BranchInv(c)
          /\ CloseInv

-----------------------------------------------------------------------------
(* Lemmas about the operators *)

\* Appending e to a sequence adds e to the values it holds, and keeps an
\* injective sequence injective if e is new: the effect of a receive.
LEMMA AppendNew ==
  ASSUME NEW S, NEW s \in Seq(S), NEW e \in S
  PROVE  /\ Range(Append(s, e)) = Range(s) \cup {e}
         /\ IsInjective(s) /\ e \notin Range(s) => IsInjective(Append(s, e))
<1> DEFINE t == Append(s, e)
<1>1. /\ DOMAIN s = 1..Len(s)
      /\ DOMAIN t = 1..Len(s) \cup {Len(s) + 1}
      /\ Len(s) + 1 \notin 1..Len(s)
      /\ \A i \in 1..Len(s) : t[i] = s[i]
      /\ t[Len(s) + 1] = e
  BY AppendProperties, LenProperties
<1> HIDE DEF t
<1>2. Range(t) = Range(s) \cup {e}
  BY <1>1 DEF Range
<1>3. IsInjective(s) /\ e \notin Range(s) => IsInjective(t)
  BY <1>1 DEF Range, IsInjective
<1> QED
  BY <1>2, <1>3 DEF t

\* The senders and the entries pending on a branch are finite sets.
LEMMA FiniteSenders ==
  ASSUME TypeOK
  PROVE  /\ IsFiniteSet(sending) /\ IsFiniteSet(releasing) /\ IsFiniteSet(Senders)
         /\ \A c \in Branch : IsFiniteSet(Pending(c))
<1>1. IsFiniteSet(Branch)
  <2>1. IsFiniteSet({"a"} \cup {"b"})
    BY FS_Singleton, FS_AddElement
  <2>2. Branch = {"a"} \cup {"b"}
    BY DEF Branch
  <2> QED
    BY <2>1, <2>2
<1>2. IsFiniteSet(Entry)
  BY FS_Interval, MaxEntriesAssumption DEF Entry
<1>3. IsFiniteSet(Branch \X Entry)
  BY <1>1, <1>2, FS_Product
<1>4. /\ sending \in SUBSET (Branch \X Entry)
      /\ releasing \in SUBSET (Branch \X Entry)
      /\ Senders \in SUBSET (Branch \X Entry)
  BY DEF TypeOK, Senders
<1>5. \A c \in Branch : Pending(c) \in SUBSET Entry
  BY DEF Pending
<1> QED
  BY <1>2, <1>3, <1>4, <1>5, FS_Subset

-----------------------------------------------------------------------------
(* The invariant holds initially *)

LEMMA InitIndInv == Init => IndInv
<1> SUFFICES ASSUME Init PROVE IndInv
  OBVIOUS
<1>1. TypeOK
  BY MaxEntriesAssumption, EmptySeq DEF Init, TypeOK, Capacity, Branch, Entry
<1>2. CurInv
  BY DEF Init, CurInv
<1>3. PermitInv
  BY FS_EmptySet DEF Init, PermitInv, HoldsAll, Senders, Capacity
<1>4. ASSUME NEW c \in Branch PROVE BranchInv(c)
  <2>1. got[c] = <<>> /\ Range(got[c]) = {}
    BY EmptySeq DEF Init, Range
  <2> QED
    BY <2>1 DEF Init, BranchInv, Received, Pending, Issued, IsInjective
<1>5. CloseInv
  BY DEF Init, CloseInv
<1> QED
  BY <1>1, <1>2, <1>3, <1>4, <1>5 DEF IndInv

-----------------------------------------------------------------------------
(* Every step preserves the invariant *)

\* A step that leaves the senders, the sequences and the number of issued
\* entries alone preserves what is said of the branches.
LEMMA BranchKept ==
  ASSUME NEW c \in Branch, BranchInv(c), UNCHANGED <<sending, got>>,
         releasing' \subseteq releasing, Issued(c)' = Issued(c)
  PROVE  BranchInv(c)'
BY DEF BranchInv, Received, Pending

LEMMA TakeInv == IndInv /\ Take => IndInv'
<1> SUFFICES ASSUME IndInv, Take PROVE IndInv'
  OBVIOUS
<1>1. TypeOK'
  BY MaxEntriesAssumption DEF IndInv, TypeOK, Take
<1>2. CurInv'
  BY MaxEntriesAssumption DEF IndInv, TypeOK, Take, CurInv
<1>3. PermitInv'
  BY DEF IndInv, Take, PermitInv, HoldsAll, Senders
<1>4. \A c \in Branch : BranchInv(c)'
  <2>1. ASSUME NEW c \in Branch PROVE Issued(c)' = Issued(c)
    BY DEF IndInv, TypeOK, Take, Issued
  <2> QED
    BY <2>1, BranchKept DEF IndInv, Take
<1>5. CloseInv'
  BY DEF IndInv, Take, CloseInv
<1> QED
  BY <1>1, <1>2, <1>3, <1>4, <1>5 DEF IndInv

LEMMA SourceEndInv == IndInv /\ SourceEnd => IndInv'
<1> SUFFICES ASSUME IndInv, SourceEnd PROVE IndInv'
  OBVIOUS
<1>1. TypeOK' /\ CurInv'
  BY DEF IndInv, TypeOK, SourceEnd, CurInv
<1>2. PermitInv'
  BY DEF IndInv, SourceEnd, PermitInv, HoldsAll, Senders
<1>3. \A c \in Branch : BranchInv(c)'
  <2>1. ASSUME NEW c \in Branch PROVE Issued(c)' = Issued(c)
    BY DEF SourceEnd, Issued
  <2> QED
    BY <2>1, BranchKept DEF IndInv, SourceEnd
<1>4. CloseInv'
  BY DEF IndInv, SourceEnd, CloseInv
<1> QED
  BY <1>1, <1>2, <1>3, <1>4 DEF IndInv

\* The sender started is for the next entry of its branch, and takes one of
\* the free permits.
LEMMA SpawnInv == IndInv /\ (SpawnA \/ SpawnB) => IndInv'
<1> SUFFICES ASSUME IndInv,
                    NEW c \in Branch, NEW here, NEW there, Spawn(c, here, there),
                    \/ c = "a" /\ here = "acquire_a" /\ there = "acquire_b"
                    \/ c = "b" /\ here = "acquire_b" /\ there = "next"
             PROVE  IndInv'
  BY DEF SpawnA, SpawnB, Branch
<1>1. /\ cur \in Entry
      /\ Issued(c) = cur - 1 /\ Issued(c)' = cur
      /\ \A d \in Branch \ {c} : Issued(d)' = Issued(d)
  BY MaxEntriesAssumption DEF IndInv, TypeOK, CurInv, Spawn, Issued, Branch, Entry
<1>2. cur \notin Received(c) \cup Pending(c)
  BY <1>1 DEF IndInv, BranchInv, Entry
<1>3. <<c, cur>> \notin Senders
  BY <1>1, <1>2 DEF IndInv, BranchInv, Pending, Senders
<1>4. /\ permits \in 1..Capacity
      /\ permits = Capacity - Cardinality(Senders)
      /\ IsFiniteSet(Senders)
      /\ Senders' = Senders \cup {<<c, cur>>}
  BY FiniteSenders DEF IndInv, TypeOK, PermitInv, HoldsAll, Spawn, PermitFree, Senders, Capacity
<1>5. TypeOK'
  BY <1>1, <1>4 DEF IndInv, TypeOK, Spawn, Capacity
<1>6. CurInv'
  BY <1>1 DEF CurInv, Spawn, Entry
<1>7. PermitInv'
  <2>1. Cardinality(Senders') = Cardinality(Senders) + 1 /\ Cardinality(Senders) \in Nat
    BY <1>3, <1>4, FS_AddElement, FS_CardinalityType
  <2> QED
    BY <1>4, <2>1 DEF PermitInv, HoldsAll, Spawn, Capacity
<1>8. ASSUME NEW d \in Branch PROVE BranchInv(d)'
  <2>1. CASE d = c
    <3>1. Pending(c)' = Pending(c) \cup {cur} /\ Received(c)' = Received(c)
      BY <1>1 DEF Spawn, Pending, Received
    <3>2. 1..Issued(c)' = (1..Issued(c)) \cup {cur}
      BY <1>1 DEF Entry
    <3> QED
      BY <1>2, <2>1, <3>1, <3>2 DEF IndInv, BranchInv, Spawn, Received
  <2>2. CASE d # c
    <3>1. Pending(d)' = Pending(d) /\ Received(d)' = Received(d)
      BY <2>2 DEF Spawn, Pending, Received
    <3> QED
      BY <1>1, <2>2, <3>1 DEF IndInv, BranchInv, Spawn
  <2> QED
    BY <2>1, <2>2
<1>9. CloseInv'
  BY DEF IndInv, Spawn, CloseInv, Branch
<1> QED
  BY <1>5, <1>6, <1>7, <1>8, <1>9 DEF IndInv

\* The entry received was pending on the branch, and so is new to its reader.
LEMMA ReceiveInv ==
  ASSUME IndInv, NEW c \in Branch, NEW e \in Entry, Receive(c, e)
  PROVE  IndInv'
<1>1. got[c] \in Seq(Entry) /\ got' = [got EXCEPT ![c] = Append(@, e)]
  BY DEF IndInv, TypeOK, Receive
<1>2. e \in Pending(c) /\ e \notin Received(c)
  BY DEF IndInv, BranchInv, Receive, Pending
<1>3. /\ Received(c)' = Received(c) \cup {e}
      /\ IsInjective(got'[c])
  <2>1. got'[c] = Append(got[c], e)
    BY <1>1 DEF IndInv, TypeOK
  <2> QED
    BY <1>1, <1>2, <2>1, AppendNew DEF IndInv, BranchInv, Received
<1>4. Pending(c)' = Pending(c) \ {e}
  BY DEF Receive, Pending
<1>5. TypeOK'
  BY <1>1, AppendProperties DEF IndInv, TypeOK, Receive
<1>6. CurInv'
  BY DEF IndInv, CurInv, Receive
<1>7. PermitInv'
  <2>1. Senders' = Senders
    BY DEF Receive, Senders
  <2>2. ~HoldsAll
    BY DEF IndInv, PermitInv, Receive, Senders
  <2> QED
    BY <2>1, <2>2 DEF IndInv, PermitInv, HoldsAll, Receive
<1>8. ASSUME NEW d \in Branch PROVE BranchInv(d)'
  <2>1. Issued(d)' = Issued(d)
    BY DEF Receive, Issued
  <2>2. CASE d = c
    BY <1>2, <1>3, <1>4, <2>1, <2>2 DEF IndInv, BranchInv, Receive
  <2>3. CASE d # c
    <3>1. got'[d] = got[d]
      BY <1>1, <2>3 DEF IndInv, TypeOK
    <3>2. Pending(d)' = Pending(d) /\ Received(d)' = Received(d)
      BY <2>3, <3>1 DEF Receive, Pending, Received
    <3> QED
      BY <2>1, <2>3, <3>1, <3>2 DEF IndInv, BranchInv, Receive
  <2> QED
    BY <2>2, <2>3
<1>9. CloseInv'
  BY DEF IndInv, CloseInv, Receive
<1> QED
  BY <1>5, <1>6, <1>7, <1>8, <1>9 DEF IndInv

\* The sender that releases its permit has received its entry's reader, so it
\* is not also among those that wait: one permit, one sender less.
LEMMA ReleaseInv ==
  ASSUME IndInv, NEW c \in Branch, NEW e \in Entry, Release(c, e)
  PROVE  IndInv'
<1>1. <<c, e>> \in Senders /\ ~HoldsAll
  BY DEF IndInv, PermitInv, Release, Senders
<1>2. <<c, e>> \notin sending
  BY DEF IndInv, BranchInv, Release, Pending
<1>3. Senders' = Senders \ {<<c, e>>}
  BY <1>2 DEF Release, Senders
<1>4. PermitInv' /\ permits' \in 0..Capacity
  <2>1. IsFiniteSet(Senders) /\ IsFiniteSet(Senders')
    BY <1>3, FiniteSenders, FS_RemoveElement DEF IndInv
  <2>2. /\ Cardinality(Senders') = Cardinality(Senders) - 1
        /\ Cardinality(Senders) \in Nat /\ Cardinality(Senders') \in Nat
    BY <1>1, <1>3, <2>1, FS_RemoveElement, FS_CardinalityType
  <2> QED
    BY <1>1, <2>2 DEF IndInv, TypeOK, PermitInv, HoldsAll, Release, Released, Capacity
<1>5. TypeOK' /\ CurInv'
  BY <1>4 DEF IndInv, TypeOK, CurInv, Release
<1>6. \A d \in Branch : BranchInv(d)'
  <2>1. ASSUME NEW d \in Branch PROVE Issued(d)' = Issued(d)
    BY DEF Release, Issued
  <2> QED
    BY <2>1, BranchKept DEF IndInv, Release
<1>7. CloseInv'
  BY DEF IndInv, CloseInv, Release
<1> QED
  BY <1>4, <1>5, <1>6, <1>7 DEF IndInv

\* With every permit free no sender is alive: the heart of the matter.
LEMMA AcquireAllInv == IndInv /\ AcquireAll => IndInv'
<1> SUFFICES ASSUME IndInv, AcquireAll PROVE IndInv'
  OBVIOUS
<1>1. Senders = {}
  <2>1. IsFiniteSet(Senders) /\ Cardinality(Senders) \in Nat
    BY FiniteSenders, FS_CardinalityType DEF IndInv
  <2>2. Cardinality(Senders) = 0
    BY <2>1 DEF IndInv, PermitInv, HoldsAll, AcquireAll, AllPermitsFree, Capacity
  <2> QED
    BY <2>1, <2>2, FS_EmptySet
<1>2. TypeOK' /\ CurInv'
  BY DEF IndInv, TypeOK, CurInv, AcquireAll, Capacity
<1>3. PermitInv'
  BY <1>1 DEF PermitInv, HoldsAll, AcquireAll, Senders
<1>4. \A c \in Branch : BranchInv(c)'
  <2>1. ASSUME NEW c \in Branch PROVE Issued(c)' = Issued(c)
    BY DEF AcquireAll, Issued
  <2> QED
    BY <2>1, BranchKept DEF IndInv, AcquireAll
<1>5. CloseInv'
  BY DEF IndInv, CloseInv, AcquireAll
<1> QED
  BY <1>2, <1>3, <1>4, <1>5 DEF IndInv

LEMMA CloseStepInv == IndInv /\ (CloseA \/ CloseB) => IndInv'
<1> SUFFICES ASSUME IndInv,
                    NEW c \in Branch, NEW here, NEW there, Close(c, here, there),
                    \/ c = "a" /\ here = "close_a" /\ there = "close_b"
                    \/ c = "b" /\ here = "close_b" /\ there = "done"
             PROVE  IndInv'
  BY DEF CloseA, CloseB, Branch
<1>1. TypeOK' /\ CurInv'
  BY DEF IndInv, TypeOK, CurInv, Close
<1>2. PermitInv'
  BY DEF IndInv, PermitInv, HoldsAll, Close, Senders
<1>3. \A d \in Branch : BranchInv(d)'
  <2>1. ASSUME NEW d \in Branch PROVE Issued(d)' = Issued(d)
    BY DEF Close, Issued
  <2> QED
    BY <2>1, BranchKept DEF IndInv, Close
<1>4. CloseInv'
  BY DEF IndInv, CloseInv, Close, Branch
<1> QED
  BY <1>1, <1>2, <1>3, <1>4 DEF IndInv

LEMMA ReceiveEndInv ==
  ASSUME IndInv, NEW c \in Branch, ReceiveEnd(c)
  PROVE  IndInv'
<1>1. TypeOK' /\ CurInv'
  BY DEF IndInv, TypeOK, CurInv, ReceiveEnd
<1>2. PermitInv'
  BY DEF IndInv, PermitInv, HoldsAll, ReceiveEnd, Senders
<1>3. \A d \in Branch : BranchInv(d)'
  <2>1. ASSUME NEW d \in Branch PROVE Issued(d)' = Issued(d)
    BY DEF ReceiveEnd, Issued
  <2> QED
    BY <2>1, BranchKept DEF IndInv, ReceiveEnd
<1>4. CloseInv'
  BY DEF IndInv, CloseInv, ReceiveEnd
<1> QED
  BY <1>1, <1>2, <1>3, <1>4 DEF IndInv

LEMMA StutterInv == IndInv /\ UNCHANGED vars => IndInv'
BY DEF IndInv, vars, TypeOK, CurInv, PermitInv, HoldsAll, Senders, BranchInv,
       Received, Pending, Issued, CloseInv

\* Every step of Dupe preserves the inductive invariant.
LEMMA NextIndInv == IndInv /\ [Next]_vars => IndInv'
<1> SUFFICES ASSUME IndInv, [Next]_vars PROVE IndInv'
  OBVIOUS
<1>1. CASE Iterate
  BY <1>1, TakeInv, SourceEndInv, SpawnInv, AcquireAllInv, CloseStepInv DEF Iterate
<1>2. ASSUME NEW c \in Branch, NEW e \in 1..MaxEntries, Receive(c, e) \/ Release(c, e)
      PROVE  IndInv'
  BY <1>2, ReceiveInv, ReleaseInv DEF Entry
<1>3. ASSUME NEW c \in Branch, ReceiveEnd(c) PROVE IndInv'
  BY <1>3, ReceiveEndInv
<1>4. CASE Terminated \/ UNCHANGED vars
  BY <1>4, StutterInv DEF Terminated
<1> QED
  BY <1>1, <1>2, <1>3, <1>4 DEF Next

\* The inductive invariant holds in every state of Dupe.
THEOREM Inductive == Spec => []IndInv
BY InitIndInv, NextIndInv, PTL DEF Spec

-----------------------------------------------------------------------------
(* The safety properties *)

\* The steps of Dupe keep the types of its variables; in particular the
\* semaphore never holds more permits than its capacity, which would panic.
THEOREM TypeCorrect == Spec => []TypeOK
BY Inductive, PTL DEF IndInv

\* No sender is left when the channels are closed, whatever the number of
\* entries and the speed of the readers: iterator.go:163-166 cannot panic.
THEOREM NeverSendsOnClosed == Spec => []NoSendOnClosed
<1>1. IndInv => NoSendOnClosed
  BY DEF IndInv, CloseInv, PermitInv, HoldsAll, Senders, NoSendOnClosed
<1> QED
  BY <1>1, Inductive, PTL

\* A reader that has been told the end has had every entry once.
THEOREM NothingLostOrRepeated == Spec => []CompleteAtEnd
<1>1. IndInv => CompleteAtEnd
  <2> SUFFICES ASSUME IndInv, NEW c \in ended
               PROVE  Received(c) = 1..cur /\ IsInjective(got[c])
    BY DEF CompleteAtEnd
  <2>1. c \in Branch /\ pc \in {"close_b", "done"}
    BY DEF IndInv, CloseInv
  <2>2. sending = {}
    BY <2>1 DEF IndInv, PermitInv, HoldsAll, Senders
  <2>3. Pending(c) = {} /\ Issued(c) = cur
    BY <2>1, <2>2 DEF Pending, Issued
  <2> QED
    BY <2>1, <2>3 DEF IndInv, BranchInv
<1> QED
  BY <1>1, Inductive, PTL

-----------------------------------------------------------------------------
(* Back-pressure and reordering *)

\* An injective sequence has as many elements as values.
LEMMA InjectiveLen ==
  ASSUME NEW S, NEW s \in Seq(S), IsInjective(s)
  PROVE  IsFiniteSet(Range(s)) /\ Cardinality(Range(s)) = Len(s)
<1>1. s \in Bijection(1..Len(s), Range(s)) /\ Len(s) \in Nat
  BY LenProperties DEF Bijection, Injection, Surjection, IsInjective, Range
<1>2. ExistsBijection(1..Len(s), Range(s))
  BY <1>1 DEF ExistsBijection
<1> QED
  BY <1>1, <1>2, FS_NatBijection, FS_CountingElements

\* Each pending entry of a branch has a sender, and there are two permits.
LEMMA TwoPending ==
  ASSUME IndInv, NEW c \in Branch
  PROVE  IsFiniteSet(Pending(c)) /\ Cardinality(Pending(c)) \in 0..Capacity
<1>1. IsFiniteSet(Pending(c)) /\ IsFiniteSet(Senders)
  BY FiniteSenders DEF IndInv
<1>2. Cardinality(Senders) \in 0..Capacity
  BY <1>1, FS_CardinalityType, FS_EmptySet DEF IndInv, TypeOK, PermitInv, Capacity
<1> DEFINE sender == [e \in Pending(c) |-> <<c, e>>]
<1>3. sender \in Injection(Pending(c), Senders)
  BY DEF Injection, IsInjective, Pending, Senders
<1>4. Cardinality(Pending(c)) <= Cardinality(Senders)
  BY <1>1, <1>3, FS_Injection
<1> QED
  BY <1>1, <1>2, <1>4, FS_CardinalityType DEF Capacity

\* The iterating goroutine never runs more than three entries ahead of a
\* reader: a source of any length is held in three entries at most.
THEOREM LagIsBounded == Spec => []BoundedLag
<1>1. IndInv => BoundedLag
  <2> SUFFICES ASSUME IndInv, NEW c \in Branch PROVE cur - Len(got[c]) <= 3
    BY DEF BoundedLag
  <2>1. /\ IsFiniteSet(Received(c))
        /\ Cardinality(Received(c)) = Len(got[c])
    BY InjectiveLen DEF IndInv, TypeOK, BranchInv, Received
  <2>2. /\ Issued(c) \in Nat /\ cur <= Issued(c) + 1
        /\ Cardinality(1..Issued(c)) = Issued(c)
    <3>1. Issued(c) \in Nat /\ cur <= Issued(c) + 1
      BY MaxEntriesAssumption DEF IndInv, TypeOK, CurInv, Issued
    <3> QED
      BY <3>1, FS_Interval
  <2>3. Issued(c) = Cardinality(Received(c)) + Cardinality(Pending(c))
    <3>1. IsFiniteSet(Pending(c))
      BY TwoPending
    <3>2. /\ Received(c) \cup Pending(c) = 1..Issued(c)
          /\ Received(c) \cap Pending(c) = {}
      BY DEF IndInv, BranchInv
    <3>3. Cardinality(1..Issued(c)) =
            Cardinality(Received(c)) + Cardinality(Pending(c)) - Cardinality({})
      BY <2>1, <3>1, <3>2, FS_Union, ZenonT(30)
    <3> QED
      BY <2>1, <2>2, <3>1, <3>3, FS_EmptySet, FS_CardinalityType
  <2>4. /\ Cardinality(Received(c)) \in Nat
        /\ Cardinality(Pending(c)) \in 0..2
        /\ cur \in Nat
    BY <2>1, TwoPending, FS_CardinalityType, MaxEntriesAssumption DEF Capacity, IndInv, TypeOK
  <2> QED
    BY <2>1, <2>2, <2>3, <2>4
<1> QED
  BY <1>1, Inductive, PTL

\* The entry that a reader receives next can have overtaken one entry, since
\* only two are pending on its branch.
LEMMA ReceiveReorders ==
  ASSUME IndInv, IndInv', BoundedReordering, NEW c \in Branch, NEW e \in Entry, Receive(c, e)
  PROVE  BoundedReordering'
<1> SUFFICES ASSUME NEW d \in Branch, NEW x \in Received(d)'
             PROVE  Cardinality((1..x) \ Received(d)') <= 1
  BY DEF BoundedReordering
<1>1. got \in [Branch -> Seq(Entry)] /\ got' = [got EXCEPT ![c] = Append(@, e)]
  BY DEF IndInv, TypeOK, Receive
<1>2. \A b \in Branch : Received(b)' = IF b = c THEN Received(b) \cup {e} ELSE Received(b)
  <2>1. Range(Append(got[c], e)) = Range(got[c]) \cup {e}
    BY <1>1, AppendNew
  <2> QED
    BY <1>1, <2>1 DEF Received
<1>3. x \in Entry
  BY RangeOfSeq DEF IndInv, TypeOK, Received
<1>4. CASE x \in Received(d)
  <2>1. Cardinality((1..x) \ Received(d)) <= 1
    BY <1>4 DEF BoundedReordering
  <2>2. IsFiniteSet((1..x) \ Received(d))
    <3>1. IsFiniteSet(1..x)
      BY <1>3, FS_Interval DEF Entry
    <3> QED
      BY <3>1, FS_Difference
  <2>3. (1..x) \ Received(d)' \in SUBSET ((1..x) \ Received(d))
    BY <1>2
  <2> QED
    BY <1>3, <2>1, <2>2, <2>3, FS_Subset, FS_CardinalityType
<1>5. CASE x \notin Received(d)
  <2>1. d = c /\ x = e
    BY <1>2, <1>5
  <2>2. e \in Pending(c) /\ e <= Issued(c)
    <3>1. e \in Pending(c)
      BY DEF Receive, Pending
    <3> QED
      BY <3>1 DEF IndInv, BranchInv
  <2>3. (1..x) \ Received(d)' \in SUBSET (Pending(c) \ {e})
    <3> SUFFICES ASSUME NEW y \in 1..e, y \notin Received(c), y # e
                 PROVE  y \in Pending(c)
      BY <1>2, <2>1
    <3>1. Issued(c) \in Int
      BY DEF IndInv, TypeOK, Issued
    <3>2. y \in 1..Issued(c)
      BY <2>2, <3>1 DEF Entry
    <3> QED
      BY <3>2 DEF IndInv, BranchInv
  <2>4. IsFiniteSet(Pending(c)) /\ Cardinality(Pending(c)) \in 0..2
    BY TwoPending DEF Capacity
  <2>5. IsFiniteSet(Pending(c) \ {e}) /\ Cardinality(Pending(c) \ {e}) <= 1
    <3>1. /\ IsFiniteSet(Pending(c) \ {e})
          /\ Cardinality(Pending(c) \ {e}) = Cardinality(Pending(c)) - 1
      BY <2>2, <2>4, FS_RemoveElement
    <3> QED
      BY <2>4, <3>1
  <2> QED
    BY <2>3, <2>5, FS_Subset, FS_CardinalityType
<1> QED
  BY <1>4, <1>5

\* No other step changes what the readers have received.
LEMMA NextReorders ==
  ASSUME IndInv, IndInv', BoundedReordering, [Next]_vars
  PROVE  BoundedReordering'
<1>1. CASE UNCHANGED got
  BY <1>1 DEF BoundedReordering, Received
<1>2. ASSUME NEW c \in Branch, NEW e \in 1..MaxEntries, Receive(c, e)
      PROVE  BoundedReordering'
  BY <1>2, ReceiveReorders DEF Entry
<1>3. ASSUME NEW c \in Branch, NEW e \in 1..MaxEntries, Release(c, e)
      PROVE  UNCHANGED got
  BY <1>3 DEF Release
<1>4. ASSUME NEW c \in Branch, ReceiveEnd(c) PROVE UNCHANGED got
  BY <1>4 DEF ReceiveEnd
<1>5. CASE Iterate
  BY <1>1, <1>5 DEF Iterate, Take, SourceEnd, SpawnA, SpawnB, Spawn, AcquireAll,
                    CloseA, CloseB, Close
<1> QED
  BY <1>1, <1>2, <1>3, <1>4, <1>5 DEF Next, Terminated, vars

\* However long the source, an entry reaches a reader with at most one of the
\* entries before it still missing: the disorder of a branch is one place.
THEOREM ReorderingIsBounded == Spec => []BoundedReordering
<1>1. Init => BoundedReordering
  BY EmptySeq DEF Init, BoundedReordering, Received, Range
<1>2. IndInv /\ IndInv' /\ BoundedReordering /\ [Next]_vars => BoundedReordering'
  BY NextReorders
<1> QED
  BY <1>1, <1>2, Inductive, PTL DEF Spec

-----------------------------------------------------------------------------
(* Dupe implements Broadcast *)

LEMMA InitMapped == Init => Abstract!Init
BY DEF Init, Abstract!Init, SourceFinished

\* A step of Dupe is a step of the broadcast, or leaves its variables alone.
LEMMA StepMapped ==
  ASSUME IndInv, [Next]_vars
  PROVE  [Abstract!Next]_(Abstract!vars)
<1> USE DEF Abstract!Next, Abstract!vars
<1>1. CASE Take
  BY <1>1 DEF Take, Abstract!Yield, SourceFinished
<1>2. CASE SourceEnd
  BY <1>2 DEF SourceEnd, Abstract!Finish, SourceFinished
<1>3. CASE SpawnA \/ SpawnB
  BY <1>3 DEF SpawnA, SpawnB, Spawn, SourceFinished
<1>4. CASE AcquireAll \/ CloseA \/ CloseB
  BY <1>4 DEF AcquireAll, CloseA, CloseB, Close, SourceFinished
<1>5. ASSUME NEW c \in Branch, NEW e \in 1..MaxEntries, Receive(c, e)
      PROVE  Abstract!Deliver(c)
  <2>1. e \in Pending(c)
    BY <1>5 DEF Receive, Pending, Entry
  <2>2. Issued(c) \in Int /\ Issued(c) <= cur /\ cur \in Int
    BY DEF IndInv, TypeOK, Issued
  <2>3. e \in (1..cur) \ Received(c)
    BY <2>1, <2>2 DEF IndInv, BranchInv
  <2> QED
    BY <1>5, <2>3
       DEF Receive, Abstract!Deliver, Abstract!Received, Abstract!Range,
           Received, Range, SourceFinished
<1>6. ASSUME NEW c \in Branch, NEW e \in 1..MaxEntries, Release(c, e)
      PROVE  UNCHANGED Abstract!vars
  BY <1>6 DEF Release, SourceFinished
<1>7. ASSUME NEW c \in Branch, ReceiveEnd(c)
      PROVE  Abstract!TellEnd(c)
  <2>1. pc \in {"close_b", "done"}
    BY <1>7 DEF ReceiveEnd, IndInv, CloseInv
  <2>2. Pending(c) = {} /\ Issued(c) = cur
    BY <2>1 DEF IndInv, PermitInv, HoldsAll, Senders, Pending, Issued
  <2>3. Received(c) = 1..cur
    BY <2>2 DEF IndInv, BranchInv
  <2> QED
    BY <1>7, <2>1, <2>3
       DEF ReceiveEnd, Abstract!TellEnd, Abstract!Received, Abstract!Range,
           Received, Range, SourceFinished
<1>8. CASE UNCHANGED vars
  BY <1>8 DEF vars, SourceFinished
<1> QED
  BY <1>1, <1>2, <1>3, <1>4, <1>5, <1>6, <1>7, <1>8 DEF Next, Iterate, Terminated

\* Dupe is a broadcast, for every number of entries: each of its behaviours
\* is one of the abstract specification under the mapping of module Dupe.
THEOREM DupeIsBroadcast == Spec => ImplementsBroadcast
<1>1. IndInv /\ [Next]_vars => [Abstract!Next]_(Abstract!vars)
  BY StepMapped
<1> QED
  BY <1>1, InitMapped, Inductive, PTL DEF Spec, ImplementsBroadcast, Abstract!Spec

=============================================================================
