---------------------------- MODULE FanoutProofs ----------------------------
(***************************************************************************)
(* Proofs about iterator.Fanout for every number of entries: its outputs   *)
(* split the source between them, in order.                                *)
(***************************************************************************)
EXTENDS Fanout, SequenceTheorems, TLAPS

\* An entry in the hand of the goroutine exists; those that have left it are
\* the ones before it.
CurInv == pc = "select" => cur >= 1

IndInv == TypeOK /\ CurInv /\ Partition

-----------------------------------------------------------------------------
(* Lemmas about the operators *)

\* The order of the source within a branch.
Ascending(s) == \A i, j \in DOMAIN s : i < j => s[i] < s[j]

\* Appending an entry that comes after all those received.
LEMMA AppendLater ==
  ASSUME NEW s \in Seq(Entry), NEW e \in Entry, \A x \in Range(s) : x < e, Ascending(s)
  PROVE  /\ Append(s, e) \in Seq(Entry)
         /\ Range(Append(s, e)) = Range(s) \cup {e}
         /\ Ascending(Append(s, e))
<1> DEFINE t == Append(s, e)
<1>1. /\ DOMAIN s = 1..Len(s) /\ Len(s) \in Nat
      /\ t \in Seq(Entry) /\ DOMAIN t = 1..(Len(s) + 1)
      /\ \A i \in 1..Len(s) : t[i] = s[i]
      /\ t[Len(s) + 1] = e
  BY AppendProperties, LenProperties
<1> HIDE DEF t
<1>2. Range(t) = Range(s) \cup {e}
  <2>1. ASSUME NEW x \in Range(t) PROVE x \in Range(s) \cup {e}
    BY <1>1 DEF Range
  <2>2. ASSUME NEW x \in Range(s) PROVE x \in Range(t)
    BY <1>1 DEF Range
  <2>3. e \in Range(t)
    BY <1>1 DEF Range
  <2> QED
    BY <2>1, <2>2, <2>3
<1>3. Ascending(t)
  <2> SUFFICES ASSUME NEW i \in DOMAIN t, NEW j \in DOMAIN t, i < j PROVE t[i] < t[j]
    BY DEF Ascending
  <2>1. i \in 1..Len(s) /\ t[i] = s[i] /\ s[i] \in Range(s)
    BY <1>1 DEF Range
  <2>2. CASE j \in 1..Len(s)
    BY <1>1, <2>1, <2>2 DEF Ascending
  <2>3. CASE j = Len(s) + 1
    BY <1>1, <2>1, <2>3
  <2> QED
    BY <1>1, <2>2, <2>3
<1> QED
  BY <1>1, <1>2, <1>3 DEF t

-----------------------------------------------------------------------------
(* The invariant is inductive *)

LEMMA InitIndInv == Init => IndInv
<1> SUFFICES ASSUME Init PROVE IndInv
  OBVIOUS
<1>1. <<>> \in Seq(Entry) /\ DOMAIN <<>> = {} /\ Range(<<>>) = {}
  BY EmptySeq DEF Range
<1>2. got["a"] = <<>> /\ got["b"] = <<>> /\ got = [c \in Branch |-> <<>>]
  BY DEF Init, Branch
<1>3. pc = "next" /\ cur = 0 /\ closed = {} /\ ended = {}
  BY DEF Init
<1>4. TypeOK /\ CurInv
  <2>1. drain = "none" /\ drained = 0
    BY DEF Init
  <2> QED
    BY <1>1, <1>2, <1>3, <2>1, MaxEntriesAssumption DEF TypeOK, CurInv
<1>5. Partition
  BY <1>1, <1>2, <1>3 DEF Partition, Sent, Branch
<1> QED
  BY <1>4, <1>5 DEF IndInv

\* The entry in hand is later than all that were received, and goes to one
\* branch.
LEMMA ReceiveInv ==
  ASSUME IndInv, NEW c \in Branch, Receive(c)
  PROVE  IndInv'
<1> DEFINE d == IF c = "a" THEN "b" ELSE "a"
<1>1. /\ pc = "select" /\ pc' = "next" /\ cur \in Entry /\ cur >= 1 /\ Sent = 1..(cur - 1)
      /\ got' = [got EXCEPT ![c] = Append(got[c], cur)] /\ UNCHANGED <<drain, drained, cur, closed, ended>>
      /\ got \in [Branch -> Seq(Entry)]
  BY MaxEntriesAssumption DEF IndInv, TypeOK, CurInv, Receive, AfterSelect, Sent, Entry
<1>2. /\ d \in Branch /\ d # c /\ Branch = {c, d}
  BY DEF Branch
<1>3. /\ Range(got[c]) \cup Range(got[d]) = 1..(cur - 1)
      /\ Range(got[c]) \cap Range(got[d]) = {}
      /\ Ascending(got[c]) /\ Ascending(got[d])
  BY <1>1 DEF IndInv, Partition, Ascending, Branch
<1> HIDE DEF d
<1>4. \A x \in Range(got[c]) \cup Range(got[d]) : x < cur
  BY <1>1, <1>3 DEF Entry
<1>5. /\ Append(got[c], cur) \in Seq(Entry)
      /\ Range(Append(got[c], cur)) = Range(got[c]) \cup {cur}
      /\ Ascending(Append(got[c], cur))
  BY <1>1, <1>3, <1>4, AppendLater
<1>6. got'[c] = Append(got[c], cur) /\ got'[d] = got[d] /\ got' \in [Branch -> Seq(Entry)]
  BY <1>1, <1>2, <1>5
<1>7. /\ Range(got'[c]) \cup Range(got'[d]) = 1..cur
      /\ Range(got'[c]) \cap Range(got'[d]) = {}
  <2>1. 1..cur = (1..(cur - 1)) \cup {cur}
    BY <1>1 DEF Entry
  <2> QED
    BY <1>3, <1>4, <1>5, <1>6, <2>1
<1>8. Partition'
  <2>1. Sent' = 1..cur
    BY <1>1 DEF Sent
  <2>2. \A x \in Branch : Ascending(got'[x])
    BY <1>2, <1>3, <1>5, <1>6
  <2>3. /\ Range(got'["a"]) \cup Range(got'["b"]) = 1..cur
        /\ Range(got'["a"]) \cap Range(got'["b"]) = {}
    BY <1>2, <1>7 DEF Branch
  <2> QED
    BY <2>1, <2>2, <2>3 DEF Partition, Ascending
<1>9. TypeOK' /\ CurInv'
  BY <1>1, <1>6 DEF IndInv, TypeOK, CurInv
<1> QED
  BY <1>8, <1>9 DEF IndInv

LEMMA NextIndInv == IndInv /\ [Next]_vars => IndInv'
<1> SUFFICES ASSUME IndInv, [Next]_vars PROVE IndInv'
  OBVIOUS
<1> USE MaxEntriesAssumption DEF IndInv, TypeOK, CurInv
<1>1. ASSUME UNCHANGED got, Sent' = Sent PROVE Partition'
  BY <1>1 DEF Partition
<1>2. CASE Take
  <2>1. Sent' = Sent
    BY <1>2 DEF Take, Sent
  <2>2. TypeOK' /\ CurInv'
    BY <1>2 DEF Take
  <2> QED
    BY <1>1, <1>2, <2>1, <2>2 DEF Take
<1>3. CASE SourceEnd \/ SourceFails
  BY <1>1, <1>3 DEF SourceEnd, SourceFails, Sent
<1>4. CASE CloseA
  BY <1>1, <1>4 DEF CloseA, Close, Sent, Branch
<1>5. CASE CloseB
  BY <1>1, <1>5 DEF CloseB, Close, Sent, Branch
<1>6. ASSUME NEW c \in Branch, Receive(c) PROVE IndInv'
  BY <1>6, ReceiveInv
<1>7. ASSUME NEW c \in Branch, ReceiveEnd(c) PROVE IndInv'
  BY <1>1, <1>7 DEF ReceiveEnd, FoundClosed, Sent
<1>8. CASE UNCHANGED vars
  BY <1>1, <1>8 DEF vars, Sent
<1>9. CASE Drain
  <2>1. drained' \in 0..MaxEntries
    BY <1>9 DEF Drain, DrainTake, DrainEnd
  <2> QED
    BY <1>1, <1>9, <2>1 DEF Drain, DrainTake, DrainEnd, Sent
<1> QED
  BY <1>2, <1>3, <1>4, <1>5, <1>6, <1>7, <1>8, <1>9 DEF Next, Iterate, Terminated

-----------------------------------------------------------------------------
(* Theorems *)

\* The inductive invariant holds in every state.
THEOREM FanoutInductive == Spec => []IndInv
<1> QED
  BY InitIndInv, NextIndInv, PTL DEF Spec

\* The variables keep their types, and the channels closed are those whose
\* close the goroutine has passed.
THEOREM FanoutTypeCorrect == Spec => []TypeOK
<1>1. IndInv => TypeOK
  BY DEF IndInv
<1> QED
  BY <1>1, FanoutInductive, PTL

\* However many entries there are, each one that has left the goroutine has
\* been received by exactly one reader, and each reader has received its own
\* in the order of the source.
THEOREM FanoutPartition == Spec => []Partition
<1>1. IndInv => Partition
  BY DEF IndInv
<1> QED
  BY <1>1, FanoutInductive, PTL
=============================================================================
