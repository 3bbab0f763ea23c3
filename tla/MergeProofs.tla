---------------------------- MODULE MergeProofs ----------------------------
(***************************************************************************)
(* Proofs about iterator.Merge for every number of entries: the output     *)
(* interleaves the inputs, and ends after both.                            *)
(*                                                                         *)
(* The invariant counts: what the merging goroutine has taken are as many  *)
(* entries as the inputs have handed over, and it gives a channel up only  *)
(* when that is closed.                                                    *)
(***************************************************************************)
EXTENDS Merge, SequenceTheorems, TLAPS

\* The merging goroutine holds an entry exactly while it is in its send.
HeldInv == IF merging = "send" THEN Len(held) = 1 ELSE held = <<>>

\* A goroutine in its send has an entry, and a channel given up is closed.
FeederInv == \A i \in Input : /\ feeder[i] = "send" => fed[i] >= 1
                              /\ i \notin open => feeder[i] = "closed"

\* The output is closed when both channels have been given up.
EndInv == /\ merging = "done" => open = {}
          /\ outEnded => merging = "done"

CountInv == Len(out) + Len(held) = HandedOver("a") + HandedOver("b")

IndInv == TypeOK /\ HeldInv /\ FeederInv /\ EndInv /\ CountInv /\ Interleaves

-----------------------------------------------------------------------------
(* Lemmas about the operators *)

\* Appending the next entry of an input keeps the order of the inputs.
LEMMA AppendNext ==
  ASSUME NEW s \in Seq(Input \X Entry), NEW i \in Input, NEW n \in Entry,
         InInputOrder(s), \A x \in Range(s) : x[1] = i => x[2] < n
  PROVE  /\ Append(s, <<i, n>>) \in Seq(Input \X Entry)
         /\ Range(Append(s, <<i, n>>)) = Range(s) \cup {<<i, n>>}
         /\ InInputOrder(Append(s, <<i, n>>))
<1> DEFINE e == <<i, n>>
           t == Append(s, e)
<1>1. /\ DOMAIN s = 1..Len(s) /\ Len(s) \in Nat
      /\ t \in Seq(Input \X Entry) /\ DOMAIN t = 1..(Len(s) + 1)
      /\ \A k \in 1..Len(s) : t[k] = s[k]
      /\ t[Len(s) + 1] = e
  BY AppendProperties, LenProperties
<1>2. e[1] = i /\ e[2] = n
  OBVIOUS
<1> HIDE DEF t, e
<1>3. Range(t) = Range(s) \cup {e}
  <2>1. ASSUME NEW x \in Range(t) PROVE x \in Range(s) \cup {e}
    BY <1>1 DEF Range
  <2>2. ASSUME NEW x \in Range(s) PROVE x \in Range(t)
    BY <1>1 DEF Range
  <2>3. e \in Range(t)
    BY <1>1 DEF Range
  <2> QED
    BY <2>1, <2>2, <2>3
<1>4. InInputOrder(t)
  <2> SUFFICES ASSUME NEW j \in DOMAIN t, NEW k \in DOMAIN t, j < k, t[j][1] = t[k][1]
               PROVE  t[j][2] < t[k][2]
    BY DEF InInputOrder
  <2>1. j \in 1..Len(s) /\ t[j] = s[j] /\ s[j] \in Range(s)
    BY <1>1 DEF Range
  <2>2. CASE k \in 1..Len(s)
    BY <1>1, <2>1, <2>2 DEF InInputOrder
  <2>3. CASE k = Len(s) + 1
    BY <1>1, <1>2, <2>1, <2>3
  <2> QED
    BY <1>1, <2>2, <2>3
<1> QED
  BY <1>1, <1>3, <1>4 DEF t, e

\* What is handed over and taken, in a state of the right type.
LEMMA TakenType ==
  ASSUME TypeOK
  PROVE  /\ Taken \in Seq(Input \X Entry) /\ Len(Taken) = Len(out) + Len(held)
         /\ Len(out) \in Nat /\ Len(held) \in {0, 1}
         /\ \A i \in Input : fed[i] \in Nat /\ fed[i] <= MaxEntries
<1>1. out \in Seq(Input \X Entry) /\ held \in Seq(Input \X Entry) /\ Len(held) <= 1
  BY DEF TypeOK
<1>2. Taken \in Seq(Input \X Entry) /\ Len(Taken) = Len(out) + Len(held)
  BY <1>1, ConcatProperties DEF Taken
<1>3. Len(out) \in Nat /\ Len(held) \in {0, 1}
  <2>1. Len(out) \in Nat /\ Len(held) \in Nat
    BY <1>1, LenProperties
  <2>2. Len(held) <= 1
    BY <1>1
  <2>3. ASSUME NEW n \in Nat, n <= 1 PROVE n \in {0, 1}
    BY <2>3
  <2> QED
    BY <2>1, <2>2, <2>3
<1>4. \A i \in Input : fed[i] \in Nat /\ fed[i] <= MaxEntries
  BY MaxEntriesAssumption DEF TypeOK
<1> QED
  BY <1>2, <1>3, <1>4

\* A step that takes nothing and hands nothing over.
LEMMA TakenKept ==
  ASSUME Interleaves, UNCHANGED <<out, held>>,
         \A i \in Input : HandedOver(i)' = HandedOver(i)
  PROVE  Interleaves'
<1>1. Taken' = Taken
  BY DEF Taken
<1>2. AllHandedOver' = AllHandedOver
  BY DEF AllHandedOver
<1> QED
  BY <1>1, <1>2 DEF Interleaves

-----------------------------------------------------------------------------
(* The invariant is inductive *)

LEMMA InitIndInv == Init => IndInv
<1> SUFFICES ASSUME Init PROVE IndInv
  OBVIOUS
<1>1. /\ <<>> \in Seq(Input \X Entry) /\ Len(<<>>) = 0 /\ DOMAIN <<>> = {} /\ Range(<<>>) = {}
      /\ <<>> \o <<>> = <<>>
  BY EmptySeq, ConcatEmptySeq DEF Range
<1>2. /\ out = <<>> /\ held = <<>> /\ merging = "select" /\ open = Input /\ outEnded = FALSE
      /\ \A i \in Input : fed[i] = 0 /\ feeder[i] = "next"
      /\ fed = [i \in Input |-> 0] /\ feeder = [i \in Input |-> "next"]
  BY DEF Init
<1>3. TypeOK
  <2>1. fed \in [Input -> 0..MaxEntries] /\ Len(held) <= 1
    BY <1>1, <1>2, MaxEntriesAssumption
  <2> QED
    BY <1>1, <1>2, <2>1 DEF TypeOK
<1>4. HeldInv /\ FeederInv /\ EndInv
  BY <1>2 DEF HeldInv, FeederInv, EndInv
<1>5. \A i \in Input : HandedOver(i) = 0
  BY <1>2 DEF HandedOver
<1>6. CountInv
  BY <1>1, <1>2, <1>5 DEF CountInv, Input
<1>7. Interleaves
  <2>1. AllHandedOver = {}
    BY <1>5 DEF AllHandedOver, Entry
  <2> QED
    BY <1>1, <1>2, <2>1 DEF Interleaves, Taken, InInputOrder
<1> QED
  BY <1>3, <1>4, <1>6, <1>7 DEF IndInv

\* A goroutine takes an entry from its input, or finds its end: nothing is
\* handed over.
LEMMA FeederStepInv ==
  ASSUME IndInv, NEW i \in Input, Take(i) \/ InputEnd(i)
  PROVE  IndInv'
<1>1. /\ feeder[i] = "next" /\ UNCHANGED <<open, merging, held, out, outEnded>>
      /\ \/ /\ fed[i] < MaxEntries /\ fed' = [fed EXCEPT ![i] = @ + 1]
            /\ feeder' = [feeder EXCEPT ![i] = "send"]
         \/ fed' = fed /\ feeder' = [feeder EXCEPT ![i] = "closed"]
  BY DEF Take, InputEnd
<1>2. \A j \in Input : fed[j] \in Nat
  BY TakenType DEF IndInv
<1>3. /\ fed \in [Input -> 0..MaxEntries]
      /\ feeder \in [Input -> {"next", "send", "closed"}]
  BY DEF IndInv, TypeOK
<1>4. /\ feeder'[i] \in {"send", "closed"}
      /\ fed'[i] = IF feeder'[i] = "send" THEN fed[i] + 1 ELSE fed[i]
      /\ \A j \in Input \ {i} : fed'[j] = fed[j] /\ feeder'[j] = feeder[j]
  BY <1>1, <1>3
<1>5. TypeOK'
  <2>1. fed' \in [Input -> 0..MaxEntries]
    BY <1>1, <1>2, <1>3, MaxEntriesAssumption
  <2>2. feeder' \in [Input -> {"next", "send", "closed"}]
    BY <1>1, <1>3
  <2> QED
    BY <1>1, <2>1, <2>2 DEF IndInv, TypeOK
<1>6. \A j \in Input : HandedOver(j)' = HandedOver(j)
  BY <1>1, <1>2, <1>4 DEF HandedOver
<1>7. HeldInv' /\ EndInv'
  BY <1>1 DEF IndInv, HeldInv, EndInv
<1>8. FeederInv'
  BY <1>1, <1>2, <1>4 DEF IndInv, FeederInv
<1>9. CountInv'
  BY <1>1, <1>6 DEF IndInv, CountInv, Input
<1>10. Interleaves'
  BY <1>1, <1>6, TakenKept DEF IndInv
<1> QED
  BY <1>5, <1>7, <1>8, <1>9, <1>10 DEF IndInv

\* The entry that is selected is the next one of its input.
LEMMA SelectInv ==
  ASSUME IndInv, NEW i \in Input, Select(i)
  PROVE  IndInv'
<1> DEFINE e == <<i, fed[i]>>
<1>1. /\ merging = "select" /\ merging' = "send" /\ feeder[i] = "send"
      /\ feeder' = [feeder EXCEPT ![i] = "next"] /\ held' = Append(held, e)
      /\ UNCHANGED <<fed, open, out, outEnded>>
  BY DEF Select, AtSelect
<1>2. /\ held = <<>> /\ fed[i] \in Nat /\ fed[i] >= 1 /\ fed[i] <= MaxEntries
      /\ fed[i] \in Entry /\ out \in Seq(Input \X Entry) /\ MaxEntries \in Nat
  BY <1>1, TakenType, MaxEntriesAssumption DEF IndInv, TypeOK, HeldInv, FeederInv, Entry
<1>3. held' = <<e>> /\ Taken = out /\ Taken' = Append(out, e)
  BY <1>1, <1>2, ConcatEmptySeq DEF Taken
<1>4. /\ HandedOver(i) = fed[i] - 1 /\ HandedOver(i)' = fed[i]
      /\ \A j \in Input \ {i} : HandedOver(j)' = HandedOver(j)
  BY <1>1 DEF IndInv, TypeOK, HandedOver
<1>5. TypeOK'
  BY <1>1, <1>2, <1>3 DEF IndInv, TypeOK
<1>6. HeldInv' /\ EndInv' /\ FeederInv'
  BY <1>1, <1>3 DEF IndInv, TypeOK, HeldInv, EndInv, FeederInv
<1>7. CountInv'
  <2>1. Len(held') = 1 /\ Len(held) = 0 /\ UNCHANGED out
    BY <1>1, <1>2, <1>3
  <2>2. \A j \in Input : HandedOver(j) \in Int
    BY TakenType DEF IndInv, HandedOver
  <2>3. Len(out) \in Nat
    BY TakenType DEF IndInv
  <2> QED
    BY <1>2, <1>4, <2>1, <2>2, <2>3 DEF IndInv, CountInv, Input
<1>8. Interleaves'
  <2>1. Range(out) = AllHandedOver /\ InInputOrder(out)
    BY <1>3 DEF IndInv, Interleaves
  <2>2. \A x \in Range(out) : x[1] = i => x[2] < fed[i]
    BY <1>2, <1>4, <2>1 DEF AllHandedOver, Entry
  <2>3. Range(Taken') = Range(out) \cup {e} /\ InInputOrder(Taken')
    BY <1>2, <1>3, <2>1, <2>2, AppendNext, ZenonT(30)
  <2>4. AllHandedOver' = AllHandedOver \cup {e}
    <3>1. ASSUME NEW x \in Input \X Entry
          PROVE  x[2] <= HandedOver(x[1])' <=> x[2] <= HandedOver(x[1]) \/ x = e
      <4>1. CASE x[1] = i
        BY <1>2, <1>4, <4>1 DEF Entry
      <4>2. CASE x[1] # i
        BY <1>4, <4>2
      <4> QED
        BY <4>1, <4>2
    <3>2. e \in Input \X Entry
      BY <1>2
    <3> QED
      BY <3>1, <3>2 DEF AllHandedOver
  <2>5. InInputOrder(Taken)' /\ Range(Taken)' = AllHandedOver \cup {e}
    BY <2>1, <2>3 DEF InInputOrder, Range
  <2> QED
    BY <2>4, <2>5 DEF Interleaves
<1> QED
  BY <1>5, <1>6, <1>7, <1>8 DEF IndInv

\* The entry in hand is received by the reader of the output.
LEMMA ForwardInv ==
  ASSUME IndInv, Forward
  PROVE  IndInv'
<1>1. /\ out' = out \o held /\ held' = <<>> /\ merging' = "select" /\ merging = "send"
      /\ UNCHANGED <<feeder, fed, open, outEnded>>
  BY DEF Forward, HeldAfterSend
<1>2. /\ out' = Taken /\ Taken \in Seq(Input \X Entry) /\ Len(Taken) = Len(out) + Len(held)
  BY <1>1, TakenType DEF IndInv, Taken
<1>3. Taken' = Taken /\ <<>> \in Seq(Input \X Entry) /\ Len(<<>>) = 0
  BY <1>1, <1>2, ConcatEmptySeq, EmptySeq DEF Taken
<1>4. TypeOK'
  BY <1>1, <1>2, <1>3 DEF IndInv, TypeOK
<1>5. HeldInv' /\ EndInv' /\ FeederInv'
  BY <1>1 DEF IndInv, HeldInv, EndInv, FeederInv
<1>6. \A i \in Input : HandedOver(i)' = HandedOver(i)
  BY <1>1 DEF HandedOver
<1>7. CountInv'
  BY <1>1, <1>2, <1>3, <1>6, TakenType DEF IndInv, CountInv, Input
<1>8. Interleaves'
  BY <1>1, <1>3 DEF IndInv, Interleaves, AllHandedOver, HandedOver
<1> QED
  BY <1>4, <1>5, <1>7, <1>8 DEF IndInv

LEMMA NextIndInv == IndInv /\ [Next]_vars => IndInv'
<1> SUFFICES ASSUME IndInv, [Next]_vars PROVE IndInv'
  OBVIOUS
<1>1. ASSUME NEW i \in Input, Take(i) \/ InputEnd(i) PROVE IndInv'
  BY <1>1, FeederStepInv
<1>2. ASSUME NEW i \in Input, Select(i) PROVE IndInv'
  BY <1>2, SelectInv
<1>3. CASE Forward
  BY <1>3, ForwardInv
<1>4. ASSUME UNCHANGED <<feeder, fed, held, out>>, TypeOK', HeldInv', FeederInv', EndInv'
      PROVE  IndInv'
  <2>1. \A i \in Input : HandedOver(i)' = HandedOver(i)
    BY <1>4 DEF HandedOver
  <2>2. CountInv'
    BY <1>4, <2>1 DEF IndInv, CountInv, Input
  <2>3. Interleaves'
    BY <1>4, <2>1, TakenKept DEF IndInv
  <2> QED
    BY <1>4, <2>2, <2>3 DEF IndInv
<1> USE DEF TypeOK, HeldInv, FeederInv, EndInv
<1>5. ASSUME NEW i \in Input, SelectClosed(i) PROVE IndInv'
  BY <1>4, <1>5 DEF IndInv, SelectClosed, AtSelect, NilOne
<1>6. CASE CloseOut
  BY <1>4, <1>6 DEF IndInv, CloseOut
<1>7. CASE ReceiveEnd
  BY <1>4, <1>7 DEF IndInv, ReceiveEnd
<1>8. CASE UNCHANGED vars
  BY <1>4, <1>8 DEF IndInv, vars
<1> QED
  BY <1>1, <1>2, <1>3, <1>5, <1>6, <1>7, <1>8 DEF Next, Terminated

-----------------------------------------------------------------------------
(* Theorems *)

\* The inductive invariant holds in every state.
THEOREM MergeInductive == Spec => []IndInv
<1> QED
  BY InitIndInv, NextIndInv, PTL DEF Spec

\* The variables keep their types.
THEOREM MergeTypeCorrect == Spec => []TypeOK
<1>1. IndInv => TypeOK
  BY DEF IndInv
<1> QED
  BY <1>1, MergeInductive, PTL

\* However many entries the inputs yield and whenever they end: the output has
\* what each has handed over, once and in its order.
THEOREM MergeInterleaves == Spec => []Interleaves
<1>1. IndInv => Interleaves
  BY DEF IndInv
<1> QED
  BY <1>1, MergeInductive, PTL

\* The reader is told the end only when both inputs are closed and it has
\* received as many entries as they have yielded.
THEOREM MergeEndsAfterBoth == Spec => []EndsAfterBoth
<1>1. IndInv => EndsAfterBoth
  <2> SUFFICES ASSUME IndInv, outEnded
               PROVE  /\ \A i \in Input : feeder[i] = "closed"
                      /\ Len(out) = fed["a"] + fed["b"]
    BY DEF EndsAfterBoth
  <2>1. merging = "done" /\ open = {} /\ held = <<>>
    BY DEF IndInv, EndInv, HeldInv
  <2>2. \A i \in Input : feeder[i] = "closed"
    BY <2>1 DEF IndInv, FeederInv
  <2>3. HandedOver("a") = fed["a"] /\ HandedOver("b") = fed["b"]
    BY <2>2 DEF HandedOver, Input
  <2>4. Len(held) = 0 /\ Len(out) \in Nat
    BY <2>1, TakenType DEF IndInv
  <2> QED
    BY <2>2, <2>3, <2>4 DEF IndInv, CountInv
<1> QED
  BY <1>1, MergeInductive, PTL
=============================================================================
