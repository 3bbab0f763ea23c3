---------------------------- MODULE LexerProofs ----------------------------
(***************************************************************************)
(* Proofs about the lexing goroutine, its ring of runes and the token      *)
(* stream, for every text, ring size and capacity of the push-back buffer: *)
(* the ring implements the window on the text, every variable has its      *)
(* type, the parser accepts the tokens in order, each once, the tokens     *)
(* cover the text, and they carry their lines and positions.               *)
(***************************************************************************)
EXTENDS Lexer, FiniteSetTheorems, SequenceTheorems, TLAPS

-----------------------------------------------------------------------------
(* Lemmas about the pointers of the ring *)

Pointer == 0..(Size - 1)

LEMMA ModBelow == \A x \in Pointer : x % Size = x
BY SizeAssumption DEF Pointer

LEMMA ModAbove == \A x \in Size..(2 * Size - 1) : x % Size = x - Size
BY SizeAssumption DEF Pointer

\* One place on, around the end of the ring.
LEMMA IncrementIs ==
  \A i \in Pointer : /\ increment(i) = IF i = Size - 1 THEN 0 ELSE i + 1
                     /\ increment(i) \in Pointer
<1> SUFFICES ASSUME NEW i \in Pointer
             PROVE  /\ increment(i) = IF i = Size - 1 THEN 0 ELSE i + 1
                    /\ increment(i) \in Pointer
  OBVIOUS
<1>1. CASE i = Size - 1
  <2>1. i + 1 \in Size..(2 * Size - 1) /\ i + 1 = Size
    BY <1>1, SizeAssumption DEF Pointer
  <2> QED
    BY <2>1, <1>1, ModAbove, SizeAssumption DEF increment, Pointer
<1>2. CASE i # Size - 1
  <2>1. i + 1 \in Pointer
    BY <1>2, SizeAssumption DEF Pointer
  <2> QED
    BY <2>1, <1>2, ModBelow DEF increment
<1> QED
  BY <1>1, <1>2

\* One place back.
LEMMA DecrementIs ==
  \A i \in Pointer : /\ decrement(i) = IF i = 0 THEN Size - 1 ELSE i - 1
                     /\ decrement(i) \in Pointer
<1> SUFFICES ASSUME NEW i \in Pointer
             PROVE  /\ decrement(i) = IF i = 0 THEN Size - 1 ELSE i - 1
                    /\ decrement(i) \in Pointer
  OBVIOUS
<1>1. CASE i = 0
  <2>1. i - 1 + Size \in Pointer /\ i - 1 + Size = Size - 1
    BY <1>1, SizeAssumption DEF Pointer
  <2> QED
    BY <2>1, <1>1, ModBelow DEF decrement
<1>2. CASE i # 0
  <2>1. i - 1 + Size \in Size..(2 * Size - 1) /\ (i - 1 + Size) - Size = i - 1
    BY <1>2, SizeAssumption DEF Pointer
  <2> QED
    BY <2>1, <1>2, ModAbove, SizeAssumption DEF decrement, Pointer
<1> QED
  BY <1>1, <1>2

\* The places from one pointer up to another.
LEMMA DistanceIs ==
  \A i, j \in Pointer : /\ Distance(i, j) = IF i <= j THEN j - i ELSE j - i + Size
                        /\ Distance(i, j) \in Pointer
<1> SUFFICES ASSUME NEW i \in Pointer, NEW j \in Pointer
             PROVE  /\ Distance(i, j) = IF i <= j THEN j - i ELSE j - i + Size
                    /\ Distance(i, j) \in Pointer
  OBVIOUS
<1>1. CASE i <= j
  <2>1. j - i + Size \in Size..(2 * Size - 1) /\ (j - i + Size) - Size = j - i
    BY <1>1, SizeAssumption DEF Pointer
  <2> QED
    BY <2>1, <1>1, ModAbove, SizeAssumption DEF Distance, Pointer
<1>2. CASE ~(i <= j)
  <2>1. j - i + Size \in Pointer
    BY <1>2, SizeAssumption DEF Pointer
  <2> QED
    BY <2>1, <1>2, ModBelow DEF Distance
<1> QED
  BY <1>1, <1>2

LEMMA DistanceSelf == \A i \in Pointer : Distance(i, i) = 0
BY DistanceIs DEF Pointer

\* A place that is counted from the start of the token.
LEMMA PlaceIs ==
  \A s \in Pointer, k \in Pointer :
     /\ (s + k) % Size = IF s + k < Size THEN s + k ELSE s + k - Size
     /\ (s + k) % Size \in Pointer
<1> SUFFICES ASSUME NEW s \in Pointer, NEW k \in Pointer
             PROVE  /\ (s + k) % Size = IF s + k < Size THEN s + k ELSE s + k - Size
                    /\ (s + k) % Size \in Pointer
  OBVIOUS
<1>1. CASE s + k < Size
  <2>1. s + k \in Pointer
    BY <1>1, SizeAssumption DEF Pointer
  <2> QED
    BY <2>1, <1>1, ModBelow
<1>2. CASE ~(s + k < Size)
  <2>1. s + k \in Size..(2 * Size - 1) /\ s + k - Size \in Pointer
    BY <1>2, SizeAssumption DEF Pointer
  <2> QED
    BY <2>1, <1>2, ModAbove, SizeAssumption DEF Pointer
<1> QED
  BY <1>1, <1>2

-----------------------------------------------------------------------------
(* The ring *)

\* What a place of the ring holds.
Rune == STRING \cup {NoRune}

ring == <<text, fetched, buf, startPtr, readPtr, writePtr>>

\* The runes that the ring keeps from the start of the token, and those that
\* are read next without a fetch.
Kept == Distance(startPtr, writePtr)
Unseen == Distance(readPtr, writePtr)

PointersOK == startPtr \in Pointer /\ readPtr \in Pointer /\ writePtr \in Pointer
TextOK == text \in Texts /\ fetched \in 0..Len(text)

\* The token starts in the text, and its reading goes on in it.
OrderInv == Unseen <= Kept /\ Kept <= fetched

\* Each rune that is kept is the one of its place in the text.
ContentInv ==
  /\ buf \in [Pointer -> Rune]
  /\ \A p \in Pointer :
       Distance(p, writePtr) \in 1..Kept => buf[p] = text[fetched - Distance(p, writePtr) + 1]

RingInv == PointersOK /\ TextOK /\ OrderInv /\ ContentInv

\* What a step of the program does to the ring.
RingStep == Read \/ Unread \/ Reset \/ Discard \/ UNCHANGED ring

LEMMA TextIsSeq ==
  ASSUME TextOK
  PROVE  text \in Seq(STRING) /\ Len(text) \in Nat /\ \A i \in 1..Len(text) : text[i] \in STRING
<1>1. text \in Seq(STRING)
  BY TextsAssumption DEF TextOK
<1> QED
  BY <1>1, LenProperties, ElementOfSeq

LEMMA InitRing == Init => RingInv
<1> SUFFICES ASSUME Init PROVE RingInv
  OBVIOUS
<1>1. PointersOK
  BY SizeAssumption DEF Init, BufInit, PointersOK, Pointer
<1>2. TextOK
  <2>1. text \in Seq(STRING) /\ fetched = 0 /\ text \in Texts
    BY TextsAssumption DEF Init, BufInit
  <2> QED
    BY <2>1, LenProperties DEF TextOK
<1>3. Kept = 0 /\ Unseen = 0
  <2>1. startPtr = 0 /\ readPtr = 0 /\ writePtr = 0 /\ 0 \in Pointer
    BY SizeAssumption DEF Init, BufInit, Pointer
  <2>2. Distance(0, 0) = 0
    BY <2>1, DistanceIs
  <2> QED
    BY <2>1, <2>2 DEF Kept, Unseen
<1>4. ContentInv
  <2>1. buf \in [Pointer -> Rune]
    <3>1. NoRune \in Rune
      BY DEF Rune
    <3> QED
      BY <3>1 DEF Init, BufInit, Pointer
  <2> QED
    BY <2>1, <1>3 DEF ContentInv
<1>5. OrderInv
  BY <1>3 DEF OrderInv, Init, BufInit
<1> QED
  BY <1>1, <1>2, <1>4, <1>5 DEF RingInv

\* The reading pointer moves on over what has been fetched before.
LEMMA ReadSeen ==
  ASSUME RingInv, Read, readPtr # writePtr
  PROVE  /\ Unseen > 0
         /\ UNCHANGED <<text, fetched, buf, startPtr, writePtr>>
         /\ readPtr' \in Pointer
         /\ Unseen' = Unseen - 1
         /\ Kept' = Kept
<1>1. /\ UNCHANGED <<text, fetched, buf, startPtr, writePtr>>
      /\ readPtr' = increment(readPtr)
  BY DEF Read
<1>2. readPtr \in Pointer /\ writePtr \in Pointer /\ startPtr \in Pointer
  BY DEF RingInv, PointersOK
<1>3. readPtr' \in Pointer /\ readPtr' = IF readPtr = Size - 1 THEN 0 ELSE readPtr + 1
  BY <1>1, <1>2, IncrementIs
<1>4. Unseen = IF readPtr <= writePtr THEN writePtr - readPtr ELSE writePtr - readPtr + Size
  BY <1>2, DistanceIs DEF Unseen
<1>5. Unseen' = IF readPtr' <= writePtr THEN writePtr - readPtr' ELSE writePtr - readPtr' + Size
  BY <1>1, <1>2, <1>3, DistanceIs DEF Unseen
<1>6. Unseen > 0 /\ Unseen' = Unseen - 1
  BY <1>2, <1>3, <1>4, <1>5, SizeAssumption DEF Pointer
<1>7. Kept' = Kept
  BY <1>1 DEF Kept
<1> QED
  BY <1>1, <1>3, <1>6, <1>7

\* A rune is fetched and read; where the ring is full the start moves on.
LEMMA ReadFetched ==
  ASSUME RingInv, Read, readPtr = writePtr
  PROVE  /\ Unseen = 0 /\ Unseen' = 0
         /\ fetched < Len(text) /\ fetched' = fetched + 1 /\ text' = text
         /\ PointersOK'
         /\ readPtr' = writePtr' /\ writePtr' = increment(writePtr)
         /\ buf' = [buf EXCEPT ![writePtr] = text[fetched + 1]]
         /\ Kept' = IF Kept = Size - 1 THEN Kept ELSE Kept + 1
         /\ startPtr' = IF Kept = Size - 1 THEN increment(startPtr) ELSE startPtr
<1>1. /\ fetched # Len(text) /\ fetched' = fetched + 1 /\ text' = text
      /\ writePtr' = increment(writePtr) /\ readPtr' = increment(readPtr)
      /\ buf' = [buf EXCEPT ![writePtr] = text[fetched + 1]]
      /\ startPtr' = IF startPtr = writePtr' THEN increment(startPtr) ELSE startPtr
  BY DEF Read, Fetch, AtEof, PushStart
<1>2. readPtr \in Pointer /\ writePtr \in Pointer /\ startPtr \in Pointer
  BY DEF RingInv, PointersOK
<1>3. /\ writePtr' \in Pointer
      /\ writePtr' = IF writePtr = Size - 1 THEN 0 ELSE writePtr + 1
  BY <1>1, <1>2, IncrementIs
<1>4. /\ increment(startPtr) \in Pointer
      /\ increment(startPtr) = IF startPtr = Size - 1 THEN 0 ELSE startPtr + 1
  BY <1>2, IncrementIs
<1>5. startPtr' \in Pointer /\ readPtr' \in Pointer /\ readPtr' = writePtr'
  BY <1>1, <1>2, <1>3, <1>4
<1>6. Kept = IF startPtr <= writePtr THEN writePtr - startPtr ELSE writePtr - startPtr + Size
  BY <1>2, DistanceIs DEF Kept
<1>7. Kept' = IF startPtr' <= writePtr' THEN writePtr' - startPtr'
              ELSE writePtr' - startPtr' + Size
  BY <1>3, <1>5, DistanceIs DEF Kept
<1>8. startPtr = writePtr' <=> Kept = Size - 1
  BY <1>2, <1>3, <1>6, SizeAssumption DEF Pointer
<1>9. Kept' = IF Kept = Size - 1 THEN Kept ELSE Kept + 1
  <2>1. CASE startPtr = writePtr'
    <3>1. startPtr' = increment(startPtr) /\ Kept = Size - 1
      BY <2>1, <1>1, <1>8
    <3> QED
      BY <3>1, <2>1, <1>2, <1>4, <1>7, SizeAssumption DEF Pointer
  <2>2. CASE startPtr # writePtr'
    <3>1. startPtr' = startPtr /\ Kept # Size - 1
      BY <2>2, <1>1, <1>8
    <3> QED
      BY <3>1, <2>2, <1>2, <1>3, <1>6, <1>7, SizeAssumption DEF Pointer
  <2> QED
    BY <2>1, <2>2
<1>10. Unseen = 0 /\ Unseen' = 0
  BY <1>2, <1>3, <1>5, DistanceSelf DEF Unseen
<1>11. fetched < Len(text)
  <2>1. fetched \in 0..Len(text) /\ Len(text) \in Nat
    BY TextIsSeq DEF RingInv, TextOK
  <2> QED
    BY <2>1, <1>1
<1> QED
  BY <1>1, <1>3, <1>5, <1>8, <1>9, <1>10, <1>11 DEF PointersOK

\* A rune that has been fetched is kept at the place of the writing pointer.
LEMMA FetchKeepsContent ==
  ASSUME RingInv, Read, readPtr = writePtr
  PROVE  ContentInv'
<1>1. /\ fetched' = fetched + 1 /\ text' = text
      /\ PointersOK'
      /\ writePtr' = increment(writePtr)
      /\ buf' = [buf EXCEPT ![writePtr] = text[fetched + 1]]
      /\ Kept' = IF Kept = Size - 1 THEN Kept ELSE Kept + 1
      /\ fetched < Len(text)
  BY ReadFetched
<1>2. PointersOK /\ TextOK /\ ContentInv
  BY DEF RingInv
<1>3. writePtr \in Pointer /\ writePtr' \in Pointer /\ startPtr \in Pointer
  BY <1>1, <1>2 DEF PointersOK
<1>4. writePtr' = IF writePtr = Size - 1 THEN 0 ELSE writePtr + 1
  BY <1>1, <1>3, IncrementIs
<1>5. text[fetched + 1] \in STRING
  <2>1. fetched \in 0..Len(text) /\ Len(text) \in Nat /\ \A i \in 1..Len(text) : text[i] \in STRING
    BY <1>2, TextIsSeq DEF TextOK
  <2> QED
    BY <2>1, <1>1
<1>6. buf' \in [Pointer -> Rune]
  BY <1>1, <1>2, <1>3, <1>5 DEF ContentInv, Rune
<1>7. ASSUME NEW p \in Pointer, Distance(p, writePtr') \in 1..Kept'
      PROVE  buf'[p] = text[fetched' - Distance(p, writePtr') + 1]
  <2>1. Distance(p, writePtr') = IF p <= writePtr' THEN writePtr' - p ELSE writePtr' - p + Size
    BY <1>3, DistanceIs
  <2>2. /\ Distance(p, writePtr) = IF p <= writePtr THEN writePtr - p ELSE writePtr - p + Size
        /\ Distance(p, writePtr) \in Pointer
    BY <1>3, DistanceIs
  <2>3. Kept \in Pointer
    BY <1>3, DistanceIs DEF Kept
  <2>4. fetched \in Int
    BY <1>2 DEF TextOK
  <2>5. CASE p = writePtr
    <3>1. Distance(p, writePtr') = 1
      BY <2>1, <2>5, <1>3, <1>4, SizeAssumption DEF Pointer
    <3>2. buf'[p] = text[fetched + 1]
      BY <2>5, <1>1, <1>2 DEF ContentInv
    <3>3. fetched' - Distance(p, writePtr') + 1 = fetched + 1
      BY <3>1, <1>1, <2>4
    <3> QED
      BY <3>2, <3>3, <1>1
  <2>6. CASE p # writePtr
    <3>1. Distance(p, writePtr') = Distance(p, writePtr) + 1
      <4>1. Distance(p, writePtr') \in 1..(Size - 1)
        <5>1. Distance(p, writePtr') \in Pointer
          BY <1>3, DistanceIs
        <5>2. Distance(p, writePtr') >= 1
          BY <1>7, <2>3, <1>1 DEF Pointer
        <5> QED
          BY <5>1, <5>2, SizeAssumption DEF Pointer
      <4>2. p # writePtr'
        <5> SUFFICES ASSUME p = writePtr' PROVE FALSE
          OBVIOUS
        <5>1. Distance(p, writePtr') = 0
          BY <1>3, DistanceSelf
        <5> QED
          BY <5>1, <4>1
      <4> QED
        BY <4>2, <2>1, <2>2, <2>6, <1>3, <1>4, SizeAssumption DEF Pointer
    <3>2. Distance(p, writePtr) \in 1..Kept
      <4>1. Distance(p, writePtr) # 0
        BY <2>2, <2>6, <1>3, SizeAssumption DEF Pointer
      <4>2. Distance(p, writePtr) + 1 <= Kept + 1
        BY <1>7, <3>1, <1>1, <2>2, <2>3 DEF Pointer
      <4> QED
        BY <4>1, <4>2, <2>2, <2>3 DEF Pointer
    <3>3. buf[p] = text[fetched - Distance(p, writePtr) + 1]
      BY <3>2, <1>2 DEF ContentInv
    <3>4. fetched' - Distance(p, writePtr') + 1 = fetched - Distance(p, writePtr) + 1
      BY <3>1, <1>1, <2>2, <2>4 DEF Pointer
    <3>5. buf'[p] = buf[p]
      BY <2>6, <1>1, <1>2 DEF ContentInv
    <3> QED
      BY <3>3, <3>4, <3>5, <1>1
  <2> QED
    BY <2>5, <2>6
<1>8. \A p \in Pointer : Distance(p, writePtr') \in 1..Kept'
         => buf'[p] = text'[fetched' - Distance(p, writePtr') + 1]
  BY <1>1, <1>7
<1> QED
  BY <1>6, <1>8 DEF ContentInv, Distance

\* What the other steps of the ring do, in terms of the window.
LEMMA UnreadIs ==
  ASSUME RingInv, Unread
  PROVE  /\ UNCHANGED <<text, fetched, buf, startPtr, writePtr>>
         /\ readPtr' \in Pointer
         /\ Kept' = Kept
         /\ \/ readPtr = startPtr /\ readPtr' = readPtr /\ Unseen' = Unseen
            \/ Unseen < Kept /\ Unseen' = Unseen + 1
<1>1. UNCHANGED <<text, fetched, buf, startPtr, writePtr>> /\ Kept' = Kept
  BY DEF Unread, Kept
<1>2. readPtr \in Pointer /\ writePtr \in Pointer /\ startPtr \in Pointer
  BY DEF RingInv, PointersOK
<1>3. CASE readPtr = startPtr
  <2>1. readPtr' = readPtr
    BY <1>3 DEF Unread
  <2> QED
    BY <2>1, <1>1, <1>2, <1>3 DEF Unseen
<1>4. CASE readPtr # startPtr
  <2>1. readPtr' = decrement(readPtr)
    BY <1>4 DEF Unread
  <2>2. readPtr' \in Pointer /\ readPtr' = IF readPtr = 0 THEN Size - 1 ELSE readPtr - 1
    BY <2>1, <1>2, DecrementIs
  <2>3. Unseen = IF readPtr <= writePtr THEN writePtr - readPtr ELSE writePtr - readPtr + Size
    BY <1>2, DistanceIs DEF Unseen
  <2>4. Kept = IF startPtr <= writePtr THEN writePtr - startPtr ELSE writePtr - startPtr + Size
    BY <1>2, DistanceIs DEF Kept
  <2>5. Unseen < Kept
    <3>1. Unseen <= Kept
      BY DEF RingInv, OrderInv
    <3>2. Unseen # Kept
      BY <2>3, <2>4, <1>2, <1>4, SizeAssumption DEF Pointer
    <3>3. Unseen \in Int /\ Kept \in Int
      BY <1>2, DistanceIs DEF Unseen, Kept, Pointer
    <3> QED
      BY <3>1, <3>2, <3>3
  <2>6. Unseen' = IF readPtr' <= writePtr THEN writePtr - readPtr' ELSE writePtr - readPtr' + Size
    BY <1>1, <1>2, <2>2, DistanceIs DEF Unseen
  <2>7. Kept <= Size - 1
    BY <1>2, DistanceIs, SizeAssumption DEF Kept, Pointer
  <2>8. Unseen' = Unseen + 1
    <3>1. Unseen # Size - 1
      BY <2>3, <2>5, <2>7, <1>2, <2>4, SizeAssumption DEF Pointer
    <3> QED
      BY <2>2, <2>3, <2>6, <3>1, <1>2, SizeAssumption DEF Pointer
  <2> QED
    BY <1>1, <2>2, <2>5, <2>8
<1> QED
  BY <1>3, <1>4

LEMMA ResetIs ==
  ASSUME RingInv, Reset
  PROVE  /\ UNCHANGED <<text, fetched, buf, startPtr, writePtr>>
         /\ readPtr' \in Pointer
         /\ Kept' = Kept
         /\ Unseen' = Kept
BY DEF RingInv, PointersOK, Reset, Kept, Unseen

LEMMA DiscardIs ==
  ASSUME RingInv, Discard
  PROVE  /\ UNCHANGED <<text, fetched, buf, readPtr, writePtr>>
         /\ startPtr' \in Pointer
         /\ Kept' = Unseen
         /\ Unseen' = Unseen
BY DEF RingInv, PointersOK, Discard, Kept, Unseen

\* Whatever a step does to it, the ring keeps its order and its content.
LEMMA StepRing ==
  ASSUME RingInv, RingStep
  PROVE  RingInv'
<1>1. PointersOK /\ TextOK /\ OrderInv /\ ContentInv
  BY DEF RingInv
<1>2. /\ Kept \in Pointer /\ Unseen \in Pointer /\ fetched \in Nat /\ Len(text) \in Nat
      /\ fetched <= Len(text) /\ Unseen <= Kept /\ Kept <= fetched
  <2>1. Kept \in Pointer /\ Unseen \in Pointer
    BY <1>1, DistanceIs DEF Kept, Unseen, PointersOK
  <2> QED
    BY <2>1, <1>1, TextIsSeq DEF OrderInv, TextOK
<1>3. ASSUME UNCHANGED <<text, fetched, buf, writePtr>>, PointersOK',
             Unseen' <= Kept', Kept' <= Kept, Kept' \in Int
      PROVE  RingInv'
  <2>1. TextOK'
    BY <1>1, <1>3 DEF TextOK
  <2>2. OrderInv'
    BY <1>2, <1>3 DEF OrderInv, Pointer
  <2>3. ContentInv'
    <3>1. \A p \in Pointer : Distance(p, writePtr) \in 1..Kept' => Distance(p, writePtr) \in 1..Kept
      BY <1>2, <1>3 DEF Pointer
    <3>2. \A p \in Pointer : Distance(p, writePtr) \in 1..Kept'
             => buf[p] = text[fetched - Distance(p, writePtr) + 1]
      BY <3>1, <1>1 DEF ContentInv
    <3>3. buf \in [Pointer -> Rune]
      BY <1>1 DEF ContentInv
    <3> QED
      BY <3>2, <3>3, <1>3 DEF ContentInv, Distance
  <2> QED
    BY <1>3, <2>1, <2>2, <2>3 DEF RingInv
<1>4. CASE Read /\ readPtr # writePtr
  <2>1. PointersOK'
    BY <1>1, <1>4, ReadSeen DEF PointersOK
  <2>2. /\ UNCHANGED <<text, fetched, buf, writePtr>>
        /\ Unseen' = Unseen - 1 /\ Kept' = Kept
    BY <1>4, ReadSeen
  <2> QED
    BY <2>1, <2>2, <1>2, <1>3 DEF Pointer
<1>5. CASE Read /\ readPtr = writePtr
  <2>1. /\ Unseen = 0 /\ Unseen' = 0
        /\ fetched < Len(text) /\ fetched' = fetched + 1 /\ text' = text
        /\ PointersOK'
        /\ Kept' = IF Kept = Size - 1 THEN Kept ELSE Kept + 1
    BY <1>5, ReadFetched
  <2>2. TextOK'
    BY <2>1, <1>1, <1>2 DEF TextOK
  <2>3. OrderInv'
    BY <2>1, <1>2 DEF OrderInv, Pointer
  <2>4. ContentInv'
    BY <1>5, FetchKeepsContent
  <2> QED
    BY <2>1, <2>2, <2>3, <2>4 DEF RingInv
<1>6. CASE Unread
  <2>1. PointersOK'
    BY <1>1, <1>6, UnreadIs DEF PointersOK
  <2>2. /\ UNCHANGED <<text, fetched, buf, writePtr>> /\ Kept' = Kept
        /\ Unseen' = Unseen \/ (Unseen < Kept /\ Unseen' = Unseen + 1)
    BY <1>6, UnreadIs
  <2> QED
    BY <2>1, <2>2, <1>2, <1>3 DEF Pointer
<1>7. CASE Reset
  <2>1. PointersOK'
    BY <1>1, <1>7, ResetIs DEF PointersOK
  <2>2. /\ UNCHANGED <<text, fetched, buf, writePtr>>
        /\ Kept' = Kept /\ Unseen' = Kept
    BY <1>7, ResetIs
  <2> QED
    BY <2>1, <2>2, <1>2, <1>3 DEF Pointer
<1>8. CASE Discard
  <2>1. PointersOK'
    BY <1>1, <1>8, DiscardIs DEF PointersOK
  <2>2. /\ UNCHANGED <<text, fetched, buf, writePtr>>
        /\ Kept' = Unseen /\ Unseen' = Unseen
    BY <1>8, DiscardIs
  <2> QED
    BY <2>1, <2>2, <1>2, <1>3 DEF Pointer
<1>9. CASE UNCHANGED ring
  BY <1>9 DEF ring, RingInv, PointersOK, TextOK, OrderInv, ContentInv, Kept, Unseen, Distance
<1> QED
  BY <1>4, <1>5, <1>6, <1>7, <1>8, <1>9 DEF RingStep

-----------------------------------------------------------------------------
(* The ring implements the window *)

LEMMA Positions ==
  /\ PositionOf(startPtr) = fetched - Kept
  /\ PositionOf(readPtr) = fetched - Unseen
BY DEF PositionOf, Kept, Unseen

LEMMA InitWindow == Init => Abstract!Init
<1> SUFFICES ASSUME Init PROVE Abstract!Init
  OBVIOUS
<1>1. /\ text \in Texts /\ fetched = 0 /\ startPtr = 0 /\ readPtr = 0 /\ writePtr = 0
  BY DEF Init, BufInit
<1>2. Distance(0, 0) = 0
  BY DistanceSelf, SizeAssumption DEF Pointer
<1> QED
  BY <1>1, <1>2 DEF Abstract!Init, PositionOf

\* A step of the ring is a step of the window, or leaves it alone.
LEMMA StepWindow ==
  ASSUME RingInv, RingStep
  PROVE  [Abstract!Next]_(Abstract!vars)
<1> DEFINE first == PositionOf(startPtr)
           place == PositionOf(readPtr)
<1>1. PointersOK /\ TextOK /\ OrderInv
  BY DEF RingInv
<1>2. /\ Kept \in Pointer /\ Unseen \in Pointer /\ fetched \in Nat /\ Len(text) \in Nat
      /\ fetched <= Len(text) /\ Unseen <= Kept /\ Kept <= fetched
  <2>1. Kept \in Pointer /\ Unseen \in Pointer
    BY <1>1, DistanceIs DEF Kept, Unseen, PointersOK
  <2> QED
    BY <2>1, <1>1, TextIsSeq DEF OrderInv, TextOK
<1>3. /\ first = fetched - Kept /\ place = fetched - Unseen
      /\ first' = fetched' - Kept' /\ place' = fetched' - Unseen'
  BY Positions DEF PositionOf, Kept, Unseen
<1> HIDE DEF first, place
<1>4. CASE Read /\ readPtr # writePtr
  <2>1. /\ text' = text /\ fetched' = fetched /\ Unseen > 0
        /\ Unseen' = Unseen - 1 /\ Kept' = Kept
    BY <1>4, ReadSeen
  <2>2. /\ place < Len(text) /\ place' = place + 1 /\ place < fetched
        /\ first' = first
    BY <2>1, <1>2, <1>3 DEF Pointer
  <2> QED
    BY <2>1, <2>2 DEF Abstract!Next, Abstract!Advance, first, place
<1>5. CASE Read /\ readPtr = writePtr
  <2>1. /\ Unseen = 0 /\ Unseen' = 0
        /\ fetched < Len(text) /\ fetched' = fetched + 1 /\ text' = text
        /\ Kept' = IF Kept = Size - 1 THEN Kept ELSE Kept + 1
    BY <1>5, ReadFetched
  <2>2. /\ place < Len(text) /\ place' = place + 1 /\ ~(place < fetched)
        /\ first' = IF fetched' - first > Size - 1 THEN first + 1 ELSE first
    BY <2>1, <1>2, <1>3, SizeAssumption DEF Pointer
  <2> QED
    BY <2>1, <2>2 DEF Abstract!Next, Abstract!Advance, first, place
<1>6. CASE Unread
  <2>1. /\ text' = text /\ fetched' = fetched /\ Kept' = Kept
        /\ Unseen' = Unseen \/ (Unseen < Kept /\ Unseen' = Unseen + 1)
    BY <1>6, UnreadIs
  <2>2. first' = first
    BY <2>1, <1>3
  <2>3. CASE Unseen' = Unseen
    BY <2>1, <2>2, <2>3, <1>3 DEF Abstract!vars, first, place
  <2>4. CASE Unseen < Kept /\ Unseen' = Unseen + 1
    <3>1. place > first /\ place' = place - 1
      BY <2>1, <2>4, <1>2, <1>3 DEF Pointer
    <3> QED
      BY <2>1, <2>2, <3>1 DEF Abstract!Next, Abstract!Back, first, place
  <2> QED
    BY <2>1, <2>3, <2>4
<1>7. CASE Reset
  <2>1. text' = text /\ fetched' = fetched /\ Kept' = Kept /\ Unseen' = Kept
    BY <1>7, ResetIs
  <2>2. place' = first /\ first' = first
    BY <2>1, <1>3
  <2> QED
    BY <2>1, <2>2 DEF Abstract!Next, Abstract!Return, first, place
<1>8. CASE Discard
  <2>1. text' = text /\ fetched' = fetched /\ Kept' = Unseen /\ Unseen' = Unseen
    BY <1>8, DiscardIs
  <2>2. first' = place /\ place' = place
    BY <2>1, <1>3
  <2> QED
    BY <2>1, <2>2 DEF Abstract!Next, Abstract!Drop, first, place
<1>9. CASE UNCHANGED ring
  BY <1>9 DEF ring, Abstract!vars, PositionOf, Distance
<1> QED
  BY <1>4, <1>5, <1>6, <1>7, <1>8, <1>9 DEF RingStep

\* What preview gives is the content of the window.
LEMMA PreviewIsContent ==
  ASSUME RingInv
  PROVE  /\ Preview = Abstract!Content
         /\ Preview \in Seq(Rune)
         /\ Len(Preview) = Kept - Unseen
<1>1. PointersOK /\ TextOK /\ OrderInv /\ ContentInv
  BY DEF RingInv
<1>2. /\ startPtr \in Pointer /\ readPtr \in Pointer /\ writePtr \in Pointer
      /\ Kept \in Pointer /\ Unseen \in Pointer /\ fetched \in Nat /\ Len(text) \in Nat
      /\ fetched <= Len(text) /\ Unseen <= Kept /\ Kept <= fetched
  <2>1. Kept \in Pointer /\ Unseen \in Pointer
    BY <1>1, DistanceIs DEF Kept, Unseen, PointersOK
  <2> QED
    BY <2>1, <1>1, TextIsSeq DEF OrderInv, TextOK, PointersOK
<1> DEFINE n == Kept - Unseen
           m == fetched - Kept
<1>3. Distance(startPtr, readPtr) = n
  <2>1. /\ Distance(startPtr, readPtr)
             = IF startPtr <= readPtr THEN readPtr - startPtr ELSE readPtr - startPtr + Size
        /\ Kept = IF startPtr <= writePtr THEN writePtr - startPtr
                  ELSE writePtr - startPtr + Size
        /\ Unseen = IF readPtr <= writePtr THEN writePtr - readPtr
                    ELSE writePtr - readPtr + Size
    BY <1>2, DistanceIs DEF Kept, Unseen
  <2> QED
    BY <2>1, <1>2, SizeAssumption DEF Pointer
<1>4. n \in Nat /\ m \in Nat /\ n \in Pointer /\ m + n <= Len(text) /\ m + n = fetched - Unseen
  BY <1>2, SizeAssumption DEF Pointer
<1>5. ASSUME NEW i \in 1..n
      PROVE  /\ buf[(startPtr + i - 1) % Size] = text[m + i]
             /\ text[m + i] \in Rune
  <2>1. /\ i - 1 \in Pointer /\ startPtr + (i - 1) = startPtr + i - 1
    BY <1>2, <1>4, <1>5, SizeAssumption DEF Pointer
  <2> DEFINE p == (startPtr + i - 1) % Size
  <2>2. /\ p \in Pointer
        /\ p = IF startPtr + (i - 1) < Size THEN startPtr + (i - 1)
               ELSE startPtr + (i - 1) - Size
    BY <2>1, <1>2, PlaceIs
  <2> HIDE DEF p
  <2>3. Distance(p, writePtr) = IF p <= writePtr THEN writePtr - p ELSE writePtr - p + Size
    BY <1>2, <2>2, DistanceIs
  <2>4. Kept = IF startPtr <= writePtr THEN writePtr - startPtr ELSE writePtr - startPtr + Size
    BY <1>2, DistanceIs DEF Kept
  <2>5. Distance(p, writePtr) = Kept - (i - 1)
    BY <2>1, <2>2, <2>3, <2>4, <1>2, <1>4, <1>5, SizeAssumption DEF Pointer
  <2>6. Distance(p, writePtr) \in 1..Kept
    BY <2>5, <1>2, <1>4, <1>5 DEF Pointer
  <2>7. buf[p] = text[fetched - Distance(p, writePtr) + 1] /\ buf[p] \in Rune
    BY <2>2, <2>6, <1>1 DEF ContentInv
  <2>8. fetched - Distance(p, writePtr) + 1 = m + i
    BY <2>5, <1>2 DEF Pointer
  <2> QED
    BY <2>7, <2>8 DEF p
<1>6. Preview = [i \in 1..n |-> text[m + i]]
  BY <1>3, <1>5 DEF Preview
<1>7. /\ [i \in 1..n |-> text[m + i]] \in Seq(Rune)
      /\ Len([i \in 1..n |-> text[m + i]]) = n
  <2>1. \A i \in 1..n : text[m + i] \in Rune
    BY <1>5
  <2> HIDE DEF n, m
  <2> QED
    BY <1>4, <2>1
<1>8. Abstract!Content = SubSeq(text, m + 1, m + n)
  BY Positions, <1>4 DEF Abstract!Content
<1>9. /\ SubSeq(text, m + 1, m + n) \in Seq(Rune)
      /\ Len(SubSeq(text, m + 1, m + n)) = n
      /\ \A i \in 1..n : SubSeq(text, m + 1, m + n)[i] = text[m + i]
  <2> HIDE DEF n, m
  <2>1. \A k \in (m + 1)..(m + n) : text[k] \in Rune
    <3> SUFFICES ASSUME NEW k \in (m + 1)..(m + n) PROVE text[k] \in Rune
      OBVIOUS
    <3>1. k - m \in 1..n /\ m + (k - m) = k
      BY <1>4
    <3> QED
      BY <3>1, <1>5
  <2>2. /\ m + 1 \in Int /\ m + n \in Int
        /\ (m + n) - (m + 1) + 1 = n
        /\ (IF m + 1 <= m + n THEN (m + n) - (m + 1) + 1 ELSE 0) = n
        /\ \A i \in 1..n : (m + 1) + i - 1 = m + i
    BY <1>4
  <2>3. /\ SubSeq(text, m + 1, m + n) \in Seq(Rune)
        /\ Len(SubSeq(text, m + 1, m + n)) = n
        /\ \A i \in 1..((m + n) - (m + 1) + 1) :
              SubSeq(text, m + 1, m + n)[i] = text[(m + 1) + i - 1]
    BY <2>1, <2>2, SubSeqProperties
  <2> QED
    BY <2>2, <2>3
<1>10. Preview = SubSeq(text, m + 1, m + n)
  <2> DEFINE s == [i \in 1..n |-> text[m + i]]
             t == SubSeq(text, m + 1, m + n)
  <2>1. \A i \in 1..n : s[i] = t[i]
    BY <1>9
  <2> HIDE DEF n, m
  <2>2. s \in Seq(Rune) /\ t \in Seq(Rune) /\ Len(s) = Len(t) /\ \A i \in 1..Len(s) : s[i] = t[i]
    BY <2>1, <1>7, <1>9
  <2> HIDE DEF s, t
  <2>3. s = t
    BY <2>2, SeqEqual
  <2> QED
    BY <2>3, <1>6 DEF s, t
<1> QED
  BY <1>6, <1>7, <1>8, <1>10

-----------------------------------------------------------------------------
(* Every step of the program makes at most one call of the ring *)

LEMMA AcceptRing ==
  ASSUME NEW here, NEW chars, NEW yes, NEW no, AcceptOne(here, chars, yes, no) \/ Accept(here, chars, no)
  PROVE  RingStep /\ (pos \in Int => pos' \in Int)
BY DEF AcceptOne, Accept, RingStep, ReadAnd, ReadBack, Read, ring, bufVars

LEMMA LexRing ==
  ASSUME LexStep
  PROVE  RingStep /\ (pos \in Int => pos' \in Int)
<1> USE DEF RingStep
<1>1. Read => pos' = pos + 1
  BY DEF Read
<1>2. Discard => pos' = pos
  BY DEF Discard
<1>3. Reset => pos' = pos
  BY DEF Reset
<1>4. Unread => pos' \in {pos, pos - 1}
  BY DEF Unread
<1>5. UNCHANGED bufVars => UNCHANGED ring /\ pos' = pos
  BY DEF bufVars, ring
<1>6. CASE Skip
  BY <1>1, <1>2, <1>6 DEF Skip, ReadAnd, ReadBack
<1>7. CASE Token1 \/ PostSingle \/ PostString
  BY <1>2, <1>7 DEF Token1, PostSingle, PostString, postToken
<1>8. CASE AtEnd
  BY <1>5, <1>8 DEF AtEnd, HandleEof
<1>9. CASE First
  <2>1. PICK there \in {"single", "string", "number", "word"} : ReadAnd(there)
    BY <1>9, Zenon DEF First
  <2> QED
    BY <2>1, <1>1 DEF ReadAnd
<1>10. CASE String
  <2>1. CASE AtEof /\ HandleErr
    BY <2>1, <1>2 DEF HandleErr
  <2>2. ASSUME NEW there \in {"escape", "string_end", "string"}, ReadAnd(there)
        PROVE  RingStep /\ (pos \in Int => pos' \in Int)
    BY <2>2, <1>1 DEF ReadAnd
  <2> QED
    BY <1>10, <2>1, <2>2 DEF String
<1>11. CASE Escape
  BY <1>1, <1>5, <1>11 DEF Escape, ReadAnd, HandleEof
<1>12. CASE Number
  <2>1. CASE lexPc = "number" /\ Unread /\ Goto("sign")
    BY <1>4, <2>1
  <2>2. CASE \/ AcceptOne("sign", {"-"}, "digits", "digits")
             \/ Accept("digits", Digit, "point")
             \/ Found /\ AcceptOne("point", {"."}, "fraction", "int")
             \/ Accept("fraction", Digit, "decimal")
    BY <2>2, AcceptRing
  <2>3. CASE \/ lexPc = "int" /\ postToken("int")
             \/ lexPc = "decimal" /\ Found /\ postToken("number")
    BY <1>2, <2>3 DEF postToken
  <2> QED
    BY <1>12, <2>1, <2>2, <2>3 DEF Number
<1>13. CASE NoDigit \/ Unknown
  BY <1>2, <1>13 DEF NoDigit, Unknown, HandleErr
<1>14. CASE Word
  BY <1>1, <1>5, <1>14 DEF Word, ReadAnd, ReadBack
<1>15. CASE KeywordOrId
  BY <1>2, <1>3, <1>15 DEF KeywordOrId, postToken, ResetWord
<1>16. CASE Identifier
  <2>1. CASE \/ AcceptOne("id", IdStart, "id_rest", "unknown")
             \/ Accept("id_rest", IdRest, "id_end")
    BY <2>1, AcceptRing
  <2>2. CASE lexPc = "id_end" /\ postToken("id")
    BY <1>2, <2>2 DEF postToken
  <2> QED
    BY <1>16, <2>1, <2>2 DEF Identifier
<1>17. CASE Back
  BY <1>4, <1>17 DEF Back
<1>18. CASE NewLine
  BY <1>18 DEF NewLine, ring, FirstColumn
<1>19. CASE Close
  BY <1>5, <1>19 DEF Close
<1> QED
  BY <1>6, <1>7, <1>8, <1>9, <1>10, <1>11, <1>12, <1>13, <1>14, <1>15, <1>16, <1>17,
     <1>18, <1>19 DEF LexStep

\* The stream and the parser leave the ring alone.
LEMMA OthersKeepRing ==
  ASSUME Drain \/ Parse \/ Finished \/ UNCHANGED vars
  PROVE  UNCHANGED bufVars
<1>1. Taken => UNCHANGED bufVars
  BY DEF Taken, bufVars
<1>2. \A t : next(t) => UNCHANGED bufVars
  BY <1>1 DEF next
<1>3. CASE Drain
  BY <1>1, <1>3 DEF Drain
<1>4. CASE Look
  BY <1>2, <1>4 DEF Look
<1>5. CASE PeekEnds \/ Refuse
  BY <1>5 DEF PeekEnds, Refuse, PushBackAnd
<1>6. CASE AcceptTokens \/ GiveUp \/ Return
  BY <1>6 DEF AcceptTokens, GiveUp, Return
<1>7. CASE Finished \/ UNCHANGED vars
  BY <1>7 DEF Finished, vars
<1> QED
  BY <1>3, <1>4, <1>5, <1>6, <1>7 DEF Parse

LEMMA NextRing ==
  ASSUME [Next]_vars
  PROVE  RingStep /\ (pos \in Int => pos' \in Int)
<1>1. CASE Lex
  BY <1>1, LexRing DEF Lex
<1>2. CASE Drain \/ Parse \/ Finished \/ UNCHANGED vars
  BY <1>2, OthersKeepRing DEF RingStep, ring, bufVars
<1> QED
  BY <1>1, <1>2 DEF Next

\* The pointers stay in order and the ring keeps the runes of the text.
THEOREM RingKeepsText == Spec => []RingInv
<1>1. RingInv /\ [Next]_vars => RingInv'
  BY NextRing, StepRing
<1> QED
  BY <1>1, InitRing, PTL DEF Spec

\* Whatever text is read and however small the ring, every behaviour of the
\* ring is one of the window on the text, and what preview and consume give
\* (lexbuf.go) is the content of the window.
THEOREM LexerImplementsWindow == Spec => ImplementsWindow
<1>1. RingInv /\ [Next]_vars => [Abstract!Next]_(Abstract!vars)
  BY NextRing, StepWindow
<1>2. RingInv => Preview = Abstract!Content
  BY PreviewIsContent
<1> QED
  BY <1>1, <1>2, InitWindow, RingKeepsText, PTL DEF Spec, ImplementsWindow, Abstract!Spec

-----------------------------------------------------------------------------
(* The inductive invariant of the lexer, the token stream and the parser *)

LexState == {"skip", "token", "eof", "first", "single", "string", "escape",
             "string_end", "number", "sign", "digits", "point", "fraction",
             "int", "decimal", "word", "keyword", "id", "id_rest", "id_end",
             "unknown", "unread", "post", "newline", "close", "closed"}

\* Where the lexer reads on.
LexReading == LexState \ {"post", "newline", "close", "closed"}

ParseState == {"peek", "statement", "parsed", "failed", "returned", "returned_error"}

\* The place of a token is where the lexer is, less the bytes of its text.
Place == Int \cup {q - Bytes(s) : q \in Int, s \in Seq(Rune)}

LexToken == [type : {"eol", "single", "string", "int", "number", "keyword", "id",
                     "eof", "err"},
             text : Seq(Rune), pos : Place, line : Int, from : Int]

\* What next makes up when the channel is closed.
ClosedToken == [type |-> "eof"]

StreamToken == LexToken \cup {ClosedToken}

LexTypes ==
  /\ lexPc \in LexState /\ then \in LexReading
  /\ lexPc = "post" => hand \in LexToken
  /\ posted \in Seq(LexToken)

StreamTypes ==
  /\ back \in Seq(StreamToken) /\ look \in Seq(StreamToken) /\ parsed \in Seq(StreamToken)
  /\ stuck = NoToken \/ (stuck \in LexToken /\ stuck.type = "err")
  /\ at \in ParseState
  /\ refusals \in 0..3

\* Each line that has been counted has ended before the start of the token.
LineInv ==
  /\ line \in Int /\ line >= 1 /\ line <= PositionOf(startPtr) + 1
  /\ lexPc = "newline" \/ (lexPc = "post" /\ hand.type = "eol")
       => line <= PositionOf(startPtr)

EndTypes == {"eof", "err"}

\* An end is posted last, and the lexer goes on to close the channel.
EndInv ==
  /\ \A k \in 1..Len(posted) :
       posted[k].type \in EndTypes => k = Len(posted) /\ lexPc \in {"close", "closed"}
  /\ lexPc \in {"close", "closed"} =>
       Len(posted) >= 1 /\ posted[Len(posted)].type \in EndTypes

Reading == at \in {"peek", "statement"}

HasType(tokens, type) == \E k \in 1..Len(tokens) : tokens[k].type = type

\* What the push-back buffer and the parser's hands hold.  After an error each
\* refusal puts the error back once more, on what was there.
CountInv ==
  /\ Len(look) <= 3 /\ Len(back) <= 5
  /\ stuck = NoToken => Len(back) + Len(look) <= 3
  /\ (Reading /\ stuck # NoToken) =>
       /\ Len(back) + Len(look) <= 3 + refusals
       /\ look = <<>> => Len(back) <= 2 + refusals
       /\ look # <<>> => HasType(look, "err")
  /\ at = "peek" => refusals = 0 /\ Len(look) <= 1

\* The tokens that have been taken from the channel are those accepted, those
\* looked at and those put back, of which the last is the next.
Ordered ==
  /\ Len(posted) = Len(parsed) + Len(look) + Len(back)
  /\ \A k \in 1..Len(look) : posted[Len(parsed) + k] = look[k]
  /\ \A k \in 1..Len(back) : posted[Len(posted) + 1 - k] = back[k]

\* All tokens are accepted and the parser has asked for one more.
PastEnd == /\ at = "peek" /\ Len(parsed) = Len(posted)
           /\ back = <<>> /\ Len(look) = 1 /\ look[1] = ClosedToken

AcceptedInOrder ==
  /\ Len(parsed) <= Len(posted)
  /\ \A k \in 1..Len(parsed) : parsed[k] = posted[k]

ParseInv ==
  /\ (Reading /\ stuck = NoToken) => Ordered \/ PastEnd
  /\ at = "statement" => ~HasType(parsed, "eof")
  /\ ~HasType(parsed, "err")
  /\ AcceptedInOrder
  /\ at \in {"parsed", "returned"} =>
       /\ stuck = NoToken
       /\ \A k \in 1..Len(posted) : k <= Len(parsed) \/ posted[k].type = "eof"

IndInv == /\ RingInv /\ pos \in Int
          /\ LexTypes /\ StreamTypes
          /\ LineInv /\ EndInv /\ CountInv /\ ParseInv

-----------------------------------------------------------------------------
(* The steps of the lexer *)

\* The start of the token never goes back, and is never past what is read.
LEMMA StartAdvances ==
  ASSUME RingInv, RingStep
  PROVE  /\ PositionOf(startPtr) \in 0..Len(text) /\ PositionOf(startPtr)' \in Int
         /\ PositionOf(startPtr) <= PositionOf(startPtr)'
<1>1. RingInv'
  BY StepRing
<1>2. /\ Kept \in Pointer /\ Unseen \in Pointer /\ fetched \in Nat /\ Len(text) \in Nat
      /\ fetched <= Len(text) /\ Unseen <= Kept /\ Kept <= fetched
  BY TextIsSeq, DistanceIs DEF RingInv, OrderInv, TextOK, PointersOK, Kept, Unseen
<1>3. PositionOf(startPtr) = fetched - Kept /\ PositionOf(startPtr)' = fetched' - Kept'
  BY Positions DEF PositionOf, Kept
<1>4. PositionOf(startPtr) \in 0..Len(text)
  BY <1>2, <1>3 DEF Pointer
<1>5. CASE Read /\ readPtr # writePtr
  BY <1>2, <1>3, <1>4, <1>5, ReadSeen DEF Pointer
<1>6. CASE Read /\ readPtr = writePtr
  <2>1. fetched' = fetched + 1 /\ Kept' = IF Kept = Size - 1 THEN Kept ELSE Kept + 1
    BY <1>6, ReadFetched
  <2> QED
    BY <2>1, <1>2, <1>3, <1>4 DEF Pointer
<1>7. CASE Unread
  BY <1>2, <1>3, <1>4, <1>7, UnreadIs DEF Pointer
<1>8. CASE Reset
  BY <1>2, <1>3, <1>4, <1>8, ResetIs DEF Pointer
<1>9. CASE Discard
  BY <1>2, <1>3, <1>4, <1>9, DiscardIs DEF Pointer
<1>10. CASE UNCHANGED ring
  BY <1>2, <1>3, <1>4, <1>10 DEF ring, Kept, Distance, Pointer
<1> QED
  BY <1>5, <1>6, <1>7, <1>8, <1>9, <1>10 DEF RingStep

\* Discarding a token of n runes moves the start on by n.
LEMMA DiscardAdvances ==
  ASSUME RingInv, Discard
  PROVE  PositionOf(startPtr)' = PositionOf(startPtr) + Len(Preview)
<1>1. Len(Preview) = Kept - Unseen
  BY PreviewIsContent
<1>2. Kept \in Int /\ Unseen \in Int /\ fetched \in Int
  BY DistanceIs DEF RingInv, PointersOK, TextOK, Kept, Unseen, Pointer
<1>3. PositionOf(startPtr) = fetched - Kept /\ PositionOf(startPtr)' = fetched' - Kept'
  BY Positions DEF PositionOf, Kept
<1>4. fetched' = fetched /\ Kept' = Unseen
  BY DiscardIs
<1> QED
  BY <1>1, <1>2, <1>3, <1>4

\* The lexer goes on reading.
ReadsOn == /\ lexPc \in LexReading /\ lexPc' \in LexReading /\ then' \in LexReading
           /\ UNCHANGED <<line, hand, posted>>

\* The lexer has a token to post.
Posts == /\ lexPc \in LexReading /\ lexPc' = "post"
         /\ hand' \in LexToken
         /\ hand'.type = "eol" => PositionOf(startPtr)' >= PositionOf(startPtr) + 1
         /\ UNCHANGED <<then, line, posted>>

LexInv == RingInv /\ pos \in Int /\ LexTypes /\ line \in Int

LexTypeName == {"eol", "single", "string", "int", "number", "keyword", "id", "eof", "err"}

LEMMA TokenIsLexToken ==
  ASSUME LexInv, NEW type \in LexTypeName, NEW s \in Seq(Rune), NEW p \in Place
  PROVE  Token(type, s, p) \in LexToken /\ Token(type, s, p).type = type
<1>1. PositionOf(startPtr) \in Int
  <2>1. Kept \in Int /\ fetched \in Int
    BY DistanceIs DEF LexInv, RingInv, PointersOK, TextOK, Kept, Pointer
  <2> QED
    BY <2>1, Positions
<1>2. line \in Int
  BY DEF LexInv
<1> QED
  BY <1>1, <1>2 DEF Token, LexToken, LexTypeName

LEMMA PostTokenPosts ==
  ASSUME LexInv, lexPc \in LexReading, NEW type \in LexTypeName, postToken(type),
         type = "eol" => Len(Preview) = 1
  PROVE  Posts
<1>1. Preview \in Seq(Rune) /\ pos \in Int /\ RingInv
  BY PreviewIsContent DEF LexInv
<1>2. pos - Bytes(Preview) \in Place
  <2>1. pos - Bytes(Preview) \in {q - Bytes(s) : q \in Int, s \in Seq(Rune)}
    BY <1>1
  <2> QED
    BY <2>1 DEF Place
<1>3. /\ hand' = Token(type, Preview, pos - Bytes(Preview)) /\ lexPc' = "post"
      /\ UNCHANGED <<then, line, posted>> /\ Discard
  BY DEF postToken, Hold
<1>4. hand' \in LexToken /\ hand'.type = type
  BY <1>1, <1>2, <1>3, TokenIsLexToken
<1>5. type = "eol" => PositionOf(startPtr)' >= PositionOf(startPtr) + 1
  <2>1. PositionOf(startPtr)' = PositionOf(startPtr) + Len(Preview)
    BY <1>1, <1>3, DiscardAdvances
  <2>2. PositionOf(startPtr) \in Int
    BY <1>1, <1>3, StartAdvances DEF RingStep
  <2>3. ASSUME type = "eol" PROVE PositionOf(startPtr)' >= PositionOf(startPtr) + 1
    <3>1. PositionOf(startPtr)' = PositionOf(startPtr) + 1
      BY <2>1, <2>3
    <3> QED
      BY <2>2, <3>1
  <2> QED
    BY <2>3
<1> QED
  BY <1>3, <1>4, <1>5 DEF Posts

LEMMA HandlePosts ==
  ASSUME LexInv, lexPc \in LexReading, HandleEof \/ HandleErr
  PROVE  Posts
<1>1. Preview \in Seq(Rune) /\ pos \in Int /\ pos \in Place /\ <<>> \in Seq(Rune)
  BY PreviewIsContent DEF LexInv, Place
<1>2. CASE HandleEof
  <2>1. /\ hand' = Token("eof", <<>>, pos) /\ lexPc' = "post"
        /\ UNCHANGED <<then, line, posted>>
    BY <1>2 DEF HandleEof, Hold
  <2>2. hand' \in LexToken /\ hand'.type = "eof"
    <3>1. "eof" \in LexTypeName
      BY DEF LexTypeName
    <3>2. Token("eof", <<>>, pos) \in LexToken /\ Token("eof", <<>>, pos).type = "eof"
      BY <1>1, <3>1, TokenIsLexToken, Zenon
    <3> QED
      BY <2>1, <3>2
  <2> QED
    BY <2>1, <2>2 DEF Posts
<1>3. CASE HandleErr
  <2>1. /\ hand' = Token("err", Preview, pos) /\ lexPc' = "post"
        /\ UNCHANGED <<then, line, posted>>
    BY <1>3 DEF HandleErr, Hold
  <2>2. hand' \in LexToken /\ hand'.type = "err"
    BY <1>1, <2>1, TokenIsLexToken DEF LexTypeName
  <2> QED
    BY <2>1, <2>2 DEF Posts
<1> QED
  BY <1>2, <1>3

LEMMA GotoReadsOn ==
  ASSUME LexInv, lexPc \in LexReading, NEW there \in LexReading,
         Goto(there) \/ ReadAnd(there) \/ ReadBack(there)
  PROVE  ReadsOn
<1>1. then \in LexReading
  BY DEF LexInv, LexTypes
<1>2. CASE Goto(there) \/ ReadAnd(there)
  BY <1>1, <1>2 DEF ReadsOn, ReadAnd, Goto
<1>3. CASE ReadBack(there)
  BY <1>1, <1>3 DEF ReadsOn, ReadBack, LexReading, LexState
<1> QED
  BY <1>2, <1>3

LEMMA AcceptReadsOn ==
  ASSUME LexInv, NEW here \in LexReading, NEW chars, NEW yes \in LexReading, NEW no \in LexReading,
         AcceptOne(here, chars, yes, no) \/ Accept(here, chars, no)
  PROVE  ReadsOn
<1>1. /\ lexPc \in LexReading
      /\ Goto(no) \/ ReadAnd(yes) \/ ReadBack(no) \/ ReadAnd(here)
  BY DEF AcceptOne, Accept
<1> QED
  BY <1>1, GotoReadsOn

\* A step of the lexer reads on, or ends a token, a line or the channel.
LEMMA LexMoves ==
  ASSUME LexInv, LexStep
  PROVE  ReadsOn \/ Posts \/ NewLine \/ Close
<1> DEFINE Reads(here, there) == lexPc = here /\ (Goto(there) \/ ReadAnd(there) \/ ReadBack(there))
<1>1. ASSUME NEW here \in LexReading, NEW there \in LexReading, Reads(here, there)
      PROVE  ReadsOn
  BY <1>1, GotoReadsOn
<1>2. ASSUME NEW type \in LexTypeName \ {"eol"}, lexPc \in LexReading, postToken(type)
      PROVE  Posts
  BY <1>2, PostTokenPosts
<1>3. ASSUME lexPc \in LexReading, HandleEof \/ HandleErr PROVE Posts
  BY <1>3, HandlePosts
<1> USE DEF LexReading, LexState, LexTypeName
<1>6. CASE Skip
  <2>1. Reads("skip", "eof") \/ Reads("skip", "skip") \/ Reads("skip", "token")
    BY <1>6 DEF Skip
  <2> QED
    BY <2>1, <1>1
<1>7. CASE Token1
  <2>1. Reads("token", "first")
    BY <1>7 DEF Token1
  <2> QED
    BY <2>1, <1>1
<1>8. CASE AtEnd
  BY <1>3, <1>8 DEF AtEnd
<1>9. CASE First
  <2>1. PICK there \in {"single", "string", "number", "word"} : lexPc = "first" /\ ReadAnd(there)
    BY <1>9, Zenon DEF First
  <2>2. Reads("first", there)
    BY <2>1
  <2> QED
    BY <2>2, <1>1
<1>10. CASE PostSingle
  <2>1. CASE Preview = <<"\n">>
    <3>1. postToken("eol") /\ Len(Preview) = 1 /\ lexPc = "single"
      BY <1>10, <2>1 DEF PostSingle
    <3> QED
      BY <3>1, PostTokenPosts
  <2>2. CASE Preview # <<"\n">>
    BY <1>2, <1>10, <2>2 DEF PostSingle
  <2> QED
    BY <2>1, <2>2
<1>11. CASE String
  <2>1. CASE AtEof /\ HandleErr
    BY <1>3, <1>11, <2>1 DEF String
  <2>2. ASSUME NEW there \in {"escape", "string_end", "string"}, Reads("string", there)
        PROVE  ReadsOn
    BY <2>2, <1>1
  <2> QED
    BY <1>11, <2>1, <2>2 DEF String
<1>12. CASE Escape
  <2>1. lexPc = "escape" /\ (HandleEof \/ Reads("escape", "string"))
    BY <1>12 DEF Escape
  <2> QED
    BY <2>1, <1>1, <1>3
<1>13. CASE PostString
  BY <1>2, <1>13 DEF PostString
<1>14. CASE Number
  <2>1. CASE lexPc = "number" /\ Unread /\ Goto("sign")
    <3>1. Reads("number", "sign")
      BY <2>1
    <3> QED
      BY <3>1, <1>1
  <2>2. CASE \/ AcceptOne("sign", {"-"}, "digits", "digits")
             \/ Accept("digits", Digit, "point")
             \/ Found /\ AcceptOne("point", {"."}, "fraction", "int")
             \/ Accept("fraction", Digit, "decimal")
    BY <2>2, AcceptReadsOn
  <2>3. CASE \/ lexPc = "int" /\ postToken("int")
             \/ lexPc = "decimal" /\ Found /\ postToken("number")
    BY <2>3, <1>2
  <2> QED
    BY <1>14, <2>1, <2>2, <2>3 DEF Number
<1>15. CASE NoDigit \/ Unknown
  BY <1>3, <1>15 DEF NoDigit, Unknown
<1>16. CASE Word
  <2>1. Reads("word", "keyword") \/ Reads("word", "word")
    BY <1>16 DEF Word
  <2> QED
    BY <2>1, <1>1
<1>17. CASE KeywordOrId
  <2>1. lexPc = "keyword" /\ (postToken("keyword") \/ Reads("keyword", "id"))
    BY <1>17 DEF KeywordOrId, ResetWord
  <2> QED
    BY <2>1, <1>1, <1>2
<1>18. CASE Identifier
  <2>1. CASE \/ AcceptOne("id", IdStart, "id_rest", "unknown")
             \/ Accept("id_rest", IdRest, "id_end")
    BY <2>1, AcceptReadsOn
  <2>2. CASE lexPc = "id_end" /\ postToken("id")
    BY <2>2, <1>2
  <2> QED
    BY <1>18, <2>1, <2>2 DEF Identifier
<1>19. CASE Back
  <2>1. then \in LexReading
    BY DEF LexInv, LexTypes
  <2>2. Reads("unread", then)
    BY <1>19 DEF Back
  <2> QED
    BY <2>1, <2>2, <1>1
<1> QED
  BY <1>6, <1>7, <1>8, <1>9, <1>10, <1>11, <1>12, <1>13, <1>14, <1>15, <1>16, <1>17,
     <1>18, <1>19 DEF LexStep

-----------------------------------------------------------------------------
(* The lexer keeps its part of the invariant *)

LexSide == LexTypes /\ LineInv /\ EndInv

\* A token is taken from the channel.
LEMMA TakenFacts ==
  ASSUME LexTypes, EndInv, Taken
  PROVE  /\ hand \in LexToken /\ Len(posted) \in Nat
         /\ posted' \in Seq(LexToken) /\ Len(posted') = Len(posted) + 1
         /\ \A k \in 1..Len(posted) : /\ posted'[k] = posted[k]
                                      /\ posted[k].type \notin EndTypes
         /\ posted'[Len(posted) + 1] = hand
         /\ lexPc' = IF hand.type = "eol" THEN "newline"
                     ELSE IF hand.type \in EndTypes THEN "close" ELSE "skip"
<1>1. hand \in LexToken /\ lexPc = "post"
  BY DEF LexTypes, Taken
<1>2. posted \in Seq(LexToken) /\ posted' = Append(posted, hand) /\ Len(posted) \in Nat
  BY LenProperties DEF LexTypes, Taken
<1>3. /\ posted' \in Seq(LexToken) /\ Len(posted') = Len(posted) + 1
      /\ \A k \in 1..Len(posted) : posted'[k] = posted[k]
      /\ posted'[Len(posted) + 1] = hand
  BY <1>1, <1>2, AppendProperties
<1>4. \A k \in 1..Len(posted) : posted[k].type \notin EndTypes
  BY <1>1 DEF EndInv
<1>5. lexPc' = IF hand.type = "eol" THEN "newline"
               ELSE IF hand.type \in EndTypes THEN "close" ELSE "skip"
  <2>1. lexPc' = CASE hand.type = "eol" -> "newline"
                   [] hand.type \in {"eof", "err"} -> "close"
                   [] OTHER -> "skip"
    BY DEF Taken
  <2>2. CASE hand.type = "eol"
    BY <2>1, <2>2 DEF EndTypes
  <2>3. CASE hand.type \in EndTypes
    BY <2>1, <2>3 DEF EndTypes
  <2>4. CASE hand.type # "eol" /\ hand.type \notin EndTypes
    BY <2>1, <2>4 DEF EndTypes
  <2> QED
    BY <2>2, <2>3, <2>4 DEF EndTypes
<1> QED
  BY <1>1, <1>2, <1>3, <1>4, <1>5

LEMMA TakenKeepsLexSide ==
  ASSUME RingInv, LexSide, Taken
  PROVE  LexSide'
<1>1. LexTypes /\ LineInv /\ EndInv
  BY DEF LexSide
<1>2. /\ lexPc' = IF hand.type = "eol" THEN "newline"
                  ELSE IF hand.type \in EndTypes THEN "close" ELSE "skip"
      /\ posted' \in Seq(LexToken) /\ Len(posted') = Len(posted) + 1 /\ Len(posted) \in Nat
      /\ \A k \in 1..Len(posted) : posted'[k] = posted[k] /\ posted[k].type \notin EndTypes
      /\ posted'[Len(posted) + 1] = hand
  BY <1>1, TakenFacts
<1>3. UNCHANGED <<bufVars, then, line, hand>> /\ lexPc = "post"
  BY DEF Taken
<1>4. LexTypes'
  <2>1. lexPc' \in LexState /\ lexPc' # "post"
    BY <1>2 DEF LexState
  <2> QED
    BY <1>1, <1>2, <1>3, <2>1 DEF LexTypes
<1>5. LineInv'
  <2>1. PositionOf(startPtr)' = PositionOf(startPtr)
    BY <1>3 DEF bufVars, PositionOf, Distance
  <2>2. lexPc' = "newline" => hand.type = "eol"
    BY <1>2
  <2>3. lexPc' # "post"
    BY <1>2
  <2> QED
    BY <1>1, <1>3, <2>1, <2>2, <2>3 DEF LineInv
<1>6. EndInv'
  <2>1. \A k \in 1..Len(posted') : posted'[k].type \in EndTypes => k = Len(posted) + 1
    BY <1>2
  <2>2. lexPc' \in {"close", "closed"} <=> hand.type \in EndTypes
    BY <1>2 DEF EndTypes
  <2> QED
    BY <1>2, <2>1, <2>2 DEF EndInv
<1> QED
  BY <1>4, <1>5, <1>6 DEF LexSide

LEMMA LexKeepsLexSide ==
  ASSUME RingInv, pos \in Int, LexSide, LexStep
  PROVE  LexSide' /\ posted' = posted
<1>1. LexTypes /\ LineInv /\ EndInv
  BY DEF LexSide
<1>2. ReadsOn \/ Posts \/ NewLine \/ Close
  BY <1>1, LexMoves DEF LexInv, LineInv
<1> DEFINE start == PositionOf(startPtr)
<1>3. start \in Int /\ start' \in Int /\ start <= start'
  BY LexRing, StartAdvances
<1>4. NewLine \/ Close => start' = start
  BY DEF NewLine, Close, Goto, bufVars, PositionOf, Distance
<1> HIDE DEF start
<1>5. CASE ReadsOn
  <2>1. posted' = posted /\ line' = line /\ hand' = hand
    BY <1>5 DEF ReadsOn
  <2>2. /\ lexPc' \in LexReading /\ then' \in LexReading /\ lexPc' \in LexState
        /\ lexPc' \notin {"post", "newline", "close", "closed"}
        /\ lexPc \notin {"close", "closed"}
    BY <1>5 DEF ReadsOn, LexReading
  <2>3. LexTypes'
    BY <1>1, <2>1, <2>2 DEF LexTypes
  <2>4. LineInv'
    BY <1>1, <1>3, <2>1, <2>2 DEF LineInv, start
  <2>5. EndInv'
    BY <1>1, <2>1, <2>2 DEF EndInv
  <2> QED
    BY <2>1, <2>3, <2>4, <2>5 DEF LexSide
<1>6. CASE Posts
  <2>1. /\ posted' = posted /\ line' = line /\ then' = then /\ lexPc' = "post"
        /\ hand' \in LexToken
        /\ hand'.type = "eol" => start' >= start + 1
        /\ lexPc \notin {"close", "closed"}
    BY <1>6 DEF Posts, LexReading, start
  <2>2. LexTypes'
    BY <1>1, <2>1 DEF LexTypes, LexState
  <2>3. LineInv'
    <3>1. line' \in Int /\ line' >= 1 /\ line' <= start' + 1
      BY <1>1, <1>3, <2>1 DEF LineInv, start
    <3>2. hand'.type = "eol" => line' <= start'
      <4> SUFFICES ASSUME hand'.type = "eol" PROVE line' <= start'
        OBVIOUS
      <4>1. start' >= start + 1
        BY <2>1
      <4> QED
        BY <1>1, <1>3, <2>1, <4>1 DEF LineInv, start
    <3> QED
      BY <3>1, <3>2, <2>1 DEF LineInv, start
  <2>4. EndInv'
    BY <1>1, <2>1 DEF EndInv
  <2> QED
    BY <2>1, <2>2, <2>3, <2>4 DEF LexSide
<1>7. CASE NewLine
  <2>1. /\ posted' = posted /\ line' = line + 1 /\ then' = then /\ lexPc' = "skip"
        /\ lexPc = "newline"
    BY <1>7 DEF NewLine
  <2>2. LexTypes'
    BY <1>1, <2>1 DEF LexTypes, LexState
  <2>3. LineInv'
    BY <1>1, <1>3, <1>4, <1>7, <2>1 DEF LineInv, start
  <2>4. EndInv'
    BY <1>1, <2>1 DEF EndInv
  <2> QED
    BY <2>1, <2>2, <2>3, <2>4 DEF LexSide
<1>8. CASE Close
  <2>1. /\ posted' = posted /\ line' = line /\ then' = then /\ lexPc' = "closed"
        /\ lexPc = "close"
    BY <1>8 DEF Close, Goto
  <2>2. LexTypes'
    BY <1>1, <2>1 DEF LexTypes, LexState
  <2>3. LineInv'
    BY <1>1, <1>3, <1>4, <1>8, <2>1 DEF LineInv, start
  <2>4. EndInv'
    BY <1>1, <2>1 DEF EndInv
  <2> QED
    BY <2>1, <2>2, <2>3, <2>4 DEF LexSide
<1> QED
  BY <1>2, <1>5, <1>6, <1>7, <1>8

LEMMA UnchangedKeepsLexSide ==
  ASSUME LexSide, UNCHANGED <<bufVars, lexVars>>
  PROVE  LexSide'
<1>1. LexTypes'
  BY DEF LexSide, LexTypes, lexVars
<1>2. LineInv'
  BY DEF LexSide, LineInv, lexVars, bufVars, PositionOf, Distance
<1>3. EndInv'
  BY DEF LexSide, EndInv, lexVars
<1> QED
  BY <1>1, <1>2, <1>3 DEF LexSide

-----------------------------------------------------------------------------
(* The token stream and the parser keep their part *)

StreamSide == StreamTypes /\ CountInv /\ ParseInv

\* Tokens are counted in natural numbers, and the real ones are stream tokens.
LEMMA StreamLengths ==
  ASSUME StreamTypes, LexTypes
  PROVE  /\ Len(back) \in Nat /\ Len(look) \in Nat /\ Len(parsed) \in Nat /\ Len(posted) \in Nat
         /\ (look = <<>> <=> Len(look) = 0) /\ (back = <<>> <=> Len(back) = 0)
         /\ DOMAIN look = 1..Len(look) /\ DOMAIN back = 1..Len(back)
         /\ DOMAIN posted = 1..Len(posted)
         /\ \A k \in 1..Len(look) : look[k] \in StreamToken
         /\ \A k \in 1..Len(back) : back[k] \in StreamToken
<1>1. /\ back \in Seq(StreamToken) /\ look \in Seq(StreamToken)
      /\ parsed \in Seq(StreamToken) /\ posted \in Seq(LexToken)
  BY DEF StreamTypes, LexTypes
<1>2. /\ Len(back) \in Nat /\ Len(look) \in Nat /\ Len(parsed) \in Nat /\ Len(posted) \in Nat
      /\ DOMAIN look = 1..Len(look) /\ DOMAIN back = 1..Len(back)
      /\ DOMAIN posted = 1..Len(posted)
  BY <1>1, LenProperties
<1>3. /\ (look = <<>> <=> Len(look) = 0) /\ (back = <<>> <=> Len(back) = 0)
  BY <1>1, EmptySeq
<1>4. /\ \A k \in 1..Len(look) : look[k] \in StreamToken
      /\ \A k \in 1..Len(back) : back[k] \in StreamToken
  BY <1>1, ElementOfSeq
<1> QED
  BY <1>2, <1>3, <1>4

\* The lexer, and whoever drains the channel, does not touch the stream.
LEMMA LexKeepsStreamSide ==
  ASSUME StreamSide, UNCHANGED <<posted, streamVars, parserVars>>
  PROVE  StreamSide'
<1>1. UNCHANGED <<posted, back, stuck, at, look, refusals, parsed>>
  BY DEF streamVars, parserVars
<1>2. StreamTypes'
  BY <1>1 DEF StreamSide, StreamTypes
<1>3. CountInv'
  BY <1>1 DEF StreamSide, CountInv, Reading, HasType
<1>4. ParseInv'
  BY <1>1 DEF StreamSide, ParseInv, Reading, HasType, Ordered, PastEnd, AcceptedInOrder
<1> QED
  BY <1>2, <1>3, <1>4 DEF StreamSide

LEMMA DrainKeepsStreamSide ==
  ASSUME StreamSide, LexSide, Drain
  PROVE  StreamSide'
<1>1. UNCHANGED <<back, stuck, at, look, refusals, parsed>> /\ Taken
  BY DEF Drain, streamVars, parserVars
<1>2. StreamTypes'
  BY <1>1 DEF StreamSide, StreamTypes
<1>3. CountInv'
  BY <1>1 DEF StreamSide, CountInv, Reading, HasType
<1>4. ParseInv'
  <2>1. stuck # NoToken \/ at = "failed"
    BY DEF Drain, Draining
  <2>2. /\ Len(posted') = Len(posted) + 1 /\ Len(posted) \in Nat
        /\ \A k \in 1..Len(posted) : posted'[k] = posted[k]
    BY <1>1, TakenFacts DEF LexSide
  <2>3. Len(parsed) \in Nat
    BY StreamLengths DEF StreamSide, LexSide
  <2>4. AcceptedInOrder'
    BY <1>1, <2>2, <2>3 DEF StreamSide, ParseInv, AcceptedInOrder
  <2>5. ~(Reading /\ stuck = NoToken) /\ at \notin {"parsed", "returned"}
    BY <2>1 DEF StreamSide, ParseInv, Reading
  <2> QED
    BY <1>1, <2>4, <2>5 DEF StreamSide, ParseInv, Reading, HasType
<1> QED
  BY <1>2, <1>3, <1>4 DEF StreamSide

\* Taking one more token to look at.
LEMMA LookAppends ==
  ASSUME StreamTypes, LexTypes, NEW t \in StreamToken, look' = Append(look, t)
  PROVE  /\ look' \in Seq(StreamToken) /\ look' # <<>>
         /\ Len(look') = Len(look) + 1 /\ Len(look) \in Nat
         /\ \A k \in 1..Len(look) : look'[k] = look[k]
         /\ look'[Len(look) + 1] = t
BY AppendProperties, LenProperties DEF StreamTypes

\* The parser looks at a token of the kind that the case is about.
LookAt(t) == /\ Reading /\ Len(look) < (IF at = "peek" THEN 1 ELSE 3)
             /\ ~HasType(look, "err") /\ ~HasType(look, "eof")
             /\ look' = Append(look, t)
             /\ UNCHANGED <<at, refusals, parsed>>

LEMMA LookTakes ==
  ASSUME StreamTypes, LexTypes, Look
  PROVE  \E t : next(t) /\ LookAt(t)
<1>1. DOMAIN look = 1..Len(look)
  BY StreamLengths
<1>2. ~HasType(look, "err") /\ ~HasType(look, "eof")
  BY <1>1 DEF Look, Types, HasType
<1>3. PICK t : next(t) /\ look' = Append(look, t)
  BY DEF Look
<1>4. Reading /\ Len(look) < (IF at = "peek" THEN 1 ELSE 3) /\ UNCHANGED <<at, refusals, parsed>>
  BY DEF Look, Reading
<1> QED
  BY <1>2, <1>3, <1>4 DEF LookAt

\* The error is returned again.
LEMMA LookAtStuck ==
  ASSUME StreamSide, LexSide, stuck # NoToken, LookAt(stuck),
         UNCHANGED <<bufVars, lexVars, streamVars>>
  PROVE  StreamSide'
<1>1. StreamTypes /\ CountInv /\ ParseInv /\ LexTypes
  BY DEF StreamSide, LexSide
<1>2. stuck \in StreamToken /\ stuck.type = "err"
  BY <1>1 DEF StreamTypes, StreamToken
<1>3. UNCHANGED <<posted, back, stuck, at, refusals, parsed>> /\ Reading
  BY DEF LookAt, lexVars, streamVars
<1>4. /\ look' \in Seq(StreamToken) /\ Len(look') = Len(look) + 1 /\ Len(look) \in Nat
      /\ look'[Len(look) + 1] = stuck /\ look' # <<>>
  BY <1>1, <1>2, LookAppends DEF LookAt
<1>5. Len(look) = 0 /\ look = <<>>
  <2>1. look = <<>>
    BY <1>1, <1>3 DEF CountInv, LookAt
  <2> QED
    BY <2>1, <1>1, StreamLengths
<1>6. StreamTypes'
  BY <1>1, <1>3, <1>4 DEF StreamTypes
<1>7. CountInv'
  <2>1. HasType(look', "err")
    BY <1>2, <1>4, <1>5 DEF HasType
  <2>2. Len(back) \in Nat /\ refusals \in 0..3
    BY <1>1, StreamLengths DEF StreamTypes
  <2>3. Len(back) <= 2 + refusals
    BY <1>1, <1>3, <1>5 DEF CountInv
  <2>4. /\ Len(look') = 1 /\ Len(back') <= 5
        /\ Len(back') + Len(look') <= 3 + refusals'
    BY <1>3, <1>4, <1>5, <2>2, <2>3
  <2>5. at' = "peek" => refusals' = 0
    BY <1>1, <1>3 DEF CountInv
  <2>6. stuck' # NoToken
    BY <1>3
  <2>7. Len(look') <= 3 /\ Len(look') <= 1
    BY <2>4
  <2> QED
    BY <1>4, <2>1, <2>4, <2>5, <2>6, <2>7 DEF CountInv, HasType
<1>8. ParseInv'
  BY <1>1, <1>3 DEF ParseInv, Reading, HasType, AcceptedInOrder
<1> QED
  BY <1>6, <1>7, <1>8 DEF StreamSide

\* What was put back last is returned first.
LEMMA LookAtBack ==
  ASSUME StreamSide, LexSide, stuck = NoToken, back # <<>>, LookAt(Last(back)),
         back' = TakeLast(back), UNCHANGED <<bufVars, lexVars, stuck>>
  PROVE  StreamSide'
<1>1. StreamTypes /\ CountInv /\ ParseInv /\ LexTypes
  BY DEF StreamSide, LexSide
<1>2. /\ Len(back) \in Nat /\ Len(back) >= 1 /\ Len(posted) \in Nat /\ Len(parsed) \in Nat
      /\ back \in Seq(StreamToken) /\ \A k \in 1..Len(back) : back[k] \in StreamToken
  BY <1>1, StreamLengths DEF StreamTypes
<1>3. Last(back) = back[Len(back)] /\ back[Len(back)] \in StreamToken
  BY <1>2 DEF Last
<1>4. UNCHANGED <<posted, stuck, at, refusals, parsed>> /\ Reading /\ ~HasType(look, "err")
  BY DEF LookAt, lexVars
<1>5. /\ look' \in Seq(StreamToken) /\ Len(look') = Len(look) + 1 /\ Len(look) \in Nat
      /\ \A k \in 1..Len(look) : look'[k] = look[k]
      /\ look'[Len(look) + 1] = back[Len(back)]
  BY <1>1, <1>3, LookAppends DEF LookAt
<1>6. /\ back' \in Seq(StreamToken) /\ Len(back') = Len(back) - 1
      /\ \A k \in 1..(Len(back) - 1) : back'[k] = back[k]
  <2>1. back' = SubSeq(back, 1, Len(back) - 1)
    BY DEF TakeLast, Front
  <2>2. /\ 1 \in Int /\ Len(back) - 1 \in Int /\ (Len(back) - 1) - 1 + 1 = Len(back) - 1
        /\ \A k \in 1..(Len(back) - 1) : back[k] \in StreamToken /\ 1 + k - 1 = k
    BY <1>2
  <2>4. (IF 1 <= Len(back) - 1 THEN (Len(back) - 1) - 1 + 1 ELSE 0) = Len(back) - 1
    <3> DEFINE n == Len(back)
    <3>1. n \in Nat /\ n >= 1
      BY <1>2
    <3> HIDE DEF n
    <3>2. (IF 1 <= n - 1 THEN (n - 1) - 1 + 1 ELSE 0) = n - 1
      BY <3>1
    <3> QED
      BY <3>2 DEF n
  <2>3. /\ SubSeq(back, 1, Len(back) - 1) \in Seq(StreamToken)
        /\ Len(SubSeq(back, 1, Len(back) - 1))
             = IF 1 <= Len(back) - 1 THEN (Len(back) - 1) - 1 + 1 ELSE 0
        /\ \A k \in 1..((Len(back) - 1) - 1 + 1) :
              SubSeq(back, 1, Len(back) - 1)[k] = back[1 + k - 1]
    BY <2>2, SubSeqProperties
  <2> QED
    BY <2>1, <2>2, <2>3, <2>4
<1>7. StreamTypes'
  BY <1>1, <1>4, <1>5, <1>6 DEF StreamTypes
<1>8. Len(look) < 3 /\ (at = "peek" => Len(look) < 1)
  <2>1. CASE at = "peek"
    BY <2>1, <1>5 DEF LookAt
  <2>2. CASE at # "peek"
    BY <2>2 DEF LookAt
  <2> QED
    BY <2>1, <2>2
<1>9. CountInv'
  <2>1. /\ Len(look') <= 3 /\ Len(back') <= 5 /\ Len(back') + Len(look') <= 3
        /\ at = "peek" => Len(look') <= 1
    <3>1. Len(back) + Len(look) <= 3
      BY <1>1 DEF CountInv
    <3> QED
      BY <3>1, <1>2, <1>5, <1>6, <1>8
  <2>2. stuck' = NoToken /\ at' = at /\ refusals' = refusals
    BY <1>4
  <2>3. at = "peek" => refusals = 0
    BY <1>1 DEF CountInv
  <2> QED
    BY <2>1, <2>2, <2>3 DEF CountInv
<1>10. ParseInv'
  <2>1. Ordered
    <3>1. ~PastEnd
      BY DEF PastEnd
    <3> QED
      BY <3>1, <1>1, <1>4 DEF ParseInv
  <2>2. Ordered'
    <3>1. Len(posted) = Len(parsed) + Len(look) + Len(back)
      BY <2>1 DEF Ordered
    <3>2. ASSUME NEW k \in 1..Len(look') PROVE posted[Len(parsed) + k] = look'[k]
      <4>1. CASE k \in 1..Len(look)
        BY <4>1, <1>5, <2>1 DEF Ordered
      <4>2. CASE k = Len(look) + 1
        <5>1. Len(posted) + 1 - Len(back) = Len(parsed) + k
          BY <3>1, <4>2, <1>2, <1>5
        <5>2. posted[Len(posted) + 1 - Len(back)] = back[Len(back)]
          BY <1>2, <2>1 DEF Ordered
        <5> QED
          BY <4>2, <5>1, <5>2, <1>5
      <4> QED
        BY <4>1, <4>2, <1>5
    <3>3. ASSUME NEW k \in 1..Len(back') PROVE posted[Len(posted) + 1 - k] = back'[k]
      <4>1. k \in 1..(Len(back) - 1) /\ k \in 1..Len(back)
        BY <1>2, <1>6
      <4> QED
        BY <4>1, <1>6, <2>1 DEF Ordered
    <3>4. Len(posted) = Len(parsed) + Len(look') + Len(back')
      BY <3>1, <1>2, <1>5, <1>6
    <3> QED
      BY <3>2, <3>3, <3>4, <1>4 DEF Ordered
  <2> QED
    BY <1>1, <1>4, <2>2 DEF ParseInv, Reading, HasType, AcceptedInOrder
<1> QED
  BY <1>7, <1>9, <1>10 DEF StreamSide

\* A token is taken from the channel.
LEMMA LookAtChannel ==
  ASSUME StreamSide, LexSide, stuck = NoToken, back = <<>>, LookAt(hand), Taken,
         stuck' = IF hand.type = "err" THEN hand ELSE NoToken, UNCHANGED back
  PROVE  StreamSide'
<1>1. StreamTypes /\ CountInv /\ ParseInv /\ LexTypes /\ EndInv
  BY DEF StreamSide, LexSide
<1>2. /\ hand \in LexToken /\ hand \in StreamToken /\ Len(posted) \in Nat
      /\ Len(posted') = Len(posted) + 1
      /\ \A k \in 1..Len(posted) : posted'[k] = posted[k] /\ posted[k].type \notin EndTypes
      /\ posted'[Len(posted) + 1] = hand
  BY <1>1, TakenFacts DEF StreamToken
<1>3. UNCHANGED <<back, at, refusals, parsed>> /\ Reading
      /\ ~HasType(look, "err") /\ ~HasType(look, "eof")
  BY DEF LookAt
<1>4. /\ look' \in Seq(StreamToken) /\ Len(look') = Len(look) + 1 /\ Len(look) \in Nat
      /\ \A k \in 1..Len(look) : look'[k] = look[k]
      /\ look'[Len(look) + 1] = hand
      /\ look' # <<>>
  BY <1>1, <1>2, LookAppends DEF LookAt
<1>5. Len(back) = 0 /\ Len(parsed) \in Nat
  BY <1>1, StreamLengths
<1>6. StreamTypes'
  <2>1. stuck' = NoToken \/ (stuck' \in LexToken /\ stuck'.type = "err")
    BY <1>2
  <2> QED
    BY <1>1, <1>3, <1>4, <2>1 DEF StreamTypes
<1>7. Len(look) < 3 /\ (at = "peek" => Len(look) < 1)
  <2>1. CASE at = "peek"
    BY <2>1, <1>4 DEF LookAt
  <2>2. CASE at # "peek"
    BY <2>2 DEF LookAt
  <2> QED
    BY <2>1, <2>2
<1>8. CountInv'
  <2>1. /\ Len(look') <= 3 /\ Len(back') <= 5 /\ Len(back') + Len(look') <= 3
        /\ at = "peek" => Len(look') <= 1
    BY <1>3, <1>4, <1>5, <1>7
  <2>2. at' = at /\ refusals' = refusals /\ refusals \in 0..3
    BY <1>1, <1>3 DEF StreamTypes
  <2>3. Len(back') + Len(look') <= 3 + refusals'
    BY <2>1, <2>2, <1>3, <1>4, <1>5
  <2>4. at = "peek" => refusals = 0
    BY <1>1 DEF CountInv
  <2>5. stuck' # NoToken => \E k \in 1..Len(look') : look'[k].type = "err"
    BY <1>4
  <2> QED
    BY <1>4, <2>1, <2>2, <2>3, <2>4, <2>5 DEF CountInv, HasType
<1>9. ParseInv'
  <2>1. Ordered
    <3>1. ~PastEnd
      <4> SUFFICES ASSUME PastEnd PROVE FALSE
        OBVIOUS
      <4>1. HasType(look, "eof")
        BY DEF PastEnd, HasType, ClosedToken
      <4> QED
        BY <4>1, <1>3
    <3> QED
      BY <3>1, <1>1, <1>3 DEF ParseInv
  <2>2. Len(posted) = Len(parsed) + Len(look)
    BY <2>1, <1>4, <1>5 DEF Ordered
  <2>3. Ordered'
    <3>1. ASSUME NEW k \in 1..Len(look') PROVE posted'[Len(parsed) + k] = look'[k]
      <4>1. CASE k \in 1..Len(look)
        <5>1. Len(parsed) + k \in 1..Len(posted)
          BY <4>1, <2>2, <1>4, <1>5
        <5>2. posted[Len(parsed) + k] = look[k]
          BY <4>1, <2>1 DEF Ordered
        <5> QED
          BY <4>1, <5>1, <5>2, <1>2, <1>4
      <4>2. CASE k = Len(look) + 1
        <5>1. Len(parsed) + k = Len(posted) + 1
          BY <4>2, <2>2, <1>4, <1>5
        <5> QED
          BY <5>1, <4>2, <1>2, <1>4
      <4> QED
        BY <4>1, <4>2, <1>4
    <3>2. Len(posted') = Len(parsed) + Len(look') + Len(back')
      BY <2>2, <1>2, <1>3, <1>4, <1>5
    <3>3. Len(back') = 0
      BY <1>3, <1>5
    <3>4. \A k \in 1..Len(back') : posted'[Len(posted') + 1 - k] = back'[k]
      BY <3>3
    <3> QED
      BY <3>1, <3>2, <3>4, <1>3 DEF Ordered
  <2>4. AcceptedInOrder'
    BY <1>1, <1>2, <1>3, <1>5 DEF ParseInv, AcceptedInOrder
  <2>5. at \notin {"parsed", "returned"}
    BY <1>3 DEF Reading
  <2> QED
    BY <1>1, <1>3, <2>3, <2>4, <2>5 DEF ParseInv, HasType
<1> QED
  BY <1>6, <1>8, <1>9 DEF StreamSide

\* The channel is closed: everything has been accepted, up to the end.
LEMMA LookAtClosed ==
  ASSUME StreamSide, LexSide, stuck = NoToken, back = <<>>, lexPc = "closed",
         LookAt(ClosedToken), UNCHANGED <<bufVars, lexVars, streamVars>>
  PROVE  StreamSide'
<1>1. StreamTypes /\ CountInv /\ ParseInv /\ LexTypes /\ EndInv
  BY DEF StreamSide, LexSide
<1>2. UNCHANGED <<posted, back, stuck, at, refusals, parsed>> /\ Reading
      /\ ~HasType(look, "err") /\ ~HasType(look, "eof")
  BY DEF LookAt, lexVars, streamVars
<1>3. ClosedToken \in StreamToken
  BY DEF StreamToken
<1>4. /\ look' \in Seq(StreamToken) /\ Len(look') = Len(look) + 1 /\ Len(look) \in Nat
      /\ look'[Len(look) + 1] = ClosedToken
  BY <1>1, <1>3, LookAppends DEF LookAt
<1>5. Len(back) = 0 /\ Len(parsed) \in Nat /\ Len(posted) \in Nat
  BY <1>1, StreamLengths
<1>6. Ordered
  <2>1. ~PastEnd
    <3> SUFFICES ASSUME PastEnd PROVE FALSE
      OBVIOUS
    <3>1. HasType(look, "eof")
      BY DEF PastEnd, HasType, ClosedToken
    <3> QED
      BY <3>1, <1>2
  <2> QED
    BY <2>1, <1>1, <1>2 DEF ParseInv
<1>7. Len(posted) = Len(parsed) + Len(look) /\ Len(posted) >= 1
      /\ posted[Len(posted)].type \in {"eof", "err"}
  BY <1>1, <1>4, <1>5, <1>6 DEF Ordered, EndInv, EndTypes
<1>8. Len(look) = 0
  <2> SUFFICES ASSUME Len(look) >= 1 PROVE FALSE
    BY <1>4
  <2>1. look[Len(look)] = posted[Len(posted)] /\ Len(look) \in 1..Len(look)
    <3>1. Len(look) \in 1..Len(look)
      BY <1>4
    <3> QED
      BY <3>1, <1>6, <1>7 DEF Ordered
  <2> QED
    BY <2>1, <1>2, <1>7 DEF HasType
<1>9. Len(parsed) = Len(posted)
  BY <1>4, <1>5, <1>7, <1>8
<1>10. at = "peek"
  <2>1. Len(parsed) \in 1..Len(parsed) /\ parsed[Len(parsed)] = posted[Len(posted)]
    BY <1>1, <1>5, <1>7, <1>9 DEF ParseInv, AcceptedInOrder
  <2>2. HasType(parsed, "eof") \/ HasType(parsed, "err")
    BY <2>1, <1>7 DEF HasType
  <2> QED
    BY <2>2, <1>1, <1>2 DEF ParseInv, Reading
<1>11. StreamTypes'
  BY <1>1, <1>2, <1>4 DEF StreamTypes
<1>12. CountInv'
  <2>1. Len(look') = 1 /\ Len(back') = 0
    BY <1>2, <1>4, <1>5, <1>8
  <2>2. refusals' = 0 /\ stuck' = NoToken
    BY <1>1, <1>2, <1>10 DEF CountInv
  <2> QED
    BY <2>1, <2>2 DEF CountInv
<1>13. ParseInv'
  <2>1. PastEnd'
    BY <1>2, <1>4, <1>8, <1>9, <1>10 DEF PastEnd, ClosedToken
  <2> QED
    BY <1>1, <1>2, <2>1 DEF ParseInv, Reading, HasType, AcceptedInOrder
<1> QED
  BY <1>11, <1>12, <1>13 DEF StreamSide

LEMMA LookKeepsStreamSide ==
  ASSUME StreamSide, LexSide, Look
  PROVE  StreamSide'
<1>1. PICK t : next(t) /\ LookAt(t)
  BY LookTakes DEF StreamSide, LexSide
<1>2. CASE stuck # NoToken /\ t = stuck /\ UNCHANGED <<bufVars, lexVars, streamVars>>
  BY <1>1, <1>2, LookAtStuck
<1>3. CASE /\ stuck = NoToken /\ back # <<>> /\ t = Last(back) /\ back' = TakeLast(back)
           /\ UNCHANGED <<bufVars, lexVars, stuck>>
  BY <1>1, <1>3, LookAtBack
<1>4. CASE /\ stuck = NoToken /\ back = <<>> /\ Taken /\ t = hand
           /\ stuck' = (IF t.type = "err" THEN t ELSE NoToken) /\ UNCHANGED back
  BY <1>1, <1>4, LookAtChannel
<1>5. CASE /\ stuck = NoToken /\ back = <<>> /\ lexPc = "closed"
           /\ t = [type |-> "eof"] /\ UNCHANGED <<bufVars, lexVars, streamVars>>
  BY <1>1, <1>5, LookAtClosed DEF ClosedToken
<1> QED
  BY <1>1, <1>2, <1>3, <1>4, <1>5 DEF next

\* What is looked at is put back, what was taken first on top.
LEMMA PutBack ==
  ASSUME StreamSide, LexSide, Len(back) + Len(look) <= StreamSize, NEW there, PushBackAnd(there)
  PROVE  /\ UNCHANGED <<posted, stuck, parsed>> /\ at' = there
         /\ look' = <<>> /\ look' \in Seq(StreamToken) /\ Len(look') = 0
         /\ back' \in Seq(StreamToken) /\ Len(back') = Len(back) + Len(look)
         /\ Ordered => Ordered'
<1>1. StreamTypes /\ LexTypes
  BY DEF StreamSide, LexSide
<1>2. /\ Len(back) \in Nat /\ Len(look) \in Nat /\ Len(posted) \in Nat /\ Len(parsed) \in Nat
      /\ back \in Seq(StreamToken) /\ look \in Seq(StreamToken)
      /\ \A k \in 1..Len(look) : look[k] \in StreamToken
  BY <1>1, StreamLengths DEF StreamTypes
<1>3. /\ UNCHANGED <<posted, stuck, parsed>> /\ at' = there /\ look' = <<>>
      /\ back' = back \o Reverse(look)
  BY DEF PushBackAnd, LastTakenFirst, lexVars
<1>4. look' \in Seq(StreamToken) /\ Len(look') = 0
  BY <1>3, EmptySeq
<1> DEFINE r == Reverse(look)
           n == Len(look)
<1>5. r \in Seq(StreamToken) /\ Len(r) = n /\ \A k \in 1..n : r[k] = look[(n - k) + 1]
  <2>1. r = [k \in 1..n |-> look[(n - k) + 1]]
    BY DEF Reverse
  <2>2. n \in Nat /\ \A k \in 1..n : (n - k) + 1 \in 1..n
    BY <1>2
  <2>3. \A k \in 1..n : look[(n - k) + 1] \in StreamToken
    BY <2>2, <1>2
  <2> HIDE DEF n, r
  <2> QED
    BY <2>1, <2>2, <2>3
<1> HIDE DEF r
<1>6. /\ back' \in Seq(StreamToken) /\ Len(back') = Len(back) + n
      /\ \A k \in 1..(Len(back) + n) :
            back'[k] = IF k <= Len(back) THEN back[k] ELSE r[k - Len(back)]
  <2>1. back' = back \o r
    BY <1>3 DEF r
  <2>2. /\ back \o r \in Seq(StreamToken) /\ Len(back \o r) = Len(back) + Len(r)
        /\ \A k \in 1..(Len(back) + Len(r)) :
              (back \o r)[k] = IF k <= Len(back) THEN back[k] ELSE r[k - Len(back)]
    BY <1>2, <1>5, ConcatProperties
  <2> QED
    BY <2>1, <2>2, <1>5
<1>7. ASSUME Ordered PROVE Ordered'
  <2>1. Len(posted) = Len(parsed) + n + Len(back)
    BY <1>7 DEF Ordered
  <2>2. ASSUME NEW k \in 1..Len(back') PROVE posted[Len(posted) + 1 - k] = back'[k]
    <3>1. CASE k <= Len(back)
      <4>1. k \in 1..Len(back)
        BY <3>1, <1>2, <1>6
      <4> QED
        BY <4>1, <3>1, <1>6, <1>7 DEF Ordered
    <3>2. CASE ~(k <= Len(back))
      <4>1. /\ k - Len(back) \in 1..n
            /\ (n - (k - Len(back))) + 1 \in 1..n
            /\ Len(posted) + 1 - k = Len(parsed) + ((n - (k - Len(back))) + 1)
        BY <3>2, <1>2, <1>6, <2>1
      <4>2. back'[k] = look[(n - (k - Len(back))) + 1]
        BY <3>2, <4>1, <1>5, <1>6
      <4>3. posted[Len(parsed) + ((n - (k - Len(back))) + 1)] = look[(n - (k - Len(back))) + 1]
        BY <4>1, <1>7 DEF Ordered
      <4> QED
        BY <4>1, <4>2, <4>3
    <3> QED
      BY <3>1, <3>2
  <2>3. Len(posted) = Len(parsed) + Len(look') + Len(back')
    BY <2>1, <1>2, <1>4, <1>6
  <2>4. \A k \in 1..Len(look') : posted[Len(parsed) + k] = look'[k]
    BY <1>4
  <2> QED
    BY <2>2, <2>3, <2>4, <1>3 DEF Ordered
<1> QED
  BY <1>3, <1>4, <1>6, <1>7

LEMMA PeekEndsKeepsStreamSide ==
  ASSUME StreamSide, LexSide, PeekEnds
  PROVE  StreamSide'
<1>1. StreamTypes /\ CountInv /\ ParseInv /\ LexTypes /\ EndInv
  BY DEF StreamSide, LexSide
<1>2. /\ Len(back) \in Nat /\ Len(look) \in Nat /\ Len(posted) \in Nat /\ Len(parsed) \in Nat
  BY <1>1, StreamLengths
<1>3. at = "peek" /\ look # <<>> /\ refusals' = refusals /\ Reading
  BY DEF PeekEnds, Reading
<1>4. Len(look) = 1 /\ refusals = 0
  <2>1. Len(look) >= 1
    BY <1>1, <1>3, StreamLengths
  <2>2. Len(look) <= 1 /\ refusals = 0
    BY <1>1, <1>3 DEF CountInv
  <2>3. Len(look) \in Nat
    BY <1>2
  <2>4. Len(look) = 1
    <3> DEFINE n == Len(look)
    <3>1. n \in Nat /\ n >= 1 /\ n <= 1
      BY <2>1, <2>2, <2>3
    <3> HIDE DEF n
    <3>2. n = 1
      BY <3>1
    <3> QED
      BY <3>2 DEF n
  <2> QED
    BY <2>2, <2>4
<1>5. Len(back) + Len(look) <= 3
  BY <1>1, <1>2, <1>3, <1>4 DEF CountInv
<1>6. PICK there \in {"parsed", "failed", "statement"} :
        /\ PushBackAnd(there)
        /\ look[1].type = "eof" => there = "parsed"
        /\ look[1].type = "err" => there = "failed"
        /\ look[1].type \notin EndTypes => there = "statement"
  <2> DEFINE there == CASE look[1].type = "eof" -> "parsed"
                        [] look[1].type = "err" -> "failed"
                        [] OTHER -> "statement"
  <2>1. PushBackAnd(there)
    BY DEF PeekEnds
  <2>2. CASE look[1].type = "eof"
    <3>1. there = "parsed"
      BY <2>2
    <3> QED
      BY <2>1, <2>2, <3>1 DEF EndTypes
  <2>3. CASE look[1].type = "err"
    <3>1. there = "failed"
      BY <2>3
    <3> QED
      BY <2>1, <2>3, <3>1 DEF EndTypes
  <2>4. CASE look[1].type \notin EndTypes
    <3>1. there = "statement"
      BY <2>4 DEF EndTypes
    <3> QED
      BY <2>1, <2>4, <3>1 DEF EndTypes
  <2> QED
    BY <2>2, <2>3, <2>4 DEF EndTypes
<1>7. /\ UNCHANGED <<posted, stuck, parsed>> /\ at' = there
      /\ look' = <<>> /\ look' \in Seq(StreamToken) /\ Len(look') = 0
      /\ back' \in Seq(StreamToken) /\ Len(back') = Len(back) + Len(look)
      /\ Ordered => Ordered'
  <2>1. Len(back) + Len(look) <= StreamSize
    BY <1>2, <1>5, StreamSizeAssumption
  <2> QED
    BY <1>6, <2>1, PutBack
<1>8. stuck # NoToken => there = "failed"
  <2> SUFFICES ASSUME stuck # NoToken PROVE look[1].type = "err"
    BY <1>6
  <2>1. HasType(look, "err")
    BY <1>1, <1>3 DEF CountInv
  <2> QED
    BY <2>1, <1>4 DEF HasType
<1>9. StreamTypes'
  <2>1. at' \in ParseState
    BY <1>6, <1>7 DEF ParseState
  <2> QED
    BY <1>1, <1>3, <1>7, <2>1 DEF StreamTypes
<1>10. CountInv'
  <2>1. Len(look') <= 3 /\ Len(back') <= 5 /\ Len(back') + Len(look') <= 3
    BY <1>2, <1>5, <1>7
  <2>2. at' # "peek"
    BY <1>6, <1>7
  <2>3. stuck' # NoToken => at' \notin {"peek", "statement"}
    BY <1>7, <1>8
  <2> QED
    BY <2>1, <2>2, <2>3 DEF CountInv, Reading
<1>11. ParseInv'
  <2>1. stuck = NoToken => Ordered \/ PastEnd
    BY <1>1, <1>3 DEF ParseInv
  <2>2. Ordered => posted[Len(parsed) + 1] = look[1] /\ Len(parsed) + 1 \in 1..Len(posted)
    BY <1>2, <1>4 DEF Ordered
  <2>3. there = "statement" => look[1].type \notin EndTypes
    BY <1>6 DEF EndTypes
  <2>4. ASSUME there = "statement" PROVE Ordered' /\ ~HasType(parsed, "eof")
    <3>1. Ordered
      BY <1>8, <2>1, <2>3, <2>4 DEF PastEnd, ClosedToken, EndTypes
    <3>2. ASSUME NEW k \in 1..Len(parsed), parsed[k].type = "eof" PROVE FALSE
      <4>1. posted[k].type \in EndTypes /\ k \in 1..Len(posted)
        BY <1>1, <1>2, <3>2 DEF ParseInv, AcceptedInOrder, EndTypes
      <4>2. k = Len(posted)
        BY <4>1, <1>1 DEF EndInv
      <4> QED
        BY <4>2, <3>1, <2>2, <1>2
    <3> QED
      BY <3>1, <3>2, <1>7 DEF HasType
  <2>5. ASSUME there = "parsed"
        PROVE  \A k \in 1..Len(posted) : k <= Len(parsed) \/ posted[k].type = "eof"
    <3>1. stuck = NoToken
      BY <1>8, <2>5
    <3>2. look[1].type = "eof"
      BY <1>6, <2>5 DEF EndTypes
    <3>3. CASE Ordered
      <4>1. Len(parsed) + 1 = Len(posted)
        BY <2>2, <3>2, <3>3, <1>1 DEF EndInv, EndTypes
      <4> QED
        BY <4>1, <2>2, <3>2, <3>3, <1>2
    <3>4. CASE PastEnd
      BY <3>4, <1>2 DEF PastEnd
    <3> QED
      BY <2>1, <3>1, <3>3, <3>4
  <2>6. AcceptedInOrder'
    BY <1>1, <1>7 DEF ParseInv, AcceptedInOrder
  <2>7. ~HasType(parsed', "err")
    BY <1>1, <1>7 DEF ParseInv, HasType
  <2>8. at' \in {"peek", "statement"} => at' = "statement" /\ Ordered'
    BY <1>6, <1>7, <2>4
  <2>9. at' = "statement" => ~HasType(parsed', "eof")
    BY <1>7, <2>4
  <2>10. at' \in {"parsed", "returned"} =>
           /\ stuck' = NoToken
           /\ \A k \in 1..Len(posted') : k <= Len(parsed') \/ posted'[k].type = "eof"
    BY <1>6, <1>7, <1>8, <2>5
  <2> QED
    BY <2>6, <2>7, <2>8, <2>9, <2>10 DEF ParseInv, Reading, HasType
<1> QED
  BY <1>9, <1>10, <1>11 DEF StreamSide

LEMMA RefuseKeepsStreamSide ==
  ASSUME StreamSide, LexSide, Refuse
  PROVE  StreamSide'
<1>1. StreamTypes /\ CountInv /\ ParseInv /\ LexTypes /\ EndInv
  BY DEF StreamSide, LexSide
<1>2. /\ Len(back) \in Nat /\ Len(look) \in Nat /\ Len(posted) \in Nat /\ Len(parsed) \in Nat
      /\ refusals \in 0..3
  BY <1>1, StreamLengths DEF StreamTypes
<1>3. /\ at = "statement" /\ look # <<>> /\ refusals < 3 /\ refusals' = refusals + 1
      /\ PushBackAnd("statement") /\ Reading
  BY DEF Refuse, Reading
<1>4. Len(back) + Len(look) <= 3 + refusals
  <2>1. CASE stuck = NoToken
    BY <2>1, <1>1, <1>2 DEF CountInv
  <2>2. CASE stuck # NoToken
    BY <2>2, <1>1, <1>3 DEF CountInv
  <2> QED
    BY <2>1, <2>2
<1>5. /\ UNCHANGED <<posted, stuck, parsed>> /\ at' = "statement"
      /\ look' = <<>> /\ look' \in Seq(StreamToken) /\ Len(look') = 0
      /\ back' \in Seq(StreamToken) /\ Len(back') = Len(back) + Len(look)
      /\ Ordered => Ordered'
  <2>1. Len(back) + Len(look) <= StreamSize
    BY <1>2, <1>3, <1>4, StreamSizeAssumption
  <2> QED
    BY <1>3, <2>1, PutBack
<1>6. StreamTypes'
  <2>1. refusals' \in 0..3
    BY <1>2, <1>3
  <2>2. at' \in ParseState
    BY <1>5 DEF ParseState
  <2> QED
    BY <1>1, <1>5, <2>1, <2>2 DEF StreamTypes
<1>7. CountInv'
  <2>1. Len(look') <= 3 /\ Len(back') <= 5 /\ Len(back') <= 2 + refusals'
        /\ Len(back') + Len(look') <= 3 + refusals'
    BY <1>2, <1>3, <1>4, <1>5
  <2>2. stuck' = NoToken => Len(back') + Len(look') <= 3
    BY <1>1, <1>2, <1>5 DEF CountInv
  <2>3. at' # "peek"
    BY <1>5
  <2> QED
    BY <1>5, <2>1, <2>2, <2>3 DEF CountInv
<1>8. ParseInv'
  <2>1. stuck = NoToken => Ordered
    BY <1>1, <1>3 DEF ParseInv, PastEnd
  <2>2. AcceptedInOrder'
    BY <1>1, <1>5 DEF ParseInv, AcceptedInOrder
  <2>3. ~HasType(parsed', "err") /\ ~HasType(parsed', "eof")
    BY <1>1, <1>3, <1>5 DEF ParseInv, HasType
  <2>4. stuck' = NoToken => Ordered'
    BY <2>1, <1>5
  <2>5. at' \notin {"parsed", "returned"}
    BY <1>5
  <2> QED
    BY <2>2, <2>3, <2>4, <2>5 DEF ParseInv, HasType
<1> QED
  BY <1>6, <1>7, <1>8 DEF StreamSide

LEMMA AcceptKeepsStreamSide ==
  ASSUME StreamSide, LexSide, AcceptTokens
  PROVE  StreamSide'
<1>1. StreamTypes /\ CountInv /\ ParseInv /\ LexTypes /\ EndInv
  BY DEF StreamSide, LexSide
<1>2. /\ Len(back) \in Nat /\ Len(look) \in Nat /\ Len(posted) \in Nat /\ Len(parsed) \in Nat
      /\ back \in Seq(StreamToken) /\ look \in Seq(StreamToken) /\ parsed \in Seq(StreamToken)
      /\ DOMAIN look = 1..Len(look)
  BY <1>1, StreamLengths DEF StreamTypes
<1>3. /\ at = "statement" /\ look # <<>> /\ Reading
      /\ parsed' = parsed \o look /\ look' = <<>> /\ refusals' = 0
      /\ UNCHANGED <<posted, back, stuck>>
  BY DEF AcceptTokens, Reading, lexVars, streamVars
<1>4. ~HasType(look, "err") /\ (HasType(look, "eof") => Len(look) = 1)
  BY <1>2 DEF AcceptTokens, Types, HasType
<1>5. /\ at' \in {"peek", "statement"}
      /\ at' = "statement" => look[1].type # "eof"
  <2>1. at' = IF look[1].type \in {"eol", "eof"} THEN "peek" ELSE "statement"
    BY DEF AcceptTokens
  <2> QED
    BY <2>1
<1>6. /\ parsed' \in Seq(StreamToken) /\ Len(parsed') = Len(parsed) + Len(look)
      /\ \A k \in 1..(Len(parsed) + Len(look)) :
            parsed'[k] = IF k <= Len(parsed) THEN parsed[k] ELSE look[k - Len(parsed)]
  BY <1>2, <1>3, ConcatProperties
<1>7. look' \in Seq(StreamToken) /\ Len(look') = 0
  BY <1>3, EmptySeq
<1>8. stuck = NoToken
  BY <1>1, <1>3, <1>4 DEF CountInv
<1>9. Ordered
  BY <1>1, <1>3, <1>8 DEF ParseInv, PastEnd
<1>10. StreamTypes'
  <2>1. at' \in ParseState
    BY <1>5 DEF ParseState
  <2> QED
    BY <1>1, <1>3, <1>6, <1>7, <2>1 DEF StreamTypes
<1>11. CountInv'
  <2>1. Len(back) + Len(look) <= 3 /\ Len(back) <= 5
    BY <1>1, <1>8 DEF CountInv
  <2>2. /\ Len(look') <= 3 /\ Len(back') <= 5 /\ Len(back') + Len(look') <= 3
        /\ Len(look') <= 1 /\ stuck' = NoToken
    BY <2>1, <1>2, <1>3, <1>7, <1>8
  <2> QED
    BY <2>2, <1>3 DEF CountInv
<1>12. Len(posted) = Len(parsed) + Len(look) + Len(back)
  BY <1>9 DEF Ordered
<1>13. Ordered'
  <2>1. Len(posted) = Len(parsed') + Len(look') + Len(back')
    BY <1>2, <1>3, <1>6, <1>7, <1>12
  <2>2. \A k \in 1..Len(look') : posted[Len(parsed') + k] = look'[k]
    BY <1>7
  <2>3. \A k \in 1..Len(back) : posted[Len(posted) + 1 - k] = back[k]
    BY <1>9 DEF Ordered
  <2> QED
    BY <2>1, <2>2, <2>3, <1>3 DEF Ordered
<1>14. AcceptedInOrder'
  <2>1. ASSUME NEW k \in 1..Len(parsed') PROVE parsed'[k] = posted[k]
    <3>1. CASE k <= Len(parsed)
      <4>1. k \in 1..Len(parsed) /\ k \in 1..(Len(parsed) + Len(look))
        BY <3>1, <1>2, <1>6
      <4> QED
        BY <4>1, <3>1, <1>1, <1>6 DEF ParseInv, AcceptedInOrder
    <3>2. CASE ~(k <= Len(parsed))
      <4>1. /\ k - Len(parsed) \in 1..Len(look) /\ Len(parsed) + (k - Len(parsed)) = k
            /\ k \in 1..(Len(parsed) + Len(look))
        BY <3>2, <1>2, <1>6
      <4>2. posted[Len(parsed) + (k - Len(parsed))] = look[k - Len(parsed)]
        BY <4>1, <1>9 DEF Ordered
      <4> QED
        BY <4>1, <4>2, <3>2, <1>6
    <3> QED
      BY <3>1, <3>2
  <2>2. Len(parsed') <= Len(posted)
    BY <1>2, <1>6, <1>12
  <2> QED
    BY <2>1, <2>2, <1>3 DEF AcceptedInOrder
<1>15. ASSUME NEW type, ~HasType(parsed, type), ~HasType(look, type)
       PROVE  ~HasType(parsed', type)
  <2> SUFFICES ASSUME NEW k \in 1..Len(parsed'), parsed'[k].type = type PROVE FALSE
    BY DEF HasType
  <2>1. CASE k <= Len(parsed)
    <3>1. k \in 1..Len(parsed) /\ parsed'[k] = parsed[k]
      BY <2>1, <1>2, <1>6
    <3> QED
      BY <3>1, <1>15 DEF HasType
  <2>2. CASE ~(k <= Len(parsed))
    <3>1. k - Len(parsed) \in 1..Len(look) /\ parsed'[k] = look[k - Len(parsed)]
      BY <2>2, <1>2, <1>6
    <3> QED
      BY <3>1, <1>15 DEF HasType
  <2> QED
    BY <2>1, <2>2
<1>16. ParseInv'
  <2>1. ~HasType(parsed', "err")
    BY <1>1, <1>4, <1>15 DEF ParseInv
  <2>2. at' = "statement" => ~HasType(parsed', "eof")
    <3> SUFFICES ASSUME at' = "statement" PROVE ~HasType(parsed', "eof")
      OBVIOUS
    <3>1. ~HasType(look, "eof")
      BY <1>4, <1>5 DEF HasType
    <3> QED
      BY <3>1, <1>1, <1>3, <1>15 DEF ParseInv
  <2>3. at' \notin {"parsed", "returned"}
    BY <1>5
  <2> QED
    BY <2>1, <2>2, <2>3, <1>13, <1>14 DEF ParseInv, HasType
<1> QED
  BY <1>10, <1>11, <1>16 DEF StreamSide

\* The parser gives up, or returns.
LEMMA EndKeepsStreamSide ==
  ASSUME StreamSide, LexSide, GiveUp \/ Return
  PROVE  StreamSide'
<1>1. StreamTypes /\ CountInv /\ ParseInv
  BY DEF StreamSide
<1>2. UNCHANGED <<posted, back, stuck, look, refusals, parsed>>
  BY DEF GiveUp, Return, lexVars, streamVars
<1>3. /\ at' \in {"failed", "returned", "returned_error"}
      /\ at' = "returned" => at = "parsed"
  BY DEF GiveUp, Return
<1>4. StreamTypes'
  <2>1. at' \in ParseState
    BY <1>3 DEF ParseState
  <2> QED
    BY <1>1, <1>2, <2>1 DEF StreamTypes
<1>5. CountInv'
  <2>1. at' \notin {"peek", "statement"}
    BY <1>3
  <2> QED
    BY <2>1, <1>1, <1>2 DEF CountInv, Reading
<1>6. ParseInv'
  <2>1. at' \notin {"peek", "statement"} /\ (at' \in {"parsed", "returned"} => at = "parsed")
    BY <1>3
  <2> QED
    BY <2>1, <1>1, <1>2 DEF ParseInv, Reading, HasType, AcceptedInOrder
<1> QED
  BY <1>4, <1>5, <1>6 DEF StreamSide

-----------------------------------------------------------------------------
(* The invariant is inductive *)

LEMMA InitIndInv == Init => IndInv
<1> SUFFICES ASSUME Init PROVE IndInv
  OBVIOUS
<1>1. RingInv /\ pos \in Int
  BY InitRing DEF Init, BufInit
<1>2. /\ lexPc = "skip" /\ then = "skip" /\ line = 1
      /\ hand = NoToken /\ posted = <<>> /\ back = <<>> /\ stuck = NoToken
      /\ at = "peek" /\ look = <<>> /\ refusals = 0 /\ parsed = <<>>
  BY DEF Init
<1>3. /\ posted \in Seq(LexToken) /\ back \in Seq(StreamToken) /\ look \in Seq(StreamToken)
      /\ parsed \in Seq(StreamToken)
      /\ Len(posted) = 0 /\ Len(back) = 0 /\ Len(look) = 0 /\ Len(parsed) = 0
  BY <1>2, EmptySeq
<1>4. LexTypes
  BY <1>2, <1>3 DEF LexTypes, LexReading, LexState
<1>5. StreamTypes
  BY <1>2, <1>3 DEF StreamTypes, ParseState
<1>6. LineInv
  <2>1. fetched = 0 /\ startPtr = 0 /\ writePtr = 0 /\ Distance(0, 0) = 0
    BY DistanceSelf, SizeAssumption DEF Init, BufInit, Pointer
  <2>2. PositionOf(startPtr) = 0
    BY <2>1 DEF PositionOf
  <2> QED
    BY <2>2, <1>2 DEF LineInv
<1>7. EndInv
  BY <1>2, <1>3 DEF EndInv
<1>8. CountInv
  BY <1>2, <1>3 DEF CountInv, Reading
<1>9. ParseInv
  <2>1. Ordered
    BY <1>3 DEF Ordered
  <2>2. AcceptedInOrder
    BY <1>3 DEF AcceptedInOrder
  <2> QED
    BY <2>1, <2>2, <1>2, <1>3 DEF ParseInv, HasType
<1> QED
  BY <1>1, <1>4, <1>5, <1>6, <1>7, <1>8, <1>9 DEF IndInv

LEMMA NextIndInv ==
  ASSUME IndInv, [Next]_vars
  PROVE  IndInv'
<1>1. RingInv /\ pos \in Int /\ LexSide /\ StreamSide
  BY DEF IndInv, LexSide, StreamSide
<1>2. RingInv' /\ pos' \in Int
  BY <1>1, NextRing, StepRing
<1>3. LexSide' /\ StreamSide'
  <2>1. CASE Lex
    <3>1. LexStep /\ UNCHANGED <<streamVars, parserVars>>
      BY <2>1 DEF Lex
    <3>2. LexSide' /\ posted' = posted
      BY <1>1, <3>1, LexKeepsLexSide
    <3> QED
      BY <1>1, <3>1, <3>2, LexKeepsStreamSide
  <2>2. CASE Drain
    <3>1. Taken
      BY <2>2 DEF Drain
    <3> QED
      BY <1>1, <2>2, <3>1, TakenKeepsLexSide, DrainKeepsStreamSide
  <2>3. CASE Look
    <3>1. Taken \/ UNCHANGED <<bufVars, lexVars>>
      BY <2>3 DEF Look, next
    <3> QED
      BY <1>1, <2>3, <3>1, TakenKeepsLexSide, UnchangedKeepsLexSide, LookKeepsStreamSide
  <2>4. CASE PeekEnds \/ Refuse
    <3>1. UNCHANGED <<bufVars, lexVars>>
      BY <2>4 DEF PeekEnds, Refuse, PushBackAnd
    <3> QED
      BY <1>1, <2>4, <3>1, UnchangedKeepsLexSide, PeekEndsKeepsStreamSide, RefuseKeepsStreamSide
  <2>5. CASE AcceptTokens \/ GiveUp \/ Return
    <3>1. UNCHANGED <<bufVars, lexVars>>
      BY <2>5 DEF AcceptTokens, GiveUp, Return
    <3> QED
      BY <1>1, <2>5, <3>1, UnchangedKeepsLexSide, AcceptKeepsStreamSide, EndKeepsStreamSide
  <2>6. CASE Finished \/ UNCHANGED vars
    <3>1. UNCHANGED <<bufVars, lexVars>> /\ UNCHANGED <<posted, streamVars, parserVars>>
      BY <2>6 DEF Finished, vars, lexVars
    <3> QED
      BY <1>1, <3>1, UnchangedKeepsLexSide, LexKeepsStreamSide
  <2> QED
    BY <2>1, <2>2, <2>3, <2>4, <2>5, <2>6 DEF Next, Parse
<1> QED
  BY <1>2, <1>3 DEF IndInv, LexSide, StreamSide

\* The positions of the ring, what has been taken from the channel and what the
\* parser has in its hands fit together in every state.
THEOREM LexerInductive == Spec => []IndInv
<1>1. IndInv /\ [Next]_vars => IndInv'
  BY NextIndInv
<1> QED
  BY <1>1, InitIndInv, PTL DEF Spec

\* Every variable has its type: the pointers stay in the ring, the lines are
\* those of the text, and the push-back buffer is within its capacity.
THEOREM LexerTypeCorrect == Spec => []TypeOK
<1>1. ASSUME IndInv PROVE TypeOK
  <2>1. RingInv /\ LexTypes /\ StreamTypes /\ LineInv /\ CountInv /\ pos \in Int
    BY <1>1 DEF IndInv
  <2>2. BufTypeOK
    <3>1. DOMAIN buf = 0..(Size - 1)
      BY <2>1 DEF RingInv, ContentInv, Pointer
    <3> QED
      BY <2>1, <3>1 DEF BufTypeOK, RingInv, PointersOK, TextOK, Pointer
  <2>3. line \in 1..(Len(text) + 1)
    <3>1. PositionOf(startPtr) \in 0..Len(text) /\ Len(text) \in Nat
      <4>1. PositionOf(startPtr) = fetched - Kept
        BY Positions
      <4>2. /\ Kept \in Nat /\ fetched \in Nat /\ Kept <= fetched /\ fetched <= Len(text)
            /\ Len(text) \in Nat
        BY <2>1, TextIsSeq, DistanceIs
           DEF RingInv, PointersOK, TextOK, OrderInv, Kept, Unseen, Pointer
      <4> QED
        BY <4>1, <4>2
    <3> QED
      BY <2>1, <3>1 DEF LineInv
  <2>4. Len(back) <= StreamSize
    <3>1. Len(back) \in Nat /\ Len(back) <= 5
      BY <2>1, StreamLengths DEF CountInv
    <3> QED
      BY <3>1, StreamSizeAssumption
  <2>5. Len(look) <= 3
    BY <2>1 DEF CountInv
  <2> QED
    BY <2>1, <2>2, <2>3, <2>4, <2>5 DEF TypeOK, LexTypes, StreamTypes, LexState, ParseState
<1> QED
  BY <1>1, LexerInductive, PTL

\* Whatever the parser takes, puts back and takes again, it accepts the tokens
\* in the order of the channel, each once, and all of them when it succeeds;
\* and the push-back buffer never overflows (tokens.go:52).
THEOREM LexerParserSeesAllTokens == Spec => []ParserSeesAllTokens
<1>1. ASSUME IndInv PROVE ParserSeesAllTokens
  <2>1. LexTypes /\ StreamTypes /\ ParseInv
    BY <1>1 DEF IndInv
  <2>2. at # "panicked"
    BY <2>1 DEF StreamTypes, ParseState
  <2>3. IsPrefix(parsed, posted)
    <3>1. /\ parsed \in Seq(StreamToken) /\ posted \in Seq(StreamToken)
          /\ Len(parsed) \in Nat /\ Len(posted) \in Nat
      <4>1. posted \in Seq(LexToken) /\ LexToken \subseteq StreamToken
        BY <2>1 DEF LexTypes, StreamToken
      <4>2. posted \in Seq(StreamToken)
        BY <4>1, SeqMonotonic
      <4> QED
        BY <2>1, <4>2, StreamLengths DEF StreamTypes
    <3>2. Len(parsed) <= Len(posted) /\ \A k \in 1..Len(parsed) : parsed[k] = posted[k]
      BY <2>1 DEF ParseInv, AcceptedInOrder
    <3> DEFINE n == Len(parsed)
               s == SubSeq(parsed, 1, n)
               t == SubSeq(posted, 1, n)
    <3>3. /\ \A k \in 1..n : parsed[k] \in StreamToken
          /\ \A k \in 1..n : posted[k] \in StreamToken
      BY <3>1, <3>2, ElementOfSeq
    <3>4. n \in Nat /\ n \in Int /\ 1 \in Int /\ n - 1 + 1 = n /\ \A k \in 1..n : 1 + k - 1 = k
      BY <3>1
    <3> HIDE DEF n
    <3>5. /\ s \in Seq(StreamToken) /\ Len(s) = IF 1 <= n THEN n - 1 + 1 ELSE 0
          /\ \A k \in 1..(n - 1 + 1) : s[k] = parsed[1 + k - 1]
      BY <3>3, <3>4, SubSeqProperties
    <3>6. /\ t \in Seq(StreamToken) /\ Len(t) = IF 1 <= n THEN n - 1 + 1 ELSE 0
          /\ \A k \in 1..(n - 1 + 1) : t[k] = posted[1 + k - 1]
      BY <3>3, <3>4, SubSeqProperties
    <3> HIDE DEF s, t
    <3>7. Len(s) = n /\ Len(t) = n
      BY <3>4, <3>5, <3>6
    <3>8. \A k \in 1..Len(s) : s[k] = t[k]
      BY <3>2, <3>4, <3>5, <3>6, <3>7 DEF n
    <3>9. s = t
      BY <3>5, <3>6, <3>7, <3>8, SeqEqual
    <3> QED
      BY <3>2, <3>9 DEF IsPrefix, n, s, t
  <2>4. DOMAIN posted = 1..Len(posted)
    BY <2>1, StreamLengths
  <2> QED
    BY <2>1, <2>2, <2>3, <2>4 DEF ParserSeesAllTokens, ParseInv
<1> QED
  BY <1>1, LexerInductive, PTL

-----------------------------------------------------------------------------
(* Lines and columns of a text *)

LineOf(t, n) == 1 + Cardinality({i \in 1..n : t[i] = "\n"})
ColumnOf(t, n) == 1 + Cardinality({i \in 1..n : LineOf(t, i) = LineOf(t, n) /\ t[i] # "\n"})

LEMMA LineIsNat == \A t : \A n \in Nat : LineOf(t, n) \in Nat
<1> SUFFICES ASSUME NEW t, NEW n \in Nat PROVE LineOf(t, n) \in Nat
  OBVIOUS
<1> DEFINE S == {i \in 1..n : t[i] = "\n"}
<1>1. IsFiniteSet(1..n) /\ S \subseteq 1..n
  BY FS_Interval
<1>2. Cardinality(S) \in Nat
  BY <1>1, FS_Subset, FS_CardinalityType
<1> QED
  BY <1>2 DEF LineOf

\* A new line begins behind each end of a line, and only there.
LEMMA LineNext ==
  \A t : \A n \in Nat : LineOf(t, n + 1) = IF t[n + 1] = "\n" THEN LineOf(t, n) + 1 ELSE LineOf(t, n)
<1> SUFFICES ASSUME NEW t, NEW n \in Nat
             PROVE  LineOf(t, n + 1) = IF t[n + 1] = "\n" THEN LineOf(t, n) + 1 ELSE LineOf(t, n)
  OBVIOUS
<1> DEFINE S == {i \in 1..n : t[i] = "\n"}
           T == {i \in 1..(n + 1) : t[i] = "\n"}
<1>1. IsFiniteSet(S) /\ Cardinality(S) \in Nat
  <2>1. IsFiniteSet(1..n) /\ S \subseteq 1..n
    BY FS_Interval
  <2> QED
    BY <2>1, FS_Subset, FS_CardinalityType
<1>2. CASE t[n + 1] = "\n"
  <2>1. T = S \cup {n + 1} /\ n + 1 \notin S
    BY <1>2
  <2> HIDE DEF S, T
  <2>2. Cardinality(T) = Cardinality(S) + 1
    BY <1>1, <2>1, FS_AddElement
  <2> QED
    BY <1>1, <1>2, <2>2 DEF LineOf, S, T
<1>3. CASE t[n + 1] # "\n"
  <2>1. T = S
    BY <1>3
  <2> QED
    BY <1>3, <2>1 DEF LineOf
<1> QED
  BY <1>2, <1>3

LEMMA LinesGrow == \A t : \A m, n \in Nat : m <= n => LineOf(t, m) <= LineOf(t, n)
<1> SUFFICES ASSUME NEW t, NEW m \in Nat, NEW n \in Nat, m <= n
             PROVE  LineOf(t, m) <= LineOf(t, n)
  OBVIOUS
<1> DEFINE S == {i \in 1..m : t[i] = "\n"}
           T == {i \in 1..n : t[i] = "\n"}
<1>1. IsFiniteSet(1..n) /\ T \subseteq 1..n /\ S \subseteq T
  BY FS_Interval
<1> HIDE DEF S, T
<1>2. Cardinality(S) \in Nat /\ Cardinality(T) \in Nat /\ Cardinality(S) <= Cardinality(T)
  BY <1>1, FS_Subset, FS_CardinalityType
<1> QED
  BY <1>2 DEF LineOf, S, T

LEMMA ColumnIsNat == \A t : \A n \in Nat : ColumnOf(t, n) \in Nat
<1> SUFFICES ASSUME NEW t, NEW n \in Nat PROVE ColumnOf(t, n) \in Nat
  OBVIOUS
<1> DEFINE S == {i \in 1..n : LineOf(t, i) = LineOf(t, n) /\ t[i] # "\n"}
<1>1. IsFiniteSet(1..n) /\ S \subseteq 1..n
  BY FS_Interval
<1>2. Cardinality(S) \in Nat
  BY <1>1, FS_Subset, FS_CardinalityType
<1> QED
  BY <1>2 DEF ColumnOf

\* The columns are counted on within a line, and anew behind its end.
LEMMA ColumnNext ==
  \A t : \A n \in Nat : ColumnOf(t, n + 1) = IF t[n + 1] = "\n" THEN 1 ELSE ColumnOf(t, n) + 1
<1> SUFFICES ASSUME NEW t, NEW n \in Nat
             PROVE  ColumnOf(t, n + 1) = IF t[n + 1] = "\n" THEN 1 ELSE ColumnOf(t, n) + 1
  OBVIOUS
<1> DEFINE S == {i \in 1..n : LineOf(t, i) = LineOf(t, n) /\ t[i] # "\n"}
           T == {i \in 1..(n + 1) : LineOf(t, i) = LineOf(t, n + 1) /\ t[i] # "\n"}
<1>1. CASE t[n + 1] = "\n"
  <2>1. LineOf(t, n + 1) = LineOf(t, n) + 1 /\ LineOf(t, n) \in Nat
    BY <1>1, LineNext, LineIsNat
  <2>2. ASSUME NEW i \in 1..n PROVE LineOf(t, i) # LineOf(t, n + 1)
    <3>1. LineOf(t, i) <= LineOf(t, n) /\ LineOf(t, i) \in Nat
      BY LinesGrow, LineIsNat
    <3> QED
      BY <2>1, <3>1
  <2>3. T = {}
    BY <1>1, <2>2
  <2>4. Cardinality(T) = 0
    BY <2>3, FS_EmptySet
  <2> QED
    BY <1>1, <2>4 DEF ColumnOf
<1>2. CASE t[n + 1] # "\n"
  <2>1. LineOf(t, n + 1) = LineOf(t, n)
    BY <1>2, LineNext
  <2>2. IsFiniteSet(S) /\ Cardinality(S) \in Nat
    <3>1. IsFiniteSet(1..n) /\ S \subseteq 1..n
      BY FS_Interval
    <3> QED
      BY <3>1, FS_Subset, FS_CardinalityType
  <2>3. T = S \cup {n + 1} /\ n + 1 \notin S
    BY <1>2, <2>1
  <2> HIDE DEF S, T
  <2>4. Cardinality(T) = Cardinality(S) + 1
    BY <2>2, <2>3, FS_AddElement
  <2> QED
    BY <1>2, <2>2, <2>4 DEF ColumnOf, S, T
<1> QED
  BY <1>1, <1>2

\* A text without letters of two bytes has as many bytes as runes.
LEMMA BytesIsLength ==
  ASSUME NEW s \in Seq(Rune), "w" \notin ToSet(s)
  PROVE  Bytes(s) = Len(s)
<1>1. {i \in DOMAIN s : s[i] = "w"} = {}
  BY DEF ToSet
<1>2. Cardinality({i \in DOMAIN s : s[i] = "w"}) = 0
  BY <1>1, FS_EmptySet
<1>3. Len(s) \in Nat
  BY LenProperties
<1> QED
  BY <1>2, <1>3 DEF Bytes

-----------------------------------------------------------------------------
(* The calls of the ring, in positions of the text *)

\* The positions in the text of the start of the token and of the next rune.
Start == PositionOf(startPtr)
Here == PositionOf(readPtr)

\* The ring is full with what is being read.
Full == Here - Start = Size - 1

WindowOK == /\ Start \in Nat /\ Here \in Nat /\ Len(text) \in Nat
            /\ Start <= Here /\ Here <= Len(text) /\ Here - Start <= Size - 1

LEMMA WindowIsOK ==
  ASSUME RingInv
  PROVE  /\ WindowOK
         /\ Start = fetched - Kept /\ Here = fetched - Unseen
         /\ Kept \in Nat /\ Unseen \in Nat /\ fetched \in Nat /\ Kept <= Size - 1
<1>1. PointersOK /\ TextOK /\ OrderInv
  BY DEF RingInv
<1>2. Kept \in Pointer /\ Unseen \in Pointer
  BY <1>1, DistanceIs DEF Kept, Unseen, PointersOK
<1>3. fetched \in Nat /\ Len(text) \in Nat /\ fetched <= Len(text) /\ Unseen <= Kept /\ Kept <= fetched
  BY <1>1, TextIsSeq DEF OrderInv, TextOK
<1>4. Start = fetched - Kept /\ Here = fetched - Unseen
  BY Positions DEF Start, Here
<1> QED
  BY <1>2, <1>3, <1>4, SizeAssumption DEF WindowOK, Pointer

\* The rune that is read is the next one of the text.
LEMMA ReadMoves ==
  ASSUME RingInv, Read
  PROVE  /\ Here < Len(text) /\ Ahead = text[Here + 1]
         /\ text' = text /\ pos' = pos + 1
         /\ Here' = Here + 1 /\ Start' = IF Full THEN Start + 1 ELSE Start
<1>1. /\ WindowOK /\ Start = fetched - Kept /\ Here = fetched - Unseen
      /\ Kept \in Nat /\ Unseen \in Nat /\ fetched \in Nat /\ Kept <= Size - 1
  BY WindowIsOK
<1>2. Start' = fetched' - Kept' /\ Here' = fetched' - Unseen'
  BY DEF Start, Here, PositionOf, Kept, Unseen
<1>3. pos' = pos + 1 /\ text' = text
  BY DEF Read
<1>4. PointersOK /\ TextOK /\ OrderInv /\ ContentInv
  BY DEF RingInv
<1>5. CASE readPtr # writePtr
  <2>1. /\ Unseen > 0 /\ Unseen' = Unseen - 1 /\ Kept' = Kept /\ fetched' = fetched
    BY <1>5, ReadSeen
  <2>2. ~Full /\ Here < Len(text) /\ Here' = Here + 1 /\ Start' = Start
    <3>1. Here < fetched /\ fetched <= Len(text) /\ Len(text) \in Nat
      BY <1>1, <1>4, <2>1 DEF TextOK, WindowOK
    <3> QED
      BY <3>1, <1>1, <1>2, <2>1, SizeAssumption DEF Full
  <2>3. Ahead = text[Here + 1]
    <3>1. Ahead = buf[readPtr]
      BY <1>5 DEF Ahead
    <3>2. Distance(readPtr, writePtr) \in 1..Kept /\ readPtr \in Pointer
      BY <1>1, <1>4, <2>1 DEF Unseen, OrderInv, PointersOK
    <3>3. buf[readPtr] = text[fetched - Unseen + 1]
      BY <3>2, <1>4 DEF ContentInv, Unseen
    <3> QED
      BY <3>1, <3>3, <1>1
  <2> QED
    BY <1>3, <2>2, <2>3
<1>6. CASE readPtr = writePtr
  <2>1. /\ Unseen = 0 /\ Unseen' = 0
        /\ fetched < Len(text) /\ fetched' = fetched + 1
        /\ Kept' = IF Kept = Size - 1 THEN Kept ELSE Kept + 1
    BY <1>6, ReadFetched
  <2>2. Ahead = text[fetched + 1]
    BY <1>6 DEF Ahead
  <2>3. Here = fetched /\ (Full <=> Kept = Size - 1)
    BY <1>1, <2>1, SizeAssumption DEF Full
  <2>4. Here' = Here + 1 /\ Start' = IF Full THEN Start + 1 ELSE Start
    BY <1>1, <1>2, <2>1, <2>3, SizeAssumption
  <2> QED
    BY <1>3, <2>1, <2>2, <2>3, <2>4
<1> QED
  BY <1>5, <1>6

LEMMA AtEofIs == RingInv /\ AtEof => Here = Len(text)
<1> SUFFICES ASSUME RingInv, AtEof PROVE Here = Len(text)
  OBVIOUS
<1>1. Unseen = 0
  BY DistanceSelf DEF RingInv, PointersOK, AtEof, Unseen
<1> QED
  BY <1>1, WindowIsOK DEF AtEof

LEMMA UnreadMoves ==
  ASSUME RingInv, Unread, pos \in Int
  PROVE  /\ text' = text /\ Start' = Start
         /\ Here > Start => Here' = Here - 1 /\ pos' = pos - 1
<1>1. /\ Start = fetched - Kept /\ Here = fetched - Unseen
      /\ Kept \in Nat /\ Unseen \in Nat /\ fetched \in Nat
  BY WindowIsOK
<1>2. Start' = fetched' - Kept' /\ Here' = fetched' - Unseen'
  BY DEF Start, Here, PositionOf, Kept, Unseen
<1>3. /\ fetched' = fetched /\ text' = text /\ Kept' = Kept
      /\ \/ readPtr = startPtr /\ readPtr' = readPtr /\ Unseen' = Unseen
         \/ Unseen < Kept /\ Unseen' = Unseen + 1
  BY UnreadIs
<1>4. readPtr = startPtr => Unseen = Kept
  BY DEF Unseen, Kept
<1>5. readPtr # startPtr => pos' = pos - 1
  BY DEF Unread
<1> QED
  BY <1>1, <1>2, <1>3, <1>4, <1>5

LEMMA ResetMoves ==
  ASSUME RingInv, Reset
  PROVE  text' = text /\ Start' = Start /\ Here' = Start /\ pos' = pos
<1>1. Start = fetched - Kept /\ Kept \in Nat /\ fetched \in Nat
  BY WindowIsOK
<1>2. Start' = fetched' - Kept' /\ Here' = fetched' - Unseen'
  BY DEF Start, Here, PositionOf, Kept, Unseen
<1>3. fetched' = fetched /\ text' = text /\ Kept' = Kept /\ Unseen' = Kept
  BY ResetIs
<1>4. pos' = pos
  BY DEF Reset
<1> QED
  BY <1>1, <1>2, <1>3, <1>4

LEMMA DiscardMoves ==
  ASSUME RingInv, Discard
  PROVE  text' = text /\ Start' = Here /\ Here' = Here /\ pos' = pos
<1>1. Here = fetched - Unseen /\ Unseen \in Nat /\ fetched \in Nat
  BY WindowIsOK
<1>2. Start' = fetched' - Kept' /\ Here' = fetched' - Unseen'
  BY DEF Start, Here, PositionOf, Kept, Unseen
<1>3. fetched' = fetched /\ text' = text /\ Kept' = Unseen /\ Unseen' = Unseen
  BY DiscardIs
<1>4. pos' = pos
  BY DEF Discard
<1> QED
  BY <1>1, <1>2, <1>3, <1>4

LEMMA StayMoves ==
  ASSUME UNCHANGED bufVars
  PROVE  text' = text /\ Start' = Start /\ Here' = Here /\ pos' = pos
BY DEF bufVars, Start, Here, PositionOf, Distance

\* What is posted is the text from the start of the token.
LEMMA PreviewIs ==
  ASSUME RingInv
  PROVE  /\ Preview \in Seq(Rune) /\ Len(Preview) = Here - Start
         /\ Preview = SubSeq(text, Start + 1, Start + Len(Preview))
         /\ \A i \in 1..Len(Preview) : Preview[i] = text[Start + i]
         /\ \A i \in (Start + 1)..Here : text[i] \in ToSet(Preview)
<1>1. /\ WindowOK /\ Start = fetched - Kept /\ Here = fetched - Unseen
      /\ Kept \in Nat /\ Unseen \in Nat /\ fetched \in Nat
  BY WindowIsOK
<1>2. Preview = SubSeq(text, Start + 1, Here) /\ Preview \in Seq(Rune) /\ Len(Preview) = Kept - Unseen
  BY PreviewIsContent DEF Abstract!Content, Start, Here
<1>3. Len(Preview) = Here - Start /\ Start + Len(Preview) = Here
  BY <1>1, <1>2
<1>4. text \in Seq(STRING)
  BY TextIsSeq DEF RingInv
<1>5. \A i \in 1..Len(Preview) : Preview[i] = text[Start + i]
  <2>1. /\ \A k \in (Start + 1)..Here : text[k] \in STRING
        /\ Start + 1 \in Int /\ Here \in Int
        /\ Here - (Start + 1) + 1 = Len(Preview)
        /\ \A i \in 1..Len(Preview) : (Start + 1) + i - 1 = Start + i
    <3>1. \A k \in 1..Len(text) : text[k] \in STRING
      BY <1>4, ElementOfSeq
    <3> QED
      BY <3>1, <1>1, <1>3 DEF WindowOK
  <2>2. \A i \in 1..(Here - (Start + 1) + 1) :
           SubSeq(text, Start + 1, Here)[i] = text[(Start + 1) + i - 1]
    BY <2>1, SubSeqProperties
  <2> QED
    BY <2>1, <2>2, <1>2
<1>6. \A i \in (Start + 1)..Here : text[i] \in ToSet(Preview)
  <2> SUFFICES ASSUME NEW i \in (Start + 1)..Here PROVE text[i] \in ToSet(Preview)
    OBVIOUS
  <2>1. i - Start \in 1..Len(Preview) /\ Start + (i - Start) = i
    BY <1>1, <1>3 DEF WindowOK
  <2>2. DOMAIN Preview = 1..Len(Preview)
    BY <1>2, LenProperties
  <2>3. text[i] = Preview[i - Start]
    BY <2>1, <1>5
  <2> QED
    BY <2>1, <2>2, <2>3 DEF ToSet
<1> QED
  BY <1>2, <1>3, <1>5, <1>6

-----------------------------------------------------------------------------
(* The inductive invariant of the scan *)

\* The position up to which the lexer has decided on what it has read.
Mark == IF lexPc = "unread" THEN Here - 1 ELSE Here

\* The states between two tokens, in a string, and in a word or a number.
ToToken == lexPc = "token" \/ (lexPc = "unread" /\ then = "token")
Between == lexPc \in {"skip", "first", "eof"} \/ ToToken
StringState == {"string", "escape", "string_end"}
IdState == {"id", "id_rest", "id_end", "unknown"}
ReadOnState == IdState \cup {"sign", "digits", "point", "fraction", "int", "decimal",
                             "word", "keyword"}
WordState == ReadOnState \cup {"number"}
WithinWord == lexPc \in WordState \/ (lexPc = "unread" /\ then \in ReadOnState)
WithinId == lexPc \in IdState \/ (lexPc = "unread" /\ then \in IdState)

\* A rune that can stand within a word or a number, as Overrun has it.
WordRune(c) == c \notin Break \ {"."}

\* What the lexer knows of the text by where it is.
ShapeInv ==
  /\ lexPc = "unread" => Here > Start /\ then \in ReadOnState \cup {"token"}
  /\ ToToken \/ lexPc = "first" => Mark < Len(text) /\ text[Mark + 1] \notin Blank
  /\ lexPc \in {"first", "eof"} => Start = Here
  /\ lexPc = "eof" => Here = Len(text)
  /\ lexPc = "single" => Here = Start + 1
  /\ lexPc = "number" => Here > Start
  /\ lexPc = "escape" => text[Here] = "\\"
  /\ WithinWord => \A i \in (Start + 1)..Mark : WordRune(text[i])
  /\ lexPc = "newline" \/ (lexPc = "post" /\ hand.type = "eol")
       => Here >= 1 /\ text[Here] = "\n"
  /\ lexPc = "post" => hand.line = line

\* There are but blanks from the end of the last token taken to a position.
LastEnd == IF Len(posted) = 0 THEN 0 ELSE End(Len(posted))
Gap(n) == LastEnd <= n /\ BlankBetween(LastEnd, n)

\* What NoCharacterLost says of a token that comes after position n, and a
\* token that it leaves out.
Covers(n, t) ==
  /\ n <= t.from
  /\ BlankBetween(n, t.from)
  /\ t.type # "err" => t.text = SubSeq(text, t.from + 1, t.from + Len(t.text))
  /\ t.type = "eof" => t.from = Len(text) \/ text[Len(text)] = "\\"
Before(k) == IF k = 1 THEN 0 ELSE End(k - 1)
Fills(t) == \/ Len(t.text) = Size - 1
            \/ t.type = "eof" /\ Len(text) - t.from = Size - 1

CoveredInv == \A k \in 1..Len(posted) : Covers(Before(k), posted[k])

CoverInv ==
  /\ Between \/ lexPc = "newline" => Gap(Mark)
  /\ lexPc = "single" \/ WithinWord => Gap(Start)
  /\ lexPc \in StringState => Gap(Start) \/ Full
  /\ lexPc = "post" => \/ Fills(hand)
                       \/ /\ Covers(LastEnd, hand)
                          /\ hand.type \in EndTypes \/ Here = hand.from + Len(hand.text)

\* A token behind which the counts are wrong, on its line or for good.
Disturbs(t) == \/ "w" \in ToSet(t.text)
               \/ t.type = "string" /\ ("\n" \in ToSet(t.text) \/ Len(t.text) >= Size - 1)
CalmText == \A j \in 1..Len(posted) : ~Disturbs(posted[j])
CalmLine == CalmText /\ \A j \in 1..Len(posted) : posted[j].type = "id" => posted[j].line # line

\* The string that is being read will be such a token.
Breaking == Full \/ \E i \in (Start + 1)..Here : text[i] = "\n"

LineCountInv ==
  /\ Between => line = LineOf(text, Mark)
  /\ lexPc = "single" => line = LineOf(text, Start)
  /\ WithinWord => line = LineOf(text, Start) /\ line = LineOf(text, Mark)
  /\ lexPc \in StringState =>
       Breaking \/ (line = LineOf(text, Start) /\ line = LineOf(text, Here))
  /\ lexPc = "post" /\ hand.type \notin EndTypes =>
       \/ Disturbs(hand)
       \/ /\ line = LineOf(text, hand.from)
          /\ LineOf(text, Here) = IF hand.type = "eol" THEN line + 1 ELSE line
  /\ lexPc = "newline" => LineOf(text, Here) = line + 1

ColumnInv ==
  /\ Between => pos = ColumnOf(text, Mark) + (Here - Mark)
  /\ lexPc = "single" => pos = ColumnOf(text, Start) + 1
  /\ WithinWord /\ ~WithinId => /\ pos = ColumnOf(text, Mark) + (Here - Mark)
                                /\ pos = ColumnOf(text, Start) + (Here - Start)
  /\ lexPc \in StringState => \/ Breaking
                              \/ /\ pos = ColumnOf(text, Here)
                                 /\ pos = ColumnOf(text, Start) + (Here - Start)
  /\ lexPc = "post" /\ hand.type \notin EndTypes \cup {"id"} =>
       \/ Disturbs(hand)
       \/ /\ hand.pos = ColumnOf(text, hand.from)
          /\ hand.type # "eol" => pos = ColumnOf(text, Here)

ScanInv == /\ ShapeInv
           /\ Overrun \/ (CoverInv /\ CoveredInv)
           /\ CalmText => LineCountInv
           /\ CalmLine => ColumnInv
           /\ PositionExact

LexScan == LexInv /\ ScanInv

\* A step that neither takes a token nor counts a line.
Steady == text' = text /\ posted' = posted /\ line' = line

LEMMA SteadyKeeps ==
  ASSUME Steady
  PROVE  /\ Overrun' <=> Overrun
         /\ LastEnd' = LastEnd
         /\ CoveredInv' <=> CoveredInv
         /\ CalmText' <=> CalmText
         /\ CalmLine' <=> CalmLine
         /\ PositionExact' <=> PositionExact
<1>1. text' = text /\ posted' = posted /\ line' = line
  BY DEF Steady
<1>2. Overrun' <=> Overrun
  BY <1>1 DEF Overrun
<1>3. LastEnd' = LastEnd
  BY <1>1 DEF LastEnd, End
<1>4. CoveredInv' <=> CoveredInv
  BY <1>1 DEF CoveredInv, Covers, Before, End, BlankBetween
<1>5. (CalmText' <=> CalmText) /\ (CalmLine' <=> CalmLine)
  BY <1>1 DEF CalmText, CalmLine, Disturbs
<1>6. PositionExact' <=> PositionExact
  BY <1>1 DEF PositionExact, Undisturbed, LineAt, ColumnAt
<1> QED
  BY <1>2, <1>3, <1>4, <1>5, <1>6

\* Where a step goes on reading, there is no token to post.
LEMMA PhasesApart ==
  /\ Between' => /\ ~WithinWord' /\ lexPc' \notin StringState
                 /\ lexPc' \notin {"single", "post", "newline"}
  /\ WithinWord' => /\ ~Between' /\ lexPc' \notin StringState
                    /\ lexPc' \notin {"single", "post", "newline"}
  /\ lexPc' \in StringState => /\ ~Between' /\ ~WithinWord'
                               /\ lexPc' \notin {"single", "post", "newline"}
  /\ lexPc' \in {"single", "post", "newline"} =>
       ~Between' /\ ~WithinWord' /\ lexPc' \notin StringState
BY DEF Between, ToToken, WithinWord, WordState, ReadOnState, IdState, StringState

\* What is to be shown of a step that goes on between two tokens, ...
LEMMA ReachBetween ==
  ASSUME ScanInv, Steady, Between', ShapeInv',
         ~Overrun => Gap(Mark'),
         CalmText => line = LineOf(text, Mark'),
         CalmLine => pos' = ColumnOf(text, Mark') + (Here' - Mark')
  PROVE  ScanInv'
<1>1. text' = text /\ posted' = posted /\ line' = line /\ LastEnd' = LastEnd
  BY SteadyKeeps DEF Steady
<1>2. Overrun \/ CoverInv'
  BY <1>1, PhasesApart DEF CoverInv, Gap, BlankBetween
<1>3. CalmText => LineCountInv'
  BY <1>1, PhasesApart DEF LineCountInv
<1>4. CalmLine => ColumnInv'
  BY <1>1, PhasesApart DEF ColumnInv
<1> QED
  BY <1>2, <1>3, <1>4, SteadyKeeps DEF ScanInv

\* ... in a word or a number, ...
LEMMA ReachWord ==
  ASSUME ScanInv, Steady, WithinWord', ShapeInv',
         ~Overrun => Gap(Start'),
         CalmText => line = LineOf(text, Start') /\ line = LineOf(text, Mark'),
         (CalmLine /\ ~WithinId') => /\ pos' = ColumnOf(text, Mark') + (Here' - Mark')
                                     /\ pos' = ColumnOf(text, Start') + (Here' - Start')
  PROVE  ScanInv'
<1>1. text' = text /\ posted' = posted /\ line' = line /\ LastEnd' = LastEnd
  BY SteadyKeeps DEF Steady
<1>2. Overrun \/ CoverInv'
  BY <1>1, PhasesApart DEF CoverInv, Gap, BlankBetween
<1>3. CalmText => LineCountInv'
  BY <1>1, PhasesApart DEF LineCountInv
<1>4. CalmLine => ColumnInv'
  BY <1>1, PhasesApart DEF ColumnInv
<1> QED
  BY <1>2, <1>3, <1>4, SteadyKeeps DEF ScanInv

\* ... in a string, ...
LEMMA ReachString ==
  ASSUME ScanInv, Steady, lexPc' \in StringState, ShapeInv',
         ~Overrun => Gap(Start') \/ Full',
         Breaking' \/ (CalmText => line = LineOf(text, Start') /\ line = LineOf(text, Here')),
         Breaking' \/ (CalmLine => /\ pos' = ColumnOf(text, Here')
                                   /\ pos' = ColumnOf(text, Start') + (Here' - Start'))
  PROVE  ScanInv'
<1>1. text' = text /\ posted' = posted /\ line' = line /\ LastEnd' = LastEnd
  BY SteadyKeeps DEF Steady
<1>2. Overrun \/ CoverInv'
  BY <1>1, PhasesApart DEF CoverInv, Gap, BlankBetween
<1>3. CalmText => LineCountInv'
  BY <1>1, PhasesApart DEF LineCountInv
<1>4. CalmLine => ColumnInv'
  BY <1>1, PhasesApart DEF ColumnInv
<1> QED
  BY <1>2, <1>3, <1>4, SteadyKeeps DEF ScanInv

\* ... or has a token to post.
LEMMA ReachPost ==
  ASSUME ScanInv, Steady, lexPc' = "post", ShapeInv',
         ~Overrun => \/ Fills(hand')
                     \/ /\ Covers(LastEnd, hand')
                        /\ hand'.type \in EndTypes \/ Here' = hand'.from + Len(hand'.text),
         (CalmText /\ hand'.type \notin EndTypes) =>
            \/ Disturbs(hand')
            \/ /\ line = LineOf(text, hand'.from)
               /\ LineOf(text, Here') = IF hand'.type = "eol" THEN line + 1 ELSE line,
         (CalmLine /\ hand'.type \notin EndTypes \cup {"id"}) =>
            \/ Disturbs(hand')
            \/ /\ hand'.pos = ColumnOf(text, hand'.from)
               /\ hand'.type # "eol" => pos' = ColumnOf(text, Here')
  PROVE  ScanInv'
<1>1. text' = text /\ posted' = posted /\ line' = line /\ LastEnd' = LastEnd
  BY SteadyKeeps DEF Steady
<1>2. Overrun \/ CoverInv'
  BY <1>1, PhasesApart DEF CoverInv, Fills, Covers, BlankBetween
<1>3. CalmText => LineCountInv'
  BY <1>1, PhasesApart DEF LineCountInv, Disturbs
<1>4. CalmLine => ColumnInv'
  BY <1>1, PhasesApart DEF ColumnInv, Disturbs
<1> QED
  BY <1>2, <1>3, <1>4, SteadyKeeps DEF ScanInv

-----------------------------------------------------------------------------
(* The steps between two tokens *)

LEMMA EndsAreIntegers ==
  ASSUME LexInv
  PROVE  LastEnd \in Int /\ \A k \in 1..Len(posted) : End(k) \in Int
<1>1. posted \in Seq(LexToken) /\ Len(posted) \in Nat
  BY LenProperties DEF LexInv, LexTypes
<1>2. \A k \in 1..Len(posted) : posted[k] \in LexToken
  BY <1>1, ElementOfSeq
<1>3. \A k \in 1..Len(posted) : End(k) \in Int
  <2> SUFFICES ASSUME NEW k \in 1..Len(posted) PROVE End(k) \in Int
    OBVIOUS
  <2>1. posted[k].from \in Int /\ posted[k].text \in Seq(Rune)
    BY <1>2 DEF LexToken
  <2> QED
    BY <2>1, LenProperties DEF End
<1> QED
  BY <1>1, <1>3 DEF LastEnd

LEMMA SkipKeepsScan ==
  ASSUME LexScan, Skip
  PROVE  ScanInv'
<1>1. RingInv /\ pos \in Int /\ ScanInv /\ lexPc = "skip" /\ Between /\ Mark = Here
  BY DEF LexScan, LexInv, Skip, Between, Mark
<1>2. WindowOK /\ Size \in Nat /\ Size > 1
  BY <1>1, WindowIsOK, SizeAssumption
<1>3. Steady
  BY DEF Skip, ReadAnd, ReadBack, Read, Discard, Steady, Goto
<1>4. /\ ~Overrun => LastEnd <= Here /\ BlankBetween(LastEnd, Here)
      /\ CalmText => line = LineOf(text, Here)
      /\ CalmLine => pos = ColumnOf(text, Here)
  BY <1>1, <1>2, ColumnIsNat DEF ScanInv, CoverInv, LineCountInv, ColumnInv, Gap, WindowOK
<1>5. CASE AtEof /\ Discard /\ Goto("eof")
  <2>1. Here = Len(text) /\ Start' = Here /\ Here' = Here /\ pos' = pos /\ lexPc' = "eof"
    BY <1>1, <1>5, AtEofIs, DiscardMoves DEF Goto
  <2>2. Between' /\ Mark' = Here
    BY <2>1 DEF Between, Mark
  <2>3. ShapeInv'
    BY <1>3, <2>1, <2>2, PhasesApart DEF ShapeInv, Steady, ToToken
  <2> QED
    BY <1>1, <1>2, <1>3, <1>4, <2>1, <2>2, <2>3, ReachBetween, ColumnIsNat DEF Gap, WindowOK
<1>6. CASE ~AtEof /\ Ahead \in Blank /\ ReadAnd("skip")
  <2>1. /\ Ahead = text[Here + 1] /\ Here' = Here + 1 /\ pos' = pos + 1 /\ lexPc' = "skip"
    BY <1>1, <1>6, ReadMoves DEF ReadAnd, Goto
  <2>2. Between' /\ Mark' = Here + 1
    BY <2>1 DEF Between, Mark
  <2>3. ShapeInv'
    BY <2>1, <2>2, PhasesApart DEF ShapeInv, ToToken
  <2>4. text[Here + 1] = " "
    BY <1>6, <2>1 DEF Blank
  <2>5. /\ LineOf(text, Here + 1) = LineOf(text, Here)
        /\ ColumnOf(text, Here + 1) = ColumnOf(text, Here) + 1
    BY <1>2, <2>4, LineNext, ColumnNext DEF WindowOK
  <2>6. ~Overrun => Gap(Here + 1)
    <3>1. BlankBetween(LastEnd, Here) => BlankBetween(LastEnd, Here + 1)
      <4> SUFFICES ASSUME BlankBetween(LastEnd, Here), NEW i \in (LastEnd + 1)..(Here + 1)
                   PROVE  text[i] \in Blank
        BY DEF BlankBetween
      <4>1. i \in (LastEnd + 1)..Here \/ i = Here + 1
        BY <1>2, EndsAreIntegers DEF LexScan, WindowOK
      <4> QED
        BY <2>4, <4>1 DEF BlankBetween, Blank
    <3>2. LastEnd <= Here => LastEnd <= Here + 1
      BY <1>2, EndsAreIntegers DEF LexScan, WindowOK
    <3> QED
      BY <3>1, <3>2, <1>4 DEF Gap
  <2>7. CalmLine => pos' = ColumnOf(text, Mark') + (Here' - Mark')
    BY <1>2, <1>4, <2>1, <2>2, <2>5, ColumnIsNat DEF WindowOK
  <2> QED
    BY <1>1, <1>3, <1>4, <2>2, <2>3, <2>5, <2>6, <2>7, ReachBetween
<1>7. CASE ~AtEof /\ Ahead \notin Blank /\ ReadBack("token")
  <2>1. /\ Ahead = text[Here + 1] /\ Here < Len(text) /\ Here' = Here + 1 /\ pos' = pos + 1
        /\ Start' = IF Full THEN Start + 1 ELSE Start
        /\ lexPc' = "unread" /\ then' = "token"
    BY <1>1, <1>7, ReadMoves DEF ReadBack
  <2>2. Between' /\ ToToken' /\ Mark' = Here
    BY <1>2, <2>1 DEF Between, ToToken, Mark, WindowOK
  <2>3. ShapeInv'
    <3>1. Here' > Start'
      BY <1>2, <2>1 DEF Full, WindowOK
    <3> QED
      BY <1>3, <1>7, <3>1, <2>1, <2>2, PhasesApart DEF ShapeInv, Steady
  <2> QED
    BY <1>1, <1>2, <1>3, <1>4, <2>1, <2>2, <2>3, ReachBetween, ColumnIsNat DEF Gap, WindowOK
<1> QED
  BY <1>5, <1>6, <1>7 DEF Skip

LEMMA Token1KeepsScan ==
  ASSUME LexScan, Token1
  PROVE  ScanInv'
<1>1. RingInv /\ pos \in Int /\ ScanInv /\ lexPc = "token" /\ Between /\ ToToken /\ Mark = Here
  BY DEF LexScan, LexInv, Token1, Between, ToToken, Mark
<1>2. WindowOK
  BY <1>1, WindowIsOK
<1>3. Steady
  BY DEF Token1, Discard, Steady, Goto
<1>4. Start' = Here /\ Here' = Here /\ pos' = pos /\ lexPc' = "first"
  BY <1>1, DiscardMoves DEF Token1, Goto
<1>5. Between' /\ Mark' = Here
  BY <1>4 DEF Between, Mark
<1>6. ShapeInv'
  BY <1>1, <1>3, <1>4, <1>5, PhasesApart DEF ScanInv, ShapeInv, Steady
<1>7. /\ ~Overrun => Gap(Here)
      /\ CalmText => line = LineOf(text, Here)
      /\ CalmLine => pos = ColumnOf(text, Here) + (Here - Here)
  BY <1>1 DEF ScanInv, CoverInv, LineCountInv, ColumnInv
<1> QED
  BY <1>1, <1>3, <1>4, <1>5, <1>6, <1>7, ReachBetween

LEMMA AtEndKeepsScan ==
  ASSUME LexScan, AtEnd
  PROVE  ScanInv'
<1>1. RingInv /\ ScanInv /\ lexPc = "eof" /\ Between /\ Mark = Here
  BY DEF LexScan, LexInv, AtEnd, Between, Mark
<1>2. WindowOK /\ Start = Here /\ Here = Len(text)
  BY <1>1, WindowIsOK DEF ScanInv, ShapeInv
<1>3. UNCHANGED bufVars /\ hand' = Token("eof", <<>>, pos) /\ lexPc' = "post" /\ posted' = posted /\ line' = line
  BY DEF AtEnd, HandleEof, Hold
<1>4. Steady
  BY <1>3 DEF bufVars, Steady
<1>5. hand'.type = "eof" /\ hand'.text = <<>> /\ hand'.from = Start /\ hand'.line = line
  BY <1>3 DEF Token, Start
<1>6. ShapeInv'
  BY <1>3, <1>5, PhasesApart DEF ShapeInv, ToToken
<1>7. ~Overrun => Covers(LastEnd, hand')
  <2> SUFFICES ASSUME ~Overrun PROVE Covers(LastEnd, hand')
    OBVIOUS
  <2>1. Gap(Here)
    BY <1>1 DEF ScanInv, CoverInv
  <2>2. SubSeq(text, Start + 1, Start + Len(<<>>)) = <<>>
    <3>1. Len(<<>>) = 0 /\ Start + 0 = Start /\ Start + 1 > Start
      BY <1>2 DEF WindowOK
    <3> QED
      BY <3>1, <1>2 DEF WindowOK
  <2> QED
    BY <1>2, <1>5, <2>1, <2>2 DEF Covers, Gap
<1> QED
  BY <1>1, <1>3, <1>4, <1>5, <1>6, <1>7, ReachPost DEF EndTypes

-----------------------------------------------------------------------------
(* The first rune of a token, and the tokens of one rune *)

LEMMA FirstKeepsScan ==
  ASSUME LexScan, First
  PROVE  ScanInv'
<1>1. RingInv /\ pos \in Int /\ ScanInv /\ lexPc = "first" /\ Between /\ Mark = Here
  BY DEF LexScan, LexInv, First, Between, Mark
<1>2. WindowOK /\ Size \in Nat /\ Size > 1 /\ Start = Here /\ text[Here + 1] \notin Blank
  BY <1>1, WindowIsOK, SizeAssumption DEF ScanInv, ShapeInv
<1>3. PICK there \in {"single", "string", "number", "word"} :
         /\ ReadAnd(there)
         /\ there = "string" => Ahead = "\""
         /\ there \in {"number", "word"} => Ahead \notin {"\n", "(", ")"}
  <2>1. ReadAnd(CASE Ahead \in Single -> "single"
                  [] Ahead = "\"" -> "string"
                  [] Ahead \in Digit \cup {"-"} -> "number"
                  [] OTHER -> "word")
    BY DEF First
  <2>2. CASE Ahead \in Single
    BY <2>1, <2>2 DEF Single, Digit
  <2>3. CASE Ahead = "\""
    BY <2>1, <2>3 DEF Single, Digit
  <2>4. CASE Ahead \in Digit \cup {"-"}
    BY <2>1, <2>4 DEF Single, Digit
  <2>5. CASE Ahead \notin Single /\ Ahead # "\"" /\ Ahead \notin Digit \cup {"-"}
    <3>1. ReadAnd("word")
      BY <2>1, <2>5
    <3> QED
      BY <3>1, <2>5 DEF Single
  <2> QED
    BY <2>2, <2>3, <2>4, <2>5
<1>4. /\ Ahead = text[Here + 1] /\ Here' = Here + 1 /\ pos' = pos + 1 /\ lexPc' = there
      /\ text' = text /\ Start' = Start
  <2>1. ~Full
    BY <1>2 DEF Full, WindowOK
  <2>2. Read /\ lexPc' = there
    BY <1>3 DEF ReadAnd, Goto
  <2> QED
    BY <1>1, <2>1, <2>2, ReadMoves
<1>5. Steady
  BY <1>3, <1>4 DEF ReadAnd, Goto, Steady
<1>6. /\ ~Overrun => Gap(Start)
      /\ CalmText => line = LineOf(text, Start)
      /\ CalmLine => pos = ColumnOf(text, Start)
  BY <1>1, <1>2, ColumnIsNat DEF ScanInv, CoverInv, LineCountInv, ColumnInv, WindowOK
<1>7. CASE there = "single"
  <2>1. lexPc' = "single"
    BY <1>4, <1>7
  <2>2. ShapeInv'
    BY <1>2, <1>4, <2>1, PhasesApart DEF ShapeInv, ToToken
  <2>3. Overrun \/ CoverInv'
    BY <1>4, <1>5, <1>6, <2>1, SteadyKeeps, PhasesApart DEF CoverInv, Gap, BlankBetween
  <2>4. CalmText => LineCountInv'
    BY <1>4, <1>5, <1>6, <2>1, PhasesApart DEF LineCountInv, Steady
  <2>5. CalmLine => ColumnInv'
    BY <1>4, <1>6, <2>1, PhasesApart DEF ColumnInv
  <2> QED
    BY <1>1, <1>5, <2>2, <2>3, <2>4, <2>5, SteadyKeeps DEF ScanInv
<1>8. ASSUME text[Here + 1] # "\n"
      PROVE  /\ LineOf(text, Here') = LineOf(text, Start)
             /\ ColumnOf(text, Here') = ColumnOf(text, Start) + 1
             /\ ColumnOf(text, Start) \in Nat
  BY <1>2, <1>4, <1>8, LineNext, ColumnNext, ColumnIsNat DEF WindowOK
<1>9. CASE there = "string"
  <2>1. text[Here + 1] # "\n" /\ lexPc' = "string" /\ lexPc' \in StringState
    BY <1>3, <1>4, <1>9 DEF StringState
  <2>2. ShapeInv'
    BY <2>1, PhasesApart DEF ShapeInv, ToToken
  <2>3. CalmLine => pos' = ColumnOf(text, Here') /\ pos' = ColumnOf(text, Start') + (Here' - Start')
    BY <1>2, <1>4, <1>6, <1>8, <2>1 DEF WindowOK
  <2> QED
    BY <1>1, <1>4, <1>5, <1>6, <1>8, <2>1, <2>2, <2>3, ReachString
<1>10. CASE there \in {"number", "word"}
  <2>1. text[Here + 1] # "\n" /\ WordRune(text[Here + 1])
    BY <1>2, <1>3, <1>4, <1>10 DEF WordRune, Break, Blank
  <2>2. WithinWord' /\ Mark' = Here + 1 /\ lexPc' \notin {"unread", "eof", "first", "escape", "token"}
    BY <1>4, <1>10 DEF WithinWord, WordState, ReadOnState, Mark
  <2>3. ShapeInv'
    <3>1. \A i \in (Start' + 1)..Mark' : WordRune(text[i])
      BY <1>2, <1>4, <2>1, <2>2 DEF WindowOK
    <3>2. Here' > Start'
      BY <1>2, <1>4 DEF WindowOK
    <3> QED
      BY <1>4, <2>2, <3>1, <3>2, PhasesApart DEF ShapeInv, ToToken, WordRune
  <2>4. CalmLine => /\ pos' = ColumnOf(text, Mark') + (Here' - Mark')
                    /\ pos' = ColumnOf(text, Start') + (Here' - Start')
    BY <1>2, <1>4, <1>6, <1>8, <2>1, <2>2 DEF WindowOK
  <2> QED
    BY <1>1, <1>4, <1>5, <1>6, <1>8, <2>1, <2>2, <2>3, <2>4, ReachWord
<1> QED
  BY <1>3, <1>7, <1>9, <1>10

\* What postToken and handleLexErr put into the hand.
LEMMA PostIs ==
  ASSUME LexInv, NEW type, postToken(type) \/ (HandleErr /\ type = "err")
  PROVE  /\ lexPc' = "post" /\ hand'.type = type /\ hand'.line = line /\ hand'.from = Start
         /\ hand'.text = Preview /\ Here' = Here /\ pos' = pos
         /\ type # "err" => hand'.pos = pos - Bytes(Preview)
         /\ Steady
<1>1. RingInv /\ Discard
  BY DEF LexInv, postToken, HandleErr
<1>2. text' = text /\ Here' = Here /\ pos' = pos
  BY <1>1, DiscardMoves
<1>3. CASE postToken(type)
  BY <1>2, <1>3 DEF postToken, Hold, Token, Steady, Start
<1>4. CASE HandleErr /\ type = "err"
  BY <1>2, <1>4 DEF HandleErr, Hold, Token, Steady, Start
<1> QED
  BY <1>3, <1>4

\* A token that is posted has the text of its place, and its position unless
\* there is a letter of two bytes in it.
LEMMA PostedIs ==
  ASSUME LexInv, NEW type, postToken(type) \/ (HandleErr /\ type = "err"), type # "eof"
  PROVE  /\ Gap(Start) => Covers(LastEnd, hand')
         /\ Full => Fills(hand')
         /\ Here' = hand'.from + Len(hand'.text)
         /\ type # "err" /\ ~Disturbs(hand') => hand'.pos = pos - (Here - Start)
<1>1. /\ hand'.type = type /\ hand'.from = Start /\ hand'.text = Preview /\ Here' = Here
      /\ type # "err" => hand'.pos = pos - Bytes(Preview)
  BY PostIs
<1>2. /\ Preview \in Seq(Rune) /\ Len(Preview) = Here - Start
      /\ Preview = SubSeq(text, Start + 1, Start + Len(Preview))
      /\ WindowOK
  BY PreviewIs, WindowIsOK DEF LexInv
<1>3. Gap(Start) => Covers(LastEnd, hand')
  BY <1>1, <1>2 DEF Gap, Covers
<1>4. ~Disturbs(hand') => Bytes(Preview) = Len(Preview)
  BY <1>1, <1>2, BytesIsLength DEF Disturbs
<1> QED
  BY <1>1, <1>2, <1>3, <1>4 DEF Full, Fills, WindowOK

LEMMA PostSingleKeepsScan ==
  ASSUME LexScan, PostSingle
  PROVE  ScanInv'
<1>1. LexInv /\ RingInv /\ pos \in Int /\ ScanInv /\ lexPc = "single" /\ Here = Start + 1
  BY DEF LexScan, LexInv, PostSingle, ScanInv, ShapeInv
<1>2. WindowOK
  BY <1>1, WindowIsOK
<1>3. PICK type \in {"eol", "single"} : postToken(type) /\ (type = "eol" <=> Preview = <<"\n">>)
  BY DEF PostSingle
<1>4. /\ lexPc' = "post" /\ hand'.type = type /\ hand'.line = line /\ hand'.from = Start
      /\ Here' = Here /\ pos' = pos /\ Steady /\ text' = text
      /\ Here' = hand'.from + Len(hand'.text)
      /\ Gap(Start) => Covers(LastEnd, hand')
      /\ ~Disturbs(hand') => hand'.pos = pos - (Here - Start)
  BY <1>1, <1>3, PostIs, PostedIs DEF Steady
<1>5. type = "eol" <=> text[Here] = "\n"
  <2>1. Preview \in Seq(Rune) /\ Len(Preview) = 1 /\ Preview[1] = text[Here]
    BY <1>1, <1>2, PreviewIs DEF WindowOK
  <2>2. Preview = <<Preview[1]>>
    BY <2>1
  <2> QED
    BY <1>3, <2>1, <2>2
<1>6. ShapeInv'
  BY <1>1, <1>2, <1>4, <1>5, PhasesApart DEF ShapeInv, ToToken, Steady, WindowOK
<1>7. /\ ~Overrun => Gap(Start)
      /\ CalmText => line = LineOf(text, Start)
      /\ CalmLine => pos = ColumnOf(text, Start) + 1
  BY <1>1 DEF ScanInv, CoverInv, LineCountInv, ColumnInv
<1>8. LineOf(text, Here) = IF type = "eol" THEN LineOf(text, Start) + 1 ELSE LineOf(text, Start)
  BY <1>1, <1>2, <1>5, LineNext DEF WindowOK
<1>9. type # "eol" => ColumnOf(text, Here) = ColumnOf(text, Start) + 1
  BY <1>1, <1>2, <1>5, ColumnNext DEF WindowOK
<1>10. CalmLine => \/ Disturbs(hand')
                   \/ /\ hand'.pos = ColumnOf(text, hand'.from)
                      /\ hand'.type # "eol" => pos' = ColumnOf(text, Here')
  BY <1>1, <1>2, <1>4, <1>7, <1>9, ColumnIsNat DEF WindowOK
<1> QED
  BY <1>1, <1>4, <1>6, <1>7, <1>8, <1>10, ReachPost

-----------------------------------------------------------------------------
(* Strings *)

LEMMA StringReadKeepsScan ==
  ASSUME LexScan, lexPc \in {"string", "escape"},
         NEW there \in StringState, ReadAnd(there), there = "escape" => Ahead = "\\"
  PROVE  ScanInv'
<1>1. RingInv /\ pos \in Int /\ ScanInv /\ lexPc \in StringState
  BY DEF LexScan, LexInv, StringState
<1>2. WindowOK /\ Size \in Nat /\ Size > 1
  BY <1>1, WindowIsOK, SizeAssumption
<1>3. /\ Ahead = text[Here + 1] /\ Here' = Here + 1 /\ pos' = pos + 1 /\ lexPc' = there
      /\ text' = text /\ Start' = IF Full THEN Start + 1 ELSE Start
  BY <1>1, ReadMoves DEF ReadAnd, Goto
<1>4. Steady /\ lexPc' \in StringState
  BY <1>3 DEF ReadAnd, Goto, Steady
<1>5. ShapeInv'
  BY <1>3, <1>4, PhasesApart DEF ShapeInv, ToToken, StringState
<1>6. Full => Full'
  BY <1>2, <1>3 DEF Full, WindowOK
<1>7. ~Overrun => Gap(Start') \/ Full'
  BY <1>1, <1>3, <1>6 DEF ScanInv, CoverInv
<1>8. ASSUME ~Breaking'
      PROVE  ~Breaking /\ Start' = Start /\ text[Here + 1] # "\n"
  <2>1. ~Full /\ Start' = Start
    BY <1>3, <1>6, <1>8 DEF Breaking
  <2>2. \A i \in (Start + 1)..(Here + 1) : text[i] # "\n"
    BY <1>3, <1>8, <2>1 DEF Breaking
  <2> QED
    BY <1>2, <2>1, <2>2 DEF Breaking, WindowOK
<1>9. ASSUME ~Breaking'
      PROVE  /\ LineOf(text, Here') = LineOf(text, Here)
             /\ ColumnOf(text, Here') = ColumnOf(text, Here) + 1
  BY <1>2, <1>3, <1>8, <1>9, LineNext, ColumnNext DEF WindowOK
<1>10. Breaking' \/ (CalmText => line = LineOf(text, Start') /\ line = LineOf(text, Here'))
  BY <1>1, <1>8, <1>9 DEF ScanInv, LineCountInv
<1>11. Breaking' \/ (CalmLine => /\ pos' = ColumnOf(text, Here')
                                 /\ pos' = ColumnOf(text, Start') + (Here' - Start'))
  <2> SUFFICES ASSUME ~Breaking', CalmLine
               PROVE  /\ pos' = ColumnOf(text, Here')
                      /\ pos' = ColumnOf(text, Start') + (Here' - Start')
    OBVIOUS
  <2>1. pos = ColumnOf(text, Here) /\ pos = ColumnOf(text, Start) + (Here - Start)
    BY <1>1, <1>8 DEF ScanInv, ColumnInv
  <2> QED
    BY <1>2, <1>3, <1>8, <1>9, <2>1, ColumnIsNat DEF WindowOK
<1> QED
  BY <1>1, <1>4, <1>5, <1>7, <1>10, <1>11, ReachString

\* An error is posted wherever there are only blanks before what has been read.
LEMMA ErrKeepsScan ==
  ASSUME LexScan, HandleErr, ~Overrun => Gap(Start) \/ Full
  PROVE  ScanInv'
<1>1. LexInv /\ ScanInv
  BY DEF LexScan
<1>2. /\ lexPc' = "post" /\ hand'.type = "err" /\ hand'.line = line /\ Steady
      /\ Gap(Start) => Covers(LastEnd, hand')
      /\ Full => Fills(hand')
  BY <1>1, PostIs, PostedIs
<1>3. ShapeInv'
  BY <1>2, PhasesApart DEF ShapeInv, ToToken, Steady
<1> QED
  BY <1>1, <1>2, <1>3, ReachPost DEF EndTypes

LEMMA StringKeepsScan ==
  ASSUME LexScan, String
  PROVE  ScanInv'
<1>1. lexPc = "string" /\ ScanInv
  BY DEF LexScan, String
<1>2. CASE AtEof /\ HandleErr
  <2>1. ~Overrun => Gap(Start) \/ Full
    BY <1>1 DEF ScanInv, CoverInv, StringState
  <2> QED
    BY <1>2, <2>1, ErrKeepsScan
<1>3. CASE ReadAnd(CASE Ahead = "\\" -> "escape"
                     [] Ahead = "\"" -> "string_end"
                     [] OTHER -> "string")
  <2>1. PICK there \in StringState : ReadAnd(there) /\ (there = "escape" => Ahead = "\\")
    BY <1>3 DEF StringState
  <2> QED
    BY <1>1, <2>1, StringReadKeepsScan
<1> QED
  BY <1>2, <1>3 DEF String

\* A backslash that ends the text within a string is taken for an end.
LEMMA EscapeKeepsScan ==
  ASSUME LexScan, Escape
  PROVE  ScanInv'
<1>1. RingInv /\ lexPc = "escape" /\ lexPc \in StringState /\ ScanInv
  BY DEF LexScan, LexInv, Escape, StringState
<1>2. CASE AtEof /\ HandleEof
  <2>1. WindowOK /\ Here = Len(text) /\ text[Len(text)] = "\\"
    BY <1>1, <1>2, WindowIsOK, AtEofIs DEF ScanInv, ShapeInv
  <2>2. UNCHANGED bufVars /\ hand' = Token("eof", <<>>, pos) /\ lexPc' = "post" /\ posted' = posted /\ line' = line
    BY <1>2 DEF HandleEof, Hold
  <2>3. Steady
    BY <2>2 DEF bufVars, Steady
  <2>4. hand'.type = "eof" /\ hand'.text = <<>> /\ hand'.from = Start /\ hand'.line = line
    BY <2>2 DEF Token, Start
  <2>5. ShapeInv'
    BY <2>2, <2>4, PhasesApart DEF ShapeInv, ToToken
  <2>6. Gap(Start) => Covers(LastEnd, hand')
    <3>1. SubSeq(text, Start + 1, Start + Len(<<>>)) = <<>>
      <4>1. Len(<<>>) = 0 /\ Start + 0 = Start /\ Start + 1 > Start
        BY <2>1 DEF WindowOK
      <4> QED
        BY <4>1, <2>1 DEF WindowOK
    <3> QED
      BY <2>1, <2>4, <3>1 DEF Covers, Gap
  <2>7. Full => Fills(hand')
    BY <2>1, <2>4 DEF Full, Fills
  <2>8. ~Overrun => Gap(Start) \/ Full
    BY <1>1 DEF ScanInv, CoverInv
  <2> QED
    BY <1>1, <2>2, <2>3, <2>4, <2>5, <2>6, <2>7, <2>8, ReachPost DEF EndTypes
<1>3. CASE ReadAnd("string")
  BY <1>1, <1>3, StringReadKeepsScan DEF StringState
<1> QED
  BY <1>2, <1>3 DEF Escape

LEMMA PostStringKeepsScan ==
  ASSUME LexScan, PostString
  PROVE  ScanInv'
<1>1. LexInv /\ RingInv /\ pos \in Int /\ ScanInv /\ lexPc = "string_end" /\ lexPc \in StringState
  BY DEF LexScan, LexInv, PostString, StringState
<1>2. WindowOK
  BY <1>1, WindowIsOK
<1>3. /\ lexPc' = "post" /\ hand'.type = "string" /\ hand'.line = line /\ hand'.from = Start
      /\ hand'.text = Preview
      /\ Here' = Here /\ pos' = pos /\ Steady /\ text' = text
      /\ Here' = hand'.from + Len(hand'.text)
      /\ Gap(Start) => Covers(LastEnd, hand')
      /\ Full => Fills(hand')
      /\ ~Disturbs(hand') => hand'.pos = pos - (Here - Start)
  <2>1. postToken("string")
    BY DEF PostString
  <2> QED
    BY <1>1, <2>1, PostIs, PostedIs DEF Steady
<1>4. Breaking => Disturbs(hand')
  <2>1. CASE Full
    BY <1>2, <1>3, <2>1, SizeAssumption DEF Full, Disturbs, WindowOK
  <2>2. CASE \E i \in (Start + 1)..Here : text[i] = "\n"
    <3>1. "\n" \in ToSet(Preview)
      BY <1>1, <2>2, PreviewIs
    <3> QED
      BY <1>3, <3>1 DEF Disturbs
  <2> QED
    BY <2>1, <2>2 DEF Breaking
<1>5. ShapeInv'
  BY <1>3, PhasesApart DEF ShapeInv, ToToken, Steady
<1>6. ~Overrun => Gap(Start) \/ Full
  BY <1>1 DEF ScanInv, CoverInv
<1>7. CalmText => Breaking \/ (line = LineOf(text, Start) /\ line = LineOf(text, Here))
  BY <1>1 DEF ScanInv, LineCountInv
<1>8. CalmLine => \/ Disturbs(hand')
                  \/ /\ hand'.pos = ColumnOf(text, hand'.from)
                     /\ pos' = ColumnOf(text, Here')
  <2> SUFFICES ASSUME CalmLine, ~Disturbs(hand')
               PROVE  hand'.pos = ColumnOf(text, hand'.from) /\ pos' = ColumnOf(text, Here')
    OBVIOUS
  <2>1. pos = ColumnOf(text, Here) /\ pos = ColumnOf(text, Start) + (Here - Start)
    BY <1>1, <1>4 DEF ScanInv, ColumnInv
  <2>2. /\ ColumnOf(text, Start) \in Nat /\ Start \in Nat /\ Here \in Nat
        /\ hand'.pos = pos - (Here - Start) /\ hand'.from = Start
    BY <1>2, <1>3, ColumnIsNat DEF WindowOK
  <2>3. pos - (Here - Start) = ColumnOf(text, Start)
    BY <2>1, <2>2
  <2> QED
    BY <1>3, <2>1, <2>2, <2>3
<1> QED
  BY <1>1, <1>3, <1>4, <1>5, <1>6, <1>7, <1>8, ReachPost

-----------------------------------------------------------------------------
(* Words and numbers *)

\* A word that fills the ring overruns it.
LEMMA FullWordOverruns ==
  ASSUME WindowOK, ShapeInv, lexPc \in WordState, Full
  PROVE  Overrun
<1>1. WithinWord /\ Mark = Here
  BY DEF WithinWord, Mark, WordState, ReadOnState, IdState
<1>2. Here = Start + Size - 1 /\ Start \in Nat /\ Size \in Nat /\ Len(text) \in Nat /\ Here <= Len(text)
  BY SizeAssumption DEF WindowOK, Full
<1>3. Start + 1 \in 1..(Len(text) - Size + 2)
  BY <1>2
<1>4. \A k \in (Start + 1)..(Start + 1 + Size - 2) : text[k] \notin Break \ {"."}
  BY <1>1, <1>2 DEF ShapeInv, WordRune
<1> QED
  BY <1>3, <1>4 DEF Overrun

\* What the lexer knows in a word, between two calls of the ring.
LEMMA InWord ==
  ASSUME LexScan, lexPc \in WordState
  PROVE  /\ RingInv /\ pos \in Int /\ ScanInv /\ WindowOK /\ Size \in Nat /\ Size > 1
         /\ Mark = Here /\ WithinWord
         /\ \A i \in (Start + 1)..Here : WordRune(text[i])
         /\ Full => Overrun
         /\ ~Overrun => Gap(Start)
         /\ CalmText => line = LineOf(text, Start) /\ line = LineOf(text, Here)
         /\ CalmLine /\ lexPc \notin IdState => /\ pos = ColumnOf(text, Here)
                                                /\ pos = ColumnOf(text, Start) + (Here - Start)
<1>1. RingInv /\ pos \in Int /\ ScanInv /\ ShapeInv
  BY DEF LexScan, LexInv, ScanInv
<1>2. WindowOK /\ Size \in Nat /\ Size > 1
  BY <1>1, WindowIsOK, SizeAssumption
<1>3. Mark = Here /\ WithinWord /\ lexPc # "unread"
  BY DEF Mark, WithinWord, WordState, ReadOnState, IdState
<1>4. \A i \in (Start + 1)..Here : WordRune(text[i])
  BY <1>1, <1>3 DEF ShapeInv
<1>5. ~Overrun => Gap(Start)
  BY <1>1, <1>3 DEF ScanInv, CoverInv
<1>6. CalmText => line = LineOf(text, Start) /\ line = LineOf(text, Here)
  BY <1>1, <1>3 DEF ScanInv, LineCountInv
<1>7. CalmLine /\ lexPc \notin IdState => /\ pos = ColumnOf(text, Here)
                                          /\ pos = ColumnOf(text, Start) + (Here - Start)
  <2>1. lexPc \notin IdState => ~WithinId
    BY <1>3 DEF WithinId
  <2>2. ColumnOf(text, Here) + (Here - Here) = ColumnOf(text, Here)
    BY <1>2, ColumnIsNat DEF WindowOK
  <2> QED
    BY <1>1, <1>3, <2>1, <2>2 DEF ScanInv, ColumnInv
<1> QED
  BY <1>1, <1>2, <1>3, <1>4, <1>5, <1>6, <1>7, FullWordOverruns

\* The start of a word gives way by a rune of the word, when the ring is full.
LEMMA WordStart ==
  ASSUME LexScan, lexPc \in WordState, Read
  PROVE  /\ Start' \in Nat /\ Start' <= Here + 1
         /\ ~Overrun => Gap(Start')
         /\ \A i \in (Start' + 1)..Here : WordRune(text[i])
         /\ CalmText => line = LineOf(text, Start')
         /\ CalmLine /\ lexPc \notin IdState => pos' = ColumnOf(text, Start') + (Here' - Start')
<1>1. /\ RingInv /\ pos \in Int /\ WindowOK /\ Size \in Nat /\ Size > 1
      /\ \A i \in (Start + 1)..Here : WordRune(text[i])
      /\ Full => Overrun
      /\ ~Overrun => Gap(Start)
      /\ CalmText => line = LineOf(text, Start)
      /\ CalmLine /\ lexPc \notin IdState => pos = ColumnOf(text, Start) + (Here - Start)
  BY InWord
<1>2. Here' = Here + 1 /\ pos' = pos + 1 /\ Start' = IF Full THEN Start + 1 ELSE Start
  BY <1>1, ReadMoves
<1>3. ColumnOf(text, Start) \in Nat
  BY <1>1, ColumnIsNat DEF WindowOK
<1>4. CASE ~Full
  <2>1. Start' = Start
    BY <1>2, <1>4
  <2>2. pos = ColumnOf(text, Start) + (Here - Start) => pos' = ColumnOf(text, Start) + (Here' - Start)
    BY <1>1, <1>2, <1>3 DEF WindowOK
  <2> QED
    BY <1>1, <2>1, <2>2 DEF WindowOK
<1>5. CASE Full
  <2>1. Start' = Start + 1 /\ Start + 1 \in (Start + 1)..Here /\ Overrun
    BY <1>1, <1>2, <1>5 DEF Full, WindowOK
  <2>2. text[Start + 1] # "\n"
    BY <1>1, <2>1 DEF WordRune, Break
  <2>3. /\ LineOf(text, Start') = LineOf(text, Start)
        /\ ColumnOf(text, Start') = ColumnOf(text, Start) + 1
    BY <1>1, <2>1, <2>2, LineNext, ColumnNext DEF WindowOK
  <2>4. pos = ColumnOf(text, Start) + (Here - Start) => pos' = ColumnOf(text, Start') + (Here' - Start')
    BY <1>1, <1>2, <1>3, <2>1, <2>3 DEF WindowOK
  <2>5. Start' \in Nat /\ Start' <= Here + 1 /\ \A i \in (Start' + 1)..Here : i \in (Start + 1)..Here
    BY <1>1, <2>1 DEF WindowOK
  <2> QED
    BY <1>1, <2>1, <2>3, <2>4, <2>5
<1> QED
  BY <1>4, <1>5

LEMMA WordReadsKeepsScan ==
  ASSUME LexScan, lexPc \in WordState, NEW there \in ReadOnState,
         lexPc \in IdState => there \in IdState,
         ReadAnd(there), WordRune(Ahead)
  PROVE  ScanInv'
<1>1. Read /\ lexPc' = there /\ posted' = posted /\ line' = line
  BY DEF ReadAnd, Goto
<1>2. /\ RingInv /\ pos \in Int /\ ScanInv /\ WindowOK
      /\ CalmText => line = LineOf(text, Here)
      /\ CalmLine /\ lexPc \notin IdState => pos = ColumnOf(text, Here)
  BY InWord
<1>3. Ahead = text[Here + 1] /\ Here' = Here + 1 /\ pos' = pos + 1 /\ text' = text
  BY <1>1, <1>2, ReadMoves
<1>4. Steady
  BY <1>1, <1>3 DEF Steady
<1>5. /\ Start' \in Nat /\ Start' <= Here + 1
      /\ ~Overrun => Gap(Start')
      /\ \A i \in (Start' + 1)..Here : WordRune(text[i])
      /\ CalmText => line = LineOf(text, Start')
      /\ CalmLine /\ lexPc \notin IdState => pos' = ColumnOf(text, Start') + (Here' - Start')
  BY <1>1, WordStart
<1>6. /\ WithinWord' /\ Mark' = Here + 1
      /\ lexPc' \notin {"unread", "eof", "first", "escape", "token", "number"}
      /\ ~WithinId' => lexPc \notin IdState
  BY <1>1, <1>3 DEF WithinWord, WithinId, WordState, ReadOnState, IdState, Mark
<1>7. ShapeInv'
  <2>1. Here \in Nat /\ Start' \in Nat
    BY <1>2, <1>5 DEF WindowOK
  <2>2. \A a, b \in Nat : \A i \in (a + 1)..(b + 1) : i \in (a + 1)..b \/ i = b + 1
    OBVIOUS
  <2>3. \A i \in (Start' + 1)..Mark' : WordRune(text[i])
    BY <1>3, <1>5, <1>6, <2>1, <2>2
  <2> QED
    BY <1>3, <1>6, <2>3, PhasesApart DEF ShapeInv, ToToken, WordRune
<1>8. text[Here + 1] # "\n"
  BY <1>3 DEF WordRune, Break
<1>9. /\ LineOf(text, Here + 1) = LineOf(text, Here)
      /\ ColumnOf(text, Here + 1) = ColumnOf(text, Here) + 1 /\ ColumnOf(text, Here + 1) \in Nat
  <2>1. Here \in Nat /\ Here + 1 \in Nat
    BY <1>2 DEF WindowOK
  <2> QED
    BY <1>8, <2>1, LineNext, ColumnNext, ColumnIsNat
<1>10. (CalmLine /\ ~WithinId') => /\ pos' = ColumnOf(text, Mark') + (Here' - Mark')
                                   /\ pos' = ColumnOf(text, Start') + (Here' - Start')
  <2>1. Here' - Mark' = 0
    BY <1>2, <1>3, <1>6 DEF WindowOK
  <2>2. ColumnOf(text, Mark') + 0 = ColumnOf(text, Here + 1)
    BY <1>6, <1>9
  <2> QED
    BY <1>2, <1>3, <1>5, <1>6, <1>9, <2>1, <2>2
<1> QED
  BY <1>2, <1>4, <1>5, <1>6, <1>7, <1>9, <1>10, ReachWord

LEMMA WordReadsBackKeepsScan ==
  ASSUME LexScan, lexPc \in WordState, NEW there \in ReadOnState,
         lexPc \in IdState => there \in IdState,
         ReadBack(there)
  PROVE  ScanInv'
<1>1. Read /\ lexPc' = "unread" /\ then' = there /\ posted' = posted /\ line' = line
  BY DEF ReadBack
<1>2. /\ RingInv /\ pos \in Int /\ ScanInv /\ WindowOK /\ Size \in Nat /\ Size > 1
      /\ CalmText => line = LineOf(text, Here)
      /\ CalmLine /\ lexPc \notin IdState => pos = ColumnOf(text, Here)
  BY InWord
<1>3. Here' = Here + 1 /\ pos' = pos + 1 /\ text' = text /\ Start' = IF Full THEN Start + 1 ELSE Start
  BY <1>1, <1>2, ReadMoves
<1>4. Steady
  BY <1>1, <1>3 DEF Steady
<1>5. /\ Start' \in Nat
      /\ ~Overrun => Gap(Start')
      /\ \A i \in (Start' + 1)..Here : WordRune(text[i])
      /\ CalmText => line = LineOf(text, Start')
      /\ CalmLine /\ lexPc \notin IdState => pos' = ColumnOf(text, Start') + (Here' - Start')
  BY <1>1, WordStart
<1>6. WithinWord' /\ Mark' = Here /\ (~WithinId' => lexPc \notin IdState)
  BY <1>1, <1>2, <1>3 DEF WithinWord, WithinId, Mark, WindowOK
<1>7. ShapeInv'
  <2>1. Here' > Start'
    BY <1>2, <1>3 DEF Full, WindowOK
  <2>2. there # "token"
    BY DEF ReadOnState, IdState
  <2> QED
    BY <1>1, <1>3, <1>5, <1>6, <2>1, <2>2, PhasesApart DEF ShapeInv, ToToken, WordRune
<1>8. (CalmLine /\ ~WithinId') => /\ pos' = ColumnOf(text, Mark') + (Here' - Mark')
                                  /\ pos' = ColumnOf(text, Start') + (Here' - Start')
  <2>1. Here' - Mark' = 1
    BY <1>2, <1>3, <1>6 DEF WindowOK
  <2>2. CalmLine /\ lexPc \notin IdState => pos' = ColumnOf(text, Mark') + 1
    BY <1>2, <1>3, <1>6
  <2> QED
    BY <1>5, <1>6, <2>1, <2>2
<1> QED
  BY <1>2, <1>4, <1>5, <1>6, <1>7, <1>8, ReachWord

LEMMA WordStaysKeepsScan ==
  ASSUME LexScan, lexPc \in WordState, NEW there \in ReadOnState,
         lexPc \in IdState => there \in IdState,
         UNCHANGED bufVars, Goto(there)
  PROVE  ScanInv'
<1>1. lexPc' = there /\ posted' = posted /\ line' = line
  BY DEF Goto
<1>2. /\ RingInv /\ ScanInv /\ WindowOK
      /\ \A i \in (Start + 1)..Here : WordRune(text[i])
      /\ ~Overrun => Gap(Start)
      /\ CalmText => line = LineOf(text, Start) /\ line = LineOf(text, Here)
      /\ CalmLine /\ lexPc \notin IdState => /\ pos = ColumnOf(text, Here)
                                             /\ pos = ColumnOf(text, Start) + (Here - Start)
  BY InWord
<1>3. text' = text /\ Start' = Start /\ Here' = Here /\ pos' = pos
  BY StayMoves
<1>4. Steady
  BY <1>1, <1>3 DEF Steady
<1>5. /\ WithinWord' /\ Mark' = Here
      /\ lexPc' \notin {"unread", "eof", "first", "escape", "token", "number"}
      /\ ~WithinId' => lexPc \notin IdState
  BY <1>1, <1>3 DEF WithinWord, WithinId, WordState, ReadOnState, IdState, Mark
<1>6. ShapeInv'
  BY <1>2, <1>3, <1>5, PhasesApart DEF ShapeInv, ToToken, WordRune
<1>7. ColumnOf(text, Here) + (Here - Here) = ColumnOf(text, Here)
  BY <1>2, ColumnIsNat DEF WindowOK
<1> QED
  BY <1>2, <1>3, <1>4, <1>5, <1>6, <1>7, ReachWord

\* accept and acceptOne of runes that can stand in a word
LEMMA AcceptKeepsScan ==
  ASSUME LexScan, NEW here \in WordState, NEW yes \in ReadOnState, NEW no \in ReadOnState,
         here \in IdState => yes \in IdState /\ no \in IdState,
         NEW chars, \A c \in chars : WordRune(c),
         AcceptOne(here, chars, yes, no) \/ (here = yes /\ Accept(here, chars, no))
  PROVE  ScanInv'
<1>1. /\ lexPc = here
      /\ \/ UNCHANGED bufVars /\ Goto(no)
         \/ Ahead \in chars /\ ReadAnd(yes)
         \/ ReadBack(no)
  BY DEF AcceptOne, Accept
<1>2. CASE UNCHANGED bufVars /\ Goto(no)
  BY <1>1, <1>2, WordStaysKeepsScan
<1>3. CASE Ahead \in chars /\ ReadAnd(yes)
  BY <1>1, <1>3, WordReadsKeepsScan
<1>4. CASE ReadBack(no)
  BY <1>1, <1>4, WordReadsBackKeepsScan
<1> QED
  BY <1>1, <1>2, <1>3, <1>4

LEMMA WordPostsKeepsScan ==
  ASSUME LexScan, lexPc \in WordState, NEW type \in {"int", "number", "keyword", "id"},
         lexPc \in IdState => type = "id", postToken(type)
  PROVE  ScanInv'
<1>1. /\ LexInv /\ RingInv /\ pos \in Int /\ ScanInv /\ WindowOK
      /\ ~Overrun => Gap(Start)
      /\ CalmText => line = LineOf(text, Start) /\ line = LineOf(text, Here)
      /\ CalmLine /\ lexPc \notin IdState => /\ pos = ColumnOf(text, Here)
                                             /\ pos = ColumnOf(text, Start) + (Here - Start)
  BY InWord DEF LexScan
<1>2. /\ lexPc' = "post" /\ hand'.type = type /\ hand'.line = line /\ hand'.from = Start
      /\ Here' = Here /\ pos' = pos /\ Steady /\ text' = text
      /\ Here' = hand'.from + Len(hand'.text)
      /\ Gap(Start) => Covers(LastEnd, hand')
      /\ ~Disturbs(hand') => hand'.pos = pos - (Here - Start)
  BY <1>1, PostIs, PostedIs DEF Steady
<1>3. ShapeInv'
  BY <1>2, PhasesApart DEF ShapeInv, ToToken, Steady
<1>4. (CalmLine /\ hand'.type \notin EndTypes \cup {"id"}) =>
         \/ Disturbs(hand')
         \/ /\ hand'.pos = ColumnOf(text, hand'.from)
            /\ hand'.type # "eol" => pos' = ColumnOf(text, Here')
  <2> SUFFICES ASSUME CalmLine, type # "id", ~Disturbs(hand')
               PROVE  hand'.pos = ColumnOf(text, hand'.from) /\ pos' = ColumnOf(text, Here')
    BY <1>2
  <2>1. /\ pos = ColumnOf(text, Here) /\ pos = ColumnOf(text, Start) + (Here - Start)
        /\ hand'.pos = pos - (Here - Start)
    BY <1>1, <1>2
  <2>2. ColumnOf(text, Start) \in Nat /\ Start \in Nat /\ Here \in Nat
    BY <1>1, ColumnIsNat DEF WindowOK
  <2>3. pos - (Here - Start) = ColumnOf(text, Start)
    BY <2>1, <2>2
  <2> QED
    BY <1>2, <2>1, <2>3
<1> QED
  BY <1>1, <1>2, <1>3, <1>4, ReachPost

LEMMA WordErrKeepsScan ==
  ASSUME LexScan, lexPc \in WordState, HandleErr
  PROVE  ScanInv'
BY InWord, ErrKeepsScan

\* The first rune of a number is put back.
LEMMA NumberStartsKeepsScan ==
  ASSUME LexScan, lexPc = "number", Unread, Goto("sign")
  PROVE  ScanInv'
<1>1. lexPc \in WordState /\ lexPc \notin IdState
  BY DEF WordState, IdState
<1>2. /\ RingInv /\ pos \in Int /\ ScanInv /\ WindowOK
      /\ \A i \in (Start + 1)..Here : WordRune(text[i])
      /\ ~Overrun => Gap(Start)
      /\ CalmText => line = LineOf(text, Start) /\ line = LineOf(text, Here)
      /\ CalmLine => /\ pos = ColumnOf(text, Here)
                     /\ pos = ColumnOf(text, Start) + (Here - Start)
  BY <1>1, InWord
<1>3. Here > Start
  BY <1>2 DEF ScanInv, ShapeInv
<1>4. /\ text' = text /\ Start' = Start /\ Here' = Here - 1 /\ pos' = pos - 1
      /\ lexPc' = "sign" /\ posted' = posted /\ line' = line
  BY <1>2, <1>3, UnreadMoves DEF Goto
<1>5. Steady
  BY <1>4 DEF Steady
<1>6. WithinWord' /\ Mark' = Here - 1
  BY <1>4 DEF WithinWord, WordState, ReadOnState, Mark
<1>7. ShapeInv'
  <2>1. \A i \in (Start' + 1)..Mark' : WordRune(text[i])
    BY <1>2, <1>4, <1>6 DEF WindowOK
  <2> QED
    BY <1>4, <1>6, <2>1, PhasesApart DEF ShapeInv, ToToken, WordRune
<1>8. Here - 1 \in Nat /\ (Here - 1) + 1 = Here /\ text[Here] # "\n"
  <2>1. Here \in (Start + 1)..Here
    BY <1>2, <1>3 DEF WindowOK
  <2> QED
    BY <1>2, <1>3, <2>1 DEF WindowOK, WordRune, Break
<1>9. /\ LineOf(text, Here) = LineOf(text, Here - 1)
      /\ ColumnOf(text, Here) = ColumnOf(text, Here - 1) + 1
      /\ ColumnOf(text, Here - 1) \in Nat /\ ColumnOf(text, Start) \in Nat
  <2>1. /\ LineOf(text, (Here - 1) + 1) = LineOf(text, Here - 1)
        /\ ColumnOf(text, (Here - 1) + 1) = ColumnOf(text, Here - 1) + 1
    BY <1>8, LineNext, ColumnNext
  <2> QED
    BY <1>2, <1>8, <2>1, ColumnIsNat DEF WindowOK
<1>10. CalmLine => /\ pos' = ColumnOf(text, Mark') + (Here' - Mark')
                   /\ pos' = ColumnOf(text, Start') + (Here' - Start')
  BY <1>2, <1>4, <1>6, <1>9 DEF WindowOK
<1> QED
  BY <1>2, <1>4, <1>5, <1>6, <1>7, <1>9, <1>10, ReachWord

LEMMA NumberKeepsScan ==
  ASSUME LexScan, Number \/ NoDigit
  PROVE  ScanInv'
<1> USE DEF WordState, ReadOnState, IdState
<1>1. \A c \in {"-", "."} \cup Digit : WordRune(c)
  BY DEF WordRune, Break, Digit, Blank
<1>2. CASE lexPc = "number" /\ Unread /\ Goto("sign")
  BY <1>2, NumberStartsKeepsScan
<1>3. CASE AcceptOne("sign", {"-"}, "digits", "digits")
  BY <1>1, <1>3, AcceptKeepsScan
<1>4. CASE Accept("digits", Digit, "point")
  BY <1>1, <1>4, AcceptKeepsScan
<1>5. CASE AcceptOne("point", {"."}, "fraction", "int")
  BY <1>1, <1>5, AcceptKeepsScan
<1>6. CASE Accept("fraction", Digit, "decimal")
  BY <1>1, <1>6, AcceptKeepsScan
<1>7. CASE lexPc = "int" /\ postToken("int")
  BY <1>7, WordPostsKeepsScan
<1>8. CASE lexPc = "decimal" /\ postToken("number")
  BY <1>8, WordPostsKeepsScan
<1>9. CASE NoDigit
  BY <1>9, WordErrKeepsScan DEF NoDigit
<1> QED
  BY <1>2, <1>3, <1>4, <1>5, <1>6, <1>7, <1>8, <1>9 DEF Number

LEMMA WordKeepsScan ==
  ASSUME LexScan, Word
  PROVE  ScanInv'
<1>1. /\ lexPc = "word" /\ lexPc \in WordState /\ lexPc \notin IdState
      /\ "word" \in ReadOnState /\ "keyword" \in ReadOnState
  BY DEF Word, WordState, ReadOnState, IdState
<1>2. CASE UNCHANGED bufVars /\ Goto("keyword")
  BY <1>1, <1>2, WordStaysKeepsScan
<1>3. CASE Ahead \notin Break /\ ReadAnd("word")
  BY <1>1, <1>3, WordReadsKeepsScan DEF WordRune
<1>4. CASE ReadBack("keyword")
  BY <1>1, <1>4, WordReadsBackKeepsScan
<1> QED
  BY <1>2, <1>3, <1>4 DEF Word

\* A word that is no keyword is read again from its start.
LEMMA KeywordOrIdKeepsScan ==
  ASSUME LexScan, KeywordOrId
  PROVE  ScanInv'
<1>1. lexPc = "keyword" /\ lexPc \in WordState /\ lexPc \notin IdState
  BY DEF KeywordOrId, WordState, ReadOnState, IdState
<1>2. CASE postToken("keyword")
  BY <1>1, <1>2, WordPostsKeepsScan
<1>3. CASE ResetWord
  <2>1. /\ RingInv /\ ScanInv /\ WindowOK
        /\ ~Overrun => Gap(Start)
        /\ CalmText => line = LineOf(text, Start)
    BY <1>1, InWord
  <2>2. /\ text' = text /\ Start' = Start /\ Here' = Start
        /\ lexPc' = "id" /\ posted' = posted /\ line' = line
    BY <1>3, <2>1, ResetMoves DEF ResetWord, Goto
  <2>3. Steady
    BY <2>2 DEF Steady
  <2>4. WithinWord' /\ WithinId' /\ Mark' = Start
    BY <2>2 DEF WithinWord, WithinId, WordState, ReadOnState, IdState, Mark
  <2>5. ShapeInv'
    <3>1. \A i \in (Start' + 1)..Mark' : WordRune(text[i])
      BY <2>1, <2>2, <2>4 DEF WindowOK
    <3> QED
      BY <2>2, <2>4, <3>1, PhasesApart DEF ShapeInv, ToToken, WordRune
  <2> QED
    BY <2>1, <2>2, <2>3, <2>4, <2>5, ReachWord
<1> QED
  BY <1>2, <1>3 DEF KeywordOrId

LEMMA IdentifierKeepsScan ==
  ASSUME LexScan, Identifier \/ Unknown
  PROVE  ScanInv'
<1> USE DEF WordState, ReadOnState, IdState
<1>1. \A c \in IdStart \cup IdRest : WordRune(c)
  BY DEF WordRune, Break, IdStart, IdRest, Letter, Digit, Blank
<1>2. CASE AcceptOne("id", IdStart, "id_rest", "unknown")
  BY <1>1, <1>2, AcceptKeepsScan
<1>3. CASE Accept("id_rest", IdRest, "id_end")
  BY <1>1, <1>3, AcceptKeepsScan
<1>4. CASE lexPc = "id_end" /\ postToken("id")
  BY <1>4, WordPostsKeepsScan
<1>5. CASE Unknown
  BY <1>5, WordErrKeepsScan DEF Unknown
<1> QED
  BY <1>2, <1>3, <1>4, <1>5 DEF Identifier

-----------------------------------------------------------------------------
(* The other steps of the lexer *)

LEMMA BackKeepsScan ==
  ASSUME LexScan, Back
  PROVE  ScanInv'
<1>1. RingInv /\ pos \in Int /\ ScanInv /\ lexPc = "unread" /\ Mark = Here - 1
  BY DEF LexScan, LexInv, Back, Mark
<1>2. WindowOK /\ Here > Start /\ then \in ReadOnState \cup {"token"}
  BY <1>1, WindowIsOK DEF ScanInv, ShapeInv
<1>3. /\ text' = text /\ Start' = Start /\ Here' = Here - 1 /\ pos' = pos - 1
      /\ lexPc' = then /\ posted' = posted /\ line' = line
  BY <1>1, <1>2, UnreadMoves DEF Back, Goto
<1>4. Steady
  BY <1>3 DEF Steady
<1>5. Mark' = Mark /\ Here' - Mark' = 0 /\ Here - Mark = 1 /\ Mark \in Nat
  <2>1. lexPc' # "unread"
    BY <1>2, <1>3 DEF ReadOnState, IdState
  <2> QED
    BY <1>1, <1>2, <1>3, <2>1 DEF Mark, WindowOK
<1>6. ColumnOf(text, Mark) \in Nat
  BY <1>5, ColumnIsNat
<1>7. CASE then = "token"
  <2>1. Between /\ ToToken /\ Between' /\ ToToken'
    BY <1>1, <1>3, <1>7 DEF Between, ToToken
  <2>2. ShapeInv'
    <3>1. Mark < Len(text) /\ text[Mark + 1] \notin Blank
      BY <1>1, <2>1 DEF ScanInv, ShapeInv
    <3> QED
      BY <1>3, <1>5, <1>7, <2>1, <3>1, PhasesApart DEF ShapeInv
  <2>3. /\ ~Overrun => Gap(Mark)
        /\ CalmText => line = LineOf(text, Mark)
        /\ CalmLine => pos = ColumnOf(text, Mark) + 1
    BY <1>1, <1>5, <2>1 DEF ScanInv, CoverInv, LineCountInv, ColumnInv
  <2>4. CalmLine => pos' = ColumnOf(text, Mark') + (Here' - Mark')
    BY <1>1, <1>3, <1>5, <1>6, <2>3
  <2> QED
    BY <1>1, <1>4, <1>5, <2>1, <2>2, <2>3, <2>4, ReachBetween
<1>8. CASE then \in ReadOnState
  <2>1. /\ WithinWord /\ WithinWord' /\ (~WithinId' => ~WithinId)
        /\ lexPc' \notin {"unread", "eof", "first", "escape", "token", "number"}
    BY <1>1, <1>3, <1>8 DEF WithinWord, WithinId, WordState, ReadOnState, IdState
  <2>2. ShapeInv'
    <3>1. \A i \in (Start + 1)..Mark : WordRune(text[i])
      BY <1>1, <2>1 DEF ScanInv, ShapeInv
    <3> QED
      BY <1>3, <1>5, <2>1, <3>1, PhasesApart DEF ShapeInv, ToToken, WordRune
  <2>3. /\ ~Overrun => Gap(Start)
        /\ CalmText => line = LineOf(text, Start) /\ line = LineOf(text, Mark)
        /\ CalmLine /\ ~WithinId => /\ pos = ColumnOf(text, Mark) + 1
                                    /\ pos = ColumnOf(text, Start) + (Here - Start)
    BY <1>1, <1>5, <2>1 DEF ScanInv, CoverInv, LineCountInv, ColumnInv
  <2>4. ColumnOf(text, Start) \in Nat
    BY <1>2, ColumnIsNat DEF WindowOK
  <2>5. (CalmLine /\ ~WithinId') => /\ pos' = ColumnOf(text, Mark') + (Here' - Mark')
                                    /\ pos' = ColumnOf(text, Start') + (Here' - Start')
    BY <1>1, <1>2, <1>3, <1>5, <1>6, <2>1, <2>3, <2>4 DEF WindowOK
  <2> QED
    BY <1>1, <1>3, <1>4, <1>5, <2>1, <2>2, <2>3, <2>5, ReachWord
<1> QED
  BY <1>2, <1>7, <1>8

LEMMA NewLineKeepsScan ==
  ASSUME LexScan, NewLine
  PROVE  ScanInv'
<1>1. RingInv /\ ScanInv /\ lexPc = "newline" /\ Mark = Here
  BY DEF LexScan, LexInv, NewLine, Mark
<1>2. /\ WindowOK /\ Here >= 1 /\ text[Here] = "\n"
      /\ CalmText => LineOf(text, Here) = line + 1
      /\ ~Overrun => Gap(Here)
  BY <1>1, WindowIsOK DEF ScanInv, ShapeInv, CoverInv, LineCountInv, Gap
<1>3. /\ lexPc' = "skip" /\ line' = line + 1 /\ pos' = 1 /\ posted' = posted /\ text' = text
      /\ Start' = Start /\ Here' = Here
  BY DEF NewLine, FirstColumn, Start, Here, PositionOf, Distance
<1>4. Between' /\ Mark' = Here
  BY <1>3 DEF Between, Mark
<1>5. ColumnOf(text, Here) = 1
  <2>1. WindowOK /\ Here >= 1 /\ text[Here] = "\n"
    BY <1>1, WindowIsOK DEF ScanInv, ShapeInv
  <2>2. Here - 1 \in Nat /\ (Here - 1) + 1 = Here
    BY <2>1 DEF WindowOK
  <2>3. ColumnOf(text, (Here - 1) + 1) = 1
    BY <2>1, <2>2, ColumnNext
  <2> QED
    BY <2>2, <2>3
<1>6. /\ (Overrun' <=> Overrun) /\ LastEnd' = LastEnd /\ (CoveredInv' <=> CoveredInv)
      /\ (CalmText' <=> CalmText) /\ (PositionExact' <=> PositionExact)
  <2>1. Overrun' <=> Overrun
    BY <1>3 DEF Overrun
  <2>2. LastEnd' = LastEnd
    BY <1>3 DEF LastEnd, End
  <2>3. CoveredInv' <=> CoveredInv
    BY <1>3 DEF CoveredInv, Covers, Before, End, BlankBetween
  <2>4. CalmText' <=> CalmText
    BY <1>3 DEF CalmText, Disturbs
  <2>5. PositionExact' <=> PositionExact
    BY <1>3 DEF PositionExact, Undisturbed, LineAt, ColumnAt
  <2> QED
    BY <2>1, <2>2, <2>3, <2>4, <2>5
<1>7. ShapeInv'
  BY <1>3, <1>4, PhasesApart DEF ShapeInv, ToToken
<1>8. Overrun \/ CoverInv'
  BY <1>2, <1>3, <1>4, <1>6, PhasesApart DEF CoverInv, Gap, BlankBetween
<1>9. CalmText => LineCountInv'
  BY <1>2, <1>3, <1>4, PhasesApart DEF LineCountInv
<1>10. ColumnInv'
  <2>1. pos' = ColumnOf(text, Here) + (Here - Here)
    BY <1>2, <1>3, <1>5, <1>1, WindowIsOK DEF WindowOK
  <2> QED
    BY <1>3, <1>4, <2>1, PhasesApart DEF ColumnInv
<1> QED
  BY <1>1, <1>6, <1>7, <1>8, <1>9, <1>10 DEF ScanInv

LEMMA CloseKeepsScan ==
  ASSUME LexScan, Close
  PROVE  ScanInv'
<1>1. /\ lexPc' = "closed" /\ Steady /\ ScanInv
  BY DEF LexScan, Close, Goto, Steady, bufVars
<1>2. ~Between' /\ ~WithinWord' /\ ~ToToken' /\ lexPc' \notin StringState
  BY <1>1 DEF Between, WithinWord, ToToken, StringState, WordState, ReadOnState, IdState
<1>3. ShapeInv' /\ CoverInv' /\ LineCountInv' /\ ColumnInv'
  BY <1>1, <1>2 DEF ShapeInv, CoverInv, LineCountInv, ColumnInv
<1> QED
  BY <1>1, <1>3, SteadyKeeps DEF ScanInv

LEMMA LexKeepsScan ==
  ASSUME LexScan, LexStep
  PROVE  ScanInv'
<1>1. CASE Skip \/ Token1 \/ AtEnd
  BY <1>1, SkipKeepsScan, Token1KeepsScan, AtEndKeepsScan
<1>2. CASE First \/ PostSingle
  BY <1>2, FirstKeepsScan, PostSingleKeepsScan
<1>3. CASE String \/ Escape \/ PostString
  BY <1>3, StringKeepsScan, EscapeKeepsScan, PostStringKeepsScan
<1>4. CASE Number \/ NoDigit
  BY <1>4, NumberKeepsScan
<1>5. CASE Word \/ KeywordOrId \/ Identifier \/ Unknown
  BY <1>5, WordKeepsScan, KeywordOrIdKeepsScan, IdentifierKeepsScan
<1>6. CASE Back \/ NewLine \/ Close
  BY <1>6, BackKeepsScan, NewLineKeepsScan, CloseKeepsScan
<1> QED
  BY <1>1, <1>2, <1>3, <1>4, <1>5, <1>6 DEF LexStep

-----------------------------------------------------------------------------
(* A token is taken from the channel *)

\* What has been posted, when the token in hand is taken.
LEMMA TakenPosts ==
  ASSUME LexScan, EndInv, Taken
  PROVE  /\ lexPc = "post" /\ UNCHANGED <<bufVars, then, line, hand>>
         /\ text' = text /\ Start' = Start /\ Here' = Here /\ pos' = pos
         /\ Len(posted) \in Nat /\ Len(posted') = Len(posted) + 1
         /\ \A k \in 1..Len(posted) : posted'[k] = posted[k]
         /\ posted'[Len(posted) + 1] = hand
         /\ hand \in LexToken /\ LastEnd \in Int
         /\ lexPc' = IF hand.type = "eol" THEN "newline"
                     ELSE IF hand.type \in EndTypes THEN "close" ELSE "skip"
         /\ DOMAIN posted = 1..Len(posted) /\ DOMAIN posted' = 1..Len(posted')
<1>1. LexTypes /\ LexInv
  BY DEF LexScan, LexInv
<1>2. lexPc = "post" /\ UNCHANGED <<bufVars, then, line, hand>>
  BY DEF Taken
<1>3. hand \in LexToken /\ LastEnd \in Int
  BY <1>1, <1>2, EndsAreIntegers DEF LexTypes
<1>4. posted \in Seq(LexToken) /\ posted' \in Seq(LexToken)
  BY <1>1, TakenFacts DEF LexTypes
<1> QED
  BY <1>1, <1>2, <1>3, <1>4, TakenFacts, StayMoves, LenProperties

LEMMA TakenKeepsCover ==
  ASSUME LexScan, EndInv, Taken
  PROVE  Overrun' \/ (CoverInv' /\ CoveredInv')
<1> SUFFICES ASSUME ~Overrun'
             PROVE  CoverInv' /\ CoveredInv'
  OBVIOUS
<1>0. PICK n \in Nat : Len(posted) = n
  BY TakenPosts
<1>1. /\ lexPc = "post" /\ text' = text /\ Start' = Start /\ Here' = Here /\ hand' = hand
      /\ Len(posted) = n /\ Len(posted') = n + 1
      /\ \A k \in 1..n : posted'[k] = posted[k]
      /\ posted'[n + 1] = hand
      /\ DOMAIN posted = 1..n /\ DOMAIN posted' = 1..(n + 1)
      /\ lexPc' = IF hand.type = "eol" THEN "newline"
                  ELSE IF hand.type \in EndTypes THEN "close" ELSE "skip"
  BY <1>0, TakenPosts
<1>2. ~Overrun /\ ~Fills(hand)
  <2>1. /\ \A k \in 1..(n + 1) : ~(\/ Len(posted'[k].text) = Size - 1
                                   \/ posted'[k].type = "eof" /\ Len(text) - posted'[k].from = Size - 1)
        /\ ~\E i \in 1..(Len(text) - Size + 2) :
              \A k \in i..(i + Size - 2) : text[k] \notin Break \ {"."}
    BY <1>1 DEF Overrun
  <2>2. ~Overrun
    BY <1>1, <2>1 DEF Overrun
  <2>3. n + 1 \in 1..(n + 1)
    BY <1>1
  <2>4. ~Fills(hand)
    BY <1>1, <2>1, <2>3 DEF Fills
  <2> QED
    BY <2>2, <2>4
<1>3. /\ CoveredInv
      /\ Covers(LastEnd, hand)
      /\ hand.type \in EndTypes \/ Here = hand.from + Len(hand.text)
  BY <1>1, <1>2 DEF LexScan, ScanInv, CoverInv
<1>4. /\ \A k \in 1..n : End(k)' = End(k)
      /\ End(n + 1)' = hand.from + Len(hand.text)
      /\ LastEnd' = hand.from + Len(hand.text)
  <2>1. \A k \in 1..n : End(k)' = End(k)
    BY <1>1 DEF End
  <2>2. End(n + 1)' = hand.from + Len(hand.text)
    BY <1>1 DEF End
  <2>3. LastEnd' = hand.from + Len(hand.text)
    BY <1>1 DEF LastEnd, End
  <2> QED
    BY <2>1, <2>2, <2>3
<1>5. CoveredInv'
  <2>1. \A k \in 1..n : Before(k)' = Before(k)
    <3> SUFFICES ASSUME NEW k \in 1..n PROVE Before(k)' = Before(k)
      OBVIOUS
    <3>1. k = 1 \/ k - 1 \in 1..n
      BY <1>1
    <3>2. k - 1 \in 1..n => posted'[k - 1] = posted[k - 1]
      BY <1>1
    <3> QED
      BY <3>1, <3>2 DEF Before, End
  <2>2. Before(n + 1)' = LastEnd
    <3>1. CASE n = 0
      BY <1>1, <3>1 DEF Before, LastEnd
    <3>2. CASE n # 0
      <4>1. n + 1 # 1 /\ (n + 1) - 1 = n /\ n \in 1..n
        BY <1>1, <3>2
      <4>2. posted'[(n + 1) - 1] = posted[n]
        BY <1>1, <4>1
      <4> QED
        BY <1>1, <3>2, <4>1, <4>2 DEF Before, LastEnd, End
    <3> QED
      BY <3>1, <3>2
  <2>3. ASSUME NEW k \in 1..n PROVE Covers(Before(k), posted[k])'
    <3>1. Covers(Before(k), posted[k])
      BY <1>1, <1>3 DEF CoveredInv
    <3>2. Before(k)' = Before(k) /\ posted'[k] = posted[k]
      BY <1>1, <2>1
    <3> QED
      BY <1>1, <3>1, <3>2 DEF Covers, BlankBetween
  <2>4. Covers(Before(n + 1), posted[n + 1])'
    BY <1>1, <1>3, <2>2 DEF Covers, BlankBetween
  <2>5. \A k \in 1..(n + 1) : k \in 1..n \/ k = n + 1
    BY <1>1
  <2> QED
    BY <1>1, <2>3, <2>4, <2>5 DEF CoveredInv
<1>6. CoverInv'
  <2>1. WindowOK
    BY WindowIsOK DEF LexScan, LexInv
  <2>2. lexPc' \in {"newline", "skip"} => hand.type \notin EndTypes
    BY <1>1 DEF EndTypes
  <2>3. lexPc' \in {"newline", "skip"} => LastEnd' = Here
    BY <1>3, <1>4, <2>2
  <2>4. /\ Mark' = Here /\ lexPc' \in {"newline", "skip", "close"}
        /\ ~WithinWord' /\ lexPc' \notin StringState
        /\ Between' => lexPc' = "skip"
    BY <1>1 DEF Mark, Between, ToToken, WithinWord, WordState, ReadOnState, IdState, StringState
  <2>5. lexPc' \in {"newline", "skip"} => Gap(Mark)'
    <3>1. \A i \in (Here + 1)..Here : FALSE
      BY <2>1 DEF WindowOK
    <3> QED
      BY <2>1, <2>3, <2>4, <3>1 DEF Gap, BlankBetween, WindowOK
  <2> QED
    BY <2>4, <2>5 DEF CoverInv
<1> QED
  BY <1>5, <1>6

LEMMA TakenKeepsExact ==
  ASSUME LexScan, EndInv, Taken
  PROVE  PositionExact'
<1>0. PICK n \in Nat : Len(posted) = n
  BY TakenPosts
<1>1. /\ lexPc = "post" /\ text' = text
      /\ \A k \in 1..n : posted'[k] = posted[k]
      /\ posted'[n + 1] = hand
      /\ DOMAIN posted = 1..n /\ DOMAIN posted' = 1..(n + 1)
  BY <1>0, TakenPosts
<1>2. hand.line = line /\ PositionExact /\ (CalmText => LineCountInv) /\ (CalmLine => ColumnInv)
  BY <1>1 DEF LexScan, ScanInv, ShapeInv
<1>3. ASSUME NEW k \in 1..n, posted[k].type \notin {"eof", "err"}, Undisturbed(k)'
      PROVE  /\ posted[k].line = LineAt(posted[k].from)
             /\ posted[k].pos = ColumnAt(posted[k].from)
  <2>1. \A j \in 1..k : j \in 1..n /\ posted'[j] = posted[j]
    BY <1>1
  <2>2. k \in 1..n /\ posted'[k] = posted[k]
    BY <1>1
  <2>3. Undisturbed(k)
    BY <1>3, <2>1, <2>2 DEF Undisturbed
  <2> QED
    BY <1>1, <1>2, <1>3, <2>3 DEF PositionExact
<1>4. ASSUME hand.type \notin {"eof", "err"}, Undisturbed(n + 1)'
      PROVE  /\ hand.line = LineAt(hand.from)
             /\ hand.pos = ColumnAt(hand.from)
  <2>1. \A j \in 1..(n + 1) : /\ posted'[j].type = "id" => posted'[j].line # posted'[n + 1].line
                              /\ "w" \notin ToSet(posted'[j].text)
                              /\ posted'[j].type = "string" =>
                                   "\n" \notin ToSet(posted'[j].text) /\ Len(posted'[j].text) < Size - 1
    BY <1>4 DEF Undisturbed
  <2>2. n + 1 \in 1..(n + 1) /\ \A j \in 1..n : j \in 1..(n + 1)
    OBVIOUS
  <2>3. /\ hand.type # "id" /\ "w" \notin ToSet(hand.text)
        /\ hand.type = "string" => "\n" \notin ToSet(hand.text) /\ Len(hand.text) < Size - 1
    BY <1>1, <2>1, <2>2
  <2>4. \A j \in 1..n : /\ posted[j].type = "id" => posted[j].line # hand.line
                        /\ "w" \notin ToSet(posted[j].text)
                        /\ posted[j].type = "string" =>
                             "\n" \notin ToSet(posted[j].text) /\ Len(posted[j].text) < Size - 1
    BY <1>1, <2>1, <2>2
  <2>5. ASSUME NEW t \in LexToken, "w" \notin ToSet(t.text),
               t.type = "string" => "\n" \notin ToSet(t.text) /\ Len(t.text) < Size - 1
        PROVE  ~Disturbs(t)
    <3>1. Len(t.text) \in Nat
      BY LenProperties DEF LexToken
    <3> QED
      BY <2>5, <3>1, SizeAssumption DEF Disturbs
  <2>6. ~Disturbs(hand)
    BY <2>3, <2>5, TakenPosts
  <2>7. CalmText
    <3>1. posted \in Seq(LexToken)
      BY DEF LexScan, LexInv, LexTypes
    <3>2. \A j \in 1..n : posted[j] \in LexToken
      BY <1>0, <3>1, ElementOfSeq
    <3> QED
      BY <1>0, <2>4, <2>5, <3>2 DEF CalmText
  <2>8. CalmLine
    BY <1>0, <1>2, <2>4, <2>7 DEF CalmLine
  <2>9. line = LineOf(text, hand.from) /\ hand.pos = ColumnOf(text, hand.from)
    BY <1>1, <1>2, <1>4, <2>3, <2>6, <2>7, <2>8 DEF LineCountInv, ColumnInv, EndTypes
  <2> QED
    BY <1>2, <2>9 DEF LineOf, ColumnOf, LineAt, ColumnAt
<1>5. /\ \A m : LineAt(m) = LineOf(text, m) /\ ColumnAt(m) = ColumnOf(text, m)
      /\ \A k : /\ LineAt(posted[k].from)' = LineOf(text', posted'[k].from)
               /\ ColumnAt(posted[k].from)' = ColumnOf(text', posted'[k].from)
  BY DEF LineAt, ColumnAt, LineOf, ColumnOf
<1>6. ASSUME NEW k \in 1..(n + 1), posted'[k].type \notin {"eof", "err"}, Undisturbed(k)'
      PROVE  /\ posted'[k].line = LineOf(text, posted'[k].from)
             /\ posted'[k].pos = ColumnOf(text, posted'[k].from)
  <2>1. CASE k \in 1..n
    <3>1. posted'[k] = posted[k]
      BY <1>1, <2>1
    <3> QED
      BY <1>3, <1>5, <1>6, <2>1, <3>1
  <2>2. CASE k = n + 1
    BY <1>1, <1>4, <1>5, <1>6, <2>2
  <2> QED
    BY <2>1, <2>2
<1>7. ASSUME NEW k \in 1..(n + 1), posted'[k].type \notin {"eof", "err"}, Undisturbed(k)'
      PROVE  /\ posted'[k].line = LineAt(posted[k].from)'
             /\ posted'[k].pos = ColumnAt(posted[k].from)'
  BY <1>1, <1>5, <1>6, <1>7
<1> QED
  BY <1>1, <1>7 DEF PositionExact

LEMMA TakenKeepsCounts ==
  ASSUME LexScan, EndInv, Taken
  PROVE  /\ CalmText' => LineCountInv'
         /\ CalmLine' => ColumnInv'
<1>0. PICK n \in Nat : Len(posted) = n
  BY TakenPosts
<1>1. /\ lexPc = "post" /\ text' = text /\ Here' = Here /\ line' = line /\ pos' = pos
      /\ Len(posted') = n + 1
      /\ \A k \in 1..n : posted'[k] = posted[k]
      /\ posted'[n + 1] = hand
      /\ lexPc' = IF hand.type = "eol" THEN "newline"
                  ELSE IF hand.type \in EndTypes THEN "close" ELSE "skip"
  BY <1>0, TakenPosts
<1>2. hand.line = line /\ (CalmText => LineCountInv) /\ (CalmLine => ColumnInv)
  BY <1>1 DEF LexScan, ScanInv, ShapeInv
<1>3. n + 1 \in 1..(n + 1) /\ \A j \in 1..n : j \in 1..(n + 1)
  OBVIOUS
<1>4. CalmText' => CalmText /\ ~Disturbs(hand)
  BY <1>0, <1>1, <1>3 DEF CalmText, Disturbs
<1>5. CalmLine' => CalmText' /\ CalmLine /\ hand.type # "id"
  BY <1>0, <1>1, <1>2, <1>3, <1>4 DEF CalmLine
<1>6. /\ Mark' = Here /\ lexPc' \in {"newline", "skip", "close"}
      /\ ~WithinWord' /\ lexPc' \notin StringState
      /\ Between' <=> lexPc' = "skip"
      /\ lexPc' = "skip" => hand.type \notin EndTypes \cup {"eol"}
      /\ lexPc' = "newline" => hand.type = "eol"
  BY <1>1 DEF Mark, Between, ToToken, WithinWord, WordState, ReadOnState, IdState, StringState
<1>7. CalmText' => LineCountInv'
  <2>1. (CalmText' /\ lexPc' = "skip") => line = LineOf(text, Here)
    BY <1>1, <1>2, <1>4, <1>6 DEF LineCountInv
  <2>2. (CalmText' /\ lexPc' = "newline") => LineOf(text, Here) = line + 1
    BY <1>1, <1>2, <1>4, <1>6 DEF LineCountInv, EndTypes
  <2> QED
    BY <1>1, <1>6, <2>1, <2>2 DEF LineCountInv
<1>8. CalmLine' => ColumnInv'
  <2>1. (CalmLine' /\ lexPc' = "skip") => pos = ColumnOf(text, Here)
    BY <1>1, <1>2, <1>4, <1>5, <1>6 DEF ColumnInv
  <2>2. WindowOK
    BY WindowIsOK DEF LexScan, LexInv
  <2>3. ColumnOf(text, Here) + (Here - Here) = ColumnOf(text, Here)
    BY <2>2, ColumnIsNat DEF WindowOK
  <2> QED
    BY <1>1, <1>6, <2>1, <2>3 DEF ColumnInv
<1> QED
  BY <1>7, <1>8

LEMMA TakenKeepsScan ==
  ASSUME LexScan, EndInv, Taken
  PROVE  ScanInv'
<1>1. /\ lexPc = "post" /\ hand' = hand /\ text' = text /\ Here' = Here
      /\ lexPc' = IF hand.type = "eol" THEN "newline"
                  ELSE IF hand.type \in EndTypes THEN "close" ELSE "skip"
  BY TakenPosts
<1>2. lexPc' \in {"newline", "skip", "close"} /\ ~ToToken' /\ ~WithinWord'
  BY <1>1 DEF ToToken, WithinWord, WordState, ReadOnState, IdState
<1>3. hand.type = "eol" => Here >= 1 /\ text[Here] = "\n"
  BY <1>1 DEF LexScan, ScanInv, ShapeInv
<1>4. ShapeInv'
  BY <1>1, <1>2, <1>3 DEF ShapeInv
<1> QED
  BY <1>4, TakenKeepsCover, TakenKeepsCounts, TakenKeepsExact DEF ScanInv

LEMMA UnchangedKeepsScan ==
  ASSUME ScanInv, UNCHANGED <<bufVars, lexVars>>
  PROVE  ScanInv'
<1>1. /\ text' = text /\ Start' = Start /\ Here' = Here /\ pos' = pos
      /\ lexPc' = lexPc /\ then' = then /\ line' = line /\ hand' = hand /\ posted' = posted
  BY StayMoves DEF lexVars
<1>2. Steady
  BY <1>1 DEF Steady
<1>3. /\ Mark' = Mark /\ (ToToken' <=> ToToken) /\ (Between' <=> Between)
      /\ (WithinWord' <=> WithinWord) /\ (WithinId' <=> WithinId) /\ (Full' <=> Full)
  BY <1>1 DEF Mark, ToToken, Between, WithinWord, WithinId, Full
<1>4. ShapeInv => ShapeInv'
  BY <1>1, <1>3 DEF ShapeInv, WordRune
<1>5. CoverInv => CoverInv'
  BY <1>1, <1>2, <1>3, SteadyKeeps DEF CoverInv, Gap, BlankBetween, Covers, Fills
<1>6. LineCountInv => LineCountInv'
  BY <1>1, <1>3 DEF LineCountInv, Breaking, Disturbs
<1>7. ColumnInv => ColumnInv'
  BY <1>1, <1>3 DEF ColumnInv, Breaking, Disturbs
<1> QED
  BY <1>2, <1>4, <1>5, <1>6, <1>7, SteadyKeeps DEF ScanInv

-----------------------------------------------------------------------------
(* The scan *)

LEMMA InitScan == Init => ScanInv
<1> SUFFICES ASSUME Init PROVE ScanInv
  OBVIOUS
<1>1. /\ lexPc = "skip" /\ then = "skip" /\ line = 1 /\ posted = <<>> /\ Len(posted) = 0 /\ pos = 1
  BY EmptySeq DEF Init, BufInit
<1>2. Start = 0 /\ Here = 0 /\ Mark = 0
  <2>1. fetched = 0 /\ startPtr = 0 /\ readPtr = 0 /\ writePtr = 0 /\ Distance(0, 0) = 0
    BY DistanceSelf, SizeAssumption DEF Init, BufInit, Pointer
  <2> QED
    BY <1>1, <2>1 DEF Start, Here, Mark, PositionOf
<1>3. /\ ~ToToken /\ ~WithinWord /\ lexPc \notin StringState
  BY <1>1 DEF ToToken, WithinWord, WordState, ReadOnState, IdState, StringState
<1>4. ShapeInv
  BY <1>1, <1>3 DEF ShapeInv
<1>5. CoverInv /\ CoveredInv
  <2>1. Gap(0)
    BY <1>1 DEF Gap, LastEnd, BlankBetween
  <2> QED
    BY <1>1, <1>2, <1>3, <2>1 DEF CoverInv, CoveredInv
<1>6. LineOf(text, 0) = 1 /\ ColumnOf(text, 0) = 1
  <2>1. /\ {i \in 1..0 : text[i] = "\n"} = {}
        /\ {i \in 1..0 : LineOf(text, i) = LineOf(text, 0) /\ text[i] # "\n"} = {}
    OBVIOUS
  <2>2. /\ Cardinality({i \in 1..0 : text[i] = "\n"}) = 0
        /\ Cardinality({i \in 1..0 : LineOf(text, i) = LineOf(text, 0) /\ text[i] # "\n"}) = 0
    BY <2>1, FS_EmptySet
  <2> QED
    BY <2>2 DEF LineOf, ColumnOf
<1>7. LineCountInv /\ ColumnInv
  BY <1>1, <1>2, <1>3, <1>6 DEF LineCountInv, ColumnInv
<1>8. PositionExact
  BY <1>1 DEF PositionExact
<1> QED
  BY <1>4, <1>5, <1>7, <1>8 DEF ScanInv

LEMMA NextScan ==
  ASSUME IndInv, ScanInv, [Next]_vars
  PROVE  ScanInv'
<1>1. LexScan /\ EndInv
  BY DEF IndInv, LineInv, LexScan, LexInv
<1>2. CASE Lex
  BY <1>1, <1>2, LexKeepsScan DEF Lex
<1>3. CASE Drain
  BY <1>1, <1>3, TakenKeepsScan DEF Drain
<1>4. CASE Look
  <2>1. Taken \/ UNCHANGED <<bufVars, lexVars>>
    BY <1>4 DEF Look, next
  <2> QED
    BY <1>1, <2>1, TakenKeepsScan, UnchangedKeepsScan
<1>5. CASE PeekEnds \/ AcceptTokens \/ Refuse \/ GiveUp \/ Return
  <2>1. UNCHANGED <<bufVars, lexVars>>
    BY <1>5 DEF PeekEnds, AcceptTokens, Refuse, GiveUp, Return, PushBackAnd
  <2> QED
    BY <2>1, UnchangedKeepsScan
<1>6. CASE Finished \/ UNCHANGED vars
  <2>1. UNCHANGED <<bufVars, lexVars>>
    BY <1>6 DEF Finished, vars
  <2> QED
    BY <2>1, UnchangedKeepsScan
<1> QED
  BY <1>2, <1>3, <1>4, <1>5, <1>6 DEF Next, Parse

\* Wherever the lexer is, what it has read since the last token is known, and
\* so are the line and the column, where nothing has disturbed them.
THEOREM LexerScan == Spec => []ScanInv
<1>1. IndInv /\ ScanInv /\ [Next]_vars => ScanInv'
  BY NextScan
<1> QED
  BY <1>1, InitScan, LexerInductive, PTL DEF Spec

\* The tokens cover the text, for every text and every size of the ring,
\* unless something in the text overruns the ring (NoCharacterLost).
THEOREM LexerNoCharacterLost == Spec => []NoCharacterLost
<1>1. ASSUME IndInv, ScanInv PROVE NoCharacterLost
  <2>1. DOMAIN posted = 1..Len(posted)
    BY <1>1, StreamLengths DEF IndInv
  <2>2. Overrun \/ CoveredInv
    BY <1>1 DEF ScanInv
  <2>3. ASSUME CoveredInv, NEW k \in 1..Len(posted)
        PROVE  /\ Before(k) <= posted[k].from
               /\ BlankBetween(Before(k), posted[k].from)
               /\ posted[k].type # "err" => posted[k].text = SubSeq(text, posted[k].from + 1, End(k))
               /\ posted[k].type = "eof" =>
                    posted[k].from = Len(text) \/ text[Len(text)] = "\\"
    BY <2>3 DEF CoveredInv, Covers, End
  <2> QED
    BY <2>1, <2>2, <2>3 DEF NoCharacterLost, Before
<1> QED
  BY <1>1, LexerInductive, LexerScan, PTL

\* A token carries its line and its position in it, unless something before it
\* has disturbed the counts (PositionExact).
THEOREM LexerPositionExact == Spec => []PositionExact
<1>1. ScanInv => PositionExact
  BY DEF ScanInv
<1> QED
  BY <1>1, LexerScan, PTL

=============================================================================
