------------------------------- MODULE LexBuf -------------------------------
(***************************************************************************)
(* dsl.lexBuf (runtime/dsl/lexbuf.go): a ring of runes with three          *)
(* pointers.  The runes from readPtr to writePtr have been fetched and not *)
(* read, or have been read and put back; those from startPtr to readPtr    *)
(* are the token that is being read.  The ring is full one rune early, and *)
(* then a fetch pushes the start on.                                       *)
(*                                                                         *)
(* The loops over reads (accept, skipWhitespace, ...) are steps of Lexer.  *)
(***************************************************************************)
EXTENDS Integers, Sequences

CONSTANTS Texts,    \* the texts that the reader may yield
          Size      \* lexBufferSize

ASSUME SizeAssumption == Size \in Nat /\ Size > 1

ASSUME TextsAssumption == \A t \in Texts : t \in Seq(STRING)

VARIABLES
  text,       \* what the reader yields
  fetched,    \* the number of runes that it has yielded
  buf, startPtr, readPtr, writePtr,
  pos         \* the position in the line, as the code counts it

bufVars == <<text, fetched, buf, startPtr, readPtr, writePtr, pos>>

NoRune == "nul"

increment(i) == (i + 1) % Size
decrement(i) == (i - 1 + Size) % Size

BufInit == /\ text \in Texts
           /\ fetched = 0
           /\ buf = [i \in 0..(Size - 1) |-> NoRune]
           /\ startPtr = 0
           /\ readPtr = 0
           /\ writePtr = 0
           /\ pos = 1

\* peek finds nothing in the ring and nothing in the reader.
AtEof == readPtr = writePtr /\ fetched = Len(text)

\* The rune that peek and read return.
Ahead == IF readPtr = writePtr THEN text[fetched + 1] ELSE buf[readPtr]

\* Where a fetch leaves the start.  A faulty variant leaves it where it is.
KeepStart(write) == startPtr
PushStart(write) == IF startPtr = write THEN increment(startPtr) ELSE startPtr

\* readerRead
Fetch == /\ fetched' = fetched + 1
         /\ buf' = [buf EXCEPT ![writePtr] = text[fetched + 1]]
         /\ writePtr' = increment(writePtr)
         /\ startPtr' = PushStart(writePtr')

\* read, when it does not fail
Read == /\ ~AtEof
        /\ IF readPtr = writePtr
           THEN Fetch
           ELSE UNCHANGED <<fetched, buf, startPtr, writePtr>>
        /\ readPtr' = increment(readPtr)
        /\ pos' = pos + 1
        /\ UNCHANGED text

\* unread
Unread == /\ IF readPtr = startPtr
             THEN UNCHANGED <<readPtr, pos>>
             ELSE readPtr' = decrement(readPtr) /\ pos' = pos - 1
          /\ UNCHANGED <<text, fetched, buf, startPtr, writePtr>>

\* reset: the position in the line is left as it is.
Reset == /\ readPtr' = startPtr
         /\ UNCHANGED <<text, fetched, buf, startPtr, writePtr, pos>>

\* discard, and consume: what is consumed is Preview.
Discard == /\ startPtr' = readPtr
           /\ UNCHANGED <<text, fetched, buf, readPtr, writePtr, pos>>

\* preview: the runes from startPtr to readPtr, around the end of the ring.
Distance(from, to) == (to - from + Size) % Size
Preview == [i \in 1..Distance(startPtr, readPtr) |-> buf[(startPtr + i - 1) % Size]]

BufTypeOK == /\ text \in Texts
             /\ fetched \in 0..Len(text)
             /\ DOMAIN buf = 0..(Size - 1)
             /\ startPtr \in 0..(Size - 1)
             /\ readPtr \in 0..(Size - 1)
             /\ writePtr \in 0..(Size - 1)
             /\ pos \in Int

-----------------------------------------------------------------------------
(* The window that the ring stands for: positions are counted back from    *)
(* what has been fetched.                                                  *)

PositionOf(ptr) == fetched - Distance(ptr, writePtr)

Abstract == INSTANCE Window WITH Capacity <- Size - 1,
              first <- PositionOf(startPtr), next <- PositionOf(readPtr),
              seen <- fetched
=============================================================================
