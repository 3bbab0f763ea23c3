------------------------------- MODULE Window -------------------------------
(***************************************************************************)
(* What dsl.lexBuf promises: a window on a text, with the start of a token *)
(* and the place that is read next.  Positions count the characters before *)
(* them.  At most Capacity characters are kept: when one more is looked    *)
(* at, the start of the window gives way.                                  *)
(***************************************************************************)
EXTENDS Naturals, Sequences

CONSTANTS Texts,      \* the texts that may be read
          Capacity    \* the number of characters that are kept

VARIABLES
  text,     \* the text
  first,    \* where the window starts
  next,     \* the position that is read next
  seen      \* the characters fetched from the text

vars == <<text, first, next, seen>>

Init == /\ text \in Texts
        /\ first = 0
        /\ next = 0
        /\ seen = 0

\* The characters from the start of the window to the reading position.
Content == SubSeq(text, first + 1, next)

\* Read a character, fetching it unless it has been seen.
Advance == /\ next < Len(text)
           /\ next' = next + 1
           /\ IF next < seen
              THEN UNCHANGED <<first, seen>>
              ELSE /\ seen' = seen + 1
                   /\ first' = IF seen' - first > Capacity THEN first + 1 ELSE first
           /\ UNCHANGED text

\* Go back one character, but not before the start.
Back == next > first /\ next' = next - 1 /\ UNCHANGED <<text, first, seen>>

\* Go back to the start, to read the same characters again.
Return == next' = first /\ UNCHANGED <<text, first, seen>>

\* Let go of what has been read.
Drop == first' = next /\ UNCHANGED <<text, next, seen>>

Next == Advance \/ Back \/ Return \/ Drop

Spec == Init /\ [][Next]_vars
=============================================================================
