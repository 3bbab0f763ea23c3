------------------------------ MODULE MCLexer ------------------------------
(***************************************************************************)
(* Model checking of Lexer: every text of up to MaxLength characters over  *)
(* Chars, and some longer ones in which keywords, identifiers, numbers and *)
(* strings meet, wrap around the ring or overrun it.                       *)
(***************************************************************************)
EXTENDS Lexer

CONSTANTS Chars, MaxLength

LongTexts == {
  <<"a", "s", " ", "\"", "a", "w", "\"", "\n", "a", "s">>,
  <<"a", "s", "\n", "@", "_", "0", ",", "a">>,
  <<"-", "0", ".", "0", " ", "0", "0", ")">>,
  <<"a", "0", ".", "a", "\n", "a", "s", "=">>,
  <<"\"", "\n", "\"", " ", "a", "s", "\n", "(">>,
  <<"\"", "\\", "\"", "\"", "\n", "a", "(">>,
  <<"a", "a", "a", "a", "a", "-", "0", "\n", "a", "s">>,
  <<"\"", "a", " ", "a", " ", "a", "\"", " ", "a">>,
  <<"_", " ", "a", "s">>,
  <<"a", "-", "0", ".", "a", " ", "a">>,
  <<"a", "\"", "a", "a", "a", "a", "\"", "a">>,
  <<"\"", "a", "a", "\\">>,
  <<"\"", "a", " ", "a", " ", "a", "\\">>,
  <<"\"", "\n", "a", "a", "a", "a", "\"">>}

\* One or two characters of each class of the lexer.
MCChars == {"a", "0", " ", "\n", "\"", "\\", "-", ".", "("}

MCTexts == UNION {[1..n -> Chars] : n \in 0..MaxLength} \cup LongTexts
=============================================================================
