------------------------------- MODULE Lexer -------------------------------
(***************************************************************************)
(* The lexing goroutine (runtime/dsl/lexer.go), the token stream           *)
(* (tokens.go) and the parser as far as it drives them (ast.go).           *)
(*                                                                         *)
(*  - lex reads runes from LexBuf and posts tokens on an unbuffered        *)
(*    channel; at the end of the text or at an error it posts one last     *)
(*    token and closes the channel.                                        *)
(*  - tokenStream.next takes from a push-back buffer first; an error token *)
(*    is returned for ever after, and a goroutine drains the channel.      *)
(*  - parse peeks at the first token of a statement.  Within a statement   *)
(*    the parser takes up to three tokens at a time (a class is            *)
(*    id "." id), then accepts them, pushes them back or gives up; when    *)
(*    it gives up, ParseString drains the channel.  Which tokens it        *)
(*    accepts is not kept: it may accept or refuse any but an error.       *)
(*                                                                         *)
(* A step of the lexer makes one call of LexBuf.  Characters are           *)
(* one-element strings; "w" stands for a letter of two bytes.              *)
(***************************************************************************)
EXTENDS LexBuf, SequencesExt

CONSTANTS StreamSize    \* the capacity of the push-back buffer

ASSUME StreamSizeAssumption == StreamSize \in Nat /\ StreamSize >= 5

VARIABLES
  lexPc,      \* where the lexer is
  then,       \* where it goes after an unread
  line,       \* the line, as the code counts it
  hand,       \* the token that it posts
  posted,     \* history: the tokens that have been taken from the channel
  back,       \* tokenStream.buf[:idx]
  stuck,      \* tokenStream.err: the error token, or none
  at,         \* where the parser is
  look,       \* the tokens that next has returned and nobody has decided on
  refusals,   \* the times that look was pushed back since a token was accepted
  parsed      \* history: the tokens that the parser has accepted

lexVars == <<lexPc, then, line, hand, posted>>
streamVars == <<back, stuck>>
parserVars == <<at, look, refusals, parsed>>
vars == <<bufVars, lexVars, streamVars, parserVars>>

Blank == {" "}
Digit == {"0"}
Letter == {"a", "s"}
IdStart == Letter \cup {"@"}
IdRest == Letter \cup Digit \cup {"_"}
Break == Blank \cup {"\n", "(", ")", "."}
Single == {"\n", "(", ")", "=", ",", "."}
Keyword == {<<"a", "s">>}

\* len(text) counts bytes.
Bytes(s) == Len(s) + Cardinality({i \in DOMAIN s : s[i] = "w"})

NoToken == [type |-> "none"]

Init == /\ BufInit
        /\ lexPc = "skip" /\ then = "skip" /\ line = 1
        /\ hand = NoToken /\ posted = <<>>
        /\ back = <<>> /\ stuck = NoToken
        /\ at = "peek" /\ look = <<>> /\ refusals = 0 /\ parsed = <<>>

-----------------------------------------------------------------------------
(* The lexer *)

Goto(there) == lexPc' = there /\ UNCHANGED <<then, line, hand, posted>>

ReadAnd(there) == Read /\ Goto(there)

\* read and, as the next step, unread.
ReadBack(there) == /\ Read
                   /\ lexPc' = "unread"
                   /\ then' = there
                   /\ UNCHANGED <<line, hand, posted>>
Back == lexPc = "unread" /\ Unread /\ Goto(then)

\* The token that is posted; "from" is where it starts in the text.
Token(type, s, p) == [type |-> type, text |-> s, pos |-> p, line |-> line,
                      from |-> PositionOf(startPtr)]
Hold(token) == hand' = token /\ lexPc' = "post" /\ UNCHANGED <<then, line, posted>>

\* postToken
postToken(type) == Discard /\ Hold(Token(type, Preview, pos - Bytes(Preview)))

\* handleLexErr
HandleEof == Hold(Token("eof", <<>>, pos)) /\ UNCHANGED bufVars
HandleErr == Discard /\ Hold(Token("err", Preview, pos))

\* skipWhitespace, with its deferred discard
Skip == /\ lexPc = "skip"
        /\ \/ AtEof /\ Discard /\ Goto("eof")
           \/ ~AtEof /\ Ahead \in Blank /\ ReadAnd("skip")
           \/ ~AtEof /\ Ahead \notin Blank /\ ReadBack("token")
Token1 == lexPc = "token" /\ Discard /\ Goto("first")
AtEnd == lexPc = "eof" /\ HandleEof

\* The first rune of a token.  There is one: skipWhitespace has put it back.
First == /\ lexPc = "first"
         /\ ReadAnd(CASE Ahead \in Single -> "single"
                      [] Ahead = "\"" -> "string"
                      [] Ahead \in Digit \cup {"-"} -> "number"
                      [] OTHER -> "word")

PostSingle == /\ lexPc = "single"
              /\ postToken(IF Preview = <<"\n">> THEN "eol" ELSE "single")

\* readString
String == /\ lexPc = "string"
          /\ \/ AtEof /\ HandleErr
             \/ /\ ~AtEof
                /\ ReadAnd(CASE Ahead = "\\" -> "escape"
                             [] Ahead = "\"" -> "string_end"
                             [] OTHER -> "string")
Escape == /\ lexPc = "escape"
          /\ \/ AtEof /\ HandleEof
             \/ ReadAnd("string")
PostString == lexPc = "string_end" /\ postToken("string")

\* accept and acceptOne
Accept(here, chars, done) ==
  /\ lexPc = here
  /\ \/ AtEof /\ UNCHANGED bufVars /\ Goto(done)
     \/ ~AtEof /\ Ahead \in chars /\ ReadAnd(here)
     \/ ~AtEof /\ Ahead \notin chars /\ ReadBack(done)
AcceptOne(here, chars, yes, no) ==
  /\ lexPc = here
  /\ \/ AtEof /\ UNCHANGED bufVars /\ Goto(no)
     \/ ~AtEof /\ Ahead \in chars /\ ReadAnd(yes)
     \/ ~AtEof /\ Ahead \notin chars /\ ReadBack(no)

\* readNumber.  accept has found a digit if it has read one last.
Found == Preview # <<>> /\ Last(Preview) \in Digit
Number == \/ lexPc = "number" /\ Unread /\ Goto("sign")
          \/ AcceptOne("sign", {"-"}, "digits", "digits")
          \/ Accept("digits", Digit, "point")
          \/ Found /\ AcceptOne("point", {"."}, "fraction", "int")
          \/ Accept("fraction", Digit, "decimal")
          \/ lexPc = "int" /\ postToken("int")
          \/ lexPc = "decimal" /\ Found /\ postToken("number")
NoDigit == lexPc \in {"point", "decimal"} /\ ~Found /\ HandleErr

\* readKeywords: readUntilWhitespaceOrBreak, and the word is a keyword, or is
\* read again from its start as an identifier.
Word == /\ lexPc = "word"
        /\ \/ AtEof /\ UNCHANGED bufVars /\ Goto("keyword")
           \/ ~AtEof /\ Ahead \notin Break /\ ReadAnd("word")
           \/ ~AtEof /\ Ahead \in Break /\ ReadBack("keyword")

\* The position in the line is not reset.  A faulty variant discards the word.
DiscardWord == Discard /\ Goto("id")
ResetWord == Reset /\ Goto("id")
KeywordOrId == /\ lexPc = "keyword"
               /\ \/ Preview \in Keyword /\ postToken("keyword")
                  \/ Preview \notin Keyword /\ ResetWord
Identifier == \/ AcceptOne("id", IdStart, "id_rest", "unknown")
              \/ Accept("id_rest", IdRest, "id_end")
              \/ lexPc = "id_end" /\ postToken("id")
Unknown == lexPc = "unknown" /\ HandleErr

\* After the end of a line, once its token has been taken.
ColumnZero == 0
FirstColumn == 1
NewLine == /\ lexPc = "newline"
           /\ line' = line + 1
           /\ pos' = FirstColumn
           /\ lexPc' = "skip"
           /\ UNCHANGED <<text, fetched, buf, startPtr, readPtr, writePtr,
                          then, hand, posted>>

\* The deferred close of the channel.
Close == lexPc = "close" /\ Goto("closed") /\ UNCHANGED bufVars

LexStep == \/ Skip \/ Token1 \/ AtEnd \/ First \/ PostSingle
           \/ String \/ Escape \/ PostString \/ Number \/ NoDigit
           \/ Word \/ KeywordOrId \/ Identifier \/ Unknown
           \/ Back \/ NewLine \/ Close
Lex == LexStep /\ UNCHANGED <<streamVars, parserVars>>

\* The token in hand is taken from the channel.
Taken == /\ lexPc = "post"
         /\ posted' = Append(posted, hand)
         /\ lexPc' = CASE hand.type = "eol" -> "newline"
                       [] hand.type \in {"eof", "err"} -> "close"
                       [] OTHER -> "skip"
         /\ UNCHANGED <<bufVars, then, line, hand>>

-----------------------------------------------------------------------------
(* The token stream *)

\* What is left of the push-back buffer when next has taken from it.
TakeLast(s) == Front(s)

\* next returns t.
next(t) ==
  \/ stuck # NoToken /\ t = stuck /\ UNCHANGED <<bufVars, lexVars, streamVars>>
  \/ /\ stuck = NoToken /\ back # <<>>
     /\ t = Last(back)
     /\ back' = TakeLast(back)
     /\ UNCHANGED <<bufVars, lexVars, stuck>>
  \/ /\ stuck = NoToken /\ back = <<>>
     /\ Taken
     /\ t = hand
     /\ stuck' = IF t.type = "err" THEN t ELSE NoToken
     /\ UNCHANGED back
  \/ /\ stuck = NoToken /\ back = <<>>
     /\ lexPc = "closed"
     /\ t = [type |-> "eof"]
     /\ UNCHANGED <<bufVars, lexVars, streamVars>>

\* The order in which the parser pushes back: what it took first, last.
InOrder(tokens) == tokens
LastTakenFirst(tokens) == Reverse(tokens)

\* pushBack of the tokens looked at; it panics when the buffer is full.
PushBackAnd(there) ==
  /\ look' = <<>>
  /\ IF Len(back) + Len(look) <= StreamSize
     THEN back' = back \o LastTakenFirst(look) /\ at' = there
     ELSE at' = "panicked" /\ UNCHANGED back
  /\ UNCHANGED <<bufVars, lexVars, stuck, parsed>>

\* The goroutine that next starts at an error, and consumeTokens.
Draining == stuck # NoToken \/ at = "failed"
Drain == Draining /\ Taken /\ UNCHANGED <<streamVars, parserVars>>

-----------------------------------------------------------------------------
(* The parser *)

Types(tokens) == {tokens[k].type : k \in DOMAIN tokens}

\* A class or a cut takes up to three tokens before it decides.
Look == /\ at \in {"peek", "statement"}
        /\ Len(look) < (IF at = "peek" THEN 1 ELSE 3)
        /\ {"err", "eof"} \cap Types(look) = {}
        /\ \E t \in {stuck, hand, [type |-> "eof"]} \cup ToSet(back) :
             next(t) /\ look' = Append(look, t)
        /\ UNCHANGED <<at, refusals, parsed>>

\* peek in parse has the first token of a statement: an end or an error ends
\* the parse.  peek has pushed it back in any case.
PeekEnds == /\ at = "peek" /\ look # <<>>
            /\ PushBackAnd(CASE look[1].type = "eof" -> "parsed"
                             [] look[1].type = "err" -> "failed"
                             [] OTHER -> "statement")
            /\ UNCHANGED refusals

\* The parser accepts what it has looked at, of a statement that goes on or,
\* at the end of a line or of the text, does not.
AcceptTokens == /\ at = "statement" /\ look # <<>>
                /\ "err" \notin Types(look)
                /\ "eof" \in Types(look) => Len(look) = 1
                /\ parsed' = parsed \o look
                /\ look' = <<>>
                /\ refusals' = 0
                /\ at' = IF look[1].type \in {"eol", "eof"} THEN "peek" ELSE "statement"
                /\ UNCHANGED <<bufVars, lexVars, streamVars>>

\* The parser pushes back what it has looked at and tries something else: an
\* argument, then the end of the line, then a peek for the error message.
Refuse == /\ at = "statement" /\ look # <<>>
          /\ refusals < 3
          /\ refusals' = refusals + 1
          /\ PushBackAnd("statement")

\* The parser returns an error; ParseString goes on to consumeTokens.
GiveUp == /\ at = "statement" /\ (look # <<>> \/ refusals > 0)
          /\ at' = "failed"
          /\ UNCHANGED <<bufVars, lexVars, streamVars, look, refusals, parsed>>

\* consumeTokens ends when the channel is closed.  A faulty variant does not
\* wait for that.
AtOnce == TRUE
ChannelDrained == lexPc = "closed"

\* parse returns, after consumeTokens if it failed.
Return == /\ at = "parsed" \/ (at = "failed" /\ ChannelDrained)
          /\ at' = IF at = "parsed" THEN "returned" ELSE "returned_error"
          /\ UNCHANGED <<bufVars, lexVars, streamVars, look, refusals, parsed>>

Parse == Look \/ PeekEnds \/ AcceptTokens \/ Refuse \/ GiveUp \/ Return

Returned == at \in {"returned", "returned_error"}

\* The program goes on without its parser.
Finished == Returned /\ UNCHANGED vars

Next == Lex \/ Drain \/ Parse \/ Finished

Spec == Init /\ [][Next]_vars

\* The two goroutines run, and so does the one that drains.
FairSpec == Spec /\ WF_vars(Lex) /\ WF_vars(Drain) /\ WF_vars(Parse)

-----------------------------------------------------------------------------
(* Properties *)

\* Every variable has its type.
TypeOK ==
  /\ BufTypeOK
  /\ lexPc \in {"skip", "token", "eof", "first", "single", "string", "escape",
                 "string_end", "number", "sign", "digits", "point", "fraction",
                 "int", "decimal", "word", "keyword", "id", "id_rest", "id_end",
                 "unknown", "unread", "post", "newline", "close", "closed"}
  /\ line \in 1..(Len(text) + 1)
  /\ Len(back) <= StreamSize
  /\ at \in {"peek", "statement", "parsed", "failed", "returned", "returned_error",
              "panicked"}
  /\ Len(look) <= 3
  /\ refusals \in 0..3

\* The ring implements the window: whatever the lexer reads, puts back, reads
\* again and lets go of, and wherever in the ring the pointers wrap around.  What preview and consume
\* give is the content of the window.
ImplementsWindow == Abstract!Spec /\ [](Preview = Abstract!Content)

\* The characters of the text after the first m and up to the n-th are blanks.
BlankBetween(m, n) == \A i \in (m + 1)..n : text[i] \in Blank

End(k) == posted[k].from + Len(posted[k].text)

\* Something in the text did not fit into the ring: a token, a string that the
\* end of the text cuts short, or a run of characters that is looked ahead over.
Overrun ==
  \/ \E k \in DOMAIN posted :
       \/ Len(posted[k].text) = Size - 1
       \/ posted[k].type = "eof" /\ Len(text) - posted[k].from = Size - 1
  \/ \E i \in 1..(Len(text) - Size + 2) :
       \A k \in i..(i + Size - 2) : text[k] \notin Break \ {"."}

\* The tokens cover the text: none begins before the end of the one before,
\* between two of them, and before the first, there are only blanks, each has
\* the text of its place, and the token of the end is posted at the end of the
\* text.  Left out are texts that overran the ring, and the text that ends in a
\* backslash within a string, which is taken for an end without a string.
NoCharacterLost ==
  Overrun \/ \A k \in DOMAIN posted :
    LET before == IF k = 1 THEN 0 ELSE End(k - 1)
    IN  /\ before <= posted[k].from
        /\ BlankBetween(before, posted[k].from)
        /\ posted[k].type # "err" => posted[k].text = SubSeq(text, posted[k].from + 1, End(k))
        /\ posted[k].type = "eof" =>
             posted[k].from = Len(text) \/ text[Len(text)] = "\\"

LineAt(n) == 1 + Cardinality({i \in 1..n : text[i] = "\n"})
ColumnAt(n) == 1 + Cardinality({i \in 1..n : LineAt(i) = LineAt(n) /\ text[i] # "\n"})

\* Nothing before token k, nor k itself, disturbs the counts: an identifier,
\* whose word is counted twice (lexbuf.go:88), on the same line; a letter of
\* two bytes (lexer.go:94); a string over several lines (lexer.go:174), or one
\* that overran the ring and may have been.
Undisturbed(k) ==
  \A j \in 1..k : /\ posted[j].type = "id" => posted[j].line # posted[k].line
                  /\ "w" \notin ToSet(posted[j].text)
                  /\ posted[j].type = "string" =>
                       "\n" \notin ToSet(posted[j].text) /\ Len(posted[j].text) < Size - 1

\* A token carries its line and its position in it, over which the parser
\* reports its errors.
PositionExact ==
  \A k \in DOMAIN posted :
    (posted[k].type \notin {"eof", "err"} /\ Undisturbed(k)) =>
      /\ posted[k].line = LineAt(posted[k].from)
      /\ posted[k].pos = ColumnAt(posted[k].from)

\* Whatever the parser takes and puts back, it accepts the tokens in the order
\* of the text, each once; when it returns without an error, it has accepted
\* them all.  The push-back buffer never overflows (tokens.go:52), not even when
\* the parser puts back an error that it will be given again.
ParserSeesAllTokens ==
  /\ at # "panicked"
  /\ IsPrefix(parsed, posted)
  /\ at \in {"parsed", "returned"} =>
       /\ stuck = NoToken
       /\ \A k \in DOMAIN posted : k <= Len(parsed) \/ posted[k].type = "eof"

\* Wherever the parser gives up, the parse returns and the lexing goroutine
\* comes to its end.
BothEnd == <>(Returned /\ lexPc = "closed")
=============================================================================
