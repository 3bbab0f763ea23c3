-------------------------------- MODULE Pull --------------------------------
(***************************************************************************)
(* The iterators that work in the goroutine of their caller, chained as    *)
(* these statements chain them (runtime.go, append, cut and join):         *)
(*                                                                         *)
(*     [cut i]  [join i]  append k to i  [cut i]  [join i]  sink i         *)
(*                                                                         *)
(* with iterator.Concat (interceptor.go), Cutter (cut.go, entries/cut.go)  *)
(* and Joiner (join.go).  A caller of Next goes through them from the      *)
(* inside out.                                                             *)
(*                                                                         *)
(* The callers are the sink, in Func.Iterate, and, when the sink has met   *)
(* an error, the goroutines of one or two Drains.  Two Drains call Next at *)
(* once, and the iterators keep their state without a lock.                *)
(*                                                                         *)
(* Source "i" and source "k" yield entries and then end.  A query may fail *)
(* in place of a row, close and end: when it cannot read the row it has,   *)
(* it answers with the error; when it cannot come to the next row, with    *)
(* the end (queries.go).  The message of an entry is a sequence of lines,  *)
(* a line a sequence of words; << >> is an entry with no message and       *)
(* << << >> >> one with an empty message.                                  *)
(***************************************************************************)
EXTENDS Integers, Sequences, FiniteSets, SequencesExt

CONSTANTS
  Sources,        \* the sources: functions from "i" and "k" to records [lines,
                  \* first, fails] of the messages, the index of the first, and
                  \* where the source fails after them: "never", in "scan" or
                  \* in "next"
  Scripts,        \* records [cut, sets, join, patterns]: cut and join say
                  \* where the statement stands, "none", "i" or "all"
  Compiles,       \* the patterns that compile
  Matches(_, _)   \* whether a pattern matches a message

Message == "@message"   \* entries.StandardMessageField
Src == {"i", "k"}
Caller == {"sink", "drain1", "drain2"}

\* Channels count their entries from 0 and queries from 1.
ASSUME SourcesAssumption ==
  \A sources \in Sources : \A s \in Src :
    /\ sources[s].lines \in Seq(Seq(Seq(STRING)))
    /\ sources[s].first \in {0, 1}
    /\ sources[s].fails \in {"never", "scan", "next"}

\* A cut splits a message that has not been joined; it maps fields to indices.
ASSUME ScriptAssumption ==
  \A s \in Scripts : /\ s.cut \in {"none", "i", "all"} /\ s.join \in {"none", "i", "all"}
                     /\ s.join = "i" => s.cut # "all"
                     /\ \A f \in DOMAIN s.sets : s.sets[f] \in Int
ASSUME CutAssumption ==
  \A sources \in Sources, script \in Scripts : \A s \in Src :
    script.cut \in {"all", s} =>
      \A k \in DOMAIN sources[s].lines : Len(sources[s].lines[k]) <= 1

VARIABLES
  script,     \* the statements
  collector,  \* the map of the cut from indices to fields
  source,     \* the sources
  taken,      \* taken[s]: the entries taken from source s
  failed,     \* the sources that have failed
  concatIdx,  \* Concat: the entries taken from its first iterator
  joiner,     \* Joiner: [start, msg, idx]
  pc,         \* pc[c]: where caller c is
  res,        \* res[c]: the result on its way to c, [kind, entry, idx]
  final,      \* final[c]: the result that c makes in finalizeEntry
  written,    \* the entries and indices that the sink has written
  result,     \* "none" before the sink returns, then "ok" or "error"
  panicked    \* the process has been ended by the Go runtime

inputVars == <<script, collector, source>>
sinkVars == <<written, result>>
vars == <<inputVars, taken, failed, concatIdx, joiner, pc, res, final, sinkVars,
          panicked>>

-----------------------------------------------------------------------------
(* Entries *)

Field == (UNION {DOMAIN s.sets : s \in Scripts}) \ {Message}
Unset == "unset"

\* ids are the source lines of an entry.
Entry(ids, msg) == [ids |-> ids, msg |-> msg, fields |-> [f \in Field |-> Unset]]
NoEntry == Entry(<<>>, <<>>)

Result(kind, entry, idx) == [kind |-> kind, entry |-> entry, idx |-> idx]
End == Result("end", NoEntry, -1)
Err == Result("error", NoEntry, -1)

\* Runtime.Execute calls Map for each field, in the random order of a Go map:
\* of the fields with one index, any may be the one that is kept.
Collectors(sets) ==
  {c \in [{sets[f] : f \in DOMAIN sets} -> DOMAIN sets] :
     \A i \in DOMAIN c : sets[c[i]] = i}

\* The fields that c maps the word at position p of n words to: by its
\* index, which counts from 0, and by its negative index.
\* Faulty variant: the last word has index 0.
OffByOne(c, p, n) == {c[i] : i \in {p - 1, p - n} \cap DOMAIN c}
FieldsAt(c, p, n) == {c[i] : i \in {p - 1, p - 1 - n} \cap DOMAIN c}

\* The loop of the collector of CutCollectSpec: what the words up to position p
\* leave in its buffer, those that are mapped to no field.
Remaining(c, words) ==
  LET buf[p \in 0..Len(words)] ==
        IF p = 0 THEN <<>>
        ELSE IF FieldsAt(c, p, Len(words)) = {} THEN Append(buf[p - 1], words[p])
        ELSE buf[p - 1]
  IN  buf[Len(words)]

\* The collector and what Cut does with the rest: what is mapped to the message
\* field is overwritten by it.
Collect(c, words, entry) ==
  LET n == Len(words)
      set(f) == {p \in 1..n : f \in FieldsAt(c, p, n)}
  IN  [entry EXCEPT
        !.msg = <<Remaining(c, words)>>,
        !.fields = [f \in Field |-> IF set(f) = {} THEN @[f]
                                    ELSE words[CHOOSE p \in set(f) : TRUE]]]

\* entries.Cut, for the field @message
Cut(entry) == IF entry.msg = <<>> THEN entry ELSE Collect(collector, entry.msg[1], entry)

\* Cutter.  Cut cannot fail: AsString answers for every field there is.
Cutter(where, r) == IF script.cut = where /\ r.kind = "entry"
                    THEN [r EXCEPT !.entry = Cut(@)] ELSE r

-----------------------------------------------------------------------------
(* The iterators *)

Init == /\ script \in Scripts
        /\ collector \in Collectors(script.sets)
        /\ source \in Sources
        /\ taken = [s \in Src |-> 0]
        /\ failed = {}
        /\ concatIdx = 0
        /\ joiner = [start |-> NoEntry, msg |-> <<<<>>>>, idx |-> 0]
        /\ pc = [c \in Caller |-> IF c = "sink" THEN "base" ELSE "idle"]
        /\ res = [c \in Caller |-> End]
        /\ final = [c \in Caller |-> End]
        /\ written = <<>>
        /\ result = "none"
        /\ panicked = FALSE

At(c, here, there) == pc[c] = here /\ pc' = [pc EXCEPT ![c] = there]
Gives(c, r) == res' = [res EXCEPT ![c] = r]

\* What Next of source s returns, and what it changes.  A query counts the
\* row that it fails to read.
Fails(s) == /\ taken[s] = Len(source[s].lines)
            /\ source[s].fails # "never" /\ s \notin failed
Exhausted(s) == taken[s] = Len(source[s].lines) /\ ~Fails(s)
Outcome(s) ==
  LET k == taken[s] + 1
  IN  IF k <= Len(source[s].lines)
      THEN Result("entry", Entry(<<<<s, k>>>>, source[s].lines[k]),
                  source[s].first + taken[s])
      ELSE IF Fails(s) /\ source[s].fails = "scan" THEN Err ELSE End
Advance(s) ==
  /\ taken' = IF Outcome(s).kind = "entry" THEN [taken EXCEPT ![s] = @ + 1] ELSE taken
  /\ failed' = IF Fails(s) THEN failed \cup {s} ELSE failed

\* Where a result goes from the first iterator of Concat, from Concat, and
\* from Joiner.
FromBase == IF script.join = "i" THEN "joiner" ELSE "concat"
FromConcat == IF script.join = "all" THEN "joiner" ELSE "return"
FromJoiner == IF script.join = "all" THEN "return" ELSE "concat"

\* The innermost call: base.Next.
Base(c) == /\ At(c, "base", FromBase)
           /\ Gives(c, Cutter("i", Outcome("i")))
           /\ Advance("i")
           /\ UNCHANGED <<inputVars, concatIdx, joiner, final, sinkVars, panicked>>

\* Faulty variant: every error is taken for the end.
AnyError(r) == r.kind # "entry"
IsEnd(r) == r.kind = "end"

\* e, i + idx.  Faulty variant: the index of the second iterator is kept.
OwnIndex(r) == r
Shifted(r) == IF r.kind = "entry" THEN [r EXCEPT !.idx = @ + concatIdx] ELSE r

\* idx++.
Counted == concatIdx + 1

\* Concat with what base.Next has returned.
ConcatBase(c) == /\ ~IsEnd(res[c])
                 /\ At(c, "concat", FromConcat)
                 /\ Gives(c, Cutter("all", res[c]))
                 /\ concatIdx' = IF res[c].kind = "entry" THEN Counted ELSE concatIdx
                 /\ UNCHANGED <<inputVars, taken, failed, joiner, final, sinkVars, panicked>>

ConcatNext(c) == /\ IsEnd(res[c])
                 /\ At(c, "concat", FromConcat)
                 /\ Gives(c, Cutter("all", Shifted(Outcome("k"))))
                 /\ Advance("k")
                 /\ UNCHANGED <<inputVars, concatIdx, joiner, final, sinkVars, panicked>>

\* Patterns that do not compile are dropped (joinOpts.WithStartRegex).
StartRegex == script.patterns \cap Compiles

IsStart(entry) == entry.msg # <<>> /\ \E p \in StartRegex : Matches(p, entry.msg)

\* Faulty variant of the check for nil: there always is an entry to return.
AlwaysDefined == TRUE
StartDefined == joiner.start # NoEntry

\* j.setStart; an entry with no message keeps the message of the joiner.
SetStart(j, r) == [start |-> r.entry, idx |-> r.idx,
                   msg |-> IF r.entry.msg = <<>> THEN j.msg ELSE r.entry.msg]

\* j.appendMessage; an entry with no message is dropped with its fields, and
\* only ids tells that the message has taken it in.
AppendMessage(r) == [joiner EXCEPT !.start.ids = @ \o r.entry.ids,
                                   !.msg = @ \o r.entry.msg]

\* What finalizeEntry leaves.  Faulty variant: the message is kept.
MessageKept == [start |-> NoEntry, msg |-> joiner.msg, idx |-> -1]
Cleared == [start |-> NoEntry, msg |-> <<<<>>>>, idx |-> -1]

\* setStart follows finalizeEntry.  Faulty variant: the other way round.
StartLost(r) == Cleared
AfterFinal(r) == IF r.kind = "entry" THEN SetStart(Cleared, r) ELSE Cleared

\* One turn of the loop of nextFunc with the result of j.iter.Next: the entry
\* is set or appended and Next is called again.
JoinerCollect(c) ==
  /\ res[c].kind = "entry"
  /\ StartDefined => ~IsStart(res[c].entry)
  /\ At(c, "joiner", "base")
  /\ joiner' = IF StartDefined THEN AppendMessage(res[c]) ELSE SetStart(joiner, res[c])
  /\ UNCHANGED <<inputVars, taken, failed, concatIdx, res, final, sinkVars,
                 panicked>>

\* The error is returned when no message is being collected.
JoinerFails == FromJoiner
JoinerErr(c) ==
  /\ res[c].kind # "entry"
  /\ ~StartDefined
  /\ At(c, "joiner", JoinerFails)
  /\ UNCHANGED <<inputVars, taken, failed, concatIdx, joiner, res, final, sinkVars,
                 panicked>>

\* A message is complete: at an error, which is dropped, or at the start of
\* the next.
JoinerFlush(c) ==
  /\ StartDefined
  /\ res[c].kind = "entry" => IsStart(res[c].entry)
  /\ At(c, "joiner", "finalize")
  /\ UNCHANGED <<inputVars, taken, failed, concatIdx, joiner, res, final, sinkVars,
                 panicked>>

\* finalizeEntry takes j.start and writes the message into its map.  It panics
\* if another caller has set j.start to nil, and may end the process if another
\* caller is writing into the same map.
Finalize(c) ==
  /\ At(c, "finalize", "clear")
  /\ final' = [final EXCEPT ![c] =
                 Result("entry", [joiner.start EXCEPT !.msg = joiner.msg], joiner.idx)]
  /\ \/ panicked' = (joiner.start = NoEntry)
     \/ /\ \E d \in Caller \ {c} : pc[d] = "clear"
        /\ panicked' = TRUE
  /\ UNCHANGED <<inputVars, taken, failed, concatIdx, joiner, res, sinkVars>>

\* It empties the joiner and returns the entry; nextFunc stores the start of the
\* next message.
Clear(c) ==
  /\ At(c, "clear", FromJoiner)
  /\ Gives(c, final[c])
  /\ joiner' = AfterFinal(res[c])
  /\ UNCHANGED <<inputVars, taken, failed, concatIdx, final, sinkVars, panicked>>

-----------------------------------------------------------------------------
(* The callers *)

\* The sink writes the entry and calls Next again.
Write == /\ res["sink"].kind = "entry"
         /\ At("sink", "return", "base")
         /\ written' = Append(written, [entry |-> res["sink"].entry,
                                        idx |-> res["sink"].idx])
         /\ UNCHANGED <<inputVars, taken, failed, concatIdx, joiner, res, final,
                        result, panicked>>

\* The sink returns r, and the goroutines in ds start to drain.
SinkReturns(r, ds) ==
  /\ pc["sink"] = "return"
  /\ pc' = [c \in Caller |-> IF c \in ds THEN "base"
                             ELSE IF c = "sink" THEN "stopped" ELSE pc[c]]
  /\ result' = r
  /\ UNCHANGED <<inputVars, taken, failed, concatIdx, joiner, res, final, written,
                 panicked>>

\* The write fails: Iterate drains the iterator, and the sink does it again.
WriteFails == res["sink"].kind = "entry" /\ SinkReturns("error", {"drain1", "drain2"})

\* Next fails: Iterate returns the error, and the sink drains.
\* Faulty variant: the sink returns at once.
NoDrain == {}
DrainsAfterError == {"drain1"}
NextFails == res["sink"].kind = "error" /\ SinkReturns("error", DrainsAfterError)
NextEnds == res["sink"].kind = "end" /\ SinkReturns("ok", {})

\* Iterate in the goroutine of a Drain: an entry is dropped, an error, which
\* is not looked at, ends it.
DrainStep(c) ==
  /\ c # "sink"
  /\ At(c, "return", IF res[c].kind = "entry" THEN "base" ELSE "stopped")
  /\ UNCHANGED <<inputVars, taken, failed, concatIdx, joiner, res, final, sinkVars,
                 panicked>>

Step(c) == /\ ~panicked
           /\ \/ Base(c) \/ ConcatBase(c) \/ ConcatNext(c)
              \/ JoinerCollect(c) \/ JoinerErr(c) \/ JoinerFlush(c)
              \/ Finalize(c) \/ Clear(c)
              \/ c = "sink" /\ (Write \/ WriteFails \/ NextFails \/ NextEnds)
              \/ DrainStep(c)

Terminated == /\ panicked \/ \A c \in Caller : pc[c] \in {"idle", "stopped"}
              /\ UNCHANGED vars

Next == (\E c \in Caller : Step(c)) \/ Terminated

Spec == Init /\ [][Next]_vars
FairSpec == Spec /\ \A c \in Caller : WF_vars(Step(c))

-----------------------------------------------------------------------------
(* Properties *)

TypeOK ==
  /\ taken \in [Src -> Nat] /\ \A s \in Src : taken[s] <= Len(source[s].lines)
  /\ failed \subseteq {s \in Src : source[s].fails # "never"}
  /\ concatIdx \in Nat
  /\ joiner.idx >= -1 /\ joiner.msg # <<>>
  /\ pc \in [Caller -> {"idle", "base", "joiner", "concat", "finalize", "clear",
                        "return", "stopped"}]
  /\ \A c \in Caller : res[c].kind \in {"entry", "end", "error"}
  /\ result \in {"none", "ok", "error"}
  /\ panicked \in BOOLEAN

\* The lines of the two sources, in the order in which append forwards them.
Stream == [k \in 1..Len(source["i"].lines) |-> <<"i", k>>] \o
          [k \in 1..Len(source["k"].lines) |-> <<"k", k>>]

\* The entry that a line is when it reaches the joiner.
Line(id) == LET e == Entry(<<id>>, source[id[1]].lines[id[2]])
            IN  IF script.cut = "all" \/ script.cut = id[1] THEN Cut(e) ELSE e

\* A start line, by the documentation of Joiner.
StartLine(id) == /\ Line(id).msg # <<>>
                 /\ \E p \in script.patterns \cap Compiles : Matches(p, Line(id).msg)

Joined(s) == script.join = "all" \/ script.join = s

\* The place in the stream of the last line of message m.
Place(id) == IF id[1] = "i" THEN id[2] ELSE Len(source["i"].lines) + id[2]
LastPlace(m) == IF m = 0 THEN 0 ELSE Place(Last(written[m].entry.ids))

\* No line is skipped, repeated or moved by append, cut and join: each message
\* has taken in the lines of the stream from where the one before it stopped, the
\* last one the last line of the stream if the sink succeeds.  The stream ends
\* for a query where the query fails; and what a message keeps of a line is for
\* MessagesAsPromised and CutKeepsWords to say: of one with no message, nothing.
LinesInOrder ==
  /\ \A m \in DOMAIN written :
       LET ids == written[m].entry.ids
           before == LastPlace(m - 1)
       IN  /\ ids # <<>>
           /\ \A k \in DOMAIN ids : /\ before + k \in DOMAIN Stream
                                   /\ ids[k] = Stream[before + k]
  /\ result = "ok" => LastPlace(Len(written)) = Len(Stream)

\* The messages are those that join promises (join.go:8-11): only the first
\* line of a message is a start line, and a message begins where there is one,
\* at the first line of its input, or where a failure of the input has cut it.
\* Its text is that of its own lines, in order, with an empty line for a first
\* one without a message: nothing of an earlier message is left in the joiner.
OneStartLine(ids) == \A k \in 2..Len(ids) : ~StartLine(ids[k])
MayBegin(m, id) == \/ m = 1 \/ StartLine(id) \/ ~Joined(id[1])
                   \/ id = <<"k", 1>> /\ source["i"].fails = "scan"
TextOf(ids) ==
  LET msgs == [k \in DOMAIN ids |-> Line(ids[k]).msg]
  IN  (IF Joined(ids[1][1]) /\ msgs[1] = <<>> THEN <<<<>>>> ELSE <<>>) \o FlattenSeq(msgs)

MessageBounds ==
  \A m \in DOMAIN written : /\ OneStartLine(written[m].entry.ids)
                             /\ MayBegin(m, written[m].entry.ids[1])
MessagesAsPromised ==
  /\ MessageBounds
  /\ \A m \in DOMAIN written : written[m].entry.msg = TextOf(written[m].entry.ids)

\* The position of the word that index i names among n words, the positions that
\* the cut maps, and the fields that share their index with another one.
WordAt(i, n) == IF i < 0 THEN n + i + 1 ELSE i + 1
Mapped(sets, n) == {WordAt(sets[f], n) : f \in DOMAIN sets}
Ambiguous(sets, f) == \E g \in DOMAIN sets \ {f} : sets[g] = sets[f]

\* Field f has the word that is mapped to it, if there is one; of the fields with
\* one index only one has it.
Holds(v, words, sets, f) ==
  LET p == WordAt(sets[f], Len(words))
  IN  \/ v = (IF p \in DOMAIN words THEN words[p] ELSE Unset)
      \/ Ambiguous(sets, f) /\ v = Unset

\* The rest has the words that are not mapped, in their order.
Keeps(rest, words, mapped) ==
  /\ Len(rest) = Cardinality(DOMAIN words \ mapped)
  /\ \A p \in DOMAIN words \ mapped : rest[Cardinality((1..p) \ mapped)] = words[p]

WasCut(id) == script.cut \in {"all", id[1]}
HasMessage(id) == source[id[1]].lines[id[2]] # <<>>
WordsOf(id) == IF HasMessage(id) THEN source[id[1]].lines[id[2]][1] ELSE <<>>

\* Where the text of a message has its k-th entry, if that one has a message: the
\* entries with a message have a line each, and so has the first of a joined one.
LineOfMessage(ids, k) ==
  Cardinality({j \in 1..k : HasMessage(ids[j]) \/ (j = 1 /\ Joined(ids[1][1]))})

\* A cut takes out of a line the words it maps to fields and no other: each entry
\* of a written message that was cut has its line there, with the other words in
\* their order.  The fields of a written message are those of its first entry:
\* each has its word, unless it is the message field, which the rest overwrites.
\* The fields of the further entries are not written: join drops them, and with
\* them the words that the cut has moved there (join.go:65-70).
CutKeepsWords ==
  \A m \in DOMAIN written :
    LET entry == written[m].entry
        words(k) == WordsOf(entry.ids[k])
    IN  /\ WasCut(entry.ids[1]) =>
             \A f \in DOMAIN script.sets \ {Message} :
               Holds(entry.fields[f], words(1), script.sets, f)
        /\ \A k \in DOMAIN entry.ids :
             WasCut(entry.ids[k]) /\ HasMessage(entry.ids[k]) =>
               Keeps(entry.msg[LineOfMessage(entry.ids, k)], words(k),
                     Mapped(script.sets, Len(words(k))))

\* Where both sources count from zero, as channels do, an entry keeps the index
\* of its first line in the appended stream: append shifts the indices of the
\* second source, and a joiner answers with the one it saw first.  A query
\* counts from one, and a joiner before the append has fewer entries than
\* lines: there two entries can have one index.
IndexExact ==
  script.join # "i" /\ (\A s \in Src : source[s].first = 0) =>
    \A m \in DOMAIN written :
      LET k == written[m].idx + 1
      IN  k \in DOMAIN Stream /\ Stream[k] = written[m].entry.ids[1]

\* The error of a row that could not be read reaches the result of the sink,
\* unless a joiner has taken it for the end of the message it was collecting
\* (join.go:86-90): then a line came before it.  A query that cannot come to its
\* next row makes no error: its iterator does not ask rows.Err and says that it
\* has ended (queries.go:38), and the sink succeeds without the rows behind.
FailureReported ==
  result = "ok" =>
    \A s \in failed :
      source[s].fails = "scan" =>
        /\ Joined(s)
        /\ \E m \in DOMAIN written :
             \E id \in Range(written[m].entry.ids) : Joined(id[1])

\* The process can only panic while two Drains use one joiner.
PanicOnlyInRace ==
  panicked => /\ script.join # "none"
              /\ pc["drain1"] # "idle" /\ pc["drain2"] # "idle"

\* After an error everything upstream is read to its end, so that its
\* goroutines and queries are released, unless the process panics.
UpstreamReleased == (result = "error") ~> (panicked \/ \A s \in Src : Exhausted(s))
=============================================================================
