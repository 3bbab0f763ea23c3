----------------------------- MODULE PullProofs -----------------------------
(***************************************************************************)
(* Proofs about the chain of append, cut and join for every number of      *)
(* lines, every text and every matching of patterns: no line is lost,      *)
(* repeated or moved, messages begin and end where they may and have the   *)
(* text of their lines, a cut takes out only the words that it maps,       *)
(* indices and the errors of rows are passed on, and only two Drains can   *)
(* make the process panic.                                                 *)
(***************************************************************************)
EXTENDS Pull, SequenceTheorems, FiniteSetTheorems, WellFoundedInduction, TLAPS

-----------------------------------------------------------------------------
(* The inductive invariant *)

LineId == Src \X Nat

Total(s) == Len(source[s].lines)

\* The lines that have been taken from both sources.
AllTaken == taken["i"] + taken["k"]

\* LastPlace, and the lines that have been written.
Places == [m \in 0..Len(written) |-> LastPlace(m)]
AllWritten == Places[Len(written)]

\* StartLine and Line, as a set and a function.
Starts == {id \in LineId : StartLine(id)}
LineOf == [id \in LineId |-> Line(id)]

CallerState == {"idle", "base", "joiner", "concat", "finalize", "clear", "return", "stopped"}

IsSequence(s) == \E S : s \in Seq(S)

TypeInv ==
  /\ script \in Scripts /\ source \in Sources
  /\ taken \in [Src -> Nat] /\ \A s \in Src : taken[s] <= Total(s)
  /\ failed \subseteq Src
  /\ concatIdx \in Nat
  /\ pc \in [Caller -> CallerState]
  /\ DOMAIN res = Caller /\ DOMAIN final = Caller
  /\ IsSequence(written)
  /\ result \in {"none", "ok", "error"}
  /\ panicked \in BOOLEAN

\* The drains start when the sink has stopped.  With at most one of them, a
\* message that is about to be returned is one that is being collected.
PhaseInv ==
  /\ pc["sink"] # "idle"
  /\ result = "none" <=> pc["sink"] # "stopped"
  /\ result \in {"none", "ok"} => pc["drain1"] = "idle" /\ pc["drain2"] = "idle"
  /\ (pc["drain1"] = "idle" \/ pc["drain2"] = "idle") =>
       \A c \in Caller : pc[c] = "finalize" => StartDefined
  /\ script.join = "none" => \A c \in Caller : pc[c] \notin {"joiner", "finalize", "clear"}

\* The ids are those of the lines of the stream after the first a up to b.
Covers(ids, a, b) ==
  /\ ids \in Seq(LineId) /\ Len(ids) = b - a
  /\ \A k \in 1..(b - a) : ids[k] = Stream[a + k]

\* MayBegin, for a message that begins after the first a lines of the stream.
MayBeginAfter(a, id) == \/ a = 0 \/ id \in Starts \/ ~Joined(id[1])
                        \/ id = <<"k", 1>> /\ source["i"].fails = "scan"

NoOtherStart(ids) == \A k \in 2..Len(ids) : ids[k] \notin Starts

FromZero == script.join # "i" /\ \A s \in Src : source[s].first = 0

\* What has been written: each message continues where the one before stopped.
WrittenInv ==
  /\ Places \in [0..Len(written) -> 0..Len(Stream)] /\ Places[0] = 0
  /\ \A m \in 1..Len(written) :
       /\ Places[m - 1] < Places[m]
       /\ Covers(written[m].entry.ids, Places[m - 1], Places[m])
       /\ NoOtherStart(written[m].entry.ids)
       /\ MayBeginAfter(Places[m - 1], written[m].entry.ids[1])
       /\ FromZero => written[m].idx = Places[m - 1]
  /\ \A p \in 1..AllWritten : \E m \in 1..Len(written) :
       \E k \in 1..Len(written[m].entry.ids) : written[m].entry.ids[k] = Stream[p]

SourceInv ==
  /\ \A s \in failed : source[s].fails # "never" /\ taken[s] = Total(s)
  /\ (taken["k"] > 0 \/ "k" \in failed) => Exhausted("i")

-----------------------------------------------------------------------------
(* While the sink runs: what is on its way through the iterators *)

R == res["sink"]
Pc == pc["sink"]

\* A result from the sources has not been through the joiner; or it has been.
FreshAt == Pc \in {"joiner", "finalize", "clear"} \/ (Pc = "concat" /\ script.join # "i")
MessageAt == Pc = "return" \/ (Pc = "concat" /\ script.join = "i")

MessageIds == IF Pc = "clear" THEN final["sink"].entry.ids
              ELSE IF MessageAt /\ R.kind = "entry" THEN R.entry.ids ELSE <<>>
JoinerIds == IF Pc # "clear" /\ StartDefined THEN joiner.start.ids ELSE <<>>
FreshIds == IF FreshAt /\ R.kind = "entry" THEN R.entry.ids ELSE <<>>

MessageEnd == AllWritten + Len(MessageIds)
JoinerEnd == MessageEnd + Len(JoinerIds)

\* The message on its way to the sink, the one that is being collected and the
\* line that has just come are what has been taken and not been written.
FlowInv == /\ Covers(MessageIds, AllWritten, MessageEnd)
           /\ Covers(JoinerIds, MessageEnd, JoinerEnd)
           /\ Covers(FreshIds, JoinerEnd, AllTaken)

ShapeInv ==
  /\ R = Result(R.kind, R.entry, R.idx) /\ R.kind \in {"entry", "end", "error"}
  /\ joiner = [start |-> joiner.start, msg |-> joiner.msg, idx |-> joiner.idx]
  /\ joiner.start = [ids |-> joiner.start.ids, msg |-> joiner.start.msg,
                     fields |-> joiner.start.fields]
  /\ Pc = "clear" => final["sink"] = Result("entry", final["sink"].entry, final["sink"].idx)

NonEmptyInv ==
  /\ StartDefined => Len(joiner.start.ids) >= 1
  /\ Pc = "clear" => Len(final["sink"].entry.ids) >= 1
  /\ (MessageAt /\ R.kind = "entry") => Len(R.entry.ids) >= 1
  /\ (FreshAt /\ R.kind = "entry") => Len(R.entry.ids) = 1

\* Where the joiner can hold a message.
JoinInv ==
  /\ script.join = "none" => ~StartDefined
  /\ script.join = "i" =>
       /\ (taken["k"] > 0 \/ "k" \in failed \/ (Pc = "concat" /\ R.kind # "entry"))
            => ~StartDefined
       /\ (Pc \in {"joiner", "finalize", "clear"} /\ R.kind = "entry")
            => taken["k"] = 0 /\ "k" \notin failed

\* What an end and an error say of the sources.
EndInv ==
  /\ (R.kind = "end" /\ (FreshAt \/ MessageAt)) => Exhausted("i")
  /\ (R.kind = "end" /\ (Pc = "return" \/ (script.join = "all" /\ Pc \in {"joiner", "finalize", "clear"})))
       => Exhausted("k")
  /\ (R.kind = "end" /\ Pc = "return") => ~StartDefined
  /\ (R.kind = "error" /\ FreshAt) =>
       /\ taken["i"] = Total("i")
       /\ \/ taken["k"] = 0 /\ "i" \in failed /\ source["i"].fails = "scan"
          \/ taken["k"] = Total("k")

\* An error is on its way to the sink, or a joiner has taken it for an end.
ErrorAhead == Pc \in {"joiner", "concat", "return"} /\ R.kind = "error"
JoinedBefore == \E p \in 1..AllTaken : Joined(Stream[p][1])
FailInv == \A s \in failed :
             source[s].fails = "scan" => ErrorAhead \/ (Joined(s) /\ JoinedBefore)

IndexInv ==
  FromZero =>
    /\ concatIdx = IF Pc = "concat" /\ R.kind = "entry" THEN taken["i"] - 1 ELSE taken["i"]
    /\ (FreshAt /\ R.kind = "entry") => R.idx = JoinerEnd
    /\ (Pc # "clear" /\ StartDefined) => joiner.idx = MessageEnd
    /\ Pc = "clear" => final["sink"].idx = AllWritten
    /\ (MessageAt /\ R.kind = "entry") => R.idx = AllWritten

\* A line as its source yields it, and behind a cut of the first source.
Raw(id) == Entry(<<id>>, source[id[1]].lines[id[2]])
BaseLineOf == [id \in LineId |-> IF script.cut = "i" /\ id[1] = "i" THEN Cut(Raw(id)) ELSE Raw(id)]

BoundsInv ==
  /\ (FreshAt /\ R.kind = "entry") =>
       R.entry = IF Pc = "concat" THEN BaseLineOf[R.entry.ids[1]] ELSE LineOf[R.entry.ids[1]]
  /\ (Pc \in {"finalize", "clear"} /\ R.kind = "entry") => R.entry.ids[1] \in Starts
  /\ (Pc # "clear" /\ StartDefined) =>
       NoOtherStart(joiner.start.ids) /\ MayBeginAfter(MessageEnd, joiner.start.ids[1])
  /\ Pc = "clear" => /\ NoOtherStart(final["sink"].entry.ids)
                     /\ MayBeginAfter(AllWritten, final["sink"].entry.ids[1])
  /\ (MessageAt /\ R.kind = "entry") =>
       NoOtherStart(R.entry.ids) /\ MayBeginAfter(AllWritten, R.entry.ids[1])
  /\ (Pc # "clear" /\ ~StartDefined /\ JoinerEnd > 0 /\ script.join # "none") =>
       \/ script.join = "i" /\ JoinerEnd >= Total("i")
       \/ JoinerEnd = Total("i") /\ "i" \in failed /\ source["i"].fails = "scan"
       \/ JoinerEnd = Total("i") + Total("k")

SinkInv == /\ SourceInv /\ FlowInv /\ ShapeInv /\ NonEmptyInv /\ JoinInv /\ EndInv
           /\ FailInv /\ IndexInv /\ BoundsInv

OkInv == /\ AllWritten = Len(Stream)
         /\ FailureReported

IndInv == /\ TypeInv /\ PhaseInv /\ PanicOnlyInRace /\ WrittenInv
          /\ result = "none" => SinkInv
          /\ result = "ok" => OkInv

-----------------------------------------------------------------------------
(* Lemmas about the state functions *)

LEMMA ScriptFacts ==
  ASSUME script \in Scripts
  PROVE  /\ script.cut \in {"none", "i", "all"} /\ script.join \in {"none", "i", "all"}
         /\ script.join = "i" => script.cut # "all"
  BY ScriptAssumption

\* The stream: first the lines of "i", then those of "k".
LEMMA StreamFacts ==
  ASSUME source \in Sources
  PROVE  /\ Total("i") \in Nat /\ Total("k") \in Nat
         /\ Stream \in Seq(LineId) /\ Len(Stream) = Total("i") + Total("k")
         /\ \A p \in 1..Len(Stream) :
              /\ Stream[p] = IF p <= Total("i") THEN <<"i", p>> ELSE <<"k", p - Total("i")>>
              /\ Stream[p] \in LineId /\ Place(Stream[p]) = p
         /\ \A s \in Src : source[s].first \in {0, 1}
<1> DEFINE ni == Total("i")
           nk == Total("k")
           si == [k \in 1..ni |-> <<"i", k>>]
           sk == [k \in 1..nk |-> <<"k", k>>]
<1>1. "i" \in Src /\ "k" \in Src
  BY DEF Src
<1>2. \A s \in Src : source[s].lines \in Seq(Seq(Seq(STRING))) /\ source[s].first \in {0, 1}
  BY SourcesAssumption
<1>3. ni \in Nat /\ nk \in Nat
  BY <1>1, <1>2, LenProperties DEF Total
<1>4. Stream = si \o sk
  BY DEF Stream, Total
<1>5. si \in Seq(LineId) /\ Len(si) = ni /\ \A k \in 1..ni : si[k] = <<"i", k>>
  BY <1>1, <1>3 DEF LineId
<1>6. sk \in Seq(LineId) /\ Len(sk) = nk /\ \A k \in 1..nk : sk[k] = <<"k", k>>
  BY <1>1, <1>3 DEF LineId
<1> HIDE DEF si, sk
<1>7. /\ Stream \in Seq(LineId) /\ Len(Stream) = ni + nk
      /\ \A p \in 1..(ni + nk) : Stream[p] = IF p <= ni THEN si[p] ELSE sk[p - ni]
  <2>1. si \o sk \in Seq(LineId) /\ Len(si \o sk) = Len(si) + Len(sk)
    BY <1>5, <1>6, ConcatProperties
  <2>2. \A p \in 1..(Len(si) + Len(sk)) :
          (si \o sk)[p] = IF p <= Len(si) THEN si[p] ELSE sk[p - Len(si)]
    BY <1>5, <1>6, ConcatProperties
  <2> QED BY <2>1, <2>2, <1>4, <1>5, <1>6
<1>8. \A p \in 1..(ni + nk) :
        Stream[p] = IF p <= ni THEN <<"i", p>> ELSE <<"k", p - ni>>
  <2> TAKE p \in 1..(ni + nk)
  <2>1. CASE p <= ni
    <3>1. Stream[p] = si[p]
      BY <1>7, <2>1
    <3> QED BY <3>1, <1>5, <1>3, <2>1
  <2>2. CASE p > ni
    <3>1. Stream[p] = sk[p - ni] /\ p - ni \in 1..nk
      BY <1>7, <1>3, <2>2
    <3> QED BY <3>1, <1>6, <1>3, <2>2, SMTT(30)
  <2> QED BY <2>1, <2>2, <1>3
<1>9. \A p \in 1..(ni + nk) : Stream[p] \in LineId /\ Place(Stream[p]) = p
  <2> TAKE p \in 1..(ni + nk)
  <2>1. CASE p <= ni
    <3>1. Stream[p] = <<"i", p>>
      BY <1>8, <2>1
    <3>2. <<"i", p>> \in LineId /\ Place(<<"i", p>>) = p
      BY <1>3, <1>1 DEF Place, LineId
    <3> QED BY <3>1, <3>2
  <2>2. CASE p > ni
    <3>0. ~(p <= ni) /\ p - ni \in Nat
      <4> HIDE DEF ni, nk
      <4> QED BY <1>3, <2>2
    <3>1. Stream[p] = <<"k", p - ni>> /\ p - ni \in Nat
      BY <1>8, <3>0
    <3>2. <<"k", p - ni>> \in LineId
      BY <3>1, <1>1 DEF LineId
    <3>3. Place(<<"k", p - ni>>) = ni + (p - ni)
      BY DEF Place, Total
    <3> QED BY <3>1, <3>2, <3>3, <1>3
  <2> QED BY <2>1, <2>2, <1>3
<1> QED BY <1>2, <1>3, <1>7, <1>8, <1>9

\* The parts of an entry, and what a cut leaves of it.
LEMMA EntryParts ==
  ASSUME NEW ids, NEW msg
  PROVE  /\ Entry(ids, msg) = [ids |-> ids, msg |-> msg,
                               fields |-> [f \in Field |-> Unset]]
         /\ Entry(ids, msg).ids = ids
  BY DEF Entry

LEMMA CutParts ==
  ASSUME NEW ids, NEW msg
  PROVE  LET e == Cut(Entry(ids, msg))
         IN  e = [ids |-> e.ids, msg |-> e.msg, fields |-> e.fields] /\ e.ids = ids
<1> DEFINE entry == Entry(ids, msg)
           words == msg[1]
<1>1. entry.msg = msg
  BY DEF Entry
<1>2. CASE msg = <<>>
  BY <1>1, <1>2 DEF Cut, Entry
<1>3. CASE msg # <<>>
  <2>1. Cut(entry) = Collect(collector, words, entry)
    BY <1>1, <1>3 DEF Cut
  <2>2. PICK m, f : Collect(collector, words, entry) = [entry EXCEPT !.msg = m, !.fields = f]
    BY Zenon DEF Collect
  <2> QED BY <2>1, <2>2 DEF Entry
<1> QED BY <1>2, <1>3

LEMMA NothingStarted == joiner.start.ids # <<>> => StartDefined
  BY DEF StartDefined, NoEntry, Entry

\* While the statements and the sources stay, so do lines and start lines, and
\* while nothing is written, so do the places of the messages.
LEMMA InputFrame ==
  ASSUME UNCHANGED inputVars
  PROVE  /\ Stream' = Stream /\ Starts' = Starts
         /\ LineOf' = LineOf /\ BaseLineOf' = BaseLineOf
<1>1. Stream' = Stream
  BY DEF Stream, inputVars
<1>2. \A ids, msg : Cut(Entry(ids, msg))' = Cut(Entry(ids, msg))
  BY DEF inputVars, Cut, Entry
<1>3. LineOf' = LineOf
  BY <1>2 DEF LineOf, Line, inputVars
<1>4. Starts' = Starts
  BY <1>2 DEF Starts, StartLine, Line, inputVars
<1>5. BaseLineOf' = BaseLineOf
  BY <1>2 DEF BaseLineOf, Raw, inputVars
<1> QED BY <1>1, <1>3, <1>4, <1>5

LEMMA WrittenFrame ==
  ASSUME UNCHANGED inputVars, UNCHANGED written
  PROVE  /\ Places' = Places /\ AllWritten' = AllWritten
         /\ WrittenInv => WrittenInv'
<1>1. Stream' = Stream /\ Starts' = Starts
  BY InputFrame
<1>2. Places' = Places
  BY DEF Places, LastPlace, Place, inputVars
<1>3. AllWritten' = AllWritten
  BY <1>2 DEF AllWritten
<1>4. ASSUME WrittenInv PROVE WrittenInv'
  <2>1. Len(Stream)' = Len(Stream) /\ FromZero' = FromZero
    BY <1>1 DEF FromZero, inputVars
  <2>2. (Places \in [0..Len(written) -> 0..Len(Stream)] /\ Places[0] = 0)'
    BY <1>1, <1>2, <1>4 DEF WrittenInv
  <2>3. (\A p \in 1..AllWritten : \E m \in 1..Len(written) :
           \E k \in 1..Len(written[m].entry.ids) : written[m].entry.ids[k] = Stream[p])'
    BY <1>1, <1>3, <1>4 DEF WrittenInv
  <2>4. ASSUME NEW m \in 1..Len(written)
        PROVE  /\ Places'[m - 1] < Places'[m]
               /\ Covers(written[m].entry.ids, Places[m - 1], Places[m])'
               /\ NoOtherStart(written[m].entry.ids)'
               /\ MayBeginAfter(Places[m - 1], written[m].entry.ids[1])'
               /\ FromZero' => written'[m].idx = Places'[m - 1]
    BY <1>1, <1>2, <1>4, <2>1 DEF WrittenInv, Covers, NoOtherStart, MayBeginAfter, Joined, inputVars
  <2> QED BY <2>2, <2>3, <2>4 DEF WrittenInv, Covers, NoOtherStart, MayBeginAfter, Joined
<1> QED BY <1>2, <1>3, <1>4

-----------------------------------------------------------------------------
(* Where the callers are *)

LEMMA InitIsPhase == Init => TypeInv /\ PhaseInv /\ PanicOnlyInRace
<1> SUFFICES ASSUME Init PROVE TypeInv /\ PhaseInv /\ PanicOnlyInRace
  OBVIOUS
<1>1. "sink" \in Caller /\ "drain1" \in Caller /\ "drain2" \in Caller /\ "i" \in Src /\ "k" \in Src
  BY DEF Caller, Src
<1>2. \A s \in Src : Total(s) \in Nat
  BY SourcesAssumption, LenProperties DEF Init, Total
<1>3. IsSequence(written)
  BY DEF Init, IsSequence
<1>4. pc \in [Caller -> CallerState]
  BY DEF Init, CallerState
<1>5. pc["sink"] = "base" /\ pc["drain1"] = "idle" /\ pc["drain2"] = "idle"
  BY <1>1 DEF Init
<1>6. \A c \in Caller : pc[c] \in {"base", "idle"}
  BY DEF Init
<1>7. TypeInv
  <2>1. /\ script \in Scripts /\ source \in Sources
        /\ taken \in [Src -> Nat] /\ failed \subseteq Src /\ concatIdx \in Nat
        /\ DOMAIN res = Caller /\ DOMAIN final = Caller
    BY DEF Init
  <2>2. result = "none" /\ panicked = FALSE /\ \A s \in Src : taken[s] <= Total(s)
    BY <1>2 DEF Init
  <2> QED BY <1>3, <1>4, <2>1, <2>2 DEF TypeInv
<1> QED BY <1>5, <1>6, <1>7 DEF PhaseInv, PanicOnlyInRace, Init

\* With at most one drain, the caller that makes a step is the only one that can.
LEMMA Alone ==
  ASSUME PhaseInv, pc["drain1"] = "idle" \/ pc["drain2"] = "idle",
         NEW c \in Caller, pc[c] \notin {"idle", "stopped"}, TypeInv
  PROVE  \A d \in Caller \ {c} : pc[d] \in {"idle", "stopped"}
  BY DEF PhaseInv, TypeInv, Caller

\* A step other than one in which the sink returns.
Moves(c) == \/ Base(c) \/ ConcatBase(c) \/ ConcatNext(c)
            \/ JoinerCollect(c) \/ JoinerErr(c) \/ JoinerFlush(c)
            \/ Finalize(c) \/ Clear(c) \/ DrainStep(c)
            \/ c = "sink" /\ Write

LEMMA Movement ==
  ASSUME TypeInv, PhaseInv, NEW c \in Caller, Moves(c)
  PROVE  /\ UNCHANGED <<inputVars, result>>
         /\ pc[c] \notin {"idle", "stopped"}
         /\ \E there \in CallerState \ {"idle"} :
              /\ pc' = [pc EXCEPT ![c] = there]
              /\ there = "stopped" => c # "sink"
              /\ there = "finalize" => StartDefined'
              /\ script.join = "none" => there \notin {"joiner", "finalize", "clear"}
<1>1. script.join \in {"none", "i", "all"}
  BY ScriptFacts DEF TypeInv
<1>2. script.join = "none" => pc[c] \notin {"joiner", "finalize", "clear"}
  BY DEF PhaseInv
<1>3. UNCHANGED <<inputVars, result>>
  BY DEF Moves, Base, ConcatBase, ConcatNext, JoinerCollect, JoinerErr, JoinerFlush,
         Finalize, Clear, DrainStep, Write, sinkVars, inputVars
<1> DEFINE Goes(there) == /\ there \in CallerState \ {"idle"}
                          /\ pc' = [pc EXCEPT ![c] = there]
                          /\ there = "stopped" => c # "sink"
                          /\ there = "finalize" => StartDefined'
                          /\ script.join = "none" => there \notin {"joiner", "finalize", "clear"}
<1>13. SUFFICES pc[c] \notin {"idle", "stopped"} /\ \E there : Goes(there)
  BY <1>3
<1>4. CASE Base(c)
  <2>1. pc[c] = "base" /\ pc' = [pc EXCEPT ![c] = FromBase]
    BY <1>4 DEF Base, At
  <2>2. FromBase \in {"joiner", "concat"} /\ (script.join = "none" => FromBase = "concat")
    BY <1>1, <1>2, <1>4, <2>1 DEF FromBase
  <2>3. Goes(FromBase)
    BY <2>1, <2>2 DEF CallerState
  <2> QED BY <2>1, <2>3
<1>5. CASE ConcatBase(c) \/ ConcatNext(c)
  <2>1. pc[c] = "concat" /\ pc' = [pc EXCEPT ![c] = FromConcat]
    BY <1>5 DEF ConcatBase, ConcatNext, At
  <2>2. FromConcat \in {"joiner", "return"} /\ (script.join = "none" => FromConcat = "return")
    BY <1>1, <1>2, <1>5, <2>1 DEF FromConcat
  <2>3. Goes(FromConcat)
    BY <2>1, <2>2 DEF CallerState
  <2> QED BY <2>1, <2>3
<1>6. CASE JoinerCollect(c)
  <2>1. pc[c] = "joiner" /\ pc' = [pc EXCEPT ![c] = "base"]
    BY <1>6 DEF JoinerCollect, At
  <2>2. script.join # "none"
    BY <1>1, <1>2, <1>6, <2>1 DEF JoinerCollect
  <2>3. Goes("base")
    BY <2>1, <2>2 DEF CallerState
  <2> QED BY <2>1, <2>3
<1>7. CASE JoinerErr(c)
  <2>1. pc[c] = "joiner" /\ pc' = [pc EXCEPT ![c] = JoinerFails]
    BY <1>7 DEF JoinerErr, At
  <2>2. JoinerFails \in {"concat", "return"} /\ script.join # "none"
    BY <1>1, <1>2, <1>7, <2>1 DEF JoinerFails, FromJoiner
  <2>3. Goes(JoinerFails)
    BY <2>1, <2>2 DEF CallerState
  <2> QED BY <2>1, <2>3
<1>8. CASE JoinerFlush(c)
  <2>1. pc[c] = "joiner" /\ pc' = [pc EXCEPT ![c] = "finalize"]
    BY <1>8 DEF JoinerFlush, At
  <2>2. StartDefined' /\ script.join # "none"
    BY <1>1, <1>2, <1>8, <2>1 DEF JoinerFlush, StartDefined
  <2>3. Goes("finalize")
    BY <2>1, <2>2 DEF CallerState
  <2> QED BY <2>1, <2>3
<1>9. CASE Finalize(c)
  <2>1. pc[c] = "finalize" /\ pc' = [pc EXCEPT ![c] = "clear"]
    BY <1>9 DEF Finalize, At
  <2>2. script.join # "none"
    BY <1>1, <1>2, <1>9, <2>1 DEF Finalize
  <2>3. Goes("clear")
    BY <2>1, <2>2 DEF CallerState
  <2> QED BY <2>1, <2>3
<1>10. CASE Clear(c)
  <2>1. pc[c] = "clear" /\ pc' = [pc EXCEPT ![c] = FromJoiner]
    BY <1>10 DEF Clear, At
  <2>2. FromJoiner \in {"concat", "return"} /\ script.join # "none"
    BY <1>1, <1>2, <1>10, <2>1 DEF FromJoiner
  <2>3. Goes(FromJoiner)
    BY <2>1, <2>2 DEF CallerState
  <2> QED BY <2>1, <2>3
<1>11. CASE DrainStep(c)
  <2>1. PICK there \in {"base", "stopped"} : c # "sink" /\ pc[c] = "return" /\ pc' = [pc EXCEPT ![c] = there]
    BY <1>11 DEF DrainStep, At
  <2>2. Goes(there)
    BY <2>1 DEF CallerState
  <2> QED BY <2>1, <2>2
<1>12. CASE c = "sink" /\ Write
  <2>1. pc[c] = "return" /\ pc' = [pc EXCEPT ![c] = "base"]
    BY <1>12 DEF Write, At
  <2>2. "base" # "idle"
    BY <1>1, <1>2, <1>12, <2>1 DEF CallerState
  <2>3. Goes("base")
    BY <2>1, <2>2 DEF CallerState
  <2> QED BY <2>1, <2>3
<1> QED BY <1>4, <1>5, <1>6, <1>7, <1>8, <1>9, <1>10, <1>11, <1>12 DEF Moves

LEMMA MovesKeepPhase ==
  ASSUME TypeInv, PhaseInv, NEW c \in Caller, Moves(c)
  PROVE  PhaseInv' /\ pc' \in [Caller -> CallerState]
<1>1. PICK there \in CallerState \ {"idle"} :
        /\ pc' = [pc EXCEPT ![c] = there]
        /\ there = "stopped" => c # "sink"
        /\ there = "finalize" => StartDefined'
        /\ script.join = "none" => there \notin {"joiner", "finalize", "clear"}
  BY Movement
<1>2. script' = script /\ result' = result /\ pc[c] \notin {"idle", "stopped"}
  BY Movement DEF inputVars
<1>3. pc \in [Caller -> CallerState] /\ "sink" \in Caller /\ "drain1" \in Caller /\ "drain2" \in Caller
  BY DEF TypeInv, Caller
<1>4. pc' \in [Caller -> CallerState] /\ pc'[c] = there /\ \A d \in Caller \ {c} : pc'[d] = pc[d]
  BY <1>1, <1>3
<1>5. (pc["drain1"] = "idle" <=> pc'["drain1"] = "idle") /\ (pc["drain2"] = "idle" <=> pc'["drain2"] = "idle")
  BY <1>1, <1>2, <1>3, <1>4
<1>6. (pc["sink"] = "stopped" <=> pc'["sink"] = "stopped") /\ pc'["sink"] # "idle"
  BY <1>1, <1>2, <1>3, <1>4 DEF PhaseInv
<1>7. ASSUME pc'["drain1"] = "idle" \/ pc'["drain2"] = "idle", NEW d \in Caller, pc'[d] = "finalize"
      PROVE  StartDefined'
  <2>1. d = c
    BY Alone, <1>2, <1>4, <1>5, <1>7
  <2> QED BY <1>1, <1>4, <1>7, <2>1
<1>8. ASSUME script.join = "none", NEW d \in Caller
      PROVE  pc'[d] \notin {"joiner", "finalize", "clear"}
  BY <1>1, <1>4, <1>8 DEF PhaseInv
<1> QED BY <1>2, <1>4, <1>5, <1>6, <1>7, <1>8 DEF PhaseInv

\* The steps in which the sink returns.
Returns == WriteFails \/ NextFails \/ NextEnds

LEMMA ReturnsKeepPhase ==
  ASSUME TypeInv, PhaseInv, Returns
  PROVE  /\ PhaseInv' /\ pc' \in [Caller -> CallerState]
         /\ result = "none" /\ result' \in {"ok", "error"}
         /\ UNCHANGED <<inputVars, taken, failed, res, final, written, panicked>>
<1>1. PICK r, ds : /\ <<r, ds>> \in {<<"error", {"drain1", "drain2"}>>, <<"error", {"drain1"}>>, <<"ok", {}>>}
                   /\ SinkReturns(r, ds)
  BY DEF Returns, WriteFails, NextFails, NextEnds, DrainsAfterError
<1>2. /\ r \in {"ok", "error"} /\ ds \subseteq {"drain1", "drain2"}
      /\ r = "ok" => ds = {}
  BY <1>1
<1>3. /\ pc["sink"] = "return" /\ result' = r
      /\ pc' = [d \in Caller |-> IF d \in ds THEN "base" ELSE IF d = "sink" THEN "stopped" ELSE pc[d]]
  BY <1>1 DEF SinkReturns
<1>4. UNCHANGED <<inputVars, taken, failed, res, final, written, panicked>>
  BY <1>1 DEF SinkReturns
<1>5. pc \in [Caller -> CallerState] /\ "sink" \in Caller /\ "drain1" \in Caller /\ "drain2" \in Caller
  BY DEF TypeInv, Caller
<1>6. result = "none" /\ pc["drain1"] = "idle" /\ pc["drain2"] = "idle"
  BY <1>3 DEF PhaseInv, TypeInv
<1>7. pc' \in [Caller -> CallerState]
  BY <1>3, <1>5 DEF CallerState
<1>8. \A d \in Caller : pc'[d] \in {"base", "stopped", "idle"}
  BY <1>3, <1>5, <1>6 DEF Caller
<1>9. pc'["sink"] = "stopped" /\ (r = "ok" => pc'["drain1"] = "idle" /\ pc'["drain2"] = "idle")
  BY <1>2, <1>3, <1>5, <1>6
<1> QED BY <1>2, <1>3, <1>4, <1>6, <1>7, <1>8, <1>9 DEF PhaseInv

\* Only two drains can make the process panic.
LEMMA PanicStep ==
  ASSUME TypeInv, PhaseInv, PanicOnlyInRace, NEW c \in Caller, Step(c)
  PROVE  PanicOnlyInRace'
<1>0. ~panicked
  BY DEF Step
<1>1. CASE Returns
  BY <1>0, <1>1, ReturnsKeepPhase DEF PanicOnlyInRace
<1>2. CASE Moves(c) /\ ~Finalize(c)
  <2>1. panicked' = panicked
    BY <1>2 DEF Moves, Base, ConcatBase, ConcatNext, JoinerCollect, JoinerErr, JoinerFlush,
                Clear, DrainStep, Write
  <2> QED BY <1>0, <2>1 DEF PanicOnlyInRace
<1>3. CASE Finalize(c)
  <2>1. Moves(c) /\ pc[c] = "finalize" /\ script.join # "none"
    BY <1>3 DEF Moves, Finalize, At, PhaseInv
  <2>2. UNCHANGED <<inputVars, result>>
    BY <2>1, Movement
  <2>3. pc' = [pc EXCEPT ![c] = "clear"]
    BY <1>3 DEF Finalize, At
  <2>4. CASE pc["drain1"] = "idle" \/ pc["drain2"] = "idle"
    <3>1. joiner.start # NoEntry
      BY <2>1, <2>4 DEF PhaseInv, StartDefined
    <3>2. ~\E d \in Caller \ {c} : pc[d] = "clear"
      BY <2>1, <2>4, Alone
    <3>3. panicked' = FALSE
      BY <1>3, <3>1, <3>2 DEF Finalize
    <3> QED BY <3>3 DEF PanicOnlyInRace
  <2>5. CASE pc["drain1"] # "idle" /\ pc["drain2"] # "idle"
    <3>1. pc'["drain1"] # "idle" /\ pc'["drain2"] # "idle"
      BY <2>3, <2>5 DEF TypeInv, Caller
    <3> QED BY <2>1, <2>2, <3>1 DEF PanicOnlyInRace, inputVars
  <2> QED BY <2>4, <2>5
<1> QED BY <1>1, <1>2, <1>3 DEF Step, Moves, Returns

-----------------------------------------------------------------------------
(* What a source answers *)

GivesEntry(s) ==
  /\ Outcome(s) = Result("entry", Raw(<<s, taken[s] + 1>>), source[s].first + taken[s])
  /\ taken[s] + 1 <= Total(s) /\ ~Exhausted(s)
  /\ taken' = [taken EXCEPT ![s] = taken[s] + 1] /\ failed' = failed
GivesEnd(s) ==
  /\ Outcome(s) = End /\ taken[s] = Total(s) /\ taken' = taken
  /\ \/ failed' = failed /\ Exhausted(s)
     \/ failed' = failed \cup {s} /\ source[s].fails = "next"
GivesError(s) ==
  /\ Outcome(s) = Err /\ taken[s] = Total(s) /\ source[s].fails = "scan" /\ s \notin failed
  /\ taken' = taken /\ failed' = failed \cup {s}

LEMMA Answers ==
  ASSUME TypeInv, NEW s \in Src, Advance(s)
  PROVE  GivesEntry(s) \/ GivesEnd(s) \/ GivesError(s)
<1>1. taken[s] \in Nat /\ Total(s) \in Nat /\ taken[s] <= Total(s)
  BY StreamFacts DEF TypeInv, Src
<1>2. CASE taken[s] + 1 <= Total(s)
  <2>1. Outcome(s) = Result("entry", Raw(<<s, taken[s] + 1>>), source[s].first + taken[s])
    BY <1>2 DEF Outcome, Total, Raw
  <2>2. Outcome(s).kind = "entry"
    BY <2>1 DEF Result
  <2>3. ~Fails(s) /\ ~Exhausted(s)
    BY <1>1, <1>2 DEF Exhausted, Fails, Total
  <2>4. taken' = [taken EXCEPT ![s] = taken[s] + 1] /\ failed' = failed
    BY <2>2, <2>3 DEF Advance
  <2> QED BY <1>2, <2>1, <2>3, <2>4 DEF GivesEntry
<1>3. CASE taken[s] = Total(s)
  <2>1. ~(taken[s] + 1 <= Total(s))
    BY <1>1, <1>3
  <2>2. Outcome(s) = IF Fails(s) /\ source[s].fails = "scan" THEN Err ELSE End
    BY <2>1 DEF Outcome, Total
  <2>3. Outcome(s).kind # "entry" /\ taken' = taken
    BY <2>2 DEF Advance, End, Err, Result
  <2>4. CASE ~Fails(s)
    <3>1. Exhausted(s) /\ failed' = failed /\ Outcome(s) = End
      BY <1>3, <2>2, <2>4 DEF Exhausted, Advance, Total
    <3> QED BY <1>3, <2>3, <3>1 DEF GivesEnd
  <2>5. CASE Fails(s)
    <3>1. source[s].fails \in {"scan", "next"} /\ s \notin failed
      BY <2>5, SourcesAssumption DEF Fails, TypeInv
    <3>2. failed' = failed \cup {s}
      BY <2>5 DEF Advance
    <3>3. CASE source[s].fails = "scan"
      BY <1>3, <2>2, <2>3, <2>5, <3>1, <3>2, <3>3 DEF GivesError
    <3>4. CASE source[s].fails = "next"
      <4>1. Outcome(s) = End
        BY <2>2, <3>4
      <4> QED BY <1>3, <2>3, <3>2, <3>4, <4>1 DEF GivesEnd
    <3> QED BY <3>1, <3>3, <3>4
  <2> QED BY <2>4, <2>5
<1> QED BY <1>1, <1>2, <1>3

LEMMA AdvanceType ==
  ASSUME TypeInv, NEW s \in Src, Advance(s)
  PROVE  taken' \in [Src -> Nat] /\ (\A t \in Src : taken'[t] <= Total(t)) /\ failed' \subseteq Src
<1>1. taken \in [Src -> Nat] /\ (\A t \in Src : taken[t] <= Total(t)) /\ failed \subseteq Src
  BY DEF TypeInv
<1>2. CASE GivesEntry(s)
  BY <1>1, <1>2 DEF GivesEntry
<1>3. CASE GivesEnd(s) \/ GivesError(s)
  BY <1>1, <1>3 DEF GivesEnd, GivesError
<1> QED BY <1>2, <1>3, Answers

LEMMA TypeStep ==
  ASSUME TypeInv, PhaseInv, NEW c \in Caller, Step(c)
  PROVE  TypeInv'
<1>1. /\ UNCHANGED inputVars /\ result' \in {"none", "ok", "error"}
      /\ pc' \in [Caller -> CallerState]
  <2>1. CASE Returns
    BY <2>1, ReturnsKeepPhase
  <2>2. CASE Moves(c)
    BY <2>2, Movement, MovesKeepPhase DEF TypeInv
  <2> QED BY <2>1, <2>2 DEF Step, Moves, Returns
<1>2. Total("i")' = Total("i") /\ Total("k")' = Total("k") /\ \A s \in Src : Total(s)' = Total(s)
  BY <1>1 DEF Total, inputVars
<1>3. taken' \in [Src -> Nat] /\ (\A s \in Src : taken'[s] <= Total(s)) /\ failed' \subseteq Src
  <2>1. CASE UNCHANGED <<taken, failed>>
    BY <2>1 DEF TypeInv
  <2>2. CASE Advance("i") \/ Advance("k")
    BY <2>2, AdvanceType DEF Src
  <2>3. CASE Moves(c) \/ Returns
    BY <2>1, <2>2, <2>3 DEF Moves, Returns, Base, ConcatBase, ConcatNext, JoinerCollect, JoinerErr,
       JoinerFlush, Finalize, Clear, DrainStep, Write, WriteFails, NextFails, NextEnds, SinkReturns
  <2> QED BY <2>3 DEF Step, Moves, Returns
<1>4. DOMAIN res' = Caller /\ DOMAIN final' = Caller
  <2>1. DOMAIN res = Caller /\ DOMAIN final = Caller
    BY DEF TypeInv
  <2>2. CASE \E r : Gives(c, r) /\ final' = final
    BY <2>1, <2>2 DEF Gives
  <2>3. CASE \E r : res' = res /\ final' = [final EXCEPT ![c] = r]
    BY <2>1, <2>3
  <2>4. CASE res' = res /\ final' = final
    BY <2>1, <2>4
  <2>5. CASE Base(c) \/ ConcatBase(c) \/ ConcatNext(c) \/ Clear(c)
    BY <2>2, <2>5 DEF Base, ConcatBase, ConcatNext, Clear
  <2>6. CASE Finalize(c)
    BY <2>3, <2>6 DEF Finalize
  <2>7. CASE JoinerCollect(c) \/ JoinerErr(c) \/ JoinerFlush(c) \/ DrainStep(c) \/ Write \/ Returns
    BY <2>4, <2>7 DEF JoinerCollect, JoinerErr, JoinerFlush, DrainStep, Write, Returns,
       WriteFails, NextFails, NextEnds, SinkReturns
  <2> QED BY <2>5, <2>6, <2>7 DEF Step, Returns
<1>5. concatIdx' \in Nat
  <2>1. concatIdx \in Nat
    BY DEF TypeInv
  <2> QED BY <2>1 DEF Step, Counted, Base, ConcatBase, ConcatNext, JoinerCollect, JoinerErr,
       JoinerFlush, Finalize, Clear, DrainStep, Write, WriteFails, NextFails, NextEnds, SinkReturns
<1>6. IsSequence(written)'
  <2>1. PICK S : written \in Seq(S)
    BY DEF TypeInv, IsSequence
  <2>2. CASE written' = written
    BY <2>1, <2>2 DEF IsSequence
  <2>3. CASE Write
    <3>1. PICK x : written' = Append(written, x)
      BY <2>3 DEF Write
    <3>2. written \in Seq(S \cup {x})
      BY <2>1, SeqMonotonic
    <3>3. written' \in Seq(S \cup {x})
      BY <3>1, <3>2
    <3> QED BY <3>3 DEF IsSequence
  <2>4. ~Write => written' = written
    BY DEF Step, Base, ConcatBase, ConcatNext, JoinerCollect, JoinerErr,
       JoinerFlush, Finalize, Clear, DrainStep, WriteFails, NextFails, NextEnds, SinkReturns, sinkVars
  <2> QED BY <2>2, <2>3, <2>4
<1>7. panicked' \in BOOLEAN
  BY DEF TypeInv, Step, Base, ConcatBase, ConcatNext, JoinerCollect, JoinerErr,
     JoinerFlush, Finalize, Clear, DrainStep, Write, WriteFails, NextFails, NextEnds, SinkReturns
<1>8. script' \in Scripts /\ source' \in Sources
  BY <1>1 DEF TypeInv, inputVars
<1> QED BY <1>1, <1>2, <1>3, <1>4, <1>5, <1>6, <1>7, <1>8 DEF TypeInv

-----------------------------------------------------------------------------
(* While the sink runs *)

\* The lines that have been written, those on their way, collected, and come.
LEMMA Flow ==
  ASSUME TypeInv, WrittenInv, FlowInv
  PROVE  /\ AllWritten \in Nat /\ MessageEnd \in Nat /\ JoinerEnd \in Nat /\ AllTaken \in Nat
         /\ MessageIds \in Seq(LineId) /\ JoinerIds \in Seq(LineId) /\ FreshIds \in Seq(LineId)
         /\ Len(MessageIds) = MessageEnd - AllWritten
         /\ Len(JoinerIds) = JoinerEnd - MessageEnd
         /\ Len(FreshIds) = AllTaken - JoinerEnd
         /\ AllTaken <= Len(Stream)
         /\ taken["i"] \in Nat /\ taken["k"] \in Nat
         /\ taken["i"] <= Total("i") /\ taken["k"] <= Total("k")
<1>1. /\ taken["i"] \in Nat /\ taken["k"] \in Nat
      /\ taken["i"] <= Total("i") /\ taken["k"] <= Total("k")
      /\ Total("i") \in Nat /\ Total("k") \in Nat /\ Len(Stream) = Total("i") + Total("k")
  BY StreamFacts DEF TypeInv, Src
<1>2. AllWritten \in Nat
  <2>1. PICK S : written \in Seq(S)
    BY DEF TypeInv, IsSequence
  <2>2. Len(written) \in 0..Len(written)
    BY <2>1, LenProperties
  <2>3. Places[Len(written)] \in 0..Len(Stream)
    BY <2>2 DEF WrittenInv
  <2> QED BY <2>3 DEF AllWritten
<1>3. /\ MessageIds \in Seq(LineId) /\ JoinerIds \in Seq(LineId) /\ FreshIds \in Seq(LineId)
      /\ Len(MessageIds) = MessageEnd - AllWritten
      /\ Len(JoinerIds) = JoinerEnd - MessageEnd
      /\ Len(FreshIds) = AllTaken - JoinerEnd
  BY DEF FlowInv, Covers
<1>4. Len(MessageIds) \in Nat /\ Len(JoinerIds) \in Nat
  BY <1>3, LenProperties
<1>5. MessageEnd \in Nat
  BY <1>2, <1>4 DEF MessageEnd
<1>6. JoinerEnd \in Nat
  BY <1>4, <1>5 DEF JoinerEnd
<1>7. AllTaken \in Nat /\ AllTaken <= Len(Stream)
  BY <1>1 DEF AllTaken
<1> QED BY <1>1, <1>2, <1>3, <1>5, <1>6, <1>7

\* A cut keeps the kind, the index and the line of a result.
LEMMA CutterParts ==
  ASSUME NEW at, NEW ids, NEW msg, NEW idx
  PROVE  Cutter(at, Result("entry", Entry(ids, msg), idx)) =
           Result("entry", IF script.cut = at THEN Cut(Entry(ids, msg)) ELSE Entry(ids, msg), idx)
  BY DEF Cutter, Result

LEMMA CutterOther ==
  ASSUME NEW at
  PROVE  Cutter(at, End) = End /\ Cutter(at, Err) = Err
  BY DEF Cutter, Result, End, Err

\* What the first iterator of Concat and, shifted, the second one give.
LEMMA BaseResult ==
  ASSUME TypeInv, NEW a, a = Cutter("i", Outcome("i")), NEW id, id = <<"i", taken["i"] + 1>>
  PROVE  /\ GivesEntry("i") =>
              /\ a = Result("entry", a.entry, a.idx) /\ a.kind = "entry"
              /\ a.entry.ids = <<id>> /\ a.idx = source["i"].first + taken["i"]
              /\ a.entry = BaseLineOf[id]
              /\ script.join = "i" => a.entry = LineOf[id]
         /\ GivesEnd("i") => a = End
         /\ GivesError("i") => a = Err
<1>1. ASSUME GivesEntry("i")
      PROVE  /\ a = Result("entry", a.entry, a.idx) /\ a.kind = "entry"
             /\ a.entry.ids = <<id>> /\ a.idx = source["i"].first + taken["i"]
             /\ a.entry = BaseLineOf[id]
             /\ script.join = "i" => a.entry = LineOf[id]
  <2> DEFINE idx == source["i"].first + taken["i"]
             cut == IF script.cut = "i" THEN Cut(Raw(id)) ELSE Raw(id)
  <2>1. Outcome("i") = Result("entry", Raw(id), idx)
    BY <1>1 DEF GivesEntry
  <2>2. a = Result("entry", cut, idx)
    BY <2>1, CutterParts DEF Raw
  <2>3. cut.ids = <<id>>
    BY CutParts, EntryParts DEF Raw
  <2>4. id \in LineId /\ id[1] = "i"
    BY DEF TypeInv, LineId, Src
  <2>5. cut = BaseLineOf[id]
    BY <2>4 DEF BaseLineOf
  <2>6. script.join = "i" => cut = LineOf[id]
    <3>1. LineOf[id] = Line(id)
      BY <2>4 DEF LineOf
    <3>2. script.join = "i" => (script.cut = "all" \/ script.cut = id[1] <=> script.cut = "i")
      BY <2>4, ScriptFacts DEF TypeInv
    <3> QED BY <3>1, <3>2 DEF Line, Raw
  <2> HIDE DEF cut, idx
  <2>7. a.entry = cut /\ a.idx = idx /\ a.kind = "entry"
    BY <2>2 DEF Result
  <2> QED BY <2>2, <2>3, <2>5, <2>6, <2>7 DEF idx
<1>2. (GivesEnd("i") => a = End) /\ (GivesError("i") => a = Err)
  BY CutterOther DEF GivesEnd, GivesError
<1> QED BY <1>1, <1>2

LEMMA NextResult ==
  ASSUME TypeInv, NEW a, a = Cutter("all", Shifted(Outcome("k"))), NEW id, id = <<"k", taken["k"] + 1>>
  PROVE  /\ GivesEntry("k") =>
              /\ a = Result("entry", a.entry, a.idx) /\ a.kind = "entry"
              /\ a.entry.ids = <<id>> /\ a.idx = source["k"].first + taken["k"] + concatIdx
              /\ a.entry = LineOf[id]
         /\ GivesEnd("k") => a = End
         /\ GivesError("k") => a = Err
<1>1. ASSUME GivesEntry("k")
      PROVE  /\ a = Result("entry", a.entry, a.idx) /\ a.kind = "entry"
             /\ a.entry.ids = <<id>> /\ a.idx = source["k"].first + taken["k"] + concatIdx
             /\ a.entry = LineOf[id]
  <2> DEFINE idx == source["k"].first + taken["k"] + concatIdx
             cut == IF script.cut = "all" THEN Cut(Raw(id)) ELSE Raw(id)
  <2>1. Outcome("k") = Result("entry", Raw(id), source["k"].first + taken["k"])
    BY <1>1 DEF GivesEntry
  <2>2. Shifted(Outcome("k")) = Result("entry", Raw(id), idx)
    BY <2>1 DEF Shifted, Result
  <2>3. a = Result("entry", cut, idx)
    BY <2>2, CutterParts DEF Raw
  <2>4. cut.ids = <<id>>
    BY CutParts, EntryParts DEF Raw
  <2>5. id \in LineId /\ id[1] = "k"
    BY DEF TypeInv, LineId, Src
  <2>6. cut = LineOf[id]
    <3>1. LineOf[id] = Line(id)
      BY <2>5 DEF LineOf
    <3>2. script.cut = "all" \/ script.cut = id[1] <=> script.cut = "all"
      BY <2>5, ScriptFacts DEF TypeInv
    <3> QED BY <3>1, <3>2 DEF Line, Raw
  <2> HIDE DEF cut, idx
  <2>7. a.entry = cut /\ a.idx = idx /\ a.kind = "entry"
    BY <2>3 DEF Result
  <2> QED BY <2>3, <2>4, <2>6, <2>7 DEF idx
<1>2. (GivesEnd("k") => a = End) /\ (GivesError("k") => a = Err)
  BY CutterOther DEF GivesEnd, GivesError, Shifted, End, Err, Result
<1> QED BY <1>1, <1>2

LEMMA BaseStep ==
  ASSUME TypeInv, WrittenInv, SinkInv, Base("sink")
  PROVE  SinkInv'
<1> DEFINE id == <<"i", taken["i"] + 1>>
<1>1. /\ Pc = "base" /\ Pc' = FromBase /\ R' = Cutter("i", Outcome("i"))
      /\ UNCHANGED <<inputVars, concatIdx, joiner, final, written>> /\ Advance("i")
  BY DEF Base, At, Gives, TypeInv, Caller, R, Pc, sinkVars
<1>2. script' = script /\ source' = source /\ script.join \in {"none", "i", "all"}
  BY <1>1, ScriptFacts DEF inputVars, TypeInv
<1>3. /\ ~FreshAt /\ ~MessageAt /\ FreshAt' /\ ~MessageAt'
      /\ Pc' \in {"joiner", "concat"} /\ (Pc' = "joiner" <=> script.join = "i")
  BY <1>1, <1>2 DEF FreshAt, MessageAt, FromBase
<1>4. (StartDefined' <=> StartDefined) /\ (\A s : Joined(s)' <=> Joined(s)) /\ (FromZero' <=> FromZero)
  BY <1>1, <1>2 DEF StartDefined, Joined, FromZero
<1>5. /\ MessageIds = <<>> /\ MessageIds' = <<>> /\ FreshIds = <<>> /\ JoinerIds' = JoinerIds
      /\ StartDefined => JoinerIds = joiner.start.ids
  BY <1>1, <1>3, <1>4 DEF MessageIds, FreshIds, JoinerIds
<1>6. /\ AllWritten' = AllWritten /\ Stream' = Stream /\ Starts' = Starts
      /\ LineOf' = LineOf /\ BaseLineOf' = BaseLineOf
  BY <1>1, InputFrame, WrittenFrame
<1>7. /\ AllWritten \in Nat /\ AllTaken \in Nat /\ MessageEnd \in Nat /\ JoinerEnd \in Nat
      /\ MessageEnd' = MessageEnd /\ JoinerEnd' = JoinerEnd
      /\ MessageEnd = AllWritten /\ JoinerEnd = AllTaken
  <2>1. MessageEnd' = MessageEnd /\ JoinerEnd' = JoinerEnd
    BY <1>5, <1>6 DEF MessageEnd, JoinerEnd
  <2>2. Len(MessageIds) = 0 /\ Len(FreshIds) = 0
    BY <1>5
  <2> QED BY <2>1, <2>2, Flow DEF SinkInv
<1>8. taken["i"] \in Nat /\ taken["k"] \in Nat /\ Total("i") \in Nat /\ Total("k") \in Nat /\ Total("i")' = Total("i") /\ Total("k")' = Total("k")
  BY <1>2, StreamFacts DEF TypeInv, Src, Total
<1>9. ASSUME GivesEntry("i") PROVE SinkInv'
  <2>1. /\ R' = Result("entry", R'.entry, R'.idx) /\ R'.kind = "entry"
        /\ R'.entry.ids = <<id>> /\ R'.idx = source["i"].first + taken["i"]
        /\ R'.entry = BaseLineOf[id]
        /\ script.join = "i" => R'.entry = LineOf[id]
    BY <1>1, <1>9, BaseResult
  <2>2. /\ taken' = [taken EXCEPT !["i"] = taken["i"] + 1] /\ failed' = failed
        /\ taken["i"] + 1 <= Total("i") /\ ~Exhausted("i")
    BY <1>9 DEF GivesEntry
  <2>3. taken["k"] = 0 /\ "k" \notin failed
    BY <1>8, <2>2 DEF SinkInv, SourceInv
  <2>4. /\ taken'["i"] = taken["i"] + 1 /\ taken'["k"] = 0 
        /\ AllTaken = taken["i"] /\ AllTaken' = AllTaken + 1
    BY <1>8, <2>2, <2>3 DEF TypeInv, Src, AllTaken
  <2>5. FreshIds' = <<id>>
    BY <1>3, <2>1 DEF FreshIds
  <2>6. id = Stream[AllTaken + 1] /\ id \in LineId /\ id[1] = "i"
    <3>1. AllTaken + 1 \in 1..Len(Stream) /\ AllTaken + 1 <= Total("i")
      BY <1>8, <2>2, <2>4, StreamFacts DEF TypeInv
    <3> QED BY <3>1, <2>4, StreamFacts DEF TypeInv
  <2>7. SourceInv'
    <3>1. "i" \notin failed
      BY <1>8, <2>2 DEF SinkInv, SourceInv
    <3>2. failed' = {}
      BY <2>2, <2>3, <3>1 DEF TypeInv, Src
    <3> QED BY <2>4, <3>2 DEF SourceInv
  <2>8. FlowInv'
    <3>1. Covers(MessageIds, AllWritten, MessageEnd)' /\ Covers(JoinerIds, MessageEnd, JoinerEnd)'
      BY <1>5, <1>6, <1>7 DEF SinkInv, FlowInv, Covers
    <3>2. Covers(FreshIds, JoinerEnd, AllTaken)'
      <4>1. <<id>> \in Seq(LineId) /\ Len(<<id>>) = 1 /\ <<id>>[1] = id
        BY <2>6
      <4>2. AllTaken' - JoinerEnd' = 1
        BY <1>7, <2>4
      <4> HIDE DEF id
      <4> QED BY <1>6, <1>7, <2>5, <2>6, <4>1, <4>2 DEF Covers
    <3> QED BY <3>1, <3>2 DEF FlowInv
  <2>9. ShapeInv' /\ NonEmptyInv'
    <3>1. Len(R'.entry.ids) = 1
      BY <2>1
    <3> QED BY <1>1, <1>3, <1>4, <2>1, <3>1 DEF SinkInv, ShapeInv, NonEmptyInv
  <2>10. JoinInv' /\ EndInv'
    BY <1>2, <1>3, <1>4, <2>1, <2>2, <2>3, <2>4 DEF SinkInv, JoinInv, EndInv
  <2>11. FailInv'
    BY <1>1, <1>2, <1>4, <1>6, <1>7, <2>2, <2>4 DEF SinkInv, FailInv, ErrorAhead, JoinedBefore
  <2>12. IndexInv'
    BY <1>1, <1>2, <1>3, <1>4, <1>6, <1>7, <1>8, <2>1, <2>4 DEF SinkInv, IndexInv, FromZero, Src
  <2>13. BoundsInv'
    BY <1>1, <1>2, <1>3, <1>4, <1>6, <1>7, <1>8, <2>1, <2>2, <2>4, <2>6 DEF SinkInv, BoundsInv, NoOtherStart, MayBeginAfter
  <2> QED BY <2>7, <2>8, <2>9, <2>10, <2>11, <2>12, <2>13 DEF SinkInv
<1>10. ASSUME GivesEnd("i") \/ GivesError("i") PROVE SinkInv'
  <2>1. /\ R' = Result(R'.kind, R'.entry, R'.idx)
        /\ GivesEnd("i") => R'.kind = "end"
        /\ GivesError("i") => R'.kind = "error"
    <3>1. (GivesEnd("i") => R' = End) /\ (GivesError("i") => R' = Err)
      BY <1>1, BaseResult
    <3> QED BY <1>10, <3>1 DEF End, Err, Result
  <2>2. /\ taken' = taken /\ failed' \in {failed, failed \cup {"i"}}
        /\ taken["i"] = Total("i")
        /\ GivesEnd("i") => \/ failed' = failed /\ Exhausted("i")
                            \/ failed' = failed \cup {"i"} /\ source["i"].fails = "next"
        /\ GivesError("i") => /\ source["i"].fails = "scan" /\ "i" \notin failed
                              /\ failed' = failed \cup {"i"}
    BY <1>10 DEF GivesEnd, GivesError
  <2>3. R'.kind \in {"end", "error"} /\ FreshIds' = <<>> /\ AllTaken' = AllTaken
    BY <1>10, <2>1, <2>2 DEF FreshIds, AllTaken
  <2>4. GivesError("i") => taken["k"] = 0 /\ "k" \notin failed /\ ~Exhausted("i")
    BY <1>8, <2>2 DEF SinkInv, SourceInv, Exhausted, Fails
  <2>5. (Exhausted("i") => Exhausted("i")') /\ (GivesEnd("i") => Exhausted("i")')
    BY <1>2, <2>2 DEF Exhausted, Fails, Total
  <2>6. SourceInv'
    <3>1. \A s \in failed' : source[s].fails # "never" /\ taken[s] = Total(s)
      BY <1>10, <2>2 DEF SinkInv, SourceInv
    <3>2. (taken'["k"] > 0 \/ "k" \in failed') => Exhausted("i")'
      BY <1>10, <2>2, <2>4, <2>5 DEF SinkInv, SourceInv
    <3> QED BY <1>2, <2>2, <3>1, <3>2 DEF SourceInv, Total
  <2>7. FlowInv'
    BY <1>5, <1>6, <1>7, <2>3 DEF SinkInv, FlowInv, Covers
  <2>8. ShapeInv' /\ NonEmptyInv'
    BY <1>1, <1>3, <1>4, <2>1, <2>3 DEF SinkInv, ShapeInv, NonEmptyInv
  <2>9. JoinInv'
    BY <1>1, <1>2, <1>3, <1>4, <2>2, <2>3, <2>4 DEF SinkInv, JoinInv
  <2>10. EndInv'
    BY <1>2, <1>3, <1>8, <1>10, <2>1, <2>2, <2>3, <2>4, <2>5 DEF EndInv
  <2>11. FailInv'
    <3>1. ~ErrorAhead /\ (GivesError("i") => ErrorAhead')
      BY <1>1, <1>3, <2>1 DEF ErrorAhead
    <3> QED BY <1>2, <1>4, <1>6, <1>10, <2>2, <2>3, <3>1 DEF SinkInv, FailInv, JoinedBefore
  <2>12. IndexInv'
    BY <1>1, <1>2, <1>3, <1>4, <1>6, <1>7, <1>8, <2>2, <2>3 DEF SinkInv, IndexInv
  <2>13. BoundsInv'
    BY <1>1, <1>2, <1>3, <1>4, <1>6, <1>7, <1>8, <2>2, <2>3 DEF SinkInv, BoundsInv, NoOtherStart, MayBeginAfter
  <2> QED BY <2>6, <2>7, <2>8, <2>9, <2>10, <2>11, <2>12, <2>13 DEF SinkInv
<1> QED BY <1>1, <1>9, <1>10, Answers DEF Src


\* What a step that neither writes nor changes the statements leaves.
LEMMA Stays ==
  ASSUME TypeInv, UNCHANGED inputVars, written' = written
  PROVE  /\ script' = script /\ source' = source /\ script.join \in {"none", "i", "all"}
         /\ AllWritten' = AllWritten /\ Stream' = Stream /\ Starts' = Starts
         /\ LineOf' = LineOf /\ BaseLineOf' = BaseLineOf
         /\ Total("i") \in Nat /\ Total("k") \in Nat
         /\ Total("i")' = Total("i") /\ Total("k")' = Total("k")
         /\ (\A s : Joined(s)' <=> Joined(s)) /\ (FromZero' <=> FromZero)
<1>1. script' = script /\ source' = source
  BY DEF inputVars
<1>2. Total("i") \in Nat /\ Total("k") \in Nat /\ script.join \in {"none", "i", "all"}
  BY StreamFacts, ScriptFacts DEF TypeInv
<1>3. /\ AllWritten' = AllWritten /\ Stream' = Stream /\ Starts' = Starts
      /\ LineOf' = LineOf /\ BaseLineOf' = BaseLineOf
  BY InputFrame, WrittenFrame
<1> QED BY <1>1, <1>2, <1>3 DEF Total, Joined, FromZero

\* The entry of a line that has not been joined leaves Concat through the cut of
\* all, and has the same line.
LEMMA ConcatBaseEntry ==
  ASSUME TypeInv, WrittenInv, SinkInv, ConcatBase("sink"), script.join # "i", R.kind = "entry"
  PROVE  R'.entry.ids = R.entry.ids /\ Len(R.entry.ids) = 1 /\ R'.entry = LineOf[R.entry.ids[1]]
<1> DEFINE id == R.entry.ids[1]
<1>1. Pc = "concat" /\ R' = Cutter("all", R) /\ FreshAt
  BY DEF ConcatBase, At, Gives, TypeInv, Caller, R, Pc, FreshAt
<1>2. /\ R = Result(R.kind, R.entry, R.idx)
      /\ script.cut # "all" => R'.entry = R.entry
      /\ script.cut = "all" => R'.entry = Cut(R.entry)
  <2>1. R = Result(R.kind, R.entry, R.idx)
    BY DEF SinkInv, ShapeInv
  <2> QED BY <1>1, <2>1 DEF Cutter, Result
<1>3. FreshAt /\ Len(R.entry.ids) = 1 /\ R.entry = BaseLineOf[id]
  BY <1>1 DEF SinkInv, NonEmptyInv, BoundsInv
<1>4. FreshIds = R.entry.ids
  BY <1>3 DEF FreshIds
<1>5. id \in LineId
  BY <1>3, <1>4, Flow DEF SinkInv
<1>6. BaseLineOf[id] = (IF script.cut = "i" /\ id[1] = "i" THEN Cut(Raw(id)) ELSE Raw(id))
  BY <1>5 DEF BaseLineOf
<1>7. LineOf[id] = (IF script.cut = "all" \/ script.cut = id[1] THEN Cut(Raw(id)) ELSE Raw(id))
  BY <1>5 DEF LineOf, Line, Raw
<1>8. Raw(id).ids = <<id>> /\ Cut(Raw(id)).ids = <<id>>
  BY CutParts, EntryParts DEF Raw
<1>9. script.cut \in {"none", "i", "all"} /\ id[1] \in {"i", "k"}
  BY <1>5, ScriptFacts DEF TypeInv, LineId, Src
<1>10. CASE script.cut = "all"
  BY <1>2, <1>3, <1>6, <1>7, <1>8, <1>10
<1>11. CASE script.cut # "all"
  BY <1>2, <1>3, <1>6, <1>7, <1>8, <1>9, <1>11
<1> QED BY <1>3, <1>10, <1>11

LEMMA ConcatBaseStep ==
  ASSUME TypeInv, WrittenInv, SinkInv, ConcatBase("sink")
  PROVE  SinkInv'
<1>1. /\ Pc = "concat" /\ Pc' = FromConcat /\ R' = Cutter("all", R) /\ R.kind # "end"
      /\ UNCHANGED <<inputVars, taken, failed, joiner, final, written>>
      /\ concatIdx' = IF R.kind = "entry" THEN concatIdx + 1 ELSE concatIdx
  BY DEF ConcatBase, At, Gives, TypeInv, Caller, R, Pc, sinkVars, IsEnd, Counted
<1>2. UNCHANGED inputVars /\ written' = written
  BY <1>1
<1>3. /\ script' = script /\ source' = source /\ script.join \in {"none", "i", "all"}
      /\ AllWritten' = AllWritten /\ Stream' = Stream /\ Starts' = Starts
      /\ LineOf' = LineOf /\ BaseLineOf' = BaseLineOf
      /\ Total("i") \in Nat /\ Total("k") \in Nat
      /\ Total("i")' = Total("i") /\ Total("k")' = Total("k")
      /\ (\A s : Joined(s)' <=> Joined(s)) /\ (FromZero' <=> FromZero)
  BY <1>2, Stays
<1>4. R.kind \in {"entry", "error"} /\ R = Result(R.kind, R.entry, R.idx)
  BY <1>1 DEF SinkInv, ShapeInv
<1>5. /\ R' = Result(R.kind, R'.entry, R.idx) /\ R'.kind = R.kind /\ R'.idx = R.idx
      /\ script.cut # "all" => R'.entry = R.entry
      /\ script.cut = "all" /\ R.kind = "entry" => R'.entry = Cut(R.entry)
  BY <1>1, <1>4 DEF Cutter, Result
<1>6. /\ FreshAt <=> script.join # "i"
      /\ MessageAt <=> script.join = "i"
      /\ FreshAt' <=> script.join = "all"
      /\ MessageAt' <=> script.join # "all"
      /\ Pc' = IF script.join = "all" THEN "joiner" ELSE "return"
  BY <1>1, <1>3 DEF FreshAt, MessageAt, FromConcat
<1>7. ASSUME script.join # "i", R.kind = "entry"
      PROVE  R'.entry.ids = R.entry.ids /\ Len(R.entry.ids) = 1 /\ R'.entry = LineOf[R.entry.ids[1]]
  BY <1>7, ConcatBaseEntry
<1>8. script.join = "i" => R'.entry = R.entry
  BY <1>5, ScriptFacts DEF TypeInv
<1>9. R.kind = "entry" => R'.entry.ids = R.entry.ids
  BY <1>7, <1>8
<1>10. script.join = "none" => ~StartDefined
  BY DEF SinkInv, JoinInv
<1>11. (StartDefined' <=> StartDefined) /\ JoinerIds' = JoinerIds /\ AllTaken' = AllTaken
       /\ (StartDefined => JoinerIds = joiner.start.ids)
  BY <1>1, <1>6 DEF StartDefined, JoinerIds, AllTaken
<1>12. /\ AllWritten \in Nat /\ AllTaken \in Nat /\ MessageEnd \in Nat /\ JoinerEnd \in Nat
       /\ MessageIds \in Seq(LineId) /\ JoinerIds \in Seq(LineId) /\ FreshIds \in Seq(LineId)
       /\ Len(MessageIds) = MessageEnd - AllWritten /\ Len(JoinerIds) = JoinerEnd - MessageEnd
       /\ Len(FreshIds) = AllTaken - JoinerEnd
       /\ taken["i"] \in Nat /\ taken["k"] \in Nat
  BY Flow DEF SinkInv
\* With no join the line that has come is the message on its way.
<1>13. ASSUME script.join = "none"
       PROVE  FlowInv' /\ NonEmptyInv' /\ IndexInv' /\ BoundsInv'
  <2>1. /\ MessageIds = <<>> /\ JoinerIds = <<>> /\ JoinerIds' = <<>> /\ FreshIds' = <<>>
        /\ MessageIds' = FreshIds
    BY <1>1, <1>5, <1>6, <1>9, <1>10, <1>11, <1>13 DEF MessageIds, JoinerIds, FreshIds
  <2>2. MessageEnd = AllWritten /\ JoinerEnd = AllWritten /\ Len(FreshIds) = AllTaken - AllWritten
    <3>1. Len(MessageIds) = 0 /\ Len(JoinerIds) = 0
      BY <2>1
    <3> QED BY <1>12, <3>1
  <2>3. MessageEnd' = AllTaken /\ JoinerEnd' = AllTaken
    <3>1. MessageEnd' = AllWritten + Len(FreshIds)
      BY <1>3, <2>1 DEF MessageEnd
    <3>2. JoinerEnd' = MessageEnd' + 0
      BY <2>1 DEF JoinerEnd
    <3> QED BY <1>12, <2>2, <3>1, <3>2
  <2>4. FlowInv'
    <3>1. Covers(FreshIds, AllWritten, AllTaken)
      BY <2>2 DEF SinkInv, FlowInv
    <3>2. Covers(MessageIds, AllWritten, MessageEnd)'
      BY <1>3, <1>11, <2>1, <2>3, <3>1 DEF Covers
    <3>3. Covers(JoinerIds, MessageEnd, JoinerEnd)' /\ Covers(FreshIds, JoinerEnd, AllTaken)'
      <4>1. <<>> \in Seq(LineId) /\ Len(<<>>) = 0 /\ AllTaken - AllTaken = 0
        BY <1>12
      <4> QED BY <1>11, <2>1, <2>3, <4>1 DEF Covers
    <3> QED BY <3>2, <3>3 DEF FlowInv
  <2>5. NonEmptyInv'
    BY <1>5, <1>6, <1>7, <1>10, <1>11, <1>13 DEF NonEmptyInv
  <2>6. IndexInv'
    <3>1. SUFFICES ASSUME FromZero PROVE IndexInv'
      BY <1>3 DEF IndexInv
    <3>2. concatIdx = IF R.kind = "entry" THEN taken["i"] - 1 ELSE taken["i"]
      BY <1>1, <3>1 DEF SinkInv, IndexInv
    <3>3. R.kind = "entry" => R.idx = AllWritten
      BY <1>6, <1>13, <2>2, <3>1 DEF SinkInv, IndexInv
    <3>4. concatIdx' = taken'["i"]
      BY <1>1, <1>12, <3>2
    <3> QED BY <1>3, <1>5, <1>6, <1>10, <1>11, <1>13, <3>3, <3>4 DEF IndexInv
  <2>7. BoundsInv'
    <3>1. R.kind = "entry" => script'.join # "all" /\ script'.join # R'.entry.ids[1][1]
      <4>1. R.kind = "entry" => R'.entry.ids[1] \in LineId
        <5>1. R.kind = "entry" => FreshIds = R.entry.ids
          BY <1>6, <1>13 DEF FreshIds
        <5> QED BY <1>7, <1>9, <1>12, <1>13, <5>1
      <4>2. R.kind = "entry" => R'.entry.ids[1][1] \in {"i", "k"}
        BY <4>1 DEF LineId, Src
      <4> QED BY <1>3, <1>13, <4>2
    <3>2. Pc' = "return" /\ ~FreshAt' /\ ~StartDefined' /\ script'.join = "none"
      BY <1>3, <1>6, <1>10, <1>11, <1>13
    <3>3. R.kind = "entry" => /\ NoOtherStart(R.entry.ids)'
                              /\ MayBeginAfter(AllWritten, R.entry.ids[1])'
      BY <1>7, <1>13, <3>1 DEF NoOtherStart, MayBeginAfter, Joined
    <3> QED BY <1>5, <3>2, <3>3 DEF BoundsInv
  <2> QED BY <2>4, <2>5, <2>6, <2>7
\* With one nothing moves on.
<1>14. ASSUME script.join # "none"
       PROVE  FlowInv' /\ NonEmptyInv' /\ IndexInv' /\ BoundsInv'
  <2>1. MessageIds' = MessageIds /\ FreshIds' = FreshIds
    BY <1>1, <1>3, <1>5, <1>6, <1>8, <1>9, <1>14 DEF MessageIds, FreshIds
  <2>2. MessageEnd' = MessageEnd /\ JoinerEnd' = JoinerEnd
    BY <1>3, <1>11, <2>1 DEF MessageEnd, JoinerEnd
  <2>3. FlowInv'
    BY <1>3, <1>11, <2>1, <2>2 DEF SinkInv, FlowInv, Covers
  <2>4. NonEmptyInv'
    BY <1>1, <1>3, <1>5, <1>6, <1>7, <1>8, <1>11, <1>14 DEF SinkInv, NonEmptyInv
  <2>5. IndexInv'
    <3>1. SUFFICES ASSUME FromZero PROVE IndexInv'
      BY <1>3 DEF IndexInv
    <3>2. script.join = "all"
      BY <1>3, <1>14, <3>1 DEF FromZero
    <3>3. concatIdx = IF R.kind = "entry" THEN taken["i"] - 1 ELSE taken["i"]
      BY <1>1, <3>1 DEF SinkInv, IndexInv
    <3>4. concatIdx' = taken'["i"]
      BY <1>1, <1>12, <3>3
    <3> QED BY <1>1, <1>3, <1>5, <1>6, <1>11, <2>2, <3>1, <3>2, <3>4 DEF SinkInv, IndexInv
  <2>6. BoundsInv'
    <3>1. CASE script.join = "i"
      BY <1>1, <1>3, <1>5, <1>6, <1>8, <1>11, <2>2, <3>1 DEF SinkInv, BoundsInv, NoOtherStart, MayBeginAfter
    <3>2. CASE script.join = "all"
      <4>1. Pc' = "joiner" /\ ~MessageAt' /\ script'.join = "all" /\ joiner' = joiner
        BY <1>1, <1>3, <1>6, <3>2
      <4>2. R'.kind = "entry" => R'.entry = LineOf'[R'.entry.ids[1]]
        BY <1>3, <1>5, <1>7, <3>2
      <4>3. StartDefined => /\ NoOtherStart(joiner.start.ids)
                            /\ MayBeginAfter(MessageEnd, joiner.start.ids[1])
        BY <1>1 DEF SinkInv, BoundsInv
      <4>4. StartDefined => /\ NoOtherStart(joiner.start.ids)'
                            /\ MayBeginAfter(MessageEnd, joiner.start.ids[1])'
        BY <1>3, <2>2, <4>1, <4>3 DEF NoOtherStart, MayBeginAfter, Joined
      <4>5. ~StartDefined /\ JoinerEnd > 0 => \/ JoinerEnd = Total("i") /\ "i" \in failed /\ source["i"].fails = "scan"
                                              \/ JoinerEnd = Total("i") + Total("k")
        BY <1>1, <3>2 DEF SinkInv, BoundsInv
      <4> QED BY <1>1, <1>3, <1>11, <2>2, <4>1, <4>2, <4>4, <4>5 DEF BoundsInv
    <3> QED BY <1>3, <1>14, <3>1, <3>2
  <2> QED BY <2>3, <2>4, <2>5, <2>6
<1>15. (Exhausted("i")' <=> Exhausted("i")) /\ (Exhausted("k")' <=> Exhausted("k"))
  BY <1>1, <1>3 DEF Exhausted, Fails
<1>16. SourceInv'
  BY <1>1, <1>3, <1>15 DEF SinkInv, SourceInv, Total
<1>17. ShapeInv'
  BY <1>1, <1>4, <1>5, <1>6 DEF SinkInv, ShapeInv
<1>18. JoinInv'
  BY <1>1, <1>3, <1>5, <1>6, <1>11 DEF SinkInv, JoinInv
<1>19. EndInv'
  BY <1>1, <1>3, <1>4, <1>5, <1>6, <1>15 DEF SinkInv, EndInv
<1>20. FailInv'
  BY <1>1, <1>3, <1>5, <1>6, <1>11 DEF SinkInv, FailInv, ErrorAhead, JoinedBefore
<1> QED BY <1>13, <1>14, <1>16, <1>17, <1>18, <1>19, <1>20 DEF SinkInv

LEMMA ConcatNextStep ==
  ASSUME TypeInv, WrittenInv, SinkInv, ConcatNext("sink")
  PROVE  SinkInv'
<1> DEFINE id == <<"k", taken["k"] + 1>>
<1>1. /\ Pc = "concat" /\ Pc' = FromConcat /\ R.kind = "end"
      /\ R' = Cutter("all", Shifted(Outcome("k")))
      /\ UNCHANGED <<inputVars, concatIdx, joiner, final, written>> /\ Advance("k")
  BY DEF ConcatNext, At, Gives, TypeInv, Caller, R, Pc, sinkVars, IsEnd
<1>2. UNCHANGED inputVars /\ written' = written
  BY <1>1
<1>3. /\ script' = script /\ source' = source /\ script.join \in {"none", "i", "all"}
      /\ AllWritten' = AllWritten /\ Stream' = Stream /\ Starts' = Starts
      /\ LineOf' = LineOf /\ BaseLineOf' = BaseLineOf
      /\ Total("i") \in Nat /\ Total("k") \in Nat
      /\ Total("i")' = Total("i") /\ Total("k")' = Total("k")
      /\ (\A s : Joined(s)' <=> Joined(s)) /\ (FromZero' <=> FromZero)
  BY <1>2, Stays
<1>4. /\ FreshAt \/ MessageAt
      /\ FreshAt' <=> script.join = "all"
      /\ MessageAt' <=> script.join # "all"
      /\ Pc' = IF script.join = "all" THEN "joiner" ELSE "return"
  BY <1>1, <1>3 DEF FreshAt, MessageAt, FromConcat
<1>5. Exhausted("i") /\ taken["i"] = Total("i")
  BY <1>1, <1>4 DEF SinkInv, EndInv, Exhausted, Fails, Total
<1>6. script.join # "all" => ~StartDefined
  BY <1>1, <1>3 DEF SinkInv, JoinInv
<1>7. (StartDefined' <=> StartDefined) /\ JoinerIds' = JoinerIds
       /\ (StartDefined => JoinerIds = joiner.start.ids) /\ (~StartDefined => JoinerIds = <<>>)
  BY <1>1, <1>4 DEF StartDefined, JoinerIds
<1>8. MessageIds = <<>> /\ FreshIds = <<>>
  BY <1>1 DEF MessageIds, FreshIds
<1>9. /\ AllWritten \in Nat /\ AllTaken \in Nat /\ MessageEnd \in Nat /\ JoinerEnd \in Nat
      /\ MessageEnd = AllWritten /\ JoinerEnd = AllTaken /\ Len(JoinerIds) = JoinerEnd - MessageEnd
      /\ taken["i"] \in Nat /\ taken["k"] \in Nat /\ taken["k"] <= Total("k") /\ AllTaken = Total("i") + taken["k"]
  <2>1. Len(MessageIds) = 0 /\ Len(FreshIds) = 0
    BY <1>8
  <2>2. AllTaken = Total("i") + taken["k"]
    BY <1>5 DEF AllTaken
  <2> QED BY <2>1, <2>2, Flow DEF SinkInv
<1>10. script.join # "all" => JoinerEnd = MessageEnd
  <2>1. script.join # "all" => Len(JoinerIds) = 0
    BY <1>6, <1>7
  <2> QED BY <1>9, <2>1
<1>11. script.join = "all" => MessageIds' = <<>> /\ MessageEnd' = MessageEnd /\ JoinerEnd' = JoinerEnd
  <2>1. script.join = "all" => MessageIds' = <<>>
    BY <1>4 DEF MessageIds
  <2> QED BY <1>3, <1>7, <1>8, <2>1 DEF MessageEnd, JoinerEnd
<1>12. ASSUME GivesEntry("k") PROVE SinkInv'
  <2>1. /\ R' = Result("entry", R'.entry, R'.idx) /\ R'.kind = "entry" /\ R'.entry.ids = <<id>>
        /\ R'.idx = source["k"].first + taken["k"] + concatIdx /\ R'.entry = LineOf[id]
    BY <1>1, <1>12, NextResult
  <2>2. /\ taken' = [taken EXCEPT !["k"] = taken["k"] + 1] /\ failed' = failed
        /\ taken["k"] + 1 <= Total("k") 
    BY <1>12 DEF GivesEntry
  <2>3. taken'["i"] = taken["i"] /\ taken'["k"] = taken["k"] + 1 /\ AllTaken' = AllTaken + 1
    BY <1>9, <2>2 DEF TypeInv, Src, AllTaken
  <2>4. id = Stream[AllTaken + 1] /\ id \in LineId /\ id[1] = "k"
    <3>1. Len(Stream) = Total("i") + Total("k") /\ taken["k"] + 1 <= Total("k")
      BY <2>2, StreamFacts DEF TypeInv
    <3>2. AllTaken + 1 \in 1..Len(Stream)
      BY <1>3, <1>9, <3>1, SMTT(30)
    <3>3. PICK q \in 1..Len(Stream) : q = AllTaken + 1
      BY <3>2
    <3>9. q = (Total("i") + taken["k"]) + 1 /\ Total("i") \in Nat /\ taken["k"] \in Nat
      BY <1>3, <1>9, <3>3
    <3>4. ~(q <= Total("i")) /\ q - Total("i") = taken["k"] + 1
      BY <3>9
    <3>5. /\ Stream[q] = IF q <= Total("i") THEN <<"i", q>> ELSE <<"k", q - Total("i")>>
          /\ Stream[q] \in LineId
      BY StreamFacts DEF TypeInv
    <3>6. Stream[q] = id
      BY <3>4, <3>5
    <3> QED BY <3>3, <3>5, <3>6
  <2>5. <<id>> \in Seq(LineId) /\ Len(<<id>>) = 1 /\ <<id>>[1] = id
    BY <2>4
  <2>6. Exhausted("i")'
    BY <1>3, <1>5, <2>2, <2>3 DEF Exhausted, Fails
  <2>7. SourceInv'
    <3>1. "k" \notin failed
      BY <1>3, <1>9, <2>2 DEF SinkInv, SourceInv
    <3>2. \A s \in failed' : source[s].fails # "never" /\ taken'[s] = Total(s)
      BY <2>2, <2>3, <3>1 DEF SinkInv, SourceInv, TypeInv, Src
    <3> QED BY <1>3, <2>6, <3>2 DEF SourceInv, Total
  <2>8. ShapeInv' /\ NonEmptyInv' /\ EndInv'
    <3>1. Pc' \in {"joiner", "return"} /\ joiner' = joiner
      BY <1>1, <1>4
    <3>2. ShapeInv'
      BY <2>1, <3>1 DEF SinkInv, ShapeInv
    <3>3. NonEmptyInv'
      BY <1>7, <2>1, <2>5, <3>1 DEF SinkInv, NonEmptyInv
    <3>4. EndInv'
      BY <2>1 DEF EndInv
    <3> QED BY <3>2, <3>3, <3>4
  <2>9. JoinInv'
    BY <1>3, <1>4, <1>6, <1>7 DEF JoinInv
  <2>10. FailInv'
    <3>1. ~ErrorAhead
      BY <1>1 DEF ErrorAhead
    <3>2. \A s \in failed : source[s].fails = "scan" => Joined(s) /\ JoinedBefore
      BY <3>1 DEF SinkInv, FailInv
    <3>3. ASSUME JoinedBefore PROVE JoinedBefore'
      <4>1. PICK p \in 1..AllTaken : Joined(Stream[p][1])
        BY <3>3 DEF JoinedBefore
      <4>2. p \in 1..AllTaken'
        BY <1>9, <2>3
      <4>3. Joined(Stream[p][1])'
        BY <1>3, <4>1
      <4> QED BY <4>2, <4>3 DEF JoinedBefore
    <3> QED BY <1>3, <2>2, <3>2, <3>3 DEF FailInv
  <2>11. FromZero => R'.idx = AllTaken /\ concatIdx' = taken'["i"]
    BY <1>1, <1>5, <1>9, <2>1, <2>3, SMTT(30) DEF SinkInv, IndexInv, FromZero, Src
  <2>12. CASE script.join = "all"
    <3>1. FreshIds' = <<id>>
      BY <1>4, <2>1, <2>12 DEF FreshIds
    <3>2. FlowInv'
      <4>1. Covers(MessageIds, AllWritten, MessageEnd)' /\ Covers(JoinerIds, MessageEnd, JoinerEnd)'
        BY <1>3, <1>7, <1>8, <1>11, <2>12 DEF SinkInv, FlowInv, Covers
      <4>2. AllTaken' - JoinerEnd' = 1 /\ JoinerEnd' = AllTaken
        BY <1>9, <1>11, <2>3, <2>12
      <4>3. Covers(FreshIds, JoinerEnd, AllTaken)'
        <5> HIDE DEF id
        <5> QED BY <1>3, <2>4, <2>5, <3>1, <4>2 DEF Covers
      <4> QED BY <4>1, <4>3 DEF FlowInv
    <3>3. IndexInv'
      BY <1>1, <1>3, <1>4, <1>7, <1>9, <1>11, <2>11, <2>12 DEF SinkInv, IndexInv
    <3>4. BoundsInv'
      <4>1. Pc' = "joiner" /\ ~MessageAt' /\ script'.join = "all" /\ joiner' = joiner
        BY <1>1, <1>3, <1>4, <2>12
      <4>2. R'.entry = LineOf'[R'.entry.ids[1]]
        BY <1>3, <2>1, <2>5
      <4>3. StartDefined => /\ NoOtherStart(joiner.start.ids)
                            /\ MayBeginAfter(MessageEnd, joiner.start.ids[1])
        BY <1>1 DEF SinkInv, BoundsInv
      <4>4. StartDefined => /\ NoOtherStart(joiner.start.ids)'
                            /\ MayBeginAfter(MessageEnd, joiner.start.ids[1])'
        BY <1>3, <1>11, <2>12, <4>1, <4>3 DEF NoOtherStart, MayBeginAfter, Joined
      <4>5. ~StartDefined /\ JoinerEnd > 0 => \/ JoinerEnd = Total("i") /\ "i" \in failed /\ source["i"].fails = "scan"
                                              \/ JoinerEnd = Total("i") + Total("k")
        BY <1>1, <2>12 DEF SinkInv, BoundsInv
      <4> QED BY <1>3, <1>7, <1>11, <2>2, <2>12, <4>1, <4>2, <4>4, <4>5 DEF BoundsInv
    <3> QED BY <2>7, <2>8, <2>9, <2>10, <3>2, <3>3, <3>4 DEF SinkInv
  <2>13. CASE script.join # "all"
    <3>1. MessageIds' = <<id>> /\ FreshIds' = <<>> /\ JoinerIds' = <<>>
      BY <1>4, <1>6, <1>7, <2>1, <2>13 DEF FreshIds, MessageIds
    <3>2. MessageEnd' = AllTaken + 1 /\ JoinerEnd' = AllTaken + 1
      <4>1. MessageEnd' = AllWritten + 1
        BY <1>3, <2>5, <3>1 DEF MessageEnd
      <4>2. JoinerEnd' = MessageEnd' + 0
        BY <3>1 DEF JoinerEnd
      <4> QED BY <1>9, <1>10, <2>13, <4>1, <4>2
    <3>3. AllWritten = AllTaken
      BY <1>9, <1>10, <2>13
    <3>4. FlowInv'
      <4>1. Covers(MessageIds, AllWritten, MessageEnd)'
        <5>1. MessageEnd' - AllWritten' = 1
          <6>1. AllWritten' = AllTaken /\ MessageEnd' = AllTaken + 1 /\ AllTaken \in Nat
            BY <1>3, <1>9, <3>2, <3>3
          <6> QED BY <6>1
        <5> HIDE DEF id
        <5> QED BY <1>3, <2>4, <2>5, <3>1, <3>3, <5>1 DEF Covers
      <4>2. Covers(JoinerIds, MessageEnd, JoinerEnd)' /\ Covers(FreshIds, JoinerEnd, AllTaken)'
        <5>1. <<>> \in Seq(LineId) /\ Len(<<>>) = 0 /\ (AllTaken + 1) - (AllTaken + 1) = 0
          BY <1>9
        <5> QED BY <2>3, <3>1, <3>2, <5>1 DEF Covers
      <4> QED BY <4>1, <4>2 DEF FlowInv
    <3>5. IndexInv'
      BY <1>3, <1>4, <1>6, <1>7, <2>11, <2>13, <3>3 DEF IndexInv
    <3>6. BoundsInv'
      <4>1. Pc' = "return" /\ ~FreshAt' /\ ~StartDefined' /\ script'.join = script.join
        BY <1>3, <1>4, <1>6, <1>7, <2>13
      <4>2. NoOtherStart(R.entry.ids)' /\ MayBeginAfter(AllWritten, R.entry.ids[1])'
        BY <1>3, <2>1, <2>4, <2>5, <2>13 DEF NoOtherStart, MayBeginAfter, Joined
      <4>3. JoinerEnd' >= Total("i")'
        BY <1>3, <1>9, <3>2, SMTT(30)
      <4> QED BY <1>3, <2>13, <4>1, <4>2, <4>3 DEF BoundsInv
    <3> QED BY <2>7, <2>8, <2>9, <2>10, <3>4, <3>5, <3>6 DEF SinkInv
  <2> QED BY <2>12, <2>13
<1>13. ASSUME GivesEnd("k") \/ GivesError("k") PROVE SinkInv'
  <2>1. /\ R' = Result(R'.kind, R'.entry, R'.idx)
        /\ GivesEnd("k") => R'.kind = "end"
        /\ GivesError("k") => R'.kind = "error"
    <3>1. (GivesEnd("k") => R' = End) /\ (GivesError("k") => R' = Err)
      BY <1>1, NextResult
    <3> QED BY <1>13, <3>1 DEF End, Err, Result
  <2>2. /\ taken' = taken /\ failed' \in {failed, failed \cup {"k"}}
        /\ taken["k"] = Total("k")
        /\ GivesEnd("k") => \/ failed' = failed /\ Exhausted("k")
                            \/ failed' = failed \cup {"k"} /\ source["k"].fails = "next"
        /\ GivesError("k") => /\ source["k"].fails = "scan" /\ "k" \notin failed
                              /\ failed' = failed \cup {"k"}
    BY <1>13 DEF GivesEnd, GivesError
  <2>3. /\ R'.kind \in {"end", "error"} /\ FreshIds' = <<>> /\ MessageIds' = <<>>
        /\ AllTaken' = AllTaken /\ Pc' # "clear"
    BY <1>4, <1>13, <2>1, <2>2 DEF FreshIds, MessageIds, AllTaken
  <2>4. MessageEnd' = MessageEnd /\ JoinerEnd' = JoinerEnd
    BY <1>3, <1>7, <1>8, <2>3 DEF MessageEnd, JoinerEnd
  <2>5. Exhausted("i")' /\ (GivesEnd("k") => Exhausted("k")')
    BY <1>3, <1>5, <2>2 DEF Exhausted, Fails, Total
  <2>6. SourceInv'
    <3>1. \A s \in failed' : source[s].fails # "never" /\ taken[s] = Total(s)
      BY <1>13, <2>2 DEF SinkInv, SourceInv
    <3> QED BY <1>3, <2>2, <2>5, <3>1 DEF SourceInv, Total
  <2>7. FlowInv'
    BY <1>3, <1>7, <1>8, <2>3, <2>4 DEF SinkInv, FlowInv, Covers
  <2>8. ShapeInv' /\ NonEmptyInv'
    BY <1>1, <1>7, <2>1, <2>3 DEF SinkInv, ShapeInv, NonEmptyInv
  <2>9. JoinInv'
    BY <1>3, <1>4, <1>6, <1>7 DEF JoinInv
  <2>10. EndInv'
    BY <1>3, <1>4, <1>5, <1>6, <1>7, <1>13, <2>1, <2>2, <2>5 DEF EndInv
  <2>11. FailInv'
    <3>1. ~ErrorAhead /\ (GivesError("k") => ErrorAhead')
      BY <1>1, <1>4, <2>1 DEF ErrorAhead
    <3> QED BY <1>3, <1>13, <2>2, <2>3, <3>1 DEF SinkInv, FailInv, JoinedBefore
  <2>12. IndexInv'
    BY <1>1, <1>3, <1>7, <2>2, <2>3, <2>4 DEF SinkInv, IndexInv
  <2>13. BoundsInv'
    <3>1. joiner' = joiner /\ script' = script
      BY <1>1, <1>3
    <3>2. StartDefined => /\ NoOtherStart(joiner.start.ids)'
                          /\ MayBeginAfter(MessageEnd, joiner.start.ids[1])'
      BY <1>1, <1>3, <2>4, <3>1 DEF SinkInv, BoundsInv, NoOtherStart, MayBeginAfter, Joined
    <3> QED BY <1>1, <1>3, <1>7, <2>2, <2>3, <2>4, <3>1, <3>2 DEF SinkInv, BoundsInv
  <2> QED BY <2>6, <2>7, <2>8, <2>9, <2>10, <2>11, <2>12, <2>13 DEF SinkInv
<1> QED BY <1>1, <1>12, <1>13, Answers DEF Src

\* The joiner takes the lines for starts that the documentation calls starts.
LEMMA StartLines ==
  ASSUME NEW id \in LineId, NEW entry, entry = LineOf[id]
  PROVE  IsStart(entry) <=> id \in Starts
<1>1. entry = Line(id)
  BY DEF LineOf
<1> QED BY <1>1 DEF IsStart, StartRegex, Starts, StartLine

\* The line that has just come to the joiner.
LEMMA FreshLine ==
  ASSUME TypeInv, WrittenInv, SinkInv, FreshAt, R.kind = "entry", NEW id, id = R.entry.ids[1]
  PROVE  /\ R.entry.ids = <<id>> /\ FreshIds = <<id>> /\ AllTaken = JoinerEnd + 1
         /\ id = Stream[JoinerEnd + 1] /\ JoinerEnd + 1 \in 1..Len(Stream) /\ id \in LineId
         /\ id = IF JoinerEnd + 1 <= Total("i") THEN <<"i", JoinerEnd + 1>>
                 ELSE <<"k", JoinerEnd + 1 - Total("i")>>
         /\ Pc # "concat" => R.entry = LineOf[id]
<1>1. FreshIds = R.entry.ids /\ Len(R.entry.ids) = 1
  BY DEF FreshIds, SinkInv, NonEmptyInv
<1>2. /\ AllTaken \in Nat /\ JoinerEnd \in Nat /\ FreshIds \in Seq(LineId)
      /\ Len(FreshIds) = AllTaken - JoinerEnd /\ AllTaken <= Len(Stream)
  BY Flow DEF SinkInv
<1>3. R.entry.ids = <<id>> /\ id \in LineId /\ AllTaken = JoinerEnd + 1
  <2>1. R.entry.ids \in Seq(LineId) /\ Len(R.entry.ids) = 1
    BY <1>1, <1>2
  <2>2. R.entry.ids = <<id>> /\ id \in LineId
    BY <2>1
  <2>3. AllTaken - JoinerEnd = 1
    BY <1>1, <1>2
  <2> QED BY <1>2, <2>2, <2>3
<1>4. JoinerEnd + 1 \in 1..Len(Stream)
  <2>1. Len(Stream) \in Int
    BY StreamFacts DEF TypeInv
  <2> QED BY <1>2, <1>3, <2>1
<1>5. id = Stream[JoinerEnd + 1]
  <2>1. \A k \in 1..(AllTaken - JoinerEnd) : FreshIds[k] = Stream[JoinerEnd + k]
    BY DEF SinkInv, FlowInv, Covers
  <2>2. 1 \in 1..(AllTaken - JoinerEnd)
    BY <1>2, <1>3
  <2>3. FreshIds[1] = Stream[JoinerEnd + 1]
    BY <2>1, <2>2
  <2> QED BY <1>1, <2>3
<1>6. PICK q \in 1..Len(Stream) : q = JoinerEnd + 1
  BY <1>4
<1>7. Stream[q] = IF q <= Total("i") THEN <<"i", q>> ELSE <<"k", q - Total("i")>>
  BY StreamFacts DEF TypeInv
<1>8. id = IF JoinerEnd + 1 <= Total("i") THEN <<"i", JoinerEnd + 1>>
           ELSE <<"k", JoinerEnd + 1 - Total("i")>>
  <2>1. id = Stream[q]
    BY <1>5, <1>6
  <2>2. CASE q <= Total("i")
    BY <1>6, <1>7, <2>1, <2>2
  <2>3. CASE ~(q <= Total("i"))
    <3>1. id = <<"k", q - Total("i")>>
      BY <1>7, <2>1, <2>3
    <3>2. ~(JoinerEnd + 1 <= Total("i")) /\ q - Total("i") = JoinerEnd + 1 - Total("i")
      <4>1. JoinerEnd \in Nat /\ Total("i") \in Nat
        BY <1>2, StreamFacts DEF TypeInv
      <4> QED BY <1>6, <2>3, <4>1
    <3> QED BY <3>1, <3>2
  <2> QED BY <2>2, <2>3
<1>9. Pc # "concat" => R.entry = LineOf[id]
  BY DEF SinkInv, BoundsInv
<1> QED BY <1>1, <1>3, <1>4, <1>5, <1>8, <1>9

LEMMA JoinerCollectStep ==
  ASSUME TypeInv, PhaseInv, WrittenInv, SinkInv, JoinerCollect("sink")
  PROVE  SinkInv'
<1> DEFINE id == R.entry.ids[1]
<1>1. /\ Pc = "joiner" /\ Pc' = "base" /\ R' = R /\ R.kind = "entry"
      /\ UNCHANGED <<inputVars, taken, failed, concatIdx, final, written>>
      /\ joiner' = IF StartDefined THEN AppendMessage(R) ELSE SetStart(joiner, R)
      /\ StartDefined => ~IsStart(R.entry)
  BY DEF JoinerCollect, At, TypeInv, Caller, R, Pc, sinkVars
<1>2. UNCHANGED inputVars /\ written' = written
  BY <1>1
<1>3. /\ script' = script /\ source' = source /\ script.join \in {"none", "i", "all"}
      /\ AllWritten' = AllWritten /\ Stream' = Stream /\ Starts' = Starts
      /\ Total("i") \in Nat /\ Total("k") \in Nat
      /\ Total("i")' = Total("i") /\ Total("k")' = Total("k")
      /\ (\A s : Joined(s)' <=> Joined(s)) /\ (FromZero' <=> FromZero)
  BY <1>2, Stays
<1>4. FreshAt /\ ~FreshAt' /\ ~MessageAt /\ ~MessageAt' /\ script.join # "none"
  BY <1>1 DEF FreshAt, MessageAt, PhaseInv, Pc, Caller
<1>5. /\ R.entry.ids = <<id>> /\ FreshIds = <<id>> /\ AllTaken = JoinerEnd + 1
      /\ id = Stream[JoinerEnd + 1] /\ JoinerEnd + 1 \in 1..Len(Stream) /\ id \in LineId
      /\ id = IF JoinerEnd + 1 <= Total("i") THEN <<"i", JoinerEnd + 1>>
              ELSE <<"k", JoinerEnd + 1 - Total("i")>>
      /\ R.entry = LineOf[id]
  BY <1>1, <1>4, FreshLine
<1>6. /\ MessageIds = <<>> /\ MessageIds' = <<>> /\ FreshIds' = <<>>
      /\ JoinerIds = IF StartDefined THEN joiner.start.ids ELSE <<>>
  BY <1>1, <1>4 DEF MessageIds, FreshIds, JoinerIds
<1>7. /\ AllWritten \in Nat /\ AllTaken \in Nat /\ MessageEnd \in Nat /\ JoinerEnd \in Nat
      /\ JoinerIds \in Seq(LineId) /\ Len(JoinerIds) = JoinerEnd - MessageEnd
      /\ MessageEnd = AllWritten
      /\ taken["i"] \in Nat /\ taken["k"] \in Nat
      /\ taken["i"] <= Total("i") /\ taken["k"] <= Total("k") /\ AllTaken = taken["i"] + taken["k"]
  <2>1. Len(MessageIds) = 0
    BY <1>6
  <2> QED BY <2>1, Flow DEF SinkInv, AllTaken
<1>8. AllTaken' = AllTaken /\ MessageEnd' = MessageEnd
  BY <1>1, <1>3, <1>6 DEF AllTaken, MessageEnd
\* The line is at the end of the message that is being collected.
<1>9. /\ joiner' = [start |-> joiner'.start, msg |-> joiner'.msg, idx |-> joiner'.idx]
      /\ joiner'.start = [ids |-> joiner'.start.ids, msg |-> joiner'.start.msg,
                          fields |-> joiner'.start.fields]
      /\ joiner'.start.ids = JoinerIds \o <<id>>
      /\ joiner'.idx = IF StartDefined THEN joiner.idx ELSE R.idx
  <2>1. CASE StartDefined
    <3>1. /\ joiner = [start |-> joiner.start, msg |-> joiner.msg, idx |-> joiner.idx]
          /\ joiner.start = [ids |-> joiner.start.ids, msg |-> joiner.start.msg,
                             fields |-> joiner.start.fields]
      BY DEF SinkInv, ShapeInv
    <3>2. joiner' = [joiner EXCEPT !.start.ids = @ \o R.entry.ids, !.msg = @ \o R.entry.msg]
      BY <1>1, <2>1 DEF AppendMessage
    <3>3. joiner' = [start |-> [ids |-> joiner.start.ids \o R.entry.ids, msg |-> joiner.start.msg,
                                fields |-> joiner.start.fields],
                     msg |-> joiner.msg \o R.entry.msg, idx |-> joiner.idx]
      BY <3>1, <3>2
    <3> QED BY <1>5, <1>6, <2>1, <3>3
  <2>2. CASE ~StartDefined
    <3>1. joiner'.start = R.entry /\ joiner'.idx = R.idx
          /\ joiner' = [start |-> joiner'.start, msg |-> joiner'.msg, idx |-> joiner'.idx]
      BY <1>1, <2>2 DEF SetStart
    <3>2. LineOf[id] = IF script.cut = "all" \/ script.cut = id[1] THEN Cut(Raw(id)) ELSE Raw(id)
      BY <1>5 DEF LineOf, Line, Raw
    <3>3. R.entry = [ids |-> R.entry.ids, msg |-> R.entry.msg, fields |-> R.entry.fields]
      BY <1>5, <3>2, CutParts, EntryParts DEF Raw
    <3>4. JoinerIds \o <<id>> = <<id>>
      BY <1>6, <2>2
    <3> QED BY <1>5, <2>2, <3>1, <3>3, <3>4
  <2> QED BY <2>1, <2>2
<1>10. /\ JoinerIds \o <<id>> \in Seq(LineId) /\ Len(JoinerIds \o <<id>>) = Len(JoinerIds) + 1
       /\ \A k \in 1..Len(JoinerIds) : (JoinerIds \o <<id>>)[k] = JoinerIds[k]
       /\ (JoinerIds \o <<id>>)[Len(JoinerIds) + 1] = id
  <2>1. <<id>> \in Seq(LineId) /\ Len(<<id>>) = 1 /\ <<id>>[1] = id
    BY <1>5
  <2> HIDE DEF id
  <2> QED BY <1>7, <2>1, ConcatProperties, SMTT(30)
<1> HIDE DEF id
<1>11. StartDefined' /\ JoinerIds' = JoinerIds \o <<id>> /\ JoinerEnd' = AllTaken
  <2>1. Len(JoinerIds) \in Nat /\ joiner'.start.ids # <<>>
    BY <1>7, <1>9, <1>10, LenProperties
  <2>2. StartDefined'
    BY <2>1 DEF StartDefined, NoEntry, Entry
  <2>3. JoinerIds' = JoinerIds \o <<id>>
    BY <1>1, <1>9, <2>2 DEF JoinerIds
  <2>4. JoinerEnd' = MessageEnd' + Len(JoinerIds')
    BY DEF JoinerEnd
  <2> QED BY <1>5, <1>7, <1>8, <1>10, <2>2, <2>3, <2>4, SMTT(30)
<1>12. SourceInv' /\ EndInv' /\ FailInv'
  BY <1>1, <1>3, <1>4, <1>8 DEF SinkInv, SourceInv, EndInv, FailInv, ErrorAhead, JoinedBefore, Exhausted, Fails, Total
<1>13. FlowInv'
  <2>1. Covers(JoinerIds, MessageEnd, JoinerEnd)
    BY DEF SinkInv, FlowInv
  <2>2. Covers(JoinerIds, MessageEnd, JoinerEnd)'
    <3>1. AllTaken - MessageEnd = Len(JoinerIds) + 1
      BY <1>5, <1>7
    <3>2. \A k \in 1..(AllTaken - MessageEnd) : (JoinerIds \o <<id>>)[k] = Stream[MessageEnd + k]
      <4> TAKE k \in 1..(AllTaken - MessageEnd)
      <4>1. CASE k \in 1..Len(JoinerIds)
        BY <1>7, <1>10, <2>1, <4>1 DEF Covers
      <4>2. CASE k = Len(JoinerIds) + 1
        <5>1. MessageEnd + k = JoinerEnd + 1
          BY <1>7, <4>2
        <5> QED BY <1>5, <1>10, <4>2, <5>1
      <4>3. k \in 1..Len(JoinerIds) \/ k = Len(JoinerIds) + 1
        BY <1>7, <3>1
      <4> QED BY <4>1, <4>2, <4>3
    <3> QED BY <1>3, <1>8, <1>10, <1>11, <3>1, <3>2 DEF Covers
  <2>3. Covers(MessageIds, AllWritten, MessageEnd)' /\ Covers(FreshIds, JoinerEnd, AllTaken)'
    <3>1. <<>> \in Seq(LineId) /\ Len(<<>>) = 0 /\ AllTaken - AllTaken = 0 /\ AllWritten - AllWritten = 0
      BY <1>7
    <3> QED BY <1>3, <1>6, <1>7, <1>8, <1>11, <3>1 DEF Covers
  <2> QED BY <2>2, <2>3 DEF FlowInv
<1>14. ShapeInv' /\ NonEmptyInv' /\ JoinInv'
  <2>1. ShapeInv'
    BY <1>1, <1>9 DEF SinkInv, ShapeInv
  <2>2. NonEmptyInv'
    <3>1. Len(joiner'.start.ids) >= 1
      BY <1>7, <1>9, <1>10, LenProperties
    <3> QED BY <1>1, <1>4, <3>1 DEF NonEmptyInv
  <2>3. JoinInv'
    BY <1>1, <1>3, <1>4 DEF SinkInv, JoinInv
  <2> QED BY <2>1, <2>2, <2>3
<1>15. IndexInv'
  <2>1. SUFFICES ASSUME FromZero PROVE IndexInv'
    BY <1>3 DEF IndexInv
  <2>2. concatIdx' = taken'["i"]
    BY <1>1, <2>1 DEF SinkInv, IndexInv
  <2>3. joiner'.idx = MessageEnd
    <3>1. StartDefined => joiner.idx = MessageEnd
      BY <1>1, <2>1 DEF SinkInv, IndexInv
    <3>2. ~StartDefined => R.idx = JoinerEnd /\ JoinerEnd = MessageEnd
      <4>1. ~StartDefined => Len(JoinerIds) = 0
        BY <1>6
      <4> QED BY <1>1, <1>4, <1>7, <2>1, <4>1 DEF SinkInv, IndexInv
    <3> QED BY <1>9, <3>1, <3>2
  <2> QED BY <1>1, <1>4, <1>8, <2>2, <2>3 DEF IndexInv
<1>16. BoundsInv'
  <2>1. NoOtherStart(joiner.start.ids)'
    <3>1. StartDefined => id \notin Starts /\ NoOtherStart(JoinerIds)
      <4>1. IsStart(R.entry) <=> id \in Starts
        BY <1>5, StartLines
      <4> QED BY <1>1, <1>6, <4>1 DEF SinkInv, BoundsInv
    <3>2. ~StartDefined => Len(JoinerIds) = 0
      BY <1>6
    <3>3. \A k \in 2..(Len(JoinerIds) + 1) : (JoinerIds \o <<id>>)[k] \notin Starts
      BY <1>7, <1>10, <3>1, <3>2, LenProperties DEF NoOtherStart
    <3> QED BY <1>3, <1>9, <1>10, <3>3 DEF NoOtherStart
  <2>2. MayBeginAfter(MessageEnd, joiner.start.ids[1])'
    <3>1. CASE StartDefined
      <4>1. joiner'.start.ids[1] = joiner.start.ids[1]
        BY <1>6, <1>9, <1>10, <3>1 DEF SinkInv, NonEmptyInv
      <4>2. MayBeginAfter(MessageEnd, joiner.start.ids[1])
        BY <1>1, <3>1 DEF SinkInv, BoundsInv
      <4> QED BY <1>3, <1>8, <4>1, <4>2 DEF MayBeginAfter, Joined
    <3>2. CASE ~StartDefined
      <4>1. Len(JoinerIds) = 0
        BY <1>6, <3>2
      <4>2. joiner'.start.ids[1] = id /\ MessageEnd = JoinerEnd
        BY <1>7, <1>9, <1>10, <4>1
      <4>3. \/ JoinerEnd = 0
            \/ script.join = "i" /\ JoinerEnd >= Total("i")
            \/ JoinerEnd = Total("i") /\ "i" \in failed /\ source["i"].fails = "scan"
            \/ JoinerEnd = Total("i") + Total("k")
        BY <1>1, <1>4, <1>7, <3>2 DEF SinkInv, BoundsInv
      <4>4. script.join = "i" => taken["k"] = 0
        BY <1>1 DEF SinkInv, JoinInv
      <4>5. ~(script.join = "i" /\ JoinerEnd >= Total("i")) /\ JoinerEnd # Total("i") + Total("k")
        BY <1>3, <1>5, <1>7, <4>4, SMTT(30)
      <4>6. JoinerEnd = Total("i") => id = <<"k", 1>>
        <5>1. JoinerEnd = Total("i") => ~(JoinerEnd + 1 <= Total("i")) /\ JoinerEnd + 1 - Total("i") = 1
          BY <1>7
        <5> QED BY <1>5, <5>1
      <4> QED BY <1>3, <1>8, <4>2, <4>3, <4>5, <4>6 DEF MayBeginAfter
    <3> QED BY <3>1, <3>2
  <2> QED BY <1>1, <1>4, <1>11, <2>1, <2>2 DEF BoundsInv
<1> QED BY <1>12, <1>13, <1>14, <1>15, <1>16 DEF SinkInv

LEMMA JoinerErrStep ==
  ASSUME TypeInv, PhaseInv, WrittenInv, SinkInv, JoinerErr("sink")
  PROVE  SinkInv'
<1>1. /\ Pc = "joiner" /\ Pc' = FromJoiner /\ R' = R /\ R.kind \in {"end", "error"}
      /\ ~StartDefined
      /\ UNCHANGED <<inputVars, taken, failed, concatIdx, joiner, final, written>>
  BY DEF JoinerErr, At, TypeInv, Caller, R, Pc, sinkVars, JoinerFails, SinkInv, ShapeInv
<1>2. UNCHANGED inputVars /\ written' = written
  BY <1>1
<1>3. /\ script' = script /\ source' = source /\ script.join \in {"none", "i", "all"}
      /\ AllWritten' = AllWritten /\ Stream' = Stream /\ Starts' = Starts
      /\ Total("i")' = Total("i") /\ Total("k")' = Total("k")
      /\ (\A s : Joined(s)' <=> Joined(s)) /\ (FromZero' <=> FromZero)
  BY <1>2, Stays
<1>4. script.join # "none" /\ Pc' = IF script.join = "all" THEN "return" ELSE "concat"
  BY <1>1 DEF PhaseInv, Pc, Caller, FromJoiner
<1>5. FreshAt /\ ~MessageAt /\ ~FreshAt' /\ MessageAt' /\ Pc' \in {"concat", "return"}
  BY <1>1, <1>3, <1>4 DEF FreshAt, MessageAt
<1>6. /\ MessageIds = <<>> /\ MessageIds' = <<>> /\ FreshIds = <<>> /\ FreshIds' = <<>>
      /\ JoinerIds = <<>> /\ JoinerIds' = <<>> /\ AllTaken' = AllTaken /\ ~StartDefined'
  BY <1>1, <1>5 DEF MessageIds, FreshIds, JoinerIds, AllTaken, StartDefined
<1>7. MessageEnd' = MessageEnd /\ JoinerEnd' = JoinerEnd
  BY <1>3, <1>6 DEF MessageEnd, JoinerEnd
<1>8. (Exhausted("i")' <=> Exhausted("i")) /\ (Exhausted("k")' <=> Exhausted("k"))
  BY <1>1, <1>3 DEF Exhausted, Fails
<1>9. SourceInv'
  BY <1>1, <1>3, <1>8 DEF SinkInv, SourceInv, Total
<1>10. FlowInv'
  BY <1>3, <1>6, <1>7 DEF SinkInv, FlowInv, Covers
<1>11. ShapeInv' /\ NonEmptyInv'
  BY <1>1, <1>5, <1>6 DEF SinkInv, ShapeInv, NonEmptyInv
<1>12. JoinInv'
  BY <1>1, <1>5, <1>6 DEF JoinInv
<1>13. EndInv'
  BY <1>1, <1>3, <1>4, <1>5, <1>6, <1>8 DEF SinkInv, EndInv
<1>14. FailInv'
  BY <1>1, <1>3, <1>5, <1>6 DEF SinkInv, FailInv, ErrorAhead, JoinedBefore
<1>15. IndexInv'
  BY <1>1, <1>3, <1>5, <1>6 DEF SinkInv, IndexInv
<1>16. BoundsInv'
  BY <1>1, <1>3, <1>5, <1>6, <1>7 DEF SinkInv, BoundsInv
<1> QED BY <1>9, <1>10, <1>11, <1>12, <1>13, <1>14, <1>15, <1>16 DEF SinkInv

LEMMA JoinerFlushStep ==
  ASSUME TypeInv, PhaseInv, WrittenInv, SinkInv, JoinerFlush("sink")
  PROVE  SinkInv'
<1>1. /\ Pc = "joiner" /\ Pc' = "finalize" /\ R' = R /\ StartDefined
      /\ R.kind = "entry" => IsStart(R.entry)
      /\ UNCHANGED <<inputVars, taken, failed, concatIdx, joiner, final, written>>
  BY DEF JoinerFlush, At, TypeInv, Caller, R, Pc, sinkVars
<1>2. UNCHANGED inputVars /\ written' = written
  BY <1>1
<1>3. /\ script' = script /\ source' = source /\ script.join \in {"none", "i", "all"}
      /\ AllWritten' = AllWritten /\ Stream' = Stream /\ Starts' = Starts /\ LineOf' = LineOf
      /\ Total("i") \in Nat /\ Total("k") \in Nat
      /\ Total("i")' = Total("i") /\ Total("k")' = Total("k")
      /\ (\A s : Joined(s)' <=> Joined(s)) /\ (FromZero' <=> FromZero)
  BY <1>2, Stays
<1>4. script.join \in {"i", "all"}
  BY <1>1, <1>3 DEF PhaseInv, Pc, Caller
<1>5. FreshAt /\ ~MessageAt /\ FreshAt' /\ ~MessageAt'
  BY <1>1 DEF FreshAt, MessageAt
<1>6. /\ MessageIds = <<>> /\ MessageIds' = <<>> /\ FreshIds' = FreshIds
      /\ JoinerIds = joiner.start.ids /\ JoinerIds' = JoinerIds
      /\ AllTaken' = AllTaken /\ StartDefined'
  BY <1>1, <1>5 DEF MessageIds, FreshIds, JoinerIds, AllTaken, StartDefined
<1>7. MessageEnd' = MessageEnd /\ JoinerEnd' = JoinerEnd
  BY <1>3, <1>6 DEF MessageEnd, JoinerEnd
<1>8. (Exhausted("i")' <=> Exhausted("i")) /\ (Exhausted("k")' <=> Exhausted("k"))
  BY <1>1, <1>3 DEF Exhausted, Fails
<1>9. SourceInv'
  BY <1>1, <1>3, <1>8 DEF SinkInv, SourceInv, Total
<1>10. FlowInv'
  BY <1>3, <1>6, <1>7 DEF SinkInv, FlowInv, Covers
<1>11. ShapeInv' /\ NonEmptyInv'
  BY <1>1, <1>5, <1>6 DEF SinkInv, ShapeInv, NonEmptyInv
<1>12. JoinInv'
  BY <1>1, <1>3, <1>4, <1>6 DEF SinkInv, JoinInv
<1>13. EndInv'
  BY <1>1, <1>3, <1>5, <1>8 DEF SinkInv, EndInv
\* A failure ends the message that is being collected; its first line was joined.
<1>14. FailInv'
  <2>1. /\ AllWritten \in Nat /\ MessageEnd \in Nat /\ JoinerEnd \in Nat /\ AllTaken \in Nat
        /\ Len(JoinerIds) = JoinerEnd - MessageEnd /\ Len(FreshIds) = AllTaken - JoinerEnd
        /\ FreshIds \in Seq(LineId) /\ AllTaken <= Len(Stream) /\ AllTaken = taken["i"] + taken["k"]
        /\ taken["i"] <= Total("i") /\ taken["i"] \in Nat
    BY Flow DEF SinkInv, AllTaken
  <2>2. Len(JoinerIds) >= 1
    BY <1>1, <1>6 DEF SinkInv, NonEmptyInv
  <2>3. Len(FreshIds) \in Nat
    BY <2>1, LenProperties
  <2>4. AllTaken >= 1
    BY <2>1, <2>2, <2>3
  <2>5. script.join = "i" => taken["k"] = 0 /\ "k" \notin failed
    BY <1>1, <1>3, <2>1 DEF SinkInv, JoinInv, TypeInv, Src
  <2>6. \A s \in failed : Joined(s)
    BY <1>4, <2>5 DEF TypeInv, Src, Joined
  <2>7. JoinedBefore
    <3>1. 1 \in 1..AllTaken /\ 1 \in 1..Len(Stream)
      <4>1. Len(Stream) \in Int
        BY StreamFacts DEF TypeInv
      <4> QED BY <2>1, <2>4, <4>1
    <3>2. script.join = "i" => 1 <= Total("i")
      BY <1>3, <2>1, <2>4, <2>5
    <3>3. Stream[1] = IF 1 <= Total("i") THEN <<"i", 1>> ELSE <<"k", 1 - Total("i")>>
      BY <3>1, StreamFacts DEF TypeInv
    <3>4. Joined(Stream[1][1])
      BY <1>4, <3>2, <3>3 DEF Joined
    <3> QED BY <3>1, <3>4 DEF JoinedBefore
  <2> QED BY <1>1, <1>3, <1>6, <2>6, <2>7 DEF FailInv, JoinedBefore
<1>15. IndexInv'
  BY <1>1, <1>3, <1>5, <1>6, <1>7 DEF SinkInv, IndexInv
<1>16. BoundsInv'
  <2>1. R.kind = "entry" => R.entry = LineOf[R.entry.ids[1]] /\ R.entry.ids[1] \in Starts
    <3>1. R.kind = "entry" => R.entry.ids[1] \in LineId /\ R.entry = LineOf[R.entry.ids[1]]
      BY <1>1, <1>5, FreshLine
    <3> QED BY <1>1, <3>1, StartLines
  <2>2. NoOtherStart(joiner.start.ids) /\ MayBeginAfter(MessageEnd, joiner.start.ids[1])
    BY <1>1 DEF SinkInv, BoundsInv
  <2>3. NoOtherStart(joiner.start.ids)' /\ MayBeginAfter(MessageEnd, joiner.start.ids[1])'
    BY <1>1, <1>3, <1>7, <2>2 DEF NoOtherStart, MayBeginAfter, Joined
  <2> QED BY <1>1, <1>3, <1>5, <1>6, <2>1, <2>3 DEF BoundsInv
<1> QED BY <1>9, <1>10, <1>11, <1>12, <1>13, <1>14, <1>15, <1>16 DEF SinkInv

LEMMA FinalizeStep ==
  ASSUME TypeInv, PhaseInv, WrittenInv, SinkInv, result = "none", Finalize("sink")
  PROVE  SinkInv'
<1> DEFINE f == final'["sink"]
<1>1. /\ Pc = "finalize" /\ Pc' = "clear" /\ R' = R
      /\ f = Result("entry", [joiner.start EXCEPT !.msg = joiner.msg], joiner.idx)
      /\ UNCHANGED <<inputVars, taken, failed, concatIdx, joiner, written>>
  BY DEF Finalize, At, TypeInv, Caller, R, Pc, sinkVars
<1>2. UNCHANGED inputVars /\ written' = written
  BY <1>1
<1>3. /\ script' = script /\ source' = source /\ script.join \in {"none", "i", "all"}
      /\ AllWritten' = AllWritten /\ Stream' = Stream /\ Starts' = Starts /\ LineOf' = LineOf
      /\ Total("i")' = Total("i") /\ Total("k")' = Total("k")
      /\ (\A s : Joined(s)' <=> Joined(s)) /\ (FromZero' <=> FromZero)
  BY <1>2, Stays
<1>4. StartDefined
  BY <1>1 DEF PhaseInv, Pc, Caller
<1>5. FreshAt /\ ~MessageAt /\ FreshAt' /\ ~MessageAt'
  BY <1>1 DEF FreshAt, MessageAt
<1>6. f = Result("entry", f.entry, f.idx) /\ f.entry.ids = joiner.start.ids /\ f.idx = joiner.idx
  <2>1. joiner.start = [ids |-> joiner.start.ids, msg |-> joiner.start.msg,
                        fields |-> joiner.start.fields]
    BY DEF SinkInv, ShapeInv
  <2>2. [joiner.start EXCEPT !.msg = joiner.msg].ids = joiner.start.ids
    BY <2>1
  <2>3. PICK x : x = [joiner.start EXCEPT !.msg = joiner.msg]
    OBVIOUS
  <2>4. f = Result("entry", x, joiner.idx) /\ x.ids = joiner.start.ids
    BY <1>1, <2>2, <2>3
  <2> HIDE DEF f
  <2> QED BY <2>4 DEF Result
<1> HIDE DEF f
<1>7. /\ MessageIds = <<>> /\ MessageIds' = JoinerIds /\ FreshIds' = FreshIds
      /\ JoinerIds = joiner.start.ids /\ JoinerIds' = <<>>
      /\ AllTaken' = AllTaken /\ StartDefined'
  BY <1>1, <1>4, <1>5, <1>6 DEF MessageIds, FreshIds, JoinerIds, AllTaken, StartDefined, f
<1>8. /\ AllWritten \in Nat /\ JoinerEnd \in Nat /\ Len(JoinerIds) = JoinerEnd - AllWritten
      /\ MessageEnd = AllWritten
  <2>1. Len(MessageIds) = 0
    BY <1>7
  <2> QED BY <2>1, Flow DEF SinkInv
<1>9. MessageEnd' = JoinerEnd /\ JoinerEnd' = JoinerEnd
  <2>1. MessageEnd' = AllWritten + Len(JoinerIds)
    BY <1>3, <1>7 DEF MessageEnd
  <2>2. JoinerEnd' = MessageEnd' + 0
    BY <1>7 DEF JoinerEnd
  <2> QED BY <1>8, <2>1, <2>2
<1>10. (Exhausted("i")' <=> Exhausted("i")) /\ (Exhausted("k")' <=> Exhausted("k"))
  BY <1>1, <1>3 DEF Exhausted, Fails
<1>11. SourceInv'
  BY <1>1, <1>3, <1>10 DEF SinkInv, SourceInv, Total
<1>12. FlowInv'
  <2>1. Covers(JoinerIds, AllWritten, JoinerEnd) /\ Covers(FreshIds, JoinerEnd, AllTaken)
    BY <1>8 DEF SinkInv, FlowInv
  <2>2. Covers(MessageIds, AllWritten, MessageEnd)' /\ Covers(FreshIds, JoinerEnd, AllTaken)'
    BY <1>3, <1>7, <1>9, <2>1 DEF Covers
  <2>3. Covers(JoinerIds, MessageEnd, JoinerEnd)'
    <3>1. <<>> \in Seq(LineId) /\ Len(<<>>) = 0 /\ JoinerEnd - JoinerEnd = 0
      BY <1>8
    <3> QED BY <1>7, <1>9, <3>1 DEF Covers
  <2> QED BY <2>2, <2>3 DEF FlowInv
<1>13. ShapeInv' /\ NonEmptyInv'
  BY <1>1, <1>4, <1>5, <1>6 DEF SinkInv, ShapeInv, NonEmptyInv, StartDefined, f
<1>14. JoinInv'
  BY <1>1, <1>3, <1>4, <1>7 DEF SinkInv, JoinInv
<1>15. EndInv'
  BY <1>1, <1>3, <1>5, <1>10 DEF SinkInv, EndInv
<1>16. FailInv'
  BY <1>1, <1>3, <1>7 DEF SinkInv, FailInv, ErrorAhead, JoinedBefore
<1>17. IndexInv'
  BY <1>1, <1>3, <1>4, <1>5, <1>6, <1>8, <1>9 DEF SinkInv, IndexInv, f
<1>18. BoundsInv'
  <2>1. NoOtherStart(joiner.start.ids) /\ MayBeginAfter(AllWritten, joiner.start.ids[1])
    BY <1>1, <1>4, <1>8 DEF SinkInv, BoundsInv
  <2>2. NoOtherStart(final["sink"].entry.ids)' /\ MayBeginAfter(AllWritten, final["sink"].entry.ids[1])'
    BY <1>3, <1>6, <2>1 DEF NoOtherStart, MayBeginAfter, Joined, f
  <2> QED BY <1>1, <1>3, <1>5, <2>2 DEF SinkInv, BoundsInv
<1> QED BY <1>11, <1>12, <1>13, <1>14, <1>15, <1>16, <1>17, <1>18 DEF SinkInv

LEMMA ClearStep ==
  ASSUME TypeInv, PhaseInv, WrittenInv, SinkInv, Clear("sink")
  PROVE  SinkInv'
<1> DEFINE f == final["sink"]
           id == R.entry.ids[1]
<1>1. /\ Pc = "clear" /\ Pc' = FromJoiner /\ R' = f
      /\ joiner' = AfterFinal(R)
      /\ UNCHANGED <<inputVars, taken, failed, concatIdx, final, written>>
  BY DEF Clear, At, Gives, TypeInv, Caller, R, Pc, sinkVars
<1>2. UNCHANGED inputVars /\ written' = written
  BY <1>1
<1>3. /\ script' = script /\ source' = source /\ script.join \in {"none", "i", "all"}
      /\ AllWritten' = AllWritten /\ Stream' = Stream /\ Starts' = Starts
      /\ Total("i") \in Nat /\ Total("k") \in Nat
      /\ Total("i")' = Total("i") /\ Total("k")' = Total("k")
      /\ (\A s : Joined(s)' <=> Joined(s)) /\ (FromZero' <=> FromZero)
  BY <1>2, Stays
<1>4. script.join \in {"i", "all"} /\ Pc' = IF script.join = "all" THEN "return" ELSE "concat"
  BY <1>1, <1>3 DEF PhaseInv, Pc, Caller, FromJoiner
<1>5. FreshAt /\ ~MessageAt /\ ~FreshAt' /\ MessageAt' /\ Pc' \in {"concat", "return"}
  BY <1>1, <1>3, <1>4 DEF FreshAt, MessageAt
<1>6. /\ f = Result("entry", f.entry, f.idx) /\ f.kind = "entry" /\ Len(f.entry.ids) >= 1
      /\ R.kind \in {"entry", "end", "error"}
  <2>1. f = Result("entry", f.entry, f.idx)
    BY <1>1 DEF SinkInv, ShapeInv
  <2>2. f.kind = "entry"
    <3> HIDE DEF f
    <3> QED BY <2>1 DEF Result
  <2> QED BY <1>1, <2>1, <2>2 DEF SinkInv, ShapeInv, NonEmptyInv
<1>7. /\ MessageIds = f.entry.ids /\ MessageIds' = MessageIds
      /\ JoinerIds = <<>> /\ FreshIds' = <<>> /\ AllTaken' = AllTaken
      /\ FreshIds = IF R.kind = "entry" THEN R.entry.ids ELSE <<>>
  BY <1>1, <1>5, <1>6 DEF MessageIds, FreshIds, JoinerIds, AllTaken
<1>8. /\ AllWritten \in Nat /\ MessageEnd \in Nat /\ JoinerEnd \in Nat /\ AllTaken \in Nat
      /\ JoinerEnd = MessageEnd /\ Len(FreshIds) = AllTaken - MessageEnd
      /\ taken["i"] \in Nat /\ taken["k"] \in Nat /\ AllTaken = taken["i"] + taken["k"]
  <2>1. Len(JoinerIds) = 0
    BY <1>7
  <2> QED BY <2>1, Flow DEF SinkInv, AllTaken
<1>9. MessageEnd' = MessageEnd
  BY <1>3, <1>7 DEF MessageEnd
\* The line that has ended the message begins the next one.
<1>10. ASSUME R.kind = "entry"
       PROVE  /\ joiner'.start = R.entry /\ joiner'.idx = R.idx /\ StartDefined'
              /\ joiner' = [start |-> joiner'.start, msg |-> joiner'.msg, idx |-> joiner'.idx]
              /\ R.entry = [ids |-> R.entry.ids, msg |-> R.entry.msg, fields |-> R.entry.fields]
              /\ R.entry.ids = <<id>> /\ id \in LineId /\ id \in Starts
  <2>1. joiner' = SetStart(Cleared, R)
    BY <1>1, <1>10 DEF AfterFinal
  <2>2. /\ joiner'.start = R.entry /\ joiner'.idx = R.idx
        /\ joiner' = [start |-> joiner'.start, msg |-> joiner'.msg, idx |-> joiner'.idx]
    BY <2>1 DEF SetStart
  <2>3. R.entry.ids = <<id>> /\ id \in LineId /\ R.entry = LineOf[id]
    BY <1>1, <1>5, <1>10, FreshLine
  <2>4. id \in Starts
    BY <1>1, <1>10 DEF SinkInv, BoundsInv
  <2> HIDE DEF id
  <2>5. LineOf[id] = IF script.cut = "all" \/ script.cut = id[1] THEN Cut(Raw(id)) ELSE Raw(id)
    BY <2>3 DEF LineOf, Line, Raw
  <2>6. R.entry = [ids |-> R.entry.ids, msg |-> R.entry.msg, fields |-> R.entry.fields]
    <3>1. PICK e : /\ e = Raw(id) \/ e = Cut(Raw(id))
                   /\ R.entry = e
      BY <2>3, <2>5
    <3>2. Raw(id) = [ids |-> Raw(id).ids, msg |-> Raw(id).msg, fields |-> Raw(id).fields]
      BY DEF Raw, Entry
    <3>3. Cut(Raw(id)) = [ids |-> Cut(Raw(id)).ids, msg |-> Cut(Raw(id)).msg,
                          fields |-> Cut(Raw(id)).fields]
      BY CutParts DEF Raw
    <3> QED BY <3>1, <3>2, <3>3
  <2>7. StartDefined'
    BY <2>2, <2>3 DEF StartDefined, NoEntry, Entry
  <2> QED BY <2>2, <2>3, <2>4, <2>6, <2>7
<1>11. ASSUME R.kind # "entry"
       PROVE  /\ ~StartDefined' /\ joiner' = Cleared
  BY <1>1, <1>11 DEF AfterFinal, StartDefined, Cleared
<1>12. JoinerIds' = FreshIds
  BY <1>5, <1>7, <1>10, <1>11 DEF JoinerIds
<1>13. JoinerEnd' = AllTaken
  BY <1>8, <1>9, <1>12 DEF JoinerEnd
<1> HIDE DEF f, id
<1>14. (Exhausted("i")' <=> Exhausted("i")) /\ (Exhausted("k")' <=> Exhausted("k"))
  BY <1>1, <1>3 DEF Exhausted, Fails
<1>15. SourceInv'
  BY <1>1, <1>3, <1>14 DEF SinkInv, SourceInv, Total
<1>16. FlowInv'
  <2>1. Covers(MessageIds, AllWritten, MessageEnd)' /\ Covers(JoinerIds, MessageEnd, JoinerEnd)'
    BY <1>3, <1>7, <1>8, <1>9, <1>12, <1>13 DEF SinkInv, FlowInv, Covers
  <2>2. Covers(FreshIds, JoinerEnd, AllTaken)'
    <3>1. <<>> \in Seq(LineId) /\ Len(<<>>) = 0 /\ AllTaken - AllTaken = 0
      BY <1>8
    <3> QED BY <1>7, <1>13, <3>1 DEF Covers
  <2> QED BY <2>1, <2>2 DEF FlowInv
<1>17. ShapeInv'
  <2>1. joiner' = [start |-> joiner'.start, msg |-> joiner'.msg, idx |-> joiner'.idx]
        /\ joiner'.start = [ids |-> joiner'.start.ids, msg |-> joiner'.start.msg,
                            fields |-> joiner'.start.fields]
    <3>1. CASE R.kind = "entry"
      BY <1>10, <3>1
    <3>2. CASE R.kind # "entry"
      BY <1>11, <3>2 DEF Cleared, NoEntry, Entry
    <3> QED BY <3>1, <3>2
  <2> QED BY <1>1, <1>5, <1>6, <2>1 DEF ShapeInv
<1>18. NonEmptyInv'
  BY <1>1, <1>5, <1>6, <1>10, <1>11, SMTT(30) DEF NonEmptyInv
<1>19. JoinInv'
  <2>1. script.join = "i" /\ R.kind = "entry" => taken["k"] = 0 /\ "k" \notin failed
    BY <1>1 DEF SinkInv, JoinInv
  <2> QED BY <1>1, <1>3, <1>4, <1>5, <1>6, <1>11, <2>1 DEF JoinInv
<1>20. EndInv'
  BY <1>1, <1>5, <1>6 DEF EndInv
<1>21. FailInv'
  <2>1. ~ErrorAhead
    BY <1>1 DEF ErrorAhead
  <2> QED BY <1>1, <1>3, <1>7, <2>1 DEF SinkInv, FailInv, JoinedBefore
<1>22. IndexInv'
  <2>1. SUFFICES ASSUME FromZero PROVE IndexInv'
    BY <1>3 DEF IndexInv
  <2>2. concatIdx' = taken'["i"] /\ f.idx = AllWritten
    BY <1>1, <2>1 DEF SinkInv, IndexInv, f
  <2>3. R.kind = "entry" => joiner'.idx = MessageEnd'
    BY <1>5, <1>8, <1>9, <1>10, <2>1 DEF SinkInv, IndexInv
  <2>4. Pc' = "return"
    BY <1>4, <2>1 DEF FromZero
  <2> QED BY <1>1, <1>3, <1>5, <1>11, <1>6, <2>2, <2>3, <2>4 DEF IndexInv
<1>23. BoundsInv'
  <2>1. NoOtherStart(R.entry.ids)' /\ MayBeginAfter(AllWritten, R.entry.ids[1])'
    <3>1. NoOtherStart(f.entry.ids) /\ MayBeginAfter(AllWritten, f.entry.ids[1])
      BY <1>1 DEF SinkInv, BoundsInv, f
    <3> QED BY <1>1, <1>3, <3>1 DEF NoOtherStart, MayBeginAfter, Joined
  <2>2. R.kind = "entry" => /\ NoOtherStart(joiner.start.ids)'
                            /\ MayBeginAfter(MessageEnd, joiner.start.ids[1])'
    <3>1. R.kind = "entry" => joiner'.start.ids = <<id>> /\ id \in Starts'
      BY <1>3, <1>10
    <3> QED BY <3>1 DEF NoOtherStart, MayBeginAfter
  <2>3. R.kind # "entry" => \/ script.join = "i" /\ AllTaken >= Total("i")
                            \/ AllTaken = Total("i") /\ "i" \in failed /\ source["i"].fails = "scan"
                            \/ AllTaken = Total("i") + Total("k")
    <3>1. R.kind = "end" => taken["i"] = Total("i") /\ (script.join = "all" => taken["k"] = Total("k"))
      BY <1>1, <1>5 DEF SinkInv, EndInv, Exhausted, Fails, Total
    <3>2. R.kind = "error" => /\ taken["i"] = Total("i")
                              /\ \/ taken["k"] = 0 /\ "i" \in failed /\ source["i"].fails = "scan"
                                 \/ taken["k"] = Total("k")
      BY <1>5 DEF SinkInv, EndInv
    <3> QED BY <1>3, <1>4, <1>6, <1>8, <3>1, <3>2
  <2>4. /\ StartDefined' <=> R.kind = "entry"
        /\ failed' = failed /\ script' = script /\ source' = source
    BY <1>1, <1>3, <1>10, <1>11
  <2> QED BY <1>3, <1>5, <1>13, <2>1, <2>2, <2>3, <2>4 DEF BoundsInv
<1> QED BY <1>15, <1>16, <1>17, <1>18, <1>19, <1>20, <1>21, <1>22, <1>23 DEF SinkInv

LEMMA WriteStep ==
  ASSUME TypeInv, WrittenInv, SinkInv, Write
  PROVE  WrittenInv' /\ SinkInv'
<1> DEFINE n == Len(written)
           ids == R.entry.ids
           e == [entry |-> R.entry, idx |-> R.idx]
<1>1. /\ Pc = "return" /\ Pc' = "base" /\ R' = R /\ R.kind = "entry"
      /\ written' = Append(written, e)
      /\ UNCHANGED <<inputVars, taken, failed, concatIdx, joiner, final>>
  BY DEF Write, At, TypeInv, Caller, R, Pc
<1>2. UNCHANGED inputVars /\ script' = script /\ source' = source
  BY <1>1 DEF inputVars
<1>3. /\ Stream' = Stream /\ Starts' = Starts /\ LineOf' = LineOf
      /\ Total("i")' = Total("i") /\ Total("k")' = Total("k")
      /\ (\A s : Joined(s)' <=> Joined(s)) /\ (FromZero' <=> FromZero)
  BY <1>2, InputFrame DEF Total, Joined, FromZero
<1>4. MessageAt /\ ~FreshAt /\ ~MessageAt' /\ ~FreshAt'
  BY <1>1 DEF MessageAt, FreshAt
<1>5. /\ MessageIds = ids /\ MessageIds' = <<>> /\ FreshIds = <<>> /\ FreshIds' = <<>>
      /\ JoinerIds' = JoinerIds /\ AllTaken' = AllTaken /\ (StartDefined' <=> StartDefined)
  BY <1>1, <1>4 DEF MessageIds, FreshIds, JoinerIds, AllTaken, StartDefined
<1>6. /\ AllWritten \in Nat /\ MessageEnd \in Nat /\ JoinerEnd \in Nat /\ AllTaken \in Nat
      /\ ids \in Seq(LineId) /\ Len(ids) = MessageEnd - AllWritten /\ Len(ids) >= 1
      /\ MessageEnd <= Len(Stream) /\ AllWritten < MessageEnd /\ Len(Stream) \in Nat
  <2>1. Len(ids) >= 1
    BY <1>1, <1>4 DEF SinkInv, NonEmptyInv
  <2>2. Len(Stream) \in Nat
    BY StreamFacts DEF TypeInv
  <2>3. Len(JoinerIds) \in Nat /\ Len(FreshIds) \in Nat
    BY Flow, LenProperties DEF SinkInv
  <2>4. /\ AllWritten \in Nat /\ MessageEnd \in Nat /\ JoinerEnd \in Nat /\ AllTaken \in Nat
        /\ ids \in Seq(LineId) /\ Len(ids) = MessageEnd - AllWritten
        /\ Len(JoinerIds) = JoinerEnd - MessageEnd /\ Len(FreshIds) = AllTaken - JoinerEnd
        /\ AllTaken <= Len(Stream)
    BY <1>5, Flow DEF SinkInv
  <2> QED BY <2>1, <2>2, <2>3, <2>4
<1>7. /\ \A k \in 1..Len(ids) : ids[k] = Stream[AllWritten + k]
      /\ NoOtherStart(ids) /\ MayBeginAfter(AllWritten, ids[1])
      /\ FromZero => R.idx = AllWritten
  BY <1>1, <1>4, <1>5, <1>6 DEF SinkInv, FlowInv, Covers, BoundsInv, IndexInv
<1>8. Place(ids[Len(ids)]) = MessageEnd
  <2>1. ids[Len(ids)] = Stream[MessageEnd] /\ MessageEnd \in 1..Len(Stream)
    <3>1. Len(ids) \in 1..Len(ids) /\ AllWritten + Len(ids) = MessageEnd
      BY <1>6
    <3> QED BY <1>6, <1>7, <3>1
  <2> QED BY <2>1, StreamFacts DEF TypeInv
<1> HIDE DEF ids
<1>9. /\ n \in Nat /\ Len(written') = n + 1 /\ written'[n + 1] = e
      /\ \A m \in 1..n : written'[m] = written[m]
  <2>1. PICK S : written \in Seq(S)
    BY DEF TypeInv, IsSequence
  <2>2. written \in Seq(S \cup {e})
    BY <2>1, SeqMonotonic
  <2> HIDE DEF e
  <2> QED BY <1>1, <2>2, AppendProperties, LenProperties
<1>10. e.entry.ids = ids /\ e.idx = R.idx
  BY DEF ids
<1> HIDE DEF e
\* The places of the messages written before stay.
<1>11. Places' = [m \in 0..(n + 1) |-> IF m <= n THEN Places[m] ELSE MessageEnd]
  <2>1. ASSUME NEW m \in 0..n PROVE LastPlace(m)' = Places[m]
    <3>1. Places[m] = LastPlace(m)
      BY DEF Places
    <3>2. m = 0 \/ written'[m] = written[m]
      BY <1>9
    <3> QED BY <1>2, <3>1, <3>2 DEF LastPlace, Place, Last
  <2>2. ASSUME NEW m, m = n + 1 PROVE LastPlace(m)' = MessageEnd
    <3>1. m # 0 /\ written'[m].entry.ids = ids
      BY <1>9, <1>10, <2>2
    <3>2. LastPlace(m)' = Place(ids[Len(ids)])
      BY <1>2, <3>1 DEF LastPlace, Place, Last
    <3> QED BY <1>8, <3>2
  <2>3. \A m \in 0..(n + 1) : m \in 0..n \/ (m = n + 1 /\ ~(m <= n))
    BY <1>9
  <2>4. \A m \in 0..(n + 1) : LastPlace(m)' = IF m <= n THEN Places[m] ELSE MessageEnd
    <3> TAKE m \in 0..(n + 1)
    <3>1. CASE m \in 0..n
      <4>1. m <= n
        BY <3>1
      <4> QED BY <2>1, <3>1, <4>1
    <3>2. CASE m = n + 1 /\ ~(m <= n)
      BY <2>2, <3>2
    <3> QED BY <2>3, <3>1, <3>2
  <2>5. Places' = [m \in 0..(n + 1) |-> LastPlace(m)']
    BY <1>9 DEF Places
  <2> QED BY <2>4, <2>5
<1>12. /\ Places \in [0..n -> 0..Len(Stream)] /\ Places[0] = 0 /\ Places[n] = AllWritten
  BY DEF WrittenInv, AllWritten
<1> HIDE DEF n
<1>13. /\ \A m \in 0..n : Places'[m] = Places[m]
       /\ Places'[n + 1] = MessageEnd /\ Places'[n] = AllWritten
  BY <1>9, <1>11, <1>12
<1>14. AllWritten' = MessageEnd
  BY <1>9, <1>13 DEF AllWritten
<1>15. WrittenInv'
  <2>1. Places' \in [0..Len(written') -> 0..Len(Stream')] /\ Places'[0] = 0
    <3>1. Places' \in [0..(n + 1) -> 0..Len(Stream)]
      BY <1>6, <1>9, <1>11, <1>12
    <3> QED BY <1>3, <1>9, <1>12, <1>13, <3>1
  <2>2. ASSUME NEW m \in 1..Len(written')
        PROVE  /\ Places'[m - 1] < Places'[m]
               /\ Covers(written[m].entry.ids, Places[m - 1], Places[m])'
               /\ NoOtherStart(written[m].entry.ids)'
               /\ MayBeginAfter(Places[m - 1], written[m].entry.ids[1])'
               /\ FromZero' => written'[m].idx = Places'[m - 1]
    <3>1. CASE m \in 1..n
      <4>1. Places'[m] = Places[m] /\ Places'[m - 1] = Places[m - 1] /\ written'[m] = written[m]
        BY <1>9, <1>13, <3>1
      <4>2. /\ Places[m - 1] < Places[m]
            /\ Covers(written[m].entry.ids, Places[m - 1], Places[m])
            /\ NoOtherStart(written[m].entry.ids)
            /\ MayBeginAfter(Places[m - 1], written[m].entry.ids[1])
            /\ FromZero => written[m].idx = Places[m - 1]
        BY <3>1 DEF WrittenInv, n
      <4> QED BY <1>2, <1>3, <4>1, <4>2 DEF Covers, NoOtherStart, MayBeginAfter, Joined
    <3>2. CASE m = n + 1
      <4>1. /\ Places'[m] = MessageEnd /\ Places'[m - 1] = AllWritten /\ m - 1 = n
            /\ written'[m].entry.ids = ids /\ written'[m].idx = R.idx
        BY <1>9, <1>10, <1>13, <3>2
      <4> QED BY <1>2, <1>3, <1>6, <1>7, <4>1 DEF Covers, NoOtherStart, MayBeginAfter, Joined
    <3> QED BY <1>9, <3>1, <3>2
  <2>3. ASSUME NEW p \in 1..AllWritten'
        PROVE  \E m \in 1..Len(written') : \E k \in 1..Len(written'[m].entry.ids) :
                 written'[m].entry.ids[k] = Stream'[p]
    <3>1. CASE p \in 1..AllWritten
      <4>1. PICK m \in 1..n : \E k \in 1..Len(written[m].entry.ids) : written[m].entry.ids[k] = Stream[p]
        BY <3>1 DEF WrittenInv, n
      <4>2. m \in 1..Len(written') /\ written'[m] = written[m]
        BY <1>9, <4>1
      <4> QED BY <1>3, <4>1, <4>2
    <3>2. CASE p \notin 1..AllWritten
      <4>1. p - AllWritten \in 1..Len(ids) /\ AllWritten + (p - AllWritten) = p
        BY <1>6, <1>14, <3>2
      <4>2. ids[p - AllWritten] = Stream[p]
        BY <1>7, <4>1
      <4>3. n + 1 \in 1..Len(written') /\ written'[n + 1].entry.ids = ids
        BY <1>9, <1>10
      <4> QED BY <1>3, <4>1, <4>2, <4>3
    <3> QED BY <3>1, <3>2
  <2> QED BY <2>1, <2>2, <2>3 DEF WrittenInv
<1>16. MessageEnd' = MessageEnd /\ JoinerEnd' = JoinerEnd
  <2>1. MessageEnd' = MessageEnd
    BY <1>5, <1>6, <1>14 DEF MessageEnd
  <2> QED BY <1>5, <2>1 DEF JoinerEnd
<1>17. FlowInv'
  <2>1. Covers(MessageIds, AllWritten, MessageEnd)'
    <3>1. <<>> \in Seq(LineId) /\ Len(<<>>) = 0 /\ MessageEnd - MessageEnd = 0
      BY <1>6
    <3> QED BY <1>5, <1>14, <1>16, <3>1 DEF Covers
  <2>2. Covers(JoinerIds, MessageEnd, JoinerEnd)' /\ Covers(FreshIds, JoinerEnd, AllTaken)'
    BY <1>3, <1>5, <1>16 DEF SinkInv, FlowInv, Covers
  <2> QED BY <2>1, <2>2 DEF FlowInv
<1>18. (Exhausted("i")' <=> Exhausted("i")) /\ (Exhausted("k")' <=> Exhausted("k"))
  BY <1>1, <1>2 DEF Exhausted, Fails
<1>19. SourceInv'
  BY <1>1, <1>2, <1>3, <1>18 DEF SinkInv, SourceInv, Total
<1>20. ShapeInv' /\ NonEmptyInv' /\ JoinInv' /\ EndInv'
  BY <1>1, <1>2, <1>3, <1>4, <1>5 DEF SinkInv, ShapeInv, NonEmptyInv, JoinInv, EndInv
<1>21. FailInv'
  BY <1>1, <1>3, <1>5 DEF inputVars, SinkInv, FailInv, ErrorAhead, JoinedBefore
<1>22. IndexInv'
  BY <1>1, <1>3, <1>4, <1>5, <1>16 DEF SinkInv, IndexInv
<1>23. BoundsInv'
  <2>1. StartDefined => NoOtherStart(joiner.start.ids) /\ MayBeginAfter(MessageEnd, joiner.start.ids[1])
    BY <1>1 DEF SinkInv, BoundsInv
  <2>2. StartDefined => NoOtherStart(joiner.start.ids)' /\ MayBeginAfter(MessageEnd, joiner.start.ids[1])'
    BY <1>1, <1>2, <1>3, <1>16, <2>1 DEF NoOtherStart, MayBeginAfter, Joined
  <2> QED BY <1>1, <1>2, <1>3, <1>4, <1>5, <1>16, <2>2 DEF SinkInv, BoundsInv
<1> QED BY <1>15, <1>17, <1>19, <1>20, <1>21, <1>22, <1>23 DEF SinkInv

\* When the sink succeeds everything has been written.
LEMMA EndStep ==
  ASSUME TypeInv, WrittenInv, SinkInv, NextEnds
  PROVE  OkInv'
<1>1. /\ Pc = "return" /\ R.kind = "end" /\ result' = "ok"
      /\ UNCHANGED <<inputVars, taken, failed, written>>
  BY DEF NextEnds, SinkReturns, Pc, R
<1>2. UNCHANGED inputVars /\ written' = written
  BY <1>1
<1>3. /\ AllWritten' = AllWritten /\ Stream' = Stream /\ (\A s : Joined(s)' <=> Joined(s))
  BY <1>2, Stays
<1>4. /\ MessageIds = <<>> /\ FreshIds = <<>> /\ JoinerIds = <<>>
  BY <1>1 DEF MessageIds, FreshIds, FreshAt, JoinerIds, SinkInv, EndInv
<1>5. AllWritten = AllTaken
  <2>1. Len(MessageIds) = 0 /\ Len(FreshIds) = 0 /\ Len(JoinerIds) = 0
    BY <1>4
  <2> QED BY <2>1, Flow DEF SinkInv
<1>6. taken["i"] = Total("i") /\ taken["k"] = Total("k")
  BY <1>1 DEF MessageAt, SinkInv, EndInv, Exhausted, Fails, Total
<1>7. AllWritten = Len(Stream)
  BY <1>5, <1>6, StreamFacts DEF TypeInv, AllTaken
<1>8. FailureReported'
  <2>1. ASSUME NEW s \in failed, source[s].fails = "scan"
        PROVE  Joined(s) /\ \E m \in DOMAIN written : \E id \in Range(written[m].entry.ids) : Joined(id[1])
    <3>1. Joined(s) /\ JoinedBefore
      BY <1>1, <2>1 DEF SinkInv, FailInv, ErrorAhead
    <3>2. PICK p \in 1..AllTaken : Joined(Stream[p][1])
      BY <3>1 DEF JoinedBefore
    <3>3. PICK m \in 1..Len(written) :
            \E k \in 1..Len(written[m].entry.ids) : written[m].entry.ids[k] = Stream[p]
      BY <1>5, <3>2 DEF WrittenInv
    <3>4. PICK k \in 1..Len(written[m].entry.ids) : written[m].entry.ids[k] = Stream[p]
      BY <3>3
    <3>5. m \in DOMAIN written
      BY <3>3 DEF TypeInv, IsSequence
    <3>6. k \in DOMAIN written[m].entry.ids
      <4>1. written[m].entry.ids \in Seq(LineId)
        BY <3>3 DEF WrittenInv, Covers
      <4> QED BY <3>4, <4>1
    <3>7. Stream[p] \in Range(written[m].entry.ids)
      BY <3>4, <3>6 DEF Range
    <3> QED BY <3>1, <3>2, <3>5, <3>7
  <2> QED BY <1>1, <1>2, <1>3, <2>1 DEF FailureReported, inputVars
<1> QED BY <1>3, <1>7, <1>8 DEF OkInv

-----------------------------------------------------------------------------
(* The invariant is inductive *)

LEMMA InitIsInductive == Init => IndInv
<1> SUFFICES ASSUME Init PROVE IndInv
  OBVIOUS
<1>1. TypeInv /\ PhaseInv /\ PanicOnlyInRace
  BY InitIsPhase
<1>2. /\ Pc = "base" /\ R = End /\ taken["i"] = 0 /\ taken["k"] = 0 /\ failed = {}
      /\ concatIdx = 0 /\ written = <<>> /\ result = "none"
      /\ joiner = [start |-> NoEntry, msg |-> <<<<>>>>, idx |-> 0]
  BY DEF Init, Pc, R, Caller, Src
<1>3. ~StartDefined /\ ~FreshAt /\ ~MessageAt /\ R.kind = "end" /\ R = Result(R.kind, R.entry, R.idx)
  BY <1>2 DEF StartDefined, FreshAt, MessageAt, End, Result
<1>4. MessageIds = <<>> /\ JoinerIds = <<>> /\ FreshIds = <<>> /\ AllTaken = 0
  BY <1>2, <1>3 DEF MessageIds, JoinerIds, FreshIds, AllTaken
<1>5. Places = [m \in 0..0 |-> 0] /\ Len(written) = 0 /\ AllWritten = 0
  <2>1. Len(written) = 0
    BY <1>2
  <2>2. \A m \in 0..0 : LastPlace(m) = 0
    BY DEF LastPlace
  <2> QED BY <2>1, <2>2 DEF Places, AllWritten
<1>6. MessageEnd = 0 /\ JoinerEnd = 0
  BY <1>4, <1>5 DEF MessageEnd, JoinerEnd
<1>7. WrittenInv
  <2>1. Len(Stream) \in Nat
    BY <1>1, StreamFacts DEF TypeInv
  <2>2. Places \in [0..Len(written) -> 0..Len(Stream)] /\ Places[0] = 0
    BY <1>5, <2>1
  <2> QED BY <1>5, <2>2 DEF WrittenInv
<1>8. FlowInv
  <2>1. <<>> \in Seq(LineId) /\ Len(<<>>) = 0
    OBVIOUS
  <2> QED BY <1>4, <1>5, <1>6, <2>1 DEF FlowInv, Covers
<1>9. SourceInv /\ ShapeInv
  BY <1>2, <1>3 DEF SourceInv, ShapeInv, NoEntry, Entry
<1>10. NonEmptyInv /\ JoinInv /\ EndInv /\ FailInv
  BY <1>2, <1>3 DEF NonEmptyInv, JoinInv, EndInv, FailInv
<1>11. IndexInv /\ BoundsInv
  BY <1>2, <1>3, <1>6 DEF IndexInv, BoundsInv
<1> QED BY <1>1, <1>2, <1>7, <1>8, <1>9, <1>10, <1>11 DEF IndInv, SinkInv

LEMMA StutterIsInductive == IndInv /\ UNCHANGED vars => IndInv'
<1> SUFFICES ASSUME IndInv, UNCHANGED vars PROVE IndInv'
  OBVIOUS
<1> USE DEF vars, inputVars, sinkVars
<1>1. TypeInv' /\ PhaseInv' /\ PanicOnlyInRace'
  BY DEF IndInv, TypeInv, PhaseInv, PanicOnlyInRace, StartDefined, Total, IsSequence
<1>2. WrittenInv' /\ AllWritten' = AllWritten /\ Stream' = Stream
  BY WrittenFrame, InputFrame DEF IndInv
<1>3. ASSUME result = "none" PROVE SinkInv'
  <2>1. Starts' = Starts /\ LineOf' = LineOf /\ BaseLineOf' = BaseLineOf
    BY InputFrame
  <2>2. /\ R' = R /\ Pc' = Pc /\ (FreshAt' <=> FreshAt) /\ (MessageAt' <=> MessageAt)
        /\ (StartDefined' <=> StartDefined) /\ AllTaken' = AllTaken
        /\ (FromZero' <=> FromZero) /\ (ErrorAhead' <=> ErrorAhead)
    BY DEF R, Pc, FreshAt, MessageAt, StartDefined, AllTaken, FromZero, ErrorAhead
  <2>3. MessageIds' = MessageIds /\ JoinerIds' = JoinerIds /\ FreshIds' = FreshIds
    BY <2>2 DEF MessageIds, JoinerIds, FreshIds
  <2>4. MessageEnd' = MessageEnd /\ JoinerEnd' = JoinerEnd
    BY <1>2, <2>3 DEF MessageEnd, JoinerEnd
  <2>5. SinkInv
    BY <1>3 DEF IndInv
  <2>6. SourceInv' /\ ShapeInv' /\ NonEmptyInv' /\ JoinInv' /\ EndInv'
    BY <2>2, <2>5 DEF SinkInv, SourceInv, ShapeInv, NonEmptyInv, JoinInv, EndInv, Exhausted, Fails, Total
  <2>7. FlowInv'
    BY <1>2, <2>2, <2>3, <2>4, <2>5 DEF SinkInv, FlowInv, Covers
  <2>8. FailInv' /\ IndexInv'
    BY <1>2, <2>2, <2>4, <2>5 DEF SinkInv, FailInv, IndexInv, JoinedBefore, Joined
  <2>9. BoundsInv'
    <3>1. /\ \A ids : NoOtherStart(ids)' <=> NoOtherStart(ids)
          /\ \A a, id : MayBeginAfter(a, id)' <=> MayBeginAfter(a, id)
      BY <2>1 DEF NoOtherStart, MayBeginAfter, Joined
    <3>2. /\ res' = res /\ joiner' = joiner /\ final' = final /\ script' = script /\ source' = source
          /\ failed' = failed /\ AllWritten' = AllWritten
          /\ Total("i")' = Total("i") /\ Total("k")' = Total("k")
      BY <1>2 DEF Total
    <3>3. BoundsInv
      BY <2>5 DEF SinkInv
    <3> HIDE DEF NoOtherStart, MayBeginAfter
    <3> QED BY <2>1, <2>2, <2>4, <3>1, <3>2, <3>3 DEF BoundsInv
  <2> QED BY <2>6, <2>7, <2>8, <2>9 DEF SinkInv
<1>4. ASSUME result = "ok" PROVE OkInv'
  BY <1>2, <1>4 DEF IndInv, OkInv, FailureReported, Joined
<1> QED BY <1>1, <1>2, <1>3, <1>4 DEF IndInv

LEMMA SinkStep ==
  ASSUME TypeInv, PhaseInv, WrittenInv, SinkInv, result = "none", Moves("sink")
  PROVE  WrittenInv' /\ SinkInv'
<1>1. CASE Write
  BY <1>1, WriteStep
<1>2. CASE ~Write
  <2>1. UNCHANGED inputVars /\ written' = written
    BY <1>2 DEF Moves, Base, ConcatBase, ConcatNext, JoinerCollect, JoinerErr, JoinerFlush,
                Finalize, Clear, DrainStep, sinkVars
  <2>2. SinkInv'
    BY <1>2, BaseStep, ConcatBaseStep, ConcatNextStep, JoinerCollectStep, JoinerErrStep,
       JoinerFlushStep, FinalizeStep, ClearStep DEF Moves, DrainStep
  <2> QED BY <2>1, <2>2, WrittenFrame
<1> QED BY <1>1, <1>2

LEMMA StepIsInductive ==
  ASSUME IndInv, NEW c \in Caller, Step(c)
  PROVE  IndInv'
<1>1. TypeInv /\ PhaseInv /\ PanicOnlyInRace /\ WrittenInv
  BY DEF IndInv
<1>2. TypeInv' /\ PanicOnlyInRace'
  BY <1>1, TypeStep, PanicStep
<1>3. CASE Returns
  <2>1. /\ PhaseInv' /\ result = "none" /\ result' \in {"ok", "error"}
        /\ UNCHANGED inputVars /\ written' = written
    BY <1>1, <1>3, ReturnsKeepPhase
  <2>2. SinkInv
    BY <2>1 DEF IndInv
  <2>3. WrittenInv'
    BY <1>1, <2>1, WrittenFrame
  <2>4. result' = "ok" => OkInv'
    BY <1>1, <1>3, <2>2, EndStep DEF Returns, WriteFails, NextFails, SinkReturns
  <2> QED BY <1>2, <2>1, <2>3, <2>4 DEF IndInv
<1>4. CASE Moves(c)
  <2>1. PhaseInv' /\ UNCHANGED <<inputVars, result>> /\ pc[c] \notin {"idle", "stopped"}
    BY <1>1, <1>4, MovesKeepPhase, Movement
  <2>2. CASE result = "none"
    <3>1. c = "sink"
      BY <1>1, <2>1, <2>2 DEF PhaseInv, Caller
    <3>2. SinkInv
      BY <2>2 DEF IndInv
    <3>3. WrittenInv' /\ SinkInv'
      BY <1>1, <1>4, <2>2, <3>1, <3>2, SinkStep
    <3> QED BY <1>2, <2>1, <2>2, <3>3 DEF IndInv
  <2>3. result # "ok"
    BY <1>1, <2>1 DEF PhaseInv, Caller
  <2>4. CASE result = "error"
    <3>1. c # "sink"
      BY <1>1, <2>1, <2>4 DEF PhaseInv
    <3>2. UNCHANGED inputVars /\ written' = written
      BY <1>4, <3>1 DEF Moves, Base, ConcatBase, ConcatNext, JoinerCollect, JoinerErr, JoinerFlush,
                        Finalize, Clear, DrainStep, sinkVars
    <3>3. WrittenInv'
      BY <1>1, <3>2, WrittenFrame
    <3> QED BY <1>2, <2>1, <2>4, <3>3 DEF IndInv
  <2> QED BY <1>1, <2>2, <2>3, <2>4 DEF TypeInv
<1> QED BY <1>3, <1>4 DEF Step, Moves, Returns

\* Everything the proofs below need, in every state: what has been written, what
\* is on its way and what has been taken make up the stream, in this order.
THEOREM PullInductive == Spec => []IndInv
<1>1. IndInv /\ [Next]_vars => IndInv'
  BY StepIsInductive, StutterIsInductive DEF Next, Terminated
<1> QED BY <1>1, InitIsInductive, PTL DEF Spec

\* The process can only panic while two Drains use one joiner.
THEOREM PullPanicOnlyInRace == Spec => []PanicOnlyInRace
<1>1. IndInv => PanicOnlyInRace
  BY DEF IndInv
<1> QED BY <1>1, PullInductive, PTL

-----------------------------------------------------------------------------
(* What the sink has written *)

\* The lines of a written message, by the places of the messages.
LEMMA WrittenMessage ==
  ASSUME IndInv, NEW m \in DOMAIN written
  PROVE  /\ m \in 1..Len(written) /\ m - 1 \in 0..Len(written)
         /\ LastPlace(m - 1) = Places[m - 1]
         /\ Places[m - 1] \in Nat /\ Places[m] \in Nat
         /\ Places[m - 1] < Places[m] /\ Places[m] <= Len(Stream)
         /\ Covers(written[m].entry.ids, Places[m - 1], Places[m])
         /\ DOMAIN Stream = 1..Len(Stream) /\ Len(Stream) \in Nat
<1>1. m \in 1..Len(written) /\ Len(written) \in Nat
  BY LenProperties DEF IndInv, TypeInv, IsSequence
<1>2. m - 1 \in 0..Len(written) /\ m \in 0..Len(written)
  BY <1>1
<1>3. LastPlace(m - 1) = Places[m - 1]
  BY <1>2 DEF Places
<1>4. Stream \in Seq(LineId)
  BY StreamFacts DEF IndInv, TypeInv
<1>5. DOMAIN Stream = 1..Len(Stream) /\ Len(Stream) \in Nat
  BY <1>4, LenProperties
<1>6. Places[m - 1] \in 0..Len(Stream) /\ Places[m] \in 0..Len(Stream)
  BY <1>2 DEF IndInv, WrittenInv
<1>7. Places[m - 1] < Places[m] /\ Covers(written[m].entry.ids, Places[m - 1], Places[m])
  BY <1>1 DEF IndInv, WrittenInv
<1> QED BY <1>1, <1>2, <1>3, <1>5, <1>6, <1>7

\* Append, cut and join neither lose nor repeat nor move a line.
THEOREM PullLinesInOrder == Spec => []LinesInOrder
<1>1. IndInv => LinesInOrder
  <2> SUFFICES ASSUME IndInv PROVE LinesInOrder
    OBVIOUS
  <2>1. ASSUME NEW m \in DOMAIN written
        PROVE  /\ written[m].entry.ids # <<>>
               /\ \A k \in DOMAIN written[m].entry.ids :
                    /\ LastPlace(m - 1) + k \in DOMAIN Stream
                    /\ written[m].entry.ids[k] = Stream[LastPlace(m - 1) + k]
    <3> DEFINE ids == written[m].entry.ids
               a == Places[m - 1]
               b == Places[m]
    <3>1. /\ ids \in Seq(LineId) /\ Len(ids) = b - a /\ \A k \in 1..(b - a) : ids[k] = Stream[a + k]
          /\ a \in Nat /\ b \in Nat /\ a < b /\ b <= Len(Stream) /\ Len(Stream) \in Nat
          /\ LastPlace(m - 1) = a /\ DOMAIN Stream = 1..Len(Stream)
      BY <2>1, WrittenMessage DEF Covers
    <3> HIDE DEF ids, a, b
    <3>2. ids # <<>>
      BY <3>1
    <3>3. \A k \in DOMAIN ids : a + k \in DOMAIN Stream /\ ids[k] = Stream[a + k]
      <4>1. DOMAIN ids = 1..(b - a)
        BY <3>1
      <4> QED BY <3>1, <4>1
    <3> QED BY <3>1, <3>2, <3>3 DEF ids
  <2>2. result = "ok" => LastPlace(Len(written)) = Len(Stream)
    <3>1. Len(written) \in Nat
      BY LenProperties DEF IndInv, TypeInv, IsSequence
    <3>2. LastPlace(Len(written)) = AllWritten
      BY <3>1 DEF AllWritten, Places
    <3> QED BY <3>2 DEF IndInv, OkInv
  <2> QED BY <2>1, <2>2 DEF LinesInOrder
<1> QED BY <1>1, PullInductive, PTL

\* Where both sources count from zero and no joiner stands before the append, an
\* entry has the index of its first line in the appended stream.
THEOREM PullIndexExact == Spec => []IndexExact
<1>1. IndInv => IndexExact
  <2> SUFFICES ASSUME IndInv, FromZero, NEW m \in DOMAIN written
               PROVE  /\ written[m].idx + 1 \in DOMAIN Stream
                      /\ Stream[written[m].idx + 1] = written[m].entry.ids[1]
    BY DEF IndexExact, FromZero
  <2> DEFINE ids == written[m].entry.ids
             a == Places[m - 1]
             b == Places[m]
  <2>1. /\ \A k \in 1..(b - a) : ids[k] = Stream[a + k]
        /\ a \in Nat /\ b \in Nat /\ a < b /\ b <= Len(Stream) /\ Len(Stream) \in Nat
        /\ DOMAIN Stream = 1..Len(Stream) /\ m \in 1..Len(written)
    BY WrittenMessage DEF Covers
  <2>2. written[m].idx = a
    BY <2>1 DEF IndInv, WrittenInv
  <2> HIDE DEF ids, a, b
  <2>3. 1 \in 1..(b - a) /\ a + 1 \in 1..Len(Stream)
    BY <2>1
  <2>4. ids[1] = Stream[a + 1]
    BY <2>1, <2>3
  <2> QED BY <2>1, <2>2, <2>3, <2>4 DEF ids
<1> QED BY <1>1, PullInductive, PTL

\* A message has one start line, its first, and begins only where there is a
\* start line, where the input begins, or where a failure has cut it.
THEOREM PullMessageBounds == Spec => []MessageBounds
<1>1. IndInv => MessageBounds
  <2> SUFFICES ASSUME IndInv, NEW m \in DOMAIN written
               PROVE  OneStartLine(written[m].entry.ids) /\ MayBegin(m, written[m].entry.ids[1])
    BY DEF MessageBounds
  <2> DEFINE ids == written[m].entry.ids
  <2>1. /\ m \in 1..Len(written) /\ Places[m - 1] \in Nat
        /\ ids \in Seq(LineId) /\ Len(ids) >= 1
    <3>1. /\ m \in 1..Len(written) /\ Places[m - 1] \in Nat /\ Places[m] \in Nat
          /\ Places[m - 1] < Places[m] /\ ids \in Seq(LineId) /\ Len(ids) = Places[m] - Places[m - 1]
      BY WrittenMessage DEF Covers
    <3> HIDE DEF ids
    <3> QED BY <3>1
  <2>2. NoOtherStart(ids) /\ MayBeginAfter(Places[m - 1], ids[1])
    BY <2>1 DEF IndInv, WrittenInv
  <2>3. Places[m - 1] = 0 => m = 1
    <3>1. SUFFICES ASSUME m # 1 PROVE Places[m - 1] # 0
      OBVIOUS
    <3>2. m - 1 \in 1..Len(written) /\ m - 1 \in DOMAIN written
      BY <2>1, <3>1 DEF IndInv, TypeInv, IsSequence
    <3>3. Places[m - 1 - 1] \in Nat /\ Places[m - 1 - 1] < Places[m - 1]
      BY <3>2, WrittenMessage
    <3> QED BY <2>1, <3>3
  <2>4. \A id \in LineId : id \in Starts <=> StartLine(id)
    BY DEF Starts
  <2> HIDE DEF ids
  <2>5. OneStartLine(ids)
    <3>1. \A k \in 2..Len(ids) : ids[k] \in LineId
      BY <2>1, ElementOfSeq
    <3> QED BY <2>2, <2>4, <3>1 DEF OneStartLine, NoOtherStart
  <2>6. ids[1] \in LineId
    BY <2>1
  <2>7. MayBegin(m, ids[1])
    BY <2>2, <2>3, <2>4, <2>6 DEF MayBegin, MayBeginAfter
  <2> QED BY <2>5, <2>7 DEF ids
<1> QED BY <1>1, PullInductive, PTL

\* Success hides a failure of a source only if a joiner took it for the end of
\* a message that had begun.
THEOREM PullFailureReported == Spec => []FailureReported
<1>1. IndInv => FailureReported
  BY DEF IndInv, OkInv, FailureReported
<1> QED BY <1>1, PullInductive, PTL

-----------------------------------------------------------------------------
(* Induction over the natural numbers, with a set for what is shown of them: *)
(* < is a well-founded relation, and a set that is not empty has a minimum.  *)

LEMMA Order ==
  \E rel : IsWellFoundedOn(rel, Nat) /\ \A m, n \in Nat : m < n => <<m, n>> \in rel
<1> DEFINE less == OpToRel(<, Nat)
<1>1. IsWellFoundedOn(less, Nat)
  BY NatLessThanWellFounded
<1>2. \A m, n \in Nat : m < n => <<m, n>> \in less
  BY DEF OpToRel
<1> HIDE DEF less
<1> QED BY <1>1, <1>2, Zenon

LEMMA Least ==
  ASSUME NEW T, T \subseteq Nat, T # {}
  PROVE  \E n \in T : \A m \in T : n <= m
<1>1. PICK rel : IsWellFoundedOn(rel, Nat) /\ \A m, n \in Nat : m < n => <<m, n>> \in rel
  BY Order
<1>2. IsWellFoundedOn(rel, Nat)
  BY <1>1
<1>3. PICK n \in T : \A m \in T : ~(<<m, n>> \in rel)
  BY <1>2, WFMin
<1>4. ASSUME NEW m \in T PROVE n <= m
  <2>1. ~(<<m, n>> \in rel) /\ m \in Nat /\ n \in Nat
    BY <1>3
  <2>2. ~(m < n)
    BY <1>1, <2>1, Zenon
  <2> QED BY <2>1, <2>2
<1> QED BY <1>4

LEMMA SetInduction ==
  ASSUME NEW T, 0 \in T, \A n \in Nat : n \in T => n + 1 \in T
  PROVE  Nat \subseteq T
<1> DEFINE U == {n \in Nat : n \notin T}
<1>1. SUFFICES ASSUME U # {} PROVE FALSE
  OBVIOUS
<1>2. PICK n \in U : \A m \in U : n <= m
  <2> HIDE DEF U
  <2> QED BY <1>1, Least DEF U
<1>3. n # 0 /\ n - 1 \in Nat /\ n - 1 \notin U
  BY <1>2
<1> QED BY <1>3

\* A recursive definition over 0..n defines a function: one for which each
\* value is a step from the one before.
Steps(n, A) == [(1..n) \X A -> A]
Recurses(g, n, A, a, step) ==
  /\ g \in [0..n -> A] /\ g[0] = a
  /\ \A i \in 1..n : g[i] = step[<<i, g[i - 1]>>]

LEMMA Recursion ==
  ASSUME NEW n \in Nat, NEW A, NEW a \in A, NEW step \in Steps(n, A)
  PROVE  \E g : Recurses(g, n, A, a, step)
<1> USE DEF Steps
<1> DEFINE Good(m, g) == g[0] = a /\ \A i \in 1..m : g[i] = step[<<i, g[i - 1]>>]
           T == {m \in Nat : m <= n => \E g \in [0..m -> A] : Good(m, g)}
<1>1. 0 \in T
  <2>1. [i \in 0..0 |-> a] \in [0..0 -> A] /\ Good(0, [i \in 0..0 |-> a])
    OBVIOUS
  <2> QED BY <2>1
<1>2. ASSUME NEW m \in Nat, m \in T PROVE m + 1 \in T
  <2> SUFFICES ASSUME m + 1 <= n PROVE \E h \in [0..(m + 1) -> A] : Good(m + 1, h)
    OBVIOUS
  <2>1. PICK g \in [0..m -> A] : Good(m, g)
    BY <1>2
  <2> DEFINE x == step[<<m + 1, g[m]>>]
             h == [i \in 0..(m + 1) |-> IF i = m + 1 THEN x ELSE g[i]]
  <2>2. x \in A
    <3>1. <<m + 1, g[m]>> \in (1..n) \X A
      OBVIOUS
    <3> QED BY <3>1
  <2>3. h \in [0..(m + 1) -> A]
    <3> HIDE DEF x
    <3> QED BY <2>2
  <2>4. h[0] = a
    BY <2>1
  <2>5. ASSUME NEW i \in 1..(m + 1) PROVE h[i] = step[<<i, h[i - 1]>>]
    <3>1. CASE i = m + 1
      <4>1. i - 1 = m /\ i - 1 \in 0..(m + 1) /\ h[i - 1] = g[m]
        BY <3>1
      <4>2. h[i] = x
        BY <3>1
      <4> QED BY <3>1, <4>1, <4>2
    <3>2. CASE i # m + 1
      <4>1. i \in 1..m /\ i - 1 \in 0..m
        BY <3>2
      <4>2. h[i] = g[i] /\ h[i - 1] = g[i - 1]
        BY <4>1
      <4> QED BY <2>1, <4>1, <4>2
    <3> QED BY <3>1, <3>2
  <2> HIDE DEF h
  <2> QED BY <2>3, <2>4, <2>5
<1>3. Nat \subseteq T
  <2> HIDE DEF T
  <2> QED BY <1>1, <1>2, SetInduction
<1>4. n \in T
  BY <1>3
<1> QED BY <1>4 DEF Recurses

-----------------------------------------------------------------------------
(* What FlattenSeq and the collector of a cut compute *)

\* What FlattenSeq computes: each of the first n sequences is put behind those
\* before it.
Flattens(g, s, n) == g[1] = s[1] /\ \A i \in 2..n : g[i] = g[i - 1] \o s[i]

LEMMA ConcatUnique ==
  ASSUME NEW n \in Nat, NEW s, NEW g, NEW h, Flattens(g, s, n), Flattens(h, s, n)
  PROVE  \A i \in 1..n : g[i] = h[i]
<1> DEFINE T == {m \in Nat : m + 1 <= n => g[m + 1] = h[m + 1]}
<1> USE DEF Flattens
<1>1. 0 \in T
  OBVIOUS
<1>2. ASSUME NEW m \in Nat, m \in T PROVE m + 1 \in T
  <2> SUFFICES ASSUME (m + 1) + 1 <= n PROVE g[(m + 1) + 1] = h[(m + 1) + 1]
    OBVIOUS
  <2>1. g[m + 1] = h[m + 1] /\ (m + 1) + 1 \in 2..n /\ ((m + 1) + 1) - 1 = m + 1
    BY <1>2
  <2> QED BY <2>1
<1>3. Nat \subseteq T
  <2> HIDE DEF T
  <2> QED BY <1>1, <1>2, SetInduction
<1>4. ASSUME NEW i \in 1..n PROVE g[i] = h[i]
  <2>1. i - 1 \in Nat /\ (i - 1) + 1 = i /\ (i - 1) + 1 <= n
    OBVIOUS
  <2>2. i - 1 \in T
    BY <1>3, <2>1
  <2> QED BY <2>1, <2>2
<1> QED BY <1>4

LEMMA FlattenValue ==
  ASSUME NEW W, NEW s \in Seq(Seq(W)), s # <<>>
  PROVE  \E g \in [1..Len(s) -> Seq(W)] : Flattens(g, s, Len(s)) /\ FlattenSeq(s) = g[Len(s)]
<1> DEFINE n == Len(s)
           step == [p \in (1..n) \X Seq(W) |-> p[2] \o s[p[1]]]
           Defines(g) == g = [i \in 1..n |-> IF i = 1 THEN s[i] ELSE g[i - 1] \o s[i]]
           flatten == CHOOSE g : Defines(g)
<1>1. n \in Nat /\ n >= 1 /\ \A i \in 1..n : s[i] \in Seq(W)
  BY EmptySeq, LenProperties, ElementOfSeq
<1>2. step \in [(1..n) \X Seq(W) -> Seq(W)]
  <2>1. ASSUME NEW p \in (1..n) \X Seq(W) PROVE p[2] \o s[p[1]] \in Seq(W)
    <3>1. p[2] \in Seq(W) /\ s[p[1]] \in Seq(W)
      BY <1>1
    <3> QED BY <3>1, ConcatProperties
  <2> QED BY <2>1
<1>3. PICK h \in [0..n -> Seq(W)] : h[0] = <<>> /\ \A i \in 1..n : h[i] = step[<<i, h[i - 1]>>]
  <2>1. <<>> \in Seq(W)
    OBVIOUS
  <2> DEFINE a == <<>>
             A == Seq(W)
  <2> HIDE DEF step, n, a, A
  <2>2. n \in Nat /\ a \in A /\ step \in Steps(n, A)
    BY <1>1, <1>2 DEF a, A, Steps
  <2>3. PICK h : Recurses(h, n, A, a, step)
    BY <2>2, Recursion
  <2> QED BY <2>3 DEF a, A, Recurses
<1>4. ASSUME NEW i \in 1..n PROVE h[i] = h[i - 1] \o s[i]
  <2>1. i - 1 \in 0..n
    BY <1>1
  <2>2. <<i, h[i - 1]>> \in (1..n) \X Seq(W)
    BY <1>3, <2>1
  <2> QED BY <1>3, <2>2
<1>5. h[1] = s[1]
  <2>1. 1 \in 1..n /\ 1 - 1 = 0
    BY <1>1
  <2>2. h[1] = <<>> \o s[1]
    BY <1>3, <1>4, <2>1
  <2> QED BY <1>1, <2>1, <2>2, ConcatEmptySeq
<1> DEFINE g == [i \in 1..n |-> h[i]]
<1> HIDE DEF n, step
<1>6. g \in [1..n -> Seq(W)]
  BY <1>1, <1>3
<1>7. ASSUME NEW i \in 2..n PROVE g[i] = g[i - 1] \o s[i]
  <2>1. i \in 1..n /\ i - 1 \in 1..n
    BY <1>1
  <2> QED BY <1>4, <2>1
<1>8. g[1] = s[1]
  BY <1>1, <1>5
<1>9. Defines(g)
  <2>1. ASSUME NEW i \in 1..n PROVE h[i] = IF i = 1 THEN s[i] ELSE g[i - 1] \o s[i]
    <3>1. CASE i = 1
      BY <1>5, <3>1
    <3>2. CASE i # 1
      <4>1. i \in 2..n
        BY <1>1, <3>2
      <4> QED BY <1>7, <3>2, <4>1
    <3> QED BY <3>1, <3>2
  <2> QED BY <2>1
<1>10. Defines(flatten)
  <2> HIDE DEF g
  <2>1. \E x : Defines(x)
    BY <1>9
  <2> QED BY <2>1
<1>11. FlattenSeq(s) = flatten[n]
  <2>1. Len(s) # 0
    BY <1>1 DEF n
  <2> QED BY <2>1 DEF FlattenSeq, n
<1> HIDE DEF g, flatten
<1>12. \A i \in 1..n : flatten[i] = g[i]
  <2>1. flatten[1] = g[1]
    BY <1>1, <1>8, <1>10
  <2>2. \A i \in 2..n : flatten[i] = flatten[i - 1] \o s[i]
    <3> TAKE i \in 2..n
    <3>1. i \in 1..n /\ i # 1
      BY <1>1
    <3> QED BY <1>10, <3>1
  <2>3. Flattens(flatten, s, n) /\ Flattens(g, s, n)
    BY <1>7, <1>8, <2>1, <2>2 DEF Flattens
  <2> QED BY <1>1, <2>3, ConcatUnique
<1>13. FlattenSeq(s) = g[n]
  BY <1>1, <1>11, <1>12
<1> QED BY <1>6, <1>7, <1>8, <1>13 DEF n, Flattens

LEMMA FlattenOne ==
  ASSUME NEW W, NEW x \in Seq(W)
  PROVE  FlattenSeq(<<x>>) = x
<1>1. <<x>> \in Seq(Seq(W)) /\ <<x>> # <<>> /\ Len(<<x>>) = 1 /\ <<x>>[1] = x
  OBVIOUS
<1>2. PICK g : Flattens(g, <<x>>, Len(<<x>>)) /\ FlattenSeq(<<x>>) = g[Len(<<x>>)]
  BY <1>1, FlattenValue
<1> QED BY <1>1, <1>2 DEF Flattens

LEMMA FlattenAppend ==
  ASSUME NEW W, NEW s \in Seq(Seq(W)), s # <<>>, NEW x \in Seq(W)
  PROVE  FlattenSeq(Append(s, x)) = FlattenSeq(s) \o x /\ FlattenSeq(s) \in Seq(W)
<1> DEFINE n == Len(s)
           t == Append(s, x)
<1>1. n \in Nat /\ n >= 1
  BY EmptySeq, LenProperties
<1>2. t \in Seq(Seq(W)) /\ t # <<>> /\ Len(t) = n + 1 /\ t[n + 1] = x /\ \A i \in 1..n : t[i] = s[i]
  BY AppendProperties
<1>3. PICK g \in [1..n -> Seq(W)] : Flattens(g, s, n) /\ FlattenSeq(s) = g[n]
  BY FlattenValue
<1>4. PICK h : Flattens(h, t, n + 1) /\ FlattenSeq(t) = h[n + 1]
  <2> HIDE DEF t, n
  <2> QED BY <1>2, FlattenValue
<1> HIDE DEF n, t
<1>5. Flattens(g, s, n) /\ Flattens(h, s, n)
  <2>1. t[1] = s[1]
    BY <1>1, <1>2
  <2>2. \A i \in 2..n : i \in 2..(n + 1) /\ t[i] = s[i]
    BY <1>1, <1>2
  <2> QED BY <1>3, <1>4, <2>1, <2>2 DEF Flattens
<1>7. h[n] = g[n]
  <2>1. \A i \in 1..n : g[i] = h[i]
    BY <1>1, <1>5, ConcatUnique
  <2> QED BY <1>1, <2>1
<1>8. h[n + 1] = h[n] \o x
  <2>1. n + 1 \in 2..(n + 1) /\ (n + 1) - 1 = n
    BY <1>1, <1>2
  <2> QED BY <1>2, <1>4, <2>1 DEF Flattens
<1>9. g[n] \in Seq(W)
  BY <1>1, <1>3
<1> QED BY <1>3, <1>4, <1>7, <1>8, <1>9 DEF t

\* The positions up to p of the words that are mapped to no field.
UnmappedTo(c, words, p) == {q \in 1..p : FieldsAt(c, q, Len(words)) = {}}

\* What the collector leaves of the words: those that are mapped to no field,
\* in their order.
LEMMA RemainingWords ==
  ASSUME NEW c, NEW W, NEW words \in Seq(W)
  PROVE  /\ Remaining(c, words) \in Seq(W)
         /\ Len(Remaining(c, words)) = Cardinality(UnmappedTo(c, words, Len(words)))
         /\ \A p \in UnmappedTo(c, words, Len(words)) :
              Remaining(c, words)[Cardinality(UnmappedTo(c, words, p))] = words[p]
<1> DEFINE n == Len(words)
           Free(p) == FieldsAt(c, p, n) = {}
           To(p) == UnmappedTo(c, words, p)
           step == [x \in (1..n) \X Seq(W) |-> IF Free(x[1]) THEN Append(x[2], words[x[1]]) ELSE x[2]]
           Defines(g) == g = [p \in 0..n |-> IF p = 0 THEN <<>>
                                             ELSE IF Free(p) THEN Append(g[p - 1], words[p])
                                             ELSE g[p - 1]]
           buf == CHOOSE g : Defines(g)
<1>1. n \in Nat /\ \A p \in 1..n : words[p] \in W
  BY LenProperties, ElementOfSeq
<1>2. step \in [(1..n) \X Seq(W) -> Seq(W)]
  <2>1. ASSUME NEW x \in (1..n) \X Seq(W)
        PROVE  (IF Free(x[1]) THEN Append(x[2], words[x[1]]) ELSE x[2]) \in Seq(W)
    <3>1. x[2] \in Seq(W) /\ words[x[1]] \in W
      BY <1>1
    <3> HIDE DEF Free
    <3> QED BY <3>1, AppendProperties
  <2> HIDE DEF Free
  <2> QED BY <2>1
<1>3. PICK h \in [0..n -> Seq(W)] : h[0] = <<>> /\ \A p \in 1..n : h[p] = step[<<p, h[p - 1]>>]
  <2>1. <<>> \in Seq(W)
    OBVIOUS
  <2> DEFINE a == <<>>
             A == Seq(W)
  <2> HIDE DEF step, n, a, A
  <2>2. n \in Nat /\ a \in A /\ step \in Steps(n, A)
    BY <1>1, <1>2 DEF a, A, Steps
  <2>3. PICK h : Recurses(h, n, A, a, step)
    BY <2>2, Recursion
  <2> QED BY <2>3 DEF a, A, Recurses
<1>4. ASSUME NEW p \in 1..n
      PROVE  h[p] = IF Free(p) THEN Append(h[p - 1], words[p]) ELSE h[p - 1]
  <2>1. p - 1 \in 0..n
    BY <1>1
  <2>2. <<p, h[p - 1]>> \in (1..n) \X Seq(W)
    BY <1>3, <2>1
  <2> HIDE DEF Free
  <2> QED BY <1>3, <2>2
<1> HIDE DEF n, step, Free
<1>5. Defines(h)
  <2>1. ASSUME NEW p \in 0..n
        PROVE  h[p] = IF p = 0 THEN <<>> ELSE IF Free(p) THEN Append(h[p - 1], words[p]) ELSE h[p - 1]
    <3>1. CASE p = 0
      BY <1>3, <3>1
    <3>2. CASE p # 0
      <4>1. p \in 1..n
        BY <1>1, <3>2
      <4> QED BY <1>4, <3>2, <4>1
    <3> QED BY <3>1, <3>2
  <2> QED BY <1>3, <2>1
<1>6. Defines(buf)
  <2>1. \E x : Defines(x)
    BY <1>5
  <2> QED BY <2>1
<1>7. Remaining(c, words) = buf[n]
  BY DEF Remaining, n, Free
<1> HIDE DEF buf
<1>8. \A p \in 0..n : buf[p] = h[p]
  <2> DEFINE T == {m \in Nat : m <= n => buf[m] = h[m]}
  <2>1. 0 \in T
    BY <1>1, <1>3, <1>6
  <2>2. ASSUME NEW m \in Nat, m \in T PROVE m + 1 \in T
    <3> SUFFICES ASSUME m + 1 <= n PROVE buf[m + 1] = h[m + 1]
      OBVIOUS
    <3>1. buf[m] = h[m] /\ m + 1 \in 1..n /\ (m + 1) - 1 = m
      BY <1>1, <2>2
    <3>2. h[m + 1] = IF Free(m + 1) THEN Append(h[m], words[m + 1]) ELSE h[m]
      BY <1>4, <3>1
    <3>3. buf[m + 1] = IF Free(m + 1) THEN Append(buf[m], words[m + 1]) ELSE buf[m]
      <4>1. m + 1 \in 0..n /\ m + 1 # 0
        BY <1>1, <3>1
      <4> QED BY <1>6, <3>1, <4>1
    <3> QED BY <3>1, <3>2, <3>3
  <2>3. Nat \subseteq T
    <3> HIDE DEF T
    <3> QED BY <2>1, <2>2, SetInduction
  <2> QED BY <1>1, <2>3
<1>9. \A m \in 0..n : /\ IsFiniteSet(To(m)) /\ Len(h[m]) = Cardinality(To(m))
                      /\ \A p \in To(m) : h[m][Cardinality(To(p))] = words[p]
  <2> DEFINE Right(m) == /\ IsFiniteSet(To(m)) /\ Len(h[m]) = Cardinality(To(m))
                         /\ \A p \in To(m) : h[m][Cardinality(To(p))] = words[p]
             T == {m \in Nat : m <= n => Right(m)}
  <2>1. 0 \in T
    <3>1. To(0) = {}
      BY DEF UnmappedTo
    <3> HIDE DEF To
    <3>2. Right(0)
      BY <1>3, <3>1, FS_EmptySet
    <3> QED BY <3>2
  <2>2. ASSUME NEW m \in Nat, m \in T PROVE m + 1 \in T
    <3> SUFFICES ASSUME m + 1 <= n PROVE Right(m + 1)
      OBVIOUS
    <3>1. Right(m) /\ m \in 0..n /\ m + 1 \in 1..n /\ (m + 1) - 1 = m
      BY <1>1, <2>2
    <3>2. h[m + 1] = IF Free(m + 1) THEN Append(h[m], words[m + 1]) ELSE h[m]
      BY <1>4, <3>1
    <3>3. h[m] \in Seq(W) /\ words[m + 1] \in W
      BY <1>1, <1>3, <3>1
    <3>4. CASE Free(m + 1)
      <4>1. To(m + 1) = To(m) \cup {m + 1} /\ m + 1 \notin To(m)
        BY <3>4 DEF UnmappedTo, Free, n
      <4>2. h[m + 1] = Append(h[m], words[m + 1])
        BY <3>2, <3>4
      <4> HIDE DEF To
      <4>3. IsFiniteSet(To(m + 1)) /\ Cardinality(To(m + 1)) = Cardinality(To(m)) + 1
        BY <3>1, <4>1, FS_AddElement
      <4>4. /\ Len(h[m + 1]) = Len(h[m]) + 1 /\ h[m + 1][Len(h[m]) + 1] = words[m + 1]
            /\ \A i \in 1..Len(h[m]) : h[m + 1][i] = h[m][i]
        BY <3>3, <4>2, AppendProperties
      <4>5. ASSUME NEW p \in To(m) PROVE h[m + 1][Cardinality(To(p))] = words[p]
        <5>1. p \in 1..m /\ Free(p)
          BY <4>5 DEF To, UnmappedTo, Free, n
        <5>2. To(p) \subseteq To(m) /\ p \in To(p)
          BY <5>1 DEF To, UnmappedTo, Free, n
        <5>3. IsFiniteSet(To(p)) /\ Cardinality(To(p)) <= Cardinality(To(m))
          BY <3>1, <5>2, FS_Subset
        <5>4. Cardinality(To(p)) \in Nat /\ Cardinality(To(p)) # 0
          BY <5>2, <5>3, FS_EmptySet, FS_CardinalityType
        <5>5. Cardinality(To(p)) \in 1..Len(h[m])
          BY <3>1, <5>3, <5>4, FS_CardinalityType
        <5> QED BY <3>1, <4>4, <5>5
      <4> QED BY <3>1, <4>1, <4>3, <4>4, <4>5
    <3>5. CASE ~Free(m + 1)
      <4>1. To(m + 1) = To(m)
        BY <3>5 DEF UnmappedTo, Free, n
      <4> HIDE DEF To
      <4> QED BY <3>1, <3>2, <3>5, <4>1
    <3> QED BY <3>4, <3>5
  <2>3. Nat \subseteq T
    <3> HIDE DEF T
    <3> QED BY <2>1, <2>2, SetInduction
  <2> QED BY <1>1, <2>3
<1>10. Remaining(c, words) = h[n] /\ n \in 0..n
  BY <1>1, <1>7, <1>8
<1> QED BY <1>3, <1>9, <1>10 DEF n

-----------------------------------------------------------------------------
(* The text of a message *)

LineText == Seq(Seq(STRING))
RawText(id) == source[id[1]].lines[id[2]]

\* The lines that there are.
Given(id) == id \in LineId /\ id[2] \in 1..Total(id[1])

LEMMA StreamGiven ==
  ASSUME source \in Sources, NEW p \in 1..Len(Stream)
  PROVE  Given(Stream[p])
<1>1. /\ Total("i") \in Nat /\ Total("k") \in Nat /\ Len(Stream) = Total("i") + Total("k")
      /\ Stream[p] = IF p <= Total("i") THEN <<"i", p>> ELSE <<"k", p - Total("i")>>
      /\ Stream[p] \in LineId
  BY StreamFacts
<1>2. CASE p <= Total("i")
  BY <1>1, <1>2 DEF Given
<1>3. CASE ~(p <= Total("i"))
  <2>1. Stream[p] = <<"k", p - Total("i")>>
    BY <1>1, <1>3
  <2>2. p - Total("i") \in 1..Total("k")
    BY <1>1, <1>3
  <2> QED BY <1>1, <2>1, <2>2 DEF Given
<1> QED BY <1>2, <1>3

\* What the cut, if there is one for its source, makes of a line.
LEMMA LineParts ==
  ASSUME source \in Sources, NEW id, Given(id)
  PROVE  /\ RawText(id) \in LineText
         /\ RawText(id) # <<>> => RawText(id)[1] \in Seq(STRING)
         /\ Line(id) = IF script.cut \in {"all", id[1]} /\ RawText(id) # <<>>
                       THEN Collect(collector, RawText(id)[1], Raw(id)) ELSE Raw(id)
         /\ Raw(id).msg = RawText(id) /\ Line(id).msg \in LineText
<1> DEFINE raw == RawText(id)
<1>1. raw \in LineText
  <2>1. /\ id[1] \in Src /\ source[id[1]].lines \in Seq(LineText)
        /\ id[2] \in 1..Len(source[id[1]].lines)
    BY SourcesAssumption DEF Given, LineId, Total, LineText
  <2> QED BY <2>1, ElementOfSeq DEF RawText
<1>2. raw # <<>> => raw[1] \in Seq(STRING)
  BY <1>1 DEF LineText
<1>3. Raw(id).msg = raw
  BY DEF Raw, Entry, RawText
<1>4. Line(id) = IF script.cut \in {"all", id[1]} /\ raw # <<>>
                 THEN Collect(collector, raw[1], Raw(id)) ELSE Raw(id)
  <2>1. Line(id) = IF script.cut = "all" \/ script.cut = id[1] THEN Cut(Raw(id)) ELSE Raw(id)
    BY DEF Line, Raw
  <2>2. Cut(Raw(id)) = IF raw = <<>> THEN Raw(id) ELSE Collect(collector, raw[1], Raw(id))
    BY <1>3 DEF Cut
  <2> HIDE DEF raw
  <2> QED BY <2>1, <2>2
<1>5. Line(id).msg \in LineText
  <2>1. ASSUME raw # <<>> PROVE Collect(collector, raw[1], Raw(id)).msg \in LineText
    <3>1. Collect(collector, raw[1], Raw(id)).msg = <<Remaining(collector, raw[1])>>
      <4> HIDE DEF raw
      <4>1. PICK f : Collect(collector, raw[1], Raw(id)) =
                       [Raw(id) EXCEPT !.msg = <<Remaining(collector, raw[1])>>, !.fields = f]
        BY Zenon DEF Collect
      <4> QED BY <4>1 DEF Raw, Entry
    <3>2. Remaining(collector, raw[1]) \in Seq(STRING)
      <4> HIDE DEF raw
      <4> QED BY <1>2, <2>1, RemainingWords
    <3> QED BY <3>1, <3>2 DEF LineText
  <2> QED BY <1>1, <1>3, <1>4, <2>1
<1> QED BY <1>1, <1>2, <1>3, <1>4, <1>5

\* The text of a message of one line, and of one that a line is added to.
LEMMA TextOfOne ==
  ASSUME source \in Sources, NEW id, Given(id)
  PROVE  TextOf(<<id>>) = IF Joined(id[1]) /\ Line(id).msg = <<>> THEN <<<<>>>> ELSE Line(id).msg
<1> DEFINE x == Line(id).msg
           ids == <<id>>
           msgs == [k \in DOMAIN ids |-> Line(ids[k]).msg]
<1>1. x \in LineText
  BY LineParts
<1>2. DOMAIN ids = 1..1 /\ ids[1] = id
  OBVIOUS
<1>3. msgs = <<x>>
  <2> HIDE DEF ids, x
  <2>1. \A k \in 1..1 : Line(ids[k]).msg = x
    BY <1>2 DEF x
  <2> QED BY <1>2, <2>1
<1>4. FlattenSeq(msgs) = x
  <2> HIDE DEF x, msgs
  <2> QED BY <1>1, <1>3, FlattenOne DEF LineText
<1>5. TextOf(ids) = (IF Joined(ids[1][1]) /\ msgs[1] = <<>> THEN <<<<>>>> ELSE <<>>) \o FlattenSeq(msgs)
  BY DEF TextOf
<1> HIDE DEF msgs, x, ids
<1>6. msgs[1] = x
  BY <1>3
<1>7. <<<<>>>> \in LineText /\ <<>> \in LineText
  BY DEF LineText
<1>8. <<<<>>>> \o <<>> = <<<<>>>> /\ <<>> \o x = x
  BY <1>1, <1>7, ConcatEmptySeq DEF LineText
<1> QED BY <1>2, <1>4, <1>5, <1>6, <1>8 DEF x, ids

LEMMA TextOfMore ==
  ASSUME source \in Sources, NEW ids \in Seq(LineId), ids # <<>>, \A k \in 1..Len(ids) : Given(ids[k]),
         NEW id, Given(id)
  PROVE  TextOf(ids \o <<id>>) = TextOf(ids) \o Line(id).msg
<1> DEFINE x == Line(id).msg
           n == Len(ids)
           more == ids \o <<id>>
           msgs == [k \in DOMAIN ids |-> Line(ids[k]).msg]
           moreMsgs == [k \in DOMAIN more |-> Line(more[k]).msg]
           first(m, s) == IF Joined(m[1][1]) /\ s[1] = <<>> THEN <<<<>>>> ELSE <<>>
<1>1. x \in LineText /\ n \in Nat /\ n >= 1 /\ DOMAIN ids = 1..n
  BY LineParts, EmptySeq, LenProperties
<1>2. /\ more \in Seq(LineId) /\ DOMAIN more = 1..(n + 1) /\ more[n + 1] = id
      /\ \A k \in 1..n : more[k] = ids[k]
  <2>1. <<id>> \in Seq(LineId) /\ Len(<<id>>) = 1 /\ <<id>>[1] = id
    BY DEF Given
  <2> QED BY <2>1, ConcatProperties, LenProperties
<1>3. msgs \in Seq(LineText) /\ Len(msgs) = n /\ msgs # <<>>
  <2>1. \A k \in 1..n : Line(ids[k]).msg \in LineText
    BY LineParts
  <2> HIDE DEF n
  <2> QED BY <1>1, <2>1
<1>4. moreMsgs = Append(msgs, x)
  <2> HIDE DEF msgs, more, n
  <2>1. Append(msgs, x) = [k \in 1..(n + 1) |-> IF k = n + 1 THEN x ELSE msgs[k]]
    BY <1>1, <1>3
  <2>2. ASSUME NEW k \in 1..(n + 1)
        PROVE  Line(more[k]).msg = IF k = n + 1 THEN x ELSE msgs[k]
    <3>1. CASE k = n + 1
      BY <1>2, <3>1
    <3>2. CASE k # n + 1
      <4>1. k \in 1..n
        BY <1>1, <3>2
      <4>2. msgs[k] = Line(ids[k]).msg
        BY <1>1, <4>1 DEF msgs
      <4> QED BY <1>2, <3>2, <4>1, <4>2
    <3> QED BY <3>1, <3>2
  <2> QED BY <1>2, <2>1, <2>2
<1>5. /\ TextOf(ids) = first(ids, msgs) \o FlattenSeq(msgs)
      /\ TextOf(more) = first(more, moreMsgs) \o FlattenSeq(moreMsgs)
  BY DEF TextOf
<1> HIDE DEF x, n, more, msgs, moreMsgs
<1>6. FlattenSeq(moreMsgs) = FlattenSeq(msgs) \o x /\ FlattenSeq(msgs) \in LineText
  BY <1>1, <1>3, <1>4, FlattenAppend DEF LineText
<1>7. first(more, moreMsgs) = first(ids, msgs)
  <2>1. more[1] = ids[1] /\ moreMsgs[1] = msgs[1]
    BY <1>1, <1>2, <1>3, <1>4
  <2> QED BY <2>1
<1>8. first(ids, msgs) \in LineText
  <2>1. <<<<>>>> \in LineText /\ <<>> \in LineText
    BY DEF LineText
  <2> QED BY <2>1
<1> HIDE DEF first
<1>9. first(ids, msgs) \o (FlattenSeq(msgs) \o x) = (first(ids, msgs) \o FlattenSeq(msgs)) \o x
  <2> DEFINE W == Seq(STRING)
             a == first(ids, msgs)
             b == FlattenSeq(msgs)
  <2>1. a \in Seq(W) /\ b \in Seq(W) /\ x \in Seq(W)
    BY <1>1, <1>6, <1>8 DEF LineText
  <2> HIDE DEF W, a, b
  <2>2. (a \o b) \o x = a \o (b \o x)
    BY <2>1, ConcatAssociative
  <2> QED BY <2>2 DEF a, b
<1> QED BY <1>5, <1>6, <1>7, <1>9 DEF x, more

-----------------------------------------------------------------------------
(* The messages tell their lines *)

Text == [ids \in Seq(LineId) |-> TextOf(ids)]

\* An entry tells its lines: its message is their text, and its other fields are
\* those of the first one.
Tells(msg, fields, ids) == msg = Text[ids] /\ fields = LineOf[ids[1]].fields
Told(entry) == Tells(entry.msg, entry.fields, entry.ids)

\* While the sink runs: the joiner keeps nothing of an earlier message.
TextInv ==
  /\ ~StartDefined => joiner.msg = <<<<>>>>
  /\ (Pc # "clear" /\ StartDefined) => Tells(joiner.msg, joiner.start.fields, joiner.start.ids)
  /\ Pc = "clear" => Told(final["sink"].entry)
  /\ (MessageAt /\ R.kind = "entry") => Told(R.entry)

ToldInv ==
  /\ collector \in Collectors(script.sets)
  /\ \A m \in 1..Len(written) : Told(written[m].entry)
  /\ result = "none" => TextInv

LEMMA TextFrame ==
  ASSUME UNCHANGED inputVars
  PROVE  /\ Text' = Text /\ LineOf' = LineOf
         /\ \A msg, fields, ids : Tells(msg, fields, ids)' <=> Tells(msg, fields, ids)
         /\ \A entry : Told(entry)' <=> Told(entry)
<1>1. LineOf' = LineOf
  BY InputFrame
<1>2. \A id : Line(id)' = Line(id)
  <2>1. \A ids, msg : Cut(Entry(ids, msg))' = Cut(Entry(ids, msg))
    BY DEF inputVars, Cut, Entry
  <2> QED BY <2>1 DEF Line, inputVars
<1>3. \A ids : TextOf(ids)' = TextOf(ids)
  BY <1>2 DEF TextOf, Joined, inputVars
<1>4. Text' = Text
  BY <1>3 DEF Text
<1> QED BY <1>1, <1>4 DEF Tells, Told

\* The text of a line that comes to the joiner, or that is not joined.
LEMMA FreshText ==
  ASSUME source \in Sources, NEW id, Given(id), NEW entry, entry = LineOf[id]
  PROVE  /\ entry = Line(id) /\ entry.msg \in LineText /\ <<id>> \in Seq(LineId)
         /\ Text[<<id>>] = IF Joined(id[1]) /\ entry.msg = <<>> THEN <<<<>>>> ELSE entry.msg
<1>1. id \in LineId /\ <<id>> \in Seq(LineId)
  BY DEF Given
<1>2. entry = Line(id)
  BY <1>1 DEF LineOf
<1>3. Text[<<id>>] = TextOf(<<id>>)
  BY <1>1 DEF Text
<1> QED BY <1>1, <1>2, <1>3, LineParts, TextOfOne

\* A line that goes past the joiner to the sink.
LEMMA LineTold ==
  ASSUME source \in Sources, NEW id, Given(id), ~Joined(id[1]), NEW entry, entry = LineOf[id],
         entry.ids = <<id>>
  PROVE  Told(entry)
<1>1. Text[<<id>>] = entry.msg
  BY FreshText
<1>2. <<id>>[1] = id
  OBVIOUS
<1> QED BY <1>1, <1>2 DEF Told, Tells

\* A line that is the start of a message, in a joiner that is empty.
LEMMA StartTold ==
  ASSUME source \in Sources, NEW id, Given(id), Joined(id[1]),
         NEW r, r.entry = LineOf[id], r.entry.ids = <<id>>,
         NEW j, j.msg = <<<<>>>>, NEW s, s = SetStart(j, r)
  PROVE  Tells(s.msg, s.start.fields, s.start.ids)
<1>1. s.start = r.entry /\ s.msg = IF r.entry.msg = <<>> THEN <<<<>>>> ELSE r.entry.msg
  BY DEF SetStart
<1>2. Text[<<id>>] = IF r.entry.msg = <<>> THEN <<<<>>>> ELSE r.entry.msg
  BY FreshText
<1>3. <<id>>[1] = id
  OBVIOUS
<1> QED BY <1>1, <1>2, <1>3 DEF Tells

\* The line that has come to the joiner.
LEMMA FreshJoined ==
  ASSUME TypeInv, PhaseInv, WrittenInv, SinkInv, Pc \in {"joiner", "finalize", "clear"},
         R.kind = "entry", NEW id, id = R.entry.ids[1]
  PROVE  /\ Given(id) /\ Joined(id[1]) /\ R.entry = LineOf[id] /\ R.entry.ids = <<id>>
<1>1. FreshAt /\ script.join \in {"i", "all"}
  BY ScriptFacts DEF FreshAt, PhaseInv, TypeInv, Pc, Caller
<1>2. /\ R.entry.ids = <<id>> /\ AllTaken = JoinerEnd + 1
      /\ id = Stream[JoinerEnd + 1] /\ JoinerEnd + 1 \in 1..Len(Stream)
      /\ id = IF JoinerEnd + 1 <= Total("i") THEN <<"i", JoinerEnd + 1>>
              ELSE <<"k", JoinerEnd + 1 - Total("i")>>
      /\ R.entry = LineOf[id]
  BY <1>1, FreshLine
<1>3. Given(id)
  BY <1>2, StreamGiven DEF TypeInv
<1>4. Joined(id[1])
  <2>1. CASE script.join = "all"
    BY <2>1 DEF Joined
  <2>2. CASE script.join = "i"
    <3>1. taken["k"] = 0 /\ taken["i"] <= Total("i") /\ taken["i"] \in Nat
      BY <2>2 DEF SinkInv, JoinInv, TypeInv, Src
    <3>2. JoinerEnd + 1 <= Total("i")
      BY <1>2, <3>1 DEF AllTaken
    <3>3. id[1] = "i"
      BY <1>2, <3>2
    <3> QED BY <2>2, <3>3 DEF Joined
  <2> QED BY <1>1, <2>1, <2>2
<1> QED BY <1>2, <1>3, <1>4

LEMMA BaseText ==
  ASSUME TypeInv, PhaseInv, TextInv, Base("sink")
  PROVE  TextInv'
<1>1. /\ Pc = "base" /\ Pc' = FromBase /\ UNCHANGED inputVars /\ joiner' = joiner
  BY DEF Base, At, TypeInv, Caller, Pc
<1>2. script' = script /\ Pc' # "clear" /\ ~MessageAt'
  BY <1>1 DEF FromBase, MessageAt, inputVars
<1>3. \A msg, fields, ids : Tells(msg, fields, ids)' <=> Tells(msg, fields, ids)
  BY <1>1, TextFrame
<1> HIDE DEF Tells
<1> QED BY <1>1, <1>2, <1>3 DEF TextInv, StartDefined

LEMMA ConcatBaseText ==
  ASSUME TypeInv, PhaseInv, WrittenInv, SinkInv, TextInv, ConcatBase("sink")
  PROVE  TextInv'
<1>1. /\ Pc = "concat" /\ Pc' = FromConcat /\ R' = Cutter("all", R)
      /\ UNCHANGED inputVars /\ joiner' = joiner
  BY DEF ConcatBase, At, Gives, TypeInv, Caller, R, Pc
<1>2. script' = script /\ script.join \in {"none", "i", "all"} /\ Pc' # "clear"
  BY <1>1, ScriptFacts DEF FromConcat, inputVars, TypeInv
<1>3. /\ \A msg, fields, ids : Tells(msg, fields, ids)' <=> Tells(msg, fields, ids)
      /\ \A entry : Told(entry)' <=> Told(entry)
  BY <1>1, TextFrame
<1>4. ASSUME MessageAt', R'.kind = "entry" PROVE Told(R'.entry)
  <2>1. script.join # "all" /\ R.kind = "entry" /\ R = Result(R.kind, R.entry, R.idx)
    BY <1>1, <1>2, <1>4 DEF MessageAt, FromConcat, Cutter, SinkInv, ShapeInv, Result
  <2>2. CASE script.join = "i"
    <3>1. R' = R
      BY <1>1, <2>2, ScriptFacts DEF Cutter, TypeInv
    <3> QED BY <1>1, <2>1, <2>2, <3>1 DEF TextInv, MessageAt
  <2>3. CASE script.join = "none"
    <3> DEFINE id == R.entry.ids[1]
    <3>1. R'.entry = LineOf[id] /\ R'.entry.ids = R.entry.ids
      BY <2>1, <2>3, ConcatBaseEntry
    <3>2. FreshAt
      BY <1>1, <2>3 DEF FreshAt
    <3>3. R.entry.ids = <<id>> /\ id = Stream[JoinerEnd + 1] /\ JoinerEnd + 1 \in 1..Len(Stream)
      BY <2>1, <3>2, FreshLine
    <3> HIDE DEF id
    <3>4. Given(id)
      BY <3>3, StreamGiven DEF TypeInv
    <3>5. ~Joined(id[1])
      BY <2>3, <3>4 DEF Joined, Given, LineId, Src
    <3> QED BY <3>1, <3>3, <3>4, <3>5, LineTold DEF TypeInv
  <2> QED BY <1>2, <2>1, <2>2, <2>3
<1> QED BY <1>1, <1>2, <1>3, <1>4 DEF TextInv, StartDefined

LEMMA ConcatNextText ==
  ASSUME TypeInv, PhaseInv, WrittenInv, SinkInv, TextInv, ConcatNext("sink")
  PROVE  TextInv'
<1> DEFINE id == <<"k", taken["k"] + 1>>
<1>1. /\ Pc = "concat" /\ Pc' = FromConcat /\ R' = Cutter("all", Shifted(Outcome("k")))
      /\ UNCHANGED inputVars /\ joiner' = joiner /\ Advance("k")
  BY DEF ConcatNext, At, Gives, TypeInv, Caller, R, Pc
<1>2. script' = script /\ script.join \in {"none", "i", "all"} /\ Pc' # "clear"
  BY <1>1, ScriptFacts DEF FromConcat, inputVars, TypeInv
<1>3. /\ \A msg, fields, ids : Tells(msg, fields, ids)' <=> Tells(msg, fields, ids)
      /\ \A entry : Told(entry)' <=> Told(entry)
  BY <1>1, TextFrame
<1>4. ASSUME MessageAt', R'.kind = "entry" PROVE Told(R'.entry)
  <2>1. script.join # "all"
    BY <1>1, <1>2, <1>4 DEF MessageAt, FromConcat
  <2>2. GivesEntry("k")
    <3>1. (GivesEnd("k") => R' = End) /\ (GivesError("k") => R' = Err)
      BY <1>1, NextResult
    <3>2. End.kind # "entry" /\ Err.kind # "entry"
      BY DEF End, Err, Result
    <3> QED BY <1>1, <1>4, <3>1, <3>2, Answers DEF Src
  <2>3. R'.entry.ids = <<id>> /\ R'.entry = LineOf[id]
    BY <1>1, <2>2, NextResult
  <2>4. Given(id) /\ id[1] = "k"
    BY <2>2 DEF GivesEntry, Given, LineId, TypeInv, Src
  <2> HIDE DEF id
  <2>5. ~Joined(id[1])
    BY <1>2, <2>1, <2>4 DEF Joined
  <2> QED BY <2>3, <2>4, <2>5, LineTold DEF TypeInv
<1> QED BY <1>1, <1>2, <1>3, <1>4 DEF TextInv, StartDefined

LEMMA JoinerCollectText ==
  ASSUME TypeInv, PhaseInv, WrittenInv, SinkInv, TextInv, JoinerCollect("sink")
  PROVE  TextInv'
<1> DEFINE id == R.entry.ids[1]
<1>1. /\ Pc = "joiner" /\ Pc' = "base" /\ R' = R /\ R.kind = "entry" /\ UNCHANGED inputVars
      /\ joiner' = IF StartDefined THEN AppendMessage(R) ELSE SetStart(joiner, R)
  BY DEF JoinerCollect, At, TypeInv, Caller, R, Pc
<1>2. Given(id) /\ Joined(id[1]) /\ R.entry = LineOf[id] /\ R.entry.ids = <<id>>
  BY <1>1, FreshJoined
<1>3. /\ \A msg, fields, ids : Tells(msg, fields, ids)' <=> Tells(msg, fields, ids)
      /\ \A entry : Told(entry)' <=> Told(entry)
  BY <1>1, TextFrame
<1>4. ~MessageAt'
  BY <1>1 DEF MessageAt
<1> HIDE DEF id
<1>5. CASE ~StartDefined
  <2>1. joiner' = SetStart(joiner, R) /\ joiner.msg = <<<<>>>>
    BY <1>1, <1>5 DEF TextInv
  <2>2. Tells(joiner'.msg, joiner'.start.fields, joiner'.start.ids)
    BY <1>2, <2>1, StartTold DEF TypeInv
  <2>3. StartDefined'
    <3>1. joiner'.start = R.entry
      BY <2>1 DEF SetStart
    <3> QED BY <1>2, <3>1 DEF StartDefined, NoEntry, Entry
  <2> QED BY <1>1, <1>3, <1>4, <2>2, <2>3 DEF TextInv
<1>6. CASE StartDefined
  <2> DEFINE ids == joiner.start.ids
             old == joiner.start
  <2>1. /\ joiner = [start |-> old, msg |-> joiner.msg, idx |-> joiner.idx]
        /\ old = [ids |-> old.ids, msg |-> old.msg, fields |-> old.fields]
    BY DEF SinkInv, ShapeInv
  <2>2. joiner' = [joiner EXCEPT !.start.ids = @ \o <<id>>, !.msg = @ \o R.entry.msg]
    BY <1>1, <1>2, <1>6 DEF AppendMessage
  <2>3. /\ joiner'.msg = joiner.msg \o R.entry.msg
        /\ joiner'.start.ids = ids \o <<id>> /\ joiner'.start.fields = old.fields
    BY <2>1, <2>2
  <2>4. joiner.msg = Text[ids] /\ old.fields = LineOf[ids[1]].fields
    BY <1>1, <1>6 DEF TextInv, Tells
  <2>5. /\ ids \in Seq(LineId) /\ Len(ids) >= 1 /\ \A k \in 1..Len(ids) : Given(ids[k])
    <3>1. JoinerIds = ids /\ Len(ids) >= 1
      BY <1>1, <1>6 DEF JoinerIds, SinkInv, NonEmptyInv
    <3>2. /\ MessageEnd \in Nat /\ JoinerEnd \in Nat /\ AllTaken \in Nat /\ AllTaken <= Len(Stream)
          /\ Len(FreshIds) = AllTaken - JoinerEnd /\ FreshIds \in Seq(LineId)
          /\ JoinerIds \in Seq(LineId) /\ Len(JoinerIds) = JoinerEnd - MessageEnd
      BY Flow DEF SinkInv
    <3>3. \A k \in 1..(JoinerEnd - MessageEnd) : ids[k] = Stream[MessageEnd + k]
      BY <3>1 DEF SinkInv, FlowInv, Covers
    <3>4. Len(FreshIds) \in Nat /\ Len(Stream) \in Nat
      BY <3>2, LenProperties, StreamFacts DEF TypeInv
    <3> HIDE DEF ids
    <3>5. ASSUME NEW k \in 1..Len(ids) PROVE Given(ids[k])
      <4>1. MessageEnd + k \in 1..Len(Stream) /\ ids[k] = Stream[MessageEnd + k]
        BY <3>1, <3>2, <3>3, <3>4
      <4> QED BY <4>1, StreamGiven DEF TypeInv
    <3> QED BY <3>1, <3>2, <3>5
  <2> HIDE DEF ids, old
  <2>6. Text[ids \o <<id>>] = Text[ids] \o R.entry.msg
    <3>1. R.entry.msg = Line(id).msg /\ <<id>> \in Seq(LineId)
      BY <1>2, FreshText DEF TypeInv
    <3>2. ids # <<>>
      BY <2>5
    <3>3. TextOf(ids \o <<id>>) = TextOf(ids) \o Line(id).msg
      BY <1>2, <2>5, <3>2, TextOfMore DEF TypeInv
    <3>4. ids \o <<id>> \in Seq(LineId)
      BY <2>5, <3>1, ConcatProperties
    <3>5. \A x \in Seq(LineId) : Text[x] = TextOf(x)
      BY DEF Text
    <3> QED BY <2>5, <3>1, <3>3, <3>4, <3>5
  <2>7. (ids \o <<id>>)[1] = ids[1] /\ Len(ids \o <<id>>) >= 1
    <3>1. id \in LineId
      BY <1>2 DEF Given
    <3> QED BY <2>5, <3>1
  <2>8. Tells(joiner'.msg, joiner'.start.fields, joiner'.start.ids)
    BY <2>3, <2>4, <2>6, <2>7 DEF Tells
  <2>9. StartDefined'
    <3>1. joiner'.start.ids # <<>>
      BY <2>3, <2>7
    <3> QED BY <3>1 DEF StartDefined, NoEntry, Entry
  <2> QED BY <1>1, <1>3, <1>4, <2>8, <2>9 DEF TextInv
<1> QED BY <1>5, <1>6

LEMMA JoinerErrText ==
  ASSUME TypeInv, PhaseInv, WrittenInv, SinkInv, TextInv, JoinerErr("sink")
  PROVE  TextInv'
<1>1. /\ Pc = "joiner" /\ Pc' = FromJoiner /\ R' = R /\ R.kind # "entry"
      /\ UNCHANGED inputVars /\ joiner' = joiner
  BY DEF JoinerErr, JoinerFails, At, TypeInv, Caller, R, Pc
<1>2. Pc' # "clear"
  BY <1>1 DEF FromJoiner
<1>3. \A msg, fields, ids : Tells(msg, fields, ids)' <=> Tells(msg, fields, ids)
  BY <1>1, TextFrame
<1> QED BY <1>1, <1>2, <1>3 DEF TextInv, StartDefined

LEMMA JoinerFlushText ==
  ASSUME TypeInv, PhaseInv, WrittenInv, SinkInv, TextInv, JoinerFlush("sink")
  PROVE  TextInv'
<1>1. /\ Pc = "joiner" /\ Pc' = "finalize" /\ UNCHANGED inputVars /\ joiner' = joiner
  BY DEF JoinerFlush, At, TypeInv, Caller, Pc
<1>2. ~MessageAt'
  BY <1>1 DEF MessageAt
<1>3. \A msg, fields, ids : Tells(msg, fields, ids)' <=> Tells(msg, fields, ids)
  BY <1>1, TextFrame
<1> QED BY <1>1, <1>2, <1>3 DEF TextInv, StartDefined

LEMMA FinalizeText ==
  ASSUME TypeInv, PhaseInv, WrittenInv, SinkInv, TextInv, result = "none", Finalize("sink")
  PROVE  TextInv'
<1> DEFINE f == final'["sink"]
           e == [joiner.start EXCEPT !.msg = joiner.msg]
<1>1. /\ Pc = "finalize" /\ Pc' = "clear" /\ UNCHANGED inputVars /\ joiner' = joiner
      /\ f = Result("entry", e, joiner.idx)
  BY DEF Finalize, At, TypeInv, Caller, Pc
<1>2. StartDefined /\ ~MessageAt'
  BY <1>1 DEF PhaseInv, Pc, Caller, MessageAt
<1>3. /\ \A entry : Told(entry)' <=> Told(entry)
  BY <1>1, TextFrame
<1>4. e.msg = joiner.msg /\ e.fields = joiner.start.fields /\ e.ids = joiner.start.ids
  <2>1. joiner.start = [ids |-> joiner.start.ids, msg |-> joiner.start.msg,
                        fields |-> joiner.start.fields]
    BY DEF SinkInv, ShapeInv
  <2> QED BY <2>1
<1> HIDE DEF e
<1>5. Told(e)
  BY <1>1, <1>2, <1>4 DEF TextInv, Told
<1>6. f.entry = e
  BY <1>1 DEF Result
<1> QED BY <1>1, <1>2, <1>3, <1>5, <1>6 DEF TextInv, StartDefined

LEMMA ClearText ==
  ASSUME TypeInv, PhaseInv, WrittenInv, SinkInv, TextInv, Clear("sink")
  PROVE  TextInv'
<1> DEFINE id == R.entry.ids[1]
<1>1. /\ Pc = "clear" /\ Pc' = FromJoiner /\ R' = final["sink"] /\ joiner' = AfterFinal(R)
      /\ UNCHANGED inputVars
  BY DEF Clear, At, Gives, TypeInv, Caller, R, Pc
<1>2. Pc' # "clear" /\ Told(final["sink"].entry)
  BY <1>1 DEF FromJoiner, TextInv
<1>3. /\ \A msg, fields, ids : Tells(msg, fields, ids)' <=> Tells(msg, fields, ids)
      /\ \A entry : Told(entry)' <=> Told(entry)
  BY <1>1, TextFrame
<1>4. CASE R.kind = "entry"
  <2>1. Given(id) /\ Joined(id[1]) /\ R.entry = LineOf[id] /\ R.entry.ids = <<id>>
    BY <1>1, <1>4, FreshJoined
  <2> HIDE DEF id
  <2>2. joiner' = SetStart(Cleared, R) /\ Cleared.msg = <<<<>>>>
    BY <1>1, <1>4 DEF AfterFinal, Cleared
  <2>3. Tells(joiner'.msg, joiner'.start.fields, joiner'.start.ids)
    BY <2>1, <2>2, StartTold DEF TypeInv
  <2>4. StartDefined'
    <3>1. joiner'.start = R.entry
      BY <2>2 DEF SetStart
    <3> QED BY <2>1, <3>1 DEF StartDefined, NoEntry, Entry
  <2> QED BY <1>1, <1>2, <1>3, <2>3, <2>4 DEF TextInv
<1>5. CASE R.kind # "entry"
  <2>1. joiner'.msg = <<<<>>>> /\ ~StartDefined'
    BY <1>1, <1>5 DEF AfterFinal, Cleared, StartDefined
  <2> QED BY <1>1, <1>2, <1>3, <2>1 DEF TextInv
<1> QED BY <1>4, <1>5

\* What the sink writes tells its lines.
LEMMA WriteText ==
  ASSUME TypeInv, WrittenInv, SinkInv, TextInv, Write, \A m \in 1..Len(written) : Told(written[m].entry)
  PROVE  TextInv' /\ (\A m \in 1..Len(written) : Told(written[m].entry))'
<1> DEFINE n == Len(written)
           e == [entry |-> R.entry, idx |-> R.idx]
<1>1. /\ Pc = "return" /\ Pc' = "base" /\ R' = R /\ R.kind = "entry"
      /\ written' = Append(written, e) /\ UNCHANGED inputVars /\ joiner' = joiner
  BY DEF Write, At, TypeInv, Caller, R, Pc
<1>2. ~MessageAt' /\ Told(R.entry)
  BY <1>1 DEF MessageAt, TextInv
<1>3. /\ \A msg, fields, ids : Tells(msg, fields, ids)' <=> Tells(msg, fields, ids)
      /\ \A entry : Told(entry)' <=> Told(entry)
  BY <1>1, TextFrame
<1>4. TextInv'
  BY <1>1, <1>2, <1>3 DEF TextInv, StartDefined
<1>5. /\ n \in Nat /\ Len(written') = n + 1 /\ written'[n + 1] = e
      /\ \A m \in 1..n : written'[m] = written[m]
  <2>1. PICK S : written \in Seq(S)
    BY DEF TypeInv, IsSequence
  <2>2. written \in Seq(S \cup {e})
    BY <2>1, SeqMonotonic
  <2> HIDE DEF e
  <2> QED BY <1>1, <2>2, AppendProperties, LenProperties
<1>6. e.entry = R.entry
  OBVIOUS
<1> HIDE DEF e
<1>7. \A m \in 1..(n + 1) : Told(written'[m].entry)
  <2> TAKE m \in 1..(n + 1)
  <2>1. CASE m = n + 1
    BY <1>2, <1>5, <1>6, <2>1
  <2>2. CASE m # n + 1
    <3>1. m \in 1..n
      BY <1>5, <2>2
    <3> QED BY <1>5, <3>1
  <2> QED BY <2>1, <2>2
<1>8. \A m \in 1..(n + 1) : Told(written[m].entry)'
  BY <1>3, <1>7 DEF Told, Tells
<1> QED BY <1>4, <1>5, <1>8

LEMMA InitIsTold == Init => ToldInv
<1> SUFFICES ASSUME Init PROVE ToldInv
  OBVIOUS
<1>1. collector \in Collectors(script.sets) /\ Len(written) = 0 /\ joiner.msg = <<<<>>>>
  BY DEF Init
<1>2. ~StartDefined
  BY DEF Init, StartDefined
<1>3. Pc = "base"
  BY DEF Init, Pc, Caller
<1>4. TextInv
  BY <1>1, <1>2, <1>3 DEF TextInv, MessageAt
<1> QED BY <1>1, <1>4 DEF ToldInv

\* What was written stays told while nothing is written.
LEMMA ToldFrame ==
  ASSUME ToldInv, UNCHANGED inputVars, written' = written
  PROVE  /\ collector' \in Collectors(script'.sets)
         /\ (\A m \in 1..Len(written) : Told(written[m].entry))'
<1>1. \A entry : Told(entry)' <=> Told(entry)
  BY TextFrame
<1>2. \A m \in 1..Len(written) : Told(written[m].entry)
  BY DEF ToldInv
<1>3. \A m \in 1..Len(written) : Told(written[m].entry)'
  BY <1>1, <1>2 DEF Told, Tells
<1>4. collector' = collector /\ script' = script
  BY DEF inputVars
<1> QED BY <1>3, <1>4 DEF ToldInv

LEMMA StepTells ==
  ASSUME IndInv, ToldInv, NEW c \in Caller, Step(c)
  PROVE  ToldInv'
<1>1. TypeInv /\ PhaseInv /\ WrittenInv
  BY DEF IndInv
<1>2. CASE Returns
  <2>1. UNCHANGED inputVars /\ written' = written /\ result' # "none"
    BY <1>1, <1>2, ReturnsKeepPhase
  <2> QED BY <2>1, ToldFrame DEF ToldInv
<1>3. CASE Moves(c)
  <2>1. UNCHANGED <<inputVars, result>> /\ pc[c] \notin {"idle", "stopped"}
    BY <1>1, <1>3, Movement
  <2>2. CASE result = "none"
    <3>1. c = "sink"
      BY <1>1, <2>1, <2>2 DEF PhaseInv, Caller
    <3>2. SinkInv /\ TextInv
      BY <2>2 DEF IndInv, ToldInv
    <3>3. CASE Write
      <4>1. TextInv' /\ (\A m \in 1..Len(written) : Told(written[m].entry))'
        BY <1>1, <3>2, <3>3, WriteText DEF ToldInv
      <4>2. collector' = collector /\ script' = script
        BY <2>1 DEF inputVars
      <4> QED BY <4>1, <4>2 DEF ToldInv
    <3>4. CASE ~Write
      <4>1. UNCHANGED inputVars /\ written' = written
        BY <1>3, <2>1, <3>1, <3>4 DEF Moves, Base, ConcatBase, ConcatNext, JoinerCollect, JoinerErr,
           JoinerFlush, Finalize, Clear, DrainStep, sinkVars
      <4>2. TextInv'
        BY <1>1, <1>3, <2>2, <3>1, <3>2, <3>4, BaseText, ConcatBaseText, ConcatNextText,
           JoinerCollectText, JoinerErrText, JoinerFlushText, FinalizeText, ClearText
           DEF Moves, DrainStep
      <4> QED BY <4>1, <4>2, ToldFrame DEF ToldInv
    <3> QED BY <3>3, <3>4
  <2>3. CASE result # "none"
    <3>1. c # "sink"
      BY <1>1, <2>1, <2>3 DEF PhaseInv
    <3>2. UNCHANGED inputVars /\ written' = written
      BY <1>3, <2>1, <3>1 DEF Moves, Base, ConcatBase, ConcatNext, JoinerCollect, JoinerErr,
         JoinerFlush, Finalize, Clear, DrainStep, sinkVars
    <3>3. result' # "none"
      BY <2>1, <2>3
    <3> QED BY <3>2, <3>3, ToldFrame DEF ToldInv
  <2> QED BY <2>2, <2>3
<1> QED BY <1>2, <1>3 DEF Step, Moves, Returns

LEMMA StutterTells ==
  ASSUME ToldInv, UNCHANGED vars
  PROVE  ToldInv'
<1>1. UNCHANGED inputVars /\ written' = written
  BY DEF vars, sinkVars
<1>2. /\ \A msg, fields, ids : Tells(msg, fields, ids)' <=> Tells(msg, fields, ids)
      /\ \A entry : Told(entry)' <=> Told(entry)
  BY <1>1, TextFrame
<1>3. TextInv => TextInv'
  BY <1>2 DEF TextInv, StartDefined, Pc, R, MessageAt, vars, inputVars
<1>4. result' = result
  BY DEF vars, sinkVars
<1> QED BY <1>1, <1>3, <1>4, ToldFrame DEF ToldInv

\* What the joiner is collecting, what is on its way to the sink and what has been
\* written has the text of its lines and the fields of the first of them
\* (join.go:55-110).
THEOREM PullTold == Spec => []ToldInv
<1>1. IndInv /\ ToldInv /\ [Next]_vars => ToldInv'
  BY StepTells, StutterTells DEF Next, Terminated
<1> QED BY <1>1, InitIsTold, PullInductive, PTL DEF Spec

\* The lines of a written message.
LEMMA WrittenGiven ==
  ASSUME IndInv, NEW m \in DOMAIN written, NEW ids, ids = written[m].entry.ids
  PROVE  /\ m \in 1..Len(written) /\ ids \in Seq(LineId) /\ Len(ids) >= 1
         /\ \A k \in 1..Len(ids) : Given(ids[k])
<1> DEFINE a == Places[m - 1]
           b == Places[m]
<1>1. /\ m \in 1..Len(written) /\ a \in Nat /\ b \in Nat
      /\ a < b /\ b <= Len(Stream) /\ Len(Stream) \in Nat
      /\ ids \in Seq(LineId) /\ Len(ids) = b - a /\ \A k \in 1..(b - a) : ids[k] = Stream[a + k]
  BY WrittenMessage DEF Covers
<1> HIDE DEF a, b
<1>2. ASSUME NEW k \in 1..Len(ids) PROVE Given(ids[k])
  <2>1. a + k \in 1..Len(Stream) /\ ids[k] = Stream[a + k]
    BY <1>1
  <2> QED BY <2>1, StreamGiven DEF IndInv, TypeInv
<1> QED BY <1>1, <1>2

\* A message begins where one may, has one start line, and its text is that of
\* its lines (join.go:86).
THEOREM PullMessagesAsPromised == Spec => []MessagesAsPromised
<1>1. IndInv /\ ToldInv /\ MessageBounds => MessagesAsPromised
  <2> SUFFICES ASSUME IndInv, ToldInv, NEW m \in DOMAIN written
               PROVE  written[m].entry.msg = TextOf(written[m].entry.ids)
    BY DEF MessagesAsPromised
  <2> DEFINE ids == written[m].entry.ids
  <2>1. m \in 1..Len(written) /\ ids \in Seq(LineId)
    BY WrittenGiven
  <2>2. written[m].entry.msg = Text[ids]
    BY <2>1 DEF ToldInv, Told, Tells
  <2> QED BY <2>1, <2>2 DEF Text
<1> QED BY <1>1, PullInductive, PullTold, PullMessageBounds, PTL

-----------------------------------------------------------------------------
(* The words that a cut takes *)

LEMMA MappedAt ==
  ASSUME NEW sets, \A f \in DOMAIN sets : sets[f] \in Int, NEW c \in Collectors(sets),
         NEW n \in Nat, NEW p \in 1..n
  PROVE  /\ \A f : f \in FieldsAt(c, p, n) <=>
                     f \in DOMAIN sets /\ c[sets[f]] = f /\ p = WordAt(sets[f], n)
         /\ FieldsAt(c, p, n) = {} <=> p \notin Mapped(sets, n)
<1>1. /\ c \in [{sets[f] : f \in DOMAIN sets} -> DOMAIN sets]
      /\ \A i \in DOMAIN c : sets[c[i]] = i
  BY DEF Collectors
<1>2. DOMAIN c = {sets[f] : f \in DOMAIN sets}
  BY <1>1
<1>3. \A i \in Int : i \in {p - 1, p - 1 - n} <=> p = WordAt(i, n)
  BY DEF WordAt
<1>4. ASSUME NEW f, f \in FieldsAt(c, p, n)
      PROVE  f \in DOMAIN sets /\ c[sets[f]] = f /\ p = WordAt(sets[f], n)
  <2>1. PICK i \in {p - 1, p - 1 - n} \cap DOMAIN c : f = c[i]
    BY <1>4 DEF FieldsAt
  <2>2. f \in DOMAIN sets /\ sets[f] = i
    BY <1>1, <2>1
  <2>3. i \in Int
    OBVIOUS
  <2> QED BY <1>3, <2>1, <2>2, <2>3
<1>5. ASSUME NEW f \in DOMAIN sets, p = WordAt(sets[f], n)
      PROVE  sets[f] \in {p - 1, p - 1 - n} \cap DOMAIN c /\ c[sets[f]] \in FieldsAt(c, p, n)
  <2>1. sets[f] \in {p - 1, p - 1 - n} \cap DOMAIN c
    BY <1>2, <1>3, <1>5
  <2> QED BY <2>1 DEF FieldsAt
<1>6. ASSUME FieldsAt(c, p, n) # {} PROVE p \in Mapped(sets, n)
  BY <1>4, <1>6 DEF Mapped
<1>7. ASSUME p \in Mapped(sets, n) PROVE FieldsAt(c, p, n) # {}
  BY <1>5, <1>7 DEF Mapped
<1> QED BY <1>4, <1>5, <1>6, <1>7

\* The fields that a cut sets, and the words that it leaves.
LEMMA CollectedFields ==
  ASSUME NEW sets, \A f \in DOMAIN sets : sets[f] \in Int, NEW c \in Collectors(sets),
         NEW words \in Seq(STRING), NEW id, NEW f \in DOMAIN sets, f \in Field
  PROVE  Holds(Collect(c, words, Raw(id)).fields[f], words, sets, f)
<1> DEFINE n == Len(words)
           set == {p \in 1..n : f \in FieldsAt(c, p, n)}
           v == Collect(c, words, Raw(id)).fields[f]
           q == WordAt(sets[f], n)
<1>1. n \in Nat /\ DOMAIN words = 1..n
  BY LenProperties
<1>2. v = IF set = {} THEN Unset ELSE words[CHOOSE p \in set : TRUE]
  BY DEF Collect, Raw, Entry
<1>3. \A p \in 1..n : f \in FieldsAt(c, p, n) <=> c[sets[f]] = f /\ p = q
  <2> HIDE DEF n
  <2> QED BY <1>1, MappedAt
<1>4. ASSUME c[sets[f]] # f PROVE Ambiguous(sets, f)
  <2>1. /\ c \in [{sets[g] : g \in DOMAIN sets} -> DOMAIN sets]
        /\ \A i \in DOMAIN c : sets[c[i]] = i
    BY DEF Collectors
  <2>2. sets[f] \in DOMAIN c
    BY <2>1
  <2>3. c[sets[f]] \in DOMAIN sets /\ sets[c[sets[f]]] = sets[f]
    BY <2>1, <2>2
  <2> QED BY <1>4, <2>3 DEF Ambiguous
<1> HIDE DEF n, v, q
<1>5. CASE c[sets[f]] # f
  <2>1. set = {}
    BY <1>3, <1>5
  <2> QED BY <1>2, <1>4, <1>5, <2>1 DEF v, q, n, Holds
<1>6. CASE c[sets[f]] = f
  <2>1. CASE q \in 1..n
    <3>1. set = {q}
      BY <1>3, <1>6, <2>1
    <3> HIDE DEF set
    <3>2. v = words[q]
      BY <1>2, <3>1
    <3> QED BY <1>1, <2>1, <3>2 DEF v, q, n, Holds
  <2>2. CASE q \notin 1..n
    <3>1. set = {}
      BY <1>3, <2>2
    <3> QED BY <1>1, <1>2, <2>2, <3>1 DEF v, q, n, Holds
  <2> QED BY <2>1, <2>2
<1> QED BY <1>5, <1>6

LEMMA CollectedWords ==
  ASSUME NEW sets, \A f \in DOMAIN sets : sets[f] \in Int, NEW c \in Collectors(sets),
         NEW words \in Seq(STRING), NEW id
  PROVE  /\ Collect(c, words, Raw(id)).msg = <<Remaining(c, words)>>
         /\ Keeps(Remaining(c, words), words, Mapped(sets, Len(words)))
<1> DEFINE n == Len(words)
           target == Mapped(sets, n)
<1> HIDE DEF target
<1>1. n \in Nat /\ DOMAIN words = 1..n
  BY LenProperties
<1>2. \A p \in 1..n : FieldsAt(c, p, n) = {} <=> p \notin target
  <2> HIDE DEF n
  <2> QED BY <1>1, MappedAt DEF target
<1>3. \A p \in 1..n : UnmappedTo(c, words, p) = (1..p) \ target
  BY <1>1, <1>2 DEF UnmappedTo
<1>4. UnmappedTo(c, words, n) = (1..n) \ target
  BY <1>1, <1>2 DEF UnmappedTo
<1>5. /\ Len(Remaining(c, words)) = Cardinality(UnmappedTo(c, words, n))
      /\ \A p \in UnmappedTo(c, words, n) :
           Remaining(c, words)[Cardinality(UnmappedTo(c, words, p))] = words[p]
  BY RemainingWords
<1>6. Collect(c, words, Raw(id)).msg = <<Remaining(c, words)>>
  <2>1. PICK f : Collect(c, words, Raw(id)) =
                   [Raw(id) EXCEPT !.msg = <<Remaining(c, words)>>, !.fields = f]
    BY Zenon DEF Collect
  <2> QED BY <2>1 DEF Raw, Entry
<1>7. Keeps(Remaining(c, words), words, target)
  <2> HIDE DEF n
  <2> QED BY <1>1, <1>3, <1>4, <1>5 DEF Keeps
<1> QED BY <1>6, <1>7 DEF target

\* A line that was cut: it has the words that are mapped to no field, and its
\* fields have the others.
LEMMA CutLine ==
  ASSUME source \in Sources, script \in Scripts, collector \in Collectors(script.sets),
         NEW id, Given(id), WasCut(id)
  PROVE  /\ Line(id).msg \in LineText /\ Len(Line(id).msg) = IF HasMessage(id) THEN 1 ELSE 0
         /\ HasMessage(id) => Keeps(Line(id).msg[1], WordsOf(id),
                                    Mapped(script.sets, Len(WordsOf(id))))
         /\ \A f \in DOMAIN script.sets \ {Message} :
              Holds(Line(id).fields[f], WordsOf(id), script.sets, f)
<1> DEFINE sets == script.sets
           words == WordsOf(id)
           raw == RawText(id)
<1>1. (\A f \in DOMAIN sets : sets[f] \in Int) /\ \A f \in DOMAIN sets \ {Message} : f \in Field
  BY ScriptAssumption DEF Field
<1>2. /\ raw # <<>> => raw[1] \in Seq(STRING)
      /\ Line(id) = IF raw # <<>> THEN Collect(collector, raw[1], Raw(id)) ELSE Raw(id)
      /\ Raw(id).msg = raw /\ Line(id).msg \in LineText
  BY LineParts DEF WasCut
<1>3. /\ HasMessage(id) <=> raw # <<>>
      /\ words = IF raw = <<>> THEN <<>> ELSE raw[1]
  BY DEF WordsOf, HasMessage, RawText
<1> HIDE DEF raw, words
<1>4. CASE raw = <<>>
  <2>1. Line(id) = Raw(id) /\ Line(id).msg = <<>>
    BY <1>2, <1>4
  <2>2. \A f \in Field : Line(id).fields[f] = Unset
    BY <2>1 DEF Raw, Entry
  <2>3. \A p : p \notin DOMAIN words
    BY <1>3, <1>4
  <2>4. \A f \in DOMAIN sets \ {Message} : Holds(Line(id).fields[f], words, sets, f)
    <3> HIDE DEF sets
    <3> QED BY <1>1, <2>2, <2>3 DEF Holds
  <2> QED BY <1>2, <1>3, <1>4, <2>1, <2>4 DEF words
<1>5. CASE raw # <<>>
  <2>1. words \in Seq(STRING) /\ Line(id) = Collect(collector, words, Raw(id))
    BY <1>2, <1>3, <1>5
  <2> HIDE DEF sets
  <2>2. \A f \in DOMAIN sets \ {Message} : Holds(Line(id).fields[f], words, sets, f)
    BY <1>1, <2>1, CollectedFields DEF sets
  <2>3. /\ Line(id).msg = <<Remaining(collector, words)>>
        /\ Keeps(Remaining(collector, words), words, Mapped(sets, Len(words)))
    BY <1>1, <2>1, CollectedWords DEF sets
  <2>4. Len(Line(id).msg) = 1 /\ Line(id).msg[1] = Remaining(collector, words)
    BY <2>3
  <2> QED BY <1>2, <1>3, <1>5, <2>2, <2>3, <2>4 DEF words, sets
<1> QED BY <1>4, <1>5

\* How far the entries up to the next one count.
LEMMA NextLine ==
  ASSUME NEW ids, NEW n \in Nat
  PROVE  /\ LineOfMessage(ids, n) \in Nat /\ LineOfMessage(ids, 0) = 0
         /\ n >= 1 => LineOfMessage(ids, n + 1) =
                        LineOfMessage(ids, n) + (IF HasMessage(ids[n + 1]) THEN 1 ELSE 0)
<1> DEFINE Counts(j) == HasMessage(ids[j]) \/ (j = 1 /\ Joined(ids[1][1]))
           To(k) == {j \in 1..k : Counts(j)}
<1> HIDE DEF Counts
<1>1. \A k \in Nat : LineOfMessage(ids, k) = Cardinality(To(k))
  BY DEF LineOfMessage, Counts
<1>2. IsFiniteSet(To(n))
  <2>1. IsFiniteSet(1..n)
    BY FS_Interval
  <2> QED BY <2>1, FS_Subset
<1>3. Cardinality(To(n)) \in Nat
  BY <1>2, FS_CardinalityType
<1>4. To(0) = {} /\ Cardinality({}) = 0
  BY FS_EmptySet
<1>5. To(n + 1) = IF Counts(n + 1) THEN To(n) \cup {n + 1} ELSE To(n)
  OBVIOUS
<1>6. n >= 1 => (Counts(n + 1) <=> HasMessage(ids[n + 1]))
  BY DEF Counts
<1>7. n + 1 \notin To(n)
  OBVIOUS
<1>8. Cardinality(To(n) \cup {n + 1}) = Cardinality(To(n)) + 1
  <2> HIDE DEF To
  <2> QED BY <1>2, <1>7, FS_AddElement
<1> HIDE DEF To
<1> QED BY <1>1, <1>3, <1>4, <1>5, <1>6, <1>8

\* The text of the first line, which was cut.
LEMMA FirstLine ==
  ASSUME NEW x \in LineText, NEW joined \in BOOLEAN, NEW has \in BOOLEAN, NEW t,
         Len(x) = IF has THEN 1 ELSE 0, t = IF joined /\ x = <<>> THEN <<<<>>>> ELSE x
  PROVE  /\ t \in LineText /\ (has => t = x)
         /\ Len(t) = IF has \/ joined THEN 1 ELSE 0
<1>1. x = <<>> <=> ~has
  <2>1. x \in Seq(Seq(STRING))
    BY DEF LineText
  <2>2. x = <<>> <=> Len(x) = 0
    BY <2>1, EmptySeq
  <2> QED BY <2>2
<1>2. <<<<>>>> \in LineText /\ Len(<<<<>>>>) = 1
  BY DEF LineText
<1>3. CASE joined /\ ~has
  <2>1. t = <<<<>>>>
    BY <1>1, <1>3
  <2> QED BY <1>2, <1>3, <2>1
<1>4. CASE ~(joined /\ ~has)
  <2>1. t = x
    BY <1>1, <1>4
  <2> QED BY <1>4, <2>1
<1> QED BY <1>3, <1>4

\* Where the text has a line that was cut, when the lines before it were cut too:
\* those before it give it its place, and those behind it leave it there.
LEMMA TextPlace ==
  ASSUME source \in Sources, script \in Scripts, collector \in Collectors(script.sets),
         NEW ids \in Seq(LineId), \A j \in 1..Len(ids) : Given(ids[j]),
         NEW k \in 1..Len(ids), HasMessage(ids[k]), \A j \in 1..k : WasCut(ids[j])
  PROVE  TextOf(ids)[LineOfMessage(ids, k)] = Line(ids[k]).msg[1]
<1> DEFINE n == Len(ids)
           Upto(j) == [p \in 1..j |-> ids[p]]
           L(j) == LineOfMessage(ids, j)
           text(j) == TextOf(Upto(j))
           x(j) == Line(ids[j]).msg
           LinesUpTo(j) == Len(text(j)) = L(j)
           Placed(j) == L(k) \in 1..Len(text(j)) /\ text(j)[L(k)] = x(k)[1]
           T == {j \in Nat : j + 1 <= n => /\ text(j + 1) \in LineText
                                           /\ j + 1 <= k => LinesUpTo(j + 1)
                                           /\ k <= j + 1 => Placed(j + 1)}
<1>1. n \in Nat /\ k \in 1..n /\ DOMAIN ids = 1..n
  BY LenProperties
<1>2. \A j \in 1..n : ids[j] \in LineId /\ Given(ids[j]) /\ x(j) \in LineText /\ Len(x(j)) \in Nat
  <2>1. ASSUME NEW j \in 1..n PROVE ids[j] \in LineId /\ Given(ids[j]) /\ x(j) \in LineText
    BY LineParts, ElementOfSeq
  <2> QED BY <2>1, LenProperties DEF LineText
<1>3. \A j \in 1..k : Len(x(j)) = IF HasMessage(ids[j]) THEN 1 ELSE 0
  BY <1>1, <1>2, CutLine
<1> HIDE DEF n, x
<1>4. ASSUME NEW j \in 1..n
      PROVE  Upto(j) \in Seq(LineId) /\ Len(Upto(j)) = j /\ \A p \in 1..j : Upto(j)[p] = ids[p]
  BY <1>1, <1>2, <1>4
<1>5. ASSUME NEW j \in 1..n, j + 1 <= n
      PROVE  text(j + 1) = text(j) \o x(j + 1)
  <2>1. /\ Upto(j) \in Seq(LineId) /\ Len(Upto(j)) = j /\ \A p \in 1..j : Upto(j)[p] = ids[p]
        /\ j + 1 \in 1..n /\ j >= 1
    BY <1>1, <1>4, <1>5
  <2> DEFINE id == ids[j + 1]
             more == Upto(j) \o <<id>>
  <2>2. id \in LineId /\ Given(id)
    BY <1>2, <2>1
  <2>3. Upto(j + 1) = more
    <3> HIDE DEF Upto, id
    <3>1. <<id>> \in Seq(LineId) /\ Len(<<id>>) = 1 /\ <<id>>[1] = id
      BY <2>2
    <3>2. /\ more \in Seq(LineId) /\ Len(more) = j + 1
          /\ \A p \in 1..(j + 1) : more[p] = IF p <= j THEN Upto(j)[p] ELSE <<id>>[p - j]
      BY <2>1, <3>1, ConcatProperties
    <3>3. ASSUME NEW p \in 1..(j + 1) PROVE more[p] = ids[p]
      <4>1. CASE p <= j
        BY <2>1, <3>2, <4>1
      <4>2. CASE ~(p <= j)
        <5>1. p = j + 1 /\ p - j = 1
          BY <4>2
        <5>2. more[p] = <<id>>[p - j]
          BY <3>2, <4>2
        <5> QED BY <3>1, <5>1, <5>2 DEF id
      <4> QED BY <4>1, <4>2
    <3>4. more = [p \in 1..(j + 1) |-> more[p]]
      <4> HIDE DEF more
      <4> QED BY <3>2, LenProperties
    <3> HIDE DEF more
    <3>5. Upto(j + 1) = [p \in 1..(j + 1) |-> ids[p]]
      BY DEF Upto
    <3> QED BY <3>3, <3>4, <3>5
  <2>4. TextOf(more) = TextOf(Upto(j)) \o Line(id).msg
    <3>1. Upto(j) # <<>>
      <4> HIDE DEF Upto
      <4> QED BY <2>1, EmptySeq
    <3>2. \A p \in 1..Len(Upto(j)) : Given(Upto(j)[p])
      <4> HIDE DEF Upto
      <4> QED BY <1>1, <1>2, <2>1
    <3> HIDE DEF Upto, id
    <3> QED BY <2>1, <2>2, <3>1, <3>2, TextOfMore
  <2> QED BY <2>3, <2>4 DEF x
<1>6. /\ text(1) \in LineText /\ (HasMessage(ids[1]) => text(1) = x(1))
      /\ Len(text(1)) = IF HasMessage(ids[1]) \/ Joined(ids[1][1]) THEN 1 ELSE 0
  <2>1. Upto(1) = <<ids[1]>>
    OBVIOUS
  <2>2. 1 \in 1..n /\ 1 \in 1..k
    BY <1>1
  <2>3. Given(ids[1]) /\ x(1) \in LineText /\ Len(x(1)) = IF HasMessage(ids[1]) THEN 1 ELSE 0
    BY <1>2, <1>3, <2>2
  <2>4. text(1) = IF Joined(ids[1][1]) /\ x(1) = <<>> THEN <<<<>>>> ELSE x(1)
    BY <2>1, <2>3, TextOfOne DEF x
  <2>5. HasMessage(ids[1]) \in BOOLEAN /\ Joined(ids[1][1]) \in BOOLEAN
    BY DEF HasMessage, Joined
  <2> HIDE DEF text
  <2> QED BY <2>3, <2>4, <2>5, FirstLine
<1>7. /\ \A j \in 1..k : L(j) \in Nat
      /\ L(1) = IF HasMessage(ids[1]) \/ Joined(ids[1][1]) THEN 1 ELSE 0
      /\ \A j \in 1..k : L(j + 1) = L(j) + (IF HasMessage(ids[j + 1]) THEN 1 ELSE 0)
  <2>1. L(1) = IF HasMessage(ids[1]) \/ Joined(ids[1][1]) THEN 1 ELSE 0
    <3>1. L(1) = Cardinality({j \in 1..1 : HasMessage(ids[j]) \/ (j = 1 /\ Joined(ids[1][1]))})
      BY DEF LineOfMessage
    <3>2. {j \in 1..1 : HasMessage(ids[j]) \/ (j = 1 /\ Joined(ids[1][1]))} =
            IF HasMessage(ids[1]) \/ Joined(ids[1][1]) THEN {1} ELSE {}
      OBVIOUS
    <3>3. Cardinality({1}) = 1 /\ Cardinality({}) = 0
      BY FS_Singleton, FS_EmptySet
    <3> QED BY <3>1, <3>2, <3>3
  <2>2. ASSUME NEW j \in 1..k
        PROVE  L(j) \in Nat /\ L(j + 1) = L(j) + (IF HasMessage(ids[j + 1]) THEN 1 ELSE 0)
    <3>1. j \in Nat /\ j >= 1
      BY <1>1
    <3> QED BY <3>1, NextLine
  <2> HIDE DEF L
  <2> QED BY <2>1, <2>2
<1> HIDE DEF Upto, L
<1>8. L(k) = (IF k = 1 THEN 0 ELSE L(k - 1)) + 1 /\ Len(x(k)) = 1
  <2>1. CASE k = 1
    BY <1>3, <1>7, <2>1
  <2>2. CASE k # 1
    <3>1. k - 1 \in 1..k /\ (k - 1) + 1 = k
      BY <1>1, <2>2
    <3> QED BY <1>3, <1>7, <2>2, <3>1
  <2> QED BY <2>1, <2>2
<1>9. 0 \in T
  <2> SUFFICES ASSUME 1 <= n PROVE /\ text(1) \in LineText /\ LinesUpTo(1)
                                   /\ k <= 1 => Placed(1)
    BY <1>1
  <2> HIDE DEF T, text, Placed, LinesUpTo
  <2>1. Len(text(1)) = L(1)
    <3>1. CASE HasMessage(ids[1]) \/ Joined(ids[1][1])
      BY <1>6, <1>7, <3>1
    <3>2. CASE ~(HasMessage(ids[1]) \/ Joined(ids[1][1]))
      BY <1>6, <1>7, <3>2
    <3> QED BY <3>1, <3>2
  <2>2. ASSUME k = 1 PROVE Placed(1)
    <3>1. L(1) = 1 /\ Len(text(1)) = 1 /\ text(1) = x(1)
      BY <1>6, <1>8, <2>1, <2>2
    <3> QED BY <2>2, <3>1 DEF Placed
  <2> QED BY <1>1, <1>6, <2>1, <2>2 DEF LinesUpTo
<1>10. ASSUME NEW j \in Nat, j \in T PROVE j + 1 \in T
  <2> DEFINE i == j + 1
  <2> SUFFICES ASSUME i + 1 <= n PROVE /\ text(i + 1) \in LineText
                                       /\ i + 1 <= k => LinesUpTo(i + 1)
                                       /\ k <= i + 1 => Placed(i + 1)
    OBVIOUS
  <2>1. i \in 1..n /\ i + 1 \in 1..n /\ i \in Nat
    BY <1>1
  <2>2. text(i) \in LineText /\ (i <= k => LinesUpTo(i)) /\ (k <= i => Placed(i))
    BY <1>10, <2>1
  <2>3. text(i + 1) = text(i) \o x(i + 1) /\ x(i + 1) \in LineText
    BY <1>2, <1>5, <2>1
  <2> HIDE DEF text, i
  <2>4. /\ text(i + 1) \in LineText /\ Len(text(i + 1)) = Len(text(i)) + Len(x(i + 1))
        /\ Len(text(i)) \in Nat /\ Len(x(i + 1)) \in Nat
        /\ \A p \in 1..Len(text(i)) : text(i + 1)[p] = text(i)[p]
        /\ Len(x(i + 1)) = 1 => text(i + 1)[Len(text(i)) + 1] = x(i + 1)[1]
    <3> DEFINE W == Seq(STRING)
               s == text(i)
               u == x(i + 1)
    <3>1. s \in Seq(W) /\ u \in Seq(W)
      BY <2>2, <2>3 DEF LineText
    <3> HIDE DEF W, s, u
    <3>2. /\ s \o u \in Seq(W) /\ Len(s \o u) = Len(s) + Len(u)
          /\ Len(s) \in Nat /\ Len(u) \in Nat
          /\ \A p \in 1..(Len(s) + Len(u)) : (s \o u)[p] = IF p <= Len(s) THEN s[p] ELSE u[p - Len(s)]
      BY <3>1, ConcatProperties, LenProperties
    <3>3. \A p \in 1..Len(s) : (s \o u)[p] = s[p]
      BY <3>2
    <3>4. Len(u) = 1 => (s \o u)[Len(s) + 1] = u[1]
      BY <3>2
    <3> QED BY <2>3, <3>2, <3>3, <3>4 DEF W, s, u, LineText
  <2>5. ASSUME i + 1 <= k PROVE LinesUpTo(i + 1)
    <3>1. i \in 1..k /\ i + 1 \in 1..k /\ i <= k
      BY <1>1, <2>1, <2>5
    <3> QED BY <1>3, <1>7, <2>2, <2>4, <3>1
  <2>6. ASSUME k <= i PROVE Placed(i + 1)
    <3>1. L(k) \in 1..Len(text(i)) /\ text(i)[L(k)] = x(k)[1]
      BY <2>2, <2>6
    <3>2. L(k) \in 1..Len(text(i + 1))
      BY <2>4, <3>1
    <3> QED BY <2>4, <3>1, <3>2
  <2>7. ASSUME k = i + 1 PROVE Placed(i + 1)
    <3>1. Len(text(i)) = L(i) /\ i <= k
      BY <1>1, <2>1, <2>2, <2>7
    <3>2. k # 1 /\ k - 1 = i
      BY <2>1, <2>7
    <3>3. L(k) = Len(text(i)) + 1 /\ Len(x(i + 1)) = 1
      BY <1>8, <2>7, <3>1, <3>2
    <3> QED BY <2>4, <2>7, <3>3
  <2> HIDE DEF LinesUpTo, Placed
  <2> QED BY <1>1, <2>1, <2>4, <2>5, <2>6, <2>7
<1>11. Nat \subseteq T
  <2> HIDE DEF T
  <2> QED BY <1>9, <1>10, SetInduction
<1>12. text(n)[L(k)] = x(k)[1]
  <2>1. n - 1 \in T /\ n - 1 \in Nat /\ (n - 1) + 1 = n
    BY <1>1, <1>11
  <2> HIDE DEF text
  <2> QED BY <1>1, <2>1
<1>13. Upto(n) = ids
  BY <1>1 DEF Upto, n
<1> QED BY <1>12, <1>13 DEF L, x

\* A cut takes out of each line of each written message the words it maps to
\* fields and no other (entries/cut.go), and join keeps the line in its place
\* (join.go:65); the fields of the first entry have the words mapped to them.
THEOREM PullCutKeepsWords == Spec => []CutKeepsWords
<1>1. IndInv /\ ToldInv => CutKeepsWords
  <2> SUFFICES ASSUME IndInv, ToldInv, NEW m \in DOMAIN written,
                      NEW entry, entry = written[m].entry, NEW ids, ids = entry.ids
               PROVE  /\ WasCut(ids[1]) =>
                           \A f \in DOMAIN script.sets \ {Message} :
                             Holds(entry.fields[f], WordsOf(ids[1]), script.sets, f)
                      /\ \A k \in DOMAIN ids :
                           WasCut(ids[k]) /\ HasMessage(ids[k]) =>
                             Keeps(entry.msg[LineOfMessage(ids, k)], WordsOf(ids[k]),
                                   Mapped(script.sets, Len(WordsOf(ids[k]))))
    BY DEF CutKeepsWords
  <2>1. script \in Scripts /\ source \in Sources /\ collector \in Collectors(script.sets)
    BY DEF IndInv, TypeInv, ToldInv
  <2>2. /\ m \in 1..Len(written) /\ ids \in Seq(LineId) /\ Len(ids) >= 1
        /\ \A k \in 1..Len(ids) : Given(ids[k])
    BY WrittenGiven
  <2>3. entry.msg = TextOf(ids) /\ entry.fields = Line(ids[1]).fields
    <3>1. entry.msg = Text[ids] /\ entry.fields = LineOf[ids[1]].fields
      BY <2>2 DEF ToldInv, Told, Tells
    <3>2. ids[1] \in LineId
      BY <2>2
    <3> QED BY <2>2, <3>1, <3>2 DEF LineOf, Text
  <2>4. ASSUME WasCut(ids[1]), NEW f \in DOMAIN script.sets \ {Message}
        PROVE  Holds(entry.fields[f], WordsOf(ids[1]), script.sets, f)
    <3>1. Given(ids[1])
      BY <2>2
    <3> QED BY <2>1, <2>3, <2>4, <3>1, CutLine
  <2>5. ASSUME NEW k \in 1..Len(ids), WasCut(ids[k]), HasMessage(ids[k])
        PROVE  Keeps(entry.msg[LineOfMessage(ids, k)], WordsOf(ids[k]),
                     Mapped(script.sets, Len(WordsOf(ids[k]))))
    <3>1. \A j \in 1..k : WasCut(ids[j])
      <4> DEFINE a == Places[m - 1]
                 b == Places[m]
      <4>1. /\ a \in Nat /\ b \in Nat /\ b <= Len(Stream) /\ Len(Stream) \in Nat
            /\ Len(ids) = b - a /\ \A j \in 1..(b - a) : ids[j] = Stream[a + j]
        BY WrittenMessage DEF Covers
      <4> HIDE DEF a, b
      <4>2. \A p \in 1..Len(Stream) : Stream[p][1] = IF p <= Total("i") THEN "i" ELSE "k"
        <5>1. \A p \in 1..Len(Stream) :
                Stream[p] = IF p <= Total("i") THEN <<"i", p>> ELSE <<"k", p - Total("i")>>
          BY <2>1, StreamFacts
        <5> TAKE p \in 1..Len(Stream)
        <5>2. CASE p <= Total("i")
          <6>1. Stream[p] = <<"i", p>>
            BY <5>1, <5>2
          <6> QED BY <5>2, <6>1
        <5>3. CASE ~(p <= Total("i"))
          <6>1. Stream[p] = <<"k", p - Total("i")>>
            BY <5>1, <5>3
          <6> QED BY <5>3, <6>1
        <5> QED BY <5>2, <5>3
      <4>3. Total("i") \in Nat
        BY <2>1, StreamFacts
      <4>4. ASSUME NEW j \in 1..k PROVE ids[k][1] = "i" => ids[j][1] = "i"
        <5>1. a + j \in 1..Len(Stream) /\ a + k \in 1..Len(Stream) /\ a + j <= a + k
          BY <4>1
        <5>2. j \in 1..(b - a) /\ k \in 1..(b - a)
          BY <4>1
        <5>3. ids[j] = Stream[a + j] /\ ids[k] = Stream[a + k]
          BY <4>1, <5>2
        <5>4. ids[k][1] = "i" => a + k <= Total("i")
          BY <4>2, <5>1, <5>3
        <5>5. a + j <= Total("i") => ids[j][1] = "i"
          BY <4>2, <5>1, <5>3
        <5> QED BY <4>1, <4>3, <5>1, <5>4, <5>5
      <4>5. script.cut \in {"all", "i", "none"}
        BY <2>1, ScriptFacts
      <4>6. ids[k][1] \in Src
        BY <2>2 DEF Given, LineId
      <4> QED BY <2>5, <4>4, <4>5, <4>6 DEF WasCut, Src
    <3>2. TextOf(ids)[LineOfMessage(ids, k)] = Line(ids[k]).msg[1]
      BY <2>1, <2>2, <2>5, <3>1, TextPlace
    <3>3. Given(ids[k])
      BY <2>2
    <3> QED BY <2>1, <2>3, <2>5, <3>2, <3>3, CutLine
  <2> QED BY <2>2, <2>4, <2>5, LenProperties
<1> QED BY <1>1, PullInductive, PullTold, PTL

=============================================================================
