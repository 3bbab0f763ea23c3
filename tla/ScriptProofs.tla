---------------------------- MODULE ScriptProofs ----------------------------
(***************************************************************************)
(* Proofs about "vet" and "exec" of a script (Script, Parser, Runtime) for *)
(* every set of identifiers and scripts of every length.                   *)
(*                                                                         *)
(* The invariant replays the script: what the parser has recorded after    *)
(* each statement is what the runtime finds when it gets there, so that of *)
(* the runtime's checks only four can fail, whatever the run; and who may  *)
(* name an iterator is at any time one identifier, until it has a reader.  *)
(***************************************************************************)
EXTENDS Script, SequenceTheorems, FiniteSetTheorems, TLAPS

-----------------------------------------------------------------------------
(* What a statement does to the identifiers *)

Defines(st) == CASE st.type \in {"source", "merge"} -> {st.ID}
                 [] st.type \in {"dupe", "fanout"} -> {st.TargetA, st.TargetB}
                 [] OTHER -> {}
Consumes(st) == CASE st.type \in {"sink", "dupe", "fanout", "append"} -> {st.Source}
                  [] st.type = "merge" -> {st.SourceA, st.SourceB}
                  [] OTHER -> {}

\* The identifiers that the first n statements of s define and consume.
DefinedIn(s, n) == UNION {Defines(s[k]) : k \in 1..n}
ConsumedIn(s, n) == UNION {Consumes(s[k]) : k \in 1..n}

\* The rules of the parser about iterators, when those in D are defined and
\* those in G consumed.
Follows(st, D, G) ==
  /\ st.type = "source" => st.ID \in Ids \ D
  /\ st.type = "sink" => st.Source \in D \ G
  /\ st.type = "merge" => /\ st.SourceA \in D \ G
                          /\ st.SourceB \in D \ (G \cup {st.SourceA})
                          /\ st.ID \in Ids \ D
  /\ st.type \in {"dupe", "fanout"} => /\ st.Source \in D \ G
                                       /\ st.TargetA \in Ids \ D
                                       /\ st.TargetB \in Ids \ (D \cup {st.TargetA})
  /\ st.type = "append" => st.Source \in D \ G /\ st.Target \in D
  /\ st.type = "cut" => st.Source \in Ids \ G
  /\ st.type \in {"tag", "join"} => st.Source \in D \ G

\* The error that the runtime finds in a statement that follows the rules.
StaticError(st, D, G) ==
  CASE st.type = "source" -> ClassError(st, "unknown source")
    [] st.type = "sink" -> ClassError(st, "unknown sink")
    [] st.type = "append" /\ st.Target \in G -> "consumed"
    [] st.type = "cut" /\ st.Source \notin D -> "undefined"
    [] OTHER -> "none"
StaticAt(n) == StaticError(nodes[n], DefinedIn(nodes, n - 1), ConsumedIn(nodes, n - 1))
NoErrorTo(n) == \A m \in 1..n : StaticAt(m) = "none"

-----------------------------------------------------------------------------
(* The invariant *)

\* The parser has recorded what the statements do, each of which follows the
\* rules.
ParserInv ==
  /\ Len(nodes) <= MaxStatements
  /\ \A n \in 1..Len(nodes) : Follows(nodes[n], DefinedIn(nodes, n - 1),
                                      ConsumedIn(nodes, n - 1))
  /\ parse # "error" => /\ psources = DefinedIn(nodes, Len(nodes))
                        /\ pconsumed = ConsumedIn(nodes, Len(nodes))

\* A runtime that has executed nothing.
Fresh == /\ state \in {"created", "started"} /\ dryRun = FALSE
         /\ sourceIDs = [id \in {} |-> 0] /\ sources = <<>> /\ consumed = <<>>
         /\ readers = <<>> /\ tasks = <<>>
         /\ at = 0 /\ err = "none" /\ errAt = 0

\* Both runs are of the script that was parsed, vet's is a dry run.
PhaseInv ==
  /\ phase = "parse" => parse = "parsing" /\ Fresh
  /\ phase \in {"vet", "exec"} => parse = "ok" /\ Fresh
  /\ phase \in {"vetting", "executing"} => parse = "ok" /\ asts = nodes
  /\ phase = "done" => at = 0 /\ (IF parse = "ok" THEN asts = nodes
                                 ELSE parse = "error" /\ Fresh)
  /\ at > 0 => /\ phase \in {"vetting", "executing"}
               /\ dryRun = (phase = "vetting") /\ err = "none" /\ state = "started"
  /\ phase = "vetting" => tasks = <<>>

\* Execute waits for one sink at a time, that of its statement.
SyncInv ==
  \A k \in DOMAIN tasks :
    /\ tasks[k].status = "starting" => tasks[k].async
    /\ ~tasks[k].async /\ tasks[k].status = "reading" =>
         /\ at \in 1..Len(asts) /\ Stmt.type = "sink" /\ Stmt.Source = tasks[k].id
         /\ \A j \in DOMAIN tasks : ~tasks[j].async /\ tasks[j].status = "reading" => j = k

\* Each identifier has a slot of its own.
SlotInv == \A id, jd \in DOMAIN sourceIDs : sourceIDs[id] = sourceIDs[jd] => id = jd

Live == {id \in DOMAIN sourceIDs : ~consumed[sourceIDs[id]]}
Gone == {id \in DOMAIN sourceIDs : consumed[sourceIDs[id]]}

\* The statements whose effect on the identifiers has come.
Done == IF InSink THEN at ELSE at - 1

\* The runtime knows the identifiers that the parser knew.
NamesInv == at > 0 => /\ DOMAIN sourceIDs = DefinedIn(nodes, Done)
                      /\ Gone = ConsumedIn(nodes, Done)
                      /\ NoErrorTo(Done)

\* The identifiers through which an iterator may yet be given to a reader:
\* those that are not consumed, and those of the sinks that have not looked.
Waiting(k) == k \in DOMAIN tasks /\ tasks[k].status = "starting"
Holds(id) == id \in Live \/ \E k \in DOMAIN tasks : Waiting(k) /\ tasks[k].id = id

\* An iterator that an identifier holds has no reader, and one holder.
HolderInv ==
  \A id \in DOMAIN sourceIDs : Holds(id) /\ SourceOf(id) # 0 =>
    /\ readers[SourceOf(id)] = 0
    /\ \A jd \in DOMAIN sourceIDs : Holds(jd) /\ SourceOf(jd) = SourceOf(id) => jd = id

\* A sink that has not looked yet finds what its identifier stood for, and is
\* the only one that will look there.
WaitingInv ==
  \A k \in DOMAIN tasks : Waiting(k) =>
    /\ tasks[k].id \in Gone
    /\ tasks[k].named = SourceOf(tasks[k].id)
    /\ \A j \in DOMAIN tasks : Waiting(j) /\ tasks[j].id = tasks[k].id => j = k

\* What a finished run has returned: the first error that the script has, if
\* it has one, or an error of a source or of a sink before that.
Outcome(e, n) == IF e = "none" THEN n = 0 /\ NoErrorTo(Len(nodes))
                 ELSE n \in 1..Len(nodes) /\ NoErrorTo(n - 1) /\ StaticAt(n) = e
Failure(e, n) == e \in Dynamic /\ n \in 1..Len(nodes) /\ NoErrorTo(n)

OutcomeInv ==
  /\ phase = "vetting" /\ at = 0 => Outcome(err, errAt)
  /\ phase \in {"exec", "executing"} \/ (phase = "done" /\ parse = "ok") =>
       Outcome(vetErr, vetAt)
  /\ phase \in {"executing", "done"} /\ parse = "ok" /\ at = 0 =>
       Outcome(err, errAt) \/ Failure(err, errAt)

IndInv == /\ TypeOK /\ ParserInv /\ PhaseInv /\ SyncInv /\ SlotInv /\ NamesInv
          /\ HolderInv /\ WaitingInv /\ OutcomeInv
          /\ SingleReader /\ LateReadStable /\ NothingLost
-----------------------------------------------------------------------------
(* Lemmas about the operators of the runtime *)

\* The tables of the runtime, as functions.
LEMMA Tables ==
  ASSUME RuntimeTypeOK
  PROVE  /\ Len(sources) \in Nat /\ Len(readers) \in Nat
         /\ DOMAIN sources = 1..Len(sources) /\ DOMAIN readers = 1..Len(readers)
         /\ DOMAIN consumed = 1..Len(sources)
         /\ \A i \in 1..Len(sources) : consumed[i] \in BOOLEAN
         /\ \A i \in 1..Len(sources) : sources[i] \in 0..Len(readers)
         /\ \A i \in 1..Len(readers) : readers[i] \in Nat
         /\ \A id \in DOMAIN sourceIDs : sourceIDs[id] \in 1..Len(sources)
         /\ \A id \in DOMAIN sourceIDs : SourceOf(id) \in 0..Len(readers)
<1>1. /\ sources \in Seq(0..Len(readers)) /\ consumed \in Seq(BOOLEAN)
      /\ readers \in Seq(Nat) /\ Len(consumed) = Len(sources)
      /\ \A id \in DOMAIN sourceIDs : sourceIDs[id] \in DOMAIN sources
  BY DEF RuntimeTypeOK
<1>2. /\ Len(sources) \in Nat /\ DOMAIN sources = 1..Len(sources)
      /\ \A i \in 1..Len(sources) : sources[i] \in 0..Len(readers)
  BY <1>1, LenProperties, ElementOfSeq
<1>3. /\ Len(readers) \in Nat /\ DOMAIN readers = 1..Len(readers)
      /\ \A i \in 1..Len(readers) : readers[i] \in Nat
  BY <1>1, LenProperties, ElementOfSeq
<1>4. /\ DOMAIN consumed = 1..Len(sources)
      /\ \A i \in 1..Len(sources) : consumed[i] \in BOOLEAN
  BY <1>1, LenProperties, ElementOfSeq
<1> QED
  BY <1>1, <1>2, <1>3, <1>4 DEF SourceOf

\* Attach gives one reader more to each iterator in used, which are different
\* but for nil, and makes n iterators that have none.
LEMMA AttachEffect ==
  ASSUME readers \in Seq(Nat), NEW n \in Nat, NEW used \in Seq(Nat),
         \A j, k \in DOMAIN used : used[j] = used[k] /\ used[j] # 0 => j = k,
         Attach(used, n)
  PROVE  /\ readers' \in Seq(Nat) /\ Len(readers') = Len(readers) + n
         /\ \A i \in 1..Len(readers) :
              readers'[i] = IF i \in Range(used) THEN readers[i] + 1 ELSE readers[i]
         /\ \A i \in (Len(readers) + 1)..(Len(readers) + n) : readers'[i] = 0
<1> DEFINE C(i) == {k \in DOMAIN used : used[k] = i}
           old == [i \in DOMAIN readers |-> readers[i] + Cardinality(C(i))]
           new == [k \in 1..n |-> 0]
<1>1. Len(readers) \in Nat /\ DOMAIN readers = 1..Len(readers)
      /\ \A i \in 1..Len(readers) : readers[i] \in Nat
  BY LenProperties, ElementOfSeq
<1>2. ASSUME NEW i \in Nat \ {0}
      PROVE  Cardinality(C(i)) = IF i \in Range(used) THEN 1 ELSE 0
  <2>1. CASE i \in Range(used)
    <3>1. PICK k \in DOMAIN used : used[k] = i
      BY <2>1 DEF Range
    <3>2. C(i) = {k}
      BY <3>1
    <3> QED
      BY <2>1, <3>2, FS_Singleton
  <2>2. CASE i \notin Range(used)
    <3>1. C(i) = {}
      BY <2>2 DEF Range
    <3> QED
      BY <2>2, <3>1, FS_EmptySet
  <2> QED
    BY <2>1, <2>2
<1>3. ASSUME NEW i \in 1..Len(readers)
      PROVE  /\ old[i] = IF i \in Range(used) THEN readers[i] + 1 ELSE readers[i]
             /\ old[i] \in Nat
  <2>1. i \in Nat \ {0} /\ i \in DOMAIN readers /\ readers[i] \in Nat
    BY <1>1
  <2>2. Cardinality(C(i)) = IF i \in Range(used) THEN 1 ELSE 0
    BY <1>2, <2>1
  <2> QED
    BY <2>1, <2>2
<1>4. old \in Seq(Nat) /\ Len(old) = Len(readers)
  <2>1. \A i \in 1..Len(readers) : old[i] \in Nat
    BY <1>3
  <2> QED
    BY <1>1, <2>1, IsASeq
<1>5. new \in Seq(Nat) /\ Len(new) = n /\ \A k \in 1..n : new[k] = 0
  OBVIOUS
<1>6. readers' = old \o new
  BY DEF Attach
<1> HIDE DEF old, new, C
<1>7. /\ readers' \in Seq(Nat) /\ Len(readers') = Len(readers) + n
      /\ \A i \in 1..Len(readers) : readers'[i] = old[i]
      /\ \A i \in (Len(readers) + 1)..(Len(readers) + n) : readers'[i] = new[i - Len(readers)]
  <2>1. old \in Seq(Nat) /\ new \in Seq(Nat)
    BY <1>4, <1>5
  <2>2. old \o new \in Seq(Nat) /\ Len(old \o new) = Len(old) + Len(new)
    BY <2>1, ConcatProperties
  <2>3. \A i \in 1..(Len(old) + Len(new)) :
          (old \o new)[i] = IF i <= Len(old) THEN old[i] ELSE new[i - Len(old)]
    BY <2>1, ConcatProperties
  <2> QED
    BY <1>1, <1>4, <1>5, <1>6, <2>2, <2>3
<1>8. \A i \in (Len(readers) + 1)..(Len(readers) + n) : readers'[i] = 0
  BY <1>1, <1>5, <1>7
<1> QED
  BY <1>3, <1>7, <1>8

\* A concatenation, part by part.
LEMMA ConcatParts ==
  ASSUME NEW S, NEW s \in Seq(S), NEW t \in Seq(S)
  PROVE  /\ s \o t \in Seq(S) /\ Len(s \o t) = Len(s) + Len(t)
         /\ \A i \in 1..Len(s) : (s \o t)[i] = s[i]
         /\ \A k \in 1..Len(t) : (s \o t)[Len(s) + k] = t[k]
<1>1. Len(s) \in Nat /\ Len(t) \in Nat
  BY LenProperties
<1>2. s \o t \in Seq(S) /\ Len(s \o t) = Len(s) + Len(t)
  BY ConcatProperties
<1>3. \A i \in 1..(Len(s) + Len(t)) :
        (s \o t)[i] = IF i <= Len(s) THEN s[i] ELSE t[i - Len(s)]
  BY ConcatProperties
<1> QED
  BY <1>1, <1>2, <1>3

LEMMA MarksConcat ==
  ASSUME NEW s \in Seq(BOOLEAN), NEW t \in Seq(BOOLEAN)
  PROVE  /\ s \o t \in Seq(BOOLEAN) /\ Len(s \o t) = Len(s) + Len(t)
         /\ \A i \in 1..Len(s) : (s \o t)[i] = s[i]
         /\ \A k \in 1..Len(t) : (s \o t)[Len(s) + k] = t[k]
<1>1. s \o t \in Seq(BOOLEAN) /\ Len(s \o t) = Len(s) + Len(t)
  BY ConcatParts
<1>2. \A i \in 1..Len(s) : (s \o t)[i] = s[i]
  BY ConcatParts
<1>3. \A k \in 1..Len(t) : (s \o t)[Len(s) + k] = t[k]
  BY ConcatParts
<1> QED
  BY <1>1, <1>2, <1>3, Zenon

\* The tables have their types, and each identifier its slot.
TablesTyped ==
  /\ DOMAIN sourceIDs \subseteq Ids
  /\ \A id \in DOMAIN sourceIDs : sourceIDs[id] \in DOMAIN sources
  /\ sources \in Seq(0..Len(readers))
  /\ consumed \in Seq(BOOLEAN) /\ Len(consumed) = Len(sources)
  /\ SlotInv

\* addSource of new identifiers, after markConsumed of some that there are.
Added(ids, iters, gone) ==
  /\ TablesTyped'
  /\ DOMAIN sourceIDs' = DOMAIN sourceIDs \cup Range(ids)
  /\ Live' = (Live \ gone) \cup Range(ids)
  /\ Gone' = Gone \cup gone
  /\ \A id \in DOMAIN sourceIDs : SourceOf(id)' = SourceOf(id)
  /\ \A k \in DOMAIN ids : SourceOf(ids[k])' = iters[k]

LEMMA AddEffect ==
  ASSUME RuntimeTypeOK, SlotInv, NEW n \in Nat, NEW ids, NEW iters, NEW gone,
         ids \in [1..n -> Ids \ DOMAIN sourceIDs],
         \A j, k \in 1..n : ids[j] = ids[k] => j = k,
         iters \in Seq(0..Len(readers')), Len(iters) = n,
         Len(readers) <= Len(readers'), Len(readers') \in Nat,
         gone \subseteq DOMAIN sourceIDs,
         AddSources(ids, iters, gone)
  PROVE  Added(ids, iters, gone)
<1> DEFINE L == Len(sources)
           M == Mark(gone)
           F == NewMarks(iters)
<1>1. /\ L \in Nat /\ Len(readers) \in Nat
      /\ DOMAIN sources = 1..L /\ DOMAIN consumed = 1..L
      /\ \A i \in 1..L : consumed[i] \in BOOLEAN
      /\ \A i \in 1..L : sources[i] \in 0..Len(readers)
      /\ \A id \in DOMAIN sourceIDs : sourceIDs[id] \in 1..L
      /\ DOMAIN sourceIDs \subseteq Ids
  BY Tables DEF RuntimeTypeOK
<1>2. /\ DOMAIN ids = 1..n /\ ToSet(ids) = Range(ids) /\ ToSet(ids) = {ids[k] : k \in 1..n}
      /\ \A id \in ToSet(ids) : id \in Ids /\ id \notin DOMAIN sourceIDs
      /\ \A k \in 1..n : ids[k] \in ToSet(ids)
  BY DEF ToSet, Range
<1>3. /\ DOMAIN sourceIDs' = DOMAIN sourceIDs \cup ToSet(ids)
      /\ \A id \in DOMAIN sourceIDs : sourceIDs'[id] = sourceIDs[id]
  BY <1>2 DEF AddSources, Bind
<1>4. \A k \in 1..n : sourceIDs'[ids[k]] = L + k
  <2> SUFFICES ASSUME NEW k \in 1..n PROVE sourceIDs'[ids[k]] = L + k
    OBVIOUS
  <2> DEFINE P(m) == ids[m] = ids[k] /\ \A j \in DOMAIN ids : ids[j] = ids[k] => j <= m
  <2>1. (CHOOSE m \in DOMAIN ids : P(m)) = k
    <3>1. k \in DOMAIN ids /\ P(k)
      BY <1>2
    <3>2. \A m \in DOMAIN ids : P(m) => m = k
      BY <1>2
    <3> QED
      BY <3>1, <3>2
  <2>2. sourceIDs'[ids[k]] = L + (CHOOSE m \in DOMAIN ids : P(m))
    BY <1>2, <1>3 DEF AddSources, Bind
  <2> QED
    BY <2>1, <2>2
<1>5. /\ iters \in Seq(0..Len(readers')) /\ DOMAIN iters = 1..n
      /\ sources \in Seq(0..Len(readers'))
  <2>1. sources \in Seq(0..Len(readers))
    BY DEF RuntimeTypeOK
  <2>2. 0..Len(readers) \subseteq 0..Len(readers')
    BY <1>1
  <2> QED
    BY <2>1, <2>2, SeqMonotonic, LenProperties
<1>6. /\ sources' \in Seq(0..Len(readers')) /\ Len(sources') = L + n
      /\ \A i \in 1..L : sources'[i] = sources[i]
      /\ \A k \in 1..n : sources'[L + k] = iters[k]
  <2>1. sources' = sources \o iters
    BY DEF AddSources
  <2>2. sources \o iters \in Seq(0..Len(readers')) /\ Len(sources \o iters) = L + n
    BY <1>5, ConcatProperties
  <2>3. \A i \in 1..(L + n) : (sources \o iters)[i] = IF i <= L THEN sources[i] ELSE iters[i - L]
    BY <1>5, ConcatProperties
  <2> QED
    BY <1>1, <2>1, <2>2, <2>3
<1>7. /\ M \in Seq(BOOLEAN) /\ Len(M) = L
      /\ \A i \in 1..L : M[i] = (consumed[i] \/ \E id \in gone : sourceIDs[id] = i)
  BY <1>1 DEF Mark
<1>8. F \in Seq(BOOLEAN) /\ Len(F) = n /\ \A k \in 1..n : F[k] = FALSE
  BY <1>5 DEF NewMarks
<1> HIDE DEF M, F
<1>9. /\ consumed' \in Seq(BOOLEAN) /\ Len(consumed') = L + n
      /\ \A i \in 1..L : consumed'[i] = M[i]
      /\ \A k \in 1..n : consumed'[L + k] = F[k]
  <2>1. consumed' = M \o F
    BY DEF AddSources, M, F
  <2>2. M \in Seq(BOOLEAN) /\ F \in Seq(BOOLEAN) /\ Len(M) = L /\ Len(F) = n
    BY <1>7, <1>8
  <2> HIDE DEF L
  <2>3. /\ M \o F \in Seq(BOOLEAN) /\ Len(M \o F) = Len(M) + Len(F)
        /\ \A i \in 1..Len(M) : (M \o F)[i] = M[i]
        /\ \A k \in 1..Len(F) : (M \o F)[Len(M) + k] = F[k]
    BY <2>2, MarksConcat, Zenon
  <2> QED
    BY <2>1, <2>2, <2>3, Zenon
<1>10. \A id \in DOMAIN sourceIDs : /\ sourceIDs'[id] \in 1..L
                                    /\ consumed'[sourceIDs'[id]] = M[sourceIDs[id]]
  BY <1>1, <1>3, <1>9
<1>11. \A id \in DOMAIN sourceIDs :
         consumed'[sourceIDs'[id]] <=> consumed[sourceIDs[id]] \/ id \in gone
  <2> SUFFICES ASSUME NEW id \in DOMAIN sourceIDs
               PROVE  M[sourceIDs[id]] <=> consumed[sourceIDs[id]] \/ id \in gone
    BY <1>10
  <2>1. (\E jd \in gone : sourceIDs[jd] = sourceIDs[id]) <=> id \in gone
    BY DEF SlotInv
  <2> QED
    BY <1>1, <1>7, <2>1
<1>12. \A k \in 1..n : ~consumed'[sourceIDs'[ids[k]]]
  BY <1>4, <1>8, <1>9
<1>13. /\ Live' = (Live \ gone) \cup Range(ids)
       /\ Gone' = Gone \cup gone
  <2>1. Live' = {id \in DOMAIN sourceIDs' : ~consumed'[sourceIDs'[id]]}
        /\ Gone' = {id \in DOMAIN sourceIDs' : consumed'[sourceIDs'[id]]}
    BY DEF Live, Gone
  <2>2. Live \subseteq DOMAIN sourceIDs /\ Gone \subseteq DOMAIN sourceIDs
    BY DEF Live, Gone
  <2>3. \A id \in DOMAIN sourceIDs : /\ id \in Live <=> ~consumed[sourceIDs[id]]
                                     /\ id \in Gone <=> consumed[sourceIDs[id]]
    BY DEF Live, Gone
  <2>4. \A id \in ToSet(ids) : ~consumed'[sourceIDs'[id]]
    BY <1>2, <1>12
  <2> QED
    BY <1>2, <1>3, <1>11, <2>1, <2>2, <2>3, <2>4
<1>14. SlotInv'
  <2> SUFFICES ASSUME NEW id \in DOMAIN sourceIDs', NEW jd \in DOMAIN sourceIDs',
                      sourceIDs'[id] = sourceIDs'[jd]
               PROVE  id = jd
    BY DEF SlotInv
  <2>1. CASE id \in DOMAIN sourceIDs /\ jd \in DOMAIN sourceIDs
    BY <1>3, <2>1 DEF SlotInv
  <2>2. CASE id \in ToSet(ids) /\ jd \in ToSet(ids)
    <3>1. PICK j \in 1..n, k \in 1..n : id = ids[j] /\ jd = ids[k]
      BY <1>2, <2>2
    <3> QED
      BY <1>1, <1>4, <3>1
  <2>3. CASE id \in DOMAIN sourceIDs /\ jd \in ToSet(ids)
    BY <1>1, <1>2, <1>4, <1>10, <2>3
  <2>4. CASE id \in ToSet(ids) /\ jd \in DOMAIN sourceIDs
    BY <1>1, <1>2, <1>4, <1>10, <2>4
  <2> QED
    BY <1>3, <2>1, <2>2, <2>3, <2>4
<1>15. \A id \in DOMAIN sourceIDs : SourceOf(id)' = SourceOf(id)
  BY <1>1, <1>3, <1>6 DEF SourceOf
<1>16. \A k \in 1..n : SourceOf(ids[k])' = iters[k]
  BY <1>1, <1>4, <1>6 DEF SourceOf
<1>17. \A id \in DOMAIN sourceIDs' : sourceIDs'[id] \in DOMAIN sources'
  <2>1. DOMAIN sources' = 1..(L + n)
    BY <1>6, LenProperties
  <2>2. ASSUME NEW id \in DOMAIN sourceIDs PROVE sourceIDs'[id] \in 1..(L + n)
    BY <1>1, <1>10
  <2>3. ASSUME NEW id \in ToSet(ids) PROVE sourceIDs'[id] \in 1..(L + n)
    BY <1>1, <1>2, <1>4
  <2> QED
    BY <1>3, <2>1, <2>2, <2>3
<1>18. TablesTyped'
  BY <1>1, <1>2, <1>3, <1>6, <1>9, <1>14, <1>17 DEF TablesTyped
<1> QED
  BY <1>2, <1>3, <1>13, <1>15, <1>16, <1>18 DEF Added

\* markConsumed of identifiers that there are.
LEMMA MarkEffect ==
  ASSUME RuntimeTypeOK, SlotInv, NEW gone, gone \subseteq DOMAIN sourceIDs,
         sourceIDs' = sourceIDs, consumed' = Mark(gone)
  PROVE  /\ consumed' \in Seq(BOOLEAN) /\ Len(consumed') = Len(sources)
         /\ SlotInv'
         /\ Live' = Live \ gone
         /\ Gone' = Gone \cup gone
<1>1. /\ Len(sources) \in Nat /\ DOMAIN consumed = 1..Len(sources)
      /\ \A i \in 1..Len(sources) : consumed[i] \in BOOLEAN
      /\ \A id \in DOMAIN sourceIDs : sourceIDs[id] \in 1..Len(sources)
  BY Tables
<1>2. /\ consumed' \in Seq(BOOLEAN) /\ Len(consumed') = Len(sources)
      /\ \A i \in 1..Len(sources) :
           consumed'[i] = (consumed[i] \/ \E id \in gone : sourceIDs[id] = i)
  BY <1>1 DEF Mark
<1>3. \A id \in DOMAIN sourceIDs : consumed'[sourceIDs[id]] <=> consumed[sourceIDs[id]] \/ id \in gone
  <2> SUFFICES ASSUME NEW id \in DOMAIN sourceIDs
               PROVE  consumed'[sourceIDs[id]] <=> consumed[sourceIDs[id]] \/ id \in gone
    OBVIOUS
  <2>1. (\E jd \in gone : sourceIDs[jd] = sourceIDs[id]) <=> id \in gone
    BY DEF SlotInv
  <2> QED
    BY <1>1, <1>2, <2>1
<1>4. /\ Live' = Live \ gone
      /\ Gone' = Gone \cup gone
  BY <1>3 DEF Live, Gone
<1> QED
  BY <1>2, <1>4 DEF SlotInv

\* replaceSource of an identifier, after markConsumed of some.
Replaced(id, iter, gone) ==
  /\ TablesTyped'
  /\ DOMAIN sourceIDs' = DOMAIN sourceIDs
  /\ Live' = Live \ gone
  /\ Gone' = Gone \cup gone
  /\ SourceOf(id)' = iter
  /\ \A jd \in DOMAIN sourceIDs \ {id} : SourceOf(jd)' = SourceOf(jd)

LEMMA ReplaceEffect ==
  ASSUME RuntimeTypeOK, SlotInv, NEW id \in DOMAIN sourceIDs, NEW gone,
         gone \subseteq DOMAIN sourceIDs,
         Len(readers) <= Len(readers'), Len(readers') \in Nat,
         NEW iter \in 0..Len(readers'), ReplaceSource(id, iter, gone)
  PROVE  Replaced(id, iter, gone)
<1>1. sourceIDs' = sourceIDs /\ consumed' = Mark(gone)
      /\ sources' = [sources EXCEPT ![sourceIDs[id]] = iter]
  BY DEF ReplaceSource
<1>2. /\ consumed' \in Seq(BOOLEAN) /\ Len(consumed') = Len(sources)
      /\ SlotInv' /\ Live' = Live \ gone /\ Gone' = Gone \cup gone
  BY <1>1, MarkEffect
<1>3. /\ Len(readers) \in Nat /\ DOMAIN sources = 1..Len(sources)
      /\ \A jd \in DOMAIN sourceIDs : sourceIDs[jd] \in 1..Len(sources)
      /\ DOMAIN sourceIDs \subseteq Ids
  BY Tables DEF RuntimeTypeOK
<1>4. sources \in Seq(0..Len(readers'))
  <2>1. sources \in Seq(0..Len(readers)) /\ 0..Len(readers) \subseteq 0..Len(readers')
    BY <1>3 DEF RuntimeTypeOK
  <2> QED
    BY <2>1, SeqMonotonic
<1>5. /\ sources' \in Seq(0..Len(readers')) /\ Len(sources') = Len(sources)
      /\ \A i \in 1..Len(sources) : sources'[i] = IF i = sourceIDs[id] THEN iter ELSE sources[i]
  BY <1>1, <1>3, <1>4, ExceptSeq
<1>6. DOMAIN sources' = 1..Len(sources)
  BY <1>5, LenProperties
<1>7. \A jd \in DOMAIN sourceIDs \ {id} : sourceIDs[jd] # sourceIDs[id]
  BY DEF SlotInv
<1>8. SourceOf(id)' = iter /\ \A jd \in DOMAIN sourceIDs \ {id} : SourceOf(jd)' = SourceOf(jd)
  BY <1>1, <1>3, <1>5, <1>7 DEF SourceOf
<1>9. TablesTyped'
  BY <1>1, <1>2, <1>3, <1>5, <1>6 DEF TablesTyped
<1> QED
  BY <1>1, <1>2, <1>8, <1>9 DEF Replaced

\* A sequence of a set of two, or of one.
Lists(s, S) == /\ s \in Seq(Nat) /\ Range(s) = S
               /\ \A j, k \in DOMAIN s : s[j] = s[k] => j = k

LEMMA PairSequence == \A x, y \in Nat : Lists(SetToSeq({x, y}), {x, y})
<1> SUFFICES ASSUME NEW x \in Nat, NEW y \in Nat, NEW s, s = SetToSeq({x, y})
             PROVE  Lists(s, {x, y})
  OBVIOUS
<1> DEFINE n == Cardinality({x, y})
<1>1. n \in {1, 2} /\ (n = 1 <=> x = y)
  <2>1. IsFiniteSet({x}) /\ Cardinality({x}) = 1
    BY FS_Singleton
  <2>2. CASE x = y
    BY <2>1, <2>2
  <2>3. CASE x # y
    <3>1. Cardinality({x} \cup {y}) = 2
      BY <2>1, <2>3, FS_AddElement
    <3>2. {x} \cup {y} = {x, y}
      OBVIOUS
    <3> QED
      BY <2>3, <3>1, <3>2
  <2> QED
    BY <2>2, <2>3
<1>2. \E f \in [1..n -> {x, y}] : IsInjective(f)
  <2> DEFINE g == [k \in 1..n |-> IF k = 1 THEN x ELSE y]
  <2>1. g \in [1..n -> {x, y}] /\ IsInjective(g)
    BY <1>1 DEF IsInjective
  <2> QED
    BY <2>1
<1>3. s \in [1..n -> {x, y}] /\ IsInjective(s)
  BY <1>2 DEF SetToSeq
<1> HIDE DEF n
<1>4. s \in Seq(Nat)
  <2>1. n \in Nat
    BY <1>1
  <2>2. {x, y} \subseteq Nat
    OBVIOUS
  <2>3. s \in [1..n -> Nat]
    BY <1>3, <2>2
  <2> QED
    BY <2>1, <2>3, SeqDef
<1>5. \A j, k \in DOMAIN s : s[j] = s[k] => j = k
  BY <1>3 DEF IsInjective
<1>6. Range(s) = {x, y}
  <2>1. CASE n = 1
    BY <1>1, <1>3, <2>1 DEF Range
  <2>2. CASE n = 2
    <3>1. /\ DOMAIN s = 1..2 /\ s[1] \in {x, y} /\ s[2] \in {x, y} /\ s[1] # s[2]
      BY <1>3, <1>5, <2>2
    <3> QED
      BY <3>1 DEF Range
  <2> QED
    BY <1>1, <2>1, <2>2
<1> QED
  BY <1>4, <1>5, <1>6 DEF Lists

-----------------------------------------------------------------------------
(* The ownership of iterators, whatever the step *)

\* A step gives a reader to the iterators in U, all of which somebody held, and
\* afterwards each holder holds what it held, unless that has got a reader, or
\* something new.
LEMMA HolderStep ==
  ASSUME RuntimeTypeOK, RuntimeTypeOK', HolderInv, SingleReader, NEW U,
         Len(readers) <= Len(readers'),
         \A i \in 1..Len(readers) : readers'[i] = IF i \in U THEN readers[i] + 1 ELSE readers[i],
         \A i \in (Len(readers) + 1)..Len(readers') : readers'[i] = 0,
         \A i \in U \ {0} : \E id \in DOMAIN sourceIDs : Holds(id) /\ SourceOf(id) = i,
         \A id \in DOMAIN sourceIDs' : Holds(id)' /\ SourceOf(id)' # 0 =>
           \/ /\ id \in DOMAIN sourceIDs /\ Holds(id)
              /\ SourceOf(id)' = SourceOf(id) /\ SourceOf(id) \notin U
           \/ /\ SourceOf(id)' > Len(readers)
              /\ \A jd \in DOMAIN sourceIDs' :
                   Holds(jd)' /\ SourceOf(jd)' = SourceOf(id)' => jd = id
  PROVE  HolderInv' /\ SingleReader'
<1>1. /\ Len(readers) \in Nat /\ DOMAIN readers = 1..Len(readers)
      /\ \A i \in 1..Len(readers) : readers[i] \in Nat
      /\ \A id \in DOMAIN sourceIDs : SourceOf(id) \in 0..Len(readers)
  BY Tables
<1>2. /\ Len(readers') \in Nat /\ DOMAIN readers' = 1..Len(readers')
      /\ \A id \in DOMAIN sourceIDs' : SourceOf(id)' \in 0..Len(readers')
  <2>1. /\ readers' \in Seq(Nat) /\ sources' \in Seq(0..Len(readers'))
        /\ \A id \in DOMAIN sourceIDs' : sourceIDs'[id] \in DOMAIN sources'
    BY DEF RuntimeTypeOK
  <2>2. Len(readers') \in Nat /\ DOMAIN readers' = 1..Len(readers')
    BY <2>1, LenProperties
  <2>3. \A i \in DOMAIN sources' : sources'[i] \in 0..Len(readers')
    BY <2>1, LenProperties, ElementOfSeq
  <2> QED
    BY <2>1, <2>2, <2>3 DEF SourceOf
<1>3. HolderInv'
  <2> SUFFICES ASSUME NEW id \in DOMAIN sourceIDs', Holds(id)', SourceOf(id)' # 0
               PROVE  /\ readers'[SourceOf(id)'] = 0
                      /\ \A jd \in DOMAIN sourceIDs' :
                           Holds(jd)' /\ SourceOf(jd)' = SourceOf(id)' => jd = id
    BY DEF HolderInv
  <2>1. CASE SourceOf(id)' > Len(readers)
    <3>1. ~(SourceOf(id)' <= Len(readers)) /\ SourceOf(id)' \in (Len(readers) + 1)..Len(readers')
      BY <1>1, <1>2, <2>1
    <3>2. readers'[SourceOf(id)'] = 0
      BY <3>1
    <3>3. id \in DOMAIN sourceIDs /\ SourceOf(id)' = SourceOf(id) => FALSE
      BY <1>1, <3>1
    <3> QED
      BY <3>2, <3>3
  <2>2. CASE /\ id \in DOMAIN sourceIDs /\ Holds(id)
             /\ SourceOf(id)' = SourceOf(id) /\ SourceOf(id) \notin U
    <3>1. SourceOf(id) \in 1..Len(readers) /\ readers[SourceOf(id)] = 0
      BY <1>1, <2>2 DEF HolderInv
    <3>2. readers'[SourceOf(id)'] = 0
      BY <2>2, <3>1
    <3>3. ASSUME NEW jd \in DOMAIN sourceIDs', Holds(jd)', SourceOf(jd)' = SourceOf(id)'
          PROVE  jd = id
      <4>1. ~(SourceOf(jd)' > Len(readers))
        BY <1>1, <2>2, <3>1, <3>3
      <4>2. jd \in DOMAIN sourceIDs /\ Holds(jd) /\ SourceOf(jd) = SourceOf(id)
        BY <2>2, <3>3, <4>1
      <4> QED
        BY <2>2, <3>1, <4>2 DEF HolderInv
    <3> QED
      BY <3>2, <3>3
  <2> QED
    BY <2>1, <2>2
<1>4. SingleReader'
  <2> SUFFICES ASSUME NEW i \in 1..Len(readers') PROVE readers'[i] <= 1
    BY <1>2 DEF SingleReader
  <2>1. CASE i > Len(readers)
    BY <1>1, <1>2, <2>1
  <2>2. CASE i <= Len(readers) /\ i \in U
    <3>1. i \in 1..Len(readers) /\ i # 0
      BY <1>1, <2>2
    <3>2. readers[i] = 0
      BY <2>2, <3>1 DEF HolderInv
    <3> QED
      BY <2>2, <3>1, <3>2
  <2>3. CASE i <= Len(readers) /\ i \notin U
    BY <1>1, <2>3 DEF SingleReader
  <2> QED
    BY <1>1, <1>2, <2>1, <2>2, <2>3
<1> QED
  BY <1>3, <1>4

\* What is marked stays where it is, so that a sink finds it.
LEMMA WaitingStep ==
  ASSUME WaitingInv, tasks' = tasks,
         \A id \in Gone : id \in Gone' /\ SourceOf(id)' = SourceOf(id)
  PROVE  WaitingInv'
BY DEF WaitingInv, Waiting

\* A step loses no iterator: what an identifier stood for gets a reader, stays
\* where it is, or is handed to a sink; and what is made has a name.
LEMMA LostStep ==
  ASSUME RuntimeTypeOK, RuntimeTypeOK', NEW U,
         Len(readers) <= Len(readers'),
         \A i \in 1..Len(readers) : readers'[i] = IF i \in U THEN readers[i] + 1 ELSE readers[i],
         \A i \in DOMAIN readers : Owned(i),
         \A id \in Live : \/ SourceOf(id) \in U
                          \/ id \in Live' /\ SourceOf(id)' = SourceOf(id)
                          \/ \E k \in DOMAIN tasks' : /\ tasks'[k].status = "starting"
                                                      /\ tasks'[k].named = SourceOf(id),
         \A k \in DOMAIN tasks : tasks[k].status = "starting" =>
           \/ tasks[k].named \in U
           \/ /\ k \in DOMAIN tasks' /\ tasks'[k].status = "starting"
              /\ tasks'[k].named = tasks[k].named,
         \A i \in (Len(readers) + 1)..Len(readers') : \E id \in Live' : SourceOf(id)' = i
  PROVE  \A i \in DOMAIN readers' : Owned(i)'
<1>1. /\ Len(readers) \in Nat /\ DOMAIN readers = 1..Len(readers)
      /\ \A i \in 1..Len(readers) : readers[i] \in Nat
  BY Tables
<1>2. Len(readers') \in Nat /\ DOMAIN readers' = 1..Len(readers')
  <2>1. readers' \in Seq(Nat)
    BY DEF RuntimeTypeOK
  <2> QED
    BY <2>1, LenProperties
<1> SUFFICES ASSUME NEW i \in 1..Len(readers') PROVE Owned(i)'
  BY <1>2
<1>3. CASE i > Len(readers)
  <2>1. PICK id \in Live' : SourceOf(id)' = i
    BY <1>1, <1>2, <1>3
  <2> QED
    BY <2>1 DEF Owned, Live
<1>4. CASE i <= Len(readers)
  <2>1. i \in 1..Len(readers) /\ Owned(i)
    BY <1>1, <1>4
  <2>2. CASE i \in U
    <3>1. readers'[i] > 0
      BY <1>1, <2>1, <2>2
    <3> QED
      BY <3>1 DEF Owned
  <2>3. CASE i \notin U
    <3>1. readers'[i] = readers[i]
      BY <2>1, <2>3
    <3>2. CASE readers[i] > 0
      BY <3>1, <3>2 DEF Owned
    <3>3. CASE \E k \in DOMAIN tasks : tasks[k].status = "starting" /\ tasks[k].named = i
      BY <2>3, <3>3 DEF Owned
    <3>4. CASE \E id \in DOMAIN sourceIDs : SourceOf(id) = i /\ ~consumed[sourceIDs[id]]
      <4>1. PICK id \in Live : SourceOf(id) = i
        BY <3>4 DEF Live
      <4>2. CASE id \in Live' /\ SourceOf(id)' = SourceOf(id)
        BY <4>1, <4>2 DEF Live, Owned
      <4>3. CASE \E k \in DOMAIN tasks' : /\ tasks'[k].status = "starting"
                                          /\ tasks'[k].named = SourceOf(id)
        BY <4>1, <4>3 DEF Owned
      <4> QED
        BY <2>3, <4>1, <4>2, <4>3
    <3> QED
      BY <2>1, <3>2, <3>3, <3>4 DEF Owned
  <2> QED
    BY <2>2, <2>3
<1> QED
  BY <1>1, <1>2, <1>3, <1>4

-----------------------------------------------------------------------------
(* The parser *)

\* What one statement more defines and consumes.
LEMMA OneMore ==
  ASSUME NEW s, NEW n \in Nat
  PROVE  /\ DefinedIn(s, n + 1) = DefinedIn(s, n) \cup Defines(s[n + 1])
         /\ ConsumedIn(s, n + 1) = ConsumedIn(s, n) \cup Consumes(s[n + 1])
<1>1. 1..(n + 1) = (1..n) \cup {n + 1}
  OBVIOUS
<1> QED
  BY <1>1 DEF DefinedIn, ConsumedIn

LEMMA NoneYet == ASSUME NEW s PROVE DefinedIn(s, 0) = {} /\ ConsumedIn(s, 0) = {}
<1>1. 1..0 = {}
  OBVIOUS
<1> QED
  BY <1>1 DEF DefinedIn, ConsumedIn

\* A statement at the end changes nothing about those before it.
LEMMA AtTheEnd ==
  ASSUME NEW s \in Seq(Statement), NEW st \in Statement, NEW n \in 0..Len(s)
  PROVE  /\ DefinedIn(Append(s, st), n) = DefinedIn(s, n)
         /\ ConsumedIn(Append(s, st), n) = ConsumedIn(s, n)
<1>1. \A k \in 1..Len(s) : Append(s, st)[k] = s[k]
  BY AppendProperties
<1>2. \A k \in 1..n : k \in 1..Len(s)
  BY LenProperties
<1> QED
  BY <1>1, <1>2 DEF DefinedIn, ConsumedIn

\* The fields of a statement.
LEMMA Fields ==
  ASSUME NEW st \in Statement
  PROVE  /\ st.type \in {"source", "sink", "merge", "dupe", "fanout", "append", "cut",
                         "tag", "join", "eol"}
         /\ st.type = "source" => st \in SourceStmt
         /\ st.type = "sink" => st \in SinkStmt
         /\ st.type = "merge" => st \in MergeStmt
         /\ st.type = "dupe" => st \in DupeStmt
         /\ st.type = "fanout" => st \in FanoutStmt
         /\ st.type = "append" => st \in AppendStmt
         /\ st.type = "cut" => st \in CutStmt
         /\ st.type = "tag" => st \in TagStmt
         /\ st.type = "join" => st \in JoinStmt
BY DEF Statement, SourceStmt, SinkStmt, MergeStmt, DupeStmt, FanoutStmt, AppendStmt,
       CutStmt, TagStmt, JoinStmt, EolStmt

\* What the parser accepts follows the rules.
LEMMA AcceptedFollows ==
  ASSUME NEW st \in Statement, StatementOK(st), psources \subseteq Ids
  PROVE  /\ Follows(st, psources, pconsumed)
         /\ Defines(st) \subseteq Ids /\ Consumes(st) \subseteq psources
<1>1. st.type = "source" => SourceOK(st)
  BY DEF StatementOK
<1>2. st.type = "sink" => SinkOK(st)
  BY DEF StatementOK
<1>3. st.type = "merge" => MergeOK(st)
  BY DEF StatementOK
<1>4. st.type \in {"dupe", "fanout"} => BranchOK(st)
  BY DEF StatementOK
<1>5. st.type = "append" => AppendOK(st)
  BY DEF StatementOK
<1>6. st.type = "cut" => CutOK(st)
  BY DEF StatementOK
<1>7. st.type \in {"tag", "join"} => WrapOK(st)
  BY DEF StatementOK
<1>8. Follows(st, psources, pconsumed)
  BY <1>1, <1>2, <1>3, <1>4, <1>5, <1>6, <1>7
     DEF Follows, SourceOK, SinkOK, MergeOK, BranchOK, AppendOK, CutOK, WrapOK,
         ConsumedAtSourceB, DefinedAtTargetB
<1>9. Defines(st) \subseteq Ids /\ Consumes(st) \subseteq psources
  BY <1>8, Fields DEF Follows, Defines, Consumes
<1> QED
  BY <1>8, <1>9

LEMMA AcceptStep ==
  ASSUME ParserTypeOK, ParserInv, NEW st \in Statement, NEW names,
         names \subseteq Ids, Accept(st, Defines(st), Consumes(st), names)
  PROVE  ParserTypeOK' /\ ParserInv' /\ parse' = "parsing"
<1> DEFINE n == Len(nodes)
<1>1. /\ nodes \in Seq(Statement) /\ n \in Nat /\ n < MaxStatements
      /\ psources \subseteq Ids /\ pconsumed \subseteq psources /\ psinks \subseteq Ids
      /\ parse = "parsing" /\ parse' = "parsing"
      /\ psources' = psources \cup Defines(st) /\ pconsumed' = pconsumed \cup Consumes(st)
      /\ psinks' = psinks \cup names
      /\ nodes' = Append(nodes, st) /\ StatementOK(st)
  BY LenProperties DEF Accept, ParserTypeOK
<1>2. /\ nodes' \in Seq(Statement) /\ Len(nodes') = n + 1
      /\ \A k \in 1..n : nodes'[k] = nodes[k]
      /\ nodes'[n + 1] = st
  BY <1>1, AppendProperties
<1>3. /\ Follows(st, psources, pconsumed)
      /\ Defines(st) \subseteq Ids /\ Consumes(st) \subseteq psources
  BY <1>1, AcceptedFollows
<1>4. \A m \in 0..n : /\ DefinedIn(nodes', m) = DefinedIn(nodes, m)
                      /\ ConsumedIn(nodes', m) = ConsumedIn(nodes, m)
  BY <1>1, AtTheEnd
<1>5. psources = DefinedIn(nodes, n) /\ pconsumed = ConsumedIn(nodes, n)
  BY <1>1 DEF ParserInv
<1>6. /\ psources' = DefinedIn(nodes', n + 1)
      /\ pconsumed' = ConsumedIn(nodes', n + 1)
  <2>1. n \in 0..n
    BY <1>1
  <2>2. n \in Nat /\ nodes'[n + 1] = st
    BY <1>1, <1>2
  <2>3. /\ DefinedIn(nodes', n + 1) = DefinedIn(nodes', n) \cup Defines(nodes'[n + 1])
        /\ ConsumedIn(nodes', n + 1) = ConsumedIn(nodes', n) \cup Consumes(nodes'[n + 1])
    BY <2>2, OneMore
  <2>4. /\ DefinedIn(nodes', n + 1) = DefinedIn(nodes', n) \cup Defines(st)
        /\ ConsumedIn(nodes', n + 1) = ConsumedIn(nodes', n) \cup Consumes(st)
    BY <2>2, <2>3
  <2> QED
    BY <1>1, <1>4, <1>5, <2>1, <2>4
<1>7. ASSUME NEW m \in 1..(n + 1)
      PROVE  Follows(nodes'[m], DefinedIn(nodes', m - 1), ConsumedIn(nodes', m - 1))
  <2>0. m - 1 \in 0..n
    BY <1>1
  <2>1. CASE m \in 1..n
    <3>1. Follows(nodes[m], DefinedIn(nodes, m - 1), ConsumedIn(nodes, m - 1))
      BY <2>1 DEF ParserInv
    <3> QED
      BY <1>2, <1>4, <2>0, <2>1, <3>1
  <2>2. CASE m = n + 1
    <3>1. m - 1 = n
      BY <1>1, <2>2
    <3> QED
      BY <1>2, <1>3, <1>4, <1>5, <2>0, <2>2, <3>1
  <2> QED
    BY <1>1, <2>1, <2>2
<1>8. ParserTypeOK'
  BY <1>1, <1>2, <1>3 DEF ParserTypeOK
<1>9. ParserInv'
  <2>1. Len(nodes') <= MaxStatements
    BY <1>1, <1>2, MaxStatementsAssumption
  <2> QED
    BY <1>2, <1>6, <1>7, <2>1 DEF ParserInv
<1> QED
  BY <1>1, <1>8, <1>9

\* Each step of the parser keeps its invariant.
LEMMA ParserStep ==
  ASSUME ParserTypeOK, ParserInv, Parse
  PROVE  ParserTypeOK' /\ ParserInv'
<1>1. ASSUME NEW st \in SourceStmt, Accept(st, {st.ID}, {}, {}) PROVE ParserTypeOK' /\ ParserInv'
  <2>1. st \in Statement /\ st.type = "source"
    BY DEF Statement, SourceStmt
  <2>3. Defines(st) = {st.ID} /\ Consumes(st) = {}
    BY <2>1 DEF Defines, Consumes
  <2> QED
    BY <1>1, <2>1, <2>3, AcceptStep
<1>2. ASSUME NEW st \in SinkStmt, Accept(st, {}, {st.Source}, SinkNames(st))
      PROVE  ParserTypeOK' /\ ParserInv'
  <2>1. st \in Statement /\ st.type = "sink"
    BY DEF Statement, SinkStmt
  <2>3. Defines(st) = {} /\ Consumes(st) = {st.Source}
    BY <2>1 DEF Defines, Consumes
  <2>2. SinkNames(st) \subseteq Ids
    BY <1>2, <2>1 DEF SinkNames, Accept, StatementOK, SinkOK
  <2> QED
    BY <1>2, <2>1, <2>2, <2>3, AcceptStep
<1>3. ASSUME NEW st \in MergeStmt, Accept(st, {st.ID}, {st.SourceA, st.SourceB}, {})
      PROVE  ParserTypeOK' /\ ParserInv'
  <2>1. st \in Statement /\ st.type = "merge"
    BY DEF Statement, MergeStmt
  <2>3. Defines(st) = {st.ID} /\ Consumes(st) = {st.SourceA, st.SourceB}
    BY <2>1 DEF Defines, Consumes
  <2> QED
    BY <1>3, <2>1, <2>3, AcceptStep
<1>4. ASSUME NEW st \in DupeStmt \cup FanoutStmt,
             Accept(st, {st.TargetA, st.TargetB}, {st.Source}, {})
      PROVE  ParserTypeOK' /\ ParserInv'
  <2>1. st \in Statement /\ st.type \in {"dupe", "fanout"}
    BY DEF Statement, DupeStmt, FanoutStmt
  <2>3. Defines(st) = {st.TargetA, st.TargetB} /\ Consumes(st) = {st.Source}
    BY <2>1 DEF Defines, Consumes
  <2> QED
    BY <1>4, <2>1, <2>3, AcceptStep
<1>5. ASSUME NEW st \in AppendStmt, Accept(st, {}, {st.Source}, {})
      PROVE  ParserTypeOK' /\ ParserInv'
  <2>1. st \in Statement /\ st.type = "append"
    BY DEF Statement, AppendStmt
  <2>3. Defines(st) = {} /\ Consumes(st) = {st.Source}
    BY <2>1 DEF Defines, Consumes
  <2> QED
    BY <1>5, <2>1, <2>3, AcceptStep
<1>6. ASSUME NEW st \in CutStmt \cup TagStmt \cup JoinStmt \cup EolStmt, Accept(st, {}, {}, {})
      PROVE  ParserTypeOK' /\ ParserInv'
  <2>1. st \in Statement /\ st.type \in {"cut", "tag", "join", "eol"}
    BY DEF Statement, CutStmt, TagStmt, JoinStmt, EolStmt
  <2>3. Defines(st) = {} /\ Consumes(st) = {}
    BY <2>1 DEF Defines, Consumes
  <2> QED
    BY <1>6, <2>1, <2>3, AcceptStep
<1>7. CASE ParseEnd
  BY <1>7 DEF ParseEnd, ParserTypeOK, ParserInv
<1>8. CASE Reject
  BY <1>8, EmptySeq, MaxStatementsAssumption DEF Reject, ParserTypeOK, ParserInv
<1> QED
  BY <1>1, <1>2, <1>3, <1>4, <1>5, <1>6, <1>7, <1>8
     DEF Parse, ParseSource, ParseSink, ParseMerge, ParseDupe, ParseFanout, ParseAppend,
         ParseCut, ParseTag, ParseJoin, ParseEol

-----------------------------------------------------------------------------
(* The checks of the runtime *)

LEMMA FirstOfTwo ==
  ASSUME NEW a, NEW b
  PROVE  FirstError(<<a, b>>) = IF a # "none" THEN a ELSE b
<1> DEFINE e == <<a, b>>
           F(k) == e[k] # "none" /\ \A j \in 1..(k - 1) : e[j] = "none"
<1>1. DOMAIN e = {1, 2} /\ e[1] = a /\ e[2] = b
  OBVIOUS
<1>2. FirstError(e) = IF \A k \in DOMAIN e : e[k] = "none" THEN "none"
                      ELSE e[CHOOSE k \in DOMAIN e : F(k)]
  BY DEF FirstError
<1> HIDE DEF e
<1>3. ASSUME a # "none" PROVE FirstError(e) = a
  <2>1. F(1) /\ ~F(2)
    BY <1>1, <1>3
  <2>2. (CHOOSE k \in DOMAIN e : F(k)) = 1
    BY <1>1, <2>1
  <2> QED
    BY <1>1, <1>2, <1>3, <2>2
<1>4. ASSUME a = "none" /\ b # "none" PROVE FirstError(e) = b
  <2>1. F(2) /\ ~F(1)
    BY <1>1, <1>4
  <2>2. (CHOOSE k \in DOMAIN e : F(k)) = 2
    BY <1>1, <2>1
  <2> QED
    BY <1>1, <1>2, <1>4, <2>2
<1>5. ASSUME a = "none" /\ b = "none" PROVE FirstError(e) = "none"
  BY <1>1, <1>2, <1>5
<1> QED
  BY <1>3, <1>4, <1>5 DEF e

\* Three identifiers that are as they should be.
LEMMA NoneOfThree == FirstError(<<"none", "none", "none">>) = "none"
BY DEF FirstError

\* The checks of one identifier.
LEMMA IdErrors ==
  ASSUME DOMAIN sourceIDs \subseteq Ids
  PROVE  /\ \A id \in Ids \ DOMAIN sourceIDs : /\ NewIDError(id) = "none"
                                               /\ ExistingIDError(id) = "undefined"
         /\ \A id \in DOMAIN sourceIDs \ Gone : ExistingIDError(id) = "none"
         /\ \A id \in Gone : ExistingIDError(id) = "consumed"
<1>1. \A id \in Ids : id # NoId
  BY IdsAssumption
<1>2. \A id \in DOMAIN sourceIDs : /\ id \in Gone <=> consumed[sourceIDs[id]]
                                   /\ id \in Ids
  BY DEF Gone
<1>3. Gone \subseteq DOMAIN sourceIDs
  BY DEF Gone
<1> QED
  BY <1>1, <1>2, <1>3 DEF NewIDError, ExistingIDError, Defined

\* The runtime finds in a statement the error that it has, and no other.
LEMMA StatementErrors ==
  ASSUME DOMAIN sourceIDs \subseteq Ids, NEW st \in Statement, 
         Follows(st, DOMAIN sourceIDs, Gone)
  PROVE  LET e == StaticError(st, DOMAIN sourceIDs, Gone)
         IN  /\ st.type = "source" => SourceError(st) = e
             /\ st.type = "sink" => SinkError(st) = e /\ ExistingIDError(st.Source) = "none"
             /\ st.type = "merge" => MergeError(st) = e
             /\ st.type \in {"dupe", "fanout"} => BranchError(st) = e
             /\ st.type = "append" => AppendError(st) = e
             /\ st.type \in {"cut", "tag", "join"} => ExistingIDError(st.Source) = e
<1> DEFINE D == DOMAIN sourceIDs
           e == StaticError(st, D, Gone)
<1>0. Gone \subseteq D
  BY DEF Gone
<1>1. ASSUME st.type = "source" PROVE SourceError(st) = e
  <2>1. NewIDError(st.ID) = "none"
    BY <1>1, IdErrors DEF Follows
  <2>2. e = ClassError(st, "unknown source")
    BY <1>1 DEF StaticError
  <2> QED
    BY <2>1, <2>2, FirstOfTwo DEF SourceError
<1>2. ASSUME st.type = "sink" PROVE SinkError(st) = e /\ ExistingIDError(st.Source) = "none"
  <2>1. ExistingIDError(st.Source) = "none"
    BY <1>2, IdErrors DEF Follows
  <2>2. e = ClassError(st, "unknown sink")
    BY <1>2 DEF StaticError
  <2> QED
    BY <2>1, <2>2, FirstOfTwo DEF SinkError
<1>3. ASSUME st.type = "merge" PROVE MergeError(st) = e
  <2>1. /\ ExistingIDError(st.SourceA) = "none" /\ ExistingIDError(st.SourceB) = "none"
        /\ NewIDError(st.ID) = "none"
    BY <1>3, IdErrors DEF Follows
  <2>2. e = "none"
    BY <1>3 DEF StaticError
  <2> QED
    BY <2>1, <2>2, NoneOfThree DEF MergeError
<1>4. ASSUME st.type \in {"dupe", "fanout"} PROVE BranchError(st) = e
  <2>1. /\ ExistingIDError(st.Source) = "none" /\ NewIDError(st.TargetA) = "none"
        /\ NewIDError(st.TargetB) = "none"
    BY <1>4, IdErrors DEF Follows
  <2>2. e = "none"
    BY <1>4 DEF StaticError
  <2> QED
    BY <2>1, <2>2, NoneOfThree DEF BranchError
<1>5. ASSUME st.type = "append" PROVE AppendError(st) = e
  <2>1. ExistingIDError(st.Source) = "none"
    BY <1>5, IdErrors DEF Follows
  <2>2. ExistingIDError(st.Target) = IF st.Target \in Gone THEN "consumed" ELSE "none"
    BY <1>5, IdErrors DEF Follows
  <2>3. e = IF st.Target \in Gone THEN "consumed" ELSE "none"
    BY <1>5 DEF StaticError
  <2> QED
    BY <2>1, <2>2, <2>3, FirstOfTwo DEF AppendError
<1>6. ASSUME st.type = "cut" PROVE ExistingIDError(st.Source) = e
  <2>1. ExistingIDError(st.Source) = IF st.Source \in D THEN "none" ELSE "undefined"
    BY <1>6, IdErrors DEF Follows
  <2>2. e = IF st.Source \in D THEN "none" ELSE "undefined"
    BY <1>6 DEF StaticError
  <2> QED
    BY <2>1, <2>2
<1>7. ASSUME st.type \in {"tag", "join"} PROVE ExistingIDError(st.Source) = e
  <2>1. ExistingIDError(st.Source) = "none"
    BY <1>7, IdErrors DEF Follows
  <2>2. e = "none"
    BY <1>7 DEF StaticError
  <2> QED
    BY <2>1, <2>2
<1> QED
  BY <1>1, <1>2, <1>3, <1>4, <1>5, <1>6, <1>7

\* Where Execute is.
LEMMA AtStatement ==
  ASSUME IndInv, NEW T, Executing(T)
  PROVE  /\ asts = nodes /\ at \in 1..Len(nodes) /\ Len(nodes) \in Nat /\ at \in Nat
         /\ Stmt = nodes[at] /\ Stmt \in Statement /\ Stmt.type \in T
         /\ phase \in {"vetting", "executing"} /\ parse = "ok"
         /\ dryRun = (phase = "vetting") /\ err = "none" /\ ~InSink
         /\ Follows(Stmt, DOMAIN sourceIDs, Gone)
         /\ StaticAt(at) = StaticError(Stmt, DOMAIN sourceIDs, Gone)
         /\ NoErrorTo(at - 1)
         /\ DOMAIN sourceIDs = DefinedIn(nodes, at - 1) /\ Gone = ConsumedIn(nodes, at - 1)
         /\ DOMAIN sourceIDs \subseteq Ids
<1>1. /\ at \in 1..Len(asts) /\ ~InSink /\ Stmt.type \in T
  BY DEF Executing
<1>2. /\ asts \in Seq(Statement) /\ nodes \in Seq(Statement) /\ DOMAIN sourceIDs \subseteq Ids
      /\ at \in 0..(Len(asts) + 1)
  BY DEF IndInv, TypeOK, ParserTypeOK, RuntimeTypeOK
<1>3. Len(asts) \in Nat /\ Len(nodes) \in Nat
  BY <1>2, LenProperties
<1>4. at > 0 /\ at \in Nat
  BY <1>1, <1>3
<1>5. phase \in {"vetting", "executing"} /\ dryRun = (phase = "vetting") /\ err = "none"
  BY <1>4 DEF IndInv, PhaseInv
<1>6. parse = "ok" /\ asts = nodes
  BY <1>5 DEF IndInv, PhaseInv
<1>7. Done = at - 1
  BY <1>1 DEF Done
<1>8. /\ DOMAIN sourceIDs = DefinedIn(nodes, at - 1) /\ Gone = ConsumedIn(nodes, at - 1)
      /\ NoErrorTo(at - 1)
  BY <1>4, <1>7 DEF IndInv, NamesInv
<1>9. Stmt = nodes[at] /\ Stmt \in Statement
  BY <1>1, <1>2, <1>6, ElementOfSeq DEF Stmt
<1>10. Follows(Stmt, DOMAIN sourceIDs, Gone)
  BY <1>1, <1>6, <1>8, <1>9 DEF IndInv, ParserInv
<1>11. StaticAt(at) = StaticError(Stmt, DOMAIN sourceIDs, Gone)
  BY <1>8, <1>9 DEF StaticAt
<1> QED
  BY <1>1, <1>2, <1>3, <1>4, <1>5, <1>6, <1>8, <1>9, <1>10, <1>11

-----------------------------------------------------------------------------
(* The place in the script, when a statement has been executed *)

\* The rules depend on the statements alone.
LEMMA NodesKept ==
  ASSUME UNCHANGED parserVars
  PROVE  /\ \A n : StaticAt(n)' = StaticAt(n)
         /\ \A n : NoErrorTo(n)' = NoErrorTo(n)
         /\ ParserTypeOK => ParserTypeOK'
         /\ ParserInv => ParserInv'
<1>1. UNCHANGED <<nodes, psources, pconsumed, psinks, parse>>
  BY DEF parserVars
<1>2. \A n : StaticAt(n)' = StaticAt(n)
  BY <1>1 DEF StaticAt, StaticError, ClassError, DefinedIn, ConsumedIn
<1>3. \A n : NoErrorTo(n)' = NoErrorTo(n)
  BY <1>1, <1>2 DEF NoErrorTo
<1>4. ParserTypeOK => ParserTypeOK'
  BY <1>1 DEF ParserTypeOK
<1>5. ParserInv => ParserInv'
  BY <1>1 DEF ParserInv
<1> QED
  BY <1>2, <1>3, <1>4, <1>5

\* The statement has been executed, and Execute goes on to the next.
LEMMA StatementDone ==
  ASSUME IndInv, NEW T, Executing(T), StaticAt(at) = "none", Advance,
         UNCHANGED <<parserVars, scriptVars>>,
         DOMAIN sourceIDs' = DOMAIN sourceIDs \cup Defines(Stmt),
         Gone' = Gone \cup Consumes(Stmt),
         \A k \in DOMAIN tasks' : tasks'[k].status = "starting" => tasks'[k].async,
         \A k \in DOMAIN tasks' : tasks'[k].async \/ tasks'[k].status # "reading",
         dryRun => tasks' = tasks
  PROVE  PhaseInv' /\ SyncInv' /\ NamesInv' /\ OutcomeInv'
<1>1. /\ asts = nodes /\ at \in 1..Len(nodes) /\ Len(nodes) \in Nat /\ at \in Nat
      /\ Stmt = nodes[at] /\ phase \in {"vetting", "executing"} /\ parse = "ok"
      /\ dryRun = (phase = "vetting") /\ err = "none" /\ ~InSink
      /\ NoErrorTo(at - 1)
      /\ DOMAIN sourceIDs = DefinedIn(nodes, at - 1) /\ Gone = ConsumedIn(nodes, at - 1)
  BY AtStatement
<1>2. /\ at' = at + 1 /\ UNCHANGED <<asts, dryRun, err, errAt, state>>
      /\ UNCHANGED <<nodes, parse, phase, vetErr, vetAt>>
  BY DEF Advance, parserVars, scriptVars
<1>3. ~InSink'
  BY DEF InSink
<1>4. Done' = at /\ at' > 0
  BY <1>1, <1>2, <1>3 DEF Done
<1>5. PhaseInv'
  <2>1. at > 0
    BY <1>1
  <2>2. state = "started" /\ (phase = "vetting" => tasks = <<>>)
    BY <2>1 DEF IndInv, PhaseInv
  <2>3. (phase = "vetting" => tasks' = <<>>) /\ state' = "started"
    BY <1>1, <1>2, <2>2
  <2> QED
    BY <1>1, <1>2, <1>4, <2>3 DEF PhaseInv
<1>6. SyncInv'
  BY <1>2 DEF SyncInv
<1>7. NamesInv'
  <2>1. /\ DOMAIN sourceIDs' = DefinedIn(nodes, at) /\ Gone' = ConsumedIn(nodes, at)
    <3>1. at - 1 \in Nat /\ at - 1 + 1 = at
      BY <1>1
    <3>2. /\ DefinedIn(nodes, at - 1 + 1) = DefinedIn(nodes, at - 1) \cup Defines(nodes[at - 1 + 1])
          /\ ConsumedIn(nodes, at - 1 + 1) = ConsumedIn(nodes, at - 1) \cup Consumes(nodes[at - 1 + 1])
      BY <3>1, OneMore
    <3> QED
      BY <1>1, <3>1, <3>2
  <2>2. NoErrorTo(at)
    <3>1. \A m \in 1..at : m \in 1..(at - 1) \/ m = at
      BY <1>1
    <3> QED
      BY <1>1, <3>1 DEF NoErrorTo
  <2> QED
    BY <1>2, <1>4, <2>1, <2>2, NodesKept DEF NamesInv
<1>8. OutcomeInv'
  <2>1. at # 0 /\ at' # 0
    BY <1>1, <1>4
  <2>2. phase = "executing" => Outcome(vetErr, vetAt)
    BY DEF IndInv, OutcomeInv
  <2>3. Outcome(vetErr, vetAt)' = Outcome(vetErr, vetAt)
    BY <1>2, NodesKept DEF Outcome
  <2> QED
    BY <1>1, <1>2, <2>1, <2>2, <2>3 DEF OutcomeInv
<1> QED
  BY <1>5, <1>6, <1>7, <1>8

\* Execute has returned an error: that of the statement, or one of its source
\* or its sink.
LEMMA StatementFailed ==
  ASSUME IndInv, at \in 1..Len(nodes), NoErrorTo(at - 1), UNCHANGED <<parserVars, scriptVars>>,
         NEW e, ReturnError(e),
         \/ e = StaticAt(at)
         \/ StaticAt(at) = "none" /\ e \in Dynamic /\ phase = "executing",
         \A k \in DOMAIN tasks' : tasks'[k].status = "starting" => tasks'[k].async,
         \A k \in DOMAIN tasks' : tasks'[k].async \/ tasks'[k].status # "reading",
         phase = "vetting" => tasks' = tasks
  PROVE  PhaseInv' /\ SyncInv' /\ NamesInv' /\ OutcomeInv' /\ NothingLost'
<1>1. /\ e # "none" /\ err' = e /\ errAt' = at /\ at' = 0 /\ UNCHANGED <<state, asts>>
      /\ UNCHANGED <<nodes, parse, phase, vetErr, vetAt>>
  BY DEF ReturnError, parserVars, scriptVars
<1>2. at \in Nat /\ Len(nodes) \in Nat /\ at > 0
  <2>1. nodes \in Seq(Statement)
    BY DEF IndInv, TypeOK, ParserTypeOK
  <2> QED
    BY <2>1, LenProperties
<1>3. phase \in {"vetting", "executing"} /\ parse = "ok" /\ asts = nodes
  BY <1>2 DEF IndInv, PhaseInv
<1>4. PhaseInv'
  BY <1>1, <1>3 DEF IndInv, PhaseInv
<1>5. SyncInv'
  BY DEF SyncInv
<1>6. NamesInv'
  BY <1>1 DEF NamesInv
<1>7. NothingLost'
  BY <1>1 DEF NothingLost
<1>8. OutcomeInv'
  <2>1. phase = "executing" => Outcome(vetErr, vetAt)
    BY DEF IndInv, OutcomeInv
  <2>2. Outcome(vetErr, vetAt)' = Outcome(vetErr, vetAt)
    BY <1>1, NodesKept DEF Outcome
  <2>3. CASE e = StaticAt(at)
    <3>1. Outcome(err, errAt)'
      BY <1>1, <1>2, <2>3, NodesKept DEF Outcome
    <3> QED
      BY <1>1, <1>3, <2>1, <2>2, <3>1 DEF OutcomeInv
  <2>4. CASE StaticAt(at) = "none" /\ e \in Dynamic /\ phase = "executing"
    <3>1. NoErrorTo(at)
      <4>1. \A m \in 1..at : m \in 1..(at - 1) \/ m = at
        BY <1>2
      <4> QED
        BY <2>4, <4>1 DEF NoErrorTo
    <3>2. Failure(err, errAt)'
      BY <1>1, <1>2, <2>4, <3>1, NodesKept DEF Failure, Dynamic
    <3> QED
      BY <1>1, <1>3, <2>1, <2>2, <2>4, <3>2 DEF OutcomeInv
  <2> QED
    BY <2>3, <2>4
<1> QED
  BY <1>4, <1>5, <1>6, <1>7, <1>8

-----------------------------------------------------------------------------
(* The steps of the runtime *)

\* What depends on the tables and the sinks stays if they do.
LEMMA TablesKept ==
  ASSUME IndInv, UNCHANGED <<sourceIDs, sources, consumed, readers, tasks>>
  PROVE  /\ SlotInv' /\ HolderInv' /\ WaitingInv' /\ SingleReader' /\ LateReadStable'
         /\ Live' = Live /\ Gone' = Gone /\ InSink' = InSink
         /\ \A i : Owned(i)' = Owned(i)
<1>1. Live' = Live /\ Gone' = Gone /\ InSink' = InSink
  BY DEF Live, Gone, InSink
<1>2. \A id : SourceOf(id)' = SourceOf(id) /\ Holds(id)' = Holds(id)
  BY <1>1 DEF SourceOf, Holds, Waiting
<1>3. HolderInv' /\ SlotInv'
  BY <1>2 DEF IndInv, HolderInv, SlotInv
<1>4. WaitingInv'
  BY <1>1, <1>2 DEF IndInv, WaitingInv, Waiting
<1>5. SingleReader' /\ LateReadStable'
  BY DEF IndInv, SingleReader, LateReadStable
<1>6. \A i : Owned(i)' = Owned(i)
  BY DEF Owned, SourceOf
<1> QED
  BY <1>1, <1>3, <1>4, <1>5, <1>6

\* The sinks that there are.
LEMMA TaskFacts ==
  ASSUME IndInv
  PROVE  /\ tasks \in Seq(Task) /\ Len(tasks) \in Nat /\ DOMAIN tasks = 1..Len(tasks)
         /\ \A k \in DOMAIN tasks : tasks[k] \in Task
         /\ \A k \in DOMAIN tasks : tasks[k].status = "starting" => tasks[k].async
         /\ ~InSink => \A k \in DOMAIN tasks : tasks[k].async \/ tasks[k].status # "reading"
<1>1. tasks \in Seq(Task)
  BY DEF IndInv, TypeOK, RuntimeTypeOK
<1>2. Len(tasks) \in Nat /\ DOMAIN tasks = 1..Len(tasks)
  BY <1>1, LenProperties
<1>3. \A k \in DOMAIN tasks : tasks[k] \in Task
  BY <1>1, <1>2, ElementOfSeq
<1> QED
  BY <1>1, <1>2, <1>3 DEF IndInv, SyncInv, InSink

\* The errors of a statement.
LEMMA StaticErrors == ASSUME NEW n PROVE StaticAt(n) \in Errors
BY DEF StaticAt, StaticError, ClassError, Errors

\* Execute returns an error of the statement, or of its source, and leaves the
\* identifiers as they are.
LEMMA FailStep ==
  ASSUME IndInv, NEW T, Executing(T), UNCHANGED <<parserVars, scriptVars>>,
         NEW e, Fail(e),
         e = StaticAt(at) \/ (StaticAt(at) = "none" /\ e \in Dynamic /\ ~dryRun)
  PROVE  IndInv'
<1>1. /\ ReturnError(e) /\ UNCHANGED <<sourceIDs, sources, consumed, readers, tasks>>
      /\ UNCHANGED <<phase, vetErr, vetAt>>
  BY DEF Fail, Unchanged, scriptVars
<1>2. /\ asts = nodes /\ at \in 1..Len(nodes) /\ Len(nodes) \in Nat /\ at \in Nat
      /\ phase \in {"vetting", "executing"} /\ dryRun = (phase = "vetting")
      /\ NoErrorTo(at - 1) /\ ~InSink
  BY AtStatement
<1>3. /\ \A k \in DOMAIN tasks' : tasks'[k].status = "starting" => tasks'[k].async
      /\ \A k \in DOMAIN tasks' : tasks'[k].async \/ tasks'[k].status # "reading"
  BY <1>1, <1>2, TaskFacts
<1>4. ~dryRun => phase = "executing"
  BY <1>2
<1>5. PhaseInv' /\ SyncInv' /\ NamesInv' /\ OutcomeInv' /\ NothingLost'
  BY <1>1, <1>2, <1>3, <1>4, StatementFailed
<1>6. /\ SlotInv' /\ HolderInv' /\ WaitingInv' /\ SingleReader' /\ LateReadStable'
  BY <1>1, TablesKept
<1>7. TypeOK'
  <2>1. e \in Errors
    BY StaticErrors DEF Dynamic, Errors
  <2>2. RuntimeTypeOK /\ ParserTypeOK /\ vetErr \in Errors /\ vetAt \in 0..MaxStatements
    BY DEF IndInv, TypeOK
  <2>3. RuntimeTypeOK'
    <3>1. err' = e /\ errAt' = at /\ at' = 0 /\ dryRun' = FALSE /\ state' = state /\ asts' = asts
      BY <1>1 DEF ReturnError
    <3>2. errAt' \in 0..Len(asts') /\ at' \in 0..(Len(asts') + 1)
      BY <1>2, <3>1
    <3> QED
      BY <1>1, <2>1, <2>2, <3>1, <3>2 DEF RuntimeTypeOK
  <2>4. ParserTypeOK'
    BY <2>2, NodesKept
  <2> QED
    BY <1>1, <1>2, <2>2, <2>3, <2>4 DEF TypeOK
<1>8. ParserInv'
  BY NodesKept DEF IndInv
<1> QED
  BY <1>5, <1>6, <1>7, <1>8 DEF IndInv

\* A statement gives readers to the iterators in U, which identifiers
\* not yet consumed stood for, and gives names to those that it makes.
LEMMA DoneStep ==
  ASSUME IndInv, NEW T, Executing(T), StaticAt(at) = "none", Advance,
         UNCHANGED <<parserVars, scriptVars>>, tasks' = tasks,
         TablesTyped', readers' \in Seq(Nat),
         DOMAIN sourceIDs' = DOMAIN sourceIDs \cup Defines(Stmt),
         Gone' = Gone \cup Consumes(Stmt),
         NEW U,
         Len(readers) <= Len(readers'),
         \A i \in 1..Len(readers) : readers'[i] = IF i \in U THEN readers[i] + 1 ELSE readers[i],
         \A i \in (Len(readers) + 1)..Len(readers') : readers'[i] = 0,
         \A i \in U \ {0} : \E id \in Live : SourceOf(id) = i,
         \A id \in Gone : SourceOf(id)' = SourceOf(id),
         \A id \in Live' : SourceOf(id)' # 0 =>
           \/ id \in Live /\ SourceOf(id)' = SourceOf(id) /\ SourceOf(id) \notin U
           \/ /\ SourceOf(id)' > Len(readers)
              /\ \A jd \in Live' : SourceOf(jd)' = SourceOf(id)' => jd = id,
         ~dryRun /\ ~SelfAppend =>
           /\ \A id \in Live : SourceOf(id) \in U \/ (id \in Live' /\ SourceOf(id)' = SourceOf(id))
           /\ \A i \in (Len(readers) + 1)..Len(readers') : \E id \in Live' : SourceOf(id)' = i
  PROVE  IndInv'
<1>1. /\ asts = nodes /\ at \in 1..Len(nodes) /\ Len(nodes) \in Nat /\ at \in Nat
      /\ phase \in {"vetting", "executing"} /\ dryRun = (phase = "vetting")
      /\ ~InSink /\ err = "none"
  BY AtStatement
<1>2. /\ at' = at + 1 /\ UNCHANGED <<asts, dryRun, err, errAt, state>>
      /\ UNCHANGED <<phase, vetErr, vetAt, nodes>>
  BY DEF Advance, parserVars, scriptVars
<1>3. /\ \A k \in DOMAIN tasks' : tasks'[k].status = "starting" => tasks'[k].async
      /\ \A k \in DOMAIN tasks' : tasks'[k].async \/ tasks'[k].status # "reading"
  BY <1>1, TaskFacts
<1>4. PhaseInv' /\ SyncInv' /\ NamesInv' /\ OutcomeInv'
  BY <1>3, StatementDone
<1>5. RuntimeTypeOK /\ ParserTypeOK /\ vetErr \in Errors /\ vetAt \in 0..MaxStatements
      /\ HolderInv /\ WaitingInv /\ SingleReader
  BY DEF IndInv, TypeOK
<1>6. RuntimeTypeOK'
  <2>1. at' \in 0..(Len(asts') + 1)
    BY <1>1, <1>2
  <2>2. /\ state \in {"created", "started", "stopping", "done"} /\ dryRun \in BOOLEAN
        /\ asts \in Seq(Statement) /\ err \in Errors /\ errAt \in 0..Len(asts)
        /\ tasks \in Seq(Task)
    BY <1>5 DEF RuntimeTypeOK
  <2> QED
    BY <1>2, <2>1, <2>2 DEF RuntimeTypeOK, TablesTyped
<1>7. TypeOK' /\ ParserInv'
  <2>1. ParserTypeOK' /\ ParserInv'
    BY <1>5, NodesKept DEF IndInv
  <2> QED
    BY <1>1, <1>2, <1>5, <1>6, <2>1 DEF TypeOK
<1>8. /\ Live \subseteq DOMAIN sourceIDs /\ Gone \subseteq DOMAIN sourceIDs
      /\ Live' \subseteq DOMAIN sourceIDs' /\ Live \cap Gone = {}
      /\ \A id \in DOMAIN sourceIDs : SourceOf(id) \in 0..Len(readers)
      /\ Len(readers) \in Nat
  BY <1>5, Tables DEF Live, Gone
<1>9. \A id \in Live : Holds(id)
  BY DEF Holds
<1>10. ASSUME NEW id, Holds(id)', id \notin Live'
       PROVE  id \in Gone /\ Holds(id) /\ SourceOf(id)' = SourceOf(id)
  <2>1. PICK k \in DOMAIN tasks : Waiting(k) /\ tasks[k].id = id
    BY <1>10 DEF Holds, Waiting
  <2>2. id \in Gone
    BY <1>5, <2>1 DEF WaitingInv
  <2> QED
    BY <2>1, <2>2 DEF Holds
<1>11. \A i \in U \ {0} : \E id \in DOMAIN sourceIDs : Holds(id) /\ SourceOf(id) = i
  BY <1>8, <1>9
<1>12. ASSUME NEW id \in Gone, Holds(id), SourceOf(id) # 0
       PROVE  SourceOf(id) \notin U
  <2> SUFFICES ASSUME SourceOf(id) \in U PROVE FALSE
    OBVIOUS
  <2>1. PICK jd \in Live : SourceOf(jd) = SourceOf(id)
    BY <1>12
  <2>2. jd = id
    BY <1>5, <1>8, <1>9, <1>12, <2>1 DEF HolderInv
  <2> QED
    BY <1>8, <2>1, <2>2
<1>13. ASSUME NEW id \in DOMAIN sourceIDs', Holds(id)', SourceOf(id)' # 0
       PROVE  \/ /\ id \in DOMAIN sourceIDs /\ Holds(id)
                 /\ SourceOf(id)' = SourceOf(id) /\ SourceOf(id) \notin U
              \/ /\ SourceOf(id)' > Len(readers)
                 /\ \A jd \in DOMAIN sourceIDs' :
                      Holds(jd)' /\ SourceOf(jd)' = SourceOf(id)' => jd = id
  <2>1. CASE id \notin Live'
    BY <1>8, <1>10, <1>12, <1>13, <2>1
  <2>2. CASE /\ id \in Live'
             /\ id \in Live /\ SourceOf(id)' = SourceOf(id) /\ SourceOf(id) \notin U
    BY <1>8, <1>9, <2>2
  <2>3. CASE /\ id \in Live' /\ SourceOf(id)' > Len(readers)
             /\ \A jd \in Live' : SourceOf(jd)' = SourceOf(id)' => jd = id
    <3>1. ASSUME NEW jd \in DOMAIN sourceIDs', Holds(jd)', SourceOf(jd)' = SourceOf(id)'
          PROVE  jd = id
      <4>1. CASE jd \in Live'
        BY <2>3, <3>1, <4>1
      <4>2. CASE jd \notin Live'
        <5>1. SourceOf(jd)' = SourceOf(jd) /\ jd \in DOMAIN sourceIDs
          BY <1>8, <1>10, <3>1, <4>2
        <5>2. SourceOf(jd) \in 0..Len(readers)
          BY <1>8, <5>1
        <5> QED
          BY <1>8, <2>3, <3>1, <5>1, <5>2
      <4> QED
        BY <4>1, <4>2
    <3> QED
      BY <2>3, <3>1
  <2> QED
    BY <1>13, <2>1, <2>2, <2>3
<1>14. HolderInv' /\ SingleReader' /\ SlotInv'
  BY <1>5, <1>6, <1>11, <1>13, HolderStep DEF TablesTyped
<1>15. WaitingInv'
  BY <1>5, WaitingStep
<1>16. LateReadStable'
  BY DEF IndInv, LateReadStable
<1>17. NothingLost'
  <2> SUFFICES ASSUME phase = "executing", ~SelfAppend
               PROVE  \A i \in DOMAIN readers' : Owned(i)'
    BY <1>2 DEF NothingLost, SelfAppend
  <2>1. ~dryRun /\ \A i \in DOMAIN readers : Owned(i)
    BY <1>1 DEF IndInv, NothingLost
  <2>2. \A k \in DOMAIN tasks : tasks[k].status = "starting" =>
           \/ tasks[k].named \in U
           \/ /\ k \in DOMAIN tasks' /\ tasks'[k].status = "starting"
              /\ tasks'[k].named = tasks[k].named
    OBVIOUS
  <2> QED
    BY <1>5, <1>6, <2>1, <2>2, LostStep
<1> QED
  BY <1>4, <1>7, <1>14, <1>15, <1>16, <1>17 DEF IndInv

\* A statement that consumes the identifiers in gone and defines those of ids:
\* in a dry run with nil iterators, otherwise with new ones, which read what the
\* consumed ones stood for.
LEMMA AddStep ==
  ASSUME IndInv, NEW T, Executing(T), StaticAt(at) = "none", Advance,
         UNCHANGED <<parserVars, scriptVars>>, tasks' = tasks,
         NEW n \in Nat, NEW ids, NEW iters, NEW used,
         ids \in [1..n -> Ids \ DOMAIN sourceIDs],
         \A j, k \in 1..n : ids[j] = ids[k] => j = k,
         Range(ids) = Defines(Stmt), Consumes(Stmt) \subseteq Live,
         AddSources(ids, iters, Consumes(Stmt)),
         used \in Seq(Nat), Range(used) = {SourceOf(id) : id \in Consumes(Stmt)},
         \A j, k \in DOMAIN used : used[j] = used[k] /\ used[j] # 0 => j = k,
         \/ dryRun /\ readers' = readers /\ iters = [k \in 1..n |-> 0]
         \/ ~dryRun /\ Attach(used, n) /\ iters = Created(n)
  PROVE  IndInv'
<1> DEFINE gone == Consumes(Stmt)
           U == IF dryRun THEN {} ELSE Range(used)
<1>1. /\ RuntimeTypeOK /\ SlotInv /\ HolderInv
      /\ Len(readers) \in Nat /\ readers \in Seq(Nat)
      /\ \A id \in DOMAIN sourceIDs : SourceOf(id) \in 0..Len(readers)
      /\ Live \subseteq DOMAIN sourceIDs /\ Gone \subseteq DOMAIN sourceIDs
      /\ gone \subseteq DOMAIN sourceIDs
  BY Tables DEF IndInv, TypeOK, RuntimeTypeOK, Live, Gone
<1>2. /\ readers' \in Seq(Nat) /\ Len(readers') \in Nat /\ Len(readers) <= Len(readers')
      /\ \A i \in 1..Len(readers) : readers'[i] = IF i \in U THEN readers[i] + 1 ELSE readers[i]
      /\ \A i \in (Len(readers) + 1)..Len(readers') : readers'[i] = 0
      /\ ~dryRun => Len(readers') = Len(readers) + n
  <2>1. CASE dryRun
    BY <1>1, <2>1
  <2>2. CASE ~dryRun
    <3>1. /\ readers' \in Seq(Nat) /\ Len(readers') = Len(readers) + n
          /\ \A i \in 1..Len(readers) :
               readers'[i] = IF i \in Range(used) THEN readers[i] + 1 ELSE readers[i]
          /\ \A i \in (Len(readers) + 1)..(Len(readers) + n) : readers'[i] = 0
      BY <1>1, <2>2, AttachEffect
    <3> QED
      BY <1>1, <2>2, <3>1
  <2> QED
    BY <2>1, <2>2
<1>3. /\ iters \in Seq(0..Len(readers')) /\ Len(iters) = n
      /\ \A k \in 1..n : iters[k] = IF dryRun THEN 0 ELSE Len(readers) + k
  <2>1. CASE dryRun
    BY <1>2, <2>1
  <2>2. CASE ~dryRun
    <3>1. iters = [k \in 1..n |-> Len(readers) + k]
      BY <2>2 DEF Created
    <3>2. \A k \in 1..n : Len(readers) + k \in 0..Len(readers')
      BY <1>1, <1>2, <2>2
    <3> QED
      BY <2>2, <3>1, <3>2
  <2> QED
    BY <2>1, <2>2
<1> HIDE DEF gone
<1>4. /\ DOMAIN sourceIDs' = DOMAIN sourceIDs \cup Range(ids)
      /\ Live' = (Live \ gone) \cup Range(ids)
      /\ Gone' = Gone \cup gone
      /\ \A id \in DOMAIN sourceIDs : SourceOf(id)' = SourceOf(id)
      /\ \A k \in 1..n : SourceOf(ids[k])' = iters[k]
      /\ TablesTyped'
  <2>1. AddSources(ids, iters, gone)
    BY DEF gone
  <2>2. /\ RuntimeTypeOK /\ SlotInv /\ Len(readers) <= Len(readers') /\ Len(readers') \in Nat
        /\ iters \in Seq(0..Len(readers')) /\ Len(iters) = n /\ gone \subseteq DOMAIN sourceIDs
    BY <1>1, <1>2, <1>3
  <2>3. Added(ids, iters, gone)
    BY <2>1, <2>2, AddEffect, Zenon
  <2> QED
    BY <2>3 DEF Added
<1>6. \A i \in U \ {0} : \E id \in Live : SourceOf(id) = i
  OBVIOUS
<1>7. \A id \in Live : Holds(id)
  BY DEF Holds
<1>8. \A id \in Range(ids) : \E k \in 1..n : id = ids[k]
  BY DEF Range
<1>9. ASSUME NEW id \in Live', SourceOf(id)' # 0
      PROVE  \/ id \in Live /\ SourceOf(id)' = SourceOf(id) /\ SourceOf(id) \notin U
             \/ /\ SourceOf(id)' > Len(readers)
                /\ \A jd \in Live' : SourceOf(jd)' = SourceOf(id)' => jd = id
  <2>1. CASE id \in Live \ gone
    <3>1. SourceOf(id)' = SourceOf(id) /\ SourceOf(id) # 0
      BY <1>1, <1>4, <1>9, <2>1
    <3>2. SourceOf(id) \notin U
      <4> SUFFICES ASSUME SourceOf(id) \in U PROVE FALSE
        OBVIOUS
      <4>1. PICK jd \in gone : SourceOf(jd) = SourceOf(id)
        BY DEF gone
      <4>2. jd \in Live /\ jd = id
        BY <1>1, <1>7, <2>1, <3>1, <4>1 DEF HolderInv, gone
      <4> QED
        BY <2>1, <4>1, <4>2
    <3> QED
      BY <2>1, <3>1, <3>2
  <2>2. CASE id \in Range(ids)
    <3>1. PICK k \in 1..n : id = ids[k]
      BY <1>8, <2>2
    <3>2. ~dryRun /\ SourceOf(id)' = Len(readers) + k
      BY <1>3, <1>4, <1>9, <3>1
    <3>3. ASSUME NEW jd \in Live', SourceOf(jd)' = SourceOf(id)' PROVE jd = id
      <4>1. CASE jd \in Live \ gone
        <5>1. SourceOf(jd)' \in 0..Len(readers)
          BY <1>1, <1>4, <4>1
        <5> QED
          BY <1>1, <3>2, <3>3, <5>1
      <4>2. CASE jd \in Range(ids)
        <5>1. PICK j \in 1..n : jd = ids[j]
          BY <1>8, <4>2
        <5>2. SourceOf(jd)' = Len(readers) + j
          BY <1>3, <1>4, <3>2, <5>1
        <5>3. j = k
          BY <1>1, <3>2, <3>3, <5>2
        <5> QED
          BY <3>1, <5>1, <5>3
      <4> QED
        BY <1>4, <4>1, <4>2
    <3> QED
      BY <1>1, <3>2, <3>3
  <2> QED
    BY <1>4, <2>1, <2>2
<1>10. ASSUME ~dryRun
       PROVE  /\ \A id \in Live : SourceOf(id) \in U \/ (id \in Live' /\ SourceOf(id)' = SourceOf(id))
              /\ \A i \in (Len(readers) + 1)..Len(readers') : \E id \in Live' : SourceOf(id)' = i
  <2>1. ASSUME NEW id \in Live
        PROVE  SourceOf(id) \in U \/ (id \in Live' /\ SourceOf(id)' = SourceOf(id))
    BY <1>1, <1>4, <1>10 DEF gone
  <2>2. ASSUME NEW i \in (Len(readers) + 1)..Len(readers')
        PROVE  \E id \in Live' : SourceOf(id)' = i
    <3>1. PICK k \in 1..n : Len(readers) + k = i
      <4>1. i - Len(readers) \in 1..n /\ Len(readers) + (i - Len(readers)) = i
        BY <1>1, <1>2, <1>10, <2>2
      <4> QED
        BY <4>1
    <3>2. ids[k] \in Range(ids)
      BY DEF Range
    <3>3. SourceOf(ids[k])' = iters[k] /\ iters[k] = i
      BY <1>3, <1>4, <1>10, <3>1
    <3> QED
      BY <1>4, <3>2, <3>3
  <2> QED
    BY <2>1, <2>2
<1>11. \A id \in Gone : SourceOf(id)' = SourceOf(id)
  BY <1>1, <1>4
<1>12. /\ DOMAIN sourceIDs' = DOMAIN sourceIDs \cup Defines(Stmt)
       /\ Gone' = Gone \cup Consumes(Stmt)
  BY <1>4 DEF gone
<1> HIDE DEF U
<1> QED
  BY <1>2, <1>4, <1>6, <1>9, <1>10, <1>11, <1>12, DoneStep

\* A statement that puts a new iterator in the place of that of id; it reads the
\* old one, and those that the statement consumes.
LEMMA ReplaceStep ==
  ASSUME IndInv, NEW T, Executing(T), StaticAt(at) = "none", Advance,
         UNCHANGED <<parserVars, scriptVars>>, tasks' = tasks,
         NEW id \in Live, NEW used,
         Defines(Stmt) = {}, Consumes(Stmt) \subseteq Live,
         ~SelfAppend => id \notin Consumes(Stmt),
         used \in Seq(Nat), Range(used) = {SourceOf(jd) : jd \in Consumes(Stmt) \cup {id}},
         \A j, k \in DOMAIN used : used[j] = used[k] => j = k,
         ReplaceSource(id, Len(readers) + 1, Consumes(Stmt)), Attach(used, 1)
  PROVE  IndInv'
<1> DEFINE gone == Consumes(Stmt)
           U == Range(used)
           new == Len(readers) + 1
<1>1. /\ RuntimeTypeOK /\ SlotInv /\ HolderInv
      /\ Len(readers) \in Nat /\ readers \in Seq(Nat)
      /\ \A jd \in DOMAIN sourceIDs : SourceOf(jd) \in 0..Len(readers)
      /\ Live \subseteq DOMAIN sourceIDs /\ Gone \subseteq DOMAIN sourceIDs
      /\ gone \subseteq DOMAIN sourceIDs /\ Live \cap Gone = {}
  BY Tables DEF IndInv, TypeOK, RuntimeTypeOK, Live, Gone
<1>2. /\ readers' \in Seq(Nat) /\ Len(readers') = new
      /\ \A i \in 1..Len(readers) : readers'[i] = IF i \in U THEN readers[i] + 1 ELSE readers[i]
      /\ \A i \in new..new : readers'[i] = 0
  BY <1>1, AttachEffect
<1>3. Len(readers) <= Len(readers') /\ Len(readers') \in Nat /\ new \in 0..Len(readers')
      /\ new > Len(readers) /\ new # 0
  BY <1>1, <1>2
<1> HIDE DEF gone, new
<1>4. Replaced(id, new, gone)
  <2>1. ReplaceSource(id, new, gone) /\ id \in DOMAIN sourceIDs
    BY <1>1 DEF gone, new
  <2> QED
    BY <1>1, <1>3, <2>1, ReplaceEffect, Zenon
<1>5. /\ TablesTyped'
      /\ DOMAIN sourceIDs' = DOMAIN sourceIDs
      /\ Live' = Live \ gone
      /\ Gone' = Gone \cup gone
      /\ SourceOf(id)' = new
      /\ \A jd \in DOMAIN sourceIDs \ {id} : SourceOf(jd)' = SourceOf(jd)
  BY <1>4 DEF Replaced
<1>6. \A i \in U \ {0} : \E jd \in Live : SourceOf(jd) = i
  BY DEF gone
<1>7. \A jd \in Live : Holds(jd)
  BY DEF Holds
<1>8. \A jd \in Gone : SourceOf(jd)' = SourceOf(jd)
  BY <1>1, <1>5
<1>9. ASSUME NEW jd \in Live', SourceOf(jd)' # 0
      PROVE  \/ jd \in Live /\ SourceOf(jd)' = SourceOf(jd) /\ SourceOf(jd) \notin U
             \/ /\ SourceOf(jd)' > Len(readers)
                /\ \A kd \in Live' : SourceOf(kd)' = SourceOf(jd)' => kd = jd
  <2>1. CASE jd = id
    <3>1. ASSUME NEW kd \in Live', kd # id PROVE SourceOf(kd)' # new
      <4>1. SourceOf(kd)' \in 0..Len(readers)
        BY <1>1, <1>5, <3>1
      <4> QED
        BY <1>1, <4>1 DEF new
    <3> QED
      BY <1>3, <1>5, <2>1, <3>1
  <2>2. CASE jd # id
    <3>1. jd \in Live /\ jd \notin gone /\ SourceOf(jd)' = SourceOf(jd)
      BY <1>1, <1>5, <2>2
    <3>2. SourceOf(jd) \notin U
      <4> SUFFICES ASSUME SourceOf(jd) \in U PROVE FALSE
        OBVIOUS
      <4>1. PICK kd \in gone \cup {id} : SourceOf(kd) = SourceOf(jd)
        BY DEF gone
      <4>2. kd \in Live /\ kd = jd
        BY <1>1, <1>7, <1>9, <3>1, <4>1 DEF HolderInv, gone
      <4> QED
        BY <2>2, <3>1, <4>1, <4>2
    <3> QED
      BY <3>1, <3>2
  <2> QED
    BY <2>1, <2>2
<1>10. ASSUME ~SelfAppend
       PROVE  /\ \A jd \in Live : SourceOf(jd) \in U \/ (jd \in Live' /\ SourceOf(jd)' = SourceOf(jd))
              /\ \A i \in (Len(readers) + 1)..Len(readers') : \E jd \in Live' : SourceOf(jd)' = i
  <2>1. ASSUME NEW jd \in Live
        PROVE  SourceOf(jd) \in U \/ (jd \in Live' /\ SourceOf(jd)' = SourceOf(jd))
    BY <1>1, <1>5 DEF gone
  <2>2. id \in Live'
    BY <1>5, <1>10 DEF gone
  <2>3. \A i \in (Len(readers) + 1)..Len(readers') : i = new
    BY <1>1, <1>2 DEF new
  <2> QED
    BY <1>5, <2>1, <2>2, <2>3
<1>11. /\ DOMAIN sourceIDs' = DOMAIN sourceIDs \cup Defines(Stmt)
       /\ Gone' = Gone \cup Consumes(Stmt)
  BY <1>5 DEF gone
<1>12. \A i \in (Len(readers) + 1)..Len(readers') : readers'[i] = 0
  BY <1>2 DEF new
<1> HIDE DEF U
<1> QED
  BY <1>2, <1>3, <1>5, <1>6, <1>8, <1>9, <1>10, <1>11, <1>12, DoneStep

\* A statement that makes and reads nothing: of a dry run, or one that does not
\* consume anything.
LEMMA MarkStep ==
  ASSUME IndInv, NEW T, Executing(T), StaticAt(at) = "none", Advance,
         UNCHANGED <<parserVars, scriptVars>>, tasks' = tasks,
         Defines(Stmt) = {}, Consumes(Stmt) \subseteq Live,
         dryRun \/ Consumes(Stmt) = {},
         UNCHANGED <<sourceIDs, sources, readers>>,
         \/ consumed' = Mark(Consumes(Stmt))
         \/ consumed' = consumed /\ Consumes(Stmt) = {}
  PROVE  IndInv'
<1>1. /\ RuntimeTypeOK /\ SlotInv /\ HolderInv
      /\ Len(readers) \in Nat /\ readers \in Seq(Nat)
      /\ Live \subseteq DOMAIN sourceIDs /\ Gone \subseteq DOMAIN sourceIDs
  BY Tables DEF IndInv, TypeOK, RuntimeTypeOK, Live, Gone
<1>2. /\ consumed' \in Seq(BOOLEAN) /\ Len(consumed') = Len(sources) /\ SlotInv'
      /\ Live' = Live \ Consumes(Stmt) /\ Gone' = Gone \cup Consumes(Stmt)
  <2>1. CASE consumed' = Mark(Consumes(Stmt))
    <3>1. Consumes(Stmt) \subseteq DOMAIN sourceIDs
      BY <1>1
    <3> QED
      BY <1>1, <2>1, <3>1, MarkEffect
  <2>2. CASE consumed' = consumed /\ Consumes(Stmt) = {}
    BY <1>1, <2>2 DEF RuntimeTypeOK, SlotInv, Live, Gone
  <2> QED
    BY <2>1, <2>2
<1>3. TablesTyped'
  BY <1>1, <1>2 DEF TablesTyped, RuntimeTypeOK
<1>4. \A id : SourceOf(id)' = SourceOf(id)
  BY DEF SourceOf
<1>5. \A i \in (Len(readers) + 1)..Len(readers') : FALSE
  BY <1>1
<1>6. ~dryRun => Live' = Live
  BY <1>2
<1> DEFINE U == {}
<1>7. DOMAIN sourceIDs' = DOMAIN sourceIDs \cup Defines(Stmt)
  OBVIOUS
<1>8. Len(readers) <= Len(readers') /\ readers' \in Seq(Nat)
  BY <1>1
<1>9. \A id \in Live' : id \in Live /\ SourceOf(id)' = SourceOf(id) /\ SourceOf(id) \notin U
  BY <1>2, <1>4
<1> QED
  BY <1>2, <1>3, <1>4, <1>5, <1>6, <1>7, <1>8, <1>9, DoneStep

\* The identifiers that have not been consumed.
LEMMA LiveIds == /\ Live = DOMAIN sourceIDs \ Gone
                 /\ Gone \subseteq DOMAIN sourceIDs
BY DEF Live, Gone

LEMMA SourceStep ==
  ASSUME IndInv, ExecSource, UNCHANGED <<parserVars, scriptVars>>
  PROVE  IndInv'
<1>1. Executing({"source"}) /\ tasks' = tasks
  BY DEF ExecSource
<1>2. /\ Stmt.type = "source" /\ Stmt \in Statement
      /\ Follows(Stmt, DOMAIN sourceIDs, Gone) /\ DOMAIN sourceIDs \subseteq Ids
      /\ StaticAt(at) = StaticError(Stmt, DOMAIN sourceIDs, Gone)
  BY <1>1, AtStatement
<1>3. SourceError(Stmt) = StaticAt(at)
  BY <1>2, StatementErrors
<1>4. CASE Fail(SourceError(Stmt))
  BY <1>1, <1>3, <1>4, FailStep
<1>5. CASE SourceError(Stmt) = "none" /\ ~dryRun /\ Fail("source failed")
  <2>1. "source failed" \in Dynamic
    BY DEF Dynamic
  <2> QED
    BY <1>1, <1>3, <1>5, <2>1, FailStep
<1>6. CASE /\ SourceError(Stmt) = "none"
           /\ IF dryRun THEN /\ AddSources(<<Stmt.ID>>, <<0>>, {})
                             /\ UNCHANGED readers
                        ELSE /\ Stmt.Args = "good"
                             /\ AddSources(<<Stmt.ID>>, Created(1), {})
                             /\ Attach(<<>>, 1)
           /\ Advance
  <2> DEFINE ids == <<Stmt.ID>>
             iters == IF dryRun THEN <<0>> ELSE Created(1)
  <2>1. Defines(Stmt) = {Stmt.ID} /\ Consumes(Stmt) = {} /\ Stmt.ID \in Ids \ DOMAIN sourceIDs
    BY <1>2 DEF Defines, Consumes, Follows
  <2>2. /\ ids \in [1..1 -> Ids \ DOMAIN sourceIDs] /\ Range(ids) = {Stmt.ID}
        /\ \A j, k \in 1..1 : ids[j] = ids[k] => j = k
    BY <2>1 DEF Range
  <2>3. /\ <<>> \in Seq(Nat) /\ Range(<<>>) = {} /\ DOMAIN <<>> = {}
    BY DEF Range
  <2>4. \/ dryRun /\ readers' = readers /\ iters = [k \in 1..1 |-> 0]
        \/ ~dryRun /\ Attach(<<>>, 1) /\ iters = Created(1)
    BY <1>6
  <2>5. AddSources(ids, iters, Consumes(Stmt))
    BY <1>6, <2>1
  <2>6. {SourceOf(id) : id \in Consumes(Stmt)} = {}
    BY <2>1
  <2>7. \A j, k \in DOMAIN <<>> : <<>>[j] = <<>>[k] /\ <<>>[j] # 0 => j = k
    BY <2>3
  <2> HIDE DEF ids, iters
  <2> QED
    BY <1>1, <1>3, <1>6, <2>1, <2>2, <2>3, <2>4, <2>5, <2>6, <2>7, AddStep
<1> QED
  BY <1>4, <1>5, <1>6 DEF ExecSource

LEMMA MergeStep ==
  ASSUME IndInv, ExecMerge, UNCHANGED <<parserVars, scriptVars>>
  PROVE  IndInv'
<1>1. Executing({"merge"}) /\ tasks' = tasks
  BY DEF ExecMerge
<1>2. /\ Stmt.type = "merge" /\ Stmt \in Statement
      /\ Follows(Stmt, DOMAIN sourceIDs, Gone) /\ DOMAIN sourceIDs \subseteq Ids
      /\ StaticAt(at) = StaticError(Stmt, DOMAIN sourceIDs, Gone)
  BY <1>1, AtStatement
<1>3. MergeError(Stmt) = StaticAt(at)
  BY <1>2, StatementErrors
<1>4. CASE Fail(MergeError(Stmt))
  BY <1>1, <1>3, <1>4, FailStep
<1>5. CASE /\ MergeError(Stmt) = "none"
           /\ LET inputs == {Stmt.SourceA, Stmt.SourceB}
              IN  IF dryRun THEN /\ AddSources(<<Stmt.ID>>, <<0>>, inputs)
                                 /\ UNCHANGED readers
                            ELSE /\ AddSources(<<Stmt.ID>>, Created(1), inputs)
                                 /\ Attach(<<SourceOf(Stmt.SourceA),
                                             SourceOf(Stmt.SourceB)>>, 1)
           /\ Advance
  <2> DEFINE a == Stmt.SourceA
             b == Stmt.SourceB
             ids == <<Stmt.ID>>
             iters == IF dryRun THEN <<0>> ELSE Created(1)
             used == <<SourceOf(a), SourceOf(b)>>
  <2>1. /\ Defines(Stmt) = {Stmt.ID} /\ Consumes(Stmt) = {a, b}
        /\ Stmt.ID \in Ids \ DOMAIN sourceIDs
        /\ a \in Live /\ b \in Live /\ a # b
        /\ a \in DOMAIN sourceIDs /\ b \in DOMAIN sourceIDs
    BY <1>2, LiveIds DEF Defines, Consumes, Follows
  <2>2. /\ ids \in [1..1 -> Ids \ DOMAIN sourceIDs] /\ Range(ids) = {Stmt.ID}
        /\ \A j, k \in 1..1 : ids[j] = ids[k] => j = k
    BY <2>1 DEF Range
  <2>3. SourceOf(a) \in Nat /\ SourceOf(b) \in Nat
    BY <2>1, Tables DEF IndInv, TypeOK
  <2>4. SourceOf(a) = SourceOf(b) => SourceOf(a) = 0
    BY <2>1 DEF IndInv, HolderInv, Holds
  <2>5. \/ dryRun /\ readers' = readers /\ iters = [k \in 1..1 |-> 0]
        \/ ~dryRun /\ Attach(used, 1) /\ iters = Created(1)
    BY <1>5
  <2>6. AddSources(ids, iters, Consumes(Stmt))
    BY <1>5, <2>1
  <2> HIDE DEF ids, iters, a, b
  <2>7. /\ used \in Seq(Nat) /\ Range(used) = {SourceOf(a), SourceOf(b)}
        /\ \A j, k \in DOMAIN used : used[j] = used[k] /\ used[j] # 0 => j = k
    BY <2>3, <2>4 DEF Range
  <2>8. Range(used) = {SourceOf(id) : id \in Consumes(Stmt)}
    BY <2>1, <2>7
  <2>9. Consumes(Stmt) \subseteq Live /\ Range(ids) = Defines(Stmt)
    BY <2>1, <2>2
  <2>10. StaticAt(at) = "none" /\ Advance /\ 1 \in Nat
    BY <1>3, <1>5
  <2> HIDE DEF used
  <2> QED
    BY <1>1, <2>2, <2>5, <2>6, <2>7, <2>8, <2>9, <2>10, AddStep, Zenon
<1> QED
  BY <1>4, <1>5 DEF ExecMerge

LEMMA BranchStep ==
  ASSUME IndInv, ExecBranch, UNCHANGED <<parserVars, scriptVars>>
  PROVE  IndInv'
<1>1. Executing({"dupe", "fanout"}) /\ tasks' = tasks
  BY DEF ExecBranch
<1>2. /\ Stmt.type \in {"dupe", "fanout"} /\ Stmt \in Statement
      /\ Follows(Stmt, DOMAIN sourceIDs, Gone) /\ DOMAIN sourceIDs \subseteq Ids
      /\ StaticAt(at) = StaticError(Stmt, DOMAIN sourceIDs, Gone)
  BY <1>1, AtStatement
<1>3. BranchError(Stmt) = StaticAt(at)
  BY <1>2, StatementErrors
<1>4. CASE Fail(BranchError(Stmt))
  BY <1>1, <1>3, <1>4, FailStep
<1>5. CASE /\ BranchError(Stmt) = "none"
           /\ LET targets == <<Stmt.TargetA, Stmt.TargetB>>
              IN  IF dryRun THEN /\ AddSources(targets, <<0, 0>>, {Stmt.Source})
                                 /\ UNCHANGED readers
                            ELSE /\ AddSources(targets, Created(2), {Stmt.Source})
                                 /\ Attach(<<SourceOf(Stmt.Source)>>, 2)
           /\ Advance
  <2> DEFINE a == Stmt.Source
             ids == <<Stmt.TargetA, Stmt.TargetB>>
             iters == IF dryRun THEN <<0, 0>> ELSE Created(2)
             used == <<SourceOf(a)>>
  <2>1. /\ Defines(Stmt) = {Stmt.TargetA, Stmt.TargetB} /\ Consumes(Stmt) = {a}
        /\ Stmt.TargetA \in Ids \ DOMAIN sourceIDs /\ Stmt.TargetB \in Ids \ DOMAIN sourceIDs
        /\ Stmt.TargetA # Stmt.TargetB
        /\ a \in Live /\ a \in DOMAIN sourceIDs
    BY <1>2, LiveIds DEF Defines, Consumes, Follows
  <2>2. /\ ids \in [1..2 -> Ids \ DOMAIN sourceIDs] /\ Range(ids) = {Stmt.TargetA, Stmt.TargetB}
        /\ \A j, k \in 1..2 : ids[j] = ids[k] => j = k
    BY <2>1 DEF Range
  <2>3. SourceOf(a) \in Nat
    BY <2>1, Tables DEF IndInv, TypeOK
  <2>5. \/ dryRun /\ readers' = readers /\ iters = [k \in 1..2 |-> 0]
        \/ ~dryRun /\ Attach(used, 2) /\ iters = Created(2)
    BY <1>5
  <2>6. AddSources(ids, iters, Consumes(Stmt))
    BY <1>5, <2>1
  <2> HIDE DEF ids, iters, a
  <2>7. /\ used \in Seq(Nat) /\ Range(used) = {SourceOf(a)}
        /\ \A j, k \in DOMAIN used : used[j] = used[k] /\ used[j] # 0 => j = k
    BY <2>3 DEF Range
  <2>8. Range(used) = {SourceOf(id) : id \in Consumes(Stmt)}
    BY <2>1, <2>7
  <2>9. Consumes(Stmt) \subseteq Live /\ Range(ids) = Defines(Stmt)
    BY <2>1, <2>2
  <2>10. StaticAt(at) = "none" /\ Advance /\ 2 \in Nat
    BY <1>3, <1>5
  <2> HIDE DEF used
  <2> QED
    BY <1>1, <2>2, <2>5, <2>6, <2>7, <2>8, <2>9, <2>10, AddStep, Zenon
<1> QED
  BY <1>4, <1>5 DEF ExecBranch

LEMMA AppendStep ==
  ASSUME IndInv, ExecAppend, UNCHANGED <<parserVars, scriptVars>>
  PROVE  IndInv'
<1>1. Executing({"append"}) /\ tasks' = tasks
  BY DEF ExecAppend
<1>2. /\ Stmt.type = "append" /\ Stmt \in Statement /\ Stmt = nodes[at] /\ at \in 1..Len(nodes)
      /\ Follows(Stmt, DOMAIN sourceIDs, Gone) /\ DOMAIN sourceIDs \subseteq Ids
      /\ StaticAt(at) = StaticError(Stmt, DOMAIN sourceIDs, Gone)
  BY <1>1, AtStatement
<1>3. AppendError(Stmt) = StaticAt(at)
  BY <1>2, StatementErrors
<1>4. CASE Fail(AppendError(Stmt))
  BY <1>1, <1>3, <1>4, FailStep
<1>5. ASSUME AppendError(Stmt) = "none"
      PROVE  /\ Defines(Stmt) = {} /\ Consumes(Stmt) = {Stmt.Source}
             /\ Stmt.Source \in Live /\ Stmt.Target \in Live
             /\ ~SelfAppend => Stmt.Target # Stmt.Source
  <2>1. Stmt.Target \notin Gone
    BY <1>2, <1>3, <1>5 DEF StaticError
  <2>2. nodes \in Seq(Statement)
    BY DEF IndInv, TypeOK, ParserTypeOK
  <2>3. at \in DOMAIN nodes
    BY <1>2, <2>2, LenProperties
  <2> QED
    BY <1>2, <2>1, <2>3, LiveIds DEF Defines, Consumes, Follows, SelfAppend
<1>6. CASE AppendError(Stmt) = "none" /\ dryRun /\ Advance
           /\ consumed' = Mark({Stmt.Source}) /\ UNCHANGED <<sourceIDs, sources, readers>>
  BY <1>1, <1>3, <1>5, <1>6, MarkStep
<1>7. CASE /\ AppendError(Stmt) = "none" /\ ~dryRun /\ Advance
           /\ ReplaceSource(Stmt.Target, Len(readers) + 1, {Stmt.Source})
           /\ Attach(SetToSeq({SourceOf(Stmt.Source), SourceOf(Stmt.Target)}), 1)
  <2> DEFINE used == SetToSeq({SourceOf(Stmt.Source), SourceOf(Stmt.Target)})
  <2>1. SourceOf(Stmt.Source) \in Nat /\ SourceOf(Stmt.Target) \in Nat
    <3>1. Stmt.Source \in DOMAIN sourceIDs /\ Stmt.Target \in DOMAIN sourceIDs
      BY <1>5, <1>7, LiveIds
    <3> QED
      BY <3>1, Tables DEF IndInv, TypeOK
  <2>2. /\ used \in Seq(Nat) /\ Range(used) = {SourceOf(Stmt.Source), SourceOf(Stmt.Target)}
        /\ \A j, k \in DOMAIN used : used[j] = used[k] => j = k
    <3>1. Lists(used, {SourceOf(Stmt.Source), SourceOf(Stmt.Target)})
      BY <2>1, PairSequence, Zenon
    <3> QED
      BY <3>1, Zenon DEF Lists
  <2>3. Attach(used, 1) /\ ReplaceSource(Stmt.Target, Len(readers) + 1, Consumes(Stmt))
    BY <1>5, <1>7
  <2> HIDE DEF used
  <2>4. Range(used) = {SourceOf(id) : id \in Consumes(Stmt) \cup {Stmt.Target}}
    BY <1>5, <1>7, <2>2
  <2>5. Consumes(Stmt) \subseteq Live /\ (~SelfAppend => Stmt.Target \notin Consumes(Stmt))
    BY <1>5, <1>7
  <2> QED
    BY <1>1, <1>3, <1>5, <1>7, <2>2, <2>3, <2>4, <2>5, ReplaceStep
<1> QED
  BY <1>4, <1>6, <1>7 DEF ExecAppend

LEMMA WrapStep ==
  ASSUME IndInv, ExecWrap, UNCHANGED <<parserVars, scriptVars>>
  PROVE  IndInv'
<1>1. Executing({"cut", "tag", "join"}) /\ tasks' = tasks
  BY DEF ExecWrap
<1>2. /\ Stmt.type \in {"cut", "tag", "join"} /\ Stmt \in Statement
      /\ Follows(Stmt, DOMAIN sourceIDs, Gone) /\ DOMAIN sourceIDs \subseteq Ids
      /\ StaticAt(at) = StaticError(Stmt, DOMAIN sourceIDs, Gone)
  BY <1>1, AtStatement
<1>3. ExistingIDError(Stmt.Source) = StaticAt(at)
  BY <1>2, StatementErrors
<1>4. CASE Fail(ExistingIDError(Stmt.Source))
  BY <1>1, <1>3, <1>4, FailStep
<1>5. Defines(Stmt) = {} /\ Consumes(Stmt) = {} /\ Consumes(Stmt) \subseteq Live
  BY <1>2 DEF Defines, Consumes
<1>6. CASE ExistingIDError(Stmt.Source) = "none" /\ Advance /\ Unchanged
  BY <1>1, <1>3, <1>5, <1>6, MarkStep DEF Unchanged
<1>7. CASE /\ ExistingIDError(Stmt.Source) = "none" /\ Advance
           /\ ReplaceSource(Stmt.Source, Len(readers) + 1, {})
           /\ Attach(<<SourceOf(Stmt.Source)>>, 1)
  <2> DEFINE used == <<SourceOf(Stmt.Source)>>
  <2>1. Stmt.Source \in Live /\ Stmt.Source \in DOMAIN sourceIDs
    <3>1. Stmt.type = "cut" => Stmt.Source \in DOMAIN sourceIDs
      BY <1>2, <1>3, <1>7 DEF StaticError
    <3> QED
      BY <1>2, <3>1, LiveIds DEF Follows
  <2>2. SourceOf(Stmt.Source) \in Nat
    BY <2>1, Tables DEF IndInv, TypeOK
  <2>3. /\ used \in Seq(Nat) /\ Range(used) = {SourceOf(Stmt.Source)}
        /\ \A j, k \in DOMAIN used : used[j] = used[k] => j = k
    BY <2>2 DEF Range
  <2>4. Attach(used, 1) /\ ReplaceSource(Stmt.Source, Len(readers) + 1, Consumes(Stmt))
    BY <1>5, <1>7
  <2> HIDE DEF used
  <2>5. Range(used) = {SourceOf(id) : id \in Consumes(Stmt) \cup {Stmt.Source}}
    BY <1>5, <2>3
  <2>6. Stmt.Source \notin Consumes(Stmt)
    BY <1>5
  <2> QED
    BY <1>1, <1>3, <1>5, <1>7, <2>1, <2>3, <2>4, <2>5, <2>6, ReplaceStep
<1> QED
  BY <1>4, <1>6, <1>7 DEF ExecWrap

LEMMA EolStep ==
  ASSUME IndInv, ExecEol, UNCHANGED <<parserVars, scriptVars>>
  PROVE  IndInv'
<1>1. Executing({"eol"}) /\ tasks' = tasks /\ Advance /\ Unchanged
  BY DEF ExecEol
<1>2. Stmt.type = "eol" /\ StaticAt(at) = StaticError(Stmt, DOMAIN sourceIDs, Gone)
  BY <1>1, AtStatement
<1>3. StaticAt(at) = "none"
  BY <1>2 DEF StaticError
<1>4. Defines(Stmt) = {} /\ Consumes(Stmt) = {}
  BY <1>2 DEF Defines, Consumes
<1> QED
  BY <1>1, <1>3, <1>4, MarkStep DEF Unchanged

\* What the script has done with the identifiers after the statement.
LEMMA NamesAfter ==
  ASSUME IndInv, NEW T, Executing(T), StaticAt(at) = "none"
  PROVE  /\ DefinedIn(nodes, at) = DOMAIN sourceIDs \cup Defines(Stmt)
         /\ ConsumedIn(nodes, at) = Gone \cup Consumes(Stmt)
         /\ NoErrorTo(at)
<1>1. /\ at \in 1..Len(nodes) /\ Len(nodes) \in Nat /\ at \in Nat
      /\ Stmt = nodes[at] /\ NoErrorTo(at - 1)
      /\ DOMAIN sourceIDs = DefinedIn(nodes, at - 1) /\ Gone = ConsumedIn(nodes, at - 1)
  BY AtStatement
<1>2. at - 1 \in Nat /\ at - 1 + 1 = at
  BY <1>1
<1>3. /\ DefinedIn(nodes, at - 1 + 1) = DefinedIn(nodes, at - 1) \cup Defines(nodes[at - 1 + 1])
      /\ ConsumedIn(nodes, at - 1 + 1) = ConsumedIn(nodes, at - 1) \cup Consumes(nodes[at - 1 + 1])
  BY <1>2, OneMore
<1>4. \A m \in 1..at : m \in 1..(at - 1) \/ m = at
  BY <1>1
<1>5. NoErrorTo(at)
  BY <1>1, <1>4 DEF NoErrorTo
<1> QED
  BY <1>1, <1>2, <1>3, <1>5

\* A sink statement marks its source.
LEMMA MarkedSink ==
  ASSUME IndInv, Executing({"sink"}), MarkSink, readers' = readers \/ Len(readers') = Len(readers)
  PROVE  /\ Defines(Stmt) = {} /\ Consumes(Stmt) = {Stmt.Source}
         /\ Stmt.Source \in Live /\ Stmt.Source \in DOMAIN sourceIDs
         /\ sourceIDs' = sourceIDs /\ SlotInv'
         /\ sources' = sources
         /\ consumed' \in Seq(BOOLEAN) /\ Len(consumed') = Len(sources)
         /\ Live' = Live \ {Stmt.Source} /\ Gone' = Gone \cup {Stmt.Source}
         /\ \A id : SourceOf(id)' = SourceOf(id)
<1>1. /\ Stmt.type = "sink" /\ Follows(Stmt, DOMAIN sourceIDs, Gone)
  BY AtStatement
<1>2. /\ Stmt.Source \in Live /\ Stmt.Source \in DOMAIN sourceIDs
      /\ Defines(Stmt) = {} /\ Consumes(Stmt) = {Stmt.Source}
  BY <1>1, LiveIds DEF Follows, Defines, Consumes
<1>3. RuntimeTypeOK /\ SlotInv
  BY DEF IndInv, TypeOK
<1>4. /\ sourceIDs' = sourceIDs /\ sources' = sources /\ consumed' = Mark({Stmt.Source})
      /\ {Stmt.Source} \subseteq DOMAIN sourceIDs
  BY <1>2 DEF MarkSink
<1>5. /\ consumed' \in Seq(BOOLEAN) /\ Len(consumed') = Len(sources) /\ SlotInv'
      /\ Live' = Live \ {Stmt.Source} /\ Gone' = Gone \cup {Stmt.Source}
  BY <1>3, <1>4, MarkEffect
<1>6. \A id : SourceOf(id)' = SourceOf(id)
  BY <1>4 DEF SourceOf
<1> QED
  BY <1>2, <1>4, <1>5, <1>6

\* One sink more.
LEMMA OneTaskMore ==
  ASSUME tasks \in Seq(Task), NEW t \in Task, tasks' = Append(tasks, t)
  PROVE  /\ tasks' \in Seq(Task)
         /\ DOMAIN tasks' = DOMAIN tasks \cup {Len(tasks) + 1}
         /\ Len(tasks) + 1 \notin DOMAIN tasks
         /\ \A k \in DOMAIN tasks : tasks'[k] = tasks[k]
         /\ tasks'[Len(tasks) + 1] = t
<1>1. Len(tasks) \in Nat /\ DOMAIN tasks = 1..Len(tasks)
  BY LenProperties
<1>2. /\ tasks' \in Seq(Task) /\ Len(tasks') = Len(tasks) + 1
      /\ \A k \in 1..Len(tasks) : tasks'[k] = tasks[k]
      /\ tasks'[Len(tasks) + 1] = t
  BY AppendProperties
<1>3. DOMAIN tasks' = 1..(Len(tasks) + 1)
  BY <1>2, LenProperties
<1>4. 1..(Len(tasks) + 1) = (1..Len(tasks)) \cup {Len(tasks) + 1}
  BY <1>1
<1> QED
  BY <1>1, <1>2, <1>3, <1>4

\* The record of a sink that is called.
LEMMA NewTaskTyped ==
  ASSUME IndInv, Executing({"sink"}), NEW status \in {"starting", "reading"}, NEW reads \in Nat,
         Stmt.Source \in DOMAIN sourceIDs
  PROVE  NewTask(status, reads) \in Task
<1>1. Stmt \in Statement /\ Stmt.type = "sink"
  BY AtStatement
<1>2. Stmt \in SinkStmt
  BY <1>1, Fields
<1>3. /\ Stmt.Source \in Id /\ Stmt.Async \in BOOLEAN /\ Stmt.Args \in Args
  BY <1>2 DEF SinkStmt
<1>4. SourceOf(Stmt.Source) \in Nat
  BY Tables DEF IndInv, TypeOK
<1> QED
  BY <1>3, <1>4 DEF NewTask, Task

\* The state of the rest of the runtime: what a step that stays in Execute
\* leaves.
RestTyped == /\ state \in {"created", "started", "stopping", "done"}
             /\ dryRun \in BOOLEAN
             /\ asts \in Seq(Statement)
             /\ at \in 0..(Len(asts) + 1)
             /\ err \in Errors
             /\ errAt \in 0..Len(asts)
             /\ tasks \in Seq(Task)

\* The types after a step of Execute, by what it changes.
LEMMA TypesAfter ==
  ASSUME IndInv, UNCHANGED <<parserVars, scriptVars>>,
         RestTyped', sourceIDs' = sourceIDs, sources' = sources,
         consumed' \in Seq(BOOLEAN), Len(consumed') = Len(sources),
         readers' \in Seq(Nat), Len(readers') = Len(readers)
  PROVE  TypeOK' /\ RuntimeTypeOK' /\ ParserInv'
<1>1. /\ RuntimeTypeOK /\ ParserTypeOK /\ vetErr \in Errors /\ vetAt \in 0..MaxStatements
      /\ phase \in {"parse", "vet", "vetting", "exec", "executing", "done"}
  BY DEF IndInv, TypeOK
<1>2. /\ DOMAIN sourceIDs' \subseteq Ids
      /\ \A id \in DOMAIN sourceIDs' : sourceIDs'[id] \in DOMAIN sources'
      /\ sources' \in Seq(0..Len(readers'))
  BY <1>1 DEF RuntimeTypeOK
<1>3. RuntimeTypeOK'
  BY <1>2 DEF RuntimeTypeOK, RestTyped
<1>4. ParserTypeOK' /\ ParserInv'
  BY <1>1, NodesKept DEF IndInv
<1> QED
  BY <1>1, <1>3, <1>4 DEF TypeOK, scriptVars

\* The types of an error that is returned.
LEMMA ErrorTyped ==
  ASSUME IndInv, at \in 1..Len(asts), NEW e \in Errors, ReturnError(e), tasks' \in Seq(Task)
  PROVE  RestTyped'
<1>1. /\ state \in {"created", "started", "stopping", "done"} /\ asts \in Seq(Statement)
      /\ Len(asts) \in Nat
  BY LenProperties DEF IndInv, TypeOK, RuntimeTypeOK
<1>2. err' = e /\ errAt' = at /\ at' = 0 /\ dryRun' = FALSE /\ state' = state /\ asts' = asts
  BY DEF ReturnError
<1>3. errAt' \in 0..Len(asts') /\ at' \in 0..(Len(asts') + 1)
  BY <1>1, <1>2
<1> QED
  BY <1>1, <1>2, <1>3 DEF RestTyped

\* The types when Execute goes on to the next statement, or stays.
LEMMA NextTyped ==
  ASSUME IndInv, \/ at \in 1..Len(asts) /\ Advance
                 \/ UNCHANGED <<at, asts, dryRun, err, errAt, state>>,
         tasks' \in Seq(Task)
  PROVE  RestTyped'
<1>1. /\ state \in {"created", "started", "stopping", "done"} /\ asts \in Seq(Statement)
      /\ Len(asts) \in Nat /\ dryRun \in BOOLEAN /\ err \in Errors /\ errAt \in 0..Len(asts)
      /\ at \in 0..(Len(asts) + 1)
  BY LenProperties DEF IndInv, TypeOK, RuntimeTypeOK
<1>2. UNCHANGED <<asts, dryRun, err, errAt, state>>
  BY DEF Advance
<1>3. at' \in 0..(Len(asts) + 1)
  BY <1>1 DEF Advance
<1> QED
  BY <1>1, <1>2, <1>3 DEF RestTyped

\* A sink statement that fails has marked its source.
LEMMA SinkFailsStep ==
  ASSUME IndInv, ExecSinkFails, UNCHANGED <<parserVars, scriptVars>>
  PROVE  IndInv'
<1>1. /\ Executing({"sink"}) /\ ReturnError(SinkError(Stmt)) /\ readers' = readers /\ tasks' = tasks
  BY DEF ExecSinkFails
<1>2. /\ asts = nodes /\ at \in 1..Len(nodes) /\ Stmt.type = "sink" /\ Stmt \in Statement
      /\ Follows(Stmt, DOMAIN sourceIDs, Gone) /\ DOMAIN sourceIDs \subseteq Ids
      /\ StaticAt(at) = StaticError(Stmt, DOMAIN sourceIDs, Gone)
      /\ NoErrorTo(at - 1) /\ ~InSink
  BY <1>1, AtStatement
<1>3. SinkError(Stmt) = StaticAt(at) /\ ExistingIDError(Stmt.Source) = "none"
  BY <1>2, StatementErrors
<1>4. MarkSink
  BY <1>3 DEF ExecSinkFails
<1>5. /\ Stmt.Source \in Live /\ sourceIDs' = sourceIDs /\ SlotInv' /\ sources' = sources
      /\ consumed' \in Seq(BOOLEAN) /\ Len(consumed') = Len(sources)
      /\ Live' = Live \ {Stmt.Source} /\ Gone' = Gone \cup {Stmt.Source}
      /\ \A id : SourceOf(id)' = SourceOf(id)
  BY <1>1, <1>4, MarkedSink
<1>6. /\ tasks \in Seq(Task)
      /\ \A k \in DOMAIN tasks : tasks[k].status = "starting" => tasks[k].async
      /\ \A k \in DOMAIN tasks : tasks[k].async \/ tasks[k].status # "reading"
  BY <1>2, TaskFacts
<1>7. PhaseInv' /\ SyncInv' /\ NamesInv' /\ OutcomeInv' /\ NothingLost'
  BY <1>1, <1>2, <1>3, <1>6, StatementFailed
<1>8. TypeOK' /\ RuntimeTypeOK' /\ ParserInv'
  <2>1. SinkError(Stmt) \in Errors
    BY <1>3, StaticErrors
  <2>2. RestTyped'
    BY <1>1, <1>2, <1>6, <2>1, ErrorTyped
  <2>3. readers \in Seq(Nat)
    BY DEF IndInv, TypeOK, RuntimeTypeOK
  <2> QED
    BY <1>1, <1>5, <2>2, <2>3, TypesAfter
<1>9. HolderInv' /\ SingleReader'
  <2>1. \A id : Holds(id)' => Holds(id)
    BY <1>1, <1>5 DEF Holds, Waiting
  <2>2. RuntimeTypeOK /\ HolderInv /\ SingleReader
    BY DEF IndInv, TypeOK
  <2>3. Len(readers) \in Nat
    BY <2>2, Tables
  <2>4. \A i \in (Len(readers) + 1)..Len(readers') : FALSE
    BY <1>1, <2>3
  <2> DEFINE U == {}
  <2>5. \A i \in 1..Len(readers) : readers'[i] = IF i \in U THEN readers[i] + 1 ELSE readers[i]
    BY <1>1
  <2>6. \A id \in DOMAIN sourceIDs' : Holds(id)' =>
          id \in DOMAIN sourceIDs /\ Holds(id) /\ SourceOf(id)' = SourceOf(id) /\ SourceOf(id) \notin U
    BY <1>5, <2>1
  <2>7. Len(readers) <= Len(readers')
    BY <1>1, <2>3
  <2> QED
    BY <1>8, <2>2, <2>4, <2>5, <2>6, <2>7, HolderStep
<1>10. WaitingInv'
  <2>1. \A id \in Gone : id \in Gone' /\ SourceOf(id)' = SourceOf(id)
    BY <1>5
  <2> QED
    BY <1>1, <2>1, WaitingStep DEF IndInv
<1>11. LateReadStable'
  BY <1>1 DEF IndInv, LateReadStable
<1> QED
  BY <1>5, <1>7, <1>8, <1>9, <1>10, <1>11 DEF IndInv

\* An asynchronous sink is called: it takes over what its identifier held.
LEMMA AsyncStep ==
  ASSUME IndInv, Executing({"sink"}), StaticAt(at) = "none", ~dryRun, Stmt.Async, MarkSink,
         tasks' = Append(tasks, NewTask("starting", 0)), Advance, readers' = readers,
         UNCHANGED <<parserVars, scriptVars>>
  PROVE  IndInv'
<1> DEFINE n == Len(tasks) + 1
           t == NewTask("starting", 0)
<1>1. /\ asts = nodes /\ at \in 1..Len(nodes) /\ ~InSink /\ phase \in {"vetting", "executing"}
      /\ dryRun = (phase = "vetting") /\ err = "none"
  BY AtStatement
<1>2. /\ Defines(Stmt) = {} /\ Consumes(Stmt) = {Stmt.Source}
      /\ Stmt.Source \in Live /\ Stmt.Source \in DOMAIN sourceIDs
      /\ sourceIDs' = sourceIDs /\ SlotInv' /\ sources' = sources
      /\ consumed' \in Seq(BOOLEAN) /\ Len(consumed') = Len(sources)
      /\ Live' = Live \ {Stmt.Source} /\ Gone' = Gone \cup {Stmt.Source}
      /\ \A id : SourceOf(id)' = SourceOf(id)
  BY MarkedSink
<1>3. /\ tasks \in Seq(Task) /\ \A k \in DOMAIN tasks : tasks[k] \in Task
      /\ \A k \in DOMAIN tasks : tasks[k].status = "starting" => tasks[k].async
      /\ \A k \in DOMAIN tasks : tasks[k].async \/ tasks[k].status # "reading"
  BY <1>1, TaskFacts
<1>4. t \in Task
  BY <1>2, NewTaskTyped
<1>5. t.status = "starting" /\ t.async /\ t.id = Stmt.Source /\ t.named = SourceOf(Stmt.Source)
  BY DEF NewTask
<1> HIDE DEF t
<1>6. /\ tasks' \in Seq(Task) /\ DOMAIN tasks' = DOMAIN tasks \cup {n} /\ n \notin DOMAIN tasks
      /\ \A k \in DOMAIN tasks : tasks'[k] = tasks[k]
      /\ tasks'[n] = t
  <2>1. tasks' = Append(tasks, t)
    BY DEF t
  <2> QED
    BY <1>3, <1>4, <2>1, OneTaskMore
<1> HIDE DEF n
<1>7. PhaseInv' /\ SyncInv' /\ NamesInv' /\ OutcomeInv'
  <2>1. DOMAIN sourceIDs' = DOMAIN sourceIDs \cup Defines(Stmt) /\ Gone' = Gone \cup Consumes(Stmt)
    BY <1>2
  <2>2. /\ \A k \in DOMAIN tasks' : tasks'[k].status = "starting" => tasks'[k].async
        /\ \A k \in DOMAIN tasks' : tasks'[k].async \/ tasks'[k].status # "reading"
    BY <1>3, <1>5, <1>6
  <2> QED
    BY <2>1, <2>2, StatementDone
<1>8. TypeOK' /\ RuntimeTypeOK' /\ ParserInv'
  <2>1. RestTyped'
    BY <1>1, <1>6, NextTyped
  <2>2. readers \in Seq(Nat)
    BY DEF IndInv, TypeOK, RuntimeTypeOK
  <2> QED
    BY <1>2, <2>1, <2>2, TypesAfter
<1>9. \A k \in DOMAIN tasks' : Waiting(k)' => (k \in DOMAIN tasks /\ Waiting(k)) \/ k = n
  BY <1>6 DEF Waiting
<1>10. RuntimeTypeOK /\ HolderInv /\ SingleReader /\ WaitingInv /\ LateReadStable /\ Len(readers) \in Nat
  BY Tables DEF IndInv, TypeOK
<1> DEFINE U == {}
<1>11. /\ Len(readers) <= Len(readers')
       /\ \A i \in 1..Len(readers) : readers'[i] = IF i \in U THEN readers[i] + 1 ELSE readers[i]
       /\ \A i \in (Len(readers) + 1)..Len(readers') : FALSE
  BY <1>10
<1>12. HolderInv' /\ SingleReader'
  <2>1. ASSUME NEW id, Holds(id)' PROVE Holds(id)
    <3>1. CASE id \in Live'
      BY <1>2, <3>1 DEF Holds
    <3>2. CASE \E k \in DOMAIN tasks' : Waiting(k)' /\ tasks'[k].id = id
      BY <1>2, <1>5, <1>6, <1>9, <3>2 DEF Holds
    <3> QED
      BY <2>1, <3>1, <3>2 DEF Holds
  <2>2. \A id \in DOMAIN sourceIDs' : Holds(id)' =>
          id \in DOMAIN sourceIDs /\ Holds(id) /\ SourceOf(id)' = SourceOf(id) /\ SourceOf(id) \notin U
    BY <1>2, <2>1
  <2> QED
    BY <1>8, <1>10, <1>11, <2>2, HolderStep
<1>13. WaitingInv'
  <2>1. Stmt.Source \notin Gone
    BY <1>2, LiveIds
  <2>2. ASSUME NEW k \in DOMAIN tasks', Waiting(k)'
        PROVE  /\ tasks'[k].id \in Gone' /\ tasks'[k].named = SourceOf(tasks'[k].id)
               /\ \A j \in DOMAIN tasks' : Waiting(j)' /\ tasks'[j].id = tasks'[k].id => j = k
    <3>1. CASE k \in DOMAIN tasks /\ Waiting(k)
      <4>1. tasks[k].id \in Gone /\ tasks[k].named = SourceOf(tasks[k].id) /\ tasks'[k] = tasks[k]
        BY <1>6, <1>10, <3>1 DEF WaitingInv
      <4>2. ASSUME NEW j \in DOMAIN tasks', Waiting(j)', tasks'[j].id = tasks'[k].id PROVE j = k
        <5>1. j \in DOMAIN tasks /\ Waiting(j)
          BY <1>5, <1>6, <1>9, <2>1, <4>1, <4>2
        <5> QED
          BY <1>6, <1>10, <3>1, <4>1, <4>2, <5>1 DEF WaitingInv
      <4> QED
        BY <1>2, <4>1, <4>2
    <3>2. CASE k = n
      <4>1. ASSUME NEW j \in DOMAIN tasks', Waiting(j)', tasks'[j].id = tasks'[k].id, j # n PROVE FALSE
        <5>1. j \in DOMAIN tasks /\ Waiting(j)
          BY <1>9, <4>1
        <5>2. tasks[j].id \in Gone
          BY <1>10, <5>1 DEF WaitingInv
        <5> QED
          BY <1>5, <1>6, <2>1, <3>2, <4>1, <5>1, <5>2
      <4> QED
        BY <1>2, <1>5, <1>6, <3>2, <4>1
    <3> QED
      BY <1>9, <2>2, <3>1, <3>2
  <2> QED
    BY <1>2, <2>2 DEF WaitingInv
<1>14. LateReadStable'
  BY <1>5, <1>6, <1>10 DEF LateReadStable
<1>15. NothingLost'
  <2> SUFFICES ASSUME phase = "executing", ~SelfAppend
               PROVE  \A i \in DOMAIN readers' : Owned(i)'
    BY DEF NothingLost, SelfAppend, scriptVars, parserVars
  <2>1. \A i \in DOMAIN readers : Owned(i)
    BY <1>1 DEF IndInv, NothingLost
  <2>2. ASSUME NEW id \in Live
        PROVE  \/ id \in Live' /\ SourceOf(id)' = SourceOf(id)
               \/ \E k \in DOMAIN tasks' : tasks'[k].status = "starting" /\ tasks'[k].named = SourceOf(id)
    <3>1. CASE id = Stmt.Source
      BY <1>5, <1>6, <3>1
    <3>2. CASE id # Stmt.Source
      BY <1>2, <3>2
    <3> QED
      BY <3>1, <3>2
  <2>3. \A k \in DOMAIN tasks : tasks[k].status = "starting" =>
           /\ k \in DOMAIN tasks' /\ tasks'[k].status = "starting"
           /\ tasks'[k].named = tasks[k].named
    BY <1>6
  <2> QED
    BY <1>8, <1>10, <1>11, <2>1, <2>2, <2>3, LostStep
<1> QED
  BY <1>2, <1>7, <1>8, <1>12, <1>13, <1>14, <1>15 DEF IndInv

\* What Attach does when one iterator, or nil, gets a reader and none is made.
LEMMA OneReader ==
  ASSUME IndInv, NEW i \in Nat, Attach(<<i>>, 0)
  PROVE  /\ readers' \in Seq(Nat) /\ Len(readers') = Len(readers) /\ Len(readers) \in Nat
         /\ \A j \in 1..Len(readers) :
              readers'[j] = IF j \in {i} THEN readers[j] + 1 ELSE readers[j]
         /\ \A j \in (Len(readers) + 1)..Len(readers') : FALSE
<1> DEFINE used == <<i>>
<1>1. readers \in Seq(Nat) /\ Len(readers) \in Nat
  BY LenProperties DEF IndInv, TypeOK, RuntimeTypeOK
<1>2. /\ used \in Seq(Nat) /\ Range(used) = {i}
      /\ \A j, k \in DOMAIN used : used[j] = used[k] /\ used[j] # 0 => j = k
  BY DEF Range
<1>3. Attach(used, 0) /\ 0 \in Nat
  OBVIOUS
<1> HIDE DEF used
<1>4. /\ readers' \in Seq(Nat) /\ Len(readers') = Len(readers) + 0
      /\ \A j \in 1..Len(readers) :
           readers'[j] = IF j \in Range(used) THEN readers[j] + 1 ELSE readers[j]
  BY <1>1, <1>2, <1>3, AttachEffect
<1> QED
  BY <1>1, <1>2, <1>4

\* A synchronous sink is called: it reads what its identifier stood for, and
\* Execute waits for it.
LEMMA SyncStep ==
  ASSUME IndInv, Executing({"sink"}), StaticAt(at) = "none", ~dryRun, ~Stmt.Async, MarkSink,
         tasks' = Append(tasks, NewTask("reading", SourceOf(Stmt.Source))),
         Attach(<<SourceOf(Stmt.Source)>>, 0),
         UNCHANGED <<at, asts, dryRun, err, errAt, state>>,
         UNCHANGED <<parserVars, scriptVars>>
  PROVE  IndInv'
<1> DEFINE n == Len(tasks) + 1
           t == NewTask("reading", SourceOf(Stmt.Source))
           U == {SourceOf(Stmt.Source)}
<1>1. /\ asts = nodes /\ at \in 1..Len(nodes) /\ at \in Nat /\ ~InSink
      /\ phase \in {"vetting", "executing"} /\ dryRun = (phase = "vetting") /\ err = "none"
      /\ Stmt.type = "sink"
  BY AtStatement
<1>2. RuntimeTypeOK /\ HolderInv /\ SingleReader /\ WaitingInv /\ LateReadStable /\ OutcomeInv /\ PhaseInv
  BY DEF IndInv, TypeOK
<1>3. Stmt.Source \in Live /\ Stmt.Source \in DOMAIN sourceIDs /\ SourceOf(Stmt.Source) \in Nat
  <2>1. Follows(Stmt, DOMAIN sourceIDs, Gone)
    BY AtStatement
  <2>2. Stmt.Source \in Live /\ Stmt.Source \in DOMAIN sourceIDs
    BY <1>1, <2>1, LiveIds DEF Follows
  <2> QED
    BY <1>2, <2>2, Tables
<1>4. /\ readers' \in Seq(Nat) /\ Len(readers') = Len(readers) /\ Len(readers) \in Nat
      /\ \A j \in 1..Len(readers) : readers'[j] = IF j \in U THEN readers[j] + 1 ELSE readers[j]
      /\ \A j \in (Len(readers) + 1)..Len(readers') : FALSE
  BY <1>3, OneReader
<1>5. /\ Defines(Stmt) = {} /\ Consumes(Stmt) = {Stmt.Source}
      /\ sourceIDs' = sourceIDs /\ SlotInv' /\ sources' = sources
      /\ consumed' \in Seq(BOOLEAN) /\ Len(consumed') = Len(sources)
      /\ Live' = Live \ {Stmt.Source} /\ Gone' = Gone \cup {Stmt.Source}
      /\ \A id : SourceOf(id)' = SourceOf(id)
  BY <1>4, MarkedSink
<1>6. /\ tasks \in Seq(Task) /\ \A k \in DOMAIN tasks : tasks[k] \in Task
      /\ \A k \in DOMAIN tasks : tasks[k].status = "starting" => tasks[k].async
      /\ \A k \in DOMAIN tasks : tasks[k].async \/ tasks[k].status # "reading"
  BY <1>1, TaskFacts
<1>7. t \in Task
  BY <1>3, NewTaskTyped
<1>8. t.status = "reading" /\ ~t.async /\ t.id = Stmt.Source /\ t.named = t.reads
  BY DEF NewTask
<1> HIDE DEF t
<1>9. /\ tasks' \in Seq(Task) /\ DOMAIN tasks' = DOMAIN tasks \cup {n} /\ n \notin DOMAIN tasks
      /\ \A k \in DOMAIN tasks : tasks'[k] = tasks[k]
      /\ tasks'[n] = t
  <2>1. tasks' = Append(tasks, t)
    BY DEF t
  <2> QED
    BY <1>6, <1>7, <2>1, OneTaskMore
<1> HIDE DEF n
<1>10. UNCHANGED <<nodes, parse, phase, vetErr, vetAt>> /\ at > 0
  BY <1>1 DEF parserVars, scriptVars
<1>11. PhaseInv'
  BY <1>1, <1>2, <1>10 DEF PhaseInv
<1>12. SyncInv'
  <2>1. at' \in 1..Len(asts') /\ Stmt' = Stmt
    BY <1>1 DEF Stmt
  <2>2. ASSUME NEW k \in DOMAIN tasks', ~tasks'[k].async, tasks'[k].status = "reading" PROVE k = n
    BY <1>6, <1>9, <2>2
  <2>3. \A k \in DOMAIN tasks' : tasks'[k].status = "starting" => tasks'[k].async
    BY <1>6, <1>8, <1>9
  <2> QED
    BY <1>1, <1>8, <1>9, <2>1, <2>2, <2>3 DEF SyncInv
<1>13. NamesInv'
  <2>1. InSink'
    BY <1>8, <1>9 DEF InSink
  <2>2. Done' = at
    BY <2>1 DEF Done
  <2>3. /\ DefinedIn(nodes, at) = DOMAIN sourceIDs \cup Defines(Stmt)
        /\ ConsumedIn(nodes, at) = Gone \cup Consumes(Stmt)
        /\ NoErrorTo(at)
    BY NamesAfter
  <2>4. DOMAIN sourceIDs' = DefinedIn(nodes, at) /\ Gone' = ConsumedIn(nodes, at)
    BY <1>5, <2>3
  <2> QED
    BY <1>10, <2>2, <2>3, <2>4, NodesKept DEF NamesInv
<1>14. OutcomeInv'
  <2>1. at # 0 /\ at' # 0
    BY <1>1
  <2>2. phase = "executing" => Outcome(vetErr, vetAt)
    BY <1>2 DEF OutcomeInv
  <2>3. Outcome(vetErr, vetAt)' = Outcome(vetErr, vetAt)
    BY <1>10, NodesKept DEF Outcome
  <2> QED
    BY <1>1, <1>10, <2>1, <2>2, <2>3 DEF OutcomeInv
<1>15. TypeOK' /\ RuntimeTypeOK' /\ ParserInv'
  <2>1. RestTyped'
    BY <1>9, NextTyped
  <2> QED
    BY <1>4, <1>5, <2>1, TypesAfter
<1>16. \A k \in DOMAIN tasks' : Waiting(k)' => k \in DOMAIN tasks /\ Waiting(k) /\ tasks'[k] = tasks[k]
  BY <1>8, <1>9 DEF Waiting
<1>17. Len(readers) <= Len(readers') /\ \A id \in Live : Holds(id)
  BY <1>4 DEF Holds
<1>18. \A i \in U \ {0} : \E id \in DOMAIN sourceIDs : Holds(id) /\ SourceOf(id) = i
  BY <1>3, <1>17
<1>19. ASSUME NEW id \in DOMAIN sourceIDs', Holds(id)', SourceOf(id)' # 0
       PROVE  /\ id \in DOMAIN sourceIDs /\ Holds(id)
              /\ SourceOf(id)' = SourceOf(id) /\ SourceOf(id) \notin U
  <2>1. Holds(id) /\ id # Stmt.Source
    <3>1. CASE id \in Live'
      BY <1>5, <1>17, <3>1
    <3>2. CASE \E k \in DOMAIN tasks' : Waiting(k)' /\ tasks'[k].id = id
      <4>1. PICK k \in DOMAIN tasks : Waiting(k) /\ tasks[k].id = id
        BY <1>16, <3>2
      <4>2. id \in Gone
        BY <1>2, <4>1 DEF WaitingInv
      <4> QED
        BY <1>3, <4>1, <4>2, LiveIds DEF Holds
    <3> QED
      BY <1>19, <3>1, <3>2 DEF Holds
  <2>2. SourceOf(id) # SourceOf(Stmt.Source)
    BY <1>2, <1>3, <1>5, <1>17, <1>19, <2>1 DEF HolderInv
  <2> QED
    BY <1>5, <1>19, <2>1, <2>2
<1> HIDE DEF U
<1>20. HolderInv' /\ SingleReader'
  BY <1>2, <1>4, <1>15, <1>17, <1>18, <1>19, HolderStep
<1>21. WaitingInv'
  BY <1>2, <1>5, <1>16 DEF WaitingInv
<1>22. LateReadStable'
  BY <1>2, <1>8, <1>9 DEF LateReadStable
<1>23. NothingLost'
  <2> SUFFICES ASSUME phase = "executing", ~SelfAppend
               PROVE  \A i \in DOMAIN readers' : Owned(i)'
    BY <1>10 DEF NothingLost, SelfAppend
  <2>1. \A i \in DOMAIN readers : Owned(i)
    BY <1>1 DEF IndInv, NothingLost
  <2>2. \A id \in Live : SourceOf(id) \in U \/ (id \in Live' /\ SourceOf(id)' = SourceOf(id))
    BY <1>5 DEF U
  <2>3. \A k \in DOMAIN tasks : tasks[k].status = "starting" =>
           /\ k \in DOMAIN tasks' /\ tasks'[k].status = "starting"
           /\ tasks'[k].named = tasks[k].named
    BY <1>9
  <2> QED
    BY <1>2, <1>4, <1>15, <1>17, <2>1, <2>2, <2>3, LostStep
<1> QED
  BY <1>5, <1>11, <1>12, <1>13, <1>14, <1>15, <1>20, <1>21, <1>22, <1>23 DEF IndInv

LEMMA SinkStep ==
  ASSUME IndInv, ExecSink, UNCHANGED <<parserVars, scriptVars>>
  PROVE  IndInv'
<1>1. Executing({"sink"}) /\ SinkError(Stmt) = "none" /\ MarkSink
  BY DEF ExecSink
<1>2. /\ Stmt.type = "sink" /\ Stmt \in Statement
      /\ Follows(Stmt, DOMAIN sourceIDs, Gone) /\ DOMAIN sourceIDs \subseteq Ids
      /\ StaticAt(at) = StaticError(Stmt, DOMAIN sourceIDs, Gone)
  BY <1>1, AtStatement
<1>3. StaticAt(at) = "none"
  BY <1>1, <1>2, StatementErrors
<1>4. CASE dryRun
  <2>1. Advance /\ readers' = readers /\ tasks' = tasks
    BY <1>4 DEF ExecSink, SinkSkipped
  <2>2. /\ Defines(Stmt) = {} /\ Consumes(Stmt) = {Stmt.Source} /\ Stmt.Source \in Live
    BY <1>1, <2>1, MarkedSink
  <2>3. UNCHANGED <<sourceIDs, sources, readers>> /\ consumed' = Mark(Consumes(Stmt))
    BY <1>1, <2>1, <2>2 DEF MarkSink
  <2>4. Consumes(Stmt) \subseteq Live
    BY <2>2
  <2> QED
    BY <1>1, <1>3, <1>4, <2>1, <2>2, <2>3, <2>4, MarkStep
<1>5. CASE ~dryRun /\ Stmt.Async
  BY <1>1, <1>3, <1>5, AsyncStep DEF ExecSink, SinkSkipped
<1>6. CASE ~dryRun /\ ~Stmt.Async
  BY <1>1, <1>3, <1>6, SyncStep DEF ExecSink, SinkSkipped
<1> QED
  BY <1>4, <1>5, <1>6

\* Execute returns nil: no statement had an error.
LEMMA EndStep ==
  ASSUME IndInv, ExecEnd, UNCHANGED <<parserVars, scriptVars>>
  PROVE  IndInv'
<1>1. /\ at = Len(asts) + 1 /\ at' = 0 /\ err' = "none" /\ errAt' = 0 /\ dryRun' = FALSE
      /\ UNCHANGED <<sourceIDs, sources, consumed, readers, tasks>>
      /\ UNCHANGED <<state, asts>>
      /\ UNCHANGED <<nodes, parse, phase, vetErr, vetAt>>
  BY DEF ExecEnd, Unchanged, parserVars, scriptVars
<1>2. RuntimeTypeOK /\ PhaseInv /\ SyncInv /\ NamesInv /\ OutcomeInv /\ NothingLost
  BY DEF IndInv, TypeOK
<1>3. Len(asts) \in Nat /\ at > 0
  BY <1>1, <1>2, LenProperties DEF RuntimeTypeOK
<1>4. /\ phase \in {"vetting", "executing"} /\ parse = "ok" /\ err = "none" /\ asts = nodes
      /\ (phase = "vetting" => tasks = <<>>)
  BY <1>2, <1>3 DEF PhaseInv
<1>5. \A k \in DOMAIN tasks : tasks[k].async \/ tasks[k].status # "reading"
  <2> SUFFICES ASSUME NEW k \in DOMAIN tasks, ~tasks[k].async, tasks[k].status = "reading"
               PROVE  FALSE
    OBVIOUS
  <2>1. at \in 1..Len(asts)
    BY <1>2 DEF SyncInv
  <2> QED
    BY <1>1, <1>3, <2>1
<1>6. ~InSink
  BY <1>5 DEF InSink
<1>7. NoErrorTo(Len(nodes))
  <2>1. Done = Len(nodes)
    BY <1>1, <1>3, <1>4, <1>6 DEF Done
  <2> QED
    BY <1>2, <1>3, <2>1 DEF NamesInv
<1>8. TypeOK' /\ ParserInv'
  <2>1. RestTyped'
    <3>1. /\ state \in {"created", "started", "stopping", "done"}
          /\ asts \in Seq(Statement) /\ tasks \in Seq(Task)
      BY <1>2 DEF RuntimeTypeOK
    <3>2. at' \in 0..(Len(asts') + 1) /\ errAt' \in 0..Len(asts') /\ err' \in Errors
      BY <1>1, <1>3 DEF Errors
    <3> QED
      BY <1>1, <3>1, <3>2 DEF RestTyped
  <2> QED
    BY <1>1, <1>2, <2>1, TypesAfter DEF RuntimeTypeOK
<1>9. PhaseInv'
  BY <1>1, <1>4 DEF PhaseInv
<1>10. SyncInv'
  BY <1>1, <1>2, <1>5 DEF SyncInv
<1>11. NamesInv'
  BY <1>1 DEF NamesInv
<1>12. OutcomeInv'
  <2>1. phase = "executing" => Outcome(vetErr, vetAt)
    BY <1>2 DEF OutcomeInv
  <2>2. Outcome(vetErr, vetAt)' = Outcome(vetErr, vetAt)
    BY <1>1, NodesKept DEF Outcome
  <2>3. Outcome(err, errAt)'
    <3>1. NoErrorTo(Len(nodes))' = NoErrorTo(Len(nodes))
      BY <1>1 DEF NoErrorTo, StaticAt, DefinedIn, ConsumedIn
    <3> QED
      BY <1>1, <1>7, <3>1 DEF Outcome
  <2> QED
    BY <1>1, <1>4, <2>1, <2>2, <2>3 DEF OutcomeInv
<1>13. NothingLost'
  <2>1. \A i : Owned(i)' = Owned(i)
    BY <1>1, TablesKept
  <2> QED
    BY <1>1, <1>2, <1>4, <2>1 DEF NothingLost, SelfAppend
<1>14. SlotInv' /\ HolderInv' /\ WaitingInv' /\ SingleReader' /\ LateReadStable'
  BY <1>1, TablesKept
<1> QED
  BY <1>8, <1>9, <1>10, <1>11, <1>12, <1>13, <1>14 DEF IndInv

\* A sink that goes on in its goroutine leaves Execute where it is.
LEMMA ExecuteStays ==
  ASSUME IndInv, UNCHANGED <<parserVars, scriptVars>>,
         UNCHANGED <<state, dryRun, sourceIDs, sources, consumed, asts, at, err, errAt>>,
         phase # "vetting", ~Fresh, InSink' = InSink,
         Gone' = Gone
  PROVE  PhaseInv' /\ NamesInv' /\ OutcomeInv'
<1>1. UNCHANGED <<nodes, parse, phase, vetErr, vetAt>>
  BY DEF parserVars, scriptVars
<1>2. PhaseInv /\ NamesInv /\ OutcomeInv
  BY DEF IndInv
<1>3. PhaseInv'
  BY <1>1, <1>2 DEF PhaseInv
<1>4. NamesInv'
  <2>1. Done' = Done
    BY DEF Done
  <2> QED
    BY <1>1, <1>2, <2>1, NodesKept DEF NamesInv
<1>5. OutcomeInv'
  <2>1. /\ Outcome(vetErr, vetAt)' = Outcome(vetErr, vetAt)
        /\ Outcome(err, errAt)' = Outcome(err, errAt)
        /\ Failure(err, errAt)' = Failure(err, errAt)
    BY <1>1, NodesKept DEF Outcome, Failure
  <2> QED
    BY <1>1, <1>2, <2>1 DEF OutcomeInv
<1> QED
  BY <1>3, <1>4, <1>5

\* The record of one sink changes.
LEMMA TaskChanges ==
  ASSUME IndInv, NEW k \in DOMAIN tasks, NEW t \in Task, tasks' = [tasks EXCEPT ![k] = t]
  PROVE  /\ tasks' \in Seq(Task) /\ DOMAIN tasks' = DOMAIN tasks
         /\ \A j \in DOMAIN tasks : tasks'[j] = IF j = k THEN t ELSE tasks[j]
<1>1. tasks \in Seq(Task) /\ DOMAIN tasks = 1..Len(tasks)
  BY TaskFacts
<1>2. /\ tasks' \in Seq(Task) /\ Len(tasks') = Len(tasks)
      /\ \A j \in 1..Len(tasks) : tasks'[j] = IF j = k THEN t ELSE tasks[j]
  BY <1>1, ExceptSeq
<1>3. DOMAIN tasks' = DOMAIN tasks
  BY <1>1, <1>2, LenProperties
<1> QED
  BY <1>1, <1>2, <1>3

\* The goroutine of an asynchronous sink looks up its iterator.
LEMMA StartsStep ==
  ASSUME IndInv, NEW k \in DOMAIN tasks, TaskStarts(k), UNCHANGED <<parserVars, scriptVars>>
  PROVE  IndInv'
<1> DEFINE id0 == tasks[k].id
           t == [tasks[k] EXCEPT !.status = "reading", !.reads = SourceOf(id0)]
           U == {SourceOf(id0)}
<1>1. /\ tasks[k].status = "starting" /\ Attach(<<SourceOf(id0)>>, 0)
      /\ UNCHANGED <<state, dryRun, sourceIDs, sources, consumed, asts, at, err, errAt>>
      /\ tasks' = [tasks EXCEPT ![k] = t]
  BY DEF TaskStarts, LookedUp
<1>2. RuntimeTypeOK /\ HolderInv /\ SingleReader /\ WaitingInv /\ LateReadStable /\ SyncInv /\ PhaseInv /\ SlotInv
  BY DEF IndInv, TypeOK
<1>3. Waiting(k) /\ id0 \in Gone /\ tasks[k].named = SourceOf(id0) /\ id0 \in DOMAIN sourceIDs
  BY <1>1, <1>2, LiveIds DEF WaitingInv, Waiting
<1>4. SourceOf(id0) \in Nat
  BY <1>2, <1>3, Tables
<1>5. /\ tasks \in Seq(Task) /\ tasks[k] \in Task /\ tasks[k].async
  BY <1>1, TaskFacts
<1>6. /\ t \in Task /\ t.status = "reading" /\ t.async /\ t.id = id0 /\ t.named = t.reads
  BY <1>3, <1>4, <1>5 DEF Task
<1> HIDE DEF t
<1>7. /\ tasks' \in Seq(Task) /\ DOMAIN tasks' = DOMAIN tasks
      /\ \A j \in DOMAIN tasks : tasks'[j] = IF j = k THEN t ELSE tasks[j]
  BY <1>1, <1>6, TaskChanges
<1>8. /\ readers' \in Seq(Nat) /\ Len(readers') = Len(readers) /\ Len(readers) \in Nat
      /\ \A j \in 1..Len(readers) : readers'[j] = IF j \in U THEN readers[j] + 1 ELSE readers[j]
      /\ \A j \in (Len(readers) + 1)..Len(readers') : FALSE
  BY <1>1, <1>4, OneReader
<1>9. UNCHANGED <<nodes, parse, phase, vetErr, vetAt>>
  BY DEF parserVars, scriptVars
<1>10. Live' = Live /\ Gone' = Gone /\ \A id : SourceOf(id)' = SourceOf(id)
  BY <1>1 DEF Live, Gone, SourceOf
<1>11. \A j \in DOMAIN tasks' : Waiting(j)' => j # k /\ j \in DOMAIN tasks /\ Waiting(j) /\ tasks'[j] = tasks[j]
  BY <1>6, <1>7 DEF Waiting
<1>12. PhaseInv' /\ NamesInv' /\ OutcomeInv'
  <2>1. tasks # <<>>
    BY <1>5
  <2>2. ~Fresh /\ phase # "vetting"
    BY <1>2, <2>1 DEF Fresh, PhaseInv
  <2>3. InSink' = InSink
    BY <1>5, <1>6, <1>7 DEF InSink
  <2> QED
    BY <1>1, <1>10, <2>2, <2>3, ExecuteStays
<1>13. SyncInv'
  <2>1. Stmt' = Stmt
    BY <1>1 DEF Stmt
  <2> QED
    BY <1>1, <1>2, <1>6, <1>7, <2>1 DEF SyncInv
<1>14. TypeOK' /\ RuntimeTypeOK' /\ ParserInv'
  <2>1. RestTyped'
    BY <1>1, <1>7, NextTyped
  <2> QED
    BY <1>1, <1>2, <1>8, <2>1, TypesAfter DEF RuntimeTypeOK
<1>15. Len(readers) <= Len(readers')
  BY <1>8
<1>16. Holds(id0)
  BY <1>3 DEF Holds
<1>17. \A i \in U \ {0} : \E id \in DOMAIN sourceIDs : Holds(id) /\ SourceOf(id) = i
  BY <1>3, <1>16
<1>18. ASSUME NEW id \in DOMAIN sourceIDs', Holds(id)', SourceOf(id)' # 0
       PROVE  /\ id \in DOMAIN sourceIDs /\ Holds(id)
              /\ SourceOf(id)' = SourceOf(id) /\ SourceOf(id) \notin U
  <2>1. Holds(id) /\ id # id0
    <3>1. CASE id \in Live'
      BY <1>3, <1>10, <3>1, LiveIds DEF Holds
    <3>2. CASE \E j \in DOMAIN tasks' : Waiting(j)' /\ tasks'[j].id = id
      <4>1. PICK j \in DOMAIN tasks : Waiting(j) /\ j # k /\ tasks[j].id = id
        BY <1>11, <3>2
      <4>2. id # id0
        BY <1>2, <1>3, <4>1 DEF WaitingInv
      <4> QED
        BY <4>1, <4>2 DEF Holds
    <3> QED
      BY <1>18, <3>1, <3>2 DEF Holds
  <2>2. SourceOf(id) # SourceOf(id0)
    BY <1>1, <1>2, <1>3, <1>10, <1>16, <1>18, <2>1 DEF HolderInv
  <2> QED
    BY <1>1, <1>10, <1>18, <2>1, <2>2
<1> HIDE DEF U
<1>19. HolderInv' /\ SingleReader'
  BY <1>2, <1>8, <1>14, <1>15, <1>17, <1>18, HolderStep
<1>20. WaitingInv'
  BY <1>2, <1>10, <1>11 DEF WaitingInv
<1>21. LateReadStable'
  BY <1>2, <1>6, <1>7 DEF LateReadStable
<1>22. SlotInv'
  BY <1>1, <1>2 DEF SlotInv
<1>23. NothingLost'
  <2> SUFFICES ASSUME phase = "executing", err = "none", ~SelfAppend
               PROVE  \A i \in DOMAIN readers' : Owned(i)'
    BY <1>1, <1>9 DEF NothingLost, SelfAppend
  <2>1. \A i \in DOMAIN readers : Owned(i)
    BY DEF IndInv, NothingLost
  <2>2. \A id \in Live : id \in Live' /\ SourceOf(id)' = SourceOf(id)
    BY <1>10
  <2>3. \A j \in DOMAIN tasks : tasks[j].status = "starting" =>
          \/ tasks[j].named \in U
          \/ /\ j \in DOMAIN tasks' /\ tasks'[j].status = "starting"
             /\ tasks'[j].named = tasks[j].named
    BY <1>3, <1>7 DEF U
  <2> QED
    BY <1>2, <1>8, <1>14, <1>15, <2>1, <2>2, <2>3, LostStep
<1> QED
  BY <1>12, <1>13, <1>14, <1>19, <1>20, <1>21, <1>22, <1>23 DEF IndInv

\* A sink returns: one that has been asynchronous changes nothing else, Execute
\* goes on after a synchronous one, or returns its error.
LEMMA ReturnsStep ==
  ASSUME IndInv, NEW k \in DOMAIN tasks, TaskReturns(k), UNCHANGED <<parserVars, scriptVars>>
  PROVE  IndInv'
<1> DEFINE t == [tasks[k] EXCEPT !.status = "returned"]
           Stays == UNCHANGED <<at, asts, dryRun, err, errAt, state>>
<1>1. /\ tasks[k].status = "reading" /\ tasks' = [tasks EXCEPT ![k] = t]
      /\ UNCHANGED <<sourceIDs, sources, consumed, readers>>
      /\ \/ tasks[k].async /\ Stays
         \/ ~tasks[k].async /\ Advance
         \/ ~tasks[k].async /\ ReturnError("sink failed")
  BY DEF TaskReturns, Unchanged
<1>2. /\ RuntimeTypeOK /\ HolderInv /\ SingleReader /\ WaitingInv /\ LateReadStable /\ SyncInv
      /\ PhaseInv /\ SlotInv /\ NamesInv /\ OutcomeInv
  BY DEF IndInv, TypeOK
<1>3. tasks \in Seq(Task) /\ tasks[k] \in Task
  BY TaskFacts
<1>4. t \in Task /\ t.status = "returned" /\ t.async = tasks[k].async /\ t.id = tasks[k].id
      /\ t.named = tasks[k].named /\ t.reads = tasks[k].reads
  BY <1>3 DEF Task
<1> HIDE DEF t
<1>5. /\ tasks' \in Seq(Task) /\ DOMAIN tasks' = DOMAIN tasks
      /\ \A j \in DOMAIN tasks : tasks'[j] = IF j = k THEN t ELSE tasks[j]
  BY <1>1, <1>4, TaskChanges
<1>6. UNCHANGED <<nodes, parse, phase, vetErr, vetAt>>
  BY DEF parserVars, scriptVars
<1>7. Live' = Live /\ Gone' = Gone /\ \A id : SourceOf(id)' = SourceOf(id)
  BY <1>1 DEF Live, Gone, SourceOf
<1>8. \A j : Waiting(j)' = Waiting(j)
  BY <1>1, <1>4, <1>5 DEF Waiting
<1>9. \A id : Holds(id)' = Holds(id)
  BY <1>4, <1>5, <1>7, <1>8 DEF Holds, Waiting
<1>10. HolderInv' /\ SlotInv' /\ SingleReader'
  BY <1>1, <1>2, <1>7, <1>9 DEF HolderInv, SlotInv, SingleReader
<1>11. WaitingInv'
  BY <1>1, <1>2, <1>5, <1>7, <1>8, ZenonT(40) DEF WaitingInv, Waiting
<1>12. LateReadStable'
  BY <1>1, <1>2, <1>4, <1>5 DEF LateReadStable
<1>13. \A i : Owned(i)' = Owned(i)
  <2>1. \A i : (\E j \in DOMAIN tasks' : tasks'[j].status = "starting" /\ tasks'[j].named = i)
               <=> (\E j \in DOMAIN tasks : tasks[j].status = "starting" /\ tasks[j].named = i)
    BY <1>1, <1>4, <1>5
  <2>2. \A i : (\E id \in DOMAIN sourceIDs : SourceOf(id) = i /\ ~consumed[sourceIDs[id]])'
               <=> (\E id \in DOMAIN sourceIDs : SourceOf(id) = i /\ ~consumed[sourceIDs[id]])
    BY <1>1 DEF SourceOf
  <2>3. \A i : (readers[i] > 0)' <=> readers[i] > 0
    BY <1>1
  <2> QED
    BY <2>1, <2>2, <2>3, Zenon DEF Owned
<1>14. tasks # <<>> /\ phase # "vetting" /\ ~Fresh
  BY <1>2, <1>3 DEF PhaseInv, Fresh
<1>15. ASSUME ~tasks[k].async
       PROVE  /\ at \in 1..Len(asts) /\ Stmt.type = "sink" /\ InSink
              /\ \A j \in DOMAIN tasks' : tasks'[j].async \/ tasks'[j].status # "reading"
              /\ \A j \in DOMAIN tasks' : tasks'[j].status = "starting" => tasks'[j].async
              /\ asts = nodes /\ at \in Nat /\ Len(nodes) \in Nat
              /\ phase = "executing" /\ parse = "ok" /\ ~dryRun /\ err = "none"
              /\ state = "started"
              /\ DOMAIN sourceIDs = DefinedIn(nodes, at) /\ Gone = ConsumedIn(nodes, at)
              /\ NoErrorTo(at)
  <2>1. at \in 1..Len(asts) /\ Stmt.type = "sink" /\ InSink
    BY <1>1, <1>2, <1>15 DEF SyncInv, InSink
  <2>2. Len(asts) \in Nat
    BY <1>2, LenProperties DEF RuntimeTypeOK
  <2>3. at > 0 /\ at \in Nat
    BY <2>1, <2>2
  <2>4. Done = at
    BY <2>1 DEF Done
  <2>5. \A j \in DOMAIN tasks : ~tasks[j].async /\ tasks[j].status = "reading" => j = k
    BY <1>1, <1>2, <1>15 DEF SyncInv
  <2>6. \A j \in DOMAIN tasks : tasks[j].status = "starting" => tasks[j].async
    BY <1>2 DEF SyncInv
  <2>7. /\ \A j \in DOMAIN tasks' : tasks'[j].async \/ tasks'[j].status # "reading"
        /\ \A j \in DOMAIN tasks' : tasks'[j].status = "starting" => tasks'[j].async
    BY <1>4, <1>5, <2>5, <2>6
  <2>8. /\ phase \in {"vetting", "executing"} /\ dryRun = (phase = "vetting")
        /\ err = "none" /\ state = "started"
    BY <1>2, <2>3 DEF PhaseInv
  <2>9. parse = "ok" /\ asts = nodes
    BY <1>2, <2>8 DEF PhaseInv
  <2>10. /\ DOMAIN sourceIDs = DefinedIn(nodes, at) /\ Gone = ConsumedIn(nodes, at)
         /\ NoErrorTo(at)
    BY <1>2, <2>3, <2>4 DEF NamesInv
  <2> QED
    BY <1>14, <2>1, <2>2, <2>3, <2>7, <2>8, <2>9, <2>10
<1>16. CASE tasks[k].async /\ Stays
  <2>1. InSink' = InSink
    BY <1>4, <1>5, <1>16 DEF InSink
  <2>2. PhaseInv' /\ NamesInv' /\ OutcomeInv'
    BY <1>1, <1>7, <1>14, <1>16, <2>1, ExecuteStays
  <2>3. SyncInv'
    <3>1. Stmt' = Stmt
      BY <1>16 DEF Stmt
    <3> QED
      BY <1>2, <1>4, <1>5, <1>16, <3>1 DEF SyncInv
  <2>4. RestTyped'
    BY <1>5, <1>16, NextTyped
  <2>5. TypeOK' /\ ParserInv'
    BY <1>1, <1>2, <2>4, TypesAfter DEF RuntimeTypeOK
  <2>6. NothingLost'
    BY <1>1, <1>6, <1>13, <1>16 DEF IndInv, NothingLost, SelfAppend
  <2> QED
    BY <1>10, <1>11, <1>12, <2>2, <2>3, <2>5, <2>6 DEF IndInv
<1>17. CASE ~tasks[k].async /\ Advance
  <2>1. at' = at + 1 /\ UNCHANGED <<asts, dryRun, err, errAt, state>>
    BY <1>17 DEF Advance
  <2>2. ~InSink' /\ Done' = at /\ at' > 0
    <3>1. ~InSink'
      BY <1>15, <1>17 DEF InSink
    <3> QED
      BY <1>15, <1>17, <2>1, <3>1 DEF Done
  <2>3. PhaseInv'
    <3>1. /\ phase' = "executing" /\ parse' = "ok" /\ asts' = nodes'
          /\ err' = "none" /\ state' = "started"
      BY <1>6, <1>15, <1>17, <2>1
    <3>2. dryRun' = FALSE
      <4>1. dryRun \in BOOLEAN
        BY <1>2 DEF RuntimeTypeOK
      <4> QED
        BY <1>15, <1>17, <2>1, <4>1
    <3> QED
      BY <2>2, <3>1, <3>2 DEF PhaseInv
  <2>4. NamesInv'
    BY <1>1, <1>6, <1>7, <1>15, <1>17, <2>2, NodesKept DEF NamesInv
  <2>5. OutcomeInv'
    <3>1. Outcome(vetErr, vetAt)' = Outcome(vetErr, vetAt)
      BY <1>6, NodesKept DEF Outcome
    <3>2. Outcome(vetErr, vetAt)
      BY <1>2, <1>15, <1>17 DEF OutcomeInv
    <3>3. at' # 0
      BY <1>15, <1>17, <2>1
    <3> QED
      BY <1>6, <1>15, <1>17, <3>1, <3>2, <3>3 DEF OutcomeInv
  <2>6. SyncInv'
    BY <1>15, <1>17 DEF SyncInv
  <2>7. RestTyped'
    BY <1>5, <1>15, <1>17, NextTyped
  <2>8. TypeOK' /\ ParserInv'
    BY <1>1, <1>2, <2>7, TypesAfter DEF RuntimeTypeOK
  <2>9. NothingLost'
    BY <1>1, <1>6, <1>13, <2>1 DEF IndInv, NothingLost, SelfAppend
  <2> QED
    BY <1>10, <1>11, <1>12, <2>3, <2>4, <2>5, <2>6, <2>8, <2>9 DEF IndInv
<1>18. CASE ~tasks[k].async /\ ReturnError("sink failed")
  <2>1. StaticAt(at) = "none" /\ NoErrorTo(at - 1) /\ at \in 1..Len(nodes)
    <3>1. at \in 1..Len(nodes) /\ at \in Nat /\ Len(nodes) \in Nat
      BY <1>15, <1>18
    <3>2. at \in 1..at /\ \A m \in 1..(at - 1) : m \in 1..at
      BY <3>1
    <3> QED
      BY <1>15, <1>18, <3>1, <3>2 DEF NoErrorTo
  <2>2. "sink failed" \in Dynamic /\ "sink failed" \in Errors
    BY DEF Dynamic, Errors
  <2>3. PhaseInv' /\ SyncInv' /\ NamesInv' /\ OutcomeInv' /\ NothingLost'
    BY <1>14, <1>15, <1>18, <2>1, <2>2, StatementFailed
  <2>4. RestTyped'
    BY <1>5, <1>15, <1>18, <2>2, ErrorTyped
  <2>5. TypeOK' /\ ParserInv'
    BY <1>1, <1>2, <2>4, TypesAfter DEF RuntimeTypeOK
  <2> QED
    BY <1>10, <1>11, <1>12, <2>3, <2>5 DEF IndInv
<1> QED
  BY <1>1, <1>16, <1>17, <1>18

\* Start, and the two halves of Stop, change the state alone.
LEMMA StateStep ==
  ASSUME IndInv, UNCHANGED <<parserVars, scriptVars>>, at = 0,
         UNCHANGED <<sourceIDs, sources, consumed, readers, dryRun, asts, at, err, errAt, tasks>>,
         \/ phase \in {"vet", "exec"} /\ state' = "started"
         \/ phase \in {"vetting", "executing"} /\ state' \in {"stopping", "done"}
  PROVE  IndInv'
<1>1. UNCHANGED <<nodes, parse, phase, vetErr, vetAt>>
  BY DEF parserVars, scriptVars
<1>2. /\ SlotInv' /\ HolderInv' /\ WaitingInv' /\ SingleReader' /\ LateReadStable'
      /\ InSink' = InSink /\ \A i : Owned(i)' = Owned(i)
  BY TablesKept
<1>3. RuntimeTypeOK /\ PhaseInv /\ SyncInv /\ OutcomeInv /\ NothingLost
  BY DEF IndInv, TypeOK
<1>4. TypeOK' /\ ParserInv'
  <2>1. RestTyped'
    BY <1>3 DEF RestTyped, RuntimeTypeOK
  <2> QED
    BY <1>3, <2>1, TypesAfter DEF RuntimeTypeOK
<1>5. PhaseInv'
  <2>1. CASE phase \in {"vet", "exec"} /\ state' = "started"
    BY <1>1, <1>3, <2>1 DEF PhaseInv, Fresh
  <2>2. CASE phase \in {"vetting", "executing"}
    BY <1>1, <1>3, <2>2 DEF PhaseInv
  <2> QED
    BY <2>1, <2>2
<1>6. SyncInv'
  <2>1. Stmt' = Stmt
    BY DEF Stmt
  <2> QED
    BY <1>3, <2>1 DEF SyncInv
<1>7. NamesInv'
  BY DEF NamesInv
<1>8. OutcomeInv'
  <2>1. /\ Outcome(vetErr, vetAt)' = Outcome(vetErr, vetAt)
        /\ Outcome(err, errAt)' = Outcome(err, errAt)
        /\ Failure(err, errAt)' = Failure(err, errAt)
    BY <1>1, NodesKept DEF Outcome, Failure
  <2> QED
    BY <1>1, <1>3, <2>1 DEF OutcomeInv
<1>9. NothingLost'
  BY <1>1, <1>2, <1>3 DEF NothingLost, SelfAppend
<1> QED
  BY <1>2, <1>4, <1>5, <1>6, <1>7, <1>8, <1>9 DEF IndInv

-----------------------------------------------------------------------------
(* The steps of the commands *)

\* A runtime that has executed nothing satisfies what is said of its tables.
LEMMA FreshFacts ==
  ASSUME Fresh
  PROVE  SyncInv /\ SlotInv /\ NamesInv /\ HolderInv /\ WaitingInv /\ SingleReader
         /\ LateReadStable /\ NothingLost /\ Gone = {} /\ DOMAIN sourceIDs = {} /\ ~InSink
<1>1. /\ DOMAIN sourceIDs = {} /\ DOMAIN tasks = {} /\ DOMAIN readers = {} /\ at = 0
  BY DEF Fresh
<1>2. SyncInv /\ SlotInv /\ HolderInv /\ WaitingInv /\ LateReadStable
  BY <1>1 DEF SyncInv, SlotInv, HolderInv, WaitingInv, LateReadStable, Waiting
<1>3. NamesInv /\ SingleReader /\ NothingLost
  BY <1>1 DEF NamesInv, SingleReader, NothingLost
<1>4. Gone = {} /\ ~InSink
  BY <1>1 DEF Gone, InSink
<1> QED
  BY <1>1, <1>2, <1>3, <1>4

LEMMA FreshTyped ==
  ASSUME Fresh, asts \in Seq(Statement)
  PROVE  RuntimeTypeOK
<1>1. Len(asts) \in Nat /\ at = 0 /\ errAt = 0
  BY LenProperties DEF Fresh
<1>2. at \in 0..(Len(asts) + 1) /\ errAt \in 0..Len(asts)
  BY <1>1
<1>3. /\ sources \in Seq(0..Len(readers)) /\ consumed \in Seq(BOOLEAN)
      /\ Len(consumed) = Len(sources) /\ readers \in Seq(Nat) /\ tasks \in Seq(Task)
      /\ DOMAIN sourceIDs = {}
  BY DEF Fresh
<1>4. state \in {"created", "started", "stopping", "done"} /\ err \in Errors
  BY DEF Fresh, Errors
<1>5. dryRun \in BOOLEAN
  BY DEF Fresh
<1> QED
  BY <1>2, <1>3, <1>4, <1>5 DEF RuntimeTypeOK

LEMMA InitStep == Init => IndInv
<1> SUFFICES ASSUME Init PROVE IndInv
  OBVIOUS
<1>1. Fresh /\ asts = <<>> /\ asts \in Seq(Statement)
  BY DEF Init, RuntimeInit, Fresh
<1>2. /\ nodes = <<>> /\ psources = {} /\ pconsumed = {} /\ psinks = {} /\ parse = "parsing"
      /\ phase = "parse" /\ vetErr = "none" /\ vetAt = 0
  BY DEF Init, ParserInit
<1>3. ParserTypeOK
  BY <1>2 DEF ParserTypeOK
<1>4. ParserInv
  <2>1. Len(nodes) = 0 /\ 1..Len(nodes) = {}
    BY <1>2
  <2>2. psources = DefinedIn(nodes, Len(nodes)) /\ pconsumed = ConsumedIn(nodes, Len(nodes))
    BY <1>2, <2>1, NoneYet
  <2> QED
    BY <2>1, <2>2, MaxStatementsAssumption DEF ParserInv
<1>5. TypeOK
  <2>1. vetErr \in Errors /\ vetAt \in 0..MaxStatements
    BY <1>2, MaxStatementsAssumption DEF Errors
  <2> QED
    BY <1>1, <1>2, <1>3, <2>1, FreshTyped DEF TypeOK
<1>6. PhaseInv
  BY <1>1, <1>2 DEF PhaseInv, Fresh
<1>7. OutcomeInv
  BY <1>2 DEF OutcomeInv
<1> QED
  BY <1>1, <1>4, <1>5, <1>6, <1>7, FreshFacts DEF IndInv

LEMMA ParseFileStep == ASSUME IndInv, ParseFile PROVE IndInv'
<1>1. /\ phase = "parse" /\ Parse
      /\ UNCHANGED <<state, dryRun, sourceIDs, sources, consumed, readers, asts, at, err, errAt, tasks>>
      /\ vetErr' = vetErr /\ vetAt' = vetAt
  BY DEF ParseFile, runtimeVars
<1>2. ParserTypeOK /\ ParserInv /\ PhaseInv /\ RuntimeTypeOK
      /\ vetErr \in Errors /\ vetAt \in 0..MaxStatements
  BY DEF IndInv, TypeOK
<1>3. ParserTypeOK' /\ ParserInv'
  BY <1>1, <1>2, ParserStep
<1>4. Fresh /\ Fresh'
  BY <1>1, <1>2 DEF PhaseInv, Fresh
<1>5. parse' \in {"parsing", "ok", "error"}
  BY <1>3 DEF ParserTypeOK
<1>6. /\ parse' = "parsing" => phase' = "parse"
      /\ parse' = "ok" => phase' = "vet"
      /\ parse' = "error" => phase' = "done"
  BY <1>5 DEF ParseFile
<1>7. TypeOK'
  <2>1. RuntimeTypeOK'
    BY <1>1, <1>2 DEF RuntimeTypeOK
  <2> QED
    BY <1>1, <1>2, <1>3, <1>5, <1>6, <2>1 DEF TypeOK
<1>8. PhaseInv'
  <2>1. at' = 0
    BY <1>4 DEF Fresh
  <2> QED
    BY <1>4, <1>5, <1>6, <2>1 DEF PhaseInv
<1>9. OutcomeInv'
  BY <1>5, <1>6 DEF OutcomeInv
<1>10. /\ SyncInv' /\ SlotInv' /\ NamesInv' /\ HolderInv' /\ WaitingInv' /\ SingleReader'
       /\ LateReadStable' /\ NothingLost'
  BY <1>4, FreshFacts, PTL
<1> QED
  BY <1>3, <1>7, <1>8, <1>9, <1>10 DEF IndInv

LEMMA StartStep == ASSUME IndInv, StartRuntime PROVE IndInv'
<1>1. /\ phase \in {"vet", "exec"} /\ state' = "started" /\ at = 0
      /\ UNCHANGED <<sourceIDs, sources, consumed, readers, dryRun, asts, at, err, errAt, tasks>>
      /\ UNCHANGED <<parserVars, scriptVars>>
  BY DEF StartRuntime, Start, Unchanged
<1> QED
  BY <1>1, StateStep

LEMMA StopStep ==
  ASSUME IndInv, StopRuntime \/ (Run /\ StopEnds)
  PROVE  IndInv'
<1>1. /\ phase \in {"vetting", "executing"} /\ state' \in {"stopping", "done"}
      /\ UNCHANGED <<sourceIDs, sources, consumed, readers, dryRun, asts, at, err, errAt, tasks>>
      /\ UNCHANGED <<parserVars, scriptVars>>
  BY DEF StopRuntime, StopBegins, Run, StopEnds, Unchanged
<1>2. at = 0
  <2>1. CASE StopRuntime
    BY <2>1 DEF StopRuntime, StopBegins
  <2>2. CASE StopEnds
    <3>1. state = "stopping" /\ PhaseInv /\ RuntimeTypeOK
      BY <2>2 DEF StopEnds, IndInv, TypeOK
    <3>2. ~(at > 0)
      BY <3>1 DEF PhaseInv
    <3>3. at \in Nat
      BY <3>1, LenProperties DEF RuntimeTypeOK
    <3> QED
      BY <3>2, <3>3
  <2> QED
    BY <2>1, <2>2
<1> QED
  BY <1>1, <1>2, StateStep

LEMMA LaunchStep == ASSUME IndInv, Launch PROVE IndInv'
<1>1. /\ phase \in {"vet", "exec"} /\ state = "started" /\ state' = state /\ tasks' = tasks
      /\ asts' = nodes /\ err' = "none" /\ errAt' = 0
      /\ at' = IF nodes # <<>> THEN 1 ELSE 0
      /\ UNCHANGED <<sourceIDs, sources, consumed, readers>>
      /\ UNCHANGED <<nodes, psources, pconsumed, psinks, parse>>
      /\ phase' = IF phase = "vet" THEN "vetting" ELSE "executing"
      /\ vetErr' = vetErr /\ vetAt' = vetAt
  BY DEF Launch, Begin, Unchanged, parserVars
<1>2. dryRun' = (phase = "vet" /\ nodes # <<>>)
  BY <1>1 DEF Launch, Begin
<1>3. /\ ParserTypeOK /\ ParserInv /\ RuntimeTypeOK /\ vetErr \in Errors /\ vetAt \in 0..MaxStatements
      /\ PhaseInv /\ OutcomeInv
  BY DEF IndInv, TypeOK
<1>4. Fresh /\ parse = "ok"
  BY <1>1, <1>3 DEF PhaseInv
<1>5. /\ SlotInv /\ Gone = {} /\ DOMAIN sourceIDs = {}
      /\ ~InSink /\ tasks = <<>> /\ readers = <<>>
  BY <1>4, FreshFacts DEF Fresh
<1>6. nodes \in Seq(Statement) /\ Len(nodes) \in Nat /\ (nodes = <<>> => Len(nodes) = 0)
      /\ (nodes # <<>> => Len(nodes) > 0)
  BY <1>3, EmptySeq, LenProperties DEF ParserTypeOK
<1>7. UNCHANGED parserVars
  BY <1>1 DEF parserVars
<1>8. ParserTypeOK' /\ ParserInv'
  BY <1>3, <1>7, NodesKept
<1>9. phase' \in {"vetting", "executing"} /\ (phase' = "vetting" <=> phase = "vet")
  BY <1>1
<1>10. TypeOK'
  <2>1. RestTyped'
    <3>1. at' \in 0..(Len(asts') + 1) /\ errAt' \in 0..Len(asts')
      BY <1>1, <1>6
    <3>2. state' \in {"created", "started", "stopping", "done"} /\ asts' \in Seq(Statement)
          /\ err' \in Errors /\ tasks' \in Seq(Task)
      BY <1>1, <1>5, <1>6 DEF Errors
    <3>3. dryRun' \in BOOLEAN
      BY <1>2
    <3> QED
      BY <3>1, <3>2, <3>3 DEF RestTyped
  <2>2. RuntimeTypeOK'
    BY <1>1, <1>3, <2>1 DEF RestTyped, RuntimeTypeOK
  <2> QED
    BY <1>1, <1>3, <1>8, <1>9, <2>2 DEF TypeOK
<1>11. PhaseInv'
  <2>1. parse' = "ok" /\ asts' = nodes' /\ tasks' = <<>> /\ err' = "none" /\ state' = "started"
    BY <1>1, <1>4, <1>5
  <2>2. at' > 0 => dryRun' = (phase' = "vetting")
    <3> SUFFICES ASSUME at' > 0 PROVE dryRun' = (phase' = "vetting")
      OBVIOUS
    <3>1. nodes # <<>>
      BY <1>1
    <3>2. CASE phase = "vet"
      <4>1. dryRun' = TRUE
        BY <1>2, <3>1, <3>2
      <4>2. phase' = "vetting"
        BY <1>9, <3>2
      <4> QED
        BY <4>1, <4>2
    <3>3. CASE phase # "vet"
      <4>1. dryRun' = FALSE
        BY <1>2, <3>3
      <4>2. phase' # "vetting"
        BY <1>9, <3>3
      <4> QED
        BY <4>1, <4>2
    <3> QED
      BY <3>2, <3>3
  <2> QED
    BY <1>9, <2>1, <2>2 DEF PhaseInv
<1>12. NamesInv'
  <2> SUFFICES ASSUME at' > 0
               PROVE  /\ DOMAIN sourceIDs' = DefinedIn(nodes', Done') /\ Gone' = ConsumedIn(nodes', Done')
                      /\ NoErrorTo(Done)'
    BY DEF NamesInv
  <2>1. at' = 1
    BY <1>1
  <2>2. ~InSink' /\ Gone' = {} /\ DOMAIN sourceIDs' = {}
    BY <1>1, <1>5 DEF InSink, Gone
  <2>3. Done' = 0
    BY <2>1, <2>2 DEF Done
  <2>4. NoErrorTo(Done)'
    BY <2>3 DEF NoErrorTo
  <2> QED
    BY <2>2, <2>3, <2>4, NoneYet
<1>13. OutcomeInv'
  <2>1. at' = 0 => Outcome(err, errAt)'
    <3> SUFFICES ASSUME at' = 0 PROVE Outcome(err, errAt)'
      OBVIOUS
    <3>1. Len(nodes') = 0
      BY <1>1, <1>6
    <3>2. NoErrorTo(Len(nodes))'
      BY <3>1 DEF NoErrorTo
    <3> QED
      BY <1>1, <3>2 DEF Outcome
  <2>2. phase = "exec" => Outcome(vetErr, vetAt)
    BY <1>3 DEF OutcomeInv
  <2>3. Outcome(vetErr, vetAt)' = Outcome(vetErr, vetAt)
    BY <1>1, <1>7, NodesKept DEF Outcome
  <2> QED
    BY <1>1, <1>9, <2>1, <2>2, <2>3 DEF OutcomeInv
<1>14. NothingLost'
  BY <1>1, <1>5 DEF NothingLost
<1>15. SyncInv'
  BY <1>1, <1>5 DEF SyncInv
<1>16. SlotInv' /\ HolderInv' /\ WaitingInv' /\ SingleReader' /\ LateReadStable'
  BY <1>1, TablesKept
<1> QED
  BY <1>8, <1>10, <1>11, <1>12, <1>13, <1>14, <1>15, <1>16 DEF IndInv

LEMMA ExecNextStep == ASSUME IndInv, ExecNext PROVE IndInv'
<1>1. /\ phase = "vetting" /\ state = "done" /\ phase' = "exec"
      /\ vetErr' = err /\ vetAt' = errAt /\ NewRuntime
      /\ UNCHANGED <<nodes, psources, pconsumed, psinks, parse>>
  BY DEF ExecNext, parserVars
<1>2. ParserTypeOK /\ ParserInv /\ RuntimeTypeOK /\ PhaseInv /\ OutcomeInv
  BY DEF IndInv, TypeOK
<1>3. at = 0 /\ parse = "ok" /\ asts = nodes
  <2>1. parse = "ok" /\ asts = nodes /\ ~(at > 0)
    BY <1>1, <1>2 DEF PhaseInv
  <2>2. at \in Nat
    BY <1>2, LenProperties DEF RuntimeTypeOK
  <2> QED
    BY <2>1, <2>2
<1>4. Outcome(err, errAt)
  BY <1>1, <1>2, <1>3 DEF OutcomeInv
<1>5. UNCHANGED parserVars
  BY <1>1 DEF parserVars
<1>6. ParserTypeOK' /\ ParserInv'
  BY <1>2, <1>5, NodesKept
<1>7. Fresh' /\ asts' = <<>> /\ state' = "created"
  BY <1>1 DEF NewRuntime, Fresh
<1>8. TypeOK'
  <2>1. vetErr' \in Errors /\ vetAt' \in 0..MaxStatements
    <3>1. err \in Errors /\ errAt \in 0..Len(asts) /\ Len(asts) \in Nat /\ Len(asts) <= MaxStatements
      BY <1>2, <1>3, LenProperties DEF RuntimeTypeOK, ParserInv
    <3> QED
      BY <1>1, <3>1, MaxStatementsAssumption
  <2>2. asts' \in Seq(Statement)
    BY <1>7
  <2>3. RuntimeTypeOK'
    <3>1. at' = 0 /\ errAt' = 0 /\ Len(asts') = 0 /\ err' = "none" /\ dryRun' = FALSE
      BY <1>7 DEF Fresh
    <3>2. at' \in 0..(Len(asts') + 1) /\ errAt' \in 0..Len(asts')
      BY <3>1
    <3>4. err' \in Errors
      BY <3>1 DEF Errors
    <3>5. dryRun' \in BOOLEAN
      BY <3>1
    <3>3. /\ sources' \in Seq(0..Len(readers')) /\ consumed' \in Seq(BOOLEAN)
          /\ Len(consumed') = Len(sources') /\ readers' \in Seq(Nat) /\ tasks' \in Seq(Task)
          /\ DOMAIN sourceIDs' = {}
      BY <1>7 DEF Fresh
    <3> QED
      BY <1>7, <2>2, <3>2, <3>3, <3>4, <3>5 DEF RuntimeTypeOK
  <2> QED
    BY <1>1, <1>6, <2>1, <2>3 DEF TypeOK
<1>9. PhaseInv'
  <2>1. at' = 0
    BY <1>7 DEF Fresh
  <2> QED
    BY <1>1, <1>3, <1>7, <2>1 DEF PhaseInv
<1>10. OutcomeInv'
  <2>1. Outcome(vetErr, vetAt)'
    <3>1. Len(nodes)' = Len(nodes)
      BY <1>1
    <3> QED
      BY <1>1, <1>4, <1>5, <3>1, NodesKept DEF Outcome
  <2>2. at' = 0 /\ phase' = "exec"
    BY <1>1, <1>7 DEF Fresh
  <2> QED
    BY <2>1, <2>2 DEF OutcomeInv
<1>11. /\ SyncInv' /\ SlotInv' /\ NamesInv' /\ HolderInv' /\ WaitingInv' /\ SingleReader'
       /\ LateReadStable' /\ NothingLost'
  BY <1>7, FreshFacts, PTL
<1> QED
  BY <1>6, <1>8, <1>9, <1>10, <1>11 DEF IndInv

LEMMA FinishStep == ASSUME IndInv, Finish PROVE IndInv'
<1>1. /\ phase = "executing" /\ state = "done" /\ phase' = "done" /\ vetErr' = vetErr /\ vetAt' = vetAt
      /\ UNCHANGED <<state, dryRun, sourceIDs, sources, consumed, readers, asts, at, err, errAt, tasks>>
      /\ UNCHANGED parserVars /\ UNCHANGED <<nodes, parse>>
  BY DEF Finish, runtimeVars, parserVars
<1>2. /\ ParserTypeOK /\ ParserInv /\ RuntimeTypeOK /\ PhaseInv /\ OutcomeInv /\ SyncInv
      /\ vetErr \in Errors /\ vetAt \in 0..MaxStatements
  BY DEF IndInv, TypeOK
<1>3. at = 0 /\ parse = "ok" /\ asts = nodes
  <2>1. parse = "ok" /\ asts = nodes /\ ~(at > 0)
    BY <1>1, <1>2 DEF PhaseInv
  <2>2. at \in Nat
    BY <1>2, LenProperties DEF RuntimeTypeOK
  <2> QED
    BY <2>1, <2>2
<1>4. ParserTypeOK' /\ ParserInv'
  BY <1>1, <1>2, NodesKept
<1>5. TypeOK'
  <2>1. RuntimeTypeOK'
    BY <1>1, <1>2 DEF RuntimeTypeOK
  <2> QED
    BY <1>1, <1>2, <1>4, <2>1 DEF TypeOK
<1>6. PhaseInv'
  BY <1>1, <1>3 DEF PhaseInv
<1>7. OutcomeInv'
  <2>1. /\ Outcome(vetErr, vetAt)' = Outcome(vetErr, vetAt)
        /\ Outcome(err, errAt)' = Outcome(err, errAt)
        /\ Failure(err, errAt)' = Failure(err, errAt)
    BY <1>1, NodesKept DEF Outcome, Failure
  <2> QED
    BY <1>1, <1>2, <1>3, <2>1 DEF OutcomeInv
<1>8. SyncInv'
  <2>1. Stmt' = Stmt
    BY <1>1 DEF Stmt
  <2> QED
    BY <1>1, <1>2, <2>1 DEF SyncInv
<1>9. NamesInv' /\ NothingLost'
  BY <1>1, <1>3 DEF NamesInv, NothingLost
<1>10. SlotInv' /\ HolderInv' /\ WaitingInv' /\ SingleReader' /\ LateReadStable'
  BY <1>1, TablesKept
<1> QED
  BY <1>4, <1>5, <1>6, <1>7, <1>8, <1>9, <1>10 DEF IndInv

\* Nothing happens.
LEMMA StutterStep == ASSUME IndInv, UNCHANGED vars PROVE IndInv'
<1>1. /\ UNCHANGED <<state, dryRun, sourceIDs, sources, consumed, readers, asts, at, err, errAt, tasks>>
      /\ UNCHANGED parserVars /\ UNCHANGED <<nodes, parse, phase, vetErr, vetAt>>
  BY DEF vars, parserVars, runtimeVars, scriptVars
<1>2. /\ ParserTypeOK /\ ParserInv /\ RuntimeTypeOK /\ PhaseInv /\ OutcomeInv /\ SyncInv
      /\ NamesInv /\ NothingLost
      /\ vetErr \in Errors /\ vetAt \in 0..MaxStatements
      /\ phase \in {"parse", "vet", "vetting", "exec", "executing", "done"}
  BY DEF IndInv, TypeOK
<1>3. /\ SlotInv' /\ HolderInv' /\ WaitingInv' /\ SingleReader' /\ LateReadStable'
      /\ Gone' = Gone /\ InSink' = InSink /\ \A i : Owned(i)' = Owned(i)
  BY <1>1, TablesKept
<1>4. TypeOK' /\ ParserInv'
  <2>1. RuntimeTypeOK' /\ ParserTypeOK' /\ ParserInv'
    BY <1>1, <1>2, NodesKept DEF RuntimeTypeOK
  <2> QED
    BY <1>1, <1>2, <2>1 DEF TypeOK
<1>5. PhaseInv'
  BY <1>1, <1>2 DEF PhaseInv, Fresh
<1>6. SyncInv'
  <2>1. Stmt' = Stmt
    BY <1>1 DEF Stmt
  <2> QED
    BY <1>1, <1>2, <2>1 DEF SyncInv
<1>7. NamesInv'
  <2>1. Done' = Done
    BY <1>1, <1>3 DEF Done
  <2> QED
    BY <1>1, <1>2, <1>3, <2>1, NodesKept DEF NamesInv
<1>8. OutcomeInv'
  <2>1. /\ Outcome(vetErr, vetAt)' = Outcome(vetErr, vetAt)
        /\ Outcome(err, errAt)' = Outcome(err, errAt)
        /\ Failure(err, errAt)' = Failure(err, errAt)
    BY <1>1, NodesKept DEF Outcome, Failure
  <2> QED
    BY <1>1, <1>2, <2>1 DEF OutcomeInv
<1>9. NothingLost'
  BY <1>1, <1>2, <1>3 DEF NothingLost, SelfAppend
<1> QED
  BY <1>3, <1>4, <1>5, <1>6, <1>7, <1>8, <1>9 DEF IndInv

-----------------------------------------------------------------------------
(* The theorems *)

\* The invariant of the parser and of the two runtimes (ast.go, runtime.go).
THEOREM ScriptInductive == Spec => []IndInv
<1>1. Init => IndInv
  BY InitStep
<1>2. IndInv /\ [Next]_vars => IndInv'
  <2> SUFFICES ASSUME IndInv, [Next]_vars PROVE IndInv'
    OBVIOUS
  <2>1. CASE ParseFile
    BY <2>1, ParseFileStep
  <2>2. CASE StartRuntime
    BY <2>2, StartStep
  <2>3. CASE Launch
    BY <2>3, LaunchStep
  <2>4. CASE Run
    <3>1. UNCHANGED <<parserVars, scriptVars>> /\ RuntimeStep
      BY <2>4 DEF Run
    <3>2. CASE ExecSource
      BY <3>1, <3>2, SourceStep
    <3>3. CASE ExecSinkFails
      BY <3>1, <3>3, SinkFailsStep
    <3>4. CASE ExecSink
      BY <3>1, <3>4, SinkStep
    <3>5. CASE ExecMerge
      BY <3>1, <3>5, MergeStep
    <3>6. CASE ExecBranch
      BY <3>1, <3>6, BranchStep
    <3>7. CASE ExecAppend
      BY <3>1, <3>7, AppendStep
    <3>8. CASE ExecWrap
      BY <3>1, <3>8, WrapStep
    <3>9. CASE ExecEol
      BY <3>1, <3>9, EolStep
    <3>10. CASE ExecEnd
      BY <3>1, <3>10, EndStep
    <3>11. ASSUME NEW k \in DOMAIN tasks, TaskStarts(k) PROVE IndInv'
      BY <3>1, <3>11, StartsStep
    <3>12. ASSUME NEW k \in DOMAIN tasks, TaskReturns(k) PROVE IndInv'
      BY <3>1, <3>12, ReturnsStep
    <3>13. CASE StopEnds
      BY <2>4, <3>13, StopStep
    <3> QED
      BY <3>1, <3>2, <3>3, <3>4, <3>5, <3>6, <3>7, <3>8, <3>9, <3>10, <3>11, <3>12, <3>13
         DEF RuntimeStep
  <2>5. CASE StopRuntime
    BY <2>5, StopStep
  <2>6. CASE ExecNext
    BY <2>6, ExecNextStep
  <2>7. CASE Finish
    BY <2>7, FinishStep
  <2>8. CASE UNCHANGED vars
    BY <2>8, StutterStep
  <2> QED
    BY <2>1, <2>2, <2>3, <2>4, <2>5, <2>6, <2>7, <2>8 DEF Next, Terminated
<1> QED
  BY <1>1, <1>2, PTL DEF Spec

\* Every variable has its type, in every run of the commands.
THEOREM ScriptTypeCorrect == Spec => []TypeOK
<1>1. IndInv => TypeOK
  BY DEF IndInv
<1> QED
  BY <1>1, ScriptInductive, PTL

\* No iterator gets two readers (runtime.go: markConsumed before a reader is
\* made, validateExistingSourceID before that).
THEOREM ScriptSingleReader == Spec => []SingleReader
<1>1. IndInv => SingleReader
  BY DEF IndInv
<1> QED
  BY <1>1, ScriptInductive, PTL

\* An asynchronous sink finds the iterator of its statement, however late its
\* goroutine runs (runtime.go, the sink statement of execute).
THEOREM ScriptLateReadStable == Spec => []LateReadStable
<1>1. IndInv => LateReadStable
  BY DEF IndInv
<1> QED
  BY <1>1, ScriptInductive, PTL

\* No iterator is lost while a script that does not append a stream to itself
\* goes well (runtime.go, execute).
THEOREM ScriptNothingLost == Spec => []NothingLost
<1>1. IndInv => NothingLost
  BY DEF IndInv
<1> QED
  BY <1>1, ScriptInductive, PTL

\* The errors that a statement can have.
LEMMA StaticCases ==
  ASSUME NEW n, NEW e, StaticAt(n) = e, e # "none"
  PROVE  /\ e \notin {"defined", "empty", "state"}
         /\ e = "undefined" => nodes[n].type = "cut"
         /\ e = "consumed" => nodes[n].type = "append"
BY DEF StaticAt, StaticError, ClassError

\* Of the rules about identifiers the parser (ast.go) leaves two to the runtime.
THEOREM ScriptParserChecksNames == Spec => []ParserChecksNames
<1>1. IndInv => ParserChecksNames
  <2> SUFFICES ASSUME IndInv PROVE ParserChecksNames
    OBVIOUS
  <2>1. CASE err = "none"
    BY <2>1 DEF ParserChecksNames
  <2>2. CASE err # "none"
    <3>1. PhaseInv /\ OutcomeInv /\ TypeOK
      BY DEF IndInv
    <3>2. ~Fresh /\ ~(at > 0)
      BY <2>2, <3>1 DEF PhaseInv, Fresh
    <3>3. at = 0
      <4>1. at \in Nat
        BY <3>1, LenProperties DEF TypeOK, RuntimeTypeOK
      <4> QED
        BY <3>2, <4>1
    <3>4. \/ phase = "vetting"
          \/ phase \in {"executing", "done"} /\ parse = "ok"
      BY <3>1, <3>2 DEF TypeOK, PhaseInv
    <3>5. Outcome(err, errAt) \/ Failure(err, errAt)
      BY <3>1, <3>3, <3>4 DEF OutcomeInv
    <3>6. CASE Outcome(err, errAt)
      <4>1. StaticAt(errAt) = err
        BY <2>2, <3>6 DEF Outcome
      <4> QED
        BY <2>2, <4>1, StaticCases DEF ParserChecksNames
    <3>7. CASE Failure(err, errAt)
      BY <3>7 DEF Failure, Dynamic, ParserChecksNames
    <3> QED
      BY <3>5, <3>6, <3>7
  <2> QED
    BY <2>1, <2>2
<1> QED
  BY <1>1, ScriptInductive, PTL

\* vet predicts exec in all that depends on the script alone (main.go: doVet,
\* doExec; runtime.go: DryRun, Execute).
THEOREM ScriptVetPredictsStatic == Spec => []VetPredictsStatic
<1>1. IndInv => VetPredictsStatic
  <2> SUFFICES ASSUME IndInv, Executed
               PROVE  \/ err = vetErr /\ errAt = vetAt
                      \/ err \in Dynamic /\ (vetErr = "none" \/ errAt <= vetAt)
    BY DEF VetPredictsStatic
  <2>1. Outcome(vetErr, vetAt) /\ (Outcome(err, errAt) \/ Failure(err, errAt))
    BY DEF IndInv, OutcomeInv, Executed
  <2>2. Len(nodes) \in Nat
    BY LenProperties DEF IndInv, TypeOK, ParserTypeOK
  <2>3. ASSUME NEW m \in 1..Len(nodes), NEW n \in 1..Len(nodes), StaticAt(m) # "none",
               NoErrorTo(n)
        PROVE  n < m
    BY <2>2, <2>3 DEF NoErrorTo
  <2>4. ASSUME NEW m \in 1..Len(nodes), NEW n \in 1..Len(nodes), StaticAt(m) # "none",
               NoErrorTo(n - 1)
        PROVE  n <= m
    BY <2>2, <2>4 DEF NoErrorTo
  <2>5. ASSUME NEW m \in 1..Len(nodes), StaticAt(m) # "none" PROVE ~NoErrorTo(Len(nodes))
    BY <2>2, <2>5 DEF NoErrorTo
  <2>6. CASE Outcome(err, errAt)
    <3>1. CASE err = "none" \/ vetErr = "none"
      BY <2>1, <2>5, <2>6, <3>1 DEF Outcome
    <3>2. CASE err # "none" /\ vetErr # "none"
      <4>1. /\ errAt \in 1..Len(nodes) /\ StaticAt(errAt) = err /\ NoErrorTo(errAt - 1)
            /\ vetAt \in 1..Len(nodes) /\ StaticAt(vetAt) = vetErr /\ NoErrorTo(vetAt - 1)
        BY <2>1, <2>6, <3>2 DEF Outcome
      <4>2. errAt <= vetAt /\ vetAt <= errAt
        BY <2>4, <3>2, <4>1
      <4>3. errAt = vetAt
        BY <2>2, <4>1, <4>2
      <4> QED
        BY <4>1, <4>3
    <3> QED
      BY <3>1, <3>2
  <2>7. CASE Failure(err, errAt)
    <3>1. CASE vetErr = "none"
      BY <2>7, <3>1 DEF Failure
    <3>2. CASE vetErr # "none"
      <4>1. /\ errAt \in 1..Len(nodes) /\ NoErrorTo(errAt) /\ err \in Dynamic
            /\ vetAt \in 1..Len(nodes) /\ StaticAt(vetAt) # "none"
        BY <2>1, <2>7, <3>2 DEF Outcome, Failure
      <4>2. errAt < vetAt
        BY <2>3, <4>1
      <4> QED
        BY <2>2, <4>1, <4>2
    <3> QED
      BY <3>1, <3>2
  <2> QED
    BY <2>1, <2>6, <2>7
<1> QED
  BY <1>1, ScriptInductive, PTL

=============================================================================
