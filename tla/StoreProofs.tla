---------------------------- MODULE StoreProofs ----------------------------
(***************************************************************************)
(* Proofs about a session with sinks of the store plugin, for every script,*)
(* every number of sinks and every input: a store is closed only when no   *)
(* sink uses it, what is opened is closed, and what a sink leaves out is   *)
(* explained.                                                              *)
(*                                                                         *)
(* The argument has four parts.  MainInv follows the wait group: a sink is *)
(* called only by its statement, and an asynchronous one is counted until  *)
(* it has returned; so no sink is running once the plugins are stopped.    *)
(* StoreInv follows the map of the plugin: a store that is the only one is *)
(* in the map, or still in the hand of the sink that opened it.  RowsInv   *)
(* counts rows against entries.  ColumnsInv says what a sink knows of its  *)
(* table: all of it, as long as no other sink has been called.             *)
(***************************************************************************)
EXTENDS Store, FiniteSetTheorems, SequenceTheorems, TLAPS

\* Where a sink has a connection, and where it is running.
Connected == {"ensure", "columns", "next", "check", "fields"}
Running == {"lookup", "cache", "conn"} \cup Connected

\* The fields of the input of a sink, and of all.
Fields(s) == UNION ToSet(input[s])
AllFields == UNION {Fields(s) : s \in Sinks}

\* The first n rows, in order.
FirstRows(n) == [k \in 1..n |-> k]

\* The types of the variables of the sinks and of the database.
SinkTypeInv ==
  /\ input \in Inputs /\ table \in Targets
  /\ columns \in [Table -> SUBSET AllFields]
  /\ colMap \in [Sinks -> SUBSET AllFields]
  /\ rows \in [Sinks -> Seq(Nat)]
  /\ sink \in [Sinks -> {"idle", "returned"} \cup Running]
  /\ draining \in [Sinks -> 0..2]
  /\ result \in [Sinks -> {"none", "ok", "error", "undrained"}]
  /\ conns \subseteq Sinks /\ cancelSeen \subseteq Sinks /\ crashed \in BOOLEAN

\* A source offers an entry that it has, and none after its end.
SrcInv ==
  /\ sent \in [Sinks -> Nat] /\ offering \subseteq Sinks /\ srcDone \subseteq Sinks
  /\ offering \cap srcDone = {}
  /\ \A s \in Sinks : /\ sent[s] <= Len(input[s])
                      /\ s \in offering => sent[s] < Len(input[s])

\* Where the statements are.  Those before stmt have been run, their sinks have
\* returned or are waited for; no sink is called before its statement.
MainInv ==
  /\ MainTypeOK
  /\ main = "in_sink" => stmt <= Len(script) /\ ~script[stmt].async
  /\ \A i \in 1..Len(script) :
       i < stmt => \/ sink[script[i].sink] = "returned"
                   \/ script[i].async /\ script[i].sink \in waiting
  /\ \A s \in Sinks : sink[s] # "idle" =>
       \E i \in 1..Len(script) :
         /\ script[i].sink = s
         /\ i < stmt \/ (i = stmt /\ main # "execute" /\ ~script[i].async)
  /\ main \notin {"execute", "in_sink"} /\ stmt <= Len(script) =>
       sink[script[stmt].sink] = "returned"
  /\ main \in {"stopping_plugins", "done"} => waiting = {}

\* What a sink that has not returned, and what one that is not connected, has
\* not.
SinkInv(s) ==
  /\ result[s] = "none" <=> sink[s] # "returned"
  /\ draining[s] > 0 => sink[s] = "returned"
  /\ s \in conns => sink[s] \in Connected
  /\ s \in cancelSeen => cancelled

\* The stores and the map of the plugin.
StoreInv ==
  /\ stores \in Seq({"open", "closed"})
  /\ storeCache \in 0..Len(stores) /\ store \in [Sinks -> 0..Len(stores)]
  /\ \A s \in Sinks : /\ store[s] # 0 => sink[s] \notin {"idle", "lookup"}
                      /\ sink[s] = "cache" => store[s] # 0
  /\ Len(stores) = 1 => storeCache = 1 \/ \E s \in Sinks : sink[s] = "cache"
  /\ \A i \in DOMAIN stores : stores[i] = "closed" => main = "done"
  /\ main = "done" /\ Len(stores) <= 1 => \A i \in DOMAIN stores : stores[i] = "closed"

\* Every store has been opened by a sink of its own.
OpenedInv == \E opener \in SUBSET {s \in Sinks : sink[s] \notin {"idle", "lookup"}} :
               Cardinality(opener) = Len(stores)

\* What a sink has inserted, by where it is.
RowsInv(s) ==
  /\ rows[s] = FirstRows(Len(rows[s]))
  /\ sink[s] \notin {"check", "fields", "returned"} => Len(rows[s]) = sent[s]
  /\ sink[s] \in {"check", "fields"} => Len(rows[s]) = sent[s] - 1

\* As long as no other sink has been called, the columns of the table are those
\* that the sink knows of, and come from its own input.
Alone(s) == \A t \in Sinks \ {s} : sink[t] = "idle"
ColumnsInv(s) ==
  Alone(s) => /\ columns[table[s]] \subseteq Fields(s)
              /\ sink[s] \in {"next", "check", "fields"} => colMap[s] = columns[table[s]]

\* The causes that LossExplained names, and that a sink that reports success
\* has stored everything unless there is one.
Cause(s) == \/ cancelled
            \/ s \in Failing
            \/ \E t \in Sinks \ {s} : sink[t] # "idle"
            \/ {} \in ToSet(input[s])
            \/ Clash(s)
LossInv(s) ==
  result[s] = "ok" => \/ Cause(s)
                      \/ Len(rows[s]) = sent[s] /\ draining[s] = 0

IndInv == /\ SinkTypeInv /\ SrcInv /\ MainInv /\ StoreInv /\ OpenedInv
          /\ \A s \in Sinks : SinkInv(s) /\ RowsInv(s) /\ ColumnsInv(s) /\ LossInv(s)

-----------------------------------------------------------------------------
(* Lemmas about the operators *)

\* Appending the next row to the first n rows gives the first n + 1.
LEMMA AppendRow ==
  ASSUME NEW n \in Nat, NEW w \in Seq(Nat), w = FirstRows(n)
  PROVE  /\ Append(w, n + 1) \in Seq(Nat)
         /\ Len(w) = n /\ Len(Append(w, n + 1)) = n + 1
         /\ Append(w, n + 1) = FirstRows(n + 1)
<1>1. /\ Append(w, n + 1) \in Seq(Nat)
      /\ Len(Append(w, n + 1)) = Len(w) + 1
      /\ \A i \in 1..Len(w) : Append(w, n + 1)[i] = w[i]
      /\ Append(w, n + 1)[Len(w) + 1] = n + 1
  BY AppendProperties
<1>2. Len(w) = n
  BY LenProperties DEF FirstRows
<1>3. Append(w, n + 1) \in [1..(n + 1) -> Nat]
  BY <1>1, <1>2, LenProperties
<1>4. ASSUME NEW i \in 1..(n + 1) PROVE Append(w, n + 1)[i] = i
  <2>1. CASE i = n + 1
    BY <1>1, <1>2, <2>1
  <2>2. CASE i \in 1..n
    BY <1>1, <1>2, <2>2 DEF FirstRows
  <2>3. i = n + 1 \/ i \in 1..n
    BY <1>4
  <2> QED
    BY <2>1, <2>2, <2>3
<1> QED
  BY <1>1, <1>2, <1>3, <1>4 DEF FirstRows

\* A script is a sequence of statements, each with a sink of its own.
LEMMA Statements ==
  ASSUME MainTypeOK
  PROVE  /\ Len(script) \in Nat /\ DOMAIN script = 1..Len(script)
         /\ \A i \in 1..Len(script) : script[i].sink \in Sinks /\ script[i].async \in BOOLEAN
         /\ \A i, j \in 1..Len(script) : script[i].sink = script[j].sink => i = j
         /\ stmt \in 1..(Len(script) + 1)
<1>1. /\ script \in Seq([sink : Sinks, async : BOOLEAN])
      /\ \A i, j \in DOMAIN script : script[i].sink = script[j].sink => i = j
  BY ScriptsAssumption DEF MainTypeOK
<1>2. Len(script) \in Nat /\ DOMAIN script = 1..Len(script)
  BY <1>1, LenProperties
<1>3. \A i \in 1..Len(script) : script[i] \in [sink : Sinks, async : BOOLEAN]
  BY <1>1, ElementOfSeq
<1> QED
  BY <1>1, <1>2, <1>3 DEF MainTypeOK

\* The input of a sink is a sequence of entries, which are sets of its fields.
LEMMA Entries ==
  ASSUME input \in Inputs, NEW s \in Sinks
  PROVE  /\ Len(input[s]) \in Nat /\ DOMAIN input[s] = 1..Len(input[s])
         /\ \A i \in 1..Len(input[s]) : /\ input[s][i] \in ToSet(input[s])
                                        /\ input[s][i] \subseteq Fields(s)
<1>1. input[s] \in Seq(ToSet(input[s]))
  BY InputsAssumption
<1>2. Len(input[s]) \in Nat /\ DOMAIN input[s] = 1..Len(input[s])
  BY <1>1, LenProperties
<1>3. \A i \in 1..Len(input[s]) : input[s][i] \in ToSet(input[s])
  BY <1>1, ElementOfSeq
<1> QED
  BY <1>2, <1>3 DEF Fields

\* Two fields of one input with one column clash.
LEMMA ClashFound ==
  ASSUME NEW s \in Sinks, input \in Inputs, NEW f \in Fields(s), NEW g \in Fields(s),
         f # g, Column(f) = Column(g)
  PROVE  Clash(s)
<1>1. PICK i \in DOMAIN input[s] : f \in input[s][i]
  BY DEF Fields, ToSet
<1>2. PICK j \in DOMAIN input[s] : g \in input[s][j]
  BY DEF Fields, ToSet
<1> QED
  BY <1>1, <1>2 DEF Clash

\* The input is not changed, nor is what is read off it.
LEMMA FieldsKept ==
  ASSUME UNCHANGED input
  PROVE  AllFields' = AllFields /\ \A s \in Sinks : Fields(s)' = Fields(s)
BY DEF AllFields, Fields, ToSet

LEMMA TableOfSink ==
  ASSUME SinkTypeInv, NEW s \in Sinks
  PROVE  table[s] \in Table /\ columns[table[s]] \in SUBSET AllFields
<1>1. table[s] \in {table[r] : r \in Sinks} /\ table \in Targets
  BY DEF SinkTypeInv
<1>2. table[s] \in Table
  BY <1>1 DEF Table
<1> QED
  BY <1>2 DEF SinkTypeInv

\* A cause stays one.
LEMMA CauseStays ==
  ASSUME NEW s \in Sinks, Cause(s), UNCHANGED input, cancelled => cancelled',
         \A t \in Sinks \ {s} : sink[t] # "idle" => sink'[t] # "idle"
  PROVE  Cause(s)'
BY DEF Cause, Clash

-----------------------------------------------------------------------------
(* The invariant holds initially *)

LEMMA InitIndInv == Init => IndInv
<1> SUFFICES ASSUME Init PROVE IndInv
  OBVIOUS
<1> USE DEF Init
<1>1. SinkTypeInv
  <2>1. rows \in [Sinks -> Seq(Nat)]
    <3>1. <<>> \in Seq(Nat)
      BY EmptySeq
    <3> QED
      BY <3>1
  <2>2. draining \in [Sinks -> 0..2]
    OBVIOUS
  <2>3. /\ columns \in [Table -> SUBSET AllFields]
        /\ colMap \in [Sinks -> SUBSET AllFields]
    OBVIOUS
  <2>4. sink \in [Sinks -> {"idle", "returned"} \cup Running]
    OBVIOUS
  <2> QED
    BY <2>1, <2>2, <2>3, <2>4 DEF SinkTypeInv
<1>2. MainInv
  <2>1. /\ script \in Scripts /\ main = "execute" /\ stmt = 1 /\ waiting = {}
        /\ cancelled = FALSE
    BY DEF MainInit
  <2>2. Len(script) \in Nat
    BY <2>1, ScriptsAssumption, LenProperties
  <2>3. MainTypeOK
    <3>1. stmt \in 1..(Len(script) + 1)
      BY <2>1, <2>2
    <3> QED
      BY <2>1, <3>1 DEF MainTypeOK
  <2> QED
    BY <2>1, <2>2, <2>3 DEF MainInv
<1>3. SrcInv
  BY Entries DEF SrcInv
<1>4. StoreInv
  <2>1. <<>> \in Seq({"open", "closed"}) /\ Len(<<>>) = 0 /\ DOMAIN <<>> = {}
    BY EmptySeq
  <2> QED
    BY <2>1 DEF StoreInv, MainInit
<1>5. OpenedInv
  <2>1. Cardinality({}) = 0 /\ Len(<<>>) = 0
    BY FS_EmptySet
  <2>2. {} \in SUBSET {s \in Sinks : sink[s] \notin {"idle", "lookup"}} /\ Len(stores) = 0
    BY <2>1
  <2> QED
    BY <2>1, <2>2 DEF OpenedInv
<1>6. ASSUME NEW s \in Sinks PROVE SinkInv(s) /\ LossInv(s)
  BY DEF SinkInv, LossInv
<1>7. ASSUME NEW s \in Sinks PROVE RowsInv(s)
  <2>1. Len(<<>>) = 0 /\ <<>> = FirstRows(0)
    BY DEF FirstRows
  <2> QED
    BY <2>1 DEF RowsInv
<1>8. ASSUME NEW s \in Sinks PROVE ColumnsInv(s)
  BY DEF ColumnsInv, Table
<1> QED
  BY <1>1, <1>2, <1>3, <1>4, <1>5, <1>6, <1>7, <1>8 DEF IndInv

-----------------------------------------------------------------------------
(* Frames: what steps of one part leave to the others *)

\* Once the plugins are stopped no sink is running.
LEMMA NoneRunning ==
  ASSUME MainInv, main \in {"stopping_plugins", "done"}, NEW s \in Sinks
  PROVE  sink[s] \in {"idle", "returned"}
<1>1. SUFFICES ASSUME sink[s] # "idle" PROVE sink[s] = "returned"
  OBVIOUS
<1>2. PICK i \in 1..Len(script) : script[i].sink = s /\ (i < stmt \/ i = stmt)
  BY <1>1 DEF MainInv
<1> QED
  BY <1>2 DEF MainInv

\* A running sink goes on or returns without the main goroutine.
LEMMA SinkMoves ==
  ASSUME IndInv, NEW s \in Sinks, sink[s] \in Running, UNCHANGED mainVars,
         NEW t \in Running \cup {"returned"}, sink' = [sink EXCEPT ![s] = t]
  PROVE  /\ MainInv' /\ main \notin {"stopping_plugins", "done"}
         /\ sink' \in [Sinks -> {"idle", "returned"} \cup Running]
         /\ sink'[s] = t /\ \A r \in Sinks \ {s} : sink'[r] = sink[r]
         /\ \A r \in Sinks : sink[r] # "idle" <=> sink'[r] # "idle"
<1>1. sink[s] \notin {"idle", "returned"} /\ t # "idle"
  BY DEF Running, Connected
<1>2. /\ sink' \in [Sinks -> {"idle", "returned"} \cup Running]
      /\ sink'[s] = t /\ \A r \in Sinks \ {s} : sink'[r] = sink[r]
  BY DEF IndInv, SinkTypeInv
<1>3. /\ \A r \in Sinks : sink[r] # "idle" <=> sink'[r] # "idle"
      /\ \A r \in Sinks : sink[r] = "returned" => sink'[r] = "returned"
  BY <1>1, <1>2
<1>4. main \notin {"stopping_plugins", "done"}
  BY <1>1, NoneRunning DEF IndInv
<1>5. MainTypeOK'
  BY DEF IndInv, MainInv, MainTypeOK, mainVars
<1>6. /\ \A i \in 1..Len(script) : script[i].sink \in Sinks
      /\ stmt <= Len(script) => script[stmt].sink \in Sinks
  BY Statements DEF IndInv, MainInv
<1>7. MainInv'
  BY <1>3, <1>4, <1>5, <1>6 DEF IndInv, MainInv, mainVars
<1> QED
  BY <1>2, <1>3, <1>4, <1>7

LEMMA OpenedStays ==
  ASSUME OpenedInv, UNCHANGED stores,
         \A s \in Sinks : sink[s] \notin {"idle", "lookup"} => sink'[s] \notin {"idle", "lookup"}
  PROVE  OpenedInv'
BY DEF OpenedInv

\* Steps that leave the entries, the database and the sinks alone.
LEMMA SinksKept ==
  ASSUME IndInv, UNCHANGED <<input, sent, dbVars, sinkVars>>, cancelled => cancelled',
         crashed' \in BOOLEAN
  PROVE  /\ SinkTypeInv'
         /\ \A s \in Sinks : SinkInv(s)' /\ RowsInv(s)' /\ ColumnsInv(s)' /\ LossInv(s)'
<1>1. UNCHANGED <<columns, rows, conns, table, sink, store, colMap, cancelSeen, draining,
                  result>>
  BY DEF dbVars, sinkVars
<1>2. SinkTypeInv'
  BY <1>1, FieldsKept DEF IndInv, SinkTypeInv
<1>3. ASSUME NEW s \in Sinks PROVE SinkInv(s)' /\ RowsInv(s)'
  BY <1>1 DEF IndInv, SinkInv, RowsInv
<1>4. ASSUME NEW s \in Sinks PROVE ColumnsInv(s)'
  BY <1>1, FieldsKept DEF IndInv, ColumnsInv, Alone
<1>5. ASSUME NEW s \in Sinks PROVE LossInv(s)'
  BY <1>1, CauseStays DEF IndInv, LossInv
<1> QED
  BY <1>2, <1>3, <1>4, <1>5

\* Steps that leave the plugin and the main goroutine alone, and no sink where
\* it was called or has opened the store.
LEMMA StoresKept ==
  ASSUME IndInv, UNCHANGED <<pluginVars, store, main>>,
         \A s \in Sinks : \/ sink'[s] = sink[s]
                          \/ sink'[s] \notin {"idle", "lookup", "cache"} /\ sink[s] # "cache"
  PROVE  StoreInv' /\ OpenedInv'
<1>1. UNCHANGED <<storeCache, stores>>
  BY DEF pluginVars
<1>2. StoreInv'
  BY <1>1 DEF IndInv, StoreInv
<1>3. OpenedInv'
  BY <1>1, OpenedStays DEF IndInv
<1> QED
  BY <1>2, <1>3

-----------------------------------------------------------------------------
(* The sources *)

LEMMA SourceInv ==
  ASSUME IndInv, NEW s \in Sinks, SourceRuns(s)
  PROVE  IndInv'
<1>1. UNCHANGED <<input, sent, dbVars, pluginVars, sinkVars, mainVars, crashed>>
  BY DEF SourceRuns, Read, ReadEnd
<1>2. SrcInv'
  BY <1>1 DEF IndInv, SrcInv, SourceRuns, Read, ReadEnd
<1>3. MainInv'
  BY <1>1 DEF IndInv, MainInv, MainTypeOK, mainVars, sinkVars
<1>4. StoreInv' /\ OpenedInv'
  BY <1>1, StoresKept DEF mainVars, sinkVars
<1>5. /\ SinkTypeInv'
      /\ \A r \in Sinks : SinkInv(r)' /\ RowsInv(r)' /\ ColumnsInv(r)' /\ LossInv(r)'
  <2>1. cancelled' = cancelled /\ crashed' \in BOOLEAN
    BY <1>1 DEF mainVars, IndInv, SinkTypeInv
  <2> QED
    BY <1>1, <2>1, SinksKept
<1> QED
  BY <1>2, <1>3, <1>4, <1>5 DEF IndInv

\* The entries that a send hands over are those that the source has.
LEMMA SendInv ==
  ASSUME IndInv, NEW s \in Sinks, Send(s)
  PROVE  /\ SrcInv' /\ UNCHANGED input /\ sent'[s] = sent[s] + 1
         /\ \A r \in Sinks \ {s} : sent'[r] = sent[r]
BY Entries DEF IndInv, SinkTypeInv, SrcInv, Send

\* What is drained has been given up for a cause.
LEMMA DrainInv ==
  ASSUME IndInv, NEW s \in Sinks, DrainReceives(s)
  PROVE  IndInv'
<1>1. /\ UNCHANGED <<columns, rows, conns, table, sink, store, colMap, cancelSeen,
                     draining, result, crashed>>
      /\ UNCHANGED <<pluginVars, mainVars>> /\ draining[s] > 0
  BY DEF DrainReceives, dbVars, sinkVars
<1>2. /\ SrcInv' /\ UNCHANGED input
      /\ \A r \in Sinks \ {s} : sent'[r] = sent[r]
  BY SendInv DEF DrainReceives
<1>3. SinkTypeInv'
  BY <1>1, <1>2, FieldsKept DEF IndInv, SinkTypeInv
<1>4. MainInv'
  BY <1>1 DEF IndInv, MainInv, MainTypeOK, mainVars
<1>5. StoreInv' /\ OpenedInv'
  BY <1>1, StoresKept DEF mainVars
<1>6. ASSUME NEW r \in Sinks PROVE SinkInv(r)' /\ ColumnsInv(r)'
  BY <1>1, <1>2, FieldsKept DEF IndInv, SinkInv, mainVars, ColumnsInv, Alone
<1>7. sink[s] = "returned"
  BY <1>1 DEF IndInv, SinkInv
<1>8. ASSUME NEW r \in Sinks PROVE RowsInv(r)'
  BY <1>1, <1>2, <1>7 DEF IndInv, RowsInv
<1>9. ASSUME NEW r \in Sinks PROVE LossInv(r)'
  <2>1. Cause(r) => Cause(r)'
    BY <1>1, <1>2, CauseStays DEF mainVars
  <2>2. r = s => draining[r] # 0
    BY <1>1 DEF IndInv, SinkTypeInv
  <2> QED
    BY <1>1, <1>2, <2>1, <2>2 DEF IndInv, LossInv
<1> QED
  BY <1>2, <1>3, <1>4, <1>5, <1>6, <1>8, <1>9 DEF IndInv

-----------------------------------------------------------------------------
(* The main goroutine, and the calls of the sinks *)

\* A sink that has returned, to the main goroutine or to its own, or one that
\* is started: the wait group and the statements follow it.
LEMMA StatementInv ==
  ASSUME IndInv, NEW s \in Sinks, StartAsync(s) \/ Returned(s)
  PROVE  IndInv'
<1>1. UNCHANGED <<srcVars, dbVars, pluginVars, sinkVars, crashed, script, cancelled>>
  BY DEF StartAsync, RunAsync, Returned, SyncReturned, AsyncReturned
<1>2. main' = main \/ {main, main'} \subseteq {"execute", "in_sink", "cancel"}
  BY DEF StartAsync, RunAsync, Returned, SyncReturned, AsyncReturned
<1>3. /\ Len(script) \in Nat /\ DOMAIN script = 1..Len(script)
      /\ \A i, j \in 1..Len(script) : script[i].sink = script[j].sink => i = j
      /\ stmt \in 1..(Len(script) + 1) /\ sink' = sink
  BY <1>1, Statements DEF IndInv, MainInv, sinkVars
<1>4. ASSUME StartAsync(s) PROVE MainInv'
  <2>1. /\ main = "execute" /\ stmt <= Len(script) /\ s = script[stmt].sink
        /\ script[stmt].async /\ waiting' = waiting \cup {s} /\ stmt' = stmt + 1
        /\ main' = main
    BY <1>4 DEF StartAsync, RunAsync, AtSink, WaitGroupAdd
  <2>2. MainTypeOK'
    BY <1>1, <1>3, <2>1 DEF IndInv, MainInv, MainTypeOK
  <2>3. \A i \in 1..Len(script) : i < stmt' => \/ sink[script[i].sink] = "returned"
                                               \/ script[i].async /\ script[i].sink \in waiting'
    BY <1>3, <2>1 DEF IndInv, MainInv
  <2>4. \A r \in Sinks : sink[r] # "idle" =>
          \E i \in 1..Len(script) : script[i].sink = r /\ i < stmt'
    BY <1>3, <2>1 DEF IndInv, MainInv
  <2> QED
    BY <1>1, <1>3, <2>1, <2>2, <2>3, <2>4 DEF IndInv, MainInv
<1>5. ASSUME Returned(s) PROVE MainInv'
  <2>1. sink[s] = "returned"
    BY <1>5 DEF IndInv, SinkInv, Returned
  <2>2. CASE SyncReturned(s, Error(s))
    <3>1. /\ main = "in_sink" /\ s = script[stmt].sink /\ UNCHANGED waiting
          /\ stmt <= Len(script) /\ ~script[stmt].async
          /\ \/ main' = "cancel" /\ stmt' = stmt
             \/ main' = "execute" /\ stmt' = stmt + 1
      BY <2>2 DEF SyncReturned, IndInv, MainInv
    <3>2. MainTypeOK'
      BY <1>1, <1>3, <3>1 DEF IndInv, MainInv, MainTypeOK
    <3> QED
      BY <1>1, <1>3, <2>1, <3>1, <3>2 DEF IndInv, MainInv
  <2>3. CASE AsyncReturned(s)
    <3>1. waiting' = waiting \ {s} /\ UNCHANGED <<main, stmt>>
      BY <2>3 DEF AsyncReturned, WaitGroupDone
    <3>2. MainTypeOK'
      BY <1>1, <3>1 DEF IndInv, MainInv, MainTypeOK
    <3> QED
      BY <1>1, <1>3, <2>1, <3>1, <3>2 DEF IndInv, MainInv
  <2>4. SyncReturned(s, Error(s)) \/ AsyncReturned(s)
    BY <1>5, Zenon DEF Returned
  <2> QED
    BY <2>2, <2>3, <2>4
<1>6. MainInv'
  BY <1>4, <1>5
<1>7. SrcInv'
  BY <1>1 DEF IndInv, SrcInv, srcVars
<1>8. StoreInv' /\ OpenedInv'
  BY <1>1, <1>2 DEF IndInv, StoreInv, OpenedInv, pluginVars, sinkVars
<1>9. /\ SinkTypeInv'
      /\ \A r \in Sinks : SinkInv(r)' /\ RowsInv(r)' /\ ColumnsInv(r)' /\ LossInv(r)'
  <2>1. crashed' \in BOOLEAN /\ UNCHANGED <<input, sent>>
    BY <1>1 DEF IndInv, SinkTypeInv, srcVars
  <2> QED
    BY <1>1, <2>1, SinksKept
<1> QED
  BY <1>6, <1>7, <1>8, <1>9 DEF IndInv

\* Stopping closes the only store: no sink has it in hand any more, so it is in
\* the map.
LEMMA StopInv ==
  ASSUME IndInv, PluginsStopped, stores' = [i \in DOMAIN stores |-> Stopping(i)],
         UNCHANGED <<storeCache, sinkVars>>
  PROVE  StoreInv' /\ OpenedInv'
<1>1. stores \in Seq({"open", "closed"}) /\ Len(stores) \in Nat /\ DOMAIN stores = 1..Len(stores)
  BY LenProperties DEF IndInv, StoreInv
<1>2. \A i \in 1..Len(stores) : stores[i] \in {"open", "closed"}
  BY <1>1, ElementOfSeq
<1>3. /\ stores' \in [1..Len(stores) -> {"open", "closed"}]
      /\ stores' \in Seq({"open", "closed"}) /\ Len(stores') = Len(stores)
      /\ DOMAIN stores' = 1..Len(stores)
  <2>1. stores' \in [1..Len(stores) -> {"open", "closed"}]
    BY <1>1, <1>2 DEF Stopping
  <2>2. stores' \in Seq({"open", "closed"})
    BY <1>1, <2>1, SeqDef
  <2>3. Len(stores') = Len(stores)
    BY <1>1, <2>1, <2>2, LenProperties
  <2> QED
    BY <2>1, <2>2, <2>3
<1>4. main = "stopping_plugins" /\ main' = "done" /\ UNCHANGED <<sink, store>>
  BY DEF PluginsStopped, sinkVars
<1>5. \A s \in Sinks : sink[s] # "cache"
  BY <1>4, NoneRunning DEF IndInv
<1>6. Len(stores) <= 1 => \A i \in 1..Len(stores) : stores'[i] = "closed"
  BY <1>1, <1>5 DEF IndInv, StoreInv, Stopping
<1>7. StoreInv'
  BY <1>1, <1>3, <1>4, <1>6 DEF IndInv, StoreInv
<1>8. OpenedInv'
  BY <1>3, <1>4 DEF IndInv, OpenedInv
<1> QED
  BY <1>7, <1>8

LEMMA MainRunsInv ==
  ASSUME IndInv, MainRuns
  PROVE  IndInv'
<1>1. /\ UNCHANGED <<srcVars, dbVars, storeCache, sinkVars, crashed, script, stmt, waiting>>
      /\ cancelled => cancelled'
  BY DEF MainRuns, MainStep, ExecuteReturns, Cancel, WaitReturns, PluginsStopped
<1>2. Len(script) \in Nat /\ stmt \in 1..(Len(script) + 1)
  BY Statements DEF IndInv, MainInv
<1>3. MainInv'
  <2>1. UNCHANGED sink
    BY <1>1 DEF sinkVars
  <2>2. MainTypeOK'
    <3>1. /\ main' \in {"execute", "in_sink", "cancel", "wait", "stopping_plugins", "done"}
          /\ cancelled' = cancelled \/ cancelled' = TRUE
      BY DEF MainRuns, MainStep, ExecuteReturns, Cancel, WaitReturns, PluginsStopped
    <3>2. MainTypeOK
      BY DEF IndInv, MainInv
    <3>3. cancelled' \in BOOLEAN
      BY <3>1, <3>2 DEF MainTypeOK
    <3> QED
      BY <1>1, <3>1, <3>2, <3>3 DEF MainTypeOK
  <2>3. /\ main' \in {"cancel", "wait", "stopping_plugins", "done"}
        /\ main = "execute" => stmt > Len(script)
        /\ main # "in_sink"
        /\ main' \in {"stopping_plugins", "done"} => waiting = {}
    BY <1>2 DEF IndInv, MainInv, MainRuns, MainStep, ExecuteReturns, Cancel, WaitReturns,
       AllWaitedFor, PluginsStopped
  <2> QED
    BY <1>1, <1>2, <2>1, <2>2, <2>3 DEF IndInv, MainInv
<1>4. SrcInv'
  BY <1>1 DEF IndInv, SrcInv, srcVars
<1>5. StoreInv' /\ OpenedInv'
  <2>1. CASE PluginsStopped
    BY <1>1, <2>1, StopInv DEF MainRuns
  <2>2. CASE ~PluginsStopped
    <3>1. UNCHANGED <<stores, storeCache, sink, store>> /\ main # "done" /\ main' # "done"
      BY <1>1, <2>2 DEF MainRuns, MainStep, ExecuteReturns, Cancel, WaitReturns, sinkVars
    <3> QED
      BY <3>1 DEF IndInv, StoreInv, OpenedInv
  <2> QED
    BY <2>1, <2>2
<1>6. /\ SinkTypeInv'
      /\ \A r \in Sinks : SinkInv(r)' /\ RowsInv(r)' /\ ColumnsInv(r)' /\ LossInv(r)'
  <2>1. crashed' \in BOOLEAN /\ UNCHANGED <<input, sent>>
    BY <1>1 DEF IndInv, SinkTypeInv, srcVars
  <2> QED
    BY <1>1, <2>1, SinksKept
<1> QED
  BY <1>3, <1>4, <1>5, <1>6 DEF IndInv

\* What the call of a sink decides: it looks for its store, or rejects its
\* arguments.
LEMMA BeginKeeps ==
  ASSUME IndInv, NEW s \in Sinks, Begin(s)
  PROVE  /\ sink[s] = "idle"
         /\ \E t \in {"lookup", "returned"} :
              /\ sink' = [sink EXCEPT ![s] = t]
              /\ result'[s] = IF t = "lookup" THEN "none" ELSE "undrained"
         /\ draining'[s] = 0
         /\ result' \in [Sinks -> {"none", "ok", "error", "undrained"}]
         /\ draining' \in [Sinks -> 0..2]
         /\ \A r \in Sinks \ {s} : result'[r] = result[r] /\ draining'[r] = draining[r]
         /\ UNCHANGED <<srcVars, dbVars, pluginVars, table, store, colMap, cancelSeen, crashed>>
<1>1. sink[s] = "idle"
  BY DEF Begin, Call, CallRejected, At
<1>2. result[s] = "none" /\ draining[s] = 0
  <2>1. draining[s] \in 0..2 /\ SinkInv(s)
    BY DEF IndInv, SinkTypeInv
  <2> QED
    BY <1>1, <2>1 DEF SinkInv
<1>3. CASE Call(s)
  BY <1>1, <1>2, <1>3 DEF IndInv, SinkTypeInv, Begin, Call, At
<1>4. CASE CallRejected(s)
  BY <1>1, <1>2, <1>4 DEF IndInv, SinkTypeInv, Begin, CallRejected, Return
<1> QED
  BY <1>3, <1>4 DEF Begin

LEMMA BeginInv ==
  ASSUME IndInv, NEW s \in Sinks, CallSync(s) \/ CallAsync(s)
  PROVE  IndInv'
<1>1. Begin(s)
  BY DEF CallSync, CallAsync
<1>2. PICK t \in {"lookup", "returned"} :
        /\ sink' = [sink EXCEPT ![s] = t]
        /\ result'[s] = IF t = "lookup" THEN "none" ELSE "undrained"
  BY <1>1, BeginKeeps
<1>3. /\ sink[s] = "idle" /\ draining'[s] = 0
      /\ UNCHANGED <<input, sent, offering, srcDone, columns, rows, conns, storeCache, stores,
                     table, store, colMap, cancelSeen, crashed>>
  BY <1>1, BeginKeeps DEF srcVars, dbVars, pluginVars
<1>4. /\ sink' \in [Sinks -> {"idle", "returned"} \cup Running]
      /\ sink'[s] = t /\ \A r \in Sinks \ {s} : sink'[r] = sink[r]
  BY <1>2, <1>3 DEF IndInv, SinkTypeInv, Running
<1>5. /\ UNCHANGED <<script, stmt, waiting, cancelled>>
      /\ main' = main \/ (main = "execute" /\ main' = "in_sink")
  BY DEF CallSync, CallAsync, RunSync, AtSink, mainVars
<1>6. SinkTypeInv'
  BY <1>1, <1>3, <1>4, BeginKeeps, FieldsKept DEF IndInv, SinkTypeInv
<1>7. SrcInv'
  BY <1>3 DEF IndInv, SrcInv
<1>8. MainInv'
  <2>1. /\ Len(script) \in Nat /\ DOMAIN script = 1..Len(script)
        /\ \A i \in 1..Len(script) : script[i].sink \in Sinks
        /\ \A i, j \in 1..Len(script) : script[i].sink = script[j].sink => i = j
        /\ stmt \in 1..(Len(script) + 1)
    BY Statements DEF IndInv, MainInv
  <2>2. \A r \in Sinks : sink[r] = "returned" => sink'[r] = "returned"
    BY <1>3, <1>4
  <2>3. MainTypeOK'
    BY <1>5 DEF IndInv, MainInv, MainTypeOK
  <2>4. CASE CallSync(s)
    <3>1. /\ main = "execute" /\ main' = "in_sink"
          /\ stmt <= Len(script) /\ s = script[stmt].sink /\ ~script[stmt].async
      BY <2>4 DEF CallSync, RunSync, AtSink
    <3> QED
      BY <1>4, <1>5, <2>1, <2>2, <2>3, <3>1 DEF IndInv, MainInv
  <2>5. CASE CallAsync(s)
    <3>1. /\ main' = main
          /\ \E i \in 1..Len(script) : i < stmt /\ script[i].sink = s /\ script[i].async
      BY <2>1, <2>5 DEF CallAsync, Started, mainVars
    <3> QED
      BY <1>4, <1>5, <2>1, <2>2, <2>3, <3>1 DEF IndInv, MainInv
  <2> QED
    BY <2>4, <2>5
<1>9. StoreInv'
  BY <1>3, <1>4, <1>5 DEF IndInv, StoreInv
<1>10. OpenedInv'
  BY <1>3, <1>4, OpenedStays DEF IndInv
<1>11. ASSUME NEW r \in Sinks PROVE SinkInv(r)' /\ RowsInv(r)' /\ LossInv(r)'
  <2>1. Cause(r) => Cause(r)'
    BY <1>3, <1>4, <1>5, CauseStays
  <2>2. r # s => result'[r] = result[r] /\ draining'[r] = draining[r]
    BY <1>1, BeginKeeps
  <2>3. SinkInv(r)'
    BY <1>2, <1>3, <1>4, <1>5, <2>2 DEF IndInv, SinkInv, Connected
  <2>4. RowsInv(r)'
    BY <1>3, <1>4 DEF IndInv, RowsInv
  <2>5. LossInv(r)'
    BY <1>2, <1>3, <2>1, <2>2 DEF IndInv, LossInv
  <2> QED
    BY <2>3, <2>4, <2>5
<1>12. ASSUME NEW r \in Sinks PROVE ColumnsInv(r)'
  BY <1>3, <1>4, FieldsKept DEF IndInv, ColumnsInv, Alone
<1> QED
  BY <1>6, <1>7, <1>8, <1>9, <1>10, <1>11, <1>12 DEF IndInv

-----------------------------------------------------------------------------
(* The store of the file *)

\* A store is opened by a sink that has not opened one.
LEMMA OpenStore ==
  ASSUME IndInv, NEW s \in Sinks, sink[s] = "lookup", sink'[s] = "cache",
         \A r \in Sinks \ {s} : sink'[r] = sink[r],
         stores' = Append(stores, "open"),
         store' = [store EXCEPT ![s] = Len(stores')], UNCHANGED storeCache,
         main # "done", main' = main
  PROVE  StoreInv' /\ OpenedInv'
<1>1. stores \in Seq({"open", "closed"})
  BY DEF IndInv, StoreInv
<1>2. /\ stores' \in Seq({"open", "closed"}) /\ Len(stores') = Len(stores) + 1
      /\ Len(stores) \in Nat /\ DOMAIN stores = 1..Len(stores)
      /\ DOMAIN stores' = 1..(Len(stores) + 1)
      /\ \A i \in 1..Len(stores) : stores'[i] = stores[i]
      /\ stores'[Len(stores) + 1] = "open"
  BY <1>1, AppendProperties, LenProperties
<1>3. StoreInv'
  <2>1. store' \in [Sinks -> 0..Len(stores')] /\ store'[s] # 0
        /\ \A r \in Sinks \ {s} : store'[r] = store[r]
    BY <1>2 DEF IndInv, StoreInv
  <2>2. \A i \in DOMAIN stores' : stores'[i] # "closed"
    BY <1>2 DEF IndInv, StoreInv
  <2>3. storeCache' \in 0..Len(stores')
    BY <1>2 DEF IndInv, StoreInv
  <2> QED
    BY <1>2, <2>1, <2>2, <2>3 DEF IndInv, StoreInv
<1>4. OpenedInv'
  <2> DEFINE Openers == {r \in Sinks : sink[r] \notin {"idle", "lookup"}}
  <2>1. PICK opener \in SUBSET Openers : Cardinality(opener) = Len(stores)
    BY DEF IndInv, OpenedInv
  <2>2. IsFiniteSet(opener) /\ s \notin opener
    BY SinksAssumption, FS_Subset
  <2>3. Cardinality(opener \cup {s}) = Len(stores')
    <3>1. Cardinality(opener \cup {s}) = Cardinality(opener) + 1
      BY <2>2, FS_AddElement
    <3> QED
      BY <1>2, <2>1, <3>1
  <2>4. opener \cup {s} \in SUBSET Openers'
    BY <2>1
  <2> QED
    BY <2>3, <2>4 DEF OpenedInv
<1> QED
  BY <1>3, <1>4

LEMMA OpensInv ==
  ASSUME IndInv, NEW s \in Sinks, Opens(s)
  PROVE  IndInv'
<1>1. /\ UNCHANGED <<input, sent, offering, srcDone, columns, rows, conns, table, colMap,
                     cancelSeen, draining, result, crashed>>
      /\ UNCHANGED mainVars /\ UNCHANGED <<main, cancelled>>
  BY DEF Opens, Lookup, PutInCache, srcVars, dbVars, mainVars
<1>2. PICK t \in {"cache", "conn"} :
        sink[s] \in {"lookup", "cache"} /\ sink' = [sink EXCEPT ![s] = t]
  BY DEF Opens, Lookup, PutInCache, At
<1>3. /\ MainInv' /\ main \notin {"stopping_plugins", "done"}
      /\ sink' \in [Sinks -> {"idle", "returned"} \cup Running]
      /\ sink'[s] = t /\ \A r \in Sinks \ {s} : sink'[r] = sink[r]
      /\ \A r \in Sinks : sink[r] # "idle" <=> sink'[r] # "idle"
  <2>1. sink[s] \in Running /\ t \in Running
    BY <1>2 DEF Running
  <2> QED
    BY <1>1, <1>2, <2>1, SinkMoves
<1>4. SinkTypeInv'
  BY <1>1, <1>3, FieldsKept DEF IndInv, SinkTypeInv
<1>5. SrcInv'
  BY <1>1 DEF IndInv, SrcInv
<1>6. StoreInv' /\ OpenedInv'
  <2>1. CASE Lookup(s) /\ storeCache = 0
    <3>1. /\ sink[s] = "lookup" /\ t = "cache" /\ UNCHANGED storeCache
          /\ stores' = Append(stores, "open") /\ store' = [store EXCEPT ![s] = Len(stores')]
      BY <1>3, <2>1 DEF Lookup, At, IndInv, SinkTypeInv
    <3> QED
      BY <1>1, <1>3, <3>1, OpenStore
  <2>2. CASE Lookup(s) /\ storeCache # 0
    <3>1. /\ sink[s] = "lookup" /\ t = "conn" /\ UNCHANGED <<stores, storeCache>>
          /\ store' = [store EXCEPT ![s] = storeCache]
      BY <1>3, <2>2 DEF Lookup, At, IndInv, SinkTypeInv
    <3> QED
      BY <1>1, <1>3, <3>1, OpenedStays DEF IndInv, StoreInv
  <2>3. CASE PutInCache(s)
    <3>1. /\ sink[s] = "cache" /\ t = "conn" /\ UNCHANGED <<stores, store>>
          /\ storeCache' = store[s]
      BY <1>3, <2>3 DEF PutInCache, At, IndInv, SinkTypeInv
    <3>2. Len(stores) \in Nat /\ store[s] \in 1..Len(stores)
      BY <3>1, LenProperties DEF IndInv, StoreInv
    <3> QED
      BY <1>1, <1>3, <3>1, <3>2, OpenedStays, SMTT(30) DEF IndInv, StoreInv
  <2> QED
    BY <2>1, <2>2, <2>3 DEF Opens
<1>7. ASSUME NEW r \in Sinks PROVE SinkInv(r)' /\ RowsInv(r)'
  BY <1>1, <1>2, <1>3 DEF IndInv, SinkInv, RowsInv, Connected
<1>8. ASSUME NEW r \in Sinks PROVE ColumnsInv(r)'
  BY <1>1, <1>3, FieldsKept DEF IndInv, ColumnsInv, Alone
<1>9. ASSUME NEW r \in Sinks PROVE LossInv(r)'
  BY <1>1, <1>3, CauseStays DEF IndInv, LossInv
<1> QED
  BY <1>3, <1>4, <1>5, <1>6, <1>7, <1>8, <1>9 DEF IndInv

-----------------------------------------------------------------------------
(* The loop of the sink *)

\* What a sink leaves alone while it goes on from h to t at its database.
LEMMA GoesOnKeeps ==
  ASSUME IndInv, NEW s \in Sinks, NEW h \in Connected \cup {"conn"}, NEW t \in Connected,
         At(s, h, t), conns' \subseteq conns \cup {s},
         \A r \in Sinks \ {s} : rows'[r] = rows[r],
         UNCHANGED <<srcVars, pluginVars, table, store, cancelSeen, draining, result,
                     mainVars, crashed>>
  PROVE  /\ MainInv' /\ SrcInv' /\ StoreInv' /\ OpenedInv'
         /\ \A r \in Sinks : SinkInv(r)' /\ LossInv(r)'
         /\ \A r \in Sinks \ {s} : RowsInv(r)' /\ ColumnsInv(r)'
         /\ UNCHANGED <<input, sent>>
         /\ sink[s] = h /\ sink'[s] = t /\ \A r \in Sinks \ {s} : sink'[r] = sink[r]
         /\ sink' \in [Sinks -> {"idle", "returned"} \cup Running]
         /\ result[s] = "none"
<1>1. sink[s] = h /\ sink' = [sink EXCEPT ![s] = t] /\ h \in Running /\ t \in Running
  BY DEF At, Running
<1>2. /\ MainInv' /\ sink'[s] = t /\ \A r \in Sinks \ {s} : sink'[r] = sink[r]
      /\ sink' \in [Sinks -> {"idle", "returned"} \cup Running]
      /\ \A r \in Sinks : sink[r] # "idle" <=> sink'[r] # "idle"
  BY <1>1, SinkMoves
<1>3. UNCHANGED <<input, sent, main, cancelled>>
  BY DEF srcVars, mainVars
<1>4. SrcInv'
  BY DEF IndInv, SrcInv, srcVars
<1>5. StoreInv' /\ OpenedInv'
  BY <1>1, <1>2, <1>3, StoresKept DEF Connected
<1>6. result[s] = "none"
  BY <1>1 DEF IndInv, SinkInv, Connected
<1>7. ASSUME NEW r \in Sinks PROVE LossInv(r)'
  <2>1. Cause(r) => Cause(r)'
    BY <1>2, <1>3, CauseStays
  <2>2. r # s \/ result[r] = "none"
    BY <1>6
  <2> QED
    BY <1>3, <2>1, <2>2 DEF IndInv, LossInv
<1>8. ASSUME NEW r \in Sinks PROVE SinkInv(r)'
  BY <1>1, <1>2, <1>3 DEF IndInv, SinkInv, Connected
<1>9. ASSUME NEW r \in Sinks \ {s} PROVE RowsInv(r)'
  BY <1>2, <1>3 DEF IndInv, RowsInv
<1>10. ASSUME NEW r \in Sinks \ {s} PROVE ColumnsInv(r)'
  BY <1>2 DEF ColumnsInv, Alone, Connected
<1> QED
  BY <1>1, <1>2, <1>3, <1>4, <1>5, <1>6, <1>7, <1>8, <1>9, <1>10

\* Until it has read the columns a sink inserts nothing and adds none.
LEMMA PrepareInv ==
  ASSUME IndInv, NEW s \in Sinks, NEW h \in {"conn", "ensure", "columns"},
         NEW t \in {"ensure", "columns", "next"}, At(s, h, t),
         conns' \in {conns, conns \cup {s}},
         \/ colMap' = [colMap EXCEPT ![s] = columns[table[s]]]
         \/ colMap' = colMap /\ t # "next",
         UNCHANGED <<srcVars, columns, rows, pluginVars, table, store, cancelSeen, draining,
                     result, mainVars, crashed>>
  PROVE  IndInv'
<1>1. /\ MainInv' /\ SrcInv' /\ StoreInv' /\ OpenedInv'
      /\ \A r \in Sinks : SinkInv(r)' /\ LossInv(r)'
      /\ \A r \in Sinks \ {s} : RowsInv(r)' /\ ColumnsInv(r)'
      /\ UNCHANGED <<input, sent>>
      /\ sink[s] = h /\ sink'[s] = t /\ \A r \in Sinks \ {s} : sink'[r] = sink[r]
      /\ sink' \in [Sinks -> {"idle", "returned"} \cup Running]
  <2>1. h \in Connected \cup {"conn"} /\ t \in Connected
    BY DEF Connected
  <2> QED
    BY <2>1, GoesOnKeeps
<1>2. columns[table[s]] \in SUBSET AllFields
  BY TableOfSink DEF IndInv
<1>3. SinkTypeInv'
  BY <1>1, <1>2, FieldsKept DEF IndInv, SinkTypeInv
<1>4. RowsInv(s)'
  BY <1>1 DEF IndInv, RowsInv
<1>5. ColumnsInv(s)'
  <2>1. t = "next" => colMap'[s] = columns[table[s]]
    BY DEF IndInv, SinkTypeInv
  <2> QED
    BY <1>1, <2>1, FieldsKept DEF IndInv, ColumnsInv, Alone
<1> QED
  BY <1>1, <1>3, <1>4, <1>5 DEF IndInv

\* A sink looks at its flag before it handles the fields of an entry.
LEMMA NotSeenInv ==
  ASSUME IndInv, NEW s \in Sinks, NotSeen(s),
         UNCHANGED <<srcVars, pluginVars, table, store, cancelSeen, mainVars, crashed>>
  PROVE  IndInv'
<1>1. /\ MainInv' /\ SrcInv' /\ StoreInv' /\ OpenedInv'
      /\ \A r \in Sinks : SinkInv(r)' /\ LossInv(r)'
      /\ \A r \in Sinks \ {s} : RowsInv(r)' /\ ColumnsInv(r)'
      /\ UNCHANGED <<input, sent>>
      /\ sink[s] = "check" /\ sink'[s] = "fields" /\ \A r \in Sinks \ {s} : sink'[r] = sink[r]
      /\ sink' \in [Sinks -> {"idle", "returned"} \cup Running]
  <2>1. "check" \in Connected \cup {"conn"} /\ "fields" \in Connected
    BY DEF Connected
  <2> QED
    BY <2>1, GoesOnKeeps DEF NotSeen, dbVars
<1>2. UNCHANGED <<columns, rows, conns, colMap, draining, result>>
  BY DEF NotSeen, dbVars
<1>3. SinkTypeInv'
  BY <1>1, <1>2, FieldsKept DEF IndInv, SinkTypeInv
<1>4. RowsInv(s)' /\ ColumnsInv(s)'
  BY <1>1, <1>2, FieldsKept DEF IndInv, RowsInv, ColumnsInv, Alone
<1> QED
  BY <1>1, <1>3, <1>4 DEF IndInv

\* The entry that a sink handles is one of its input.
LEMMA EntryOfInput ==
  ASSUME IndInv, NEW s \in Sinks, sink[s] \in {"check", "fields"}
  PROVE  /\ Entry(s) \in ToSet(input[s]) /\ Entry(s) \subseteq Fields(s)
         /\ Len(rows[s]) \in Nat /\ sent[s] = Len(rows[s]) + 1
<1>1. Len(rows[s]) \in Nat /\ sent[s] \in Nat /\ sent[s] <= Len(input[s])
  BY LenProperties DEF IndInv, SinkTypeInv, SrcInv
<1>2. sent[s] = Len(rows[s]) + 1
  BY <1>1 DEF IndInv, RowsInv
<1>3. sent[s] \in 1..Len(input[s])
  BY <1>1, <1>2, Entries DEF IndInv, SinkTypeInv
<1> QED
  BY <1>1, <1>2, <1>3, Entries DEF IndInv, SinkTypeInv, Entry

\* The added column is one that the sink knows of now, and the table has.
LEMMA AddInv ==
  ASSUME IndInv, NEW s \in Sinks, sink[s] = "fields", NEW f \in Unknown(s),
         columns' = [columns EXCEPT ![table[s]] = @ \cup {f}],
         colMap' = [colMap EXCEPT ![s] = colMap[s] \cup {f}],
         UNCHANGED <<srcVars, sink, conns, rows, pluginVars, table, store, cancelSeen,
                     draining, result, mainVars, crashed>>
  PROVE  IndInv'
<1>1. /\ MainInv' /\ SrcInv' /\ StoreInv' /\ OpenedInv'
      /\ \A r \in Sinks : SinkInv(r)' /\ LossInv(r)'
      /\ \A r \in Sinks \ {s} : RowsInv(r)' /\ ColumnsInv(r)'
      /\ UNCHANGED <<input, sent>>
  <2>1. "fields" \in Connected
    BY DEF Connected
  <2>2. At(s, "fields", "fields")
    BY DEF At, IndInv, SinkTypeInv
  <2> QED
    BY <2>1, <2>2, GoesOnKeeps
<1>2. f \in Fields(s) /\ f \in AllFields
  BY EntryOfInput DEF Unknown, AllFields
<1>3. /\ columns' \in [Table -> SUBSET AllFields]
      /\ columns'[table[s]] = columns[table[s]] \cup {f}
      /\ colMap' \in [Sinks -> SUBSET AllFields] /\ colMap'[s] = colMap[s] \cup {f}
  <2>1. /\ columns \in [Table -> SUBSET AllFields] /\ colMap \in [Sinks -> SUBSET AllFields]
        /\ table[s] \in Table
    BY TableOfSink DEF IndInv, SinkTypeInv
  <2> QED
    BY <1>2, <2>1
<1>4. SinkTypeInv'
  BY <1>1, <1>3, FieldsKept DEF IndInv, SinkTypeInv
<1>5. RowsInv(s)'
  BY <1>1 DEF IndInv, RowsInv
<1>6. ColumnsInv(s)'
  BY <1>1, <1>2, <1>3, FieldsKept DEF IndInv, ColumnsInv, Alone
<1> QED
  BY <1>1, <1>4, <1>5, <1>6 DEF IndInv

\* The row of the entry follows those before it.
LEMMA InsertInv ==
  ASSUME IndInv, NEW s \in Sinks, At(s, "fields", "next"),
         rows' = [rows EXCEPT ![s] = Append(@, sent[s])],
         UNCHANGED <<srcVars, columns, colMap, conns, pluginVars, table, store, cancelSeen,
                     draining, result, mainVars, crashed>>
  PROVE  IndInv'
<1>1. /\ MainInv' /\ SrcInv' /\ StoreInv' /\ OpenedInv'
      /\ \A r \in Sinks : SinkInv(r)' /\ LossInv(r)'
      /\ \A r \in Sinks \ {s} : RowsInv(r)' /\ ColumnsInv(r)'
      /\ UNCHANGED <<input, sent>>
      /\ sink[s] = "fields" /\ sink'[s] = "next" /\ \A r \in Sinks \ {s} : sink'[r] = sink[r]
      /\ sink' \in [Sinks -> {"idle", "returned"} \cup Running]
  <2>1. "fields" \in Connected \cup {"conn"} /\ "next" \in Connected
    BY DEF Connected
  <2>2. \A r \in Sinks \ {s} : rows'[r] = rows[r]
    BY DEF IndInv, SinkTypeInv
  <2> QED
    BY <2>1, <2>2, GoesOnKeeps
<1> DEFINE n == Len(rows[s])
<1>2. n \in Nat /\ sent[s] = n + 1 /\ rows[s] \in Seq(Nat) /\ rows[s] = FirstRows(n)
  BY <1>1, EntryOfInput DEF IndInv, SinkTypeInv, RowsInv
<1>3. /\ Append(rows[s], n + 1) \in Seq(Nat)
      /\ Len(Append(rows[s], n + 1)) = n + 1
      /\ Append(rows[s], n + 1) = FirstRows(n + 1)
  BY <1>2, AppendRow
<1>4. rows' \in [Sinks -> Seq(Nat)] /\ rows'[s] = Append(rows[s], n + 1)
  BY <1>2, <1>3 DEF IndInv, SinkTypeInv
<1> HIDE DEF n
<1>5. SinkTypeInv'
  BY <1>1, <1>4, FieldsKept DEF IndInv, SinkTypeInv
<1>6. RowsInv(s)'
  BY <1>1, <1>2, <1>3, <1>4 DEF RowsInv
<1>7. ColumnsInv(s)'
  BY <1>1, FieldsKept DEF IndInv, ColumnsInv, Alone
<1> QED
  BY <1>1, <1>5, <1>6, <1>7 DEF IndInv

-----------------------------------------------------------------------------
(* The returns of the sink *)

\* A sink that returns closes its connection; if it reports success, it has
\* stored everything or there is a cause.
LEMMA ReturnInv ==
  ASSUME IndInv, NEW s \in Sinks, sink[s] \in Connected \cup {"conn"},
         NEW r \in {"ok", "error", "undrained"}, NEW n \in 0..2, Return(s, r, n),
         conns' = conns \ {s},
         r = "ok" => Cause(s) \/ (Len(rows[s]) = sent[s] /\ n = 0),
         UNCHANGED <<srcVars, columns, rows, pluginVars, table, store, colMap, cancelSeen,
                     mainVars, crashed>>
  PROVE  IndInv'
<1>1. UNCHANGED <<input, sent, offering, srcDone, main, cancelled>>
  BY DEF srcVars, mainVars
<1>2. /\ MainInv' /\ sink'[s] = "returned" /\ \A t \in Sinks \ {s} : sink'[t] = sink[t]
      /\ sink' \in [Sinks -> {"idle", "returned"} \cup Running]
      /\ \A t \in Sinks : sink[t] # "idle" <=> sink'[t] # "idle"
  <2>1. sink[s] \in Running
    BY DEF Running
  <2> QED
    BY <2>1, SinkMoves DEF Return
<1>3. /\ result' \in [Sinks -> {"none", "ok", "error", "undrained"}]
      /\ draining' \in [Sinks -> 0..2]
      /\ result'[s] = r /\ draining'[s] = n
      /\ \A t \in Sinks \ {s} : result'[t] = result[t] /\ draining'[t] = draining[t]
  BY DEF Return, IndInv, SinkTypeInv
<1>4. SinkTypeInv'
  BY <1>1, <1>2, <1>3, FieldsKept DEF IndInv, SinkTypeInv
<1>5. SrcInv'
  BY <1>1 DEF IndInv, SrcInv
<1>6. StoreInv' /\ OpenedInv'
  BY <1>1, <1>2, StoresKept DEF Connected
<1>7. ASSUME NEW t \in Sinks PROVE SinkInv(t)'
  BY <1>1, <1>2, <1>3 DEF IndInv, SinkInv
<1>8. ASSUME NEW t \in Sinks PROVE RowsInv(t)'
  BY <1>1, <1>2 DEF IndInv, RowsInv
<1>9. ASSUME NEW t \in Sinks PROVE ColumnsInv(t)'
  BY <1>1, <1>2, FieldsKept DEF IndInv, ColumnsInv, Alone
<1>10. ASSUME NEW t \in Sinks PROVE LossInv(t)'
  <2>1. Cause(t) => Cause(t)'
    BY <1>1, <1>2, CauseStays
  <2>2. CASE t = s
    BY <1>1, <1>3, <2>1, <2>2 DEF LossInv
  <2>3. CASE t # s
    BY <1>1, <1>3, <2>1, <2>3 DEF IndInv, LossInv
  <2> QED
    BY <2>2, <2>3
<1> QED
  BY <1>2, <1>4, <1>5, <1>6, <1>7, <1>8, <1>9, <1>10 DEF IndInv

\* A statement fails for a cause: another sink with a connection has been
\* called.
LEMMA FailsForCause ==
  ASSUME IndInv, NEW s \in Sinks, MayFail(s)
  PROVE  Cause(s)
<1>1. ASSUME NEW t \in conns \ {s} PROVE Cause(s)
  <2>1. t \in Sinks \ {s} /\ sink[t] # "idle"
    BY <1>1 DEF IndInv, SinkTypeInv, SinkInv, Connected
  <2> QED
    BY <2>1 DEF Cause
<1>2. s \in Failing \/ cancelled \/ \E t \in conns : t # s
  BY DEF MayFail
<1> QED
  BY <1>1, <1>2 DEF Cause

\* A column is taken for a cause: another sink has added it, or two fields of
\* the input are one column.
LEMMA TakenForCause ==
  ASSUME IndInv, NEW s \in Sinks, sink[s] = "fields", NEW f \in Unknown(s), Taken(s, f)
  PROVE  Cause(s)
<1>1. SUFFICES ASSUME Alone(s) PROVE Cause(s)
  BY DEF Alone, Cause
<1>2. PICK c \in columns[table[s]] : Column(c) = Column(f)
  BY DEF Taken
<1>3. c \in Fields(s) /\ c \in colMap[s]
  BY <1>1, <1>2 DEF IndInv, ColumnsInv
<1>4. f \in Fields(s) /\ f # c
  BY <1>3, EntryOfInput DEF Unknown
<1>5. Clash(s)
  BY <1>2, <1>3, <1>4, ClashFound DEF IndInv, SinkTypeInv
<1> QED
  BY <1>5 DEF Cause

LEMMA SinkRunsInv ==
  ASSUME IndInv, NEW s \in Sinks, SinkRuns(s)
  PROVE  IndInv'
<1>1. /\ UNCHANGED <<srcVars, pluginVars, table, store, cancelSeen, mainVars, crashed>>
      /\ SinkStep(s)
  BY DEF SinkRuns, SinkStep
<1>2. colMap' = [colMap EXCEPT ![s] = colMap[s]] => colMap' = colMap
  BY DEF IndInv, SinkTypeInv
<1>3. CASE Conn(s)
  <2>1. sink[s] = "conn" /\ UNCHANGED <<columns, rows, colMap>>
    BY <1>3 DEF Conn, Fail
  <2>2. \/ At(s, "conn", "ensure") /\ conns' = conns \cup {s} /\ UNCHANGED <<draining, result>>
        \/ Return(s, "undrained", 0) /\ conns' = conns \ {s}
    BY <1>3 DEF Conn, Fail, ConnClosed
  <2> QED
    BY <1>1, <2>1, <2>2, PrepareInv, ReturnInv
<1>4. CASE EnsureTable(s)
  <2>1. sink[s] = "ensure" /\ UNCHANGED <<columns, rows, colMap>>
    BY <1>4 DEF EnsureTable, Fail
  <2>2. \/ At(s, "ensure", "columns") /\ conns' = conns /\ UNCHANGED <<draining, result>>
        \/ Return(s, "error", 1) /\ conns' = conns \ {s}
    BY <1>4 DEF EnsureTable, Fail, ConnClosed
  <2>3. "ensure" \in Connected
    BY DEF Connected
  <2> QED
    BY <1>1, <2>1, <2>2, <2>3, PrepareInv, ReturnInv
<1>5. CASE GetColumns(s)
  <2>1. sink[s] = "columns" /\ UNCHANGED <<columns, rows>>
    BY <1>5 DEF GetColumns
  <2>2. \/ /\ At(s, "columns", "next") /\ conns' = conns /\ UNCHANGED <<draining, result>>
           /\ colMap' = [colMap EXCEPT ![s] = columns[table[s]]]
        \/ Return(s, "error", 1) /\ conns' = conns \ {s} /\ UNCHANGED colMap
    BY <1>5 DEF GetColumns, Fail, ConnClosed
  <2>3. "columns" \in Connected
    BY DEF Connected
  <2> QED
    BY <1>1, <2>1, <2>2, <2>3, PrepareInv, ReturnInv
<1>6. CASE Quit(s)
  <2>1. /\ sink[s] = "check" /\ s \in cancelSeen /\ Return(s, "ok", 0) /\ conns' = conns \ {s}
        /\ UNCHANGED <<columns, rows, colMap>>
    BY <1>6 DEF Quit, SinkEnds, ConnClosed
  <2>2. Cause(s) /\ "check" \in Connected
    BY <2>1 DEF IndInv, SinkInv, Cause, Connected
  <2> QED
    BY <1>1, <2>1, <2>2, ReturnInv
<1>7. CASE NotSeen(s)
  BY <1>1, <1>7, NotSeenInv
<1>8. CASE AddColumn(s)
  <2>1. PICK f \in Unknown(s) :
          \/ /\ columns' = [columns EXCEPT ![table[s]] = @ \cup {f}]
             /\ colMap' = [colMap EXCEPT ![s] = colMap[s] \cup {f}]
             /\ UNCHANGED <<sink, conns, draining, result>>
          \/ /\ Taken(s, f) \/ MayFail(s)
             /\ Return(s, "ok", 2) /\ conns' = conns \ {s}
             /\ colMap' = [colMap EXCEPT ![s] = colMap[s]]
             /\ UNCHANGED columns
    BY <1>8 DEF AddColumn, Learned, KnownAfterFailure, GiveUp, LoopDrains, ConnClosed
  <2>2. sink[s] = "fields" /\ "fields" \in Connected /\ UNCHANGED rows
    BY <1>8 DEF AddColumn, Connected
  <2>3. Taken(s, f) \/ MayFail(s) => Cause(s)
    BY <2>2, TakenForCause, FailsForCause
  <2> QED
    BY <1>1, <1>2, <2>1, <2>2, <2>3, AddInv, ReturnInv
<1>9. CASE Insert(s)
  <2>1. \/ At(s, "fields", "next") /\ rows' = [rows EXCEPT ![s] = Append(@, sent[s])]
           /\ UNCHANGED <<conns, draining, result>>
        \/ /\ Entry(s) = {} \/ MayFail(s)
           /\ Return(s, "ok", 2) /\ conns' = conns \ {s}
           /\ UNCHANGED rows
    BY <1>9 DEF Insert, GiveUp, LoopDrains, ConnClosed
  <2>2. sink[s] = "fields" /\ "fields" \in Connected /\ UNCHANGED <<columns, colMap>>
    BY <1>9 DEF Insert, Connected
  <2>3. Entry(s) = {} \/ MayFail(s) => Cause(s)
    BY <2>2, EntryOfInput, FailsForCause DEF Cause
  <2> QED
    BY <1>1, <2>1, <2>2, <2>3, InsertInv, ReturnInv
<1> QED
  BY <1>1, <1>3, <1>4, <1>5, <1>6, <1>7, <1>8, <1>9 DEF SinkStep

\* The flag is set only once the context is cancelled.
LEMMA FlagSetInv ==
  ASSUME IndInv, NEW s \in Sinks, FlagSet(s)
  PROVE  IndInv'
<1>1. /\ UNCHANGED <<input, sent, offering, srcDone, dbVars, sink, colMap, draining, result,
                     table, store, main, cancelled, crashed>>
      /\ UNCHANGED <<mainVars, pluginVars, columns, rows, conns>>
      /\ cancelled /\ cancelSeen' = cancelSeen \cup {s}
  BY DEF FlagSet, SetFlag, srcVars, mainVars, dbVars
<1>2. SinkTypeInv'
  BY <1>1, FieldsKept DEF IndInv, SinkTypeInv
<1>3. SrcInv' /\ MainInv'
  BY <1>1 DEF IndInv, SrcInv, MainInv, MainTypeOK, mainVars
<1>4. StoreInv' /\ OpenedInv'
  BY <1>1, StoresKept
<1>5. ASSUME NEW r \in Sinks PROVE SinkInv(r)' /\ RowsInv(r)'
  BY <1>1 DEF IndInv, SinkInv, RowsInv
<1>6. ASSUME NEW r \in Sinks PROVE ColumnsInv(r)'
  BY <1>1, FieldsKept DEF IndInv, ColumnsInv, Alone
<1>7. ASSUME NEW r \in Sinks PROVE LossInv(r)'
  BY <1>1, CauseStays DEF IndInv, LossInv
<1> QED
  BY <1>2, <1>3, <1>4, <1>5, <1>6, <1>7 DEF IndInv

\* The entry that is received is the one after those that are stored.
LEMMA ReceiveInv ==
  ASSUME IndInv, NEW s \in Sinks, SinkReceives(s)
  PROVE  IndInv'
<1>1. /\ UNCHANGED <<columns, rows, conns, pluginVars, table, store, colMap, cancelSeen,
                     draining, result, crashed>>
      /\ UNCHANGED mainVars /\ UNCHANGED <<main, cancelled>>
      /\ sink[s] = "next" /\ sink' = [sink EXCEPT ![s] = "check"] /\ Send(s)
  BY DEF SinkReceives, At, dbVars, mainVars
<1>2. /\ MainInv' /\ sink'[s] = "check" /\ \A r \in Sinks \ {s} : sink'[r] = sink[r]
      /\ sink' \in [Sinks -> {"idle", "returned"} \cup Running]
      /\ \A r \in Sinks : sink[r] # "idle" <=> sink'[r] # "idle"
  <2>1. "next" \in Running /\ "check" \in Running
    BY DEF Running, Connected
  <2> QED
    BY <1>1, <2>1, SinkMoves
<1>3. /\ SrcInv' /\ UNCHANGED input /\ sent'[s] = sent[s] + 1 /\ sent[s] \in Nat
      /\ \A r \in Sinks \ {s} : sent'[r] = sent[r]
  BY <1>1, SendInv DEF IndInv, SrcInv
<1>4. SinkTypeInv'
  BY <1>1, <1>2, <1>3, FieldsKept DEF IndInv, SinkTypeInv
<1>5. StoreInv' /\ OpenedInv'
  BY <1>1, <1>2, StoresKept
<1>6. ASSUME NEW r \in Sinks PROVE SinkInv(r)'
  BY <1>1, <1>2 DEF IndInv, SinkInv, Connected
<1>7. ASSUME NEW r \in Sinks PROVE RowsInv(r)'
  BY <1>1, <1>2, <1>3 DEF IndInv, RowsInv
<1>8. ASSUME NEW r \in Sinks PROVE ColumnsInv(r)'
  BY <1>1, <1>2, <1>3, FieldsKept DEF IndInv, ColumnsInv, Alone
<1>9. ASSUME NEW r \in Sinks PROVE LossInv(r)'
  <2>1. Cause(r) => Cause(r)'
    BY <1>1, <1>2, <1>3, CauseStays
  <2>2. result[s] = "none"
    BY <1>1 DEF IndInv, SinkInv
  <2> QED
    BY <1>1, <1>3, <2>1, <2>2 DEF IndInv, LossInv
<1> QED
  BY <1>2, <1>3, <1>4, <1>5, <1>6, <1>7, <1>8, <1>9 DEF IndInv

LEMMA EndInv ==
  ASSUME IndInv, NEW s \in Sinks, EndReceived(s)
  PROVE  IndInv'
<1>1. UNCHANGED <<srcVars, columns, rows, pluginVars, table, store, colMap, cancelSeen,
                  mainVars, crashed>>
  BY DEF EndReceived
<1>2. CASE sink[s] = "next" /\ SinkEnds(s)
  <2>1. Return(s, "ok", 0) /\ conns' = conns \ {s} /\ Len(rows[s]) = sent[s]
    BY <1>2 DEF IndInv, RowsInv, SinkEnds, ConnClosed
  <2>2. sink[s] \in Connected
    BY <1>2 DEF Connected
  <2> QED
    BY <1>1, <2>1, <2>2, ReturnInv
<1>3. CASE /\ draining[s] > 0
           /\ draining' = [draining EXCEPT ![s] = @ - 1]
           /\ UNCHANGED <<sink, result, conns>>
  <2>1. UNCHANGED <<input, sent, offering, srcDone, main, cancelled>>
    BY <1>1 DEF srcVars, mainVars
  <2>2. /\ draining' \in [Sinks -> 0..2] /\ draining[s] \in 1..2
        /\ \A r \in Sinks \ {s} : draining'[r] = draining[r]
    BY <1>3 DEF IndInv, SinkTypeInv
  <2>3. SinkTypeInv'
    BY <1>1, <1>3, <2>1, <2>2, FieldsKept DEF IndInv, SinkTypeInv
  <2>4. SrcInv' /\ MainInv'
    BY <1>1, <1>3, <2>1 DEF IndInv, SrcInv, MainInv, MainTypeOK, mainVars
  <2>5. StoreInv' /\ OpenedInv'
    BY <1>1, <1>3, <2>1, StoresKept
  <2>6. ASSUME NEW r \in Sinks PROVE SinkInv(r)' /\ RowsInv(r)'
    BY <1>1, <1>3, <2>1, <2>2 DEF IndInv, SinkInv, RowsInv
  <2>7. ASSUME NEW r \in Sinks PROVE ColumnsInv(r)'
    BY <1>1, <1>3, <2>1, FieldsKept DEF IndInv, ColumnsInv, Alone
  <2>8. ASSUME NEW r \in Sinks PROVE LossInv(r)'
    <3>1. Cause(r) => Cause(r)'
      BY <1>3, <2>1, CauseStays
    <3> QED
      BY <1>1, <1>3, <2>1, <2>2, <3>1 DEF IndInv, LossInv
  <2> QED
    BY <2>3, <2>4, <2>5, <2>6, <2>7, <2>8 DEF IndInv
<1> QED
  BY <1>2, <1>3 DEF EndReceived

-----------------------------------------------------------------------------
(* Every step preserves the invariant *)

\* A crash, and a step of nobody.
LEMMA StillInv ==
  ASSUME IndInv, UNCHANGED <<srcVars, dbVars, pluginVars, sinkVars, mainVars>>,
         crashed' \in BOOLEAN
  PROVE  IndInv'
<1>1. UNCHANGED <<input, sent, offering, srcDone, sink, store, main, cancelled>>
  BY DEF srcVars, sinkVars, mainVars
<1>2. SrcInv' /\ MainInv'
  BY <1>1 DEF IndInv, SrcInv, MainInv, MainTypeOK, mainVars
<1>3. StoreInv' /\ OpenedInv'
  BY <1>1, StoresKept
<1>4. /\ SinkTypeInv'
      /\ \A s \in Sinks : SinkInv(s)' /\ RowsInv(s)' /\ ColumnsInv(s)' /\ LossInv(s)'
  BY <1>1, SinksKept
<1> QED
  BY <1>2, <1>3, <1>4 DEF IndInv

LEMMA NextIndInv == IndInv /\ [Next]_vars => IndInv'
<1> SUFFICES ASSUME IndInv, [Next]_vars PROVE IndInv'
  OBVIOUS
<1>1. CASE Stopped \/ UNCHANGED vars
  <2>1. UNCHANGED <<srcVars, dbVars, pluginVars, sinkVars, mainVars, crashed>>
    BY <1>1 DEF Stopped, vars
  <2>2. crashed' \in BOOLEAN
    BY <2>1 DEF IndInv, SinkTypeInv
  <2> QED
    BY <2>1, <2>2, StillInv
<1>2. CASE Crash
  BY <1>2, StillInv DEF Crash
<1>3. CASE MainRuns
  BY <1>3, MainRunsInv
<1>4. ASSUME NEW s \in Sinks, CallSync(s) \/ CallAsync(s) PROVE IndInv'
  BY <1>4, BeginInv
<1>5. ASSUME NEW s \in Sinks, StartAsync(s) \/ Returned(s) PROVE IndInv'
  BY <1>5, StatementInv
<1>6. ASSUME NEW s \in Sinks, Opens(s) PROVE IndInv'
  BY <1>6, OpensInv
<1>7. ASSUME NEW s \in Sinks, SourceRuns(s) PROVE IndInv'
  BY <1>7, SourceInv
<1>8. ASSUME NEW s \in Sinks, SinkReceives(s) PROVE IndInv'
  BY <1>8, ReceiveInv
<1>9. ASSUME NEW s \in Sinks, DrainReceives(s) PROVE IndInv'
  BY <1>9, DrainInv
<1>10. ASSUME NEW s \in Sinks, EndReceived(s) PROVE IndInv'
  BY <1>10, EndInv
<1>11. ASSUME NEW s \in Sinks, SinkRuns(s) PROVE IndInv'
  BY <1>11, SinkRunsInv
<1>12. ASSUME NEW s \in Sinks, FlagSet(s) PROVE IndInv'
  BY <1>12, FlagSetInv
<1>13. CASE Progress
  BY <1>3, <1>4, <1>5, <1>6, <1>8, <1>9, <1>10, <1>11, <1>13 DEF Progress
<1>14. CASE Event
  BY <1>2, <1>7, <1>12, <1>14 DEF Event
<1> QED
  BY <1>1, <1>13, <1>14 DEF Next

-----------------------------------------------------------------------------
(* Theorems *)

\* The inductive invariant holds in every state: the wait group counts the
\* running sinks, the only store is in the map or in a hand, and what is not
\* stored is accounted for.
THEOREM StoreInductive == Spec => []IndInv
<1>1. Init => IndInv
  BY InitIndInv
<1>2. IndInv /\ [Next]_vars => IndInv'
  BY NextIndInv
<1> QED
  BY <1>1, <1>2, PTL DEF Spec

\* The variables keep their types; no more stores are opened than there are
\* sinks.
THEOREM StoreTypeCorrect == Spec => []TypeOK
<1>1. IndInv => TypeOK
  <2> SUFFICES ASSUME IndInv PROVE TypeOK
    OBVIOUS
  <2>1. Len(stores) <= Cardinality(Sinks)
    <3>1. PICK opener \in SUBSET Sinks : Cardinality(opener) = Len(stores)
      BY DEF IndInv, OpenedInv
    <3>2. Cardinality(opener) <= Cardinality(Sinks)
      BY SinksAssumption, FS_Subset
    <3> QED
      BY <3>1, <3>2
  <2>2. \A s \in Sinks : sent[s] \in 0..Len(input[s])
    BY Entries DEF IndInv, SrcInv, SinkTypeInv
  <2>3. sink \in [Sinks -> {"idle", "lookup", "cache", "conn", "ensure", "columns",
                            "next", "check", "fields", "returned"}]
    BY DEF IndInv, SinkTypeInv, Running, Connected
  <2> QED
    BY <2>1, <2>2, <2>3 DEF IndInv, SinkTypeInv, SrcInv, MainInv, StoreInv, TypeOK
<1> QED
  BY <1>1, StoreInductive, PTL

\* The rows of a sink are a prefix of its input without gaps, and one that
\* reports success has stored all that was sent unless one of the causes holds:
\* for any number of sinks, tables and entries.
THEOREM StoreLossExplained == Spec => []LossExplained
<1>1. IndInv => LossExplained
  <2> SUFFICES ASSUME IndInv, NEW s \in Sinks
               PROVE  /\ rows[s] = [k \in 1..Len(rows[s]) |-> k]
                      /\ (result[s] = "ok" /\ Len(rows[s]) < sent[s]) =>
                           \/ cancelled
                           \/ s \in Failing
                           \/ \E t \in Sinks \ {s} : sink[t] # "idle"
                           \/ {} \in ToSet(input[s])
                           \/ Clash(s)
    BY DEF LossExplained
  <2>1. rows[s] = [k \in 1..Len(rows[s]) |-> k]
    BY DEF IndInv, RowsInv, FirstRows
  <2>2. result[s] = "ok" /\ Len(rows[s]) < sent[s] => Cause(s)
    BY DEF IndInv, LossInv, SrcInv
  <2> QED
    BY <2>1, <2>2 DEF Cause
<1> QED
  BY <1>1, StoreInductive, PTL

\* A store is closed only by Stopping, and no sink is running by then: none
\* uses a closed store.
THEOREM StoreNoUseAfterClose == Spec => []NoUseAfterClose
<1>1. IndInv => NoUseAfterClose
  <2> SUFFICES ASSUME IndInv, NEW s \in Sinks, store[s] # 0, stores[store[s]] = "closed"
               PROVE  result[s] # "none"
    BY DEF NoUseAfterClose
  <2>1. store[s] \in DOMAIN stores
    BY LenProperties DEF IndInv, StoreInv
  <2>2. main = "done" /\ sink[s] # "idle"
    BY <2>1 DEF IndInv, StoreInv
  <2>3. sink[s] = "returned"
    BY <2>2, NoneRunning DEF IndInv
  <2> QED
    BY <2>3 DEF IndInv, SinkInv
<1> QED
  BY <1>1, StoreInductive, PTL

\* Every path on which a sink returns closes its connection, and a session that
\* has opened its file once leaves no store open.
THEOREM StoreEverythingClosed == Spec => []EverythingClosed
<1>1. IndInv => EverythingClosed
  <2> SUFFICES ASSUME IndInv PROVE EverythingClosed
    OBVIOUS
  <2>1. \A s \in Sinks : result[s] # "none" => s \notin conns
    BY DEF IndInv, SinkInv, Connected
  <2>2. main = "done" => \/ \A i \in DOMAIN stores : stores[i] = "closed"
                         \/ Len(stores) > 1
    BY LenProperties DEF IndInv, StoreInv
  <2> QED
    BY <2>1, <2>2 DEF EverythingClosed
<1> QED
  BY <1>1, StoreInductive, PTL

=============================================================================
