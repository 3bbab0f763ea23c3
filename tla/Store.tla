------------------------------- MODULE Store -------------------------------
(***************************************************************************)
(* A session of "nomlog exec" for sinks of the store plugin                *)
(* (plugin/store/store.go, plugin.go):                                     *)
(*                                                                         *)
(*     source as i std.In      (one goroutine for each sink)               *)
(*     sink i [async as j] to sqlite.Table "db" "table"                    *)
(*                                                                         *)
(*  - The plugin keeps the stores it has opened in a map that asynchronous *)
(*    sinks read and write without a lock; Stopping closes those in it.    *)
(*  - A sink takes a connection, makes sure of its table, reads which      *)
(*    columns it has, and keeps that set for itself.  For each entry it    *)
(*    adds the columns it does not know of and inserts a row.  What goes   *)
(*    wrong in that is logged, and the sink returns nil.                   *)
(*                                                                         *)
(* All sinks use one database file.  The database is external: a statement *)
(* is one step; it may fail for the sinks Failing, once the context is     *)
(* cancelled, and while another sink has a connection, because the file    *)
(* may be locked.  Column names are compared ignoring case.                *)
(***************************************************************************)
EXTENDS Exec, FiniteSets, SequencesExt

CONSTANTS
  Sinks,      \* the sinks of the session
  Failing,    \* those for which the database may fail
  BadArgs,    \* those whose arguments may be rejected
  Targets,    \* the tables that the sinks may name, functions from Sinks;
              \* "bad" is a name that is no table name
  Inputs,     \* the inputs: functions from Sinks to sequences of entries, and
              \* an entry is a set of fields
  Column(_)   \* the column of a field: its name, ignoring case

ASSUME StoreAssumption == Failing \subseteq Sinks /\ BadArgs \subseteq Sinks

\* A script has finitely many sinks, and each of its statements is one of its
\* own: the parser gives an iterator to one reader only (ast.go:483).
ASSUME SinksAssumption == IsFiniteSet(Sinks)
ASSUME ScriptsAssumption ==
  \A sc \in Scripts :
    /\ sc \in Seq([sink : Sinks, async : BOOLEAN])
    /\ \A i, j \in DOMAIN sc : sc[i].sink = sc[j].sink => i = j

\* The input of a sink is a sequence.
ASSUME InputsAssumption ==
  \A in \in Inputs : \A s \in Sinks : in[s] \in Seq(ToSet(in[s]))

Table == UNION {{target[s] : s \in Sinks} : target \in Targets}

VARIABLES
  input,      \* input[s]: the entries for sink s
  sent,       \* sent[s]: how many of them its source has sent
  offering,   \* the sinks whose source is in its send
  srcDone,    \* the sinks whose source has closed its channel
  storeCache, \* the store in the plugin's map, 0 if there is none
  stores,     \* stores[i]: store i is "open" or "closed"
  table,      \* table[s]: the table that s writes to
  columns,    \* columns[t]: the columns of table t, as they were added
  rows,       \* rows[s]: the entries that s has inserted, in order
  sink,       \* sink[s]: where the call of sink s is
  store,      \* store[s]: the store that s uses
  conns,      \* the sinks that have a connection
  colMap,     \* colMap[s]: the columns that s knows of
  cancelSeen, \* the sinks whose flag "cancelled" is set
  draining,   \* draining[s]: goroutines that drain the input of s
  result,     \* result[s]: "none", then "ok", "error" or "undrained", an
              \* error after which nothing drains
  crashed     \* the Go runtime found two goroutines in the map

srcVars == <<input, sent, offering, srcDone>>
dbVars == <<columns, rows, conns>>
pluginVars == <<storeCache, stores>>
sinkVars == <<table, sink, store, colMap, cancelSeen, draining, result>>
vars == <<srcVars, dbVars, pluginVars, sinkVars, mainVars, crashed>>

Init == /\ input \in Inputs
        /\ sent = [s \in Sinks |-> 0]
        /\ offering = {}
        /\ srcDone = {}
        /\ storeCache = 0
        /\ stores = <<>>
        /\ table \in Targets
        /\ columns = [t \in Table |-> {}]
        /\ rows = [s \in Sinks |-> <<>>]
        /\ sink = [s \in Sinks |-> "idle"]
        /\ store = [s \in Sinks |-> 0]
        /\ conns = {}
        /\ colMap = [s \in Sinks |-> {}]
        /\ cancelSeen = {}
        /\ draining = [s \in Sinks |-> 0]
        /\ result = [s \in Sinks |-> "none"]
        /\ crashed = FALSE
        /\ MainInit

-----------------------------------------------------------------------------
(* The sink function of the plugin *)

At(s, here, there) == sink[s] = here /\ sink' = [sink EXCEPT ![s] = there]

\* Sink s returns r and leaves n goroutines draining its input.
Return(s, r, n) == /\ sink' = [sink EXCEPT ![s] = "returned"]
                   /\ result' = [result EXCEPT ![s] = r]
                   /\ draining' = [draining EXCEPT ![s] = n]

\* What is left of the connections when s has returned, on every path.  A
\* faulty variant closes it at the end of the input only.
ConnKept(s) == IF draining'[s] = 0 THEN conns \ {s} ELSE conns
ConnClosed(s) == conns \ {s}

\* The call begins: in the main goroutine or in its own.
Call(s) == At(s, "idle", "lookup") /\ UNCHANGED <<draining, result>>
CallRejected(s) == sink[s] = "idle" /\ s \in BadArgs /\ Return(s, "undrained", 0)
Begin(s) == /\ Call(s) \/ CallRejected(s)
            /\ UNCHANGED <<srcVars, dbVars, pluginVars, table, store, colMap,
                           cancelSeen, crashed>>

\* The store of the file is in the cache, or is opened and, as another step,
\* put into the cache.  Opening does not fail: it does not touch the file.
Lookup(s) == /\ IF storeCache = 0
                THEN /\ At(s, "lookup", "cache")
                     /\ stores' = Append(stores, "open")
                     /\ store' = [store EXCEPT ![s] = Len(stores')]
                ELSE /\ At(s, "lookup", "conn")
                     /\ store' = [store EXCEPT ![s] = storeCache]
                     /\ UNCHANGED stores
             /\ UNCHANGED <<dbVars, storeCache, table, colMap, cancelSeen,
                            draining, result, crashed>>

PutInCache(s) == /\ At(s, "cache", "conn")
                 /\ storeCache' = store[s]
                 /\ UNCHANGED <<dbVars, stores, table, store, colMap, cancelSeen,
                                draining, result, crashed>>

\* Two goroutines are in the map and one of them writes: the Go runtime may
\* find it out and end the program.
Crash == /\ \E s, t \in Sinks : /\ s # t
                                /\ sink[s] = "cache"
                                /\ sink[t] \in {"lookup", "cache"}
         /\ crashed' = TRUE
         /\ UNCHANGED <<srcVars, dbVars, pluginVars, sinkVars, mainVars>>

-----------------------------------------------------------------------------
(* SqliteStore.CtxSink *)

MayFail(s) == \/ s \in Failing
              \/ cancelled
              \/ conns \ {s} # {}

\* An error of CtxSink before its loop; n goroutines drain.
Fail(s, r, n) == Return(s, r, n) /\ conns' = ConnClosed(s) /\ UNCHANGED colMap

\* The table name is checked, then a connection is taken: neither failure
\* drains.
Conn(s) == /\ sink[s] = "conn"
           /\ \/ /\ table[s] # "bad"
                 /\ At(s, "conn", "ensure")
                 /\ conns' = conns \cup {s}
                 /\ UNCHANGED <<colMap, draining, result>>
              \/ (table[s] = "bad" \/ MayFail(s)) /\ Fail(s, "undrained", 0)
           /\ UNCHANGED <<columns, rows>>

\* ensureTable.  The key column of a new table is left out.
EnsureTable(s) == /\ sink[s] = "ensure"
                  /\ \/ /\ At(s, "ensure", "columns")
                        /\ UNCHANGED <<conns, colMap, draining, result>>
                     \/ MayFail(s) /\ Fail(s, "error", 1)
                  /\ UNCHANGED <<columns, rows>>

\* getTableColumns
GetColumns(s) == /\ sink[s] = "columns"
                 /\ \/ /\ At(s, "columns", "next")
                       /\ colMap' = [colMap EXCEPT ![s] = columns[table[s]]]
                       /\ UNCHANGED <<conns, draining, result>>
                    \/ MayFail(s) /\ Fail(s, "error", 1)
                 /\ UNCHANGED <<columns, rows>>

-----------------------------------------------------------------------------
(* SqliteStore.sink *)

Entry(s) == input[s][sent[s]]

\* An error within the loop: Iterate drains and so does sink, the connection is
\* closed, and CtxSink returns nil.
\* Faulty variant: nothing is drained.
NoDrains == 0
LoopDrains == 2
GiveUp(s) == Return(s, "ok", LoopDrains) /\ conns' = ConnClosed(s)

\* ErrAtEnd from the input or, once the flag is seen, from the sink itself.
SinkEnds(s) == Return(s, "ok", 0) /\ conns' = ConnClosed(s)

Quit(s) == /\ sink[s] = "check" /\ s \in cancelSeen
           /\ SinkEnds(s)
           /\ UNCHANGED <<columns, rows, colMap>>

NotSeen(s) == At(s, "check", "fields") /\ s \notin cancelSeen
              /\ UNCHANGED <<dbVars, colMap, draining, result>>

\* addColumn for a field that s knows no column of, in any order.  It fails if
\* the table has such a column by now.
Unknown(s) == Entry(s) \ colMap[s]
Taken(s, f) == \E c \in columns[table[s]] : Column(c) = Column(f)

\* What s knows of when it has added column f, and when it has failed to.  A
\* faulty variant forgets it.
Forgotten(s, f) == colMap[s]
Learned(s, f) == colMap[s] \cup {f}
KnownAfterFailure(s, f) == colMap[s]

AddColumn(s) ==
  /\ sink[s] = "fields"
  /\ \E f \in Unknown(s) :
       \/ /\ ~Taken(s, f)
          /\ columns' = [columns EXCEPT ![table[s]] = @ \cup {f}]
          /\ colMap' = [colMap EXCEPT ![s] = Learned(s, f)]
          /\ UNCHANGED <<sink, conns, draining, result>>
       \/ /\ Taken(s, f) \/ MayFail(s)
          /\ GiveUp(s)
          /\ colMap' = [colMap EXCEPT ![s] = KnownAfterFailure(s, f)]
          /\ UNCHANGED columns
  /\ UNCHANGED rows

\* The insert of a row.  Without a field its text is no statement.
Insert(s) == /\ sink[s] = "fields"
             /\ Unknown(s) = {}
             /\ \/ /\ Entry(s) # {}
                   /\ At(s, "fields", "next")
                   /\ rows' = [rows EXCEPT ![s] = Append(@, sent[s])]
                   /\ UNCHANGED <<conns, draining, result>>
                \/ /\ Entry(s) = {} \/ MayFail(s)
                   /\ GiveUp(s)
                   /\ UNCHANGED rows
             /\ UNCHANGED <<columns, colMap>>

\* The goroutine that waits for ctx.Done sets the flag.
SetFlag(s) == /\ cancelled
              /\ sink[s] \in {"next", "check", "fields"}
              /\ s \notin cancelSeen
              /\ cancelSeen' = cancelSeen \cup {s}
              /\ UNCHANGED <<dbVars, sink, colMap, draining, result>>

SinkStep(s) == \/ /\ Conn(s) \/ EnsureTable(s) \/ GetColumns(s)
                  /\ UNCHANGED cancelSeen
               \/ /\ Quit(s) \/ NotSeen(s) \/ AddColumn(s) \/ Insert(s)
                  /\ UNCHANGED cancelSeen
SinkRuns(s) == /\ SinkStep(s)
               /\ UNCHANGED <<srcVars, pluginVars, table, store, mainVars, crashed>>
FlagSet(s) == /\ SetFlag(s)
              /\ UNCHANGED <<srcVars, pluginVars, table, store, mainVars, crashed>>

-----------------------------------------------------------------------------
(* The sources, and the main goroutine *)

\* The source of s reads its next entry, and is in its send until it is taken.
Read(s) == /\ s \notin offering \cup srcDone
           /\ sent[s] < Len(input[s])
           /\ offering' = offering \cup {s}
           /\ UNCHANGED <<input, sent, srcDone>>
Send(s) == /\ s \in offering
           /\ sent' = [sent EXCEPT ![s] = @ + 1]
           /\ offering' = offering \ {s}
           /\ UNCHANGED <<input, srcDone>>

\* The input has come to its end, or its source has seen the cancellation.
ReadEnd(s) == /\ s \notin offering \cup srcDone
              /\ sent[s] = Len(input[s]) \/ cancelled
              /\ srcDone' = srcDone \cup {s}
              /\ UNCHANGED <<input, sent, offering>>
SourceRuns(s) == /\ Read(s) \/ ReadEnd(s)
                 /\ UNCHANGED <<dbVars, pluginVars, sinkVars, mainVars, crashed>>

\* The source waits in its read for standard input, whether cancelled or not.
InputSilent(s) == s \notin offering \cup srcDone

SinkReceives(s) == /\ Send(s)
                   /\ At(s, "next", "check")
                   /\ UNCHANGED <<dbVars, pluginVars, table, store, colMap,
                                  cancelSeen, draining, result, mainVars, crashed>>
DrainReceives(s) == /\ Send(s)
                    /\ draining[s] > 0
                    /\ UNCHANGED <<dbVars, pluginVars, sinkVars, mainVars, crashed>>

EndReceived(s) ==
  /\ s \in srcDone
  /\ \/ sink[s] = "next" /\ SinkEnds(s)
     \/ /\ draining[s] > 0
        /\ draining' = [draining EXCEPT ![s] = @ - 1]
        /\ UNCHANGED <<sink, result, conns>>
  /\ UNCHANGED <<srcVars, columns, rows, pluginVars, table, store, colMap,
                 cancelSeen, mainVars, crashed>>

\* A goroutine of the script: the statement, the call, its return.
CallSync(s) == RunSync(s) /\ Begin(s)
StartAsync(s) == /\ RunAsync(s)
                 /\ UNCHANGED <<srcVars, dbVars, pluginVars, sinkVars, crashed>>
CallAsync(s) == Started(s) /\ Begin(s) /\ UNCHANGED mainVars
Opens(s) == (Lookup(s) \/ PutInCache(s)) /\ UNCHANGED <<srcVars, mainVars>>
Error(s) == IF result[s] = "ok" THEN "ok" ELSE "error"
Returned(s) == /\ result[s] # "none"
               /\ SyncReturned(s, Error(s)) \/ AsyncReturned(s)
               /\ UNCHANGED <<srcVars, dbVars, pluginVars, sinkVars, crashed>>

\* Stopping closes the stores in the cache.
Stopping(i) == IF i = storeCache THEN "closed" ELSE stores[i]
MainRuns == /\ MainStep
            /\ stores' = IF PluginsStopped
                         THEN [i \in DOMAIN stores |-> Stopping(i)]
                         ELSE stores
            /\ UNCHANGED <<srcVars, dbVars, storeCache, sinkVars, crashed>>

\* Nothing is left to do, or the program has ended.
Stopped == (main = "done" \/ crashed) /\ UNCHANGED vars

\* What a goroutine does when it can, and what happens to it: a line of standard
\* input, or its end, may come at any time or never.
Progress == /\ ~crashed
            /\ \/ MainRuns
               \/ \E s \in Sinks :
                    \/ CallSync(s) \/ StartAsync(s) \/ CallAsync(s) \/ Opens(s)
                    \/ SinkReceives(s) \/ DrainReceives(s) \/ EndReceived(s)
                    \/ SinkRuns(s) \/ Returned(s)

Event == /\ ~crashed
         /\ \/ Crash
            \/ \E s \in Sinks : FlagSet(s) \/ SourceRuns(s)

Next == Progress \/ Event \/ Stopped

Spec == Init /\ [][Next]_vars

\* Every goroutine runs when it can; a flag need not ever be seen, and standard
\* input need not ever answer a read.  No step of Progress can happen more than
\* a bounded number of times: that some step is taken while there is one means
\* that each goroutine gets its turn.
FairSpec == Spec /\ WF_vars(Progress)

-----------------------------------------------------------------------------
(* Properties *)

\* Every variable has its type.
TypeOK ==
  /\ MainTypeOK
  /\ \A s \in Sinks : sent[s] \in 0..Len(input[s])
  /\ offering \subseteq Sinks
  /\ srcDone \subseteq Sinks
  /\ storeCache \in 0..Len(stores)
  /\ Len(stores) <= Cardinality(Sinks)
  /\ sink \in [Sinks -> {"idle", "lookup", "cache", "conn", "ensure", "columns",
                         "next", "check", "fields", "returned"}]
  /\ store \in [Sinks -> 0..Len(stores)]
  /\ conns \subseteq Sinks
  /\ cancelSeen \subseteq Sinks
  /\ draining \in [Sinks -> 0..2]
  /\ result \in [Sinks -> {"none", "ok", "error", "undrained"}]
  /\ crashed \in BOOLEAN

\* Two fields of one input that are one column to the database.
Clash(s) == \E i, j \in DOMAIN input[s] : \E f \in input[s][i], g \in input[s][j] :
              f # g /\ Column(f) = Column(g)

\* The rows of a sink are the beginning of its input, without gaps: it never
\* goes on after an entry that it could not store.  A sink that returns nil has
\* stored all that its source has sent, or one of these is the cause, none of
\* which it reports: the cancellation, a failing database, another sink on the
\* same file, an entry without fields, or two fields whose names differ in case
\* only.
LossExplained ==
  \A s \in Sinks :
    /\ rows[s] = [k \in 1..Len(rows[s]) |-> k]
    /\ (result[s] = "ok" /\ Len(rows[s]) < sent[s]) =>
         \/ cancelled
         \/ s \in Failing
         \/ \E t \in Sinks \ {s} : sink[t] # "idle"
         \/ {} \in ToSet(input[s])
         \/ Clash(s)

\* A store is closed only when no sink uses it, nor is about to.
NoUseAfterClose ==
  \A s \in Sinks : (store[s] # 0 /\ stores[store[s]] = "closed") => result[s] # "none"

\* On every path on which a sink returns, its connection is closed, and when the
\* session is over every store is, unless the file was opened twice: then the
\* cache has lost one of the two.
EverythingClosed ==
  /\ \A s \in Sinks : result[s] # "none" => s \notin conns
  /\ main = "done" => \/ \A i \in DOMAIN stores : stores[i] = "closed"
                      \/ Len(stores) > 1

\* A sink does not block its upstream (doc.go:9), whether it comes to the end
\* or fails at its table or in its loop: its source comes to its end.  Left out
\* are the sinks that return before they have a connection, which drain nothing,
\* those that saw the cancellation, and a standard input that is silent for ever.
SourceReleased ==
  \A s \in Sinks : (result[s] \in {"ok", "error"} /\ s \notin cancelSeen)
                     ~> (s \in srcDone \/ crashed \/ []InputSilent(s))
=============================================================================
