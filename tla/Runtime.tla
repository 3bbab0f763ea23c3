------------------------------- MODULE Runtime -------------------------------
(***************************************************************************)
(* The runtime (runtime/runtime.go): it executes the statements of a       *)
(* script one after another and keeps, for each identifier, a slot with an *)
(* iterator and a mark that says whether the identifier has been consumed. *)
(* Sinks run in the calling goroutine, or in one of their own if they are  *)
(* asynchronous; Stop waits for the latter.                                *)
(*                                                                         *)
(* Iterators are numbered in the order of their creation; 0 is a nil       *)
(* iterator, which a dry run stores.  Of an iterator the model keeps how   *)
(* many readers it has been given.                                         *)
(***************************************************************************)
EXTENDS Ast, SequencesExt

VARIABLES
  state,        \* r.state
  dryRun,       \* r.dryRun
  sourceIDs,    \* r.sourceIDs: the slot of each identifier defined
  sources,      \* r.sources: the iterator in each slot
  consumed,     \* r.consumed: the mark of each slot
  readers,      \* readers[i]: the readers that iterator i has been given
  asts,         \* the statements of the current Execute
  at,           \* the statement that it is at; 0 if Execute is not running
  err,          \* what the last Execute returned
  errAt,        \* the statement at which it returned
  tasks         \* the sinks called so far, see Task

runtimeVars == <<state, dryRun, sourceIDs, sources, consumed, readers, asts,
                 at, err, errAt, tasks>>

\* A call of a sink: where it is, its identifier, whether it is asynchronous,
\* the iterator that it reads, and the one that its identifier stood for when
\* its statement was executed.
Task == [status : {"starting", "reading", "returned"}, id : Id, async : BOOLEAN,
         reads : Nat, named : Nat, args : Args]

RuntimeInit == /\ state = "created"
               /\ dryRun = FALSE
               /\ sourceIDs = [id \in {} |-> 0]
               /\ sources = <<>>
               /\ consumed = <<>>
               /\ readers = <<>>
               /\ asts = <<>>
               /\ at = 0
               /\ err = "none"
               /\ errAt = 0
               /\ tasks = <<>>

\* A new runtime takes the place of the old one.
NewRuntime == /\ state' = "created"
              /\ dryRun' = FALSE
              /\ sourceIDs' = [id \in {} |-> 0]
              /\ sources' = <<>>
              /\ consumed' = <<>>
              /\ readers' = <<>>
              /\ asts' = <<>>
              /\ at' = 0
              /\ err' = "none"
              /\ errAt' = 0
              /\ tasks' = <<>>

-----------------------------------------------------------------------------
(* The identifiers and their slots *)

Defined(id) == id \in DOMAIN sourceIDs

\* validateNewSourceID
NewIDError(id) == CASE id = NoId -> "empty"
                    [] Defined(id) -> "defined"
                    [] OTHER -> "none"

\* validateExistingSourceID
ExistingIDError(id) == CASE id = NoId -> "empty"
                         [] id # NoId /\ ~Defined(id) -> "undefined"
                         [] Defined(id) /\ consumed[sourceIDs[id]] -> "consumed"
                         [] OTHER -> "none"

\* getSource
SourceOf(id) == sources[sourceIDs[id]]

\* The table of identifiers after addSource of each of ids, in that order.
Bind(ids) ==
  [id \in DOMAIN sourceIDs \cup ToSet(ids) |->
     IF id \in ToSet(ids)
     THEN Len(sources) + (CHOOSE k \in DOMAIN ids :
                            /\ ids[k] = id
                            /\ \A j \in DOMAIN ids : ids[j] = id => j <= k)
     ELSE sourceIDs[id]]

\* The marks after markConsumed of each of ids.
Mark(ids) == [i \in DOMAIN consumed |->
                consumed[i] \/ \E id \in ids : sourceIDs[id] = i]

\* The marks of the new slots.
NewMarks(iters) == [k \in DOMAIN iters |-> FALSE]

\* addSource of each of ids with the iterator of the same position, after
\* markConsumed of the identifiers in gone.
AddSources(ids, iters, gone) ==
  /\ sourceIDs' = Bind(ids)
  /\ sources' = sources \o iters
  /\ consumed' = Mark(gone) \o NewMarks(iters)

\* replaceSource of id, after markConsumed of the identifiers in gone.
ReplaceSource(id, iter, gone) ==
  /\ sources' = [sources EXCEPT ![sourceIDs[id]] = iter]
  /\ consumed' = Mark(gone)
  /\ UNCHANGED sourceIDs

\* n new iterators are created, the goroutines or wrappers behind them being
\* readers of the iterators in the sequence used.
Created(n) == [k \in 1..n |-> Len(readers) + k]
Attach(used, n) ==
  readers' = [i \in DOMAIN readers |->
                readers[i] + Cardinality({k \in DOMAIN used : used[k] = i})]
             \o [k \in 1..n |-> 0]

-----------------------------------------------------------------------------
(* The checks of each statement; the first error found is returned *)

FirstError(errors) ==
  IF \A k \in DOMAIN errors : errors[k] = "none" THEN "none"
  ELSE errors[CHOOSE k \in DOMAIN errors :
                /\ errors[k] # "none"
                /\ \A j \in 1..(k - 1) : errors[j] = "none"]

ClassError(st, e) == IF st.Class = "known" THEN "none" ELSE e

\* A faulty variant finds out about the class only when it calls the source.
SourceErrorLate(st) == IF dryRun THEN NewIDError(st.ID)
  ELSE FirstError(<<NewIDError(st.ID), ClassError(st, "unknown source")>>)
SourceError(st) ==
  FirstError(<<NewIDError(st.ID), ClassError(st, "unknown source")>>)

SinkError(st) ==
  FirstError(<<ExistingIDError(st.Source), ClassError(st, "unknown sink")>>)

MergeError(st) == FirstError(<<ExistingIDError(st.SourceA),
                               ExistingIDError(st.SourceB), NewIDError(st.ID)>>)
BranchError(st) == FirstError(<<ExistingIDError(st.Source),
                                NewIDError(st.TargetA), NewIDError(st.TargetB)>>)
AppendError(st) == FirstError(<<ExistingIDError(st.Source),
                                ExistingIDError(st.Target)>>)

-----------------------------------------------------------------------------
(* Execute *)

Stmt == asts[at]

\* Execute waits for a synchronous sink.
InSink == \E k \in DOMAIN tasks : ~tasks[k].async /\ tasks[k].status = "reading"

Executing(type) == at \in 1..Len(asts) /\ ~InSink /\ Stmt.type \in type

\* The next statement.
Advance == at' = at + 1 /\ UNCHANGED <<asts, dryRun, err, errAt, state>>

\* Execute returns error e; DryRun resets its flag.
ReturnError(e) == /\ e # "none"
                  /\ err' = e
                  /\ errAt' = at
                  /\ at' = 0
                  /\ dryRun' = FALSE
                  /\ UNCHANGED <<state, asts>>

Unchanged == UNCHANGED <<sourceIDs, sources, consumed, readers>>

Fail(e) == ReturnError(e) /\ Unchanged /\ UNCHANGED tasks

\* The source function may reject its arguments, or fail to open its file.
ExecSource ==
  /\ Executing({"source"})
  /\ UNCHANGED tasks
  /\ \/ Fail(SourceError(Stmt))
     \/ /\ SourceError(Stmt) = "none" /\ ~dryRun
        /\ Fail("source failed")
     \/ /\ SourceError(Stmt) = "none"
        /\ IF dryRun THEN /\ AddSources(<<Stmt.ID>>, <<0>>, {})
                          /\ UNCHANGED readers
                     ELSE /\ Stmt.Args = "good"
                          /\ AddSources(<<Stmt.ID>>, Created(1), {})
                          /\ Attach(<<>>, 1)
        /\ Advance

\* The identifier of a sink statement is marked before the class is looked up.
MarkSink == /\ consumed' = Mark({Stmt.Source})
            /\ UNCHANGED <<sourceIDs, sources>>

\* A dry run calls no sink.
SinkSkipped == dryRun

NewTask(status, reads) ==
  [status |-> status, id |-> Stmt.Source, async |-> Stmt.Async,
   reads |-> reads, named |-> SourceOf(Stmt.Source), args |-> Stmt.Args]

ExecSinkFails ==
  /\ Executing({"sink"})
  /\ ReturnError(SinkError(Stmt))
  /\ IF ExistingIDError(Stmt.Source) = "none" THEN MarkSink
     ELSE UNCHANGED <<sourceIDs, sources, consumed>>
  /\ UNCHANGED <<readers, tasks>>

\* A dry run goes on; a synchronous sink is called with its iterator.
ExecSink ==
  /\ Executing({"sink"})
  /\ SinkError(Stmt) = "none"
  /\ MarkSink
  /\ IF SinkSkipped
     THEN Advance /\ UNCHANGED <<readers, tasks>>
     ELSE IF Stmt.Async
          THEN /\ tasks' = Append(tasks, NewTask("starting", 0))
               /\ Advance
               /\ UNCHANGED readers
          ELSE /\ tasks' = Append(tasks, NewTask("reading", SourceOf(Stmt.Source)))
               /\ Attach(<<SourceOf(Stmt.Source)>>, 0)
               /\ UNCHANGED <<at, asts, dryRun, err, errAt, state>>

\* Merge, Dupe and Fanout consume their inputs and make new iterators.
ExecMerge ==
  /\ Executing({"merge"})
  /\ UNCHANGED tasks
  /\ \/ Fail(MergeError(Stmt))
     \/ /\ MergeError(Stmt) = "none"
        /\ LET inputs == {Stmt.SourceA, Stmt.SourceB}
           IN  IF dryRun THEN /\ AddSources(<<Stmt.ID>>, <<0>>, inputs)
                              /\ UNCHANGED readers
                         ELSE /\ AddSources(<<Stmt.ID>>, Created(1), inputs)
                              /\ Attach(<<SourceOf(Stmt.SourceA),
                                          SourceOf(Stmt.SourceB)>>, 1)
        /\ Advance

ExecBranch ==
  /\ Executing({"dupe", "fanout"})
  /\ UNCHANGED tasks
  /\ \/ Fail(BranchError(Stmt))
     \/ /\ BranchError(Stmt) = "none"
        /\ LET targets == <<Stmt.TargetA, Stmt.TargetB>>
           IN  IF dryRun THEN /\ AddSources(targets, <<0, 0>>, {Stmt.Source})
                              /\ UNCHANGED readers
                         ELSE /\ AddSources(targets, Created(2), {Stmt.Source})
                              /\ Attach(<<SourceOf(Stmt.Source)>>, 2)
        /\ Advance

\* A concatenation reads its two iterators, one after the other; when they are
\* the same it is still one reader.
ExecAppend ==
  /\ Executing({"append"})
  /\ UNCHANGED tasks
  /\ \/ Fail(AppendError(Stmt))
     \/ /\ AppendError(Stmt) = "none"
        /\ IF dryRun
           THEN /\ consumed' = Mark({Stmt.Source})
                /\ UNCHANGED <<sourceIDs, sources, readers>>
           ELSE /\ ReplaceSource(Stmt.Target, Len(readers) + 1, {Stmt.Source})
                /\ Attach(SetToSeq({SourceOf(Stmt.Source), SourceOf(Stmt.Target)}), 1)
        /\ Advance

\* Cut, Tag and Join wrap the iterator in its slot.  The dry run of a Tag wraps
\* the nil iterator; that of the others changes nothing.
ExecWrap ==
  /\ Executing({"cut", "tag", "join"})
  /\ UNCHANGED tasks
  /\ \/ Fail(ExistingIDError(Stmt.Source))
     \/ /\ ExistingIDError(Stmt.Source) = "none"
        /\ IF dryRun /\ Stmt.type # "tag"
           THEN Unchanged
           ELSE /\ ReplaceSource(Stmt.Source, Len(readers) + 1, {})
                /\ Attach(<<SourceOf(Stmt.Source)>>, 1)
        /\ Advance

ExecEol == /\ Executing({"eol"})
           /\ Advance
           /\ Unchanged
           /\ UNCHANGED tasks

\* The end of the statements: Execute returns nil.
ExecEnd == /\ at = Len(asts) + 1
           /\ at' = 0
           /\ err' = "none"
           /\ errAt' = 0
           /\ dryRun' = FALSE
           /\ Unchanged
           /\ UNCHANGED <<state, asts, tasks>>

\* Execute, or DryRun, is called with nodes.
Begin(nodes, dry) ==
  /\ at = 0
  /\ asts' = nodes
  /\ dryRun' = (dry /\ nodes # <<>> /\ state = "started")
  /\ at' = IF nodes # <<>> /\ state = "started" THEN 1 ELSE 0
  /\ err' = IF nodes # <<>> /\ state # "started" THEN "state" ELSE "none"
  /\ errAt' = 0
  /\ Unchanged
  /\ UNCHANGED <<state, tasks>>

-----------------------------------------------------------------------------
(* The sinks that have been called *)

\* The identifier that the goroutine of asynchronous sink k looks up: the one of
\* its own statement.  A faulty variant looks at the variable of the loop.
LoopVariable(k) == IF Executing({"sink"}) THEN Stmt.Source ELSE tasks[k].id
LookedUp(k) == tasks[k].id

\* The goroutine of asynchronous sink k looks up its iterator and calls it.
TaskStarts(k) ==
  /\ tasks[k].status = "starting"
  /\ tasks' = [tasks EXCEPT ![k].status = "reading",
                            ![k].reads = SourceOf(LookedUp(k))]
  /\ Attach(<<SourceOf(LookedUp(k))>>, 0)
  /\ UNCHANGED <<state, dryRun, sourceIDs, sources, consumed, asts, at, err, errAt>>

\* Sink k returns; a synchronous one hands its result to Execute.
TaskReturns(k) ==
  /\ tasks[k].status = "reading"
  /\ tasks' = [tasks EXCEPT ![k].status = "returned"]
  /\ \/ /\ tasks[k].args = "good"
        /\ IF tasks[k].async
           THEN UNCHANGED <<at, asts, dryRun, err, errAt, state>>
           ELSE Advance
     \/ IF tasks[k].async
        THEN UNCHANGED <<at, asts, dryRun, err, errAt, state>>
        ELSE ReturnError("sink failed")
  /\ Unchanged

-----------------------------------------------------------------------------
(* Start and Stop *)

Start == /\ at = 0
         /\ state = "created"
         /\ state' = "started"
         /\ Unchanged
         /\ UNCHANGED <<dryRun, asts, at, err, errAt, tasks>>

\* The state is checked and the context cancelled.
StopBegins == /\ at = 0
              /\ state = "started"
              /\ state' = "stopping"
              /\ Unchanged
              /\ UNCHANGED <<dryRun, asts, at, err, errAt, tasks>>

\* wg.Wait returns.
WaitGroupZero == \A k \in DOMAIN tasks : tasks[k].async => tasks[k].status = "returned"

\* After the wait every plugin is told Stopping.
StopEnds == /\ state = "stopping"
            /\ WaitGroupZero
            /\ state' = "done"
            /\ Unchanged
            /\ UNCHANGED <<dryRun, asts, at, err, errAt, tasks>>

RuntimeStep == \/ ExecSource \/ ExecSinkFails \/ ExecSink \/ ExecMerge
               \/ ExecBranch \/ ExecAppend \/ ExecWrap \/ ExecEol \/ ExecEnd
               \/ \E k \in DOMAIN tasks : TaskStarts(k) \/ TaskReturns(k)
               \/ StopEnds

-----------------------------------------------------------------------------

Errors == {"none", "state", "empty", "defined", "undefined", "consumed",
           "unknown source", "unknown sink", "source failed", "sink failed"}

RuntimeTypeOK ==
  /\ state \in {"created", "started", "stopping", "done"}
  /\ dryRun \in BOOLEAN
  /\ DOMAIN sourceIDs \subseteq Ids
  /\ \A id \in DOMAIN sourceIDs : sourceIDs[id] \in DOMAIN sources
  /\ sources \in Seq(0..Len(readers))
  /\ consumed \in Seq(BOOLEAN) /\ Len(consumed) = Len(sources)
  /\ readers \in Seq(Nat)
  /\ asts \in Seq(Statement)
  /\ at \in 0..(Len(asts) + 1)
  /\ err \in Errors
  /\ errAt \in 0..Len(asts)
  /\ tasks \in Seq(Task)
=============================================================================
