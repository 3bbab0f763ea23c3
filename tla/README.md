# Formal models of nomlog

nomlog moves log entries from sources to sinks. A script names sources, connects
them (merge, dupe, fanout, append, cut, tag, join) and ends them in sinks; every
connection is an iterator, and most iterators are a goroutine and a channel. The
models here are about what is hard to test in that: goroutines that meet on
unbuffered channels, sinks that fail or are cancelled, the shutdown that waits for
them, the bookkeeping of names that decides who may read which iterator, what is lost
between a stream and a database, and the lexer's pointers into its ring.

Every module is translated from the Go source; `PROJECT.json` maps each definition to
the lines it stands for.

## 1. The system

| Part | Source | State | Operations | Correct means |
|---|---|---|---|---|
| Dupe | `pkg/iterator/iterator.go:145-183` | semaphore of 2, two channels, one goroutine that iterates and one per entry and branch | iterate, start a sender, send, release, close | each branch gets every entry once, nothing is sent on a closed channel, both ends are told, back-pressure is bounded |
| Merge | `iterator.go:95-143` | two feeding goroutines and channels, a selecting goroutine, the output | feed, select, forward, set to nil, close | the output interleaves the inputs; it ends after both have; a silent input holds nothing up |
| Fanout | `iterator.go:185-212` | one goroutine, two channels | select-send, drain after an error, close | each entry goes to one reader, in order; one reader is enough |
| Func, FromChannel, AsChannel, Drain | `iterator.go:26-112, 214-222` | closures and channels | Next, Iterate, drain after an error | an error never blocks what is upstream |
| Pull iterators: Concat, Filter, Cancellable, Joiner, Cutter, Tag, Transformer, Reassigner | `interceptor.go`, `join.go`, `cut.go`, ... | a little state in a closure, no lock | Next, by one caller or by two Drains | order, indices, the promised messages, no entry lost at the end or at an error |
| Entries | `pkg/entries` | a map per entry, shared by whoever was sent it | field access, tag, cut, rename | agree with their definition; one stream does not change another's entries |
| file plugin | `plugin/file` | an open file, a scanning or tailing goroutine, a flag; for the sink a file | scan, tail, send, close; write, drain | lines arrive in order; files are closed; failure releases upstream |
| stdstream plugin | `plugin/stdstream` | the same without files; the sinks look at the context | read, write | as above, and a prompt end at shutdown |
| store plugin | `plugin/store` | SQLite connections, a cache of stores, a column map per sink | query, add a column, insert | rows are the beginning of the stream, losses have a known cause, connections and stores are closed |
| Plugin registration | `plugin/plugin.go` | two maps | register, look up | - |
| Runtime | `runtime/runtime.go` | state, context, wait group, slots of iterators with consumed marks, table of names | Start, Execute, DryRun, Stop | one reader per iterator, no iterator lost, the dry run predicts the execution, plugins stop after the sinks |
| Parser | `runtime/dsl/ast.go` | sets of defined and consumed names | one per statement kind | accepts what the runtime will accept |
| Lexer, ring buffer, token stream | `lexer.go`, `lexbuf.go`, `tokens.go` | a ring of runes with three pointers, a channel of tokens, a push-back buffer | read, unread, consume, post; next, push back | the tokens spell the text; nothing blocks |
| nomlog command | `cmd/nomlog/main.go` | - | exec, vet | Start, Execute or DryRun, and Stop in this order |

How they interact. The command parses a script to a list of nodes and gives it to a
runtime. The runtime calls source functions of the plugins, which return an iterator
and leave a goroutine behind; it passes iterators to Merge, Dupe and Fanout, which
leave more goroutines behind; and it calls sinks, in its own goroutine or, for an
`async` sink, in one that its wait group counts. All data moves over unbuffered
channels. The only other signals are the context, which Stop cancels, and the boolean
flags that a goroutine sets when it sees the cancellation and that another reads
without synchronisation.

The hard behaviours: the order in which the senders of a Dupe are served; closing a
channel while senders are alive; a branch that nobody reads holding up the other;
cancellation between a check and a blocking send; the wait group against goroutines
that have not started; a sink that fails in the middle; names that the parser accepts
and the runtime does not. `PROJECT.json` lists them as hazards, each at its line, with
the properties that cover it or the reason why none does.

## 2. Modules

| Module | Models | Notes |
|---|---|---|
| `Broadcast` | the promise of Dupe | abstract: entries are delivered once to each reader, in any order, and the end is told when a reader has them all |
| `Dupe` | `iterator.Dupe` | one action per call of the code; implements `Broadcast` under `yielded <- cur`, `finished <- SourceFinished` |
| `DupeTag` | `Dupe` with `iterator.Tag` and a sink on its branches | the map of an entry is one, whichever branch it is on |
| `Merge` | `iterator.Merge`, `AsChannel` | |
| `Fanout` | `iterator.Fanout` | |
| `Pull` | `Concat`, `Joiner`, `Cutter` with `entries.Cut`, the query iterator, `Func.Iterate`, `Drain` | one chain of append, cut and join, its sink and the Drains after an error |
| `FileSource` | `file.CtxSource`, the tail source, `SourceIn` | state and steps; composed below |
| `Sink` | `file.Sink`, `SinkOut`, `SinkErr`, the argument check of `file.File` | state and steps; composed below |
| `Exec` | the sink statements in `Runtime.Execute`, `Runtime.Stop`, `doExec` | state and steps; composed below |
| `Session` | `FileSource`, `Sink`, `Exec` | a script with one source and one sink |
| `DupeSession` | `FileSource`, `Dupe` (by INSTANCE), `Sink`, `Exec` | a script with a source, a dupe and two sinks |
| `Store` | `SqliteStore.CtxSink`, the store plugin, with `Exec` | scripts with sinks on one database file |
| `Ast` | the nodes of `ast.go` | one record set per kind of statement |
| `Parser` | `parser.parse` and its `parse...` methods | which names are defined and consumed, in the order the code checks and records |
| `Runtime` | `runtime.go` | slots, marks, tasks and results, for every kind of statement |
| `Script` | `Parser`, `Runtime`, `doVet`, `doExec` | parse once, vet, then exec in a new runtime |
| `Window` | the promise of the ring buffer | abstract: a window on the text, whose start gives way when it is full, and its content |
| `LexBuf` | `lexbuf.go` | the ring with its three pointers; implements `Window` |
| `Lexer` | `lexer.go`, `tokens.go`, and the parser as their reader | the goroutine over `LexBuf`, the channel of tokens, the push-back buffer, the ways to give up |
| `DupeProofs`, `MergeProofs`, `FanoutProofs`, `SessionProofs`, `StoreProofs`, `ScriptProofs`, `LexerProofs`, `PullProofs` | - | the theorems about the module before the `Proofs`, section 5 |
| `MC...` | - | instances for TLC |

### Conventions

*Channels.* Every channel of the models is unbuffered in the code. A send and its
receive are one step, conjoined from the sender's and the receiver's part. Go serves
waiting senders in the order in which they began to wait; which of two goroutines just
started does so first is the scheduler's choice, and so the next sender served is any.

*Entries* are numbers in the order of the source, except where their content matters: in
`Store` an entry is its set of fields, in `DupeTag` the count of its tags, and in
`Pull` a message of lines of words, with the fields that a cut has set. `Pull` also
keeps the source lines that an entry was made of, which only the properties read. Splitting
at the delimiter, where empty fields are dropped, is the step from a line to its words.

*The cancellation flags* (`hasClosed`, `hasCancelled`, `cancelled`) are written and read
without synchronisation. A read can see the old value for as long as the build likes:
setting the flag is an action without fairness, so no property relies on it ever being seen.

*Other races.* The joiner of `Pull` is used by two Drains: the calls into its input and
the check of its state are one step, `finalizeEntry` is two, which is where their order
shows. The cache of `Store` is read in one step and written in another, and while one
goroutine is about to write it another's access may end the program.

*The file.* A line is a number; `TooLong` are the lines that exceed the buffer of
`bufio.Scanner`, where `Scan` returns false as it does at the end. A write is one step
that succeeds or fails. Standard input and a tailed file may have no next line.

*The database* is external: a statement is one step, and may fail for a sink in
`Failing`, after the cancellation, and while another sink has a connection to the
file. Two fields with the same `Column` differ in case only.

*The text* of a script is a sequence of characters, of which the lexer's classes have one
or two members each. A read of the lexer is one step, and so is each call of the token
stream; the parser may accept or refuse any token.

*Names in scripts.* A statement is a record of the identifiers in it. Of a class only
whether it is registered is kept, of the arguments whether the plugin accepts them. An
argument list can also be an identifier, which the parser checks and the plugins of files
and of the store read as an empty string and do not accept. The standard streams ignore
their arguments (`stdstream.go:47, 81, 107`): the model leaves out that they get one.

*Iterators in `Runtime`* are numbers in the order of creation, 0 being the nil of a dry
run; `readers[i]` counts the goroutines, wrappers and sinks that were given iterator i.

*Faulty variants.* Next to some definitions stands a variant with a plausible bug
(a dropped guard, a late update). No specification uses them: they are there to show
that each property can fail.

## 3. What TLC checks

All runs use `FairSpec` where they check liveness and `Spec` otherwise.

| Run | Instance | States | Shows |
|---|---|---|---|
| `dupe` | 4 entries, both readers live | ~1 000 | `TypeOK`, `NoSendOnClosed`, `CompleteAtEnd`, `BoundedLag`, `BoundedReordering`, `BothEnd`, `ImplementsBroadcast` |
| `merge` | 3 entries per input, b may go silent | ~1 600 | `Interleaves`, `EndsAfterBoth`, `StallHarmless`, `OutputEnds` |
| `fanout` | 5 entries, a source that ends or fails, only a's reader is sure to read | ~2 200 | `Partition`, `LiveReadersEnd` |
| `pull` | up to 2 entries, then up to 1; messages that start, do not, or are missing; channels, and queries that fail to read a row or to come to the next; 9 scripts | ~526 000 | `LinesInOrder`, `MessagesAsPromised`, `CutKeepsWords`, `FailureReported`, `IndexExact`, `PanicOnlyInRace`, `UpstreamReleased` |
| `session` | 3 lines (the last one too long), a file, standard input or a tailed file; file or std sink, sync or async, failing or not | ~5 800 | `OutputIsPrefix`, `StoppingAfterSinks`, `StopReturns`, `SourceReleased` |
| `dupe_session` | 3 lines, two file sinks, a async and failing, b sync or async | ~123 000 | `StopReturns`, `ErrorReleasesSource` |
| `store` | one or two sinks on one file, on one table or a bad one, both sync, both async, or the first async and the second ending Execute while it runs; up to 2 entries each, with fields that are one column, and one without fields | ~702 000 | `LossExplained`, `EverythingClosed`, `NoUseAfterClose`, `SourceReleased` |
| `script` | 4 statements, 4 identifiers (symmetric), known and unknown classes, good and bad arguments | ~2 350 000 | `ParserChecksNames`, `VetPredictsStatic`, `SingleReader`, `LateReadStable`, `NothingLost` |
| `lexer` | every text of up to 3 of 9 characters and 14 longer ones; a ring of 5, a push-back buffer of 6 | ~308 000 | `NoCharacterLost`, `PositionExact`, `ParserSeesAllTokens`, `ImplementsWindow`, `BothEnd` |

Every module with a state states its type invariant, as the ground for proofs; the one
of `Dupe` is a run's, and section 5 proves it for each but `Pull`, whose proof has one
of its own, and the two compositions with Dupe. `OutputIsPrefix` holds for the sinks of
`Session` at any time and says that success is complete; `ParserSeesAllTokens` includes
that the push-back buffer does not overflow; `LossExplained` that the rows are the
beginning of the stream; `MessagesAsPromised` that a message begins where one may, holds
no second start line (`MessageBounds`), and has its text and no other; `CutKeepsWords`
that a cut takes out of each line the words it maps and no other, and that the fields of
a message are the mapped words of its first line; `NoCharacterLost` that tokens neither
leave out anything but blanks nor overlap, apart from texts in which something overruns
the ring (`Overrun`), and `PositionExact` that the counts are right where nothing has
disturbed them (`Undisturbed`).

Why the bounds are enough. In `Dupe` at most two senders are alive and one entry is in
the hands of the goroutine: with four entries every combination of those occurs both at
the start and after a full round, and the proofs of section 5 have no bound. In `Merge`
and `Fanout` the state between entries is that of the goroutines, which repeats after
one entry; 3 and 5 leave room for every interleaving of the ends. In `Pull` the state
between entries is the message being collected: two entries give every pair of a line
and its successor, and the third, of the second stream, every way over the boundary; a
failure can follow any of them. After a failed write two entries remain for the two
Drains, which is what their race needs. In the sessions each line passes the same code;
3 lines are needed for an entry to wait at every place (the source's send, Dupe's hands,
two senders) while a sink fails. In `Store` each sink meets at most two new columns, so
that the other can add one before, between and after; the second sink of a script is the
one whose arguments may be rejected or whose database may fail. For scripts, every rule
relates a name to one or two earlier statements, and four statements with four names
hold a source, a branching, a consumer and a late second use. In `Lexer` the ring of 5
wraps around in the longer texts and overruns in some; the code's ring is larger, and
nothing but its size depends on that. Two of those texts came out of the proofs, which
would not go through for a string that overruns the ring and ends in a backslash, nor
for one that overruns it and has a line break in the part that is lost: the properties
name both now.

### Disagreements between the code and its documentation

These runs are expected to find a violation; the property states what the repository
says.

| Run | Property | What happens |
|---|---|---|
| `dupe_session_sync` | `ExecuteEnds` ("output the same log events in two different ways", `grammar.go:20`) | the first synchronous sink waits for entries that Dupe holds for the second |
| `dupe_session_aware` | `StopReturns` ("Stopping is called after all source and sink operations", `plugin.go:23`) | a std sink that sees the cancellation stops reading and does not drain; the file sink on the other branch never gets its end, and `wg.Wait` never returns |
| `dupe_tag` | `TagStaysOnBranch` ("attaching string metadata to a stream", `grammar.go:34`; "two identical iterators", `iterator.go:145`) | both branches are sent the same map; the tag that one sets in it is written by the sink of the other |

Known without a run of their own, because the models above contain them and a property
names the exception, or because one branch of the code decides them:

- The branches of a Dupe need not agree on the order of entries (`iterator.go:170`):
  `BoundedReordering` says by how much. `append` of one branch of a dupe to the other, as
  in the sample `dsl/test:4-5`, blocks: Concat does not read its second iterator before
  the end of its first, which Dupe withholds until both are read.
- A source that is in its send when its only reader sees the cancellation stays there,
  though `file.go:73` says that it closes the file (`SourceReleased`). A standard input
  that stays silent holds up Stop (`StopReturns`).
- `vet` calls no source or sink function and so accepts arguments that `exec` rejects,
  though `main.go:85` says that errors are still reported (`VetPredictsStatic` is about
  the errors that do not depend on arguments).
- A line that is too long ends a file source without an error (`file.go:97`); an
  asynchronous sink is cut short by the Stop that follows Execute in `exec` (`main.go:118`,
  `runtime.go:111`); a file sink that rejects its arguments does not drain
  (`file/plugin.go:51`); `append a to a` is accepted and loses the stream (`ast.go:741`,
  `runtime.go:276`; `NothingLost`).
- The failure of a query to come to its next row is taken for its end (`queries.go:38`
  never asks `rows.Err`): the sink succeeds, with the rows so far. The error of a row
  that cannot be read goes unreported when a joiner has a message in hand
  (`join.go:89`). `FailureReported` speaks of the second and excepts the first. Entries
  of an appended query have indices that collide with those of the first stream
  (`interceptor.go:58`, `queries.go:42`; `IndexExact`). After a failed write the two
  Drains can make a joiner panic (`PanicOnlyInRace`).
- A join keeps of the lines behind the first their messages only (`join.go:65-70`): the
  words that a cut moved to fields there are gone, and of one without a message nothing
  is kept (`CutKeepsWords` and `LinesInOrder` say what remains).
- A store sink returns nil whatever it loses (`store.go:88`), and what it loses it loses
  for the causes that `LossExplained` lists: another sink that added the same column or
  held the file, fields that differ in case, an entry without fields. Two asynchronous
  sinks can open one file twice, and one store is then never closed (`EverythingClosed`).
- A token longer than the ring loses its first characters; a text that ends in a backslash
  within a string ends without an error; lines and positions are wrong behind strings with
  line breaks, letters of two bytes and identifiers (`NoCharacterLost`, `PositionExact`).

## 4. Fairness

Weak fairness is given to every step that a goroutine takes on its own, and to a
receive when both sides are ready: the Go scheduler runs every runnable goroutine, and a
channel operation whose two sides wait completes. It is given to the source for as
long as it has input, because a file ends; not to the arrival of a line or of the end on
standard input or in a tailed file. `StopReturns` and `SourceReleased` therefore except an
input that is silent for ever. It is given to a reader only where the model
says that it keeps reading: the `Live` branches of Dupe and Fanout, the sinks and
draining goroutines of the sessions while they loop, and each caller of `Pull`. It is not
given to the input `Stalled` of Merge, which models a tailed file, nor to the setting of
the cancellation flags. In `Lexer` the lexing goroutine, the one that drains its channel and
the parser each have it. `Store` is bounded in every step that a goroutine takes: there
fairness of one disjunction, `Progress`, that some step is taken while there is one, gives
each goroutine its turn; a source reads from standard input, and what it reads is an
`Event` without fairness. The Drain of Fanout has its own fairness, as two more
goroutines. An endless competition in the select of Merge is out of the model,
since entries are bounded; with Go's random choice it has probability zero.

## 5. What is proved

Eight modules prove safety for every value of the constants: inputs of any length, any
number of sinks, scripts of any length, every size of the ring. What they assume of a
constant is the `ASSUME` that the module declaring it states; TLC evaluates those on each run:

| Module | Assumed | In the code |
|---|---|---|
| `Dupe`, `Merge`, `Fanout` | the bound on entries is a number, `Live` and `Stalled` name branches and inputs | - |
| `Session` (`ScriptsAssumption`) | the script is one sink statement | an iterator has one reader (`ast.go:483`) |
| `Store` (`SinksAssumption`, `ScriptsAssumption`, `InputsAssumption`) | finitely many sinks, each statement has its own, inputs are sequences | as above |
| `LexBuf`, `Lexer` (`SizeAssumption`, `TextsAssumption`, `StreamSizeAssumption`) | a ring of at least 2, a push-back buffer of at least 5 | 256 (`lexbuf.go:9`) and 64 (`tokens.go:4`) |
| `Pull` (`SourcesAssumption`, `ScriptAssumption`, `CutAssumption`) | a source counts from 0 or 1; a cut maps fields to integers; what is cut has at most one line: no cut of joined messages, nor of rows that hold them | `iterator.go:69`, `queries.go:42`; `entries/cut.go`; see section 6 |
| `Ast`, `Parser` | no identifier is the missing one; classes and arguments are good or bad | - |

| Theorem | Statement |
|---|---|
| `Inductive`, `TypeCorrect` (`DupeProofs`) | `Spec => []IndInv`, `Spec => []TypeOK` |
| `NeverSendsOnClosed` | `Spec => []NoSendOnClosed` |
| `NothingLostOrRepeated` | `Spec => []CompleteAtEnd` |
| `LagIsBounded` | `Spec => []BoundedLag` |
| `ReorderingIsBounded` | `Spec => []BoundedReordering` |
| `DupeIsBroadcast` | `Spec => ImplementsBroadcast` |
| `MergeInductive`, `MergeTypeCorrect` | `Spec => []IndInv`, `Spec => []TypeOK` |
| `MergeInterleaves`, `MergeEndsAfterBoth` | `Spec => []Interleaves`, `Spec => []EndsAfterBoth` |
| `FanoutInductive`, `FanoutTypeCorrect` | `Spec => []IndInv`, `Spec => []TypeOK` |
| `FanoutPartition` | `Spec => []Partition` |
| `SessionInductive`, `SessionTypeCorrect` | `Spec => []IndInv`, `Spec => []TypeOK` |
| `SessionOutputIsPrefix`, `SessionStoppingAfterSinks` | `Spec => []OutputIsPrefix`, `Spec => []StoppingAfterSinks` |
| `StoreInductive`, `StoreTypeCorrect` | `Spec => []IndInv`, `Spec => []TypeOK` |
| `StoreLossExplained`, `StoreNoUseAfterClose`, `StoreEverythingClosed` | the invariants of those names |
| `ScriptInductive`, `ScriptTypeCorrect` | `Spec => []IndInv`, `Spec => []TypeOK` |
| `ScriptSingleReader`, `ScriptLateReadStable`, `ScriptNothingLost`, `ScriptParserChecksNames`, `ScriptVetPredictsStatic` | the invariants of those names |
| `RingKeepsText` (`LexerProofs`), `LexerInductive`, `LexerTypeCorrect` | `Spec => []RingInv`, `Spec => []IndInv`, `Spec => []TypeOK` |
| `LexerImplementsWindow` | `Spec => ImplementsWindow` |
| `LexerScan` | `Spec => []ScanInv` |
| `LexerNoCharacterLost`, `LexerPositionExact`, `LexerParserSeesAllTokens` | the invariants of those names |
| `PullInductive`, `PullTold` | `Spec => []IndInv`, `Spec => []ToldInv` |
| `PullLinesInOrder`, `PullIndexExact`, `PullFailureReported`, `PullPanicOnlyInRace` | the invariants of those names |
| `PullMessageBounds`, `PullMessagesAsPromised` | `Spec => []MessageBounds`, and with the text `Spec => []MessagesAsPromised` |
| `PullCutKeepsWords` | `Spec => []CutKeepsWords` |

With these every invariant and every refinement that a passing run checks is also a theorem.

Hardly any property is inductive by itself. Each module states an inductive invariant
`IndInv`, which TLC checked on the module's run, unbounded types left out, before it was
proved.

**Dupe.** That no sender is left at the close is known only through the permits.
`PermitInv`: before the last acquisition the free permits are two less the senders alive;
after it there are none of either. `BranchInv`: on each branch the entries issued are split
between those received, each once, and those pending in a sender, and a sender that still
holds its permit has delivered. `CloseInv`: the closed channels are those that the goroutine
has passed. `CurInv`: an entry in hand exists. The main step is the last acquisition: all
permits free means that the set of senders has cardinality zero and is empty. The lag bound
then counts: entries issued are entries received plus entries pending, and pending entries
inject into the senders, of which there are at most two. The bound on disorder is inductive
relative to `IndInv`: what a reader lacks of the entries before the one it receives is
pending, and at most one other is.

**Merge and Fanout.** `HeldInv` ties the merging goroutine's entry to its place in the code,
`CountInv` says that what the reader and this goroutine have are as many entries as the
feeders handed over, and `FeederInv` that a channel is given up only when it is closed. With
the order of either input (`Interleaves` itself) these carry the end: both given up, both
closed, nothing held. Fanout needs only that an entry in hand exists.

**Session.** Two arguments. One follows the entries: `WrittenInv` says, by where the sink
is, that those written and the one in its hand are those the source handed over. The other
follows the wait group: `WaitInv` and `CallInv` say that a sink is called by its statement
only, and an asynchronous one is counted from its statement until it has returned, so that
the wait of Stop, when it ends, has missed none.

**Store.** `MainInv` is the second argument of Session for any number of statements, and
gives `NoUseAfterClose`: a store is closed only when no sink runs. `RowsInv` follows the rows
as above. `ColumnsInv` is what losses hang on: as long as no other sink has been called, the
columns of the table are those that the sink has recorded, so that adding one fails only
where two fields are one column. `OpenedInv`, each store was opened by a sink of its own,
bounds the stores that the cache may have forgotten.

**Script.** The invariant replays the script. `ParserInv` and `NamesInv` say that after each
statement the sets of the parser and the tables of the runtime hold the names that
the statements so far define and consume; `OutcomeInv` that a finished run returned the first
error the statements have, which is one function of the script for vet and exec. `HolderInv` is
the core of `SingleReader`: an iterator that may still be given away has no reader and exactly
one holder, a live name or a sink that has not looked yet. `WaitingInv` says the same of
those sinks: the name is consumed, so no statement may rebind it before they look.

**Lexer.** `RingInv`: the pointers enclose what is unread and what is kept, in this
order, and each kept cell holds the character of its place in the text; this and
arithmetic modulo `Size` make each step of the ring one of `Window`. `EndInv`: an error
or the end is posted last. `CountInv` bounds the push-back buffer: at most three tokens
are looked at, and after an error each refusal puts that error back once more.
`ParseInv`: what was posted is what the parser has accepted, then what it is looking at,
then what it has put back, in reverse.

That the tokens cover the text needs the scanner between two tokens. Each step of the ring is
first restated in positions of the text, and then `ScanInv` says what the lexer knows in
each of its states. `ShapeInv`: which characters lie between the start of the token and the
read pointer, such as the runes of a word while it looks ahead in it. `CoverInv`: from the end
of the last token to the start pointer there are only blanks; `CoveredInv` is the same of each
pair of tokens posted, and stops short of texts that overrun: the start pointer then is not
where the token began. For this a run of characters that is only looked ahead over counts
too, since it pushes the start pointer as a long token does. `LineCountInv` and `ColumnInv` tie
`line` and `pos` to the text before the lexer, as long as nothing disturbs them, now or on
this line. The counts of the text are cardinalities, and grow by one or by none with each
character read.

**Pull.** `FlowInv`: the message on its way to the sink, the one being collected and the
line that has just come are, in this order, what was taken and has not been written.
`WrittenInv` is the same of the past: each message written continues where the one before
stopped. `JoinInv` and `EndInv` say what an end means: a joiner behind the first source is
empty before the second begins, and the sink sees the end only after both. `FailInv` finds
a failure on its way or swallowed by a joiner; `IndexInv` gives the index of each part as its
place in the stream; `BoundsInv` says where a message may have begun. All of this is about
the sink's own calls; of the Drains after a failure `WrittenInv` and `PhaseInv` remain,
and the latter gives `PanicOnlyInRace`: the joiner's message is taken from under a
caller only when two Drains run.

The text of the messages rests on `ToldInv`: what the joiner collects, what is on its
way and what is written each tell their own lines, and a joiner without a start has no
text left (`TextInv`), so that nothing passes from one message to the next.
`CutKeepsWords` combines it with a lemma about the collector: the text of a message is a
concatenation, of which each line has its place (`TextPlace`), and the line there is
what the collector left. Both speak of recursive functions, `FlattenSeq` and
`Remaining`, the loop of the collector over the words. The library's induction theorems
take an operator, which the prover cannot instantiate; `SetInduction` takes a set of
numbers in its place and follows from the well-foundedness of the order on them, and
`Recursion` derives from it that a function with the recursion's equations exists, so
that what the two compute is proved for every sequence.

What stays with TLC is liveness: `BothEnd` of Dupe and of Lexer, `StallHarmless`,
`OutputEnds`, `LiveReadersEnd`, `UpstreamReleased`, `StopReturns`, `SourceReleased` and
`ErrorReleasesSource`. Fairness and `ENABLED` are out of the prover's reach.

## 6. What is not modelled, and the plan

Done: every iterator that a statement uses, the sources and sinks of the file and
stdstream plugins, the store sink, the shutdown, parser and runtime, the lexer; and the
proofs above. What is left:

- A safety property of `DupeSession`, that what either sink has written is what it
  received, from the invariants of `Dupe` and `Session`; its runs check liveness only.
- Texts that overrun the ring: `ImplementsWindow` says what remains of a token that did,
  and `NoCharacterLost` nothing.

Still to model, if at all: several calls of Execute and DryRun on one runtime, which
neither command makes.

Not modelled, and why:

- `Filter`, `Cancellable`, `Transformer`, `Reassigner`, `FromSlice` and the conversions
  of fields in `pkg/entries`: no statement uses them.
- The values of rows, the SQL text and the SQLite driver; regular expressions and JSON;
  the tail library: external, and modelled by what the code takes from them.
- A cut of messages that have been joined, where the last word of a line and the first of
  the next are one word to the code: `Pull` cuts before it joins, and cuts no row of a
  store whose message was joined before it was stored.
- The registration of plugins, which is over before anything runs concurrently, the
  printing subcommands and logging.
