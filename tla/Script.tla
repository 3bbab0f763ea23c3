------------------------------- MODULE Script -------------------------------
(***************************************************************************)
(* "nomlog vet FILE" followed by "nomlog exec FILE" (cmd/nomlog/main.go):  *)
(* the parser reads the script, a first runtime makes a dry run of it and  *)
(* is stopped, and a second, new runtime executes it and is stopped.       *)
(***************************************************************************)
EXTENDS Parser, Runtime

VARIABLES
  phase,    \* the command that runs and how far it is
  vetErr,   \* what the dry run returned
  vetAt     \* the statement at which it returned

scriptVars == <<phase, vetErr, vetAt>>
vars == <<parserVars, runtimeVars, scriptVars>>

Init == /\ ParserInit
        /\ RuntimeInit
        /\ phase = "parse"
        /\ vetErr = "none"
        /\ vetAt = 0

\* ParseFile, which gives both commands the same nodes.
ParseFile == /\ phase = "parse"
             /\ Parse
             /\ phase' = CASE parse' = "parsing" -> "parse"
                           [] parse' = "ok" -> "vet"
                           [] parse' = "error" -> "done"
             /\ UNCHANGED <<runtimeVars, vetErr, vetAt>>

StartRuntime == /\ phase \in {"vet", "exec"}
                /\ Start
                /\ UNCHANGED <<parserVars, scriptVars>>

\* doVet calls DryRun and doExec calls Execute.
Launch == /\ phase \in {"vet", "exec"}
          /\ state = "started"
          /\ Begin(nodes, phase = "vet")
          /\ phase' = IF phase = "vet" THEN "vetting" ELSE "executing"
          /\ UNCHANGED <<parserVars, vetErr, vetAt>>

Run == /\ phase \in {"vetting", "executing"}
       /\ RuntimeStep
       /\ UNCHANGED <<parserVars, scriptVars>>

\* The deferred Stop.
StopRuntime == /\ phase \in {"vetting", "executing"}
               /\ StopBegins
               /\ UNCHANGED <<parserVars, scriptVars>>

\* The next command makes a new runtime.
ExecNext == /\ phase = "vetting"
            /\ state = "done"
            /\ phase' = "exec"
            /\ vetErr' = err
            /\ vetAt' = errAt
            /\ NewRuntime
            /\ UNCHANGED parserVars

Finish == /\ phase = "executing"
          /\ state = "done"
          /\ phase' = "done"
          /\ UNCHANGED <<parserVars, runtimeVars, vetErr, vetAt>>

Terminated == phase = "done" /\ UNCHANGED vars

Next == \/ ParseFile \/ StartRuntime \/ Launch \/ Run \/ StopRuntime
        \/ ExecNext \/ Finish \/ Terminated

Spec == Init /\ [][Next]_vars

-----------------------------------------------------------------------------
(* Properties *)

\* Every variable has its type; the tables of the runtime fit together.
TypeOK == /\ ParserTypeOK
          /\ RuntimeTypeOK
          /\ phase \in {"parse", "vet", "vetting", "exec", "executing", "done"}
          /\ vetErr \in Errors
          /\ vetAt \in 0..MaxStatements

\* exec's call of Execute has returned.
Executed == phase \in {"executing", "done"} /\ parse = "ok" /\ at = 0

\* What can go wrong in a script that has been parsed only when it is run.
Dynamic == {"source failed", "sink failed"}

\* No iterator is given to two readers, of whatever kind and in whatever
\* goroutine: two readers would take entries from each other, and an iterator
\* is not made for concurrent calls.
SingleReader == \A i \in DOMAIN readers : readers[i] <= 1

\* An asynchronous sink looks up its iterator when its goroutine happens to
\* run, while Execute goes on with the script: it still finds the iterator
\* that its identifier stood for in its statement.
LateReadStable ==
  \A k \in DOMAIN tasks : tasks[k].status # "starting" =>
                            tasks[k].reads = tasks[k].named

\* The iterators that someone reads, is about to read, or can still name.
Owned(i) == \/ readers[i] > 0
            \/ \E k \in DOMAIN tasks : tasks[k].status = "starting" /\ tasks[k].named = i
            \/ \E id \in DOMAIN sourceIDs : SourceOf(id) = i /\ ~consumed[sourceIDs[id]]

SelfAppend == \E n \in DOMAIN nodes : /\ nodes[n].type = "append"
                                      /\ nodes[n].Source = nodes[n].Target

\* While the script goes well no iterator is lost: one that nobody can read
\* any more would hold up whatever feeds it, and the other branch of a Dupe.
\* The script that appends a stream to itself, which the parser and Execute
\* accept and which loses the stream, is left out.
NothingLost == (phase = "executing" /\ err = "none" /\ ~SelfAppend) =>
                 \A i \in DOMAIN readers : Owned(i)

\* Of the rules about identifiers the parser leaves two to the runtime: that
\* the source of a cut is defined, and that the target of an append is not
\* consumed.  No other statement of a parsed script fails because of a name.
ParserChecksNames ==
  /\ err \notin {"defined", "empty", "state"}
  /\ err = "undefined" => nodes[errAt].type = "cut"
  /\ err = "consumed" => nodes[errAt].type = "append"

\* vet predicts exec in all that depends on the script alone: an error that
\* vet reports is reported by exec at the same statement, unless a source or
\* a sink fails earlier, and exec reports no other.
VetPredictsStatic ==
  Executed => \/ err = vetErr /\ errAt = vetAt
              \/ err \in Dynamic /\ (vetErr = "none" \/ errAt <= vetAt)
=============================================================================
