------------------------------- MODULE Parser -------------------------------
(***************************************************************************)
(* The parser (runtime/dsl/ast.go): it reads one statement after another   *)
(* and keeps the identifiers of the iterators that the script has defined  *)
(* so far, of those it has consumed, and of its asynchronous sinks.  A     *)
(* statement that breaks a rule about them, or the syntax, ends the parse  *)
(* with an error.  A parser serves one script.                             *)
(***************************************************************************)
EXTENDS Ast

CONSTANTS MaxStatements     \* bound: the statements of a script

ASSUME MaxStatementsAssumption == MaxStatements \in Nat

VARIABLES
  nodes,        \* the statements parsed so far
  psources,     \* p.sources: identifiers of iterators
  pconsumed,    \* p.consumed: those that have been consumed
  psinks,       \* p.sinks: identifiers of asynchronous sinks
  parse         \* "parsing", then "ok" or "error"

parserVars == <<nodes, psources, pconsumed, psinks, parse>>

ParserInit == /\ nodes = <<>>
              /\ psources = {}
              /\ pconsumed = {}
              /\ psinks = {}
              /\ parse = "parsing"

-----------------------------------------------------------------------------
(* The rules, each in the order in which the parser checks and records *)

\* parseArg: an identifier must name an iterator or an asynchronous sink.
ArgsOK(args, sources, sinks) == args \in Ids => args \in sources \cup sinks

\* parseSource adds the new identifier before it parses the arguments.
SourceOK(st) == /\ st.ID \in Ids \ psources
                /\ ArgsOK(st.Args, psources \cup {st.ID}, psinks)

\* The name that parseSink records for an asynchronous sink.
SinkNames(st) == IF st.Async THEN {st.ID} ELSE {}

SinkOK(st) == /\ st.Source \in psources \ pconsumed
              /\ IF st.Async THEN st.ID \in Ids \ (psources \cup psinks)
                             ELSE st.ID = NoId
              /\ ArgsOK(st.Args, psources, psinks \cup SinkNames(st))

\* parseMerge marks the first input as consumed before it checks the second.
\* A faulty variant marks both at the end.
MergeMarksLate(st) == pconsumed
ConsumedAtSourceB(st) == pconsumed \cup {st.SourceA}
MergeOK(st) == /\ st.SourceA \in psources \ pconsumed
               /\ st.SourceB \in psources \ ConsumedAtSourceB(st)
               /\ st.ID \in Ids \ psources

\* parseDupe and parseFanout add the first target before they check the second.
\* A faulty variant adds both at the end.
BranchAddsLate(st) == psources
DefinedAtTargetB(st) == psources \cup {st.TargetA}
BranchOK(st) == /\ st.Source \in psources \ pconsumed
                /\ st.TargetA \in Ids \ psources
                /\ st.TargetB \in Ids \ DefinedAtTargetB(st)

\* parseAppend asks of the target only that it is defined.
AppendOK(st) == /\ st.Source \in psources \ pconsumed
                /\ st.Target \in psources

\* parseCut asks of the source only that it is not consumed.
CutOK(st) == st.Source \in Ids \ pconsumed

\* A faulty variant of parseTag and parseJoin allows a consumed source.
WrapUnchecked(st) == st.Source \in psources
WrapOK(st) == st.Source \in psources \ pconsumed

StatementOK(st) == CASE st.type = "source" -> SourceOK(st)
                     [] st.type = "sink" -> SinkOK(st)
                     [] st.type = "merge" -> MergeOK(st)
                     [] st.type \in {"dupe", "fanout"} -> BranchOK(st)
                     [] st.type = "append" -> AppendOK(st)
                     [] st.type = "cut" -> CutOK(st)
                     [] st.type \in {"tag", "join"} -> WrapOK(st)
                     [] st.type = "eol" -> TRUE

-----------------------------------------------------------------------------
(* The steps of parse *)

\* The next line is a statement that follows the rules; it defines and
\* consumes iterators and may name a sink.
Accept(st, defines, consumes, names) ==
  /\ parse = "parsing"
  /\ Len(nodes) < MaxStatements
  /\ StatementOK(st)
  /\ nodes' = Append(nodes, st)
  /\ psources' = psources \cup defines
  /\ pconsumed' = pconsumed \cup consumes
  /\ psinks' = psinks \cup names
  /\ UNCHANGED parse

ParseSource == \E st \in SourceStmt : Accept(st, {st.ID}, {}, {})
ParseSink == \E st \in SinkStmt : Accept(st, {}, {st.Source}, SinkNames(st))
ParseMerge == \E st \in MergeStmt :
                Accept(st, {st.ID}, {st.SourceA, st.SourceB}, {})
ParseDupe == \E st \in DupeStmt :
               Accept(st, {st.TargetA, st.TargetB}, {st.Source}, {})
ParseFanout == \E st \in FanoutStmt :
                 Accept(st, {st.TargetA, st.TargetB}, {st.Source}, {})
ParseAppend == \E st \in AppendStmt : Accept(st, {}, {st.Source}, {})
ParseCut == \E st \in CutStmt : Accept(st, {}, {}, {})
ParseTag == \E st \in TagStmt : Accept(st, {}, {}, {})
ParseJoin == \E st \in JoinStmt : Accept(st, {}, {}, {})
ParseEol == \E st \in EolStmt : Accept(st, {}, {}, {})

\* The end of the script: the nodes are returned.
ParseEnd == /\ parse = "parsing"
            /\ parse' = "ok"
            /\ UNCHANGED <<nodes, psources, pconsumed, psinks>>

\* The next line breaks a rule or the syntax: no nodes are returned.
Reject == /\ parse = "parsing"
          /\ Len(nodes) < MaxStatements
          /\ parse' = "error"
          /\ nodes' = <<>>
          /\ UNCHANGED <<psources, pconsumed, psinks>>

Parse == \/ ParseSource \/ ParseSink \/ ParseMerge \/ ParseDupe \/ ParseFanout
         \/ ParseAppend \/ ParseCut \/ ParseTag \/ ParseJoin \/ ParseEol
         \/ ParseEnd \/ Reject

ParserTypeOK == /\ nodes \in Seq(Statement)
                /\ psources \subseteq Ids
                /\ pconsumed \subseteq psources
                /\ psinks \subseteq Ids
                /\ parse \in {"parsing", "ok", "error"}
=============================================================================
