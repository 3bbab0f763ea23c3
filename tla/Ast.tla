--------------------------------- MODULE Ast ---------------------------------
(***************************************************************************)
(* The statements of the language: the AST nodes of runtime/dsl/ast.go     *)
(* that the parser makes and the runtime executes, one record per node.    *)
(* Of a class only whether some plugin has registered it is kept, of the   *)
(* arguments whether the plugin accepts them.  Text, positions, tags,      *)
(* patterns and field sets are left out.                                   *)
(***************************************************************************)
EXTENDS Integers, Sequences, FiniteSets

CONSTANTS Ids,      \* the identifiers that scripts use
          ArgIds,   \* those of them that occur as arguments
          Class,    \* the classes that scripts name
          Literals  \* the argument lists that are not an identifier

NoId == ""          \* the empty identifier

ASSUME IdsAssumption == NoId \notin Ids /\ ArgIds \subseteq Ids
ASSUME ClassAssumption == Class \subseteq {"known", "unknown"}
ASSUME LiteralsAssumption == Literals \subseteq {"good", "bad"}

Id == Ids \cup {NoId}

\* The argument list is one that the plugin accepts, or one that it does not,
\* or it is a single identifier, which the plugins of files and of the store
\* read as an empty string and do not accept.  The standard streams ignore their
\* arguments (stdstream.go:47, 81, 107): for them a list is always a good one,
\* and one of an identifier is left out.
Args == Literals \cup ArgIds

SourceStmt == [type : {"source"}, ID : Id, Class : Class, Args : Args]
SinkStmt == [type : {"sink"}, Source : Id, Async : BOOLEAN, ID : Id,
             Class : Class, Args : Args]
MergeStmt == [type : {"merge"}, SourceA : Id, SourceB : Id, ID : Id]
DupeStmt == [type : {"dupe"}, Source : Id, TargetA : Id, TargetB : Id]
FanoutStmt == [type : {"fanout"}, Source : Id, TargetA : Id, TargetB : Id]
AppendStmt == [type : {"append"}, Source : Id, Target : Id]
CutStmt == [type : {"cut"}, Source : Id]
TagStmt == [type : {"tag"}, Source : Id]
JoinStmt == [type : {"join"}, Source : Id]
EolStmt == [type : {"eol"}]

Statement == SourceStmt \cup SinkStmt \cup MergeStmt \cup DupeStmt
             \cup FanoutStmt \cup AppendStmt \cup CutStmt \cup TagStmt
             \cup JoinStmt \cup EolStmt
=============================================================================
