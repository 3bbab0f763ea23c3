------------------------------ MODULE MCPull ------------------------------
(***************************************************************************)
(* Model checking of Pull.  A message starts with the word "S" if it       *)
(* starts an entry of the log; "(" is a pattern that does not compile.     *)
(***************************************************************************)
EXTENDS Pull

MCMatches(p, msg) == msg[1] # <<>> /\ msg[1][1] = "S"

MCLines == {<<<<"S", "w">>>>, <<<<"v", "S">>>>, <<>>}

\* Channels count from 0 and queries from 1; a query that does not fail differs
\* from a channel in that only.
MCFrom(lines, n) == [lines : SeqOf(lines, n), first : {0}, fails : {"never"}] \cup
                    [lines : SeqOf(lines, n), first : {1}, fails : {"scan", "next"}]
MCSources == {[i |-> i, k |-> k] : i \in MCFrom(MCLines, 2),
                                   k \in MCFrom({<<<<"v", "S">>>>, <<>>}, 1)}

Plain(j) == [cut |-> "none", sets |-> [f \in {} |-> 0], join |-> j, patterns |-> {"^S"}]
With(c, sets, j) == [cut |-> c, sets |-> sets, join |-> j, patterns |-> {"^S"}]
MCScripts ==
  {Plain(j) : j \in {"none", "i", "all"}} \cup
  {[Plain("all") EXCEPT !.patterns = {"("}],
   With("i", [f |-> 0], "all"),
   With("all", [f |-> -1], "all"),
   With("all", [f |-> 0, g |-> 0], "none"),
   With("i", [f |-> 1, g |-> -1], "none"),
   With("i", "@message" :> -2 @@ "f" :> 3, "i")}
=============================================================================
