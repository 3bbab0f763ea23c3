--------------------------- MODULE MCDupeSession ---------------------------
(***************************************************************************)
(* Model checking of DupeSession: scripts with a sink on each branch.      *)
(***************************************************************************)
EXTENDS DupeSession

\* "a" and then "b"; at least the first sink runs in a goroutine of its own.
MCScripts == {<<[sink |-> "a", async |-> TRUE], [sink |-> "b", async |-> x]>> :
                x \in BOOLEAN}

\* Neither sink statement says "async".
MCSyncScripts == {<<[sink |-> "a", async |-> FALSE], [sink |-> "b", async |-> FALSE]>>}
=============================================================================
