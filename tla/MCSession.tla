----------------------------- MODULE MCSession -----------------------------
(***************************************************************************)
(* Model checking of Session: scripts with a single sink statement, for    *)
(* file.File ("file"), which never looks at the context, or for a standard *)
(* stream ("std"), which does; synchronous or asynchronous.                *)
(***************************************************************************)
EXTENDS Session

MCScripts == {<<[sink |-> s, async |-> a]>> : s \in Sinks, a \in BOOLEAN}
=============================================================================
