------------------------------ MODULE MCStore ------------------------------
(***************************************************************************)
(* Model checking of Store: scripts with one or two sinks, "x" before "y". *)
(* The fields "f" and "F" are one column.                                  *)
(***************************************************************************)
EXTENDS Store

MCColumn(f) == IF f = "F" THEN "f" ELSE f

MCInputs == {[x |-> <<{"f", "g"}, {"g"}>>, y |-> <<{"f"}>>],
             [x |-> <<{"f"}, {"F"}>>, y |-> <<{}, {"g"}>>]}

MCTargets == {[x |-> "t", y |-> "t"], [x |-> "t", y |-> "bad"]}

\* One sink, or two of which "y" is asynchronous only if "x" is: in the third of
\* these "y" ends Execute with an error while "x" is running.
Sink(s, a) == [sink |-> s, async |-> a]
MCScripts == {<<Sink("x", a)>> : a \in BOOLEAN} \cup
             {<<Sink("x", FALSE), Sink("y", FALSE)>>,
              <<Sink("x", TRUE), Sink("y", FALSE)>>,
              <<Sink("x", TRUE), Sink("y", TRUE)>>}
=============================================================================
