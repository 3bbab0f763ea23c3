------------------------------ MODULE MCScript ------------------------------
(***************************************************************************)
(* Model checking of Script: identifiers are interchangeable.              *)
(***************************************************************************)
EXTENDS Script, TLC

IdSymmetry == Permutations(Ids)
=============================================================================
