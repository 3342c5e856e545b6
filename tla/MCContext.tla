------------------------------ MODULE MCContext ------------------------------
(***************************************************************************)
(* Context with its processes interchangeable.                             *)
(***************************************************************************)
EXTENDS Context, TLC

Symmetry == Permutations(UserThreads)
=============================================================================
