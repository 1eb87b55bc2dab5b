------------------------------ MODULE MCReceive ------------------------------
(***************************************************************************)
(* The instances of Receive that TLC explores.                             *)
(***************************************************************************)
EXTENDS Receive, TLC

Symmetry == Permutations(Threads)
=============================================================================
