------------------------------ MODULE MCJournal ------------------------------
(* Model checking of Journal: the writers are interchangeable, and so are the *)
(* inodes.                                                                    *)
EXTENDS Journal, TLC

Symmetry == Permutations(Writers) \cup Permutations(Inodes)
=============================================================================
