--------------------------- MODULE MCCommitMachine ---------------------------
(* Model checking of CommitMachine, and the mutants of its definitions. *)
EXTENDS CommitMachine
=============================================================================
