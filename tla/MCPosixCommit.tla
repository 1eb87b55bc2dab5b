---------------------------- MODULE MCPosixCommit ----------------------------
(***************************************************************************)
(* The instances of PosixCommit that TLC explores.                         *)
(***************************************************************************)
EXTENDS PosixCommit
=============================================================================
