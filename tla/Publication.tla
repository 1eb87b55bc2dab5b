----------------------------- MODULE Publication -----------------------------
(***************************************************************************)
(* What a commit provider promises to whoever looks at the destination     *)
(* name (spec/commit.md, sections 5 and 6): an object appears there in one *)
(* step and only once it is verified as its profile requires, a name that  *)
(* somebody else holds is never replaced or removed, and after the receipt *)
(* nothing, a power loss included, takes the object away again.            *)
(***************************************************************************)

VARIABLES verified,         \* the journal holds the record the profile requires
          final,            \* what the destination name refers to
          receipt           \* a PUBLISHED receipt was returned

vars == <<verified, final, receipt>>

Init == verified = FALSE /\ final = "absent" /\ receipt = FALSE

Verify ==
  /\ verified' = TRUE
  /\ UNCHANGED <<final, receipt>>

\* The no-overwrite link.
Link ==
  /\ verified /\ final = "absent" /\ final' = "own"
  /\ UNCHANGED <<verified, receipt>>

\* Somebody else takes the free name, or gives up the name they hold.
Others ==
  /\ final # "own" /\ final' \in {"absent", "other"}
  /\ UNCHANGED <<verified, receipt>>

Emit ==
  /\ final = "own" /\ receipt' = TRUE
  /\ UNCHANGED <<verified, final>>

\* A power loss takes back what no receipt has been given for.
Lose ==
  /\ ~receipt
  /\ \/ final' \in {"absent", "other"} /\ verified' \in {FALSE, verified}
     \/ final' = final /\ final # "own" /\ verified' = FALSE
  /\ UNCHANGED receipt

Next == Verify \/ Link \/ Others \/ Emit \/ Lose

Spec == Init /\ [][Next]_vars

=============================================================================
