---------------------------- MODULE CommitMachine ----------------------------
(***************************************************************************)
(* The commit and assurance machine of crates/vot-commit-model: the state  *)
(* that every provider (POSIX, object store, platform) drives through      *)
(* Machine::apply.  A machine is a record, and apply is split as the code  *)
(* splits it: Accepts is `plan`, which runs every guard, and After is      *)
(* `commit`, which cannot fail.  A refused event leaves the machine as it  *)
(* was.  The operators take the machine as an argument so that the         *)
(* provider modules can hold one of their own.                             *)
(***************************************************************************)
EXTENDS Naturals, Sequences

CONSTANT MaxSequence        \* u64::MAX in the code: the last sequence number

ASSUME MaxSequenceAssumption == MaxSequence \in Nat

None == "None"

Profiles == {"Fast", "Balanced", "Strict"}

States == {"New", "Admitted", "TransitVerified", "DataFlushed", "Durable",
           "AtRestVerified", "NamespaceLinked", "Published",
           "RecoveryRequired", "Poisoned", "Aborted"}

Assurances == {"Admitted", "TransitVerified", "Durable", "AtRestVerified",
               "Published"}

FailureEvents == {"DataFlushFailed", "JournalFlushFailed",
                  "AtRestVerificationFailed"}

AmbiguityEvents == {"NamespaceLinkAmbiguous", "NamespaceFlushFailed", "Crash"}

ProgressEvents == {"Admit", "TransitVerified", "DataFlushSucceeded",
                   "JournalFlushSucceeded", "AtRestVerified",
                   "NamespaceLinked", "NamespaceDurable"}

Events == FailureEvents \cup AmbiguityEvents \cup ProgressEvents
            \cup {"Recover", "Abort"}

Terminal == {"Published", "Poisoned", "Aborted"}

\* The assurance a publication must already have performed; the state a
\* machine stands in once it has performed that level has the same name.
RequiredPredecessor(profile) ==
  CASE profile = "Fast"     -> "TransitVerified"
    [] profile = "Balanced" -> "Durable"
    [] profile = "Strict"   -> "AtRestVerified"

NewMachine(profile) ==
  [profile |-> profile, state |-> "New", current |-> TRUE,
   recovery |-> None, sequence |-> 0, performed |-> <<>>]

Performed(m, level) == \E i \in 1..Len(m.performed) : m.performed[i] = level

-----------------------------------------------------------------------------

\* The arms of the match in `plan`: the states in which an event has one.
HasArm(m, event) ==
  \/ event = "Admit"                 /\ m.state = "New"
  \/ event = "TransitVerified"       /\ m.state = "Admitted"
  \/ event = "DataFlushSucceeded"    /\ m.state = "TransitVerified"
  \/ event = "JournalFlushSucceeded" /\ m.state = "DataFlushed"
  \/ event = "AtRestVerified"        /\ m.state = "Durable"
  \/ event = "NamespaceLinked"       /\ m.state = RequiredPredecessor(m.profile)
  \/ event = "NamespaceDurable"      /\ m.state = "NamespaceLinked"
  \/ event = "Recover"               /\ m.state = "RecoveryRequired"
                                     /\ m.recovery # None
  \/ event = "Abort"                 /\ m.state \notin {"NamespaceLinked",
                                                       "RecoveryRequired"}
  \/ event \in FailureEvents
  \/ event \in AmbiguityEvents       /\ m.state # "RecoveryRequired"

\* The state the event leads to, from whichever source it is accepted in.
Target(m, event) ==
  CASE event = "Admit"                 -> "Admitted"
    [] event = "TransitVerified"       -> "TransitVerified"
    [] event = "DataFlushSucceeded"    -> "DataFlushed"
    [] event = "JournalFlushSucceeded" -> "Durable"
    [] event = "AtRestVerified"        -> "AtRestVerified"
    [] event = "NamespaceLinked"       -> "NamespaceLinked"
    [] event = "NamespaceDurable"      -> "Published"
    [] event = "Recover"               -> m.recovery
    [] event = "Abort"                 -> "Aborted"
    [] event \in FailureEvents         -> "Poisoned"
    [] event \in AmbiguityEvents       -> "RecoveryRequired"

\* Mutants of SavedState: recovery restarts the ingest, or takes an ambiguous
\* link for one that succeeded.
SavedState_Restart(m, event) ==
  CASE event \in AmbiguityEvents -> "New"
    [] event = "Recover"         -> None
    [] OTHER                     -> m.recovery

SavedState_LinkAssumed(m, event) ==
  CASE event = "NamespaceLinkAmbiguous"                   -> "NamespaceLinked"
    [] event \in AmbiguityEvents \ {"NamespaceLinkAmbiguous"} -> m.state
    [] event = "Recover"                                  -> None
    [] OTHER                                              -> m.recovery

\* Entering recovery saves the state it came from, recovering clears it, and
\* every other transition keeps what an earlier crash saved.
SavedState(m, event) ==
  CASE event \in AmbiguityEvents -> m.state
    [] event = "Recover"         -> None
    [] OTHER                     -> m.recovery

\* Mutant of Accepts: the sequence number may pass its last value.
Accepts_NoSequenceLimit(m, event) ==
  /\ m.current
  /\ m.state \notin Terminal
  /\ HasArm(m, event)
  /\ event = "NamespaceDurable" =>
       Performed(m, RequiredPredecessor(m.profile))

\* Machine::plan: a current, nonterminal machine with a sequence number left,
\* an arm for the event, and for publication the predecessor on record.
Accepts(m, event) ==
  /\ m.current
  /\ m.state \notin Terminal
  /\ m.sequence < MaxSequence
  /\ HasArm(m, event)
  /\ event = "NamespaceDurable" =>
       Performed(m, RequiredPredecessor(m.profile))

\* Mutant of After: the flush of the data already counts as durability.
After_ReceiptAtFlush(m, event) ==
  [m EXCEPT !.state = Target(m, event),
            !.sequence = @ + 1,
            !.recovery = SavedState(m, event),
            !.performed = CASE event = "DataFlushSucceeded" -> Append(@, "Durable")
                            [] event \in ProgressEvents \ {"DataFlushSucceeded"} /\
                               Target(m, event) \in Assurances -> Append(@, Target(m, event))
                            [] OTHER -> @]

\* Machine::commit: the levels that are observed are exactly the events whose
\* target is an assurance reached by new work.
After(m, event) ==
  [m EXCEPT !.state = Target(m, event),
            !.sequence = @ + 1,
            !.recovery = SavedState(m, event),
            !.performed = IF event \in ProgressEvents /\ Target(m, event) \in Assurances
                          THEN Append(@, Target(m, event))
                          ELSE @]

\* Machine::apply, for a provider that goes on after a refusal.
Apply(m, event) == IF Accepts(m, event) THEN After(m, event) ELSE m

-----------------------------------------------------------------------------
VARIABLE machine            \* the machine of one incarnation

Init == \E profile \in Profiles : machine = NewMachine(profile)

\* A provider reports one event to its machine.
Report(event) ==
  /\ Accepts(machine, event)
  /\ machine' = After(machine, event)

\* Machine::mark_stale: another incarnation became current.
MarkStale == machine' = [machine EXCEPT !.current = FALSE]

Next == (\E event \in Events : Report(event)) \/ MarkStale

Spec == Init /\ [][Next]_machine

-----------------------------------------------------------------------------
\* The fields keep the types of the code's, and the sequence number its limit
\* (the checked_add of plan).
TypeOK ==
  machine \in [profile: Profiles, state: States, current: BOOLEAN,
               recovery: States \cup {None}, sequence: 0..MaxSequence,
               performed: Seq(Assurances)]

\* The state a machine stands for: the saved one while it waits for recovery.
Standing(m) == IF m.state = "RecoveryRequired" THEN m.recovery ELSE m.state

Rank(state) ==
  CASE state = "New"             -> 0
    [] state = "Admitted"        -> 1
    [] state = "TransitVerified" -> 2
    [] state = "DataFlushed"     -> 3
    [] state = "Durable"         -> 4
    [] state = "AtRestVerified"  -> 5
    [] state = "NamespaceLinked" -> 6
    [] state = "Published"       -> 7
    [] OTHER                     -> 8

\* A namespace is linked only for a machine that has performed what its
\* profile requires, whatever crashes and recoveries lie between: the
\* MissingPredecessor refusal of plan is never what stops a publication
\* (can_publish_from, required_predecessor_performed).
LinkedIsEarned ==
  Standing(machine) \in {"NamespaceLinked", "Published"} =>
    Performed(machine, RequiredPredecessor(machine.profile))

\* Observations are monotonic within an incarnation: commit pushes levels in
\* strictly increasing order, so no crash and recovery repeats or reorders a
\* receipt (Machine::commit's push to `performed`).
ObservationsMonotonic ==
  \A i, j \in 1..Len(machine.performed) :
    i < j => Rank(machine.performed[i]) < Rank(machine.performed[j])

\* A level is only ever on record if the machine stands at it or beyond, so a
\* receipt never names work that recovery could undo (Machine::commit).
ReceiptsArePerformed ==
  \A i \in 1..Len(machine.performed) :
    Rank(machine.performed[i]) <= Rank(Standing(machine))

\* Recovery resumes the saved state and never an earlier one: no step of the
\* machine moves the state it stands for backwards (recovery_state in plan).
NeverBackwards ==
  [][Rank(Standing(machine)) <= Rank(Standing(machine'))]_machine

=============================================================================
