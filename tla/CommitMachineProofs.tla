------------------------- MODULE CommitMachineProofs -------------------------
(***************************************************************************)
(* For every bound on the sequence number: the type invariant and the      *)
(* safety properties of the commit machine.                                *)
(***************************************************************************)
EXTENDS CommitMachine, TLAPS

Live == {"New", "Admitted", "TransitVerified", "DataFlushed", "Durable",
         "AtRestVerified", "NamespaceLinked"}

\* What a step needs to know of its predecessor: a machine that waits for
\* recovery has saved a live state, the level a machine stands at is on
\* record, and so is the required one once the namespace is linked.
Inv ==
  /\ TypeOK
  /\ machine.state = "RecoveryRequired" => machine.recovery \in Live
  /\ Standing(machine) \in Assurances => Performed(machine, Standing(machine))
  /\ LinkedIsEarned
  /\ ObservationsMonotonic
  /\ ReceiptsArePerformed

\* Appending a level keeps what was performed and adds that level.
LEMMA PerformedAppend ==
  ASSUME NEW s \in Seq(Assurances), NEW level \in Assurances
  PROVE  /\ Append(s, level) \in Seq(Assurances)
         /\ Len(Append(s, level)) = Len(s) + 1
         /\ Append(s, level)[Len(s) + 1] = level
         /\ \A i \in 1..Len(s) : Append(s, level)[i] = s[i]
OBVIOUS

\* The machines of the type invariant.
Machines == [profile: Profiles, state: States, current: BOOLEAN,
             recovery: States \cup {None}, sequence: 0..MaxSequence,
             performed: Seq(Assurances)]

\* The order of the states, spelled out once.
LEMMA RankOrder ==
  /\ Rank("New") = 0
  /\ Rank("Admitted") = 1
  /\ Rank("TransitVerified") = 2
  /\ Rank("DataFlushed") = 3
  /\ Rank("Durable") = 4
  /\ Rank("AtRestVerified") = 5
  /\ Rank("NamespaceLinked") = 6
  /\ Rank("Published") = 7
  /\ Rank("RecoveryRequired") = 8
  /\ Rank("Poisoned") = 8
  /\ Rank("Aborted") = 8
BY DEF Rank

\* Progress leads from a live state to one of higher rank, and from the state
\* that stands at the required assurance when it links the namespace.
LEMMA ProgressRises ==
  ASSUME NEW m \in Machines, NEW event \in ProgressEvents, Accepts(m, event)
  PROVE  /\ m.state \in Live
         /\ Target(m, event) \in (Live \cup {"Published"}) \ {"New"}
         /\ Rank(m.state) < Rank(Target(m, event))
         /\ Target(m, event) = "NamespaceLinked" =>
              m.state = RequiredPredecessor(m.profile)
         /\ Target(m, event) = "Published" =>
              Performed(m, RequiredPredecessor(m.profile))
         /\ SavedState(m, event) = m.recovery
<1>1. SavedState(m, event) = m.recovery
  BY DEF SavedState, ProgressEvents, AmbiguityEvents
<1>2. HasArm(m, event) /\ m.profile \in Profiles
  BY DEF Accepts, Machines
<1>3. CASE event = "Admit"
  BY <1>1, <1>2, <1>3 DEF HasArm, Target, Rank, Live, FailureEvents, AmbiguityEvents
<1>4. CASE event = "TransitVerified"
  BY <1>1, <1>2, <1>4 DEF HasArm, Target, Rank, Live, FailureEvents, AmbiguityEvents
<1>5. CASE event = "DataFlushSucceeded"
  BY <1>1, <1>2, <1>5 DEF HasArm, Target, Rank, Live, FailureEvents, AmbiguityEvents
<1>6. CASE event = "JournalFlushSucceeded"
  BY <1>1, <1>2, <1>6 DEF HasArm, Target, Rank, Live, FailureEvents, AmbiguityEvents
<1>7. CASE event = "AtRestVerified"
  BY <1>1, <1>2, <1>7 DEF HasArm, Target, Rank, Live, FailureEvents, AmbiguityEvents
<1>8. CASE event = "NamespaceLinked"
  <2>1. m.state = RequiredPredecessor(m.profile)
    BY <1>2, <1>8 DEF HasArm, FailureEvents, AmbiguityEvents
  <2>2. m.state \in {"TransitVerified", "Durable", "AtRestVerified"}
    BY <1>2, <2>1 DEF RequiredPredecessor, Profiles
  <2>3. Target(m, event) = "NamespaceLinked"
    BY <1>8 DEF Target, FailureEvents, AmbiguityEvents
  <2>4. QED
    BY <1>1, <2>1, <2>2, <2>3, RankOrder DEF Live
<1>9. CASE event = "NamespaceDurable"
  BY <1>1, <1>2, <1>9 DEF HasArm, Target, Rank, Live, FailureEvents, AmbiguityEvents, Accepts
<1>10. QED
  BY <1>3, <1>4, <1>5, <1>6, <1>7, <1>8, <1>9 DEF ProgressEvents

\* Every other event keeps the record of what was performed, and leads to a
\* terminal state, to recovery, or back to the state recovery saved.
LEMMA OtherEvents ==
  ASSUME NEW m \in Machines, NEW event \in Events \ ProgressEvents,
         Accepts(m, event)
  PROVE  \/ /\ Target(m, event) \in {"Poisoned", "Aborted"}
            /\ SavedState(m, event) = m.recovery
         \/ /\ Target(m, event) = "RecoveryRequired"
            /\ m.state \in Live
            /\ SavedState(m, event) = m.state
         \/ /\ m.state = "RecoveryRequired"
            /\ Target(m, event) = m.recovery
            /\ SavedState(m, event) = None
<1>1. HasArm(m, event) /\ m.state \in States \ Terminal
  BY DEF Accepts, Machines
<1>2. CASE event \in FailureEvents
  BY <1>2 DEF Target, SavedState, FailureEvents, AmbiguityEvents
<1>3. CASE event \in AmbiguityEvents
  <2>1. m.state # "RecoveryRequired"
    BY <1>1, <1>3 DEF HasArm, FailureEvents, AmbiguityEvents
  <2>2. m.state \in Live
    BY <1>1, <2>1 DEF States, Terminal, Live
  <2>3. Target(m, event) = "RecoveryRequired" /\ SavedState(m, event) = m.state
    BY <1>3 DEF Target, SavedState, FailureEvents, AmbiguityEvents
  <2>4. QED
    BY <2>2, <2>3
<1>4. CASE event = "Recover"
  BY <1>1, <1>4 DEF HasArm, Target, SavedState, FailureEvents, AmbiguityEvents
<1>5. CASE event = "Abort"
  BY <1>5 DEF Target, SavedState, FailureEvents, AmbiguityEvents
<1>6. QED
  BY <1>2, <1>3, <1>4, <1>5 DEF Events, ProgressEvents

-----------------------------------------------------------------------------
LEMMA InitInv == Init => Inv
<1> SUFFICES ASSUME NEW profile \in Profiles, machine = NewMachine(profile)
             PROVE  Inv
  BY DEF Init
<1>1. TypeOK
  BY MaxSequenceAssumption DEF TypeOK, NewMachine, States, None
<1>2. machine.state = "New" /\ machine.performed = <<>> /\ Standing(machine) = "New"
  BY DEF NewMachine, Standing
<1>3. QED
  BY <1>1, <1>2 DEF Inv, LinkedIsEarned, ObservationsMonotonic,
     ReceiptsArePerformed, Assurances

\* A step of progress appends the level it observes, which ranks above every
\* level on record.
LEMMA ProgressInv ==
  ASSUME Inv, NEW event \in ProgressEvents, Report(event)
  PROVE  Inv'
<1> DEFINE target == Target(machine, event)
<1>1. machine \in Machines /\ Accepts(machine, event)
  BY DEF Inv, TypeOK, Machines, Report
<1>2. /\ machine.state \in Live
      /\ target \in (Live \cup {"Published"}) \ {"New"}
      /\ Rank(machine.state) < Rank(target)
      /\ target = "NamespaceLinked" =>
           machine.state = RequiredPredecessor(machine.profile)
      /\ target = "Published" =>
           Performed(machine, RequiredPredecessor(machine.profile))
      /\ SavedState(machine, event) = machine.recovery
  BY <1>1, ProgressRises
<1>3. Standing(machine) = machine.state /\ Standing(machine') = target
  <2>1. machine'.state = target
    BY <1>1 DEF Report, After, Machines
  <2>2. QED
    BY <1>2, <2>1 DEF Standing, Live
<1>4. /\ machine'.profile = machine.profile
      /\ machine'.state = target
      /\ machine'.recovery = machine.recovery
      /\ machine'.performed = IF target \in Assurances
                              THEN Append(machine.performed, target)
                              ELSE machine.performed
  BY <1>1, <1>2 DEF Report, After, Machines
<1>5. TypeOK'
  <2>1. machine.sequence + 1 \in 0..MaxSequence
    BY <1>1, MaxSequenceAssumption DEF Accepts, Machines
  <2>2. machine'.performed \in Seq(Assurances)
    BY <1>1, <1>4, PerformedAppend DEF Machines
  <2>3. target \in States
    BY <1>2 DEF Live, States
  <2>4. QED
    BY <1>1, <1>2, <2>1, <2>2, <2>3 DEF TypeOK, Machines, Report, After
<1>6. /\ Len(machine.performed) \in Nat
      /\ Len(machine'.performed) = IF target \in Assurances
                                   THEN Len(machine.performed) + 1
                                   ELSE Len(machine.performed)
      /\ \A i \in 1..Len(machine.performed) :
           machine'.performed[i] = machine.performed[i]
      /\ target \in Assurances =>
           machine'.performed[Len(machine.performed) + 1] = target
  BY <1>1, <1>4, PerformedAppend DEF Machines
<1>7. \A level : Performed(machine, level) => Performed(machine', level)
  BY <1>6 DEF Performed
<1>8. target \in Assurances => Performed(machine', target)
  BY <1>6 DEF Performed
<1>9. \A i \in 1..Len(machine.performed) :
        /\ machine.performed[i] \in Assurances
        /\ Rank(machine.performed[i]) \in Nat
        /\ Rank(machine.performed[i]) < Rank(target)
  <2>1. \A level \in Assurances \cup Live : Rank(level) \in Nat
    BY RankOrder DEF Assurances, Live
  <2>2. Rank(target) \in Nat
    BY <1>2, RankOrder DEF Live
  <2>3. \A i \in 1..Len(machine.performed) :
          /\ machine.performed[i] \in Assurances
          /\ Rank(machine.performed[i]) <= Rank(machine.state)
    BY <1>1, <1>3 DEF Inv, ReceiptsArePerformed, Machines
  <2>4. QED
    BY <1>2, <2>1, <2>2, <2>3
<1>10. LinkedIsEarned'
  <2>1. CASE target = "NamespaceLinked"
    <3>1. RequiredPredecessor(machine.profile) \in Assurances
      BY <1>1 DEF Machines, Profiles, RequiredPredecessor, Assurances
    <3>2. Performed(machine, machine.state)
      BY <1>2, <1>3, <2>1, <3>1 DEF Inv
    <3>3. QED
      BY <1>2, <1>3, <1>4, <1>7, <2>1, <3>2 DEF LinkedIsEarned
  <2>2. CASE target = "Published"
    BY <1>2, <1>3, <1>4, <1>7, <2>2 DEF LinkedIsEarned
  <2>3. QED
    BY <1>3, <2>1, <2>2 DEF LinkedIsEarned
<1>11. ObservationsMonotonic'
  BY <1>6, <1>9 DEF Inv, ObservationsMonotonic
<1>12. ReceiptsArePerformed'
  <2>1. Rank(target) \in Nat
    BY <1>2, RankOrder DEF Live
  <2>2. QED
    BY <1>3, <1>6, <1>9, <2>1 DEF ReceiptsArePerformed
<1>13. machine'.state # "RecoveryRequired"
  BY <1>2, <1>4 DEF Live
<1>14. QED
  BY <1>3, <1>5, <1>8, <1>10, <1>11, <1>12, <1>13 DEF Inv

\* Failures, crashes, recoveries and aborts keep the record, and stand where
\* the machine stood or in a terminal state above every level.
LEMMA OtherInv ==
  ASSUME Inv, NEW event \in Events \ ProgressEvents, Report(event)
  PROVE  Inv' /\ Rank(Standing(machine)) <= Rank(Standing(machine'))
<1> DEFINE target == Target(machine, event)
<1>1. machine \in Machines /\ Accepts(machine, event)
  BY DEF Inv, TypeOK, Machines, Report
<1>2. /\ machine'.profile = machine.profile
      /\ machine'.state = target
      /\ machine'.recovery = SavedState(machine, event)
      /\ machine'.performed = machine.performed
  BY <1>1 DEF Report, After, Machines
<1>3. \/ /\ target \in {"Poisoned", "Aborted"}
         /\ SavedState(machine, event) = machine.recovery
      \/ /\ target = "RecoveryRequired"
         /\ machine.state \in Live
         /\ SavedState(machine, event) = machine.state
      \/ /\ machine.state = "RecoveryRequired"
         /\ target = machine.recovery
         /\ target \in Live
         /\ SavedState(machine, event) = None
  BY <1>1, OtherEvents DEF Inv
<1>4. \/ Standing(machine') \in {"Poisoned", "Aborted"}
      \/ Standing(machine') = Standing(machine)
  BY <1>2, <1>3 DEF Standing, Live
<1>5. /\ Rank(Standing(machine)) \in 0..8
      /\ \A level \in Assurances : Rank(level) \in 0..8
  <2>1. Standing(machine) \in States
    BY <1>1 DEF Inv, Standing, Machines, Live, States
  <2>2. QED
    BY <2>1, RankOrder DEF States, Assurances
<1>6. TypeOK'
  <2>1. machine.sequence + 1 \in 0..MaxSequence
    BY <1>1, MaxSequenceAssumption DEF Accepts, Machines
  <2>2. target \in States /\ SavedState(machine, event) \in States \cup {None}
    BY <1>1, <1>3 DEF Machines, Live, States
  <2>3. QED
    BY <1>1, <2>1, <2>2 DEF TypeOK, Machines, Report, After
<1>7. machine'.state = "RecoveryRequired" => machine'.recovery \in Live
  BY <1>2, <1>3 DEF Live
<1>8. /\ Standing(machine') \in Assurances =>
           Performed(machine', Standing(machine'))
      /\ LinkedIsEarned'
  BY <1>2, <1>4 DEF Inv, Performed, Assurances, LinkedIsEarned
<1>9. ObservationsMonotonic'
  BY <1>2 DEF Inv, ObservationsMonotonic
<1>10. ReceiptsArePerformed'
  <2>1. CASE Standing(machine') = Standing(machine)
    BY <1>2, <2>1 DEF Inv, ReceiptsArePerformed
  <2>2. CASE Standing(machine') \in {"Poisoned", "Aborted"}
    <3>1. Rank(Standing(machine')) = 8
      BY <2>2, RankOrder
    <3>2. \A i \in 1..Len(machine.performed) : machine.performed[i] \in Assurances
      BY <1>1 DEF Machines
    <3>3. QED
      BY <1>2, <1>5, <3>1, <3>2 DEF ReceiptsArePerformed
  <2>3. QED
    BY <1>4, <2>1, <2>2
<1>11. Rank(Standing(machine)) <= Rank(Standing(machine'))
  BY <1>4, <1>5, RankOrder
<1>12. QED
  BY <1>6, <1>7, <1>8, <1>9, <1>10, <1>11 DEF Inv

\* Being marked stale changes neither the state nor the record.
LEMMA StaleInv ==
  ASSUME Inv, MarkStale \/ UNCHANGED machine
  PROVE  Inv' /\ Standing(machine') = Standing(machine)
<1>1. /\ machine'.profile = machine.profile
      /\ machine'.state = machine.state
      /\ machine'.recovery = machine.recovery
      /\ machine'.performed = machine.performed
      /\ TypeOK'
  BY DEF Inv, TypeOK, MarkStale
<1>2. Standing(machine') = Standing(machine)
  BY <1>1 DEF Standing
<1>3. QED
  BY <1>1, <1>2 DEF Inv, Performed, LinkedIsEarned, ObservationsMonotonic,
     ReceiptsArePerformed

LEMMA NextInv ==
  ASSUME Inv, [Next]_machine
  PROVE  Inv' /\ Rank(Standing(machine)) <= Rank(Standing(machine'))
<1>1. Rank(Standing(machine)) \in Nat
  <2>1. Standing(machine) \in States
    BY DEF Inv, TypeOK, Standing, Live, States
  <2>2. QED
    BY <2>1, RankOrder DEF States
<1>2. ASSUME NEW event \in ProgressEvents, Report(event)
      PROVE  Inv' /\ Rank(Standing(machine)) <= Rank(Standing(machine'))
  <2>1. machine \in Machines /\ Accepts(machine, event)
    BY <1>2 DEF Inv, TypeOK, Machines, Report
  <2>2. machine'.state = Target(machine, event)
    BY <1>2, <2>1 DEF Report, After, Machines
  <2>3. /\ machine.state \in Live
        /\ machine'.state \in (Live \cup {"Published"}) \ {"New"}
        /\ Rank(machine.state) < Rank(machine'.state)
    BY <1>2, <2>1, <2>2, ProgressRises
  <2>4. /\ Standing(machine) = machine.state
        /\ Standing(machine') = machine'.state
        /\ Rank(machine'.state) \in Nat
    BY <2>3, RankOrder DEF Standing, Live
  <2>5. QED
    BY <1>1, <1>2, <2>3, <2>4, ProgressInv
<1>3. ASSUME NEW event \in Events \ ProgressEvents, Report(event)
      PROVE  Inv' /\ Rank(Standing(machine)) <= Rank(Standing(machine'))
  BY <1>3, OtherInv
<1>4. CASE MarkStale \/ UNCHANGED machine
  BY <1>1, <1>4, StaleInv
<1>5. QED
  BY <1>2, <1>3, <1>4 DEF Next

\* Every reachable machine has the types of the code's fields.
THEOREM TypeCorrect == Spec => []TypeOK
<1>1. Inv /\ [Next]_machine => Inv'
  BY NextInv
<1>2. Inv => TypeOK
  BY DEF Inv
<1>3. QED
  BY InitInv, <1>1, <1>2, PTL DEF Spec

\* The publication guard of plan never fires: whatever the interleaving of
\* crashes and recoveries, a linked machine has its required predecessor.
THEOREM LinkedEarned == Spec => []LinkedIsEarned
<1>1. Inv /\ [Next]_machine => Inv'
  BY NextInv
<1>2. Inv => LinkedIsEarned
  BY DEF Inv
<1>3. QED
  BY InitInv, <1>1, <1>2, PTL DEF Spec

\* Receipts come in strictly increasing order and never run ahead of what the
\* machine stands for.
THEOREM ReceiptsOrdered == Spec => [](ObservationsMonotonic /\ ReceiptsArePerformed)
<1>1. Inv /\ [Next]_machine => Inv'
  BY NextInv
<1>2. Inv => ObservationsMonotonic /\ ReceiptsArePerformed
  BY DEF Inv
<1>3. QED
  BY InitInv, <1>1, <1>2, PTL DEF Spec

\* No step, recovery included, moves a machine backwards.
THEOREM ForwardOnly == Spec => NeverBackwards
<1>1. Inv /\ [Next]_machine => Inv'
  BY NextInv
<1>2. Inv /\ [Next]_machine =>
        [Rank(Standing(machine)) <= Rank(Standing(machine'))]_machine
  BY NextInv
<1>3. QED
  BY InitInv, <1>1, <1>2, PTL DEF Spec, NeverBackwards
=============================================================================
