\* Nine sequence numbers: the longest path to a publication takes seven, and
\* two more let a crash and its recovery happen anywhere along it.
CONSTANT MaxSequence = 9
SPECIFICATION Spec
CHECK_DEADLOCK FALSE
INVARIANTS TypeOK LinkedIsEarned ObservationsMonotonic ReceiptsArePerformed
PROPERTY NeverBackwards
