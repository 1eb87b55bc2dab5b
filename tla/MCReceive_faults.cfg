\* Five bytes in at most two extents, three threads: two isolated writes and a
\* third that would be one extent too many, or that joins the other two.  A
\* write may fail at any byte; the process ends once and resumes.
\* A poisoned receiver may be left alone: no deadlock check.
SPECIFICATION Spec
CONSTANTS
  ObjectLen = 5
  Limit = 2
  Threads = {t1, t2, t3}
  WriteFaults = TRUE
  MaxRestarts = 1
SYMMETRY Symmetry
INVARIANTS TypeOK CoveredIsWritten WritesAreDisjoint ReservationsReturned CoverageIsExact SealedIsWhole
PROPERTY PoisonStopsCounting
CHECK_DEADLOCK FALSE
