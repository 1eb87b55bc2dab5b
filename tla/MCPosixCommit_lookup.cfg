\* A PUBLISHED record whose flush fails, then a lookup that fails in the retry.
SPECIFICATION Spec
CONSTANTS
  MaxSequence = 24
  UsedProfiles = {"Balanced"}
  Faults = {"journal", "replay_lookup"}
  DirectCalls = FALSE
  MaxFaults = 2
  MaxCrashes = 0
  MaxSwaps = 0
INVARIANT EvidenceKept
CHECK_DEADLOCK FALSE
