\* One torn NAMESPACE_LINKED record and one crash, nothing else.
SPECIFICATION Spec
CONSTANTS
  MaxSequence = 24
  UsedProfiles = {"Balanced"}
  Faults = {"journal", "torn_linked"}
  DirectCalls = FALSE
  MaxFaults = 1
  MaxCrashes = 1
  MaxSwaps = 0
INVARIANT RecoveryAvailable
CHECK_DEADLOCK FALSE
