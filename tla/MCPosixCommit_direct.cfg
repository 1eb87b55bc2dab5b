\* publish called on a commit without vot-sdk-file in front of it.
SPECIFICATION Spec
CONSTANTS
  MaxSequence = 24
  UsedProfiles = {"Fast"}
  Faults = {"write"}
  DirectCalls = TRUE
  MaxFaults = 1
  MaxCrashes = 0
  MaxSwaps = 0
INVARIANT LinkOnlyVerified
CHECK_DEADLOCK FALSE
