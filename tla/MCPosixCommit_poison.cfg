\* One write failure, no crash: the receiver is abandoned and resumed.
SPECIFICATION FairSpec
CONSTANTS
  MaxSequence = 24
  UsedProfiles = {"Balanced"}
  Faults = {"write"}
  DirectCalls = FALSE
  MaxFaults = 1
  MaxCrashes = 0
  MaxSwaps = 0
PROPERTY PoisonedNeverPublished
CHECK_DEADLOCK FALSE
