\* What recovery promises, for the faults under which it keeps it: everything but
\* a torn NAMESPACE_LINKED record, a failed lookup in finish_published_replay and
\* an unreadable journal.  Nobody substitutes the staging name.  MaxSequence 24
\* is out of reach of two faults and two crashes, as u64::MAX is in practice.
SPECIFICATION FairSpec
CONSTANTS
  MaxSequence = 24
  UsedProfiles = {"Fast", "Balanced", "Strict"}
  Faults = {"write", "data_flush", "read_back", "journal", "link", "lookup", "directory_flush"}
  DirectCalls = FALSE
  MaxFaults = 2
  MaxCrashes = 2
  MaxSwaps = 0
INVARIANTS EvidenceKept RecoveryAvailable
 
CHECK_DEADLOCK FALSE
