\* Every profile and every kind of fault.  Three faults and two crashes: a failed
\* step, a failed retry of it and a failed recovery, in two further processes.
\* One substitution of the staging name.  MaxSequence 16 is reached by retries,
\* so the machine's refusal of a further number is explored.
\* A commit may be finished or abandoned for good: no deadlock check.
SPECIFICATION Spec
CONSTANTS
  MaxSequence = 16
  UsedProfiles = {"Fast", "Balanced", "Strict"}
  Faults = {"write", "data_flush", "read_back", "journal", "torn_linked", "link", "lookup", "replay_lookup", "directory_flush", "corrupt"}
  DirectCalls = FALSE
  MaxFaults = 3
  MaxCrashes = 2
  MaxSwaps = 1
INVARIANTS TypeOK ReceiptIsDurable NeverUnreachable PublishedRecordIsTrue
PROPERTY KeepsPromise
CHECK_DEADLOCK FALSE
