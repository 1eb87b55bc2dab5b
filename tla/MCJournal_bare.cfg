\* A client that relies on the crate's own claim and compacts.  Two writers and
\* two inodes are the least that can disagree about which file is the journal.
CONSTANTS
  Writers = {w1, w2}
  Client = "bare"
  Inodes = {i1, i2}
  MaxRecords = 2
  MaxSequence = 3
  MaxStamps = 2
SPECIFICATION Spec
SYMMETRY Symmetry
CHECK_DEADLOCK FALSE
INVARIANTS OneWriter
