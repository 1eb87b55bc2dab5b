\* The commit provider: no payload lock, no compaction.  Two inodes: the journal
\* is removed and created once more.  Three records fill the file and four
\* appends are tried; the sequence limit is out of reach without compaction.
CONSTANTS
  Writers = {w1, w2}
  Client = "commit"
  Inodes = {i1, i2}
  MaxRecords = 3
  MaxSequence = 4
  MaxStamps = 4
SPECIFICATION Spec
SYMMETRY Symmetry
CHECK_DEADLOCK FALSE
INVARIANTS AckedSurvives AckedUnique 
