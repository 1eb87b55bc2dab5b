\* The capture client: a payload lock before the journal, compaction, recovery
\* flushes.  Two writers contend.  Four inodes allow three replacements of the
\* first file, so that a retired one is compacted away, abandoned and replaced.
\* Five appends reach both limits: three records fill the file, and after a
\* compaction the fifth, number 4, is refused because it has no successor.
\* A journal that is closed need not be opened again: no deadlock check.
CONSTANTS
  Writers = {w1, w2}
  Client = "capture"
  Inodes = {i1, i2, i3, i4}
  MaxRecords = 3
  MaxSequence = 4
  MaxStamps = 5
SPECIFICATION Spec
SYMMETRY Symmetry
CHECK_DEADLOCK FALSE
INVARIANTS TypeOK AckedSurvives AlwaysReopens LiveHoldsName OneWriter
