SPECIFICATION Spec
CONSTANTS
  Seqs = {s1, s2, s3, s4}
  NoTable = none
  MaxBatchSize = 3
  MaxInputLen = 2
  MaxLen = 3
SYMMETRY SeqSymmetry
INVARIANTS RowsOfTheirOwn AlwaysCompact
PROPERTY MergeTakesTheOldest
