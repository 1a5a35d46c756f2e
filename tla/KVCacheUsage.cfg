SPECIFICATION Spec
CONSTANTS
  Rows = {r1, r2, r3, r4}
  Nobody = nobody
  BlockSize = 2
  MaxBatchSize = 3
  MaxInputLen = 3
  MaxOutputLen = 1
  MaxBlocksPerSeq <- MCMaxBlocksPerSeq
  NumBlocks <- MCNumBlocks
SYMMETRY RowSymmetry
INVARIANTS NoSharing Accounting Backed OnlyFragmentation
PROPERTY ImplementsPool
CHECK_DEADLOCK FALSE
