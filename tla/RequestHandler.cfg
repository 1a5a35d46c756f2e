SPECIFICATION Spec
CONSTANTS
  Rows = {r1, r2, r3, r4}
  Nobody = nobody
  MaxBatchSize = 2
  BlockSize = 2
  MaxInputLen = 3
  MaxOutputLen = 2
  RatioNum = 6
  RatioDen = 5
  MaxBlocksPerSeq <- MCMaxBlocksPerSeq
  NumBlocks <- MCNumBlocks
SYMMETRY RowSymmetry
INVARIANTS NothingLost OwnBlocks
PROPERTIES PriorityOfPromptLength IsBatcher KeepsProtocol
CHECK_DEADLOCK FALSE
