SPECIFICATION Spec
CONSTANTS
  Rows = {r1, r2, r3}
  Nobody = nobody
  MaxBatchSize = 2
  BlockSize = 2
  MaxInputLen = 2
  MaxOutputLen = 2
  RatioNum = 6
  RatioDen = 5
  MaxBlocksPerSeq <- MCMaxBlocksPerSeq
  NumBlocks <- MCNumBlocks
PROPERTY EveryRequestFinishes
CHECK_DEADLOCK FALSE
