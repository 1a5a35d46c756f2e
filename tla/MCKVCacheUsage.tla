--------------------------- MODULE MCKVCacheUsage ---------------------------
(* KVCacheUsage for TLC: a few interchangeable block tables.               *)
EXTENDS KVCacheUsage, TLC

MCMaxBlocksPerSeq == (MaxInputLen + MaxOutputLen + BlockSize - 1) \div BlockSize
MCNumBlocks == MCMaxBlocksPerSeq * MaxBatchSize
RowSymmetry == Permutations(Rows)
=============================================================================
