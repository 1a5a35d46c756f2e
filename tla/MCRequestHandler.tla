-------------------------- MODULE MCRequestHandler --------------------------
(* RequestHandler for TLC: a few interchangeable requests.                 *)
EXTENDS RequestHandler, TLC

MCMaxBlocksPerSeq == (MaxInputLen + MaxOutputLen + BlockSize - 1) \div BlockSize
MCNumBlocks == MCMaxBlocksPerSeq * MaxBatchSize
RowSymmetry == Permutations(Rows)
=============================================================================
