---------------------------- MODULE MCBatchBucket ----------------------------
(* BatchBucket for TLC: interchangeable sequences.                         *)
EXTENDS BatchBucket, TLC

SeqSymmetry == Permutations(Seqs)
=============================================================================
