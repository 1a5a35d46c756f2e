---------------------------- MODULE KVCacheUsage ----------------------------
(***************************************************************************)
(* The manager of KVCacheManager under the protocol its docstring gives    *)
(* ("Usage" of allocate_tokens_from_block_tables): a batch is prefilled,   *)
(* then, as often as wanted, the lengths of the running rows grow by one   *)
(* and the next position is allocated; a finished row is freed.  At most   *)
(* MaxBatchSize sequences have blocks at a time, and the manager has as    *)
(* many blocks as that many block tables have cells.                       *)
(***************************************************************************)
EXTENDS KVCacheManager

CONSTANTS
  MaxBatchSize,  \* most sequences that have blocks
  MaxInputLen,   \* longest prompt
  MaxOutputLen   \* most tokens generated for a prompt

ASSUME UsageAssumption ==
  /\ MaxBatchSize \in Nat \ {0}
  /\ MaxInputLen \in Nat \ {0}
  /\ MaxOutputLen \in Nat \ {0}
  /\ MaxBlocksPerSeq = BlocksFor(MaxInputLen + MaxOutputLen)
  /\ NumBlocks = MaxBlocksPerSeq * MaxBatchSize

VARIABLE len   \* row -> tokens of its sequence, 0 when the row is unused

vars == <<block_states, available_blocks, ref_count, allocated_size,
          block_table, raised, len>>

Active == {r \in Rows : len[r] > 0}

Init == KVInit /\ len = [r \in Rows |-> 0]

\* A batch of unused rows gets its prompts and their blocks.
Prefill(rs) ==
  /\ raised = "none"
  /\ BatchRows(rs) \cap Active = {}
  /\ Cardinality(Active \cup BatchRows(rs)) <= MaxBatchSize
  /\ \E ctx \in [BatchRows(rs) -> 1 .. MaxInputLen] :
       /\ AllocateContextTables(rs, ctx)
       /\ len' = [r \in Rows |-> IF r \in BatchRows(rs) /\ raised' = "none"
                                 THEN ctx[r] ELSE len[r]]

\* Each running row gains a token and the block of the position after it.
\* A sequence of full length is finished instead.
Decode(rs) ==
  /\ raised = "none"
  /\ BatchRows(rs) \subseteq Active
  /\ \A r \in BatchRows(rs) : len[r] + 1 < MaxInputLen + MaxOutputLen
  /\ len' = [r \in Rows |-> IF r \in BatchRows(rs) THEN len[r] + 1 ELSE len[r]]
  /\ AllocateTokens(rs, len')

\* Finished sequences give their blocks back.
Finish(R) ==
  /\ raised = "none"
  /\ R # {} /\ R \subseteq Active
  /\ FreeTables(R)
  /\ len' = [r \in Rows |-> IF r \in R THEN 0 ELSE len[r]]

Clear ==
  /\ raised = "none"
  /\ ClearAll
  /\ len' = [r \in Rows |-> 0]

Next == \/ \E rs \in Batches : Prefill(rs) \/ Decode(rs)
        \/ \E R \in SUBSET Rows : Finish(R)
        \/ Clear

Spec == Init /\ [][Next]_vars

-----------------------------------------------------------------------------
\* Types of the manager's variables and of the lengths.
TypeOK == KVTypeOK /\ len \in [Rows -> 0 .. MaxInputLen + MaxOutputLen]

\* Every token of a running sequence has a block, and an unused row has
\* none: the allocations of allocate_context_from_block_tables and
\* allocate_tokens_from_block_tables neither lag behind the lengths nor leak,
\* nor does the first return without blocks ("Lacking blocks to allocate").
Backed == \A r \in Rows : \A k \in Cols :
            /\ k < BlocksFor(len[r]) => block_table[r][k] # NoBlock
            /\ k > TokenCol(len[r]) \/ len[r] = 0 => block_table[r][k] = NoBlock

\* A block is never filled ahead of the positions it was allocated for, so
\* the assertion of _allocate_on_block has space to find.
Filled == \A c \in Cells :
            allocated_size[At(c)] + BlockSize * c[2] <= len[c[1]] + 1

\* The tables have room for every block the protocol asks for, blocks are
\* never lacking (allocate_tokens_from_block_tables never recycles), and no
\* assertion of CacheBlock fails: only fragmentation stops the manager.
OnlyFragmentation == raised \in {"none", "Fragmented"}

\* The pool of blocks the manager implements: the owner of a block is the row
\* that has it in its table.
CONSTANT Nobody
ASSUME NobodyAssumption == Nobody \notin Rows
Owner(b) == IF \E c \in Cells : At(c) = b
            THEN (CHOOSE c \in Cells : At(c) = b)[1] ELSE Nobody
Pool == INSTANCE BlockPool WITH Owners <- Rows,
                                owner <- [b \in Blocks |-> Owner(b)]

\* The allocate_* and free_* methods together implement the pool: blocks go
\* from nobody to a sequence and, all those of a sequence at once, back.
ImplementsPool == Pool!Spec
=============================================================================
