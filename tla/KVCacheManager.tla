--------------------------- MODULE KVCacheManager ---------------------------
(***************************************************************************)
(* The logical side of the paged KV cache:                                 *)
(*   colossalai/inference/kv_cache/kvcache_manager.py (KVCacheManager)     *)
(*   colossalai/inference/kv_cache/block_cache.py     (CacheBlock)         *)
(*                                                                         *)
(* The manager owns num_blocks cache blocks.  Its callers own block        *)
(* tables, one row of max_blocks_per_sequence columns per sequence; the    *)
(* manager writes block ids into the rows it is given.  A row is named by  *)
(* the sequence it belongs to.  This module has the operations; the        *)
(* modules that extend it say who calls them and when.                     *)
(***************************************************************************)
EXTENDS Integers, FiniteSets, Sequences

CONSTANTS
  Rows,             \* the sequences that may own a block table
  NumBlocks,        \* KVCacheManager.num_blocks
  BlockSize,        \* tokens per block
  MaxBlocksPerSeq   \* columns of a block table

ASSUME KVAssumption ==
  /\ IsFiniteSet(Rows)
  /\ NumBlocks \in Nat \ {0}
  /\ BlockSize \in Nat \ {0}
  /\ MaxBlocksPerSeq \in Nat \ {0}

VARIABLES
  block_states,     \* block -> is it free?  (_block_states)
  available_blocks, \* the counter kept beside it (_available_blocks)
  ref_count,        \* block -> CacheBlock.ref_count
  allocated_size,   \* block -> CacheBlock.allocated_size
  block_table,      \* row -> column -> block, or NoBlock
  raised            \* the exception that left the manager, "none" so far

kvVars == <<block_states, available_blocks, ref_count, allocated_size,
            block_table, raised>>

-----------------------------------------------------------------------------
NoBlock == -1
Blocks  == 0 .. NumBlocks - 1
Cols    == 0 .. MaxBlocksPerSeq - 1
\* What can be raised, by its cause.
Errors  == {"none", "Fragmented", "OutOfTable", "LackingBlocks", "NoSpace",
            "NoReference"}

Free        == {b \in Blocks : block_states[b]}
EmptyTable  == [k \in Cols |-> NoBlock]
BlocksFor(n) == (n + BlockSize - 1) \div BlockSize

\* The cells of the block tables that name a block.
Cells      == {c \in Rows \X Cols : block_table[c[1]][c[2]] # NoBlock}
At(c)      == block_table[c[1]][c[2]]

KVInit ==
  /\ block_states = [b \in Blocks |-> TRUE]
  /\ available_blocks = NumBlocks
  /\ ref_count = [b \in Blocks |-> 0]
  /\ allocated_size = [b \in Blocks |-> 0]
  /\ block_table = [r \in Rows |-> EmptyTable]
  /\ raised = "none"

-----------------------------------------------------------------------------
(***************************************************************************)
(* A batch is a sequence rs of distinct rows, in batch order.  The cells   *)
(* of a batch are filled row after row, and column after column in a row.  *)
(***************************************************************************)
BatchRows(rs) == {rs[i] : i \in DOMAIN rs}
Batches == {rs \in UNION {[1 .. n -> Rows] : n \in 1 .. Cardinality(Rows)} :
              \A i, j \in DOMAIN rs : rs[i] = rs[j] => i = j}
Pos(rs, r) == CHOOSE i \in DOMAIN rs : rs[i] = r

Before(rs, c, d) == \/ Pos(rs, c[1]) < Pos(rs, d[1])
                    \/ c[1] = d[1] /\ c[2] < d[2]
Rank(rs, c, S)   == Cardinality({d \in S : Before(rs, d, c)})

\* The k-th smallest element of a set of integers, counting from 0.
Ith(S, k) == CHOOSE b \in S : Cardinality({d \in S : d < b}) = k

-----------------------------------------------------------------------------
(* Give each cell c of S the block f[c]: add_ref, _block_states[..] = 0.   *)
Place(S, f) ==
  LET img == {f[c] : c \in S} IN
  /\ block_table' = [r \in Rows |-> [k \in Cols |->
                       IF <<r, k>> \in S THEN f[<<r, k>>] ELSE block_table[r][k]]]
  /\ block_states' = [b \in Blocks |-> block_states[b] /\ b \notin img]
  /\ available_blocks' = available_blocks - Cardinality(S)
  /\ ref_count' = [b \in Blocks |-> ref_count[b] + IF b \in img THEN 1 ELSE 0]

(* _allocate_on_block for the block under every cell of S, asked[c] tokens *)
(* each: it asserts that there is space and takes at most what there is.   *)
Occupy(S, asked) ==
  LET on(b) == {c \in S : block_table'[c[1]][c[2]] = b}
      room(b) == BlockSize - allocated_size[b]
      take(b) == LET n == asked[CHOOSE c \in on(b) : TRUE]
                 IN IF n <= room(b) THEN n ELSE room(b)
  IN /\ allocated_size' = [b \in Blocks |->
                             allocated_size[b] + IF on(b) = {} THEN 0 ELSE take(b)]
     /\ raised' = IF \E b \in Blocks : on(b) # {} /\ room(b) = 0
                  THEN "NoSpace" ELSE raised

Fail(error) ==
  /\ raised' = error
  /\ UNCHANGED <<block_states, available_blocks, ref_count, allocated_size,
                 block_table>>

-----------------------------------------------------------------------------
\* Mutant: the last, partly filled block of a prompt is forgotten.
CellsOfFullBlocks(rs, ctx) ==
  {c \in BatchRows(rs) \X Cols : c[2] < ctx[c[1]] \div BlockSize}

(* The cells a prompt of ctx[r] tokens needs, and the tokens in each: the  *)
(* last block takes the remainder, or a full block when there is none.     *)
ContextCells(rs, ctx) ==
  {c \in BatchRows(rs) \X Cols : c[2] < BlocksFor(ctx[c[1]])}
ContextAsked(S, ctx) ==
  [c \in S |-> IF c[2] = BlocksFor(ctx[c[1]]) - 1 /\ ctx[c[1]] % BlockSize # 0
               THEN ctx[c[1]] % BlockSize ELSE BlockSize]

\* Mutant: the last block of a window need not be free.
ShortRuns(n) == {s \in Blocks : /\ s + n <= NumBlocks
                                /\ \A b \in s .. s + n - 2 : block_states[b]}

\* First blocks of the windows of n free blocks (the scan by _block_finder).
FreeRuns(n) == {s \in Blocks : /\ s + n <= NumBlocks
                               /\ \A b \in s .. s + n - 1 : block_states[b]}

(* allocate_context_from_block_tables: all the blocks of the batch from    *)
(* the lowest free window.  Without such a window the code indexes the     *)
(* 1-D tensor of free ids with a pair, alloc_block_ids[start, end], which  *)
(* raises before anything has changed.                                     *)
AllocateContextTables(rs, ctx) ==
  LET S == ContextCells(rs, ctx)
      n == Cardinality(S)
  IN \/ n > available_blocks /\ UNCHANGED kvVars
     \/ n <= available_blocks /\ FreeRuns(n) = {} /\ Fail("Fragmented")
     \/ /\ n <= available_blocks
        /\ \E s \in FreeRuns(n) :
             /\ \A t \in FreeRuns(n) : s <= t
             /\ Place(S, [c \in S |-> s + Rank(rs, c, S)])
        /\ Occupy(S, ContextAsked(S, ctx))

-----------------------------------------------------------------------------
(* allocate_tokens_from_block_tables: the cell of position lens[r] in each *)
(* row; the rows that have no block there take the lowest free blocks.     *)
(* When blocks are lacking, the code slices a 0-dimensional tensor (one    *)
(* row) or, having freed the last of those rows, assigns the grown number  *)
(* of free blocks to fewer rows: it always raises, and what it leaves      *)
(* half done is not modelled.                                              *)
TokenCol(n) == n \div BlockSize
TokenCells(rs, lens) == {c \in BatchRows(rs) \X Cols : c[2] = TokenCol(lens[c[1]])}

AllocateTokens(rs, lens) ==
  LET S == TokenCells(rs, lens)
      need == {c \in S : At(c) = NoBlock}
  IN \/ /\ \E r \in BatchRows(rs) : TokenCol(lens[r]) \notin Cols
        /\ Fail("OutOfTable")
     \/ /\ \A r \in BatchRows(rs) : TokenCol(lens[r]) \in Cols
        /\ Cardinality(need) > available_blocks
        /\ Fail("LackingBlocks")
     \/ /\ \A r \in BatchRows(rs) : TokenCol(lens[r]) \in Cols
        /\ Cardinality(need) <= available_blocks
        /\ Place(need, [c \in need |-> Ith(Free, Rank(rs, c, need))])
        /\ Occupy(S, [c \in S |-> 1])

-----------------------------------------------------------------------------
(* The cells free_block_table visits: each row up to its first hole.       *)
\* Mutant: only the first block of a row.
WalkedOnce(R) == {c \in R \X Cols : c[2] = 0 /\ block_table[c[1]][0] # NoBlock}

Walked(R) == {c \in R \X Cols : \A k \in 0 .. c[2] : block_table[c[1]][k] # NoBlock}

(* Blocks without references become free and empty.                        *)
\* Mutant: the counter of available blocks is not raised.
ReclaimUncounted(freed) ==
  /\ block_states' = [b \in Blocks |-> block_states[b] \/ b \in freed]
  /\ allocated_size' = [b \in Blocks |-> IF b \in freed THEN 0 ELSE allocated_size[b]]
  /\ UNCHANGED available_blocks

\* Mutant: CacheBlock.clear is not called.
ReclaimDirty(freed) ==
  /\ block_states' = [b \in Blocks |-> block_states[b] \/ b \in freed]
  /\ available_blocks' = available_blocks + Cardinality(freed)
  /\ UNCHANGED allocated_size

Reclaim(freed) ==
  /\ block_states' = [b \in Blocks |-> block_states[b] \/ b \in freed]
  /\ available_blocks' = available_blocks + Cardinality(freed)
  /\ allocated_size' = [b \in Blocks |-> IF b \in freed THEN 0 ELSE allocated_size[b]]

(* free_block_table(s): drop one reference per block visited, and free the *)
(* blocks (and cells) left without one.                                    *)
FreeTables(R) ==
  LET walked == Walked(R)
      drop(b) == Cardinality({c \in walked : At(c) = b})
      freed == {b \in Blocks : drop(b) > 0 /\ ref_count[b] = drop(b)}
  IN IF \E b \in Blocks : drop(b) > ref_count[b]
     THEN Fail("NoReference")
     ELSE /\ block_table' = [r \in Rows |-> [k \in Cols |->
               IF <<r, k>> \in walked /\ block_table[r][k] \in freed
               THEN NoBlock ELSE block_table[r][k]]]
          /\ Reclaim(freed)
          /\ ref_count' = [b \in Blocks |-> ref_count[b] - drop(b)]
          /\ UNCHANGED raised

(* clear_all: every block is free again; callers drop their tables.        *)
ClearAll ==
  /\ block_states' = [b \in Blocks |-> TRUE]
  /\ available_blocks' = NumBlocks
  /\ ref_count' = [b \in Blocks |-> 0]
  /\ allocated_size' = [b \in Blocks |-> 0]
  /\ block_table' = [r \in Rows |-> EmptyTable]
  /\ UNCHANGED raised

-----------------------------------------------------------------------------
(* Invariants of the manager, whoever calls it.                            *)

\* Types of the variables of KVCacheManager and CacheBlock.
KVTypeOK ==
  /\ block_states \in [Blocks -> BOOLEAN]
  /\ available_blocks \in Nat
  /\ ref_count \in [Blocks -> Nat]
  /\ allocated_size \in [Blocks -> 0 .. BlockSize]
  /\ block_table \in [Rows -> [Cols -> Blocks \cup {NoBlock}]]
  /\ raised \in Errors

\* No block is in two cells, so no two sequences write to the same memory
\* (the block tables filled by the allocate_* methods).
NoSharing == \A c, d \in Cells : At(c) = At(d) => c = d

\* The three records of what is free agree with each other and with the
\* block tables: _available_blocks, _block_states and CacheBlock.ref_count.
Accounting ==
  /\ available_blocks = Cardinality(Free)
  /\ \A b \in Blocks :
       /\ block_states[b] <=> \A c \in Cells : At(c) # b
       /\ ref_count[b] = IF block_states[b] THEN 0 ELSE 1

\* A free block holds no tokens: allocate_context relies on finding it empty.
FreeIsEmpty == \A b \in Free : allocated_size[b] = 0

\* A row has no hole: free_block_table stops at the first one and would
\* leak the blocks behind it.
NoHole == \A c \in Cells : \A k \in 0 .. c[2] : block_table[c[1]][k] # NoBlock
=============================================================================
