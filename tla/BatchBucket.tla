----------------------------- MODULE BatchBucket -----------------------------
(***************************************************************************)
(* The bookkeeping of a batch of sequences:                                *)
(*   colossalai/inference/batch_bucket.py (BatchBucket),                   *)
(* for the two buckets of the request handler.  A bucket keeps one fact    *)
(* four times: a dictionary in order of arrival, an index from sequence to *)
(* row, and two tensors by row.  Rows are filled from 0 and closed up when *)
(* one leaves, so row order and order of arrival part company.             *)
(*                                                                         *)
(* A block table is represented by the sequence it was allocated for.      *)
(***************************************************************************)
EXTENDS Integers, Sequences, FiniteSets

CONSTANTS
  Seqs,          \* the sequences
  MaxBatchSize,  \* rows of a bucket
  MaxInputLen,   \* bound of the prompts
  MaxLen,        \* bound of prompt and output together
  NoTable        \* a row of -1

ASSUME BucketAssumption ==
  /\ MaxBatchSize \in Nat \ {0}
  /\ MaxInputLen \in Nat \ {0}
  /\ MaxLen \in Nat
  /\ NoTable \notin Seqs

VARIABLES
  bb,           \* the buckets, "prefill" and "running"
  sentence_len, \* sequence -> tokens of its prompt and output
  input_len     \* sequence -> tokens of its prompt

vars == <<bb, sentence_len, input_len>>

Buckets == {"prefill", "running"}
Rows    == 0 .. MaxBatchSize - 1
Members(B) == {B.dict[i] : i \in DOMAIN B.dict}
Least(m, n) == IF m <= n THEN m ELSE n

EmptyBucket ==
  [dict    |-> <<>>,
   index   |-> [s \in Seqs |-> -1],
   lengths |-> [r \in Rows |-> 0],
   tables  |-> [r \in Rows |-> NoTable],
   size    |-> 0]

Available(B) == MaxBatchSize - B.size

\* is_compact compares three counts.
IsCompact(B) ==
  /\ Cardinality({r \in Rows : B.lengths[r] # 0}) = Len(B.dict)
  /\ Cardinality({r \in Rows : B.tables[r] # NoTable}) = Len(B.dict)

-----------------------------------------------------------------------------
(* add_seqs: the first of the sequences, as many as there are rows left;   *)
(* tabs are the block tables they bring or are allocated.                  *)
Added(B, ss, tabs) ==
  LET k == Least(Available(B), Len(ss))
      new(r) == r \in B.size .. B.size + k - 1
      at(r) == r - B.size + 1
  IN [dict    |-> B.dict \o SubSeq(ss, 1, k),
      index   |-> [s \in Seqs |->
                     IF \E i \in 1 .. k : ss[i] = s
                     THEN B.size + (CHOOSE i \in 1 .. k : ss[i] = s) - 1
                     ELSE B.index[s]],
      lengths |-> [r \in Rows |-> IF new(r) THEN sentence_len[ss[at(r)]] ELSE B.lengths[r]],
      tables  |-> [r \in Rows |-> IF new(r) THEN tabs[at(r)] ELSE B.tables[r]],
      size    |-> B.size + k]

-----------------------------------------------------------------------------
(* pop_seq_update_batch: the last row takes the place of the popped one.   *)
Others(dict, s) ==
  LET i == CHOOSE i \in DOMAIN dict : dict[i] = s
  IN [k \in 1 .. Len(dict) - 1 |-> dict[IF k < i THEN k ELSE k + 1]]

\* Mutant: the last row is copied and not cleared.
PoppedUncleared(B, s) ==
  LET j == B.index[s]
      last == B.size - 1
  IN [dict    |-> Others(B.dict, s),
      index   |-> [q \in Seqs |-> IF q = s THEN -1
                                  ELSE IF B.index[q] = last THEN j ELSE B.index[q]],
      lengths |-> [B.lengths EXCEPT ![j] = B.lengths[last]],
      tables  |-> [B.tables EXCEPT ![j] = B.tables[last]],
      size    |-> last]

Popped(B, s) ==
  LET j == B.index[s]
      last == B.size - 1
  IN [dict    |-> Others(B.dict, s),
      index   |-> [q \in Seqs |-> IF q = s THEN -1
                                  ELSE IF B.index[q] = last THEN j ELSE B.index[q]],
      lengths |-> [B.lengths EXCEPT ![j] = B.lengths[last], ![last] = 0],
      tables  |-> [B.tables EXCEPT ![j] = B.tables[last], ![last] = NoTable],
      size    |-> last]

-----------------------------------------------------------------------------
(* _make_compact: the rows in the order of the dictionary.                 *)
Compacted(B) ==
  LET n == Len(B.dict)
      row(s) == (CHOOSE i \in 1 .. n : B.dict[i] = s) - 1
  IN [dict    |-> B.dict,
      index   |-> [s \in Seqs |-> IF s \in Members(B) THEN row(s) ELSE -1],
      lengths |-> [r \in Rows |-> IF r < n THEN B.lengths[B.index[B.dict[r + 1]]] ELSE 0],
      tables  |-> [r \in Rows |-> IF r < n THEN B.tables[B.index[B.dict[r + 1]]] ELSE NoTable],
      size    |-> n]

\* Mutant: the tables of the first rows are returned.
FirstTables(B, n) == [i \in 1 .. n |-> B.tables[i - 1]]

\* The block tables that pop_n_seqs returns, in order of arrival.
PoppedTables(B, n) == [i \in 1 .. n |-> B.tables[B.index[B.dict[i]]]]

\* Mutant: the youngest sequences are popped.
PoppedYoungest(B, n) ==
  [B EXCEPT !.dict = SubSeq(B.dict, 1, Len(B.dict) - n)]

\* pop_n_seqs before it compacts: the n oldest leave the dictionary.
PoppedOldest(B, n) ==
  [B EXCEPT !.dict = SubSeq(B.dict, n + 1, Len(B.dict)),
            !.index = [s \in Seqs |-> IF \E i \in 1 .. n : B.dict[i] = s THEN -1
                                      ELSE B.index[s]]]

\* pop_n_seqs, what it leaves behind.
PoppedN(B, n) ==
  LET rest == PoppedOldest(B, n)
  IN IF IsCompact(rest) THEN rest ELSE Compacted(rest)

-----------------------------------------------------------------------------
Init ==
  /\ bb = [b \in Buckets |-> EmptyBucket]
  /\ input_len \in [Seqs -> 1 .. MaxInputLen]
  /\ sentence_len = input_len

Placed == Members(bb["prefill"]) \cup Members(bb["running"])

\* add_seqs of sequences that are in no bucket, with an allocation function.
AddSeqs(b) ==
  \E n \in 1 .. MaxBatchSize + 1 : \E ss \in [1 .. n -> Seqs \ Placed] :
    /\ \A i, j \in 1 .. n : ss[i] = ss[j] => i = j
    /\ bb' = [bb EXCEPT ![b] = Added(@, ss, ss)]
    /\ UNCHANGED <<sentence_len, input_len>>

\* pop_seq_update_batch, and so, one after the other, pop_seqs and pop_finished.
PopSeqUpdateBatch(b, s) ==
  /\ s \in Members(bb[b])
  /\ bb' = [bb EXCEPT ![b] = Popped(@, s)]
  /\ UNCHANGED <<sentence_len, input_len>>

PopNSeqs(b, n) ==
  /\ n \in 1 .. bb[b].size
  /\ bb' = [bb EXCEPT ![b] = PoppedN(@, n)]
  /\ UNCHANGED <<sentence_len, input_len>>

\* merge of the prefill bucket into the running one, as far as there is room.
Merge ==
  LET self == bb["running"]
      other == bb["prefill"]
      k == Least(Available(self), other.size)
  IN /\ k > 0
     /\ bb' = [bb EXCEPT
                 !["prefill"] = PoppedN(other, k),
                 !["running"] = Added(self, SubSeq(other.dict, 1, k), PoppedTables(other, k))]
     /\ UNCHANGED <<sentence_len, input_len>>

\* append_batch_tokens: a token for every sequence.
AppendBatchTokens(b) ==
  /\ bb[b].size > 0
  /\ \A s \in Members(bb[b]) : sentence_len[s] < MaxLen
  /\ sentence_len' = [s \in Seqs |->
                        sentence_len[s] + IF s \in Members(bb[b]) THEN 1 ELSE 0]
  /\ bb' = [bb EXCEPT ![b].lengths =
              [r \in Rows |-> bb[b].lengths[r] + IF r < bb[b].size THEN 1 ELSE 0]]
  /\ UNCHANGED input_len

\* The row whose length revoke_batch_tokens takes back.
RowOfOldest(B) == B.index[B.dict[1]]

\* revoke_batch_tokens, of the oldest sequence (speculative decoding).
RevokeBatchTokens(b, n) ==
  /\ bb[b].size > 0
  /\ LET s == bb[b].dict[1] IN
       /\ sentence_len[s] - input_len[s] >= n
       /\ sentence_len' = [sentence_len EXCEPT ![s] = @ - n]
       /\ bb' = [bb EXCEPT ![b].lengths[RowOfOldest(bb[b])] = @ - n]
  /\ UNCHANGED input_len

Clear(b) ==
  /\ bb' = [bb EXCEPT ![b] = EmptyBucket]
  /\ UNCHANGED <<sentence_len, input_len>>

Next ==
  \/ \E b \in Buckets :
       \/ AddSeqs(b) \/ AppendBatchTokens(b) \/ Clear(b)
       \/ \E s \in Seqs : PopSeqUpdateBatch(b, s)
       \/ \E n \in 1 .. MaxBatchSize : PopNSeqs(b, n)
       \/ \E n \in 1 .. MaxLen : RevokeBatchTokens(b, n)
  \/ Merge

Spec == Init /\ [][Next]_vars

-----------------------------------------------------------------------------
BucketSet ==
  [dict : Seq(Seqs), index : [Seqs -> {-1} \cup Rows], lengths : [Rows -> Nat],
   tables : [Rows -> Seqs \cup {NoTable}], size : 0 .. MaxBatchSize]

\* Types of the buckets and of the sequences' lengths.
TypeOK ==
  /\ bb \in [Buckets -> BucketSet]
  /\ input_len \in [Seqs -> Nat \ {0}]
  /\ sentence_len \in [Seqs -> Nat \ {0}]

IndexedBucket(B) ==
  /\ B.size = Len(B.dict)
  /\ \A i, j \in DOMAIN B.dict : B.dict[i] = B.dict[j] => i = j
  /\ \A s \in Members(B) : B.index[s] \in 0 .. B.size - 1
  /\ \A r \in 0 .. B.size - 1 : \E s \in Members(B) : B.index[s] = r
  /\ \A s, q \in Members(B) : B.index[s] = B.index[q] => s = q
  /\ \A s \in Seqs \ Members(B) : B.index[s] = -1
  /\ \A r \in B.size .. MaxBatchSize - 1 : B.lengths[r] = 0 /\ B.tables[r] = NoTable

\* The rows of a bucket are those of its members, one each, up to size; the
\* rows after them are clean, for the next sequence to find.
Indexed == \A b \in Buckets : IndexedBucket(bb[b])

OwnRows(B) ==
  \A s \in Members(B) : /\ B.lengths[B.index[s]] = sentence_len[s]
                        /\ B.tables[B.index[s]] = s

\* Through every pop, merge and compaction a row has the length and the block
\* table of its own sequence: otherwise one sequence reads another's cache.
RowsOfTheirOwn == \A b \in Buckets : OwnRows(bb[b])

\* get_1D_inputs and get_block_table_tensor assert that the bucket is compact.
AlwaysCompact == \A b \in Buckets : IsCompact(bb[b])

\* merge is first in, first out: what is left behind came after what moved.
MergeTakesTheOldest ==
  [][\A s \in Members(bb["prefill"]) \cap Members(bb'["running"]) :
       \A q \in Members(bb'["prefill"]) :
         \E i, j \in DOMAIN bb["prefill"].dict :
           i < j /\ bb["prefill"].dict[i] = s /\ bb["prefill"].dict[j] = q]_vars
=============================================================================
