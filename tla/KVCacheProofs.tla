--------------------------- MODULE KVCacheProofs ----------------------------
EXTENDS KVCacheUsage, FiniteSetTheorems, TLAPS

-----------------------------------------------------------------------------
(* Counting: ranks and k-th smallest elements.                             *)

\* Dropping an element leaves a smaller set: the step behind every "the
\* rank grows with the element" below.
LEMMA StrictlyFewer ==
  ASSUME NEW A, NEW B, IsFiniteSet(B), A \subseteq B, NEW x \in B, x \notin A
  PROVE  /\ IsFiniteSet(A)
         /\ Cardinality(A) \in Nat /\ Cardinality(B) \in Nat
         /\ Cardinality(A) < Cardinality(B)
  <1>1. IsFiniteSet(A) /\ Cardinality(A) <= Cardinality(B)
        /\ (Cardinality(B) = Cardinality(A) => B = A)
    BY FS_Subset
  <1>2. Cardinality(A) \in Nat /\ Cardinality(B) \in Nat
    BY <1>1, FS_CardinalityType
  <1> QED BY <1>1, <1>2

\* An injective numbering of a finite set by the numbers below its
\* cardinality uses all of them.
LEMMA OntoInterval ==
  ASSUME NEW T, IsFiniteSet(T), NEW f \in [T -> 0 .. Cardinality(T) - 1],
         \A a, b \in T : f[a] = f[b] => a = b
  PROVE  \A k \in 0 .. Cardinality(T) - 1 : \E b \in T : f[b] = k
  <1> DEFINE N == 0 .. Cardinality(T) - 1
  <1>1. Cardinality(T) \in Nat
    BY FS_CardinalityType
  <1>2. IsFiniteSet(N) /\ Cardinality(N) = Cardinality(T)
    <2>1. 0 \in Int /\ Cardinality(T) - 1 \in Int
      BY <1>1
    <2>2. IsFiniteSet(0 .. Cardinality(T) - 1)
          /\ Cardinality(0 .. Cardinality(T) - 1) =
               IF 0 > Cardinality(T) - 1 THEN 0 ELSE (Cardinality(T) - 1) - 0 + 1
      BY <2>1, FS_Interval
    <2> QED BY <1>1, <2>2
  <1> HIDE DEF N
  <1>3. f \in Injection(T, N)
    BY DEF Injection, IsInjective, N
  <1>4. f \in Surjection(T, N)
    BY <1>2, <1>3, FS_Injection
  <1> QED BY <1>4 DEF Surjection, N

\* The k-th smallest element of a finite set of integers exists.
LEMMA IthExists ==
  ASSUME NEW T \in SUBSET Int, IsFiniteSet(T), NEW k \in 0 .. Cardinality(T) - 1
  PROVE  Ith(T, k) \in T /\ Cardinality({d \in T : d < Ith(T, k)}) = k
  <1> DEFINE n == Cardinality(T)
             low(b) == {d \in T : d < b}
             f == [b \in T |-> Cardinality(low(b))]
  <1>1. n \in Nat
    BY FS_CardinalityType
  <1>2. ASSUME NEW b \in T PROVE f[b] \in 0 .. n - 1
    <2>1. low(b) \subseteq T /\ b \notin low(b)
      OBVIOUS
    <2>2. Cardinality(low(b)) \in Nat /\ Cardinality(low(b)) < n
      BY <2>1, StrictlyFewer
    <2> QED BY <2>2, <1>1
  <1>3. ASSUME NEW a \in T, NEW b \in T, a < b PROVE f[a] < f[b]
    <2>1. low(a) \subseteq low(b)
      <3>1. SUFFICES ASSUME NEW d \in T, d < a PROVE d < b
        OBVIOUS
      <3> QED BY <3>1, <1>3
    <2>2. a \in low(b) /\ a \notin low(a)
      BY <1>3
    <2>3. IsFiniteSet(low(b))
      BY FS_Subset
    <2>4. Cardinality(low(a)) < Cardinality(low(b))
      BY <2>1, <2>2, <2>3, StrictlyFewer
    <2> QED BY <2>4
  <1>4. ASSUME NEW a \in T, NEW b \in T, f[a] = f[b] PROVE a = b
    <2>1. f[a] \in Int /\ f[b] \in Int
      BY <1>2
    <2>2. ~ (a < b) /\ ~ (b < a)
      BY <1>3, <1>4, <2>1
    <2> QED BY <2>2
  <1>5. f \in [T -> 0 .. n - 1]
    BY <1>2
  <1>6. \E b \in T : f[b] = k
    <2> HIDE DEF f
    <2> QED BY <1>4, <1>5, OntoInterval
  <1>7. \E b \in T : Cardinality({d \in T : d < b}) = k
    BY <1>6
  <1> QED BY <1>7 DEF Ith

\* Different ranks name different elements.
LEMMA IthInjective ==
  ASSUME NEW T \in SUBSET Int, IsFiniteSet(T),
         NEW j \in 0 .. Cardinality(T) - 1, NEW k \in 0 .. Cardinality(T) - 1,
         Ith(T, j) = Ith(T, k)
  PROVE  j = k
  <1>1. Cardinality({d \in T : d < Ith(T, j)}) = j
    BY IthExists
  <1>2. Cardinality({d \in T : d < Ith(T, k)}) = k
    BY IthExists
  <1> QED BY <1>1, <1>2

\* Pos is the place of a row in its batch.
LEMMA PosFacts ==
  ASSUME NEW rs \in Batches, NEW r \in BatchRows(rs)
  PROVE  Pos(rs, r) \in DOMAIN rs /\ rs[Pos(rs, r)] = r /\ Pos(rs, r) \in Nat
  <1>1. \E i \in DOMAIN rs : rs[i] = r
    BY DEF BatchRows
  <1>2. Pos(rs, r) \in DOMAIN rs /\ rs[Pos(rs, r)] = r
    BY <1>1 DEF Pos
  <1>3. DOMAIN rs \subseteq Nat
    BY DEF Batches
  <1> QED BY <1>2, <1>3

\* The rows of a batch are rows.
LEMMA BatchFacts ==
  ASSUME NEW rs \in Batches PROVE BatchRows(rs) \subseteq Rows
  <1>1. PICK n \in 1 .. Cardinality(Rows) : rs \in [1 .. n -> Rows]
    BY DEF Batches
  <1> QED BY <1>1 DEF BatchRows

\* Before is a strict total order on the cells of a batch.
LEMMA BeforeOrder ==
  ASSUME NEW rs \in Batches, NEW S \in SUBSET (BatchRows(rs) \X Cols)
  PROVE  /\ \A c \in S : ~ Before(rs, c, c)
         /\ \A c, d, e \in S : Before(rs, c, d) /\ Before(rs, d, e) => Before(rs, c, e)
         /\ \A c, d \in S : c = d \/ Before(rs, c, d) \/ Before(rs, d, c)
  <1>1. \A c \in S : /\ c = <<c[1], c[2]>>
                     /\ c[2] \in Int
                     /\ Pos(rs, c[1]) \in Int
                     /\ rs[Pos(rs, c[1])] = c[1]
    BY PosFacts DEF Cols
  <1>2. \A c, d \in S : Pos(rs, c[1]) = Pos(rs, d[1]) => c[1] = d[1]
    BY <1>1
  <1>3. \A c \in S : ~ Before(rs, c, c)
    BY <1>1 DEF Before
  <1>4. \A c, d, e \in S : Before(rs, c, d) /\ Before(rs, d, e) => Before(rs, c, e)
    BY <1>1, <1>2 DEF Before
  <1>5. \A c, d \in S : c = d \/ Before(rs, c, d) \/ Before(rs, d, c)
    <2>1. SUFFICES ASSUME NEW c \in S, NEW d \in S, c # d
                   PROVE  Before(rs, c, d) \/ Before(rs, d, c)
      OBVIOUS
    <2>2. CASE c[1] = d[1]
      <3>1. c[2] # d[2]
        BY <1>1, <2>1, <2>2
      <3> QED BY <1>1, <2>2, <3>1 DEF Before
    <2>3. CASE c[1] # d[1]
      BY <1>1, <1>2, <2>3 DEF Before
    <2> QED BY <2>2, <2>3
  <1> QED BY <1>3, <1>4, <1>5

\* The cells of a batch are numbered 0, 1, ... by their rank, each number once.
LEMMA RankNumbers ==
  ASSUME NEW rs \in Batches, NEW S \in SUBSET (BatchRows(rs) \X Cols), IsFiniteSet(S)
  PROVE  /\ \A c \in S : Rank(rs, c, S) \in 0 .. Cardinality(S) - 1
         /\ \A c, d \in S : Rank(rs, c, S) = Rank(rs, d, S) => c = d
  <1> DEFINE low(c) == {e \in S : Before(rs, e, c)}
  <1>1. ASSUME NEW c \in S PROVE Rank(rs, c, S) \in 0 .. Cardinality(S) - 1
    <2>1. low(c) \subseteq S /\ c \notin low(c)
      BY BeforeOrder
    <2>2. Cardinality(low(c)) \in Nat /\ Cardinality(S) \in Nat
          /\ Cardinality(low(c)) < Cardinality(S)
      BY <2>1, StrictlyFewer
    <2> QED BY <2>2 DEF Rank
  <1>2. ASSUME NEW c \in S, NEW d \in S, Before(rs, c, d)
        PROVE  Rank(rs, c, S) < Rank(rs, d, S)
    <2>1. low(c) \subseteq low(d)
      BY <1>2, BeforeOrder
    <2>2. c \in low(d) /\ c \notin low(c)
      BY <1>2, BeforeOrder
    <2>3. IsFiniteSet(low(d))
      BY FS_Subset
    <2>4. Cardinality(low(c)) < Cardinality(low(d))
      BY <2>1, <2>2, <2>3, StrictlyFewer
    <2> QED BY <2>4 DEF Rank
  <1>3. ASSUME NEW c \in S, NEW d \in S, Rank(rs, c, S) = Rank(rs, d, S) PROVE c = d
    <2>1. Rank(rs, c, S) \in Int /\ Rank(rs, d, S) \in Int
      BY <1>1
    <2>2. ~ Before(rs, c, d) /\ ~ Before(rs, d, c)
      BY <1>2, <1>3, <2>1
    <2> QED BY <2>2, BeforeOrder
  <1> QED BY <1>1, <1>3

-----------------------------------------------------------------------------
(* The manager's invariant, and what Place does to it.                     *)

Ledger == /\ block_states \in [Blocks -> BOOLEAN]
          /\ available_blocks \in Nat
          /\ ref_count \in [Blocks -> Nat]
          /\ block_table \in [Rows -> [Cols -> Blocks \cup {NoBlock}]]
          /\ NoSharing
          /\ Accounting

\* Blocks and cells are finite in number.
LEMMA Finite ==
  /\ IsFiniteSet(Blocks) /\ Cardinality(Blocks) = NumBlocks
  /\ IsFiniteSet(Cols) /\ Cardinality(Cols) = MaxBlocksPerSeq
  /\ IsFiniteSet(Rows \X Cols)
  /\ IsFiniteSet(Cells) /\ IsFiniteSet(Free)
  <1>1. IsFiniteSet(Blocks) /\ Cardinality(Blocks) = NumBlocks
    BY FS_Interval, KVAssumption DEF Blocks
  <1>2. IsFiniteSet(Cols) /\ Cardinality(Cols) = MaxBlocksPerSeq
    BY FS_Interval, KVAssumption DEF Cols
  <1>3. IsFiniteSet(Rows \X Cols)
    BY <1>2, FS_Product, KVAssumption
  <1>4. IsFiniteSet(Cells)
    BY <1>3, FS_Subset DEF Cells
  <1>5. IsFiniteSet(Free)
    BY <1>1, FS_Subset DEF Free
  <1> QED BY <1>1, <1>2, <1>3, <1>4, <1>5

\* The image of an injection has as many elements as its domain.
LEMMA ImageSize ==
  ASSUME NEW S, IsFiniteSet(S), NEW I, NEW f \in [S -> I],
         \A i \in I : \E c \in S : f[c] = i,
         \A c, d \in S : f[c] = f[d] => c = d
  PROVE  IsFiniteSet(I) /\ Cardinality(I) = Cardinality(S)
  <1>1. f \in Surjection(S, I) /\ f \in Injection(S, I)
    BY DEF Surjection, Injection, IsInjective
  <1> QED BY <1>1, FS_Surjection

\* Placing distinct free blocks in empty cells keeps the ledger.
LEMMA PlaceKeepsLedger ==
  ASSUME Ledger, NEW S \in SUBSET (Rows \X Cols), NEW f \in [S -> Free],
         \A c \in S : At(c) = NoBlock,
         \A c, d \in S : f[c] = f[d] => c = d,
         Place(S, f)
  PROVE  /\ Ledger'
         /\ Cells' = Cells \cup S
         /\ \A c \in S : At(c)' = f[c]
         /\ \A c \in (Rows \X Cols) \ S : At(c)' = At(c)
  <1> DEFINE img == {f[c] : c \in S}
  <1>1. IsFiniteSet(S) /\ IsFiniteSet(img) /\ Cardinality(img) = Cardinality(S)
    <2>1. IsFiniteSet(S)
      BY Finite, FS_Subset
    <2>2. f \in [S -> img] /\ \A i \in img : \E c \in S : f[c] = i
      OBVIOUS
    <2> HIDE DEF img
    <2> QED BY <2>1, <2>2, ImageSize
  <1>2. img \subseteq Free /\ Free \subseteq Blocks
    BY DEF Free
  <1>3. block_table' \in [Rows -> [Cols -> Blocks \cup {NoBlock}]]
    BY <1>2 DEF Place, Ledger
  <1>4. /\ \A c \in S : At(c)' = f[c]
        /\ \A c \in (Rows \X Cols) \ S : At(c)' = At(c)
    BY DEF Place, At
  <1>5. \A b \in Blocks : b # NoBlock
    BY DEF Blocks, NoBlock
  <1>6. Cells' = Cells \cup S
    BY <1>2, <1>4, <1>5 DEF Cells, At
  <1>7. Free' = Free \ img
    BY DEF Free, Place, Ledger
  <1>8. /\ block_states' \in [Blocks -> BOOLEAN]
        /\ ref_count' \in [Blocks -> Nat]
    BY DEF Place, Ledger
  <1>9. available_blocks' = Cardinality(Free') /\ available_blocks' \in Nat
    <2>1. img \cap Free = img /\ Free \cap img = img
      BY <1>2
    <2>2. Cardinality(Free \ img) = Cardinality(Free) - Cardinality(img)
      <3>1. Cardinality(Free \ img) = Cardinality(Free) - Cardinality(Free \cap img)
        BY Finite, FS_Difference
      <3> QED BY <2>1, <3>1
    <2>3. IsFiniteSet(Free \ img)
      BY Finite, FS_Difference
    <2>4. Cardinality(Free \ img) \in Nat
      BY <2>3, FS_CardinalityType
    <2>5. available_blocks' = Cardinality(Free) - Cardinality(S)
      BY DEF Place, Ledger, Accounting
    <2> QED BY <1>1, <1>7, <2>2, <2>4, <2>5
  <1>10. \A c \in Cells : At(c) \in Blocks /\ At(c) \notin Free
    BY DEF Ledger, Accounting, Cells, At, Free
  <1>11. NoSharing'
    <2>1. SUFFICES ASSUME NEW c \in Cells', NEW d \in Cells', At(c)' = At(d)'
                   PROVE  c = d
      BY DEF NoSharing, Cells, At
    <2>2. CASE c \in S /\ d \in S
      BY <1>4, <2>1, <2>2
    <2>3. CASE c \notin S /\ d \notin S
      BY <1>4, <1>6, <2>1, <2>3 DEF Ledger, NoSharing, Cells
    <2>4. CASE (c \in S /\ d \notin S) \/ (c \notin S /\ d \in S)
      BY <1>2, <1>4, <1>6, <1>10, <2>1, <2>4 DEF Cells
    <2> QED BY <2>2, <2>3, <2>4
  <1>12. \A b \in Blocks : block_states'[b] <=> \A c \in Cells' : At(c)' # b
    <2>1. TAKE b \in Blocks
    <2>2. block_states'[b] <=> block_states[b] /\ b \notin img
      BY DEF Place
    <2>3. block_states[b] <=> \A c \in Cells : At(c) # b
      BY DEF Ledger, Accounting
    <2>4. b \notin img <=> \A c \in S : At(c)' # b
      BY <1>4
    <2>5. \A c \in Cells : c \notin S /\ At(c)' = At(c)
      BY <1>4 DEF Cells, At
    <2> QED BY <1>6, <2>2, <2>3, <2>4, <2>5
  <1>13. \A b \in Blocks : ref_count'[b] = IF block_states'[b] THEN 0 ELSE 1
    <2>1. TAKE b \in Blocks
    <2>2. ref_count[b] = IF block_states[b] THEN 0 ELSE 1
      BY DEF Ledger, Accounting
    <2>3. b \in img => block_states[b]
      BY <1>2 DEF Free
    <2>4. CASE b \in img
      <3>1. ref_count'[b] = ref_count[b] + 1 /\ ~ block_states'[b]
        BY <2>4 DEF Place
      <3> QED BY <2>2, <2>3, <2>4, <3>1
    <2>5. CASE b \notin img
      <3>1. ref_count'[b] = ref_count[b] + 0 /\ block_states'[b] = block_states[b]
        BY <2>5 DEF Place, Ledger
      <3> QED BY <2>2, <3>1
    <2> QED BY <2>4, <2>5
  <1>14. Accounting'
    BY <1>9, <1>12, <1>13 DEF Accounting
  <1> QED BY <1>3, <1>4, <1>6, <1>8, <1>9, <1>11, <1>14 DEF Ledger

-----------------------------------------------------------------------------
(* What free_block_table does to the ledger.                               *)

\* Freeing rows without holes empties them and touches no other row.
LEMMA FreeKeepsLedger ==
  ASSUME Ledger, NoHole, NEW R \in SUBSET Rows, FreeTables(R)
  PROVE  /\ Ledger'
         /\ raised' = raised
         /\ Cells' = {c \in Cells : c[1] \notin R}
         /\ \A c \in Cells' : At(c)' = At(c)
         /\ allocated_size' = [b \in Blocks |->
                                 IF \E c \in Cells \ Cells' : At(c) = b
                                 THEN 0 ELSE allocated_size[b]]
  <1> DEFINE walked == {c \in R \X Cols :
                          \A k \in 0 .. c[2] : block_table[c[1]][k] # NoBlock}
             out == {c \in Cells : c[1] \in R}
             on(b) == {c \in walked : At(c) = b}
             drop(b) == Cardinality(on(b))
             freed == {b \in Blocks : drop(b) > 0 /\ ref_count[b] = drop(b)}
             given == {At(c) : c \in out}
  <1>1. walked = out
    <2>1. walked \subseteq out
      BY DEF Cells, Cols
    <2>2. out \subseteq walked
      BY DEF NoHole, Cells
    <2> QED BY <2>1, <2>2
  <1>2. \A c \in Cells : At(c) \in Blocks /\ ~ block_states[At(c)] /\ ref_count[At(c)] = 1
    BY DEF Ledger, Accounting, Cells, At
  <1>3. ASSUME NEW b \in Blocks
        PROVE  /\ b \in given => drop(b) = 1 /\ ref_count[b] = 1
               /\ b \notin given => drop(b) = 0
    <2>1. CASE b \in given
      <3>1. PICK c \in out : At(c) = b
        BY <2>1
      <3>2. on(b) = {c}
        BY <1>1, <3>1 DEF Ledger, NoSharing
      <3>3. drop(b) = 1
        BY <3>2, FS_Singleton
      <3> QED BY <1>2, <2>1, <3>1, <3>3
    <2>2. CASE b \notin given
      <3>1. on(b) = {}
        BY <1>1, <2>2
      <3> QED BY <2>2, <3>1, FS_EmptySet
    <2> QED BY <2>1, <2>2
  <1>4. given \subseteq Blocks
    BY <1>2
  <1>5. freed = given
    <2>1. freed \subseteq given
      BY <1>3
    <2>2. given \subseteq freed
      BY <1>3, <1>4
    <2> QED BY <2>1, <2>2
  <1>6. ~ \E b \in Blocks : drop(b) > ref_count[b]
    <2>1. SUFFICES ASSUME NEW b \in Blocks PROVE ~ (drop(b) > ref_count[b])
      OBVIOUS
    <2>2. ref_count[b] \in Nat
      BY DEF Ledger
    <2> QED BY <1>3, <2>2
  <1>7. /\ block_table' = [r \in Rows |-> [k \in Cols |->
               IF <<r, k>> \in walked /\ block_table[r][k] \in freed
               THEN NoBlock ELSE block_table[r][k]]]
        /\ block_states' = [b \in Blocks |-> block_states[b] \/ b \in freed]
        /\ available_blocks' = available_blocks + Cardinality(freed)
        /\ ref_count' = [b \in Blocks |-> ref_count[b] - drop(b)]
        /\ allocated_size' = [b \in Blocks |->
                                IF b \in freed THEN 0 ELSE allocated_size[b]]
        /\ raised' = raised
    <2>1. FreeTables(R)
      OBVIOUS
    <2>2. /\ block_table' = [r \in Rows |-> [k \in Cols |->
                 IF <<r, k>> \in walked /\ block_table[r][k] \in freed
                 THEN NoBlock ELSE block_table[r][k]]]
          /\ Reclaim(freed)
          /\ ref_count' = [b \in Blocks |-> ref_count[b] - drop(b)]
          /\ UNCHANGED raised
      BY <1>6, <2>1, Zenon DEF FreeTables, Walked
    <2> QED BY <2>2, Zenon DEF Reclaim
  <1> HIDE DEF walked, drop, on, freed
  <1>8. block_table' \in [Rows -> [Cols -> Blocks \cup {NoBlock}]]
    BY <1>7 DEF Ledger
  <1>9. /\ \A c \in out : At(c)' = NoBlock
        /\ \A c \in (Rows \X Cols) \ out : At(c)' = At(c)
    BY <1>1, <1>5, <1>7 DEF At, Cells
  <1>10. Cells' = {c \in Cells : c[1] \notin R}
    BY <1>9 DEF Cells, At
  <1>11. \A c \in Cells' : At(c)' = At(c)
    BY <1>9, <1>10 DEF Cells
  <1>12. NoSharing'
    BY <1>10, <1>11 DEF Ledger, NoSharing, At
  <1>13. /\ block_states' \in [Blocks -> BOOLEAN]
         /\ Free' = Free \cup given
    BY <1>4, <1>5, <1>7 DEF Free, Ledger
  <1>14. available_blocks' = Cardinality(Free') /\ available_blocks' \in Nat
    <2>1. Free \cap given = {}
      BY <1>2 DEF Free
    <2>2. IsFiniteSet(given)
      BY <1>4, Finite, FS_Subset
    <2>3. Cardinality(Free \cup given)
            = Cardinality(Free) + Cardinality(given) - Cardinality(Free \cap given)
      <3> HIDE DEF given
      <3> QED BY <2>2, Finite, FS_Union
    <2>4. Cardinality(Free \cap given) = 0
      BY <2>1, FS_EmptySet
    <2>5. Cardinality(Free) \in Nat /\ Cardinality(given) \in Nat
      <3> HIDE DEF given
      <3> QED BY <2>2, Finite, FS_CardinalityType
    <2>6. available_blocks = Cardinality(Free)
      BY DEF Ledger, Accounting
    <2>7. available_blocks' = available_blocks + Cardinality(given)
      BY <1>5, <1>7
    <2> HIDE DEF given
    <2> QED BY <1>13, <2>3, <2>4, <2>5, <2>6, <2>7
  <1>15. \A b \in Blocks : block_states'[b] <=> \A c \in Cells' : At(c)' # b
    <2>1. TAKE b \in Blocks
    <2>2. block_states'[b] <=> block_states[b] \/ b \in given
      BY <1>5, <1>7
    <2>3. block_states[b] <=> \A c \in Cells : At(c) # b
      BY DEF Ledger, Accounting
    <2>4. CASE b \in given
      <3>1. PICK c \in out : At(c) = b
        BY <2>4
      <3>2. \A d \in Cells' : At(d)' # b
        BY <1>10, <1>11, <3>1 DEF Ledger, NoSharing
      <3> QED BY <2>2, <2>4, <3>2
    <2>5. CASE b \notin given
      BY <1>10, <1>11, <2>2, <2>3, <2>5
    <2> QED BY <2>4, <2>5
  <1>16. ref_count' \in [Blocks -> Nat]
         /\ \A b \in Blocks : ref_count'[b] = IF block_states'[b] THEN 0 ELSE 1
    <2>1. ASSUME NEW b \in Blocks
          PROVE  ref_count'[b] = IF block_states'[b] THEN 0 ELSE 1
      <3>1. ref_count'[b] = ref_count[b] - drop(b)
        BY <1>7
      <3>2. ref_count[b] = IF block_states[b] THEN 0 ELSE 1
        BY DEF Ledger, Accounting
      <3>3. block_states'[b] <=> block_states[b] \/ b \in given
        BY <1>5, <1>7
      <3>4. CASE b \in given
        BY <1>3, <3>1, <3>3, <3>4
      <3>5. CASE b \notin given
        <4>1. ref_count'[b] = ref_count[b]
          BY <1>3, <3>1, <3>2, <3>5
        <4> QED BY <3>2, <3>3, <3>5, <4>1
      <3> QED BY <3>4, <3>5
    <2>2. ref_count' = [b \in Blocks |-> IF block_states'[b] THEN 0 ELSE 1]
      BY <1>7, <2>1
    <2> QED BY <2>1, <2>2
  <1>17. allocated_size' = [b \in Blocks |-> IF \E c \in Cells \ Cells' : At(c) = b
                                               THEN 0 ELSE allocated_size[b]]
    BY <1>5, <1>7, <1>10
  <1>18. Ledger'
    BY <1>8, <1>12, <1>13, <1>14, <1>15, <1>16 DEF Ledger, Accounting
  <1> QED BY <1>7, <1>10, <1>11, <1>17, <1>18

-----------------------------------------------------------------------------
(* Columns of positions: division by the block size.                       *)

LEMMA ColBounds ==
  ASSUME NEW n \in Int
  PROVE  /\ TokenCol(n) \in Int
         /\ BlockSize * TokenCol(n) <= n
         /\ n < BlockSize * TokenCol(n) + BlockSize
  BY KVAssumption DEF TokenCol

LEMMA BlockStep ==
  ASSUME NEW p \in Int, NEW q \in Int, p < q
  PROVE  /\ BlockSize * p + BlockSize <= BlockSize * q
         /\ BlockSize * p \in Int /\ BlockSize * q \in Int
  <1>1. PICK d \in Nat : q = p + 1 + d
    <2>1. q - p - 1 \in Nat /\ q = p + 1 + (q - p - 1)
      OBVIOUS
    <2> QED BY <2>1
  <1>2. BlockSize * q = BlockSize * p + BlockSize + BlockSize * d
    BY <1>1, KVAssumption
  <1>3. BlockSize * d >= 0
    BY KVAssumption
  <1>4. BlockSize * p \in Int /\ BlockSize * q \in Int /\ BlockSize * d \in Int
    BY KVAssumption
  <1> QED BY <1>2, <1>3, <1>4, KVAssumption

\* A position is in the one column whose tokens it is among.
LEMMA ColUnique ==
  ASSUME NEW n \in Int, NEW q \in Int,
         BlockSize * q <= n, n < BlockSize * q + BlockSize
  PROVE  TokenCol(n) = q
  <1> DEFINE p == TokenCol(n)
  <1>1. p \in Int /\ BlockSize * p <= n /\ n < BlockSize * p + BlockSize
    BY ColBounds
  <1> HIDE DEF p
  <1>2. ~ (p < q)
    <2>1. SUFFICES ASSUME p < q PROVE FALSE
      OBVIOUS
    <2>2. BlockSize * p + BlockSize <= BlockSize * q
          /\ BlockSize * p \in Int /\ BlockSize * q \in Int
      BY <1>1, <2>1, BlockStep
    <2> QED BY <1>1, <2>2, KVAssumption
  <1>3. ~ (q < p)
    <2>1. SUFFICES ASSUME q < p PROVE FALSE
      OBVIOUS
    <2>2. BlockSize * q + BlockSize <= BlockSize * p
          /\ BlockSize * p \in Int /\ BlockSize * q \in Int
      BY <1>1, <2>1, BlockStep
    <2> QED BY <1>1, <2>2, KVAssumption
  <1>4. p = q
    BY <1>1, <1>2, <1>3
  <1> QED BY <1>4 DEF p

\* Later positions are in later columns or the same.
LEMMA ColMonotone ==
  ASSUME NEW m \in Int, NEW n \in Int, m <= n
  PROVE  TokenCol(m) <= TokenCol(n)
  <1> DEFINE p == TokenCol(m)
             q == TokenCol(n)
  <1>1. /\ p \in Int /\ BlockSize * p <= m /\ m < BlockSize * p + BlockSize
        /\ q \in Int /\ BlockSize * q <= n /\ n < BlockSize * q + BlockSize
    BY ColBounds
  <1> HIDE DEF p, q
  <1>2. SUFFICES ASSUME q < p PROVE FALSE
    BY <1>1 DEF p, q
  <1>3. BlockSize * q + BlockSize <= BlockSize * p
        /\ BlockSize * p \in Int /\ BlockSize * q \in Int
    BY <1>1, <1>2, BlockStep
  <1> QED BY <1>1, <1>3, KVAssumption

LEMMA ColNat ==
  ASSUME NEW n \in Nat
  PROVE  TokenCol(n) \in Nat
  <1>1. TokenCol(0) = 0
    <2>1. BlockSize * 0 <= 0 /\ 0 < BlockSize * 0 + BlockSize
      BY KVAssumption
    <2> QED BY <2>1, ColUnique
  <1>2. TokenCol(0) <= TokenCol(n)
    BY ColMonotone
  <1> QED BY <1>1, <1>2, ColBounds

\* The columns of a prompt are those of its positions.
LEMMA BlocksForColumns ==
  ASSUME NEW n \in Nat
  PROVE  /\ n > 0 => BlocksFor(n) = TokenCol(n - 1) + 1
         /\ n = 0 => BlocksFor(n) = 0
         /\ BlocksFor(n) \in Nat
  <1>1. BlocksFor(n) = TokenCol(n + BlockSize - 1)
    BY DEF BlocksFor, TokenCol
  <1>2. CASE n > 0
    <2> DEFINE p == TokenCol(n - 1)
    <2>1. p \in Nat /\ BlockSize * p <= n - 1 /\ n - 1 < BlockSize * p + BlockSize
      BY <1>2, ColBounds, ColNat
    <2> HIDE DEF p
    <2>2. BlockSize * (p + 1) = BlockSize * p + BlockSize /\ BlockSize * p \in Int
      BY <2>1, KVAssumption
    <2>3. /\ BlockSize * (p + 1) <= n + BlockSize - 1
          /\ n + BlockSize - 1 < BlockSize * (p + 1) + BlockSize
      BY <2>1, <2>2, KVAssumption
    <2>4. TokenCol(n + BlockSize - 1) = p + 1
      BY <2>1, <2>3, ColUnique, KVAssumption
    <2> QED BY <1>1, <1>2, <2>1, <2>4 DEF p
  <1>3. CASE n = 0
    <2>1. BlockSize * 0 <= n + BlockSize - 1
          /\ n + BlockSize - 1 < BlockSize * 0 + BlockSize
      BY <1>3, KVAssumption
    <2>2. TokenCol(n + BlockSize - 1) = 0
      BY <2>1, ColUnique, KVAssumption
    <2> QED BY <1>1, <1>3, <2>2
  <1> QED BY <1>2, <1>3

\* A position is at most one column after the one before it.
LEMMA ColNext ==
  ASSUME NEW n \in Int
  PROVE  TokenCol(n + 1) <= TokenCol(n) + 1
  <1> DEFINE p == TokenCol(n)
             q == TokenCol(n + 1)
  <1>1. /\ p \in Int /\ BlockSize * p <= n /\ n < BlockSize * p + BlockSize
        /\ q \in Int /\ BlockSize * q <= n + 1
    BY ColBounds
  <1> HIDE DEF p, q
  <1>2. SUFFICES ASSUME p + 1 < q PROVE FALSE
    BY <1>1 DEF p, q
  <1>3. BlockSize * (p + 1) + BlockSize <= BlockSize * q
        /\ BlockSize * (p + 1) \in Int /\ BlockSize * q \in Int
    BY <1>1, <1>2, BlockStep
  <1>4. BlockSize * (p + 1) = BlockSize * p + BlockSize /\ BlockSize * p \in Int
    BY <1>1, KVAssumption
  <1> QED BY <1>1, <1>3, <1>4, KVAssumption

\* The next position stays in the column or opens the next one; it can only
\* open one, with blocks of two tokens or more, if the last did not.
LEMMA ColStep ==
  ASSUME NEW n \in Nat, BlockSize > 1
  PROVE  \/ TokenCol(n + 1) = TokenCol(n)
         \/ TokenCol(n + 1) = TokenCol(n) + 1 /\ TokenCol(n - 1) = TokenCol(n)
  <1> DEFINE p == TokenCol(n)
  <1>1. p \in Nat /\ BlockSize * p <= n /\ n < BlockSize * p + BlockSize
    BY ColBounds, ColNat
  <1> HIDE DEF p
  <1>2. BlockSize * p \in Int /\ BlockSize * (p + 1) = BlockSize * p + BlockSize
    BY <1>1, KVAssumption
  <1>3. CASE n + 1 < BlockSize * p + BlockSize
    <2>1. TokenCol(n + 1) = p
      BY <1>1, <1>2, <1>3, ColUnique
    <2> QED BY <2>1 DEF p
  <1>4. CASE n + 1 = BlockSize * p + BlockSize
    <2>1. BlockSize * (p + 1) <= n + 1 /\ n + 1 < BlockSize * (p + 1) + BlockSize
      BY <1>2, <1>4, KVAssumption
    <2>2. TokenCol(n + 1) = p + 1
      BY <1>1, <2>1, ColUnique
    <2>3. BlockSize * p <= n - 1 /\ n - 1 < BlockSize * p + BlockSize
      BY <1>1, <1>2, <1>4, KVAssumption
    <2>4. TokenCol(n - 1) = p
      BY <1>1, <2>3, ColUnique
    <2> QED BY <2>2, <2>4 DEF p
  <1> QED BY <1>1, <1>2, <1>3, <1>4, KVAssumption

-----------------------------------------------------------------------------
(* Space: every block has room for what is asked, every cell has a block.  *)

\* Occupying cells whose blocks have the room adds what is asked to those
\* blocks and to no other, and raises nothing.
LEMMA OccupyAdds ==
  ASSUME Ledger', NEW S \in SUBSET (Rows \X Cols), S \subseteq Cells',
         allocated_size \in [Blocks -> 0 .. BlockSize],
         NEW asked \in [S -> 1 .. BlockSize],
         \A c \in S : allocated_size[At(c)'] + asked[c] <= BlockSize,
         Occupy(S, asked)
  PROVE  /\ raised' = raised
         /\ allocated_size' \in [Blocks -> 0 .. BlockSize]
         /\ \A c \in S : allocated_size'[At(c)'] = allocated_size[At(c)'] + asked[c]
         /\ \A b \in Blocks : (\A c \in S : At(c)' # b) =>
                                 allocated_size'[b] = allocated_size[b]
  <1> DEFINE on(b) == {c \in S : block_table'[c[1]][c[2]] = b}
             room(b) == BlockSize - allocated_size[b]
             take(b) == LET n == asked[CHOOSE c \in on(b) : TRUE]
                        IN IF n <= room(b) THEN n ELSE room(b)
  <1>1. /\ allocated_size' = [b \in Blocks |->
                               allocated_size[b] + IF on(b) = {} THEN 0 ELSE take(b)]
        /\ raised' = IF \E b \in Blocks : on(b) # {} /\ room(b) = 0
                      THEN "NoSpace" ELSE raised
    BY DEF Occupy
  <1>2. \A c \in S : At(c)' \in Blocks /\ on(At(c)') = {c}
    <2>1. TAKE c \in S
    <2>2. c \in Rows \X Cols /\ At(c)' # NoBlock
      BY DEF Cells, At
    <2>3. At(c)' \in Blocks
      BY <2>2 DEF Ledger, At
    <2>4. \A d \in S : At(d)' = At(c)' => d = c
      BY DEF Ledger, NoSharing, At
    <2>5. on(At(c)') = {c}
      BY <2>4 DEF At
    <2> QED BY <2>3, <2>5
  <1>3. \A b \in Blocks : allocated_size[b] \in 0 .. BlockSize
    OBVIOUS
  <1>4. ASSUME NEW c \in S
        PROVE  /\ allocated_size'[At(c)'] = allocated_size[At(c)'] + asked[c]
               /\ room(At(c)') # 0
    <2>1. on(At(c)') = {c} /\ At(c)' \in Blocks
      BY <1>2
    <2>2. (CHOOSE d \in {c} : TRUE) = c
      OBVIOUS
    <2>3. asked[c] <= room(At(c)') /\ asked[c] \in 1 .. BlockSize
      BY <1>3, <2>1, KVAssumption
    <2>4. take(At(c)') = asked[c]
      BY <2>1, <2>2, <2>3
    <2>5. on(At(c)') # {}
      BY <2>1
    <2> HIDE DEF on, take
    <2> QED BY <1>1, <1>3, <2>1, <2>3, <2>4, <2>5, KVAssumption
  <1>5. ASSUME NEW b \in Blocks, on(b) # {} PROVE \E c \in S : b = At(c)'
    BY <1>5 DEF At
  <1>6. ASSUME NEW b \in Blocks, \A c \in S : At(c)' # b
        PROVE  allocated_size'[b] = allocated_size[b]
    <2>1. on(b) = {}
      BY <1>6 DEF At
    <2> HIDE DEF on, take
    <2> QED BY <1>1, <1>3, <2>1
  <1>7. raised' = raised
    <2>1. ~ \E b \in Blocks : on(b) # {} /\ room(b) = 0
      <3> HIDE DEF on, room
      <3> QED BY <1>4, <1>5
    <2> QED BY <1>1, <2>1
  <1>8. \A b \in Blocks : allocated_size'[b] \in 0 .. BlockSize
    <2>1. TAKE b \in Blocks
    <2>2. CASE \E c \in S : b = At(c)'
      <3>1. PICK c \in S : b = At(c)'
        BY <2>2
      <3>2. allocated_size'[b] = allocated_size[b] + asked[c]
        BY <1>4, <3>1
      <3>3. allocated_size[b] + asked[c] <= BlockSize /\ asked[c] \in 1 .. BlockSize
        BY <3>1
      <3> QED BY <1>3, <3>2, <3>3, KVAssumption
    <2>3. CASE ~ \E c \in S : b = At(c)'
      BY <1>3, <1>6, <2>3
    <2> QED BY <2>2, <2>3
  <1>9. DOMAIN allocated_size' = Blocks
        /\ allocated_size' = [b \in Blocks |-> allocated_size'[b]]
    <2> HIDE DEF on, take
    <2> QED BY <1>1
  <1>10. allocated_size' \in [Blocks -> 0 .. BlockSize]
    BY <1>8, <1>9
  <1> QED BY <1>4, <1>6, <1>7, <1>10

\* The tables have as many cells as there are blocks, so the empty cells
\* never outnumber the free blocks.
LEMMA EnoughBlocks ==
  ASSUME Ledger, NEW T \in SUBSET Rows, Cardinality(T) <= MaxBatchSize,
         Cells \subseteq T \X Cols,
         NEW S \in SUBSET (T \X Cols), \A c \in S : At(c) = NoBlock
  PROVE  /\ Cardinality(S) <= available_blocks
         /\ IsFiniteSet(S) /\ Cardinality(S) \in Nat
  <1> DEFINE A == [c \in Cells |-> At(c)]
             used == Blocks \ Free
  <1>1. /\ IsFiniteSet(S) /\ Cardinality(S) \in Nat
        /\ IsFiniteSet(T) /\ IsFiniteSet(T \X Cols)
    <2>1. IsFiniteSet(T)
      BY FS_Subset, KVAssumption
    <2>2. IsFiniteSet(T \X Cols)
      BY <2>1, Finite, FS_Product
    <2> QED BY <2>1, <2>2, FS_Subset, FS_CardinalityType
  <1>2. S \cap Cells = {}
    BY DEF Cells, At
  <1>3. IsFiniteSet(used)
    BY Finite, FS_Difference
  <1>4. Cardinality(used) = Cardinality(Cells)
    <2>1. A \in [Cells -> used]
      BY DEF Ledger, Accounting, Cells, At, Free
    <2>2. \A b \in used : \E c \in Cells : A[c] = b
      BY DEF Ledger, Accounting, Free
    <2>3. \A c, d \in Cells : A[c] = A[d] => c = d
      BY DEF Ledger, NoSharing
    <2> HIDE DEF A, used
    <2> QED BY <2>1, <2>2, <2>3, Finite, ImageSize
  <1>5. Cardinality(used) = NumBlocks - available_blocks
    <2>1. Blocks \cap Free = Free
      BY DEF Free
    <2>2. Cardinality(Blocks \ Free) = Cardinality(Blocks) - Cardinality(Blocks \cap Free)
      BY Finite, FS_Difference
    <2> QED BY <2>1, <2>2, Finite DEF Ledger, Accounting
  <1>6. Cardinality(S \cup Cells) = Cardinality(S) + Cardinality(Cells)
    <2>1. Cardinality(S \cup Cells)
            = Cardinality(S) + Cardinality(Cells) - Cardinality(S \cap Cells)
      BY <1>1, Finite, FS_Union
    <2>2. Cardinality(S \cap Cells) = 0
      BY <1>2, FS_EmptySet
    <2>3. Cardinality(Cells) \in Nat
      BY Finite, FS_CardinalityType
    <2> QED BY <1>1, <2>1, <2>2, <2>3
  <1>7. Cardinality(S \cup Cells) <= Cardinality(T \X Cols)
    <2>1. S \cup Cells \in SUBSET (T \X Cols)
      OBVIOUS
    <2> QED BY <1>1, <2>1, FS_Subset
  <1>8. Cardinality(T \X Cols) <= NumBlocks
    <2>1. Cardinality(T \X Cols) = Cardinality(T) * Cardinality(Cols)
      BY <1>1, Finite, FS_Product
    <2>2. Cardinality(T) \in Nat
      BY <1>1, FS_CardinalityType
    <2>3. Cardinality(T) * MaxBlocksPerSeq <= MaxBatchSize * MaxBlocksPerSeq
      BY <2>2, KVAssumption, UsageAssumption
    <2>4. NumBlocks = MaxBatchSize * MaxBlocksPerSeq
      BY KVAssumption, UsageAssumption
    <2> QED BY <2>1, <2>3, <2>4, Finite
  <1>9. available_blocks \in Nat /\ Cardinality(Cells) \in Nat
    BY Finite, FS_CardinalityType DEF Ledger
  <1>10. Cardinality(S) + (NumBlocks - available_blocks) <= NumBlocks
    <2>1. Cardinality(T \X Cols) \in Nat /\ Cardinality(S \cup Cells) \in Nat
      BY <1>1, Finite, FS_CardinalityType, FS_Union
    <2>2. Cardinality(S \cup Cells) <= NumBlocks
      BY <1>7, <1>8, <2>1, KVAssumption
    <2> QED BY <1>4, <1>5, <1>6, <2>2
  <1>11. Cardinality(S) <= available_blocks
    BY <1>1, <1>9, <1>10, KVAssumption
  <1> QED BY <1>1, <1>11

-----------------------------------------------------------------------------
(* The inductive invariant of KVCacheUsage.                                *)

WithinBatch == Cardinality(Active) <= MaxBatchSize

IInv == /\ WithinBatch /\ TypeOK /\ NoSharing /\ Accounting /\ FreeIsEmpty
        /\ Backed /\ Filled /\ OnlyFragmentation

LEMMA IInvLedger == IInv => Ledger
  BY DEF IInv, TypeOK, KVTypeOK, Ledger

\* Rows backed up to their length have no hole.
LEMMA BackedNoHole ==
  ASSUME IInv PROVE NoHole
  <1>1. SUFFICES ASSUME NEW c \in Cells, NEW k \in 0 .. c[2]
                 PROVE  block_table[c[1]][k] # NoBlock
    BY DEF NoHole
  <1> DEFINE r == c[1]
  <1>2. r \in Rows /\ c[2] \in Cols /\ block_table[r][c[2]] # NoBlock /\ k \in Cols
    BY <1>1, KVAssumption DEF Cells, Cols
  <1>3. len[r] \in Nat /\ len[r] > 0 /\ c[2] <= TokenCol(len[r])
    <2>1. len[r] \in Nat
      BY <1>2, UsageAssumption DEF IInv, TypeOK
    <2>2. ~ (c[2] > TokenCol(len[r]) \/ len[r] = 0)
      BY <1>2 DEF IInv, Backed
    <2>3. TokenCol(len[r]) \in Int /\ c[2] \in Int
      BY <1>2, <2>1, ColBounds DEF Cols
    <2> QED BY <2>1, <2>2, <2>3
  <1>4. CASE k = c[2]
    BY <1>2, <1>4
  <1>5. CASE k < c[2]
    <2>1. TokenCol(len[r]) <= TokenCol(len[r] - 1) + 1
      <3>1. len[r] - 1 \in Int /\ (len[r] - 1) + 1 = len[r]
        BY <1>3
      <3>2. TokenCol((len[r] - 1) + 1) <= TokenCol(len[r] - 1) + 1
        BY <3>1, ColNext
      <3> QED BY <3>1, <3>2
    <2>2. BlocksFor(len[r]) = TokenCol(len[r] - 1) + 1
      BY <1>3, BlocksForColumns
    <2>3. TokenCol(len[r] - 1) \in Int /\ TokenCol(len[r]) \in Int
      BY <1>3, ColBounds
    <2>4. k < BlocksFor(len[r])
      BY <1>2, <1>3, <1>5, <2>1, <2>2, <2>3 DEF Cols
    <2> QED BY <1>2, <2>4 DEF IInv, Backed
  <1> QED BY <1>2, <1>4, <1>5 DEF Cols

LEMMA InitIInv == Init => IInv
  <1>1. SUFFICES ASSUME Init PROVE IInv
    OBVIOUS
  <1>2. TypeOK
    BY <1>1, KVAssumption, UsageAssumption
    DEF Init, KVInit, TypeOK, KVTypeOK, Errors, EmptyTable
  <1>3. Cells = {}
    BY <1>1 DEF Init, KVInit, Cells, EmptyTable
  <1>4. Free = Blocks
    BY <1>1 DEF Init, KVInit, Free
  <1>5. Accounting
    BY <1>1, <1>3, <1>4, Finite DEF Init, KVInit, Accounting
  <1>6. Backed
    <2>1. SUFFICES ASSUME NEW r \in Rows, NEW k \in Cols
                   PROVE  ~ (k < BlocksFor(len[r])) /\ block_table[r][k] = NoBlock
      BY DEF Backed
    <2>2. len[r] = 0 /\ BlocksFor(0) = 0
      BY <1>1, BlocksForColumns DEF Init
    <2> QED BY <1>1, <2>2 DEF Init, KVInit, EmptyTable, Cols
  <1>7. WithinBatch
    <2>1. Active = {}
      BY <1>1 DEF Init, Active
    <2> QED BY <2>1, FS_EmptySet, UsageAssumption DEF WithinBatch
  <1> QED BY <1>1, <1>2, <1>3, <1>5, <1>6, <1>7
          DEF Init, KVInit, IInv, NoSharing, FreeIsEmpty, Filled, OnlyFragmentation, Free

\* The tokens asked of a prompt's blocks fit, in the block and in the prompt.
LEMMA AskedFits ==
  ASSUME NEW n \in Nat, n > 0, NEW k \in Nat, k < BlocksFor(n),
         NEW a, a = IF k = BlocksFor(n) - 1 /\ n % BlockSize # 0
                    THEN n % BlockSize ELSE BlockSize
  PROVE  a \in 1 .. BlockSize /\ a + BlockSize * k <= n
  <1> DEFINE p == TokenCol(n - 1)
             q == TokenCol(n)
  <1>1. BlocksFor(n) = p + 1
    BY BlocksForColumns
  <1>2. /\ p \in Nat /\ BlockSize * p <= n - 1 /\ n - 1 < BlockSize * p + BlockSize
        /\ q \in Nat /\ BlockSize * q <= n /\ n < BlockSize * q + BlockSize
    BY ColBounds, ColNat
  <1>3. n % BlockSize = n - BlockSize * q /\ n % BlockSize \in 0 .. BlockSize - 1
    BY KVAssumption DEF TokenCol
  <1> HIDE DEF p, q
  <1>4. BlockSize * p \in Int /\ BlockSize * q \in Int /\ BlockSize * k \in Int
    BY <1>2, KVAssumption
  <1>5. CASE k < p
    <2>1. a = BlockSize
      BY <1>1, <1>2, <1>5
    <2>2. BlockSize * k + BlockSize <= BlockSize * p
      BY <1>2, <1>5, BlockStep
    <2> QED BY <1>2, <1>4, <2>1, <2>2, KVAssumption
  <1>6. CASE k = p /\ n % BlockSize # 0
    <2>1. a = n - BlockSize * q /\ a \in 1 .. BlockSize
      BY <1>1, <1>2, <1>3, <1>6, KVAssumption
    <2>2. q = p
      <3>1. BlockSize * q <= n - 1 /\ n - 1 < BlockSize * q + BlockSize
        BY <1>2, <1>3, <1>4, <1>6, KVAssumption
      <3> QED BY <1>2, <3>1, ColUnique DEF p
    <2> QED BY <1>4, <1>6, <2>1, <2>2
  <1>7. CASE k = p /\ n % BlockSize = 0
    <2>1. a = BlockSize /\ n = BlockSize * q
      BY <1>1, <1>2, <1>3, <1>4, <1>7
    <2>2. p < q
      <3>1. SUFFICES ASSUME q <= p PROVE FALSE
        BY <1>2
      <3>2. q = p \/ q < p
        BY <1>2, <3>1
      <3>3. q < p => BlockSize * q + BlockSize <= BlockSize * p
        BY <1>2, BlockStep
      <3> QED BY <1>2, <1>4, <2>1, <3>2, <3>3, KVAssumption
    <2>3. BlockSize * p + BlockSize <= BlockSize * q
      BY <1>2, <2>2, BlockStep
    <2> QED BY <1>4, <1>7, <2>1, <2>3, KVAssumption
  <1> QED BY <1>1, <1>2, <1>5, <1>6, <1>7

\* Only active rows have cells with blocks.
LEMMA ActiveCells ==
  ASSUME IInv
  PROVE  Cells \subseteq Active \X Cols /\ Active \subseteq Rows
  <1>1. ASSUME NEW c \in Cells PROVE c \in Active \X Cols
    <2>1. c[1] \in Rows /\ c[2] \in Cols /\ c = <<c[1], c[2]>>
          /\ block_table[c[1]][c[2]] # NoBlock
      BY DEF Cells
    <2>2. len[c[1]] # 0 /\ len[c[1]] \in Nat
      BY <2>1, UsageAssumption DEF IInv, Backed, TypeOK
    <2> QED BY <2>1, <2>2 DEF Active
  <1> QED BY <1>1 DEF Active

\* What the cells hold stays where it is; empty cells may be filled.
Kept == Cells \subseteq Cells' /\ \A c \in Cells : At(c)' = At(c)

\* Prompts are placed in free blocks of rows that were empty.
LEMMA PrefillStep ==
  ASSUME IInv, NEW rs \in Batches, Prefill(rs), BlockSize > 1
  PROVE  IInv' /\ Kept
  <1> DEFINE B == BatchRows(rs)
  <1>1. PICK ctx \in [B -> 1 .. MaxInputLen] :
          /\ AllocateContextTables(rs, ctx)
          /\ len' = [r \in Rows |-> IF r \in B /\ raised' = "none" THEN ctx[r] ELSE len[r]]
    BY DEF Prefill
  <1> DEFINE S == ContextCells(rs, ctx)
             n == Cardinality(S)
  <1>2. /\ raised = "none" /\ B \cap Active = {} /\ B \subseteq Rows
        /\ Ledger /\ len \in [Rows -> 0 .. MaxInputLen + MaxOutputLen]
    <2>1. B \subseteq Rows
      BY BatchFacts
    <2>2. len \in [Rows -> 0 .. MaxInputLen + MaxOutputLen]
      BY DEF IInv, TypeOK
    <2>3. raised = "none" /\ B \cap Active = {}
      BY DEF Prefill
    <2> QED BY <2>1, <2>2, <2>3, IInvLedger
  <1>3. /\ S \in SUBSET (B \X Cols) /\ S \in SUBSET (Rows \X Cols)
        /\ \A r \in B : \A k \in Cols : <<r, k>> \in S <=> k < BlocksFor(ctx[r])
    BY <1>2 DEF ContextCells
  <1>4. \A r \in B : len[r] = 0 /\ \A k \in Cols : block_table[r][k] = NoBlock
    BY <1>2 DEF Active, IInv, Backed
  <1>5. \A c \in S : At(c) = NoBlock
    BY <1>3, <1>4 DEF At
  <1>6. n <= available_blocks /\ IsFiniteSet(S) /\ n \in Nat
    <2>1. Cardinality(Active \cup B) <= MaxBatchSize
      BY DEF Prefill
    <2>2. /\ Active \cup B \in SUBSET Rows /\ Cells \subseteq (Active \cup B) \X Cols
          /\ S \in SUBSET ((Active \cup B) \X Cols)
      BY <1>2, <1>3, ActiveCells
    <2> HIDE DEF S, B
    <2> QED BY <1>2, <1>5, <2>1, <2>2, EnoughBlocks
  <1>7. ctx \in [B -> Nat] /\ \A r \in B : ctx[r] > 0 /\ ctx[r] <= MaxInputLen
    BY UsageAssumption
  <1> HIDE DEF S, n, B
  <1>8. CASE FreeRuns(n) = {} /\ Fail("Fragmented")
    <2>1. /\ raised' = "Fragmented"
          /\ UNCHANGED <<block_states, available_blocks, ref_count, allocated_size,
                         block_table, len>>
      <3>1. raised' = "Fragmented" /\ raised' # "none"
        BY <1>8 DEF Fail
      <3>2. len' = [r \in Rows |-> len[r]]
        BY <1>1, <3>1
      <3> QED BY <1>2, <1>8, <3>1, <3>2 DEF Fail
    <2>2. IInv'
      BY <2>1 DEF IInv, WithinBatch, Active, TypeOK, KVTypeOK, Errors, NoSharing, Accounting,
                  FreeIsEmpty, Backed, Filled, OnlyFragmentation, Cells, At, Free
    <2>3. Kept
      BY <2>1 DEF Kept, Cells, At
    <2> QED BY <2>2, <2>3
  <1>9. ASSUME NEW s \in FreeRuns(n),
               Place(S, [c \in S |-> s + Rank(rs, c, S)]),
               Occupy(S, ContextAsked(S, ctx))
        PROVE  IInv' /\ Kept
    <2> DEFINE f == [c \in S |-> s + Rank(rs, c, S)]
               asked == ContextAsked(S, ctx)
    <2>1. /\ \A c \in S : Rank(rs, c, S) \in 0 .. n - 1
          /\ \A c, d \in S : Rank(rs, c, S) = Rank(rs, d, S) => c = d
      BY <1>3, <1>6, RankNumbers DEF n, B
    <2>2. s \in Nat /\ s + n <= NumBlocks /\ \A b \in s .. s + n - 1 : b \in Free
      BY <1>6, <1>9, KVAssumption DEF FreeRuns, Free, Blocks
    <2>3. f \in [S -> Free]
      <3>1. ASSUME NEW c \in S PROVE s + Rank(rs, c, S) \in s .. s + n - 1
        BY <1>6, <2>1, <2>2
      <3> QED BY <2>2, <3>1
    <2>4. \A c, d \in S : f[c] = f[d] => c = d
      BY <2>1, <2>2
    <2>5. /\ Ledger'
          /\ Cells' = Cells \cup S
          /\ \A c \in S : At(c)' = f[c]
          /\ \A c \in (Rows \X Cols) \ S : At(c)' = At(c)
      <3> HIDE DEF f
      <3>1. Place(S, f)
        BY <1>9 DEF f
      <3> QED BY <1>2, <1>3, <1>5, <2>3, <2>4, <3>1, PlaceKeepsLedger
    <2> HIDE DEF f
    <2>6. \A c \in S : At(c)' \in Free /\ allocated_size[At(c)'] = 0
      BY <2>3, <2>5 DEF IInv, FreeIsEmpty
    <2>7. \A c \in S : asked[c] \in 1 .. BlockSize
                      /\ asked[c] + BlockSize * c[2] <= ctx[c[1]]
      <3>1. TAKE c \in S
      <3>2. c[1] \in B /\ c[2] \in Nat /\ c = <<c[1], c[2]>> /\ c[2] \in Cols
        BY <1>3 DEF Cols
      <3>3. c[2] < BlocksFor(ctx[c[1]])
        BY <1>3, <3>2
      <3>4. asked[c] = IF c[2] = BlocksFor(ctx[c[1]]) - 1 /\ ctx[c[1]] % BlockSize # 0
                       THEN ctx[c[1]] % BlockSize ELSE BlockSize
        BY DEF ContextAsked
      <3> HIDE DEF asked
      <3> QED BY <1>7, <3>2, <3>3, <3>4, AskedFits
    <2>8. /\ raised' = raised
          /\ allocated_size' \in [Blocks -> 0 .. BlockSize]
          /\ \A c \in S : allocated_size'[At(c)'] = allocated_size[At(c)'] + asked[c]
          /\ \A b \in Blocks : (\A c \in S : At(c)' # b) =>
                                  allocated_size'[b] = allocated_size[b]
      <3>1. asked \in [S -> 1 .. BlockSize]
        BY <2>7 DEF ContextAsked
      <3>2. \A c \in S : allocated_size[At(c)'] + asked[c] <= BlockSize
        BY <2>6, <2>7, KVAssumption
      <3>3. S \subseteq Cells'
        BY <2>5
      <3>4. allocated_size \in [Blocks -> 0 .. BlockSize]
        BY DEF IInv, TypeOK, KVTypeOK
      <3>5. Occupy(S, asked)
        BY <1>9
      <3> HIDE DEF asked
      <3> QED BY <1>3, <2>5, <3>1, <3>2, <3>3, <3>4, <3>5, OccupyAdds
    <2> HIDE DEF asked
    <2>9. len' = [r \in Rows |-> IF r \in B THEN ctx[r] ELSE len[r]]
      BY <1>1, <1>2, <2>8 DEF B
    <2>10. TypeOK'
      <3>1. len' \in [Rows -> 0 .. MaxInputLen + MaxOutputLen]
        BY <1>2, <1>7, <2>9, UsageAssumption
      <3> QED BY <2>5, <2>8, <3>1 DEF IInv, TypeOK, KVTypeOK, Ledger
    <2>11. FreeIsEmpty'
      <3>1. SUFFICES ASSUME NEW b \in Free' PROVE allocated_size'[b] = 0
        BY DEF FreeIsEmpty
      <3>2. b \in Blocks /\ \A c \in Cells' : At(c)' # b
        BY <2>5 DEF Free, Ledger, Accounting
      <3>3. b \in Free
        <4>1. \A c \in Cells : At(c) # b
          BY <1>5, <2>5, <3>2 DEF Cells, At
        <4> QED BY <1>2, <3>2, <4>1 DEF Ledger, Accounting, Free
      <3> QED BY <2>5, <2>8, <3>2, <3>3 DEF IInv, FreeIsEmpty
    <2>12. Backed'
      <3>1. SUFFICES ASSUME NEW r \in Rows, NEW k \in Cols
                     PROVE /\ k < BlocksFor(len'[r]) => block_table'[r][k] # NoBlock
                           /\ k > TokenCol(len'[r]) \/ len'[r] = 0
                                => block_table'[r][k] = NoBlock
        BY DEF Backed, BlocksFor, TokenCol
      <3>2. At(<<r, k>>) = block_table[r][k] /\ At(<<r, k>>)' = block_table'[r][k]
        BY DEF At
      <3>3. CASE r \in B
        <4>1. len'[r] = ctx[r] /\ ctx[r] \in Nat /\ ctx[r] > 0
          BY <1>7, <2>9, <3>3
        <4>2. k < BlocksFor(ctx[r]) => block_table'[r][k] # NoBlock
          BY <1>3, <2>6, <3>2, <3>3 DEF Free, Blocks, NoBlock
        <4>3. k > TokenCol(ctx[r]) => ~ (k < BlocksFor(ctx[r]))
          <5>1. BlocksFor(ctx[r]) = TokenCol(ctx[r] - 1) + 1
            BY <4>1, BlocksForColumns
          <5>2. TokenCol(ctx[r] - 1) <= TokenCol(ctx[r])
            BY <4>1, ColMonotone
          <5>3. TokenCol(ctx[r] - 1) \in Int /\ TokenCol(ctx[r]) \in Int /\ k \in Int
            BY <4>1, ColBounds DEF Cols
          <5> QED BY <5>1, <5>2, <5>3
        <4>4. ~ (k < BlocksFor(ctx[r])) => block_table'[r][k] = NoBlock
          BY <1>2, <1>3, <1>4, <2>5, <3>2, <3>3
        <4> QED BY <4>1, <4>2, <4>3, <4>4
      <3>4. CASE r \notin B
        <4>1. len'[r] = len[r]
          BY <2>9, <3>4
        <4>2. block_table'[r][k] = block_table[r][k]
          BY <1>3, <2>5, <3>2, <3>4
        <4> QED BY <4>1, <4>2 DEF IInv, Backed
      <3> QED BY <3>3, <3>4
    <2>13. Filled'
      <3>1. SUFFICES ASSUME NEW c \in Cells'
                     PROVE allocated_size'[At(c)'] + BlockSize * c[2] <= len'[c[1]] + 1
        BY DEF Filled
      <3>2. CASE c \in S
        <4>1. len'[c[1]] = ctx[c[1]] /\ ctx[c[1]] \in Nat /\ c[2] \in Int
          BY <1>2, <1>3, <1>7, <2>9, <3>2 DEF Cols
        <4>2. asked[c] \in 1 .. BlockSize /\ asked[c] + BlockSize * c[2] <= ctx[c[1]]
          BY <2>7, <3>2
        <4>3. allocated_size'[At(c)'] = asked[c]
          BY <2>6, <2>7, <2>8, <3>2
        <4>4. BlockSize * c[2] \in Int
          BY <4>1, KVAssumption
        <4> QED BY <4>1, <4>2, <4>3, <4>4
      <3>3. CASE c \notin S
        <4>1. c \in Cells /\ At(c)' = At(c) /\ At(c) \in Blocks
          BY <1>2, <2>5, <3>1, <3>3 DEF Cells, Ledger, At
        <4>2. c[1] \notin B
          BY <1>4, <4>1 DEF Cells
        <4>3. len'[c[1]] = len[c[1]]
          BY <2>9, <4>1, <4>2 DEF Cells
        <4>4. \A d \in S : At(d)' # At(c)
          BY <2>5, <3>1, <3>3, <4>1 DEF Ledger, NoSharing, At
        <4>5. allocated_size'[At(c)] = allocated_size[At(c)]
          BY <2>8, <4>1, <4>4
        <4> QED BY <4>1, <4>3, <4>5 DEF IInv, Filled
      <3> QED BY <3>2, <3>3
    <2>14. OnlyFragmentation'
      BY <2>8 DEF IInv, OnlyFragmentation
    <2>15. Kept
      BY <1>5, <2>5 DEF Kept, Cells, At
    <2>16. WithinBatch'
      <3>1. Active' = Active \cup B
        BY <1>2, <1>7, <2>9 DEF Active
      <3>2. Cardinality(Active \cup B) <= MaxBatchSize
        BY DEF Prefill, B
      <3> QED BY <3>1, <3>2 DEF WithinBatch
    <2> QED BY <2>5, <2>10, <2>11, <2>12, <2>13, <2>14, <2>15, <2>16 DEF IInv, Ledger
  <1>10. \/ n > available_blocks
         \/ FreeRuns(n) = {} /\ Fail("Fragmented")
         \/ \E s \in FreeRuns(n) : Place(S, [c \in S |-> s + Rank(rs, c, S)])
                                  /\ Occupy(S, ContextAsked(S, ctx))
    BY <1>1 DEF AllocateContextTables, S, n
  <1>11. ~ (n > available_blocks)
    BY <1>2, <1>6 DEF Ledger
  <1>12. CASE \E s \in FreeRuns(n) : Place(S, [c \in S |-> s + Rank(rs, c, S)])
                                  /\ Occupy(S, ContextAsked(S, ctx))
    BY <1>9, <1>12, Zenon
  <1> QED BY <1>8, <1>10, <1>11, <1>12, Zenon

\* The position after a new token gets room in every running row.
LEMMA DecodeStep ==
  ASSUME IInv, NEW rs \in Batches, Decode(rs), BlockSize > 1
  PROVE  IInv' /\ Kept
  <1> DEFINE B == BatchRows(rs)
             S == TokenCells(rs, len')
             need == {c \in S : At(c) = NoBlock}
             T == MaxInputLen + MaxOutputLen
             f == [c \in need |-> Ith(Free, Rank(rs, c, need))]
             asked == [c \in S |-> 1]
  <1>1. B \subseteq Rows
    BY BatchFacts
  <1>2. /\ raised = "none" /\ Ledger
        /\ len \in [Rows -> 0 .. T] /\ T \in Nat
        /\ len' = [r \in Rows |-> IF r \in B THEN len[r] + 1 ELSE len[r]]
        /\ \A r \in B : len[r] > 0 /\ len[r] + 1 < T
    BY IInvLedger, UsageAssumption DEF Decode, IInv, TypeOK, Active
  <1>3. /\ \A r \in B : len[r] \in Nat /\ len'[r] = len[r] + 1
        /\ \A r \in Rows \ B : len'[r] = len[r]
        /\ len' \in [Rows -> 0 .. T]
    BY <1>1, <1>2
  <1>4. ASSUME NEW r \in B PROVE TokenCol(len'[r]) \in Cols
    <2>1. len'[r] \in Nat /\ len'[r] <= T - 1
      BY <1>2, <1>3
    <2>2. TokenCol(len'[r]) \in Nat
      BY <2>1, ColNat
    <2>3. TokenCol(len'[r]) <= TokenCol(T - 1)
      BY <1>2, <2>1, ColMonotone
    <2>4. MaxBlocksPerSeq = TokenCol(T - 1) + 1
      BY <1>2, UsageAssumption, BlocksForColumns
    <2>5. TokenCol(T - 1) \in Int
      BY <1>2, ColBounds
    <2> QED BY <2>2, <2>3, <2>4, <2>5, KVAssumption DEF Cols
  <1>5. /\ S \in SUBSET (Rows \X Cols) /\ S \in SUBSET (B \X Cols)
        /\ \A r \in B : \A k \in Cols : <<r, k>> \in S <=> k = TokenCol(len'[r])
    BY <1>1 DEF TokenCells
  <1>6. /\ need \in SUBSET (Rows \X Cols) /\ need \in SUBSET (B \X Cols)
        /\ \A c \in need : At(c) = NoBlock
    BY <1>5
  <1>7. Cardinality(need) <= available_blocks /\ IsFiniteSet(need)
        /\ Cardinality(need) \in Nat
    <2>1. /\ Active \in SUBSET Rows /\ Cells \subseteq Active \X Cols
          /\ Cardinality(Active) <= MaxBatchSize /\ B \subseteq Active
      BY ActiveCells DEF IInv, WithinBatch, Decode
    <2>2. need \in SUBSET (Active \X Cols)
      BY <1>6, <2>1
    <2> HIDE DEF need
    <2> QED BY <1>2, <1>6, <2>1, <2>2, EnoughBlocks
  <1>8. Place(need, f) /\ Occupy(S, asked)
    <2>1. AllocateTokens(rs, len')
      BY DEF Decode
    <2>2. ~ \E r \in B : TokenCol(len'[r]) \notin Cols
      BY <1>4
    <2>3. ~ (Cardinality(need) > available_blocks)
      BY <1>2, <1>7 DEF Ledger
    <2> QED BY <2>1, <2>2, <2>3, Zenon DEF AllocateTokens
  <1> HIDE DEF S, need, B, T
  <1>9. /\ \A c \in need : Rank(rs, c, need) \in 0 .. Cardinality(need) - 1
        /\ \A c, d \in need : Rank(rs, c, need) = Rank(rs, d, need) => c = d
    BY <1>6, <1>7, RankNumbers DEF B
  <1>10. /\ Free \in SUBSET Int /\ IsFiniteSet(Free)
         /\ \A c \in need : Rank(rs, c, need) \in 0 .. Cardinality(Free) - 1
    <2>1. Free \in SUBSET Int
      BY DEF Free, Blocks
    <2>2. Cardinality(need) <= Cardinality(Free)
      BY <1>2, <1>7 DEF Ledger, Accounting
    <2>3. Cardinality(Free) \in Nat
      BY Finite, FS_CardinalityType
    <2>4. \A c \in need : Rank(rs, c, need) \in 0 .. Cardinality(Free) - 1
      BY <1>7, <1>9, <2>2, <2>3
    <2> QED BY <2>1, <2>4, Finite
  <1>11. f \in [need -> Free]
    <2>1. ASSUME NEW c \in need PROVE Ith(Free, Rank(rs, c, need)) \in Free
      BY <1>10, IthExists
    <2> QED BY <2>1
  <1>12. ASSUME NEW c \in need, NEW d \in need, f[c] = f[d] PROVE c = d
    <2>1. Ith(Free, Rank(rs, c, need)) = Ith(Free, Rank(rs, d, need))
      BY <1>12
    <2>2. Rank(rs, c, need) = Rank(rs, d, need)
      BY <1>10, <2>1, IthInjective
    <2> QED BY <1>9, <2>2
  <1> HIDE DEF f, asked
  <1>13. /\ Ledger'
         /\ Cells' = Cells \cup need
         /\ \A c \in need : At(c)' = f[c]
         /\ \A c \in (Rows \X Cols) \ need : At(c)' = At(c)
    BY <1>2, <1>6, <1>8, <1>11, <1>12, PlaceKeepsLedger
  <1>14. \A c \in need : At(c)' \in Free /\ allocated_size[At(c)'] = 0
    BY <1>11, <1>13 DEF IInv, FreeIsEmpty
  <1>15. \A c \in S : /\ c[1] \in B /\ c[2] \in Nat /\ c[2] = TokenCol(len'[c[1]])
                       /\ BlockSize * c[2] \in Int
                       /\ BlockSize * c[2] <= len'[c[1]]
                       /\ len'[c[1]] < BlockSize * c[2] + BlockSize
                       /\ len'[c[1]] = len[c[1]] + 1 /\ len[c[1]] \in Nat
    <2>1. TAKE c \in S
    <2>2. c[1] \in B /\ c[2] \in Cols /\ c[2] \in Nat /\ c[2] = TokenCol(len'[c[1]])
      BY <1>5 DEF Cols
    <2>3. len'[c[1]] = len[c[1]] + 1 /\ len[c[1]] \in Nat
      BY <1>3, <2>2
    <2>4. BlockSize * c[2] \in Int
      BY <2>2, KVAssumption
    <2> QED BY <2>2, <2>3, <2>4, ColBounds
  <1>16. \A c \in S \ need : c \in Cells /\ At(c)' = At(c) /\ At(c) \in Blocks
    BY <1>2, <1>5, <1>13 DEF need, Cells, At, Ledger
  <1>17. \A b \in Blocks : allocated_size[b] \in 0 .. BlockSize
    BY DEF IInv, TypeOK, KVTypeOK
  <1>18. \A c \in S : /\ allocated_size[At(c)'] + 1 <= BlockSize
                       /\ allocated_size[At(c)'] + 1 + BlockSize * c[2] <= len'[c[1]] + 1
    <2>1. TAKE c \in S
    <2>2. CASE c \in need
      BY <1>14, <1>15, <2>2, KVAssumption
    <2>3. CASE c \notin need
      <3>1. allocated_size[At(c)] + BlockSize * c[2] <= len[c[1]] + 1
        BY <1>16, <2>3 DEF IInv, Filled
      <3>2. allocated_size[At(c)] \in Int /\ At(c)' = At(c)
        BY <1>16, <1>17, <2>3
      <3> QED BY <1>15, <3>1, <3>2, KVAssumption
    <2> QED BY <2>2, <2>3
  <1>19. /\ raised' = raised
         /\ allocated_size' \in [Blocks -> 0 .. BlockSize]
         /\ \A c \in S : allocated_size'[At(c)'] = allocated_size[At(c)'] + 1
         /\ \A b \in Blocks : (\A c \in S : At(c)' # b) =>
                                 allocated_size'[b] = allocated_size[b]
    <2>1. asked \in [S -> 1 .. BlockSize] /\ \A c \in S : asked[c] = 1
      BY KVAssumption DEF asked
    <2>2. \A c \in S : allocated_size[At(c)'] + asked[c] <= BlockSize
      BY <1>18, <2>1
    <2>3. S \subseteq Cells'
      BY <1>13, <1>16
    <2>4. allocated_size \in [Blocks -> 0 .. BlockSize]
      BY DEF IInv, TypeOK, KVTypeOK
    <2>5. \A c \in S : allocated_size'[At(c)'] = allocated_size[At(c)'] + asked[c]
      BY <1>5, <1>8, <1>13, <2>1, <2>2, <2>3, <2>4, OccupyAdds
    <2>6. /\ raised' = raised
          /\ allocated_size' \in [Blocks -> 0 .. BlockSize]
          /\ \A b \in Blocks : (\A c \in S : At(c)' # b) =>
                                 allocated_size'[b] = allocated_size[b]
      BY <1>5, <1>8, <1>13, <2>1, <2>2, <2>3, <2>4, OccupyAdds
    <2> QED BY <2>1, <2>5, <2>6
  <1>20. TypeOK'
    BY <1>3, <1>13, <1>19 DEF IInv, TypeOK, KVTypeOK, Ledger, T
  <1>21. FreeIsEmpty'
    <2>1. SUFFICES ASSUME NEW b \in Free' PROVE allocated_size'[b] = 0
      BY DEF FreeIsEmpty
    <2>2. b \in Blocks /\ \A c \in Cells' : At(c)' # b
      BY <1>13 DEF Free, Ledger, Accounting
    <2>3. b \in Free
      <3>1. \A c \in Cells : At(c) # b
        BY <1>6, <1>13, <2>2 DEF Cells, At
      <3> QED BY <1>2, <2>2, <3>1 DEF Ledger, Accounting, Free
    <2>4. \A c \in S : At(c)' # b
      BY <1>13, <1>16, <2>2
    <2> QED BY <1>19, <2>2, <2>3, <2>4 DEF IInv, FreeIsEmpty
  <1>22. Backed'
    <2>1. SUFFICES ASSUME NEW r \in Rows, NEW k \in Cols
                   PROVE /\ k < BlocksFor(len'[r]) => block_table'[r][k] # NoBlock
                         /\ k > TokenCol(len'[r]) \/ len'[r] = 0
                              => block_table'[r][k] = NoBlock
      BY DEF Backed, BlocksFor, TokenCol
    <2>2. At(<<r, k>>) = block_table[r][k] /\ At(<<r, k>>)' = block_table'[r][k]
      BY DEF At
    <2>3. CASE r \in B
      <3> DEFINE n == len[r]
      <3>1. n \in Nat /\ n > 0 /\ len'[r] = n + 1
        BY <1>2, <1>3, <2>3
      <3>2. /\ BlocksFor(n + 1) = TokenCol(n) + 1
            /\ BlocksFor(n) = TokenCol(n - 1) + 1
        <4>1. (n + 1) - 1 = n
          BY <3>1
        <4> QED BY <3>1, <4>1, BlocksForColumns
      <3>3. /\ TokenCol(n) <= TokenCol(n - 1) + 1
            /\ TokenCol(n) <= TokenCol(n + 1)
        <4>1. n - 1 \in Int /\ (n - 1) + 1 = n
          BY <3>1
        <4>2. TokenCol((n - 1) + 1) <= TokenCol(n - 1) + 1
          BY <4>1, ColNext
        <4> QED BY <3>1, <4>1, <4>2, ColMonotone
      <3>4. \/ TokenCol(n + 1) = TokenCol(n)
            \/ TokenCol(n + 1) = TokenCol(n) + 1 /\ TokenCol(n - 1) = TokenCol(n)
        BY <3>1, ColStep
      <3>5. /\ TokenCol(n - 1) \in Int /\ TokenCol(n) \in Int
            /\ TokenCol(n + 1) \in Int /\ k \in Int
        BY <3>1, ColBounds DEF Cols
      <3>6. <<r, k>> \in S <=> k = TokenCol(n + 1)
        BY <1>5, <2>3, <3>1
      <3>7. <<r, k>> \in S => block_table'[r][k] # NoBlock
        BY <1>14, <1>16, <2>2 DEF Free, Blocks, NoBlock
      <3>8. block_table[r][k] # NoBlock => block_table'[r][k] = block_table[r][k]
        BY <1>13, <2>2 DEF need
      <3>9. <<r, k>> \notin S => block_table'[r][k] = block_table[r][k]
        BY <1>13, <2>2 DEF need
      <3>10. ASSUME k < BlocksFor(len'[r]) PROVE block_table'[r][k] # NoBlock
        <4>1. k <= TokenCol(n)
          BY <3>1, <3>2, <3>5, <3>10
        <4>2. CASE k = TokenCol(n + 1)
          BY <3>6, <3>7, <4>2
        <4>3. CASE k # TokenCol(n + 1)
          <5>1. k < BlocksFor(n)
            BY <3>2, <3>3, <3>4, <3>5, <4>1, <4>3
          <5>2. block_table[r][k] # NoBlock
            BY <5>1 DEF IInv, Backed
          <5> QED BY <3>8, <5>2
        <4> QED BY <4>2, <4>3
      <3>11. ASSUME k > TokenCol(len'[r]) \/ len'[r] = 0
             PROVE  block_table'[r][k] = NoBlock
        <4>1. k > TokenCol(n + 1)
          BY <3>1, <3>11
        <4>2. k > TokenCol(n)
          BY <3>3, <3>5, <4>1
        <4>3. block_table[r][k] = NoBlock
          BY <4>2 DEF IInv, Backed
        <4> QED BY <3>5, <3>6, <3>9, <4>1, <4>3
      <3> QED BY <3>10, <3>11
    <2>4. CASE r \notin B
      <3>1. len'[r] = len[r]
        BY <1>3, <2>4
      <3>2. block_table'[r][k] = block_table[r][k]
        BY <1>6, <1>13, <2>2, <2>4
      <3> QED BY <3>1, <3>2 DEF IInv, Backed
    <2> QED BY <2>3, <2>4
  <1>23. Filled'
    <2>1. SUFFICES ASSUME NEW c \in Cells'
                   PROVE allocated_size'[At(c)'] + BlockSize * c[2] <= len'[c[1]] + 1
      BY DEF Filled
    <2>2. CASE c \in S
      BY <1>18, <1>19, <2>2
    <2>3. CASE c \notin S
      <3>1. c \in Cells /\ At(c)' = At(c) /\ At(c) \in Blocks /\ c[1] \in Rows /\ c[2] \in Nat
        <4>1. c \notin need
          BY <2>3 DEF need
        <4>2. c \in Cells
          BY <1>13, <2>1, <4>1
        <4>3. c \in Rows \X Cols /\ At(c) # NoBlock
          BY <4>2 DEF Cells, At
        <4>4. At(c)' = At(c)
          BY <1>13, <4>1, <4>3
        <4>5. At(c) \in Blocks
          BY <1>2, <4>3 DEF Ledger, At
        <4> QED BY <4>2, <4>3, <4>4, <4>5 DEF Cols
      <3>2. \A d \in S : d \in Cells' /\ At(d)' # At(c)
        BY <1>13, <1>16, <2>1, <2>3, <3>1 DEF Ledger, NoSharing, At
      <3>3. allocated_size'[At(c)] = allocated_size[At(c)]
        BY <1>19, <3>1, <3>2
      <3>4. len[c[1]] \in Nat /\ len'[c[1]] \in Nat /\ len[c[1]] <= len'[c[1]]
        BY <1>2, <1>3, <3>1
      <3>5. allocated_size[At(c)] + BlockSize * c[2] <= len[c[1]] + 1
        BY <3>1 DEF IInv, Filled
      <3>6. allocated_size[At(c)] \in Int /\ BlockSize * c[2] \in Int
        BY <1>17, <3>1, KVAssumption
      <3> QED BY <3>1, <3>3, <3>4, <3>5, <3>6
    <2> QED BY <2>2, <2>3
  <1>24. OnlyFragmentation'
    BY <1>19 DEF IInv, OnlyFragmentation
  <1>25. WithinBatch'
    <2>1. Active' = Active
      BY <1>1, <1>2, <1>3 DEF Active
    <2> QED BY <2>1 DEF IInv, WithinBatch
  <1>26. Kept
    BY <1>6, <1>13 DEF Kept, Cells, At
  <1> QED BY <1>13, <1>20, <1>21, <1>22, <1>23, <1>24, <1>25, <1>26 DEF IInv, Ledger

\* A finished row gives back every block it had.
LEMMA FinishStep ==
  ASSUME IInv, NEW R \in SUBSET Rows, Finish(R)
  PROVE  /\ IInv'
         /\ Cells' = {c \in Cells : c[1] \notin R}
         /\ \A c \in Cells' : At(c)' = At(c)
  <1>1. /\ raised = "none" /\ FreeTables(R)
        /\ len' = [r \in Rows |-> IF r \in R THEN 0 ELSE len[r]]
    BY DEF Finish
  <1>2. Ledger /\ NoHole
    BY IInvLedger, BackedNoHole
  <1>3. /\ Ledger' /\ raised' = raised
        /\ Cells' = {c \in Cells : c[1] \notin R}
        /\ \A c \in Cells' : At(c)' = At(c)
        /\ allocated_size' = [b \in Blocks |->
                               IF \E c \in Cells \ Cells' : At(c) = b
                               THEN 0 ELSE allocated_size[b]]
    BY <1>1, <1>2, FreeKeepsLedger
  <1>4. \A b \in Blocks : allocated_size[b] \in 0 .. BlockSize
    BY DEF IInv, TypeOK, KVTypeOK
  <1>5. TypeOK'
    <2>1. allocated_size' \in [Blocks -> 0 .. BlockSize]
      BY <1>3, <1>4, KVAssumption
    <2>2. len' \in [Rows -> 0 .. MaxInputLen + MaxOutputLen]
      BY <1>1, UsageAssumption DEF IInv, TypeOK
    <2> QED BY <1>3, <2>1, <2>2 DEF IInv, TypeOK, KVTypeOK, Ledger
  <1>6. FreeIsEmpty'
    <2>1. SUFFICES ASSUME NEW b \in Free' PROVE allocated_size'[b] = 0
      BY DEF FreeIsEmpty
    <2>2. b \in Blocks /\ \A c \in Cells' : At(c)' # b
      BY <1>3 DEF Free, Ledger, Accounting
    <2>3. CASE \E c \in Cells \ Cells' : At(c) = b
      BY <1>3, <2>2, <2>3
    <2>4. CASE \A c \in Cells \ Cells' : At(c) # b
      <3>1. \A c \in Cells : At(c) # b
        BY <1>3, <2>2, <2>4
      <3>2. b \in Free
        BY <1>2, <2>2, <3>1 DEF Ledger, Accounting, Free
      <3> QED BY <1>3, <2>2, <2>4, <3>2 DEF IInv, FreeIsEmpty
    <2> QED BY <2>3, <2>4
  <1>7. Backed'
    <2>1. SUFFICES ASSUME NEW r \in Rows, NEW k \in Cols
                   PROVE /\ k < BlocksFor(len'[r]) => block_table'[r][k] # NoBlock
                         /\ k > TokenCol(len'[r]) \/ len'[r] = 0
                              => block_table'[r][k] = NoBlock
      BY DEF Backed, BlocksFor, TokenCol
    <2>2. <<r, k>> \in Cells' <=> block_table'[r][k] # NoBlock
      BY DEF Cells
    <2>3. <<r, k>> \in Cells <=> block_table[r][k] # NoBlock
      BY DEF Cells
    <2>4. CASE r \in R
      <3>1. block_table'[r][k] = NoBlock
        BY <1>3, <2>2, <2>4
      <3>2. len'[r] = 0 /\ BlocksFor(0) = 0
        BY <1>1, <2>4, BlocksForColumns
      <3>3. ~ (k < BlocksFor(len'[r]))
        BY <3>2 DEF Cols
      <3> QED BY <3>1, <3>3
    <2>5. CASE r \notin R
      <3>1. len'[r] = len[r]
        BY <1>1, <2>5
      <3>2. block_table'[r][k] # NoBlock <=> block_table[r][k] # NoBlock
        BY <1>3, <2>2, <2>3, <2>5
      <3> QED BY <3>1, <3>2 DEF IInv, Backed
    <2> QED BY <2>4, <2>5
  <1>8. Filled'
    <2>1. SUFFICES ASSUME NEW c \in Cells'
                   PROVE allocated_size'[At(c)'] + BlockSize * c[2] <= len'[c[1]] + 1
      BY DEF Filled
    <2>2. c \in Cells /\ c[1] \in Rows /\ c[1] \notin R /\ At(c)' = At(c) /\ At(c) \in Blocks
      BY <1>2, <1>3, <2>1 DEF Cells, Ledger, At
    <2>3. ~ \E d \in Cells \ Cells' : At(d) = At(c)
      BY <1>2, <2>1, <2>2 DEF Ledger, NoSharing
    <2>4. allocated_size'[At(c)] = allocated_size[At(c)] /\ len'[c[1]] = len[c[1]]
      BY <1>1, <1>3, <2>2, <2>3
    <2> QED BY <2>2, <2>4 DEF IInv, Filled
  <1>9. OnlyFragmentation'
    BY <1>3 DEF IInv, OnlyFragmentation
  <1>10. WithinBatch'
    <2>1. Active' \subseteq Active /\ IsFiniteSet(Active)
      BY <1>1, KVAssumption, FS_Subset DEF Active
    <2>2. /\ Cardinality(Active') <= Cardinality(Active)
          /\ Cardinality(Active') \in Nat /\ Cardinality(Active) \in Nat
      BY <2>1, FS_Subset, FS_CardinalityType
    <2> QED BY <2>2, UsageAssumption DEF IInv, WithinBatch
  <1> QED BY <1>3, <1>5, <1>6, <1>7, <1>8, <1>9, <1>10 DEF IInv, Ledger

\* clear_all returns to the initial state.
LEMMA ClearStep ==
  ASSUME IInv, Clear PROVE IInv'
  <1>1. Init'
    BY DEF Clear, ClearAll, Init, KVInit, EmptyTable
  <1>2. Init' => IInv'
    BY InitIInv, PTL
  <1> QED BY <1>1, <1>2

LEMMA StepIInv ==
  ASSUME IInv, [Next]_vars, BlockSize > 1
  PROVE  IInv'
  <1>1. ASSUME NEW rs \in Batches, Prefill(rs) PROVE IInv'
    BY <1>1, PrefillStep
  <1>2. ASSUME NEW rs \in Batches, Decode(rs) PROVE IInv'
    BY <1>2, DecodeStep
  <1>3. ASSUME NEW R \in SUBSET Rows, Finish(R) PROVE IInv'
    BY <1>3, FinishStep
  <1>4. CASE Clear
    BY <1>4, ClearStep
  <1>5. CASE UNCHANGED vars
    BY <1>5 DEF vars, IInv, WithinBatch, Active, TypeOK, KVTypeOK, Errors, NoSharing, Accounting,
                FreeIsEmpty, Backed, Filled, OnlyFragmentation, Cells, At, Free,
                BlocksFor, TokenCol
  <1> QED BY <1>1, <1>2, <1>3, <1>4, <1>5 DEF Next

\* For any number of sequences, lengths and blocks of two tokens or more,
\* the inductive invariant holds throughout.
THEOREM Invariance ==
  ASSUME BlockSize > 1
  PROVE  Spec => []IInv
  <1>1. Init => IInv
    BY InitIInv
  <1>2. IInv /\ [Next]_vars => IInv'
    BY StepIInv
  <1> QED BY <1>1, <1>2, PTL DEF Spec

-----------------------------------------------------------------------------
(* What the invariant gives, property by property.                         *)

\* KVCacheManager's and CacheBlock's fields keep their types: sizes stay
\* within a block, table entries are block ids or -1.
THEOREM TypeCorrect ==
  ASSUME BlockSize > 1
  PROVE  Spec => []TypeOK
  <1>1. IInv => TypeOK
    BY DEF IInv
  <1> QED BY <1>1, Invariance, PTL

\* No block is in the tables of two sequences, or twice in one.
THEOREM NeverShared ==
  ASSUME BlockSize > 1
  PROVE  Spec => []NoSharing
  <1>1. IInv => NoSharing
    BY DEF IInv
  <1> QED BY <1>1, Invariance, PTL

\* _available_blocks, _block_states, the reference counts and the tables agree.
THEOREM AlwaysAccounted ==
  ASSUME BlockSize > 1
  PROVE  Spec => []Accounting
  <1>1. IInv => Accounting
    BY DEF IInv
  <1> QED BY <1>1, Invariance, PTL

\* Every token of a running sequence has a block and idle rows have none.
THEOREM AlwaysBacked ==
  ASSUME BlockSize > 1
  PROVE  Spec => []Backed
  <1>1. IInv => Backed
    BY DEF IInv
  <1> QED BY <1>1, Invariance, PTL

\* free_block_table never stops before the last block of a row.
THEOREM NeverHoled ==
  ASSUME BlockSize > 1
  PROVE  Spec => []NoHole
  <1>1. IInv => NoHole
    BY BackedNoHole
  <1> QED BY <1>1, Invariance, PTL

\* As many blocks as table cells are always enough: neither the recycling
\* branch of allocate_tokens_from_block_tables nor an assertion of
\* CacheBlock is ever reached.  Fragmentation is the only way to fail.
THEOREM NeverLacking ==
  ASSUME BlockSize > 1
  PROVE  Spec => []OnlyFragmentation
  <1>1. IInv => OnlyFragmentation
    BY DEF IInv
  <1> QED BY <1>1, Invariance, PTL

-----------------------------------------------------------------------------
(* The manager implements the pool of blocks.                              *)

\* The owner of a block in a cell is the row of the cell; others have none.
Owners == /\ \A c \in Cells : Owner(At(c)) = c[1]
          /\ \A b \in Blocks : (\A c \in Cells : At(c) # b) => Owner(b) = Nobody
          /\ \A b \in Blocks : Owner(b) \in Rows \cup {Nobody}

LEMMA OwnersKnown == Ledger => Owners
  <1>1. SUFFICES ASSUME Ledger PROVE Owners
    OBVIOUS
  <1>2. ASSUME NEW c \in Cells PROVE Owner(At(c)) = c[1]
    <2>1. \E d \in Cells : At(d) = At(c)
      OBVIOUS
    <2>2. (CHOOSE d \in Cells : At(d) = At(c)) = c
      BY <1>1 DEF Ledger, NoSharing
    <2> QED BY <2>1, <2>2 DEF Owner
  <1>3. ASSUME NEW b \in Blocks, \A c \in Cells : At(c) # b PROVE Owner(b) = Nobody
    BY <1>3 DEF Owner
  <1>4. \A c \in Cells : c[1] \in Rows
    BY DEF Cells
  <1>5. ASSUME NEW b \in Blocks PROVE Owner(b) \in Rows \cup {Nobody}
    <2>1. CASE \E c \in Cells : At(c) = b
      BY <1>2, <1>4, <2>1
    <2>2. CASE \A c \in Cells : At(c) # b
      BY <1>3, <2>2
    <2> QED BY <2>1, <2>2
  <1> QED BY <1>2, <1>3, <1>5 DEF Owners

LEMMA OwnersKnownNext == Ledger' => Owners'
  BY OwnersKnown, PTL

\* Cells that only gain contents acquire blocks from the pool.
LEMMA AcquireStep ==
  ASSUME Ledger, Ledger', Cells \subseteq Cells', \A c \in Cells : At(c)' = At(c)
  PROVE  Pool!Acquire
  <1>1. Owners /\ Owners'
    BY OwnersKnown, OwnersKnownNext
  <1>2. [b \in Blocks |-> Owner(b)]' \in [Blocks -> Rows \cup {Nobody}]
    BY <1>1 DEF Owners
  <1>3. ASSUME NEW b \in Blocks, Owner(b) # Nobody PROVE Owner(b)' = Owner(b)
    <2>1. PICK c \in Cells : At(c) = b
      BY <1>1, <1>3 DEF Owners
    <2>2. c \in Cells' /\ At(c)' = b
      BY <2>1
    <2>3. Owner(b) = c[1]
      BY <1>1, <2>1 DEF Owners
    <2>4. Owner(b)' = c[1]
      BY <1>1, <2>2 DEF Owners, At
    <2> QED BY <2>3, <2>4
  <1> QED BY <1>2, <1>3 DEF Pool!Acquire

\* Emptying rows returns all their blocks to the pool.
LEMMA ReleaseStep ==
  ASSUME Ledger, Ledger', NEW R \in SUBSET Rows,
         Cells' = {c \in Cells : c[1] \notin R}, \A c \in Cells' : At(c)' = At(c)
  PROVE  Pool!Release(R)
  <1>1. Owners /\ Owners'
    BY OwnersKnown, OwnersKnownNext
  <1>2. ASSUME NEW b \in Blocks
        PROVE  Owner(b)' = IF Owner(b) \in R THEN Nobody ELSE Owner(b)
    <2>1. CASE \A c \in Cells : At(c) # b
      <3>1. \A c \in Cells' : At(c)' # b
        BY <2>1
      <3>2. Owner(b)' = Nobody /\ Owner(b) = Nobody
        BY <1>1, <2>1, <3>1 DEF Owners, At
      <3> QED BY <3>2
    <2>2. ASSUME NEW c \in Cells, At(c) = b
          PROVE  Owner(b)' = IF Owner(b) \in R THEN Nobody ELSE Owner(b)
      <3>1. Owner(b) = c[1]
        BY <1>1, <2>2 DEF Owners
      <3>2. CASE c[1] \in R
        <4>1. \A d \in Cells' : At(d)' # b
          BY <2>2, <3>2 DEF Ledger, NoSharing
        <4>2. Owner(b)' = Nobody
          BY <1>1, <4>1 DEF Owners, At
        <4> QED BY <3>1, <3>2, <4>2
      <3>3. CASE c[1] \notin R
        <4>1. c \in Cells' /\ At(c)' = b
          BY <2>2, <3>3
        <4>2. Owner(b)' = c[1]
          BY <1>1, <4>1 DEF Owners, At
        <4> QED BY <3>1, <3>3, <4>2
      <3> QED BY <3>2, <3>3
    <2> QED BY <2>1, <2>2
  <1> QED BY <1>2 DEF Pool!Release

\* Every step of the manager under its protocol is a step of the pool or
\* leaves the owners alone.
LEMMA PoolStep ==
  ASSUME IInv, [Next]_vars, BlockSize > 1
  PROVE  [Pool!Next]_([b \in Blocks |-> Owner(b)])
  <1>1. IInv'
    BY StepIInv
  <1>2. Ledger /\ Ledger'
    <2>1. IInv' => Ledger'
      BY IInvLedger, PTL
    <2> QED BY <1>1, <2>1, IInvLedger
  <1>3. ASSUME NEW rs \in Batches, Prefill(rs) \/ Decode(rs) PROVE Pool!Next
    <2>1. Kept
      BY <1>3, PrefillStep, DecodeStep
    <2> QED BY <1>2, <2>1, AcquireStep DEF Kept, Pool!Next
  <1>4. ASSUME NEW R \in SUBSET Rows, Finish(R) PROVE Pool!Next
    BY <1>2, <1>4, FinishStep, ReleaseStep DEF Pool!Next
  <1>5. CASE Clear
    <2>1. Cells' = {c \in Cells : c[1] \notin Rows}
      BY <1>5 DEF Clear, ClearAll, EmptyTable, Cells
    <2>2. Pool!Release(Rows)
      <3>1. \A c \in Cells' : At(c)' = At(c)
        BY <2>1 DEF Cells
      <3>2. Rows \in SUBSET Rows
        OBVIOUS
      <3> QED BY <1>2, <2>1, <3>1, <3>2, ReleaseStep
    <2> QED BY <2>2 DEF Pool!Next
  <1>6. CASE UNCHANGED vars
    BY <1>6 DEF vars, Owner, Cells, At
  <1> QED BY <1>3, <1>4, <1>5, <1>6 DEF Next

\* The manager under its protocol is a pool of blocks with one owner each,
\* whose owners return all of their blocks or none.
THEOREM Refinement ==
  ASSUME BlockSize > 1
  PROVE  Spec => ImplementsPool
  <1>1. Init => Pool!Init
    <2>1. SUFFICES ASSUME Init PROVE Pool!Init
      OBVIOUS
    <2>2. Owners
      BY <2>1, InitIInv, IInvLedger, OwnersKnown
    <2>3. Cells = {}
      BY <2>1 DEF Init, KVInit, Cells, EmptyTable
    <2> QED BY <2>2, <2>3 DEF Owners, Pool!Init
  <1>2. IInv /\ [Next]_vars => [Pool!Next]_([b \in Blocks |-> Owner(b)])
    BY PoolStep
  <1> QED BY <1>1, <1>2, Invariance, PTL DEF Spec, ImplementsPool, Pool!Spec

=============================================================================
