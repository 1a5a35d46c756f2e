-------------------------- MODULE BatchBucketProofs --------------------------
(***************************************************************************)
(* Proofs about BatchBucket, for any sequences and any number of rows: a   *)
(* row always has the length and the block table of its own sequence, and *)
(* the bucket is always compact.                                           *)
(***************************************************************************)
EXTENDS BatchBucket, FiniteSetTheorems, TLAPS

Good(B) == B \in BucketSet /\ IndexedBucket(B)
LensOK  == sentence_len \in [Seqs -> Nat \ {0}]

\* No sequence is in both buckets: it would be decoded and freed twice.
InOneBucket == Members(bb["prefill"]) \cap Members(bb["running"]) = {}

IInv == TypeOK /\ Indexed /\ RowsOfTheirOwn /\ InOneBucket

-----------------------------------------------------------------------------
LEMMA EmptyGood == Good(EmptyBucket) /\ Members(EmptyBucket) = {} /\ OwnRows(EmptyBucket)
  <1>1. EmptyBucket \in BucketSet
    BY BucketAssumption DEF EmptyBucket, BucketSet, Rows
  <1>2. Members(EmptyBucket) = {}
    BY DEF EmptyBucket, Members
  <1>3. IndexedBucket(EmptyBucket)
    BY <1>2, BucketAssumption DEF EmptyBucket, IndexedBucket, Rows
  <1> QED BY <1>1, <1>2, <1>3 DEF Good, OwnRows

\* The parts of a bucket of the set.
LEMMA BucketParts ==
  ASSUME NEW B, Good(B)
  PROVE  /\ B.dict \in Seq(Seqs) /\ B.index \in [Seqs -> {-1} \cup Rows]
         /\ B.lengths \in [Rows -> Nat] /\ B.tables \in [Rows -> Seqs \cup {NoTable}]
         /\ B.size \in 0 .. MaxBatchSize /\ B.size = Len(B.dict)
         /\ MaxBatchSize \in Nat \ {0} /\ Rows = 0 .. MaxBatchSize - 1
         /\ Members(B) \subseteq Seqs
         /\ \A s \in Members(B) : \E i \in 1 .. Len(B.dict) : B.dict[i] = s
         /\ \A i \in 1 .. Len(B.dict) : B.dict[i] \in Members(B)
  BY BucketAssumption DEF Good, BucketSet, IndexedBucket, Members, Rows

\* Concatenation and prefixes, place by place.
LEMMA ConcatFacts ==
  ASSUME NEW S, NEW d \in Seq(S), NEW e \in Seq(S)
  PROVE  /\ d \o e \in Seq(S) /\ Len(d \o e) = Len(d) + Len(e)
         /\ \A i \in 1 .. Len(d) : (d \o e)[i] = d[i]
         /\ \A i \in Len(d) + 1 .. Len(d) + Len(e) : (d \o e)[i] = e[i - Len(d)]
  OBVIOUS

LEMMA SubSeqFacts ==
  ASSUME NEW S, NEW e \in Seq(S), NEW m \in 1 .. Len(e) + 1, NEW n \in 0 .. Len(e), m <= n + 1
  PROVE  /\ SubSeq(e, m, n) \in Seq(S) /\ Len(SubSeq(e, m, n)) = n - m + 1
         /\ \A i \in 1 .. n - m + 1 : SubSeq(e, m, n)[i] = e[m + i - 1]
  OBVIOUS

\* What Added makes of a bucket: the new sequences follow the old ones, in
\* the dictionary and in the rows.
LEMMA AddedGood ==
  ASSUME LensOK, NEW B, Good(B), NEW ss \in Seq(Seqs), NEW tabs,
         \A i, j \in 1 .. Len(ss) : ss[i] = ss[j] => i = j,
         \A i \in 1 .. Len(ss) : ss[i] \notin Members(B),
         \A i \in 1 .. Least(Available(B), Len(ss)) : tabs[i] = ss[i]
  PROVE  LET C == Added(B, ss, tabs)
             k == Least(Available(B), Len(ss))
         IN /\ Good(C)
            /\ Members(C) = Members(B) \cup {ss[i] : i \in 1 .. k}
            /\ OwnRows(B) => OwnRows(C)
  <1> DEFINE C == Added(B, ss, tabs)
             k == Least(Available(B), Len(ss))
             n == B.size
  <1>0. /\ B.dict \in Seq(Seqs) /\ B.index \in [Seqs -> {-1} \cup Rows]
        /\ B.lengths \in [Rows -> Nat] /\ B.tables \in [Rows -> Seqs \cup {NoTable}]
        /\ n \in 0 .. MaxBatchSize /\ n = Len(B.dict) /\ n = B.size
        /\ MaxBatchSize \in Nat \ {0} /\ Rows = 0 .. MaxBatchSize - 1
        /\ Members(B) \subseteq Seqs
    BY BucketParts
  <1>1. k \in Nat /\ k <= Len(ss) /\ n + k <= MaxBatchSize /\ n \in Nat
    BY <1>0 DEF Least, Available
  <1> HIDE DEF k, n, C
  <1>2. (\A i \in 1 .. k : ss[i] \in Seqs) /\ (\A i \in 1 .. k : n + i - 1 \in Rows)
    <2>1. MaxBatchSize \in Nat /\ Rows = 0 .. MaxBatchSize - 1
      BY <1>0
    <2> QED BY <1>1, <2>1
  <1>3. C.dict \in Seq(Seqs) /\ Len(C.dict) = n + k
        /\ (\A i \in 1 .. n : C.dict[i] = B.dict[i])
        /\ (\A i \in n + 1 .. n + k : C.dict[i] = ss[i - n])
    <2>1. SubSeq(ss, 1, k) \in Seq(Seqs) /\ Len(SubSeq(ss, 1, k)) = k
          /\ \A i \in 1 .. k : SubSeq(ss, 1, k)[i] = ss[i]
      BY <1>1, SubSeqFacts
    <2>2. C.dict = B.dict \o SubSeq(ss, 1, k)
      BY DEF Added, k, C
    <2>3. B.dict \in Seq(Seqs) /\ n = Len(B.dict)
      BY <1>0
    <2>4. \A i \in n + 1 .. n + k : i - n \in 1 .. k
      BY <1>1
    <2> HIDE DEF Added
    <2> QED BY <2>1, <2>2, <2>3, <2>4, ConcatFacts
  <1>31. DOMAIN C.dict = 1 .. n + k /\ DOMAIN B.dict = 1 .. n
    <2>1. \A d \in Seq(Seqs) : DOMAIN d = 1 .. Len(d)
      OBVIOUS
    <2>2. B.dict \in Seq(Seqs) /\ Len(B.dict) = n
      BY <1>0
    <2> QED BY <2>1, <2>2, <1>3
  <1>4. Members(C) = Members(B) \cup {ss[i] : i \in 1 .. k}
    <2>1. ASSUME NEW i \in 1 .. n + k
          PROVE  C.dict[i] \in Members(B) \cup {ss[j] : j \in 1 .. k}
      <3>1. CASE i <= n
        <4>1. i \in 1 .. n
          BY <3>1, <1>1
        <4> QED BY <4>1, <1>3, <1>31 DEF Members
      <3>2. CASE i > n
        <4>1. i \in n + 1 .. n + k /\ i - n \in 1 .. k
          BY <3>2, <1>1
        <4> QED BY <4>1, <1>3
      <3> QED BY <3>1, <3>2, <1>1
    <2>2. ASSUME NEW s \in Members(B) PROVE s \in Members(C)
      <3>1. PICK i \in 1 .. n : B.dict[i] = s
        BY <1>31 DEF Members
      <3>2. i \in 1 .. n + k /\ C.dict[i] = s
        BY <3>1, <1>1, <1>3
      <3> QED BY <3>2, <1>31 DEF Members
    <2>3. ASSUME NEW i \in 1 .. k PROVE ss[i] \in Members(C)
      <3>1. n + i \in n + 1 .. n + k /\ n + i \in 1 .. n + k
        BY <1>1
      <3>2. C.dict[n + i] = ss[i]
        <4>1. (n + i) - n = i
          BY <1>1
        <4> QED BY <4>1, <3>1, <1>3
      <3> QED BY <3>1, <3>2, <1>31 DEF Members
    <2>4. Members(C) = {C.dict[i] : i \in 1 .. n + k}
      BY <1>31 DEF Members
    <2> QED BY <2>1, <2>2, <2>3, <2>4
  <1>5. /\ \A s \in Members(B) : C.index[s] = B.index[s]
        /\ \A i \in 1 .. k : C.index[ss[i]] = n + i - 1
        /\ \A s \in Seqs \ Members(C) : C.index[s] = B.index[s]
        /\ C.index \in [Seqs -> {-1} \cup Rows]
    <2>1. C.index = [s \in Seqs |->
                       IF \E i \in 1 .. k : ss[i] = s
                       THEN n + (CHOOSE i \in 1 .. k : ss[i] = s) - 1
                       ELSE B.index[s]]
      BY DEF Added, k, n, C
    <2>2. \A i \in 1 .. k : (CHOOSE j \in 1 .. k : ss[j] = ss[i]) = i
      BY <1>1
    <2>3. \A i \in 1 .. k : C.index[ss[i]] = n + i - 1
      <3> TAKE i \in 1 .. k
      <3>1. C.index[ss[i]] = n + (CHOOSE j \in 1 .. k : ss[j] = ss[i]) - 1
        BY <2>1, <1>2
      <3> QED BY <3>1, <2>2
    <2>4. \A s \in Members(B) : C.index[s] = B.index[s]
      BY <2>1, <1>0, <1>1
    <2>5. \A s \in Seqs \ Members(C) : C.index[s] = B.index[s]
      BY <2>1, <1>4
    <2>6. \A s \in Seqs : C.index[s] \in {-1} \cup Rows
      <3> TAKE s \in Seqs
      <3>1. CASE \E i \in 1 .. k : ss[i] = s
        BY <3>1, <2>3, <1>2
      <3>2. CASE ~ \E i \in 1 .. k : ss[i] = s
        BY <3>2, <2>1, <1>0
      <3> QED BY <3>1, <3>2
    <2>7. C.index = [s \in Seqs |-> C.index[s]]
      BY <2>1
    <2> QED BY <2>3, <2>4, <2>5, <2>6, <2>7
  <1>6. /\ C.lengths \in [Rows -> Nat] /\ C.tables \in [Rows -> Seqs \cup {NoTable}]
        /\ \A r \in Rows : r < n \/ r >= n + k =>
             C.lengths[r] = B.lengths[r] /\ C.tables[r] = B.tables[r]
        /\ \A i \in 1 .. k : C.lengths[n + i - 1] = sentence_len[ss[i]]
                             /\ C.tables[n + i - 1] = ss[i]
    <2>1. /\ C.lengths = [r \in Rows |-> IF r \in n .. n + k - 1
                                         THEN sentence_len[ss[r - n + 1]] ELSE B.lengths[r]]
          /\ C.tables = [r \in Rows |-> IF r \in n .. n + k - 1
                                        THEN tabs[r - n + 1] ELSE B.tables[r]]
      BY DEF Added, k, n, C
    <2>2. \A r \in Rows : r \in n .. n + k - 1 =>
            /\ r - n + 1 \in 1 .. k /\ ss[r - n + 1] \in Seqs
            /\ tabs[r - n + 1] = ss[r - n + 1]
            /\ sentence_len[ss[r - n + 1]] \in Nat
      <3> SUFFICES ASSUME NEW r \in Rows, r \in n .. n + k - 1
                   PROVE  /\ r - n + 1 \in 1 .. k /\ ss[r - n + 1] \in Seqs
                          /\ tabs[r - n + 1] = ss[r - n + 1]
                          /\ sentence_len[ss[r - n + 1]] \in Nat
        OBVIOUS
      <3>1. r - n + 1 \in 1 .. k
        BY <1>1
      <3> QED BY <3>1, <1>2 DEF k, LensOK
    <2>3. C.lengths \in [Rows -> Nat] /\ C.tables \in [Rows -> Seqs \cup {NoTable}]
      <3>1. B.lengths \in [Rows -> Nat] /\ B.tables \in [Rows -> Seqs \cup {NoTable}]
        BY <1>0
      <3> QED BY <2>1, <2>2, <3>1
    <2>4. \A r \in Rows : r < n \/ r >= n + k =>
             C.lengths[r] = B.lengths[r] /\ C.tables[r] = B.tables[r]
      <3> SUFFICES ASSUME NEW r \in Rows, r < n \/ r >= n + k
                   PROVE  C.lengths[r] = B.lengths[r] /\ C.tables[r] = B.tables[r]
        OBVIOUS
      <3>1. Rows = 0 .. MaxBatchSize - 1 /\ MaxBatchSize \in Nat
        BY <1>0
      <3>2. r \in Int
        BY <3>1
      <3>3. r \notin n .. n + k - 1
        BY <3>2, <1>1
      <3> QED BY <2>1, <3>3
    <2>5. ASSUME NEW i \in 1 .. k
          PROVE  C.lengths[n + i - 1] = sentence_len[ss[i]] /\ C.tables[n + i - 1] = ss[i]
      <3>1. n + i - 1 \in Rows /\ n + i - 1 \in n .. n + k - 1 /\ (n + i - 1) - n + 1 = i
        <4>1. n + i - 1 \in n .. n + k - 1 /\ (n + i - 1) - n + 1 = i
          BY <1>1
        <4> QED BY <4>1, <1>2
      <3>2. tabs[i] = ss[i]
        BY DEF k
      <3> QED BY <2>1, <3>1, <3>2
    <2> QED BY <2>3, <2>4, <2>5
  <1>7. C.size = n + k /\ C = [dict |-> C.dict, index |-> C.index, lengths |-> C.lengths,
                               tables |-> C.tables, size |-> C.size]
    BY DEF Added, k, n, C
  <1>8. C \in BucketSet
    BY <1>0, <1>1, <1>3, <1>5, <1>6, <1>7 DEF BucketSet
  <1>9. IndexedBucket(B)
    BY DEF Good
  <1>10. IndexedBucket(C)
    <2>1. \A i, j \in DOMAIN C.dict : C.dict[i] = C.dict[j] => i = j
      <3> SUFFICES ASSUME NEW i \in 1 .. n + k, NEW j \in 1 .. n + k, C.dict[i] = C.dict[j]
                   PROVE  i = j
        BY <1>31
      <3>1. \A p \in 1 .. n : B.dict[p] \in Members(B)
        BY <1>31 DEF Members
      <3>2. CASE i <= n /\ j <= n
        <4>1. i \in 1 .. n /\ j \in 1 .. n
          BY <3>2, <1>1
        <4>2. B.dict[i] = B.dict[j]
          BY <4>1, <1>3
        <4> QED BY <4>1, <4>2, <1>31, <1>9 DEF IndexedBucket
      <3>3. CASE i > n /\ j > n
        <4>0. /\ i \in n + 1 .. n + k /\ j \in n + 1 .. n + k
              /\ i - n \in 1 .. k /\ j - n \in 1 .. k
          BY <3>3, <1>1
        <4>1. i - n \in 1 .. k /\ j - n \in 1 .. k /\ ss[i - n] = ss[j - n]
          BY <4>0, <1>3
        <4>2. i - n = j - n
          BY <4>1, <1>1
        <4> QED BY <4>2, <1>1
      <3>4. CASE i <= n /\ j > n
        <4>1. i \in 1 .. n /\ j - n \in 1 .. k /\ j \in n + 1 .. n + k
          BY <3>4, <1>1
        <4>2. B.dict[i] = ss[j - n]
          BY <4>1, <1>3
        <4> QED BY <4>1, <4>2, <3>1, <1>1
      <3>5. CASE i > n /\ j <= n
        <4>1. j \in 1 .. n /\ i - n \in 1 .. k /\ i \in n + 1 .. n + k
          BY <3>5, <1>1
        <4>2. B.dict[j] = ss[i - n]
          BY <4>1, <1>3
        <4> QED BY <4>1, <4>2, <3>1, <1>1
      <3> QED BY <3>2, <3>3, <3>4, <3>5, <1>1
    <2>2. \A s \in Members(B) : C.index[s] \in 0 .. n - 1
      BY <1>5, <1>9 DEF IndexedBucket, n
    <2>3. \A i \in 1 .. k : C.index[ss[i]] \in n .. n + k - 1
      BY <1>5, <1>1
    <2>4. \A s \in Members(C) : C.index[s] \in 0 .. C.size - 1
      BY <2>2, <2>3, <1>1, <1>4, <1>7
    <2>5. ASSUME NEW r \in 0 .. C.size - 1 PROVE \E s \in Members(C) : C.index[s] = r
      <3>0. r \in 0 .. n + k - 1
        <4>1. C.size = n + k
          BY <1>7
        <4> QED BY <4>1, <1>1
      <3>1. CASE r < n
        <4>1. PICK s \in Members(B) : B.index[s] = r
          <5>1. r \in 0 .. B.size - 1
            BY <3>0, <3>1, <1>1 DEF n
          <5> QED BY <5>1, <1>9 DEF IndexedBucket
        <4> QED BY <4>1, <1>4, <1>5
      <3>2. CASE r >= n
        <4>1. r - n + 1 \in 1 .. k /\ n + (r - n + 1) - 1 = r
          BY <3>0, <3>2, <1>1
        <4>2. C.index[ss[r - n + 1]] = r /\ ss[r - n + 1] \in Members(C)
          BY <4>1, <1>4, <1>5
        <4> QED BY <4>2
      <3> QED BY <3>0, <3>1, <3>2, <1>1
    <2>6. ASSUME NEW s \in Members(C), NEW q \in Members(C), C.index[s] = C.index[q]
          PROVE  s = q
      <3>1. CASE s \in Members(B) /\ q \in Members(B)
        BY <3>1, <2>6, <1>5, <1>9 DEF IndexedBucket
      <3>2. CASE s \in Members(B) /\ q \notin Members(B)
        BY <3>2, <2>6, <2>2, <2>3, <1>1, <1>4
      <3>3. CASE s \notin Members(B) /\ q \in Members(B)
        BY <3>3, <2>6, <2>2, <2>3, <1>1, <1>4
      <3>4. CASE s \notin Members(B) /\ q \notin Members(B)
        <4>1. PICK i \in 1 .. k : s = ss[i]
          BY <3>4, <1>4
        <4>2. PICK j \in 1 .. k : q = ss[j]
          BY <3>4, <1>4
        <4>3. n + i - 1 = n + j - 1
          BY <4>1, <4>2, <2>6, <1>5
        <4> QED BY <4>1, <4>2, <4>3, <1>1
      <3> QED BY <3>1, <3>2, <3>3, <3>4
    <2>7. \A s \in Seqs \ Members(C) : C.index[s] = -1
      BY <1>4, <1>5, <1>9 DEF IndexedBucket
    <2>8. \A r \in C.size .. MaxBatchSize - 1 : C.lengths[r] = 0 /\ C.tables[r] = NoTable
      <3> SUFFICES ASSUME NEW r \in n + k .. MaxBatchSize - 1
                   PROVE  C.lengths[r] = 0 /\ C.tables[r] = NoTable
        BY <1>7
      <3>1. r \in Rows /\ r \in n .. MaxBatchSize - 1 /\ r >= n + k
        BY <1>0, <1>1
      <3> QED BY <3>1, <1>6, <1>9 DEF IndexedBucket, n
    <2>9. C.size = Len(C.dict)
      BY <1>3, <1>7
    <2>10. \A r \in 0 .. C.size - 1 : \E s \in Members(C) : C.index[s] = r
      BY <2>5
    <2>11. \A s, q \in Members(C) : C.index[s] = C.index[q] => s = q
      BY <2>6
    <2> QED BY <2>1, <2>4, <2>7, <2>8, <2>9, <2>10, <2>11, Zenon DEF IndexedBucket
  <1>11. ASSUME OwnRows(B), NEW s \in Members(C)
         PROVE  C.lengths[C.index[s]] = sentence_len[s] /\ C.tables[C.index[s]] = s
    <2>1. CASE s \in Members(B)
      <3>1. C.index[s] = B.index[s] /\ B.index[s] \in 0 .. n - 1
        BY <2>1, <1>5, <1>9 DEF IndexedBucket, n
      <3>2. B.index[s] \in Rows /\ B.index[s] < n
        BY <3>1, <1>0, <1>1
      <3> QED BY <3>1, <3>2, <2>1, <1>6, <1>11 DEF OwnRows
    <2>2. CASE s \notin Members(B)
      <3>1. PICK i \in 1 .. k : s = ss[i]
        BY <2>2, <1>4
      <3> QED BY <3>1, <1>5, <1>6
    <2> QED BY <2>1, <2>2
  <1> QED BY <1>4, <1>8, <1>10, <1>11 DEF Good, OwnRows, C, k

-----------------------------------------------------------------------------
Distinct(d) == \A i, j \in 1 .. Len(d) : d[i] = d[j] => i = j

\* o has the elements of d but the one at p, each once.
AllBut(o, d, p) ==
  /\ o \in Seq(Seqs) /\ Len(o) = Len(d) - 1
  /\ \A i, j \in 1 .. Len(d) - 1 : o[i] = o[j] => i = j
  /\ \A i \in 1 .. Len(d) - 1 : \E q \in 1 .. Len(d) : q # p /\ o[i] = d[q]
  /\ \A q \in 1 .. Len(d) : q # p => \E i \in 1 .. Len(d) - 1 : o[i] = d[q]

\* A sequence without one of its elements.
LEMMA OthersFacts ==
  ASSUME NEW d \in Seq(Seqs), NEW p \in 1 .. Len(d), Distinct(d)
  PROVE  AllBut(Others(d, d[p]), d, p)
  <1> DEFINE o == Others(d, d[p])
             m == Len(d)
             at(k) == IF k < p THEN k ELSE k + 1
  <1>0. m \in Nat /\ DOMAIN d = 1 .. m /\ p \in 1 .. m
    OBVIOUS
  <1>1. (CHOOSE i \in DOMAIN d : d[i] = d[p]) = p
    BY <1>0 DEF Distinct
  <1>2. o = [k \in 1 .. m - 1 |-> d[at(k)]]
    BY <1>1, Zenon DEF Others
  <1>3. \A k \in 1 .. m - 1 : at(k) \in 1 .. m /\ at(k) # p
    BY <1>0
  <1>4. \A k, l \in 1 .. m - 1 : at(k) = at(l) => k = l
    BY <1>0
  <1>5. \A q \in 1 .. m : q # p => \E k \in 1 .. m - 1 : at(k) = q
    <2> SUFFICES ASSUME NEW q \in 1 .. m, q # p PROVE \E k \in 1 .. m - 1 : at(k) = q
      OBVIOUS
    <2>1. CASE q < p
      BY <2>1, <1>0
    <2>2. CASE q > p
      <3>1. q - 1 \in 1 .. m - 1 /\ at(q - 1) = q
        BY <2>2, <1>0
      <3> QED BY <3>1
    <2> QED BY <2>1, <2>2, <1>0
  <1> HIDE DEF at, o, m
  <1>6. \A k \in 1 .. m - 1 : o[k] = d[at(k)] /\ d[at(k)] \in Seqs
    BY <1>0, <1>2, <1>3 DEF m
  <1>7. o \in Seq(Seqs) /\ Len(o) = m - 1
    <2>1. m - 1 \in Nat /\ o \in [1 .. m - 1 -> Seqs]
      BY <1>0, <1>2, <1>6
    <2> QED BY <2>1
  <1>8. \A i, j \in 1 .. m - 1 : o[i] = o[j] => i = j
    BY <1>3, <1>4, <1>6 DEF m, Distinct
  <1>9. \A i \in 1 .. m - 1 : \E q \in 1 .. m : q # p /\ o[i] = d[q]
    BY <1>3, <1>6
  <1>10. \A q \in 1 .. m : q # p => \E i \in 1 .. m - 1 : o[i] = d[q]
    BY <1>5, <1>6
  <1> QED BY <1>7, <1>8, <1>9, <1>10 DEF AllBut, o, m

\* pop_seq_update_batch closes the gap: the others keep their facts.
LEMMA PoppedGood ==
  ASSUME NEW B, Good(B), NEW s \in Members(B)
  PROVE  /\ Good(Popped(B, s))
         /\ Members(Popped(B, s)) = Members(B) \ {s}
         /\ OwnRows(B) => OwnRows(Popped(B, s))
  <1> DEFINE C == Popped(B, s)
             n == B.size
             j == B.index[s]
             d == B.dict
  <1>0. /\ d \in Seq(Seqs) /\ B.index \in [Seqs -> {-1} \cup Rows]
        /\ B.lengths \in [Rows -> Nat] /\ B.tables \in [Rows -> Seqs \cup {NoTable}]
        /\ n \in 0 .. MaxBatchSize /\ n = Len(d)
        /\ MaxBatchSize \in Nat \ {0} /\ Rows = 0 .. MaxBatchSize - 1
        /\ Members(B) \subseteq Seqs
    BY BucketParts
  <1>1. PICK p \in 1 .. Len(d) : d[p] = s
    BY BucketParts
  <1>2. IndexedBucket(B)
    BY DEF Good
  <1>3. n \in Nat \ {0} /\ j \in 0 .. n - 1 /\ n - 1 \in Rows /\ j \in Rows
        /\ \A r \in 0 .. n - 1 : r \in Rows
    <2>1. j \in 0 .. n - 1
      BY <1>2 DEF IndexedBucket
    <2>2. n \in 0 .. MaxBatchSize /\ MaxBatchSize \in Nat \ {0} /\ Rows = 0 .. MaxBatchSize - 1
      BY <1>0
    <2> HIDE DEF n, j
    <2> QED BY <2>1, <2>2
  <1>4. /\ C.dict = Others(d, s)
        /\ C.index = [q \in Seqs |-> IF q = s THEN -1
                                     ELSE IF B.index[q] = n - 1 THEN j ELSE B.index[q]]
        /\ C.lengths = [B.lengths EXCEPT ![j] = B.lengths[n - 1], ![n - 1] = 0]
        /\ C.tables = [B.tables EXCEPT ![j] = B.tables[n - 1], ![n - 1] = NoTable]
        /\ C.size = n - 1
        /\ C = [dict |-> C.dict, index |-> C.index, lengths |-> C.lengths,
                tables |-> C.tables, size |-> C.size]
    BY DEF Popped
  <1> HIDE DEF C, n, j, d
  <1>5. \A a, b \in 1 .. Len(d) : d[a] = d[b] => a = b
    <2>1. DOMAIN d = 1 .. Len(d)
      BY <1>0
    <2> QED BY <2>1, <1>2 DEF IndexedBucket, d
  <1>6. /\ C.dict \in Seq(Seqs) /\ Len(C.dict) = n - 1
        /\ \A a, b \in 1 .. n - 1 : C.dict[a] = C.dict[b] => a = b
        /\ \A a \in 1 .. n - 1 : \E q \in 1 .. n : q # p /\ C.dict[a] = d[q]
        /\ \A q \in 1 .. n : q # p => \E a \in 1 .. n - 1 : C.dict[a] = d[q]
    <2>1. n = Len(d) /\ d \in Seq(Seqs)
      BY <1>0
    <2>2. C.dict = Others(d, d[p])
      BY <1>1, <1>4, Zenon
    <2>3. Distinct(d)
      BY <1>5 DEF Distinct
    <2>4. AllBut(C.dict, d, p)
      BY <2>1, <2>2, <2>3, <1>1, OthersFacts, Zenon
    <2> QED BY <2>1, <2>4 DEF AllBut
  <1>7. DOMAIN C.dict = 1 .. n - 1 /\ DOMAIN d = 1 .. n
    <2>1. \A e \in Seq(Seqs) : DOMAIN e = 1 .. Len(e)
      OBVIOUS
    <2> QED BY <2>1, <1>0, <1>6
  <1>8. Members(C) = Members(B) \ {s}
    <2>1. Members(C) = {C.dict[a] : a \in 1 .. n - 1} /\ Members(B) = {d[a] : a \in 1 .. n}
      BY <1>7 DEF Members, d
    <2>2. Len(d) = n /\ p \in 1 .. n /\ d[p] = s
      BY <1>0, <1>1
    <2>3. ASSUME NEW a \in 1 .. n - 1 PROVE C.dict[a] \in Members(B) /\ C.dict[a] # s
      <3>1. PICK q \in 1 .. n : q # p /\ C.dict[a] = d[q]
        BY <1>6
      <3> QED BY <3>1, <2>1, <2>2, <1>5
    <2>4. ASSUME NEW x \in Members(B), x # s PROVE x \in Members(C)
      <3>1. PICK q \in 1 .. n : d[q] = x
        BY <2>1
      <3>2. q # p
        BY <3>1, <2>2, <2>4
      <3>3. PICK a \in 1 .. n - 1 : C.dict[a] = d[q]
        BY <3>2, <1>6
      <3> QED BY <3>1, <3>3, <2>1
    <2> QED BY <2>1, <2>3, <2>4
  <1>9. \A q \in Members(C) : /\ q \in Seqs /\ q # s /\ q \in Members(B)
                              /\ B.index[q] \in 0 .. n - 1 /\ B.index[q] # j
                              /\ C.index[q] = IF B.index[q] = n - 1 THEN j ELSE B.index[q]
    <2> TAKE q \in Members(C)
    <2>1. q \in Seqs /\ q # s /\ q \in Members(B)
      BY <1>0, <1>8
    <2>2. B.index[q] \in 0 .. n - 1 /\ B.index[q] # j
      BY <2>1, <1>2 DEF IndexedBucket, n, j
    <2> QED BY <2>1, <2>2, <1>4
  <1>10. \A q \in Members(C) : C.index[q] \in 0 .. n - 2
    BY <1>3, <1>9
  <1>11. \A r \in Rows : /\ C.lengths[r] = IF r = n - 1 THEN 0
                                           ELSE IF r = j THEN B.lengths[n - 1] ELSE B.lengths[r]
                         /\ C.tables[r] = IF r = n - 1 THEN NoTable
                                          ELSE IF r = j THEN B.tables[n - 1] ELSE B.tables[r]
    BY <1>0, <1>3, <1>4
  <1>12. C \in BucketSet
    <2>1. C.index \in [Seqs -> {-1} \cup Rows]
      BY <1>0, <1>3, <1>4
    <2>2. C.lengths \in [Rows -> Nat] /\ C.tables \in [Rows -> Seqs \cup {NoTable}]
      <3>1. n - 1 \in Rows /\ j \in Rows
        BY <1>3
      <3>2. B.lengths \in [Rows -> Nat] /\ B.tables \in [Rows -> Seqs \cup {NoTable}]
        BY <1>0
      <3>3. \A r \in Rows : C.lengths[r] \in Nat /\ C.tables[r] \in Seqs \cup {NoTable}
        BY <3>1, <3>2, <1>11
      <3>4. /\ C.lengths = [r \in Rows |-> C.lengths[r]]
            /\ C.tables = [r \in Rows |-> C.tables[r]]
        BY <3>2, <1>4
      <3> QED BY <3>3, <3>4
    <2>3. C.size \in 0 .. MaxBatchSize
      BY <1>0, <1>3, <1>4
    <2> QED BY <2>1, <2>2, <2>3, <1>4, <1>6 DEF BucketSet
  <1>13. IndexedBucket(C)
    <2>1. C.size = Len(C.dict)
      BY <1>4, <1>6
    <2>2. \A a, b \in DOMAIN C.dict : C.dict[a] = C.dict[b] => a = b
      BY <1>6, <1>7
    <2>3. \A q \in Members(C) : C.index[q] \in 0 .. C.size - 1
      <3>1. C.size = n - 1 /\ n \in Nat
        BY <1>3, <1>4
      <3>2. C.size - 1 = n - 2
        BY <3>1
      <3> QED BY <3>2, <1>10
    <2>4. ASSUME NEW r \in 0 .. C.size - 1 PROVE \E q \in Members(C) : C.index[q] = r
      <3>1. r \in 0 .. n - 2
        BY <1>3, <1>4
      <3>2. CASE r = j
        <4>1. n - 1 \in 0 .. B.size - 1
          BY <1>3 DEF n
        <4>2. PICK q \in Members(B) : B.index[q] = n - 1
          BY <4>1, <1>2 DEF IndexedBucket
        <4>3. q # s
          BY <4>2, <3>1, <3>2, <1>3 DEF j
        <4> QED BY <4>2, <4>3, <3>2, <1>8, <1>9
      <3>3. CASE r # j
        <4>1. r \in 0 .. B.size - 1 /\ r # n - 1
          BY <3>1, <1>3 DEF n
        <4>2. PICK q \in Members(B) : B.index[q] = r
          BY <4>1, <1>2 DEF IndexedBucket
        <4> QED BY <4>1, <4>2, <3>3, <1>8, <1>9 DEF j
      <3> QED BY <3>2, <3>3
    <2>5. ASSUME NEW q \in Members(C), NEW t \in Members(C), C.index[q] = C.index[t]
          PROVE  q = t
      <3>1. B.index[q] = B.index[t]
        BY <2>5, <1>9
      <3> QED BY <3>1, <1>2, <1>9 DEF IndexedBucket
    <2>6. ASSUME NEW q \in Seqs \ Members(C) PROVE C.index[q] = -1
      <3>1. CASE q = s
        BY <3>1, <1>4
      <3>2. CASE q # s
        <4>1. B.index[q] = -1
          BY <3>2, <1>2, <1>8 DEF IndexedBucket
        <4> QED BY <4>1, <3>2, <1>3, <1>4
      <3> QED BY <3>1, <3>2
    <2>7. ASSUME NEW r \in C.size .. MaxBatchSize - 1
          PROVE  C.lengths[r] = 0 /\ C.tables[r] = NoTable
      <3>1. r \in Rows /\ (r = n - 1 \/ (r \in n .. MaxBatchSize - 1 /\ r # j /\ r # n - 1))
        BY <1>0, <1>3, <1>4
      <3>2. r \in n .. MaxBatchSize - 1 => B.lengths[r] = 0 /\ B.tables[r] = NoTable
        BY <1>2 DEF IndexedBucket, n
      <3> QED BY <3>1, <3>2, <1>11
    <2> QED BY <2>1, <2>2, <2>3, <2>4, <2>5, <2>6, <2>7, Zenon DEF IndexedBucket
  <1>14. ASSUME OwnRows(B), NEW q \in Members(C)
         PROVE  C.lengths[C.index[q]] = sentence_len[q] /\ C.tables[C.index[q]] = q
    <2>1. B.lengths[B.index[q]] = sentence_len[q] /\ B.tables[B.index[q]] = q
      BY <1>9, <1>14 DEF OwnRows
    <2>2. C.index[q] \in Rows /\ C.index[q] # n - 1
      BY <1>3, <1>10
    <2>3. CASE B.index[q] = n - 1
      BY <2>1, <2>2, <2>3, <1>9, <1>11
    <2>4. CASE B.index[q] # n - 1
      BY <2>1, <2>2, <2>4, <1>9, <1>11
    <2> QED BY <2>3, <2>4
  <1> QED BY <1>8, <1>12, <1>13, <1>14 DEF Good, OwnRows, C

-----------------------------------------------------------------------------
\* What pop_n_seqs hands to _make_compact.
LEMMA PoppedOldestFacts ==
  ASSUME NEW B, Good(B), NEW n \in 1 .. B.size
  PROVE  /\ PoppedOldest(B, n).dict \in Seq(Seqs)
         /\ Len(PoppedOldest(B, n).dict) = B.size - n
         /\ \A i \in 1 .. B.size - n : PoppedOldest(B, n).dict[i] = B.dict[n + i]
         /\ Distinct(PoppedOldest(B, n).dict)
         /\ \A i \in 1 .. B.size - n : PoppedOldest(B, n).index[B.dict[n + i]] = B.index[B.dict[n + i]]
         /\ PoppedOldest(B, n).lengths = B.lengths
         /\ PoppedOldest(B, n).tables = B.tables
  <1> DEFINE D == PoppedOldest(B, n)
             d == B.dict
             N == B.size
  <1>1. d \in Seq(Seqs) /\ N = Len(d) /\ N \in Nat
    BY BucketParts
  <1>2. Distinct(d)
    <2>1. DOMAIN d = 1 .. Len(d)
      BY <1>1
    <2> QED BY <2>1 DEF Distinct, Good, IndexedBucket
  <1>3. /\ D.dict = SubSeq(d, n + 1, Len(d)) /\ D.lengths = B.lengths /\ D.tables = B.tables
        /\ D.index = [s \in Seqs |-> IF \E i \in 1 .. n : d[i] = s THEN -1 ELSE B.index[s]]
    BY DEF PoppedOldest, Good, BucketSet
  <1> HIDE DEF D, d
  <1>4. N \in Nat /\ n \in 1 .. N /\ N = Len(d) /\ d \in Seq(Seqs)
    BY <1>1
  <1> HIDE DEF N
  <1>5. n + 1 \in 1 .. Len(d) + 1 /\ Len(d) \in 0 .. Len(d) /\ n + 1 <= Len(d) + 1
        /\ Len(d) - (n + 1) + 1 = N - n
    BY <1>4
  <1>6. /\ D.dict \in Seq(Seqs) /\ Len(D.dict) = N - n
        /\ \A i \in 1 .. N - n : D.dict[i] = d[(n + 1) + i - 1]
    BY <1>3, <1>4, <1>5, SubSeqFacts
  <1>7. \A i \in 1 .. N - n : D.dict[i] = d[n + i] /\ n + i \in 1 .. N
    <2>1. \A i \in 1 .. N - n : (n + 1) + i - 1 = n + i /\ n + i \in 1 .. N
      BY <1>4
    <2> QED BY <2>1, <1>6
  <1>8. Distinct(D.dict)
    <2> SUFFICES ASSUME NEW i \in 1 .. N - n, NEW j \in 1 .. N - n, D.dict[i] = D.dict[j]
                 PROVE  i = j
      BY <1>6 DEF Distinct
    <2>1. n + i = n + j
      BY <1>2, <1>4, <1>7 DEF Distinct
    <2> QED BY <2>1, <1>4
  <1>9. \A i \in 1 .. N - n : D.index[d[n + i]] = B.index[d[n + i]]
    <2> TAKE i \in 1 .. N - n
    <2>1. n + i \in 1 .. Len(d) /\ d[n + i] \in Seqs
      BY <1>4, <1>7
    <2>2. \A k \in 1 .. n : k \in 1 .. Len(d) /\ k # n + i
      BY <1>4
    <2>3. ~ \E k \in 1 .. n : d[k] = d[n + i]
      BY <2>1, <2>2, <1>2 DEF Distinct
    <2> QED BY <2>1, <2>3, <1>3
  <1> QED BY <1>3, <1>6, <1>7, <1>8, <1>9 DEF D, d, N

\* _make_compact lays the rows out in order of arrival.
LEMMA CompactedGood ==
  ASSUME NEW D, D.dict \in Seq(Seqs), Distinct(D.dict), Len(D.dict) <= MaxBatchSize,
         D.lengths \in [Rows -> Nat], D.tables \in [Rows -> Seqs \cup {NoTable}],
         \A s \in Members(D) : /\ D.index[s] \in Rows
                               /\ D.lengths[D.index[s]] = sentence_len[s]
                               /\ D.tables[D.index[s]] = s
  PROVE  /\ Good(Compacted(D)) /\ Members(Compacted(D)) = Members(D)
         /\ OwnRows(Compacted(D))
  <1> DEFINE C == Compacted(D)
             d == D.dict
             n == Len(d)
             row(s) == (CHOOSE i \in 1 .. n : d[i] = s) - 1
  <1>1. n \in 0 .. MaxBatchSize /\ MaxBatchSize \in Nat \ {0} /\ Rows = 0 .. MaxBatchSize - 1
        /\ DOMAIN d = 1 .. n /\ d \in [1 .. n -> Seqs]
    BY BucketAssumption DEF Rows
  <1>2. /\ C.dict = d
        /\ C.index = [s \in Seqs |-> IF s \in Members(D) THEN row(s) ELSE -1]
        /\ C.lengths = [r \in Rows |-> IF r < n THEN D.lengths[D.index[d[r + 1]]] ELSE 0]
        /\ C.tables = [r \in Rows |-> IF r < n THEN D.tables[D.index[d[r + 1]]] ELSE NoTable]
        /\ C.size = n
        /\ C = [dict |-> C.dict, index |-> C.index, lengths |-> C.lengths,
                tables |-> C.tables, size |-> C.size]
    BY DEF Compacted
  <1>3. Members(D) = {d[i] : i \in 1 .. n} /\ Members(C) = Members(D)
    <2> HIDE DEF n, row, C
    <2>1. DOMAIN d = 1 .. n /\ C.dict = d
      BY <1>1, <1>2
    <2>2. Members(D) = {d[i] : i \in DOMAIN d} /\ Members(C) = {C.dict[i] : i \in DOMAIN C.dict}
      BY Zenon DEF Members
    <2>3. Members(D) = {d[i] : i \in 1 .. n}
      BY <2>1, <2>2
    <2>4. Members(C) = Members(D)
      BY <2>1, <2>2
    <2> QED BY <2>3, <2>4
  <1>4. \A i \in 1 .. n : row(d[i]) = i - 1
    <2>1. \A i \in 1 .. n : (CHOOSE k \in 1 .. n : d[k] = d[i]) = i
      BY DEF Distinct
    <2> QED BY <2>1
  <1>5. d \in Seq(Seqs) /\ Len(d) = n
    OBVIOUS
  <1> HIDE DEF C, d, n, row
  <1>6. \A i \in 1 .. n : /\ d[i] \in Seqs /\ d[i] \in Members(D) /\ C.index[d[i]] = i - 1
                          /\ i - 1 \in Rows /\ (i - 1) + 1 = i /\ i - 1 < n /\ i - 1 \in 0 .. n - 1
    <2>1. \A i \in 1 .. n : /\ d[i] \in Seqs /\ i - 1 \in Rows /\ (i - 1) + 1 = i
                            /\ i - 1 < n /\ i - 1 \in 0 .. n - 1
      <3> TAKE i \in 1 .. n
      <3>1. d[i] \in Seqs
        BY <1>1
      <3>2. i \in Int /\ n \in Int /\ MaxBatchSize \in Int /\ 1 <= i /\ i <= n /\ n <= MaxBatchSize
        BY <1>1
      <3>3. i - 1 \in Rows
        BY <1>1, <3>2
      <3> QED BY <3>1, <3>2, <3>3
    <2>2. \A i \in 1 .. n : d[i] \in Members(D)
      BY <1>3
    <2>3. \A i \in 1 .. n : C.index[d[i]] = row(d[i])
      BY <1>2, <2>1, <2>2
    <2> QED BY <1>4, <2>1, <2>2, <2>3
  <1>7. \A i \in 1 .. n : C.lengths[i - 1] = sentence_len[d[i]] /\ C.tables[i - 1] = d[i]
    <2> TAKE i \in 1 .. n
    <2>1. i - 1 \in Rows /\ i - 1 < n /\ (i - 1) + 1 = i /\ d[i] \in Members(D)
      BY <1>6
    <2>2. /\ C.lengths[i - 1] = D.lengths[D.index[d[(i - 1) + 1]]]
          /\ C.tables[i - 1] = D.tables[D.index[d[(i - 1) + 1]]]
      BY <2>1, <1>2
    <2> QED BY <2>1, <2>2
  <1>8. \A s \in Members(D) : \E i \in 1 .. n : d[i] = s
    BY <1>3
  <1>9. OwnRows(C)
    BY <1>3, <1>6, <1>7, <1>8 DEF OwnRows
  <1>10. \A r \in Rows : r < n => \E i \in 1 .. n : r = i - 1
    <2> SUFFICES ASSUME NEW r \in Rows, r < n PROVE \E i \in 1 .. n : r = i - 1
      OBVIOUS
    <2>1. r + 1 \in 1 .. n /\ r = (r + 1) - 1
      BY <1>1
    <2> QED BY <2>1
  <1>11. C \in BucketSet
    <2>1. C.index \in [Seqs -> {-1} \cup Rows]
      <3>1. \A s \in Seqs : C.index[s] \in {-1} \cup Rows
        <4> TAKE s \in Seqs
        <4>1. CASE s \in Members(D)
          BY <4>1, <1>6, <1>8
        <4>2. CASE s \notin Members(D)
          BY <4>2, <1>2
        <4> QED BY <4>1, <4>2
      <3>2. C.index = [s \in Seqs |-> C.index[s]]
        BY <1>2
      <3> QED BY <3>1, <3>2
    <2>2. \A r \in Rows : C.lengths[r] \in Nat /\ C.tables[r] \in Seqs \cup {NoTable}
      <3> TAKE r \in Rows
      <3>1. CASE r < n
        <4>1. PICK i \in 1 .. n : r = i - 1
          BY <3>1, <1>10
        <4>2. d[i] \in Members(D) /\ d[i] \in Seqs
          BY <1>6
        <4>3. D.index[d[i]] \in Rows /\ C.lengths[r] = D.lengths[D.index[d[i]]]
          BY <4>1, <4>2, <1>7
        <4> QED BY <4>1, <4>2, <4>3, <1>7
      <3>2. CASE ~ (r < n)
        BY <3>2, <1>2
      <3> QED BY <3>1, <3>2
    <2>3. C.lengths = [r \in Rows |-> C.lengths[r]] /\ C.tables = [r \in Rows |-> C.tables[r]]
      BY <1>2
    <2>4. C.size \in 0 .. MaxBatchSize /\ C.dict \in Seq(Seqs)
      BY <1>1, <1>2, <1>5
    <2>5. C.lengths \in [Rows -> Nat] /\ C.tables \in [Rows -> Seqs \cup {NoTable}]
      BY <2>2, <2>3
    <2> QED BY <1>2, <2>1, <2>4, <2>5 DEF BucketSet
  <1>12. IndexedBucket(C)
    <2>1. C.size = Len(C.dict)
      BY <1>2, <1>5
    <2>2. \A i, j \in DOMAIN C.dict : C.dict[i] = C.dict[j] => i = j
      <3>1. C.dict = d /\ DOMAIN d = 1 .. Len(d)
        BY <1>2, <1>5
      <3>2. Distinct(d)
        BY DEF d
      <3> QED BY <3>1, <3>2, Zenon DEF Distinct
    <2>3. \A s \in Members(C) : C.index[s] \in 0 .. C.size - 1
      <3>1. C.size - 1 = n - 1
        BY <1>2
      <3>2. \A s \in Members(C) : C.index[s] \in 0 .. n - 1
        BY <1>3, <1>6, <1>8
      <3> QED BY <3>1, <3>2, Zenon
    <2>4. \A r \in 0 .. C.size - 1 : \E s \in Members(C) : C.index[s] = r
      <3>0. C.size = n
        BY <1>2
      <3> SUFFICES ASSUME NEW r \in 0 .. n - 1 PROVE \E s \in Members(C) : C.index[s] = r
        BY <3>0
      <3>1. r \in Rows /\ r < n
        BY <1>1
      <3>2. PICK i \in 1 .. n : r = i - 1
        BY <3>1, <1>10
      <3> QED BY <3>2, <1>3, <1>6
    <2>5. \A s, q \in Members(C) : C.index[s] = C.index[q] => s = q
      <3> SUFFICES ASSUME NEW s \in Members(D), NEW q \in Members(D), C.index[s] = C.index[q]
                   PROVE  s = q
        BY <1>3
      <3>1. PICK i \in 1 .. n : d[i] = s
        BY <1>8
      <3>2. PICK k \in 1 .. n : d[k] = q
        BY <1>8
      <3>3. i - 1 = k - 1
        BY <3>1, <3>2, <1>6
      <3> QED BY <3>1, <3>2, <3>3, <1>1
    <2>6. \A s \in Seqs \ Members(C) : C.index[s] = -1
      BY <1>2, <1>3
    <2>7. \A r \in C.size .. MaxBatchSize - 1 : C.lengths[r] = 0 /\ C.tables[r] = NoTable
      <3>0. C.size = n
        BY <1>2
      <3> SUFFICES ASSUME NEW r \in n .. MaxBatchSize - 1
                   PROVE  C.lengths[r] = 0 /\ C.tables[r] = NoTable
        BY <3>0
      <3>1. r \in Rows /\ ~ (r < n)
        BY <1>1
      <3> QED BY <3>1, <1>2
    <2> QED BY <2>1, <2>2, <2>3, <2>4, <2>5, <2>6, <2>7, Zenon DEF IndexedBucket
  <1> QED BY <1>3, <1>9, <1>11, <1>12 DEF Good, C
-----------------------------------------------------------------------------
\* The n oldest sequences.
Oldest(B, n) == {B.dict[i] : i \in 1 .. n}

\* The rows in use outnumber the dictionary once pop_n_seqs has shortened it,
\* so that pop_n_seqs never leaves them as they are.
LEMMA NotCompact ==
  ASSUME NEW B, Good(B), OwnRows(B), NEW n \in 1 .. B.size
  PROVE  ~ IsCompact(PoppedOldest(B, n))
  <1> DEFINE D == PoppedOldest(B, n)
             N == B.size
  <1>1. D.tables = B.tables /\ Len(D.dict) = N - n
    BY PoppedOldestFacts
  <1>2. N \in Nat /\ N \in 0 .. MaxBatchSize /\ MaxBatchSize \in Nat \ {0}
        /\ Rows = 0 .. MaxBatchSize - 1 /\ Members(B) \subseteq Seqs
    BY BucketParts
  <1>3. \A r \in 0 .. N - 1 : B.tables[r] # NoTable
    <2> TAKE r \in 0 .. N - 1
    <2>1. PICK s \in Members(B) : B.index[s] = r
      BY DEF Good, IndexedBucket
    <2>2. B.tables[r] = s /\ s \in Seqs
      BY <2>1, <1>2 DEF OwnRows
    <2> QED BY <2>2, BucketAssumption
  <1>4. \A r \in N .. MaxBatchSize - 1 : B.tables[r] = NoTable
    BY DEF Good, IndexedBucket
  <1> HIDE DEF N, D
  <1>5. {r \in Rows : D.tables[r] # NoTable} = 0 .. N - 1
    <2>1. 0 .. N - 1 \subseteq Rows
      BY <1>2
    <2>2. \A r \in Rows : r \in 0 .. N - 1 \/ r \in N .. MaxBatchSize - 1
      BY <1>2
    <2> QED BY <1>1, <1>3, <1>4, <2>1, <2>2
  <1>6. Cardinality(0 .. N - 1) = N
    <2>1. 0 \in Int /\ N - 1 \in Int
      BY <1>2
    <2>2. Cardinality(0 .. N - 1) = IF 0 > N - 1 THEN 0 ELSE (N - 1) - 0 + 1
      BY <2>1, FS_Interval, Zenon
    <2> QED BY <2>2, <1>2
  <1>7. N # N - n
    BY <1>2
  <1> QED BY <1>1, <1>5, <1>6, <1>7, Zenon DEF IsCompact, D

\* pop_n_seqs: the n oldest leave, the others keep their facts.
LEMMA PoppedNGood ==
  ASSUME NEW B, Good(B), OwnRows(B), NEW n \in 1 .. B.size
  PROVE  /\ Good(PoppedN(B, n)) /\ OwnRows(PoppedN(B, n))
         /\ Members(PoppedN(B, n)) = Members(B) \ Oldest(B, n)
         /\ Len(PoppedN(B, n).dict) = B.size - n
  <1> DEFINE D == PoppedOldest(B, n)
             N == B.size
             d == B.dict
  <1>1. PoppedN(B, n) = Compacted(D)
    BY NotCompact, Zenon DEF PoppedN
  <1>2. /\ D.dict \in Seq(Seqs) /\ Len(D.dict) = N - n
        /\ \A i \in 1 .. N - n : D.dict[i] = d[n + i]
        /\ Distinct(D.dict)
        /\ \A i \in 1 .. N - n : D.index[d[n + i]] = B.index[d[n + i]]
        /\ D.lengths = B.lengths /\ D.tables = B.tables
    BY PoppedOldestFacts
  <1>3. /\ N \in Nat /\ N \in 0 .. MaxBatchSize /\ MaxBatchSize \in Nat \ {0} /\ n \in 1 .. N
        /\ Rows = 0 .. MaxBatchSize - 1 /\ N = Len(d) /\ d \in Seq(Seqs)
        /\ B.lengths \in [Rows -> Nat] /\ B.tables \in [Rows -> Seqs \cup {NoTable}]
    BY BucketParts
  <1>4. \A s \in Members(B) : /\ B.index[s] \in Rows
                              /\ B.lengths[B.index[s]] = sentence_len[s]
                              /\ B.tables[B.index[s]] = s
    <2>1. \A s \in Members(B) : B.index[s] \in 0 .. N - 1
      BY DEF Good, IndexedBucket
    <2>2. 0 .. N - 1 \subseteq Rows
      <3> HIDE DEF N
      <3> QED BY <1>3
    <2> QED BY <2>1, <2>2 DEF OwnRows
  <1>5. Distinct(d)
    <2>1. DOMAIN d = 1 .. Len(d)
      BY <1>3
    <2> QED BY <2>1 DEF Distinct, Good, IndexedBucket
  <1>6. Members(B) = {d[i] : i \in 1 .. N}
    <2>1. DOMAIN d = 1 .. N
      BY <1>3
    <2> QED BY <2>1 DEF Members
  <1>7. Compacted(D).dict = D.dict
    BY DEF Compacted
  <1> HIDE DEF D, N, d
  <1>8. Members(D) = {D.dict[i] : i \in 1 .. N - n}
    <2>1. \A e \in Seq(Seqs) : DOMAIN e = 1 .. Len(e)
      OBVIOUS
    <2>2. DOMAIN D.dict = 1 .. N - n
      BY <2>1, <1>2
    <2> QED BY <2>2 DEF Members
  <1>9. Members(D) = Members(B) \ {d[i] : i \in 1 .. n}
    <2>1. ASSUME NEW i \in 1 .. N - n
          PROVE  D.dict[i] \in Members(B) /\ D.dict[i] \notin {d[k] : k \in 1 .. n}
      <3>1. n + i \in 1 .. N /\ n + i \notin 1 .. n /\ D.dict[i] = d[n + i]
        BY <1>2, <1>3
      <3>2. \A k \in 1 .. n : k \in 1 .. Len(d)
        BY <1>3
      <3>3. n + i \in 1 .. Len(d)
        BY <3>1, <1>3
      <3> QED BY <3>1, <3>2, <3>3, <1>5, <1>6 DEF Distinct
    <2>2. ASSUME NEW s \in Members(B), s \notin {d[i] : i \in 1 .. n} PROVE s \in Members(D)
      <3>1. PICK q \in 1 .. N : d[q] = s
        BY <1>6
      <3>2. q \notin 1 .. n
        BY <3>1, <2>2
      <3>3. q - n \in 1 .. N - n /\ n + (q - n) = q
        BY <3>2, <1>3
      <3>4. D.dict[q - n] = s
        BY <3>1, <3>3, <1>2
      <3> QED BY <3>3, <3>4, <1>8
    <2> QED BY <2>1, <2>2, <1>8
  <1>10. \A s \in Members(D) : /\ D.index[s] \in Rows
                               /\ D.lengths[D.index[s]] = sentence_len[s]
                               /\ D.tables[D.index[s]] = s
    <2> SUFFICES ASSUME NEW s \in Members(D)
                 PROVE  /\ D.index[s] \in Rows
                        /\ D.lengths[D.index[s]] = sentence_len[s]
                        /\ D.tables[D.index[s]] = s
      OBVIOUS
    <2>1. s \in Members(B)
      BY <1>9
    <2>2. PICK i \in 1 .. N - n : D.dict[i] = s
      BY <1>8
    <2>3. D.index[s] = B.index[s]
      BY <2>2, <1>2
    <2> QED BY <2>1, <2>3, <1>2, <1>4
  <1>11. Len(D.dict) <= MaxBatchSize
    BY <1>2, <1>3
  <1>12. D.lengths \in [Rows -> Nat] /\ D.tables \in [Rows -> Seqs \cup {NoTable}]
    BY <1>2, <1>3
  <1>13. /\ Good(Compacted(D)) /\ Members(Compacted(D)) = Members(D) /\ OwnRows(Compacted(D))
    BY <1>2, <1>10, <1>11, <1>12, CompactedGood
  <1> QED BY <1>1, <1>2, <1>7, <1>9, <1>13 DEF Oldest, d, N
-----------------------------------------------------------------------------
\* The invariant, bucket by bucket.
LEMMA Parts ==
  ASSUME IInv
  PROVE  /\ \A b \in Buckets : Good(bb[b]) /\ OwnRows(bb[b])
         /\ bb \in [Buckets -> BucketSet] /\ LensOK /\ input_len \in [Seqs -> Nat \ {0}]
         /\ "prefill" \in Buckets /\ "running" \in Buckets
         /\ Members(bb["prefill"]) \cap Members(bb["running"]) = {}
  BY DEF IInv, TypeOK, Indexed, RowsOfTheirOwn, InOneBucket, Good, LensOK, Buckets

\* A step that leaves the lengths alone and puts P and R in the two buckets.
LEMMA Recombine ==
  ASSUME IInv, UNCHANGED <<sentence_len, input_len>>, NEW P, NEW R,
         bb' = [b \in Buckets |-> IF b = "prefill" THEN P ELSE R],
         Good(P), OwnRows(P), Good(R), OwnRows(R), Members(P) \cap Members(R) = {}
  PROVE  IInv'
  <1>1. bb'["prefill"] = P /\ bb'["running"] = R
    BY DEF Buckets
  <1>2. \A b \in Buckets : bb'[b] = P \/ bb'[b] = R
    OBVIOUS
  <1>3. bb' \in [Buckets -> BucketSet]
    BY DEF Good
  <1>4. TypeOK'
    BY <1>3, Parts DEF TypeOK, LensOK
  <1>5. Indexed'
    BY <1>2 DEF Indexed, Good
  <1>6. RowsOfTheirOwn'
    BY <1>2 DEF RowsOfTheirOwn, OwnRows
  <1>7. InOneBucket'
    BY <1>1 DEF InOneBucket
  <1> QED BY <1>4, <1>5, <1>6, <1>7 DEF IInv

\* Nothing goes from one bucket to the other.
Apart == Members(bb["prefill"]) \cap Members(bb'["running"]) = {}

\* A step that changes one bucket.
LEMMA OneChanges ==
  ASSUME IInv, UNCHANGED <<sentence_len, input_len>>, NEW b \in Buckets, NEW C,
         bb' = [bb EXCEPT ![b] = C], Good(C), OwnRows(C),
         \A o \in Buckets : o # b => Members(C) \cap Members(bb[o]) = {}
  PROVE  IInv' /\ Apart
  <1> DEFINE P == IF b = "prefill" THEN C ELSE bb["prefill"]
             R == IF b = "prefill" THEN bb["running"] ELSE C
  <1>1. /\ Good(bb["prefill"]) /\ OwnRows(bb["prefill"])
        /\ Good(bb["running"]) /\ OwnRows(bb["running"])
        /\ bb \in [Buckets -> BucketSet]
    BY Parts
  <1>2. Good(P) /\ OwnRows(P) /\ Good(R) /\ OwnRows(R)
    BY <1>1
  <1>3. Members(P) \cap Members(R) = {}
    <2>1. CASE b = "prefill"
      <3>1. "running" \in Buckets /\ "running" # b
        BY <2>1 DEF Buckets
      <3> QED BY <2>1, <3>1
    <2>2. CASE b # "prefill"
      <3>1. "prefill" \in Buckets /\ "prefill" # b
        BY <2>2 DEF Buckets
      <3> QED BY <2>2, <3>1
    <2> QED BY <2>1, <2>2
  <1>4. bb' = [o \in Buckets |-> IF o = "prefill" THEN P ELSE R]
    BY <1>1 DEF Buckets
  <1>5. Apart
    <2>1. CASE b = "running"
      <3>1. Members(C) \cap Members(bb["prefill"]) = {} /\ bb'["running"] = C
        BY <1>1, <2>1 DEF Buckets
      <3> QED BY <3>1 DEF Apart
    <2>2. CASE b # "running"
      <3>1. bb'["running"] = bb["running"]
        BY <1>1, <2>2 DEF Buckets
      <3> QED BY <3>1, Parts DEF Apart
    <2> QED BY <2>1, <2>2
  <1> HIDE DEF P, R
  <1> QED BY <1>2, <1>3, <1>4, <1>5, Recombine

LEMMA InitIInv == Init => IInv
  <1> SUFFICES ASSUME Init PROVE IInv
    OBVIOUS
  <1>1. \A b \in Buckets : bb[b] = EmptyBucket
    BY DEF Init
  <1>2. Good(EmptyBucket) /\ Members(EmptyBucket) = {} /\ OwnRows(EmptyBucket)
    BY EmptyGood
  <1>3. TypeOK
    <2>1. input_len \in [Seqs -> Nat \ {0}]
      BY BucketAssumption DEF Init
    <2> QED BY <2>1, <1>2 DEF Init, TypeOK, Good
  <1>4. Indexed /\ RowsOfTheirOwn
    BY <1>1, <1>2 DEF Indexed, RowsOfTheirOwn, Good
  <1>5. InOneBucket
    BY <1>1, <1>2 DEF InOneBucket, Buckets
  <1> QED BY <1>3, <1>4, <1>5 DEF IInv

LEMMA StepAddSeqs ==
  ASSUME IInv, NEW b \in Buckets, AddSeqs(b)
  PROVE  IInv' /\ Apart
  <1>1. PICK n \in 1 .. MaxBatchSize + 1 : \E ss \in [1 .. n -> Seqs \ Placed] :
          /\ \A i, j \in 1 .. n : ss[i] = ss[j] => i = j
          /\ bb' = [bb EXCEPT ![b] = Added(bb[b], ss, ss)]
          /\ UNCHANGED <<sentence_len, input_len>>
    BY DEF AddSeqs
  <1>2. PICK ss \in [1 .. n -> Seqs \ Placed] :
          /\ \A i, j \in 1 .. n : ss[i] = ss[j] => i = j
          /\ bb' = [bb EXCEPT ![b] = Added(bb[b], ss, ss)]
          /\ UNCHANGED <<sentence_len, input_len>>
    BY <1>1
  <1> DEFINE k == Least(Available(bb[b]), Len(ss))
             C == Added(bb[b], ss, ss)
  <1>3. n \in Nat /\ ss \in Seq(Seqs) /\ Len(ss) = n
    <2>1. n \in Nat
      BY BucketAssumption
    <2> QED BY <2>1
  <1>4. Good(bb[b]) /\ OwnRows(bb[b]) /\ LensOK
    BY Parts
  <1>5. \A o \in Buckets : Members(bb[o]) \subseteq Placed
    BY DEF Buckets, Placed
  <1>6. \A i \in 1 .. n : ss[i] \notin Placed
    OBVIOUS
  <1>8. k \in Int /\ k <= n
    <2>1. bb[b].size \in Nat /\ MaxBatchSize \in Nat
      BY <1>4, BucketParts
    <2> QED BY <2>1, <1>3 DEF Least, Available
  <1>9. Good(C) /\ Members(C) = Members(bb[b]) \cup {ss[i] : i \in 1 .. k}
        /\ (OwnRows(bb[b]) => OwnRows(C))
    <2>1. \A i, j \in 1 .. Len(ss) : ss[i] = ss[j] => i = j
      BY <1>2, <1>3
    <2>2. \A i \in 1 .. Len(ss) : ss[i] \notin Members(bb[b])
      BY <1>3, <1>5, <1>6
    <2> QED BY <2>1, <2>2, <1>3, <1>4, AddedGood
  <1>10. \A o \in Buckets : o # b => Members(C) \cap Members(bb[o]) = {}
    <2> SUFFICES ASSUME NEW o \in Buckets, o # b, NEW x \in Members(C) PROVE x \notin Members(bb[o])
      OBVIOUS
    <2>1. CASE x \in Members(bb[b])
      BY <2>1, Parts DEF Buckets
    <2>2. CASE x \notin Members(bb[b])
      <3>1. PICK i \in 1 .. k : x = ss[i]
        BY <2>2, <1>9
      <3>2. i \in 1 .. n
        BY <1>3, <1>8
      <3> QED BY <3>1, <3>2, <1>5, <1>6
    <2> QED BY <2>1, <2>2
  <1> HIDE DEF C, k
  <1> QED BY <1>2, <1>4, <1>9, <1>10, OneChanges DEF C

LEMMA StepPop ==
  ASSUME IInv, NEW b \in Buckets, NEW s \in Seqs, PopSeqUpdateBatch(b, s)
  PROVE  IInv' /\ Apart
  <1>1. /\ s \in Members(bb[b])
        /\ bb' = [bb EXCEPT ![b] = Popped(bb[b], s)]
        /\ UNCHANGED <<sentence_len, input_len>>
    BY DEF PopSeqUpdateBatch
  <1>2. Good(bb[b]) /\ OwnRows(bb[b])
    BY Parts
  <1>3. /\ Good(Popped(bb[b], s)) /\ Members(Popped(bb[b], s)) = Members(bb[b]) \ {s}
        /\ OwnRows(Popped(bb[b], s))
    BY <1>1, <1>2, PoppedGood
  <1>4. \A o \in Buckets : o # b => Members(Popped(bb[b], s)) \cap Members(bb[o]) = {}
    BY <1>3, Parts DEF Buckets
  <1> QED BY <1>1, <1>3, <1>4, OneChanges

LEMMA StepPopN ==
  ASSUME IInv, NEW b \in Buckets, NEW n \in 1 .. MaxBatchSize, PopNSeqs(b, n)
  PROVE  IInv' /\ Apart
  <1>1. /\ n \in 1 .. bb[b].size
        /\ bb' = [bb EXCEPT ![b] = PoppedN(bb[b], n)]
        /\ UNCHANGED <<sentence_len, input_len>>
    BY DEF PopNSeqs
  <1>2. Good(bb[b]) /\ OwnRows(bb[b])
    BY Parts
  <1>3. /\ Good(PoppedN(bb[b], n)) /\ OwnRows(PoppedN(bb[b], n))
        /\ Members(PoppedN(bb[b], n)) = Members(bb[b]) \ Oldest(bb[b], n)
    BY <1>1, <1>2, PoppedNGood
  <1>4. \A o \in Buckets : o # b => Members(PoppedN(bb[b], n)) \cap Members(bb[o]) = {}
    BY <1>3, Parts DEF Buckets
  <1> QED BY <1>1, <1>3, <1>4, OneChanges

LEMMA StepClear ==
  ASSUME IInv, NEW b \in Buckets, Clear(b)
  PROVE  IInv' /\ Apart
  <1>1. bb' = [bb EXCEPT ![b] = EmptyBucket] /\ UNCHANGED <<sentence_len, input_len>>
    BY DEF Clear
  <1>2. Good(EmptyBucket) /\ Members(EmptyBucket) = {} /\ OwnRows(EmptyBucket)
    BY EmptyGood
  <1>3. \A o \in Buckets : o # b => Members(EmptyBucket) \cap Members(bb[o]) = {}
    BY <1>2
  <1> QED BY <1>1, <1>2, <1>3, OneChanges

\* The oldest of one bucket go to the other.
OldestMove ==
  \E n \in 1 .. bb["prefill"].size :
    /\ Members(bb'["prefill"]) = Members(bb["prefill"]) \ Oldest(bb["prefill"], n)
    /\ Members(bb'["running"]) = Members(bb["running"]) \cup Oldest(bb["prefill"], n)

LEMMA StepMerge ==
  ASSUME IInv, Merge
  PROVE  IInv' /\ OldestMove
  <1> DEFINE S == bb["running"]
             O == bb["prefill"]
             k == Least(Available(S), O.size)
             ss == SubSeq(O.dict, 1, k)
             P == PoppedN(O, k)
             R == Added(S, ss, PoppedTables(O, k))
  <1>1. /\ k > 0 /\ UNCHANGED <<sentence_len, input_len>>
        /\ bb' = [bb EXCEPT !["prefill"] = P, !["running"] = R]
    BY DEF Merge
  <1>2. Good(S) /\ OwnRows(S) /\ Good(O) /\ OwnRows(O) /\ Members(O) \cap Members(S) = {}
        /\ LensOK /\ bb \in [Buckets -> BucketSet]
    BY Parts
  <1>3. bb' = [b \in Buckets |-> IF b = "prefill" THEN P ELSE R]
    <2> HIDE DEF P, R
    <2> QED BY <1>1, <1>2 DEF Buckets
  <1>4. O.dict \in Seq(Seqs) /\ Len(O.dict) = O.size /\ O.size \in Nat /\ S.size \in Nat
        /\ MaxBatchSize \in Nat /\ S.size <= MaxBatchSize
        /\ \A i \in 1 .. Len(O.dict) : O.dict[i] \in Members(O)
    BY <1>2, BucketParts
  <1>5. k \in 1 .. O.size /\ k <= Available(S) /\ Available(S) \in Nat
    BY <1>1, <1>4 DEF Least, Available
  <1>6. Distinct(O.dict)
    <2>1. DOMAIN O.dict = 1 .. Len(O.dict)
      BY <1>4
    <2> QED BY <2>1, <1>2 DEF Distinct, Good, IndexedBucket
  <1> HIDE DEF S, O, k
  <1>7. ss \in Seq(Seqs) /\ Len(ss) = k /\ \A i \in 1 .. k : ss[i] = O.dict[i]
    BY <1>4, <1>5, SubSeqFacts
  <1>8. Least(Available(S), k) = k
    BY <1>5 DEF Least
  <1>9. \A i \in 1 .. k : i \in 1 .. Len(O.dict)
    BY <1>4, <1>5
  <1>10. \A i \in 1 .. k : PoppedTables(O, k)[i] = ss[i]
    <2> TAKE i \in 1 .. k
    <2>1. O.dict[i] \in Members(O) /\ ss[i] = O.dict[i]
      BY <1>4, <1>7, <1>9
    <2>2. PoppedTables(O, k)[i] = O.tables[O.index[O.dict[i]]]
      BY DEF PoppedTables
    <2>3. O.tables[O.index[O.dict[i]]] = O.dict[i]
      BY <1>2, <2>1 DEF OwnRows
    <2> QED BY <2>1, <2>2, <2>3
  <1>11. Good(P) /\ OwnRows(P) /\ Members(P) = Members(O) \ Oldest(O, k)
    BY <1>2, <1>5, PoppedNGood
  <1> HIDE DEF ss, P
  <1>12. Good(R) /\ OwnRows(R) /\ Members(R) = Members(S) \cup {ss[i] : i \in 1 .. k}
    <2>1. \A i, j \in 1 .. Len(ss) : ss[i] = ss[j] => i = j
      BY <1>6, <1>7, <1>9 DEF Distinct
    <2>2. \A i \in 1 .. Len(ss) : ss[i] \notin Members(S)
      BY <1>2, <1>4, <1>7, <1>9
    <2>3. \A i \in 1 .. Least(Available(S), Len(ss)) : PoppedTables(O, k)[i] = ss[i]
      BY <1>7, <1>8, <1>10
    <2>4. Least(Available(S), Len(ss)) = k
      BY <1>7, <1>8
    <2>5. /\ Good(R)
          /\ Members(R) = Members(S) \cup {ss[i] : i \in 1 .. Least(Available(S), Len(ss))}
          /\ OwnRows(S) => OwnRows(R)
      BY <2>1, <2>2, <2>3, <1>2, <1>7, AddedGood
    <2> QED BY <2>4, <2>5, <1>2
  <1>13. Members(P) \cap Members(R) = {}
    <2> SUFFICES ASSUME NEW x \in Members(P), x \in Members(R) PROVE FALSE
      OBVIOUS
    <2>1. x \in Members(O) /\ x \notin Oldest(O, k) /\ x \notin Members(S)
      BY <1>2, <1>11
    <2>2. PICK i \in 1 .. k : x = ss[i]
      BY <2>1, <1>12
    <2>3. x \in Oldest(O, k)
      BY <2>2, <1>7 DEF Oldest
    <2> QED BY <2>1, <2>3
  <1> HIDE DEF R
  <1>14. IInv'
    BY <1>1, <1>3, <1>11, <1>12, <1>13, Recombine
  <1>15. bb'["prefill"] = P /\ bb'["running"] = R
    BY <1>3 DEF Buckets
  <1>16. {ss[i] : i \in 1 .. k} = Oldest(O, k)
    BY <1>7 DEF Oldest
  <1> QED BY <1>5, <1>11, <1>12, <1>14, <1>15, <1>16 DEF OldestMove, O, S

\* The dictionary and the index do not know the lengths.
LEMMA SameButLengths ==
  ASSUME NEW B, Good(B), NEW C, NEW f, f \in [Rows -> Nat],
         C = [B EXCEPT !.lengths = f],
         \A r \in B.size .. MaxBatchSize - 1 : f[r] = 0
  PROVE  /\ Good(C) /\ C.index = B.index /\ C.tables = B.tables /\ C.lengths = f
         /\ C.size = B.size /\ C.dict = B.dict
         /\ Members(C) = Members(B)
  <1>1. /\ C.index = B.index /\ C.tables = B.tables /\ C.lengths = f
        /\ C.size = B.size /\ C.dict = B.dict /\ C \in BucketSet
    BY DEF Good, BucketSet
  <1>2. Members(C) = Members(B)
    BY <1>1 DEF Members
  <1>3. IndexedBucket(B)
    BY DEF Good
  <1>4. IndexedBucket(C)
    BY <1>1, <1>2, <1>3 DEF IndexedBucket
  <1> QED BY <1>1, <1>2, <1>4 DEF Good

\* A step that changes the lengths of the members of one bucket, in step with
\* their rows.
LEMMA LengthsChange ==
  ASSUME IInv, input_len' = input_len, NEW b \in Buckets, NEW C,
         bb' = [bb EXCEPT ![b] = C], Good(C), Members(C) = Members(bb[b]),
         C.index = bb[b].index, C.tables = bb[b].tables,
         LensOK',
         \A s \in Members(C) : C.lengths[C.index[s]] = sentence_len'[s],
         \A s \in Seqs \ Members(C) : sentence_len'[s] = sentence_len[s]
  PROVE  IInv' /\ Apart
  <1>1. /\ \A o \in Buckets : Good(bb[o]) /\ OwnRows(bb[o])
        /\ bb \in [Buckets -> BucketSet]
        /\ Members(bb["prefill"]) \cap Members(bb["running"]) = {}
    BY Parts
  <1>2. bb'[b] = C /\ \A o \in Buckets : o # b => bb'[o] = bb[o]
    BY <1>1
  <1>3. \A o \in Buckets : Members(bb'[o]) = Members(bb[o]) /\ Good(bb'[o])
    BY <1>1, <1>2
  <1>4. TypeOK'
    <2>1. bb' \in [Buckets -> BucketSet]
      BY <1>1 DEF Good
    <2>2. input_len' \in [Seqs -> Nat \ {0}]
      BY Parts
    <2> QED BY <2>1, <2>2 DEF TypeOK, LensOK
  <1>5. Indexed'
    BY <1>3 DEF Indexed, Good
  <1>6. InOneBucket'
    BY <1>1, <1>3 DEF InOneBucket, Buckets
  <1>7. ASSUME NEW o \in Buckets, NEW s \in Members(bb[o])
        PROVE  /\ bb'[o].lengths[bb'[o].index[s]] = sentence_len'[s]
               /\ bb'[o].tables[bb'[o].index[s]] = s
    <2>1. CASE o = b
      BY <2>1, <1>1, <1>2 DEF OwnRows
    <2>2. CASE o # b
      <3>1. s \in Seqs \ Members(C)
        <4>1. s \in Seqs
          BY <1>1, BucketParts
        <4> QED BY <4>1, <2>2, <1>1 DEF Buckets
      <3> QED BY <3>1, <2>2, <1>1, <1>2 DEF OwnRows
    <2> QED BY <2>1, <2>2
  <1>8. RowsOfTheirOwn'
    BY <1>3, <1>7 DEF RowsOfTheirOwn, OwnRows
  <1>9. Apart
    BY <1>1, <1>3 DEF Apart, Buckets
  <1> QED BY <1>4, <1>5, <1>6, <1>8, <1>9 DEF IInv

LEMMA StepAppend ==
  ASSUME IInv, NEW b \in Buckets, AppendBatchTokens(b)
  PROVE  IInv' /\ Apart
  <1> DEFINE B == bb[b]
             f == [r \in Rows |-> B.lengths[r] + IF r < B.size THEN 1 ELSE 0]
             C == [B EXCEPT !.lengths = f]
  <1>1. /\ sentence_len' = [s \in Seqs |-> sentence_len[s] + IF s \in Members(B) THEN 1 ELSE 0]
        /\ input_len' = input_len
        /\ bb' = [bb EXCEPT ![b] = C]
    BY DEF AppendBatchTokens
  <1>2. Good(B) /\ OwnRows(B) /\ LensOK
    BY Parts
  <1>3. /\ B.lengths \in [Rows -> Nat] /\ B.size \in 0 .. MaxBatchSize
        /\ MaxBatchSize \in Nat \ {0} /\ Rows = 0 .. MaxBatchSize - 1 /\ Members(B) \subseteq Seqs
    BY <1>2, BucketParts
  <1>4. IndexedBucket(B)
    BY <1>2 DEF Good
  <1> HIDE DEF B, C
  <1>5. \A r \in Rows : f[r] = B.lengths[r] + IF r < B.size THEN 1 ELSE 0
    OBVIOUS
  <1>6. f \in [Rows -> Nat]
    BY <1>3
  <1> HIDE DEF f
  <1>7. \A r \in B.size .. MaxBatchSize - 1 : f[r] = 0
    <2> TAKE r \in B.size .. MaxBatchSize - 1
    <2>1. r \in Rows /\ ~ (r < B.size) /\ B.lengths[r] = 0
      BY <1>3, <1>4 DEF IndexedBucket
    <2> QED BY <2>1, <1>5
  <1>8. /\ Good(C) /\ C.index = B.index /\ C.tables = B.tables /\ C.lengths = f
        /\ Members(C) = Members(B)
    BY <1>2, <1>6, <1>7, SameButLengths DEF C
  <1>9. LensOK'
    BY <1>1, <1>2 DEF LensOK
  <1>10. ASSUME NEW s \in Members(C) PROVE C.lengths[C.index[s]] = sentence_len'[s]
    <2>1. s \in Members(B) /\ s \in Seqs /\ B.lengths[B.index[s]] = sentence_len[s]
      BY <1>2, <1>3, <1>8 DEF OwnRows
    <2>2. B.index[s] \in 0 .. B.size - 1
      BY <2>1, <1>4 DEF IndexedBucket
    <2>3. B.index[s] \in Rows /\ B.index[s] < B.size
      BY <2>2, <1>3
    <2>4. f[B.index[s]] = sentence_len[s] + 1
      BY <2>1, <2>3, <1>5
    <2>5. sentence_len'[s] = sentence_len[s] + 1
      BY <2>1, <1>1
    <2> QED BY <2>4, <2>5, <1>8
  <1>11. \A s \in Seqs \ Members(C) : sentence_len'[s] = sentence_len[s]
    BY <1>1, <1>2, <1>8 DEF LensOK
  <1> QED BY <1>1, <1>8, <1>9, <1>10, <1>11, LengthsChange DEF B

LEMMA StepRevoke ==
  ASSUME IInv, NEW b \in Buckets, NEW n \in 1 .. MaxLen, RevokeBatchTokens(b, n)
  PROVE  IInv' /\ Apart
  <1> DEFINE B == bb[b]
             s == B.dict[1]
             j == B.index[s]
             f == [B.lengths EXCEPT ![j] = B.lengths[j] - n]
             C == [B EXCEPT !.lengths = f]
  <1>1. /\ B.size > 0 /\ sentence_len[s] - input_len[s] >= n
        /\ sentence_len' = [sentence_len EXCEPT ![s] = sentence_len[s] - n]
        /\ input_len' = input_len
        /\ bb' = [bb EXCEPT ![b] = C]
    BY DEF RevokeBatchTokens, RowOfOldest
  <1>2. Good(B) /\ OwnRows(B) /\ LensOK /\ input_len \in [Seqs -> Nat \ {0}]
    BY Parts
  <1>3. /\ B.lengths \in [Rows -> Nat] /\ B.size \in 0 .. MaxBatchSize /\ B.size = Len(B.dict)
        /\ MaxBatchSize \in Nat \ {0} /\ Rows = 0 .. MaxBatchSize - 1 /\ Members(B) \subseteq Seqs
        /\ \A i \in 1 .. Len(B.dict) : B.dict[i] \in Members(B)
    BY <1>2, BucketParts
  <1>4. IndexedBucket(B)
    BY <1>2 DEF Good
  <1>5. s \in Members(B) /\ s \in Seqs
    <2>1. 1 \in 1 .. Len(B.dict)
      BY <1>1, <1>3
    <2> QED BY <2>1, <1>3
  <1>6. j \in 0 .. B.size - 1 /\ B.lengths[j] = sentence_len[s]
    BY <1>2, <1>4, <1>5 DEF OwnRows, IndexedBucket
  <1> HIDE DEF B, C, j, s
  <1>7. j \in Rows /\ j < B.size
    BY <1>3, <1>6
  <1>8. n \in Nat /\ sentence_len[s] \in Nat /\ sentence_len[s] - n \in Nat \ {0}
    <2>1. n \in Nat
      BY BucketAssumption
    <2>2. sentence_len[s] \in Nat /\ input_len[s] \in Nat \ {0}
      BY <1>2, <1>5 DEF LensOK
    <2> QED BY <2>1, <2>2, <1>1
  <1>9. /\ f \in [Rows -> Nat] /\ f[j] = sentence_len[s] - n
        /\ \A r \in Rows : r # j => f[r] = B.lengths[r]
    BY <1>3, <1>6, <1>7, <1>8
  <1> HIDE DEF f
  <1>10. \A r \in B.size .. MaxBatchSize - 1 : f[r] = 0
    <2> TAKE r \in B.size .. MaxBatchSize - 1
    <2>1. r \in Rows /\ r # j /\ B.lengths[r] = 0
      BY <1>3, <1>4, <1>7 DEF IndexedBucket
    <2> QED BY <2>1, <1>9
  <1>11. /\ Good(C) /\ C.index = B.index /\ C.tables = B.tables /\ C.lengths = f
         /\ Members(C) = Members(B)
    BY <1>2, <1>9, <1>10, SameButLengths DEF C
  <1>12. LensOK'
    BY <1>1, <1>2, <1>5, <1>8 DEF LensOK
  <1>13. ASSUME NEW q \in Members(C) PROVE C.lengths[C.index[q]] = sentence_len'[q]
    <2>1. q \in Members(B) /\ q \in Seqs /\ B.lengths[B.index[q]] = sentence_len[q]
      BY <1>2, <1>3, <1>11 DEF OwnRows
    <2>2. CASE q = s
      <3>1. C.lengths[C.index[q]] = sentence_len[s] - n
        BY <2>2, <1>9, <1>11 DEF j
      <3>2. sentence_len'[q] = sentence_len[s] - n
        BY <2>2, <1>1, <1>2, <1>5 DEF LensOK
      <3> QED BY <3>1, <3>2
    <2>3. CASE q # s
      <3>1. B.index[q] # j
        BY <2>1, <2>3, <1>4, <1>5 DEF IndexedBucket, j
      <3>2. B.index[q] \in 0 .. B.size - 1
        BY <2>1, <1>4 DEF IndexedBucket
      <3>3. B.index[q] \in Rows
        BY <3>2, <1>3
      <3>4. C.lengths[C.index[q]] = sentence_len[q]
        BY <3>1, <3>3, <2>1, <1>9, <1>11
      <3>5. sentence_len'[q] = sentence_len[q]
        BY <2>1, <2>3, <1>1, <1>2 DEF LensOK
      <3> QED BY <3>4, <3>5
    <2> QED BY <2>2, <2>3
  <1>14. \A q \in Seqs \ Members(C) : sentence_len'[q] = sentence_len[q]
    BY <1>1, <1>2, <1>5, <1>11 DEF LensOK
  <1> QED BY <1>1, <1>11, <1>12, <1>13, <1>14, LengthsChange DEF B
-----------------------------------------------------------------------------
LEMMA StepIInv == IInv /\ [Next]_vars => IInv'
  <1> SUFFICES ASSUME IInv, [Next]_vars PROVE IInv'
    OBVIOUS
  <1>1. ASSUME NEW b \in Buckets, AddSeqs(b) PROVE IInv'
    BY <1>1, StepAddSeqs
  <1>2. ASSUME NEW b \in Buckets, AppendBatchTokens(b) PROVE IInv'
    BY <1>2, StepAppend
  <1>3. ASSUME NEW b \in Buckets, Clear(b) PROVE IInv'
    BY <1>3, StepClear
  <1>4. ASSUME NEW b \in Buckets, NEW s \in Seqs, PopSeqUpdateBatch(b, s) PROVE IInv'
    BY <1>4, StepPop
  <1>5. ASSUME NEW b \in Buckets, NEW n \in 1 .. MaxBatchSize, PopNSeqs(b, n) PROVE IInv'
    BY <1>5, StepPopN
  <1>6. ASSUME NEW b \in Buckets, NEW n \in 1 .. MaxLen, RevokeBatchTokens(b, n) PROVE IInv'
    BY <1>6, StepRevoke
  <1>7. CASE Merge
    BY <1>7, StepMerge
  <1>8. CASE UNCHANGED vars
    BY <1>8 DEF vars, IInv, TypeOK, Indexed, RowsOfTheirOwn, OwnRows, InOneBucket
  <1> QED BY <1>1, <1>2, <1>3, <1>4, <1>5, <1>6, <1>7, <1>8, Zenon DEF Next

\* Every fact below follows from this one.
THEOREM Invariance == Spec => []IInv
  <1> QED BY InitIInv, StepIInv, PTL DEF Spec

\* The buckets and the lengths keep their types.
THEOREM TypeCorrect == Spec => []TypeOK
  <1>1. IInv => TypeOK
    BY DEF IInv
  <1> QED BY <1>1, Invariance, PTL

\* The index names the rows in use, each once, and the rows after them are
\* clean (add_seqs, pop_seq_update_batch, pop_n_seqs, merge).
THEOREM AlwaysIndexed == Spec => []Indexed
  <1>1. IInv => Indexed
    BY DEF IInv
  <1> QED BY <1>1, Invariance, PTL

\* No sequence reads the length or the block table of another, whatever was
\* popped, merged, compacted, appended or revoked before.
THEOREM AlwaysTheirOwn == Spec => []RowsOfTheirOwn
  <1>1. IInv => RowsOfTheirOwn
    BY DEF IInv
  <1> QED BY <1>1, Invariance, PTL

\* merge moves sequences: none is left in both buckets.
THEOREM NeverInBoth == Spec => []InOneBucket
  <1>1. IInv => InOneBucket
    BY DEF IInv
  <1> QED BY <1>1, Invariance, PTL

\* pop_n_seqs returns the first of the dictionary, so that merge leaves those
\* behind that arrived after the ones it takes along.
THEOREM MergeIsFirstInFirstOut == Spec => MergeTakesTheOldest
  <1> DEFINE First == \A s \in Members(bb["prefill"]) \cap Members(bb'["running"]) :
                        \A q \in Members(bb'["prefill"]) :
                          \E i, j \in DOMAIN bb["prefill"].dict :
                            i < j /\ bb["prefill"].dict[i] = s /\ bb["prefill"].dict[j] = q
  <1>1. Apart => First
    BY DEF Apart
  <1>2. ASSUME IInv, OldestMove PROVE First
    <2> DEFINE B == bb["prefill"]
    <2> SUFFICES ASSUME NEW s \in Members(B) \cap Members(bb'["running"]), NEW q \in Members(bb'["prefill"])
                 PROVE  \E i, j \in DOMAIN B.dict : i < j /\ B.dict[i] = s /\ B.dict[j] = q
      OBVIOUS
    <2>1. PICK n \in 1 .. B.size : /\ Members(bb'["prefill"]) = Members(B) \ Oldest(B, n)
                                  /\ Members(bb'["running"]) = Members(bb["running"]) \cup Oldest(B, n)
      BY <1>2 DEF OldestMove
    <2>2. Members(B) \cap Members(bb["running"]) = {} /\ Good(B)
      BY <1>2, Parts
    <2>3. B.dict \in Seq(Seqs) /\ B.size = Len(B.dict) /\ B.size \in Nat
      BY <2>2, BucketParts
    <2> HIDE DEF B
    <2>4. DOMAIN B.dict = 1 .. B.size
      BY <2>3
    <2>5. PICK i \in 1 .. n : B.dict[i] = s
      BY <2>1, <2>2 DEF Oldest
    <2>6. PICK j \in 1 .. B.size : B.dict[j] = q /\ j \notin 1 .. n
      BY <2>1, <2>4 DEF Members, Oldest
    <2>7. i \in DOMAIN B.dict /\ j \in DOMAIN B.dict /\ i < j
      <3>1. n \in Nat /\ n <= B.size /\ i \in Nat /\ i >= 1 /\ i <= n /\ j \in Nat /\ j >= 1 /\ j <= B.size
        BY <2>3
      <3>2. ~ (j <= n)
        BY <2>6, <3>1
      <3> QED BY <2>3, <2>4, <3>1, <3>2
    <2> QED BY <2>5, <2>6, <2>7
  <1>3. ASSUME IInv, [Next]_vars PROVE Apart \/ OldestMove \/ UNCHANGED vars
    <2>1. ASSUME NEW b \in Buckets, AddSeqs(b) \/ AppendBatchTokens(b) \/ Clear(b) PROVE Apart
      BY <1>3, <2>1, StepAddSeqs, StepAppend, StepClear
    <2>2. ASSUME NEW b \in Buckets, NEW s \in Seqs, PopSeqUpdateBatch(b, s) PROVE Apart
      BY <1>3, <2>2, StepPop
    <2>3. ASSUME NEW b \in Buckets, NEW n \in 1 .. MaxBatchSize, PopNSeqs(b, n) PROVE Apart
      BY <1>3, <2>3, StepPopN
    <2>4. ASSUME NEW b \in Buckets, NEW n \in 1 .. MaxLen, RevokeBatchTokens(b, n) PROVE Apart
      BY <1>3, <2>4, StepRevoke
    <2>5. CASE Merge
      BY <1>3, <2>5, StepMerge
    <2> QED BY <1>3, <2>1, <2>2, <2>3, <2>4, <2>5, Zenon DEF Next
  <1> HIDE DEF First
  <1>4. IInv /\ [Next]_vars => [First]_vars
    BY <1>1, <1>2, <1>3
  <1>5. Spec => [][First]_vars
    BY <1>4, Invariance, PTL DEF Spec
  <1> QED BY <1>5 DEF First, MergeTakesTheOldest

\* Distinct rows with a length and a block table make the three counts agree.
LEMMA OwnRowsCompact ==
  ASSUME NEW B, Good(B), OwnRows(B), LensOK
  PROVE  IsCompact(B)
  <1> DEFINE N == B.size
  <1>1. /\ N \in Nat /\ N \in 0 .. MaxBatchSize /\ MaxBatchSize \in Nat \ {0} /\ N = Len(B.dict)
        /\ Rows = 0 .. MaxBatchSize - 1 /\ Members(B) \subseteq Seqs
    BY BucketParts
  <1>2. \A r \in 0 .. N - 1 : B.tables[r] # NoTable /\ B.lengths[r] # 0
    <2> TAKE r \in 0 .. N - 1
    <2>1. PICK s \in Members(B) : B.index[s] = r
      BY DEF Good, IndexedBucket
    <2>2. B.tables[r] = s /\ s \in Seqs /\ B.lengths[r] = sentence_len[s]
      BY <2>1, <1>1 DEF OwnRows
    <2> QED BY <2>2, BucketAssumption DEF LensOK
  <1>3. \A r \in N .. MaxBatchSize - 1 : B.tables[r] = NoTable /\ B.lengths[r] = 0
    BY DEF Good, IndexedBucket
  <1> HIDE DEF N
  <1>4. 0 .. N - 1 \subseteq Rows /\ \A r \in Rows : r \in 0 .. N - 1 \/ r \in N .. MaxBatchSize - 1
    BY <1>1
  <1>5. /\ {r \in Rows : B.tables[r] # NoTable} = 0 .. N - 1
        /\ {r \in Rows : B.lengths[r] # 0} = 0 .. N - 1
    BY <1>2, <1>3, <1>4
  <1>6. Cardinality(0 .. N - 1) = N
    <2>1. 0 \in Int /\ N - 1 \in Int
      BY <1>1
    <2>2. Cardinality(0 .. N - 1) = IF 0 > N - 1 THEN 0 ELSE (N - 1) - 0 + 1
      BY <2>1, FS_Interval, Zenon
    <2> QED BY <2>2, <1>1
  <1> QED BY <1>1, <1>5, <1>6, Zenon DEF IsCompact

\* The assertions of get_1D_inputs and get_block_table_tensor never fail.
THEOREM NeverLoose == Spec => []AlwaysCompact
  <1>1. IInv => AlwaysCompact
    BY Parts, OwnRowsCompact DEF AlwaysCompact
  <1> QED BY <1>1, Invariance, PTL
=============================================================================
