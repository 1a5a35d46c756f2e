------------------------------ MODULE EngineProofs ------------------------------
(***************************************************************************)
(* Proofs about the inference engine, from the handler up.                 *)
(*                                                                         *)
(* RequestHandler, for any requests, batch size, lengths and prefill       *)
(* ratio: no request is lost or in two places, longer prompts go first,    *)
(* and the handler implements the batcher its engine sees and the protocol *)
(* its cache manager relies on.                                            *)
(*                                                                         *)
(* AsyncEngine, over any batcher: no waiting caller is forgotten, and no   *)
(* answer changes.                                                         *)
(***************************************************************************)
EXTENDS RequestHandler, AsyncEngine, DataLemmas, FiniteSetTheorems, TLAPS

\* Nothing is in a list twice.
Once(list) == \A i, j \in DOMAIN list : list[i] = list[j] => i = j

-----------------------------------------------------------------------------
(* Lists.                                                                  *)

\* Appending puts a sequence of one at the end.
LEMMA AppendIsConcatenation ==
  ASSUME NEW S, NEW s \in Seq(S), NEW e \in S
  PROVE  Append(s, e) = s \o <<e>>
OBVIOUS

\* The length, the places and the members of a list.
LEMMA ListFacts ==
  ASSUME NEW S, NEW list \in Seq(S)
  PROVE  /\ Len(list) \in Nat /\ DOMAIN list = 1 .. Len(list) /\ Held(list) \subseteq S
         /\ (Len(list) = 0 <=> list = <<>>) /\ (Held(list) = {} <=> list = <<>>)
<1>1. Len(list) \in Nat /\ DOMAIN list = 1 .. Len(list) /\ \A i \in 1 .. Len(list) : list[i] \in S
  OBVIOUS
<1>2. Len(list) = 0 <=> list = <<>>
  OBVIOUS
<1>3. Held(list) \subseteq S
  BY <1>1 DEF Held
<1>4. Held(list) = {} <=> Len(list) = 0
  <2>1. Len(list) # 0 => 1 \in 1 .. Len(list)
    BY <1>1
  <2>2. Len(list) = 0 => 1 .. Len(list) = {}
    BY <1>1
  <2> QED BY <1>1, <2>1, <2>2 DEF Held
<1> QED BY <1>1, <1>2, <1>3, <1>4

LEMMA CardOnce ==
  ASSUME NEW S, NEW list \in Seq(S), Once(list)
  PROVE  IsFiniteSet(Held(list)) /\ Cardinality(Held(list)) = Len(list)
<1>1. Len(list) \in Nat /\ DOMAIN list = 1 .. Len(list)
  BY ListFacts
<1>2. IsFiniteSet(1 .. Len(list)) /\ Cardinality(1 .. Len(list)) = Len(list)
  BY <1>1, FS_Interval
<1> DEFINE f == [i \in 1 .. Len(list) |-> list[i]]
<1>3. f \in Bijection(1 .. Len(list), Held(list))
  <2>1. f \in [1 .. Len(list) -> Held(list)]
    BY <1>1 DEF Held
  <2>2. \A x \in Held(list) : \E i \in 1 .. Len(list) : f[i] = x
    BY <1>1 DEF Held
  <2>3. \A i, j \in 1 .. Len(list) : f[i] = f[j] => i = j
    BY <1>1 DEF Once
  <2> QED BY <2>1, <2>2, <2>3 DEF Bijection, Injection, Surjection, IsInjective
<1>4. ExistsBijection(1 .. Len(list), Held(list))
  BY <1>3 DEF ExistsBijection
<1> QED BY <1>2, <1>4, FS_Bijection

LEMMA HeldConcat ==
  ASSUME NEW S, NEW s \in Seq(S), NEW t \in Seq(S)
  PROVE  /\ s \o t \in Seq(S) /\ Held(s \o t) = Held(s) \cup Held(t)
         /\ Once(s \o t) <=> Once(s) /\ Once(t) /\ Held(s) \cap Held(t) = {}
<1> DEFINE c == s \o t
<1>1. /\ c \in Seq(S) /\ Len(c) = Len(s) + Len(t) /\ DOMAIN c = 1 .. Len(c)
      /\ \A i \in 1 .. Len(s) : c[i] = s[i]
      /\ \A i \in Len(s) + 1 .. Len(s) + Len(t) : c[i] = t[i - Len(s)]
      /\ Len(s) \in Nat /\ Len(t) \in Nat /\ DOMAIN s = 1 .. Len(s) /\ DOMAIN t = 1 .. Len(t)
  BY ConcatFacts
<1> HIDE DEF c
<1>2. /\ \A i \in 1 .. Len(s) : i \in DOMAIN c
      /\ \A i \in 1 .. Len(t) : Len(s) + i \in DOMAIN c /\ c[Len(s) + i] = t[i]
  <2>1. ASSUME NEW i \in 1 .. Len(t)
        PROVE  Len(s) + i \in DOMAIN c /\ c[Len(s) + i] = t[i]
    <3>1. /\ Len(s) + i \in Len(s) + 1 .. Len(s) + Len(t) /\ (Len(s) + i) - Len(s) = i
          /\ Len(s) + i \in 1 .. Len(s) + Len(t)
      BY <1>1
    <3> QED BY <1>1, <3>1
  <2> QED BY <1>1, <2>1
<1>3. \A i \in DOMAIN c : \/ i \in 1 .. Len(s) /\ c[i] = s[i]
                          \/ i - Len(s) \in 1 .. Len(t) /\ c[i] = t[i - Len(s)]
  <2> SUFFICES ASSUME NEW i \in 1 .. Len(s) + Len(t), i \notin 1 .. Len(s)
               PROVE  i - Len(s) \in 1 .. Len(t) /\ c[i] = t[i - Len(s)]
    BY <1>1
  <2>1. i \in Len(s) + 1 .. Len(s) + Len(t) /\ i - Len(s) \in 1 .. Len(t)
    BY <1>1
  <2> QED BY <1>1, <2>1
<1>4. Held(c) = Held(s) \cup Held(t)
  <2>1. ASSUME NEW x \in Held(c) PROVE x \in Held(s) \cup Held(t)
    BY <1>1, <1>3, <2>1 DEF Held
  <2>2. ASSUME NEW x \in Held(s) PROVE x \in Held(c)
    BY <1>1, <1>2, <2>2 DEF Held
  <2>3. ASSUME NEW x \in Held(t) PROVE x \in Held(c)
    <3>1. PICK i \in 1 .. Len(t) : t[i] = x
      BY <1>1, <2>3 DEF Held
    <3>2. Len(s) + i \in DOMAIN c /\ c[Len(s) + i] = x
      BY <1>2, <3>1
    <3> QED BY <3>2 DEF Held
  <2> QED BY <2>1, <2>2, <2>3
<1>5. ASSUME Once(c) PROVE Once(s) /\ Once(t) /\ Held(s) \cap Held(t) = {}
  <2>1. Once(s)
    BY <1>1, <1>2, <1>5 DEF Once
  <2>2. Once(t)
    <3> SUFFICES ASSUME NEW i \in 1 .. Len(t), NEW j \in 1 .. Len(t), t[i] = t[j] PROVE i = j
      BY <1>1 DEF Once
    <3>1. Len(s) + i = Len(s) + j
      BY <1>2, <1>5 DEF Once
    <3> QED BY <1>1, <3>1
  <2>3. ASSUME NEW x \in Held(s), x \in Held(t) PROVE FALSE
    <3>1. PICK i \in 1 .. Len(s), j \in 1 .. Len(t) : s[i] = x /\ t[j] = x
      BY <1>1, <2>3 DEF Held
    <3>a. i \in DOMAIN c /\ c[i] = x
      BY <1>1, <1>2, <3>1
    <3>b. Len(s) + j \in DOMAIN c /\ c[Len(s) + j] = x
      BY <1>2, <3>1
    <3>2. i = Len(s) + j
      BY <1>5, <3>a, <3>b DEF Once
    <3> QED BY <1>1, <3>2
  <2> QED BY <2>1, <2>2, <2>3
<1>6. ASSUME Once(s), Once(t), Held(s) \cap Held(t) = {} PROVE Once(c)
  <2> SUFFICES ASSUME NEW i \in DOMAIN c, NEW j \in DOMAIN c, c[i] = c[j] PROVE i = j
    BY DEF Once
  <2>1. \A k \in 1 .. Len(s), l \in 1 .. Len(t) : s[k] # t[l]
    BY <1>1, <1>6 DEF Held
  <2>2. CASE i \in 1 .. Len(s) /\ c[i] = s[i]
    <3>1. j \in 1 .. Len(s) /\ c[j] = s[j]
      BY <1>3, <2>1, <2>2
    <3> QED BY <1>1, <1>6, <2>2, <3>1 DEF Once
  <2>3. CASE i - Len(s) \in 1 .. Len(t) /\ c[i] = t[i - Len(s)]
    <3>1. j - Len(s) \in 1 .. Len(t) /\ c[j] = t[j - Len(s)]
      BY <1>3, <2>1, <2>3
    <3>2. i - Len(s) = j - Len(s)
      BY <1>1, <1>6, <2>3, <3>1 DEF Once
    <3> QED BY <1>1, <3>2
  <2> QED BY <1>3, <2>2, <2>3
<1> QED BY <1>1, <1>4, <1>5, <1>6 DEF c

\* What is taken and what is left make up the list.
LEMMA TakeDrop ==
  ASSUME NEW S, NEW list \in Seq(S), NEW n \in Nat
  PROVE  LET m == Len(Take(list, n))
             d == Drop(list, m)
         IN /\ Take(list, n) \in Seq(S) /\ d \in Seq(S)
            /\ m = IF n <= Len(list) THEN n ELSE Len(list)
            /\ \A i \in 1 .. m : Take(list, n)[i] = list[i]
            /\ Len(d) = Len(list) - m /\ \A i \in 1 .. Len(d) : d[i] = list[m + i]
            /\ Held(list) = Held(Take(list, n)) \cup Held(d)
            /\ Once(list) => /\ Once(Take(list, n)) /\ Once(d)
                             /\ Held(Take(list, n)) \cap Held(d) = {}
<1> DEFINE m == IF n <= Len(list) THEN n ELSE Len(list)
           a == Take(list, n)
           d == Drop(list, m)
<1>1. m \in 0 .. Len(list) /\ Len(list) \in Nat
  OBVIOUS
<1> HIDE DEF m
<1>2. /\ a \in Seq(S) /\ Len(a) = m /\ \A i \in 1 .. m : a[i] = list[i]
  <2>1. a = SubSeq(list, 1, m)
    BY DEF Take, m
  <2> QED BY <1>1, <2>1
<1>3. d \in Seq(S) /\ Len(d) = Len(list) - m /\ \A i \in 1 .. Len(d) : d[i] = list[m + i]
  <2>1. d = SubSeq(list, m + 1, Len(list)) /\ m + 1 \in 1 .. Len(list) + 1
    BY <1>1 DEF Drop
  <2>2. /\ d \in Seq(S) /\ Len(d) = Len(list) - (m + 1) + 1
        /\ \A i \in 1 .. Len(list) - (m + 1) + 1 : d[i] = list[(m + 1) + i - 1]
    <3>1. Len(list) \in 0 .. Len(list) /\ m + 1 <= Len(list) + 1
      BY <1>1
    <3> HIDE DEF d
    <3> QED BY <2>1, <3>1, SubSeqFacts
  <2>3. Len(list) - (m + 1) + 1 = Len(list) - m /\ \A i \in Int : (m + 1) + i - 1 = m + i
    BY <1>1
  <2> HIDE DEF d
  <2>4. d \in Seq(S) /\ Len(d) = Len(list) - m
    BY <2>2, <2>3
  <2>5. ASSUME NEW i \in 1 .. Len(d) PROVE d[i] = list[m + i]
    <3>1. i \in 1 .. Len(list) - (m + 1) + 1 /\ (m + 1) + i - 1 = m + i
      BY <2>3, <2>4
    <3>2. d[i] = list[(m + 1) + i - 1]
      BY <2>2, <3>1
    <3> QED BY <3>1, <3>2
  <2> QED BY <2>4, <2>5
<1> HIDE DEF a, d
<1>4. a \o d = list
  <2>1. /\ a \o d \in Seq(S) /\ Len(a \o d) = Len(list)
        /\ \A i \in 1 .. m : (a \o d)[i] = a[i]
        /\ \A i \in m + 1 .. Len(list) : (a \o d)[i] = d[i - m]
    BY <1>1, <1>2, <1>3, ConcatFacts
  <2>2. ASSUME NEW i \in 1 .. Len(list) PROVE (a \o d)[i] = list[i]
    <3>1. CASE i \in 1 .. m
      BY <1>2, <2>1, <3>1
    <3>2. CASE i \notin 1 .. m
      <4>1. i \in m + 1 .. Len(list) /\ i - m \in 1 .. Len(list) - m /\ m + (i - m) = i
        BY <1>1, <3>2
      <4> QED BY <1>3, <2>1, <4>1
    <3> QED BY <3>1, <3>2
  <2> QED BY <2>1, <2>2, SameSeq
<1>5. /\ Held(list) = Held(a) \cup Held(d)
      /\ Once(list) => Once(a) /\ Once(d) /\ Held(a) \cap Held(d) = {}
  <2>1. a \in Seq(S) /\ d \in Seq(S)
    BY <1>2, <1>3
  <2>2. /\ Held(a \o d) = Held(a) \cup Held(d)
        /\ Once(a \o d) <=> Once(a) /\ Once(d) /\ Held(a) \cap Held(d) = {}
    BY <2>1, HeldConcat
  <2> QED BY <1>4, <2>2
<1> QED BY <1>2, <1>3, <1>5 DEF a, d, m

\* Within leaves the others out, and the order as it is.
LEMMA WithinFacts ==
  ASSUME NEW S, NEW list \in Seq(S), NEW R
  PROVE  /\ Within(list, R) \in Seq(S) /\ Held(Within(list, R)) = Held(list) \cap R
         /\ Once(list) => Once(Within(list, R))
<1> DEFINE n == Len(list)
           X == Seq(S)
           Next1(i, y) == IF list[i] \in R THEN Append(y, list[i]) ELSE y
           F == [i \in 1 .. n |-> [y \in X |-> Next1(i, y)]]
           Equation(g) == g = [i \in 0 .. n |-> IF i = 0 THEN <<>>
                                                ELSE IF list[i] \in R THEN Append(g[i - 1], list[i])
                                                ELSE g[i - 1]]
           kept == CHOOSE g : Equation(g)
<1>1. n \in Nat /\ <<>> \in X /\ \A i \in 1 .. n : list[i] \in S
  OBVIOUS
<1>2. F \in [1 .. n -> [X -> X]]
  <2>1. ASSUME NEW i \in 1 .. n, NEW y \in X PROVE Next1(i, y) \in X
    BY <1>1
  <2> HIDE DEF X, n, Next1
  <2> QED BY <2>1
<1>3. PICK h \in [0 .. n -> X] : h[0] = <<>> /\ \A i \in 1 .. n : h[i] = Next1(i, h[i - 1])
  <2>1. \A i \in 1 .. n, y \in X : F[i][y] = Next1(i, y)
    OBVIOUS
  <2> HIDE DEF F, n, X, Next1
  <2>2. PICK h : h \in Runs(X, <<>>, n, F)
    BY <1>1, <1>2, RecursionExists
  <2>3. h \in [0 .. n -> X] /\ h[0] = <<>> /\ \A i \in 1 .. n : h[i] = F[i][h[i - 1]]
    BY <2>2 DEF Runs
  <2>4. ASSUME NEW i \in 1 .. n PROVE h[i] = Next1(i, h[i - 1])
    <3>1. i - 1 \in 0 .. n
      BY <1>1
    <3> QED BY <2>1, <2>3, <3>1
  <2> QED BY <2>3, <2>4
<1>4. Equation(h)
  <2> DEFINE e == [i \in 0 .. n |-> IF i = 0 THEN <<>>
                                    ELSE IF list[i] \in R THEN Append(h[i - 1], list[i])
                                    ELSE h[i - 1]]
  <2>1. ASSUME NEW i \in 0 .. n PROVE h[i] = e[i]
    <3>1. i = 0 \/ i \in 1 .. n
      BY <1>1
    <3> HIDE DEF n, X
    <3> QED BY <1>3, <3>1
  <2>2. h = [i \in 0 .. n |-> h[i]] /\ e = [i \in 0 .. n |-> e[i]]
    <3> HIDE DEF n, X
    <3> QED BY <1>3
  <2> HIDE DEF e
  <2> QED BY <2>1, <2>2 DEF e
<1>5. Equation(kept)
  <2> HIDE DEF Equation
  <2> QED BY <1>4
<1>6. Within(list, R) = kept[n]
  BY DEF Within
<1> HIDE DEF kept
<1>7. kept[0] = <<>> /\ \A i \in 1 .. n : kept[i] = Next1(i, kept[i - 1])
  <2>1. ASSUME NEW i \in 0 .. n
        PROVE  kept[i] = IF i = 0 THEN <<>>
                         ELSE IF list[i] \in R THEN Append(kept[i - 1], list[i]) ELSE kept[i - 1]
    BY <1>5
  <2>2. 0 \in 0 .. n /\ \A i \in 1 .. n : i \in 0 .. n /\ i # 0
    BY <1>1
  <2> HIDE DEF n, Equation
  <2> QED BY <2>1, <2>2
<1> HIDE DEF Equation
<1> DEFINE Seen(i) == {x \in S : \E j \in 1 .. i : list[j] = x}
           T == {i \in 0 .. n : /\ kept[i] \in X /\ Held(kept[i]) = Seen(i) \cap R
                                /\ Once(list) => Once(kept[i])}
<1>8. 0 \in T
  <2>1. Held(<<>>) = {} /\ Once(<<>>) /\ Seen(0) = {}
    BY <1>1 DEF Held, Once
  <2>2. kept[0] = <<>> /\ 0 \in 0 .. n /\ <<>> \in X
    BY <1>1, <1>7
  <2>3. /\ kept[0] \in X /\ Held(kept[0]) = Seen(0) \cap R
        /\ Once(list) => Once(kept[0])
    <3> HIDE DEF Seen, X
    <3> QED BY <2>1, <2>2
  <2> HIDE DEF Seen, X, n
  <2> QED BY <2>2, <2>3
<1>9. ASSUME NEW i \in 0 .. n - 1, i \in T PROVE i + 1 \in T
  <2> DEFINE x == list[i + 1]
             k == kept[i]
  <2>1. i + 1 \in 1 .. n /\ i + 1 \in 0 .. n /\ (i + 1) - 1 = i /\ x \in S /\ i \in Nat
    BY <1>1
  <2>2. k \in Seq(S) /\ Held(k) = Seen(i) \cap R /\ (Once(list) => Once(k))
    BY <1>9
  <2>3. kept[i + 1] = IF x \in R THEN Append(k, x) ELSE k
    BY <1>7, <2>1
  <2>4. Seen(i + 1) = Seen(i) \cup {x}
    <3>1. \A j : j \in 1 .. i + 1 <=> j = i + 1 \/ j \in 1 .. i
      BY <2>1
    <3> QED BY <2>1, <3>1
  <2>5. Once(list) => x \notin Seen(i)
    <3>1. ASSUME Once(list), NEW j \in 1 .. i, list[j] = x PROVE FALSE
      <4>1. j \in 1 .. n /\ i + 1 \in 1 .. n /\ j # i + 1 /\ DOMAIN list = 1 .. n
        BY <1>1, <2>1
      <4> QED BY <3>1, <4>1 DEF Once
    <3> QED BY <3>1
  <2>6. CASE x \notin R
    <3>1. kept[i + 1] = k /\ Seen(i + 1) \cap R = Seen(i) \cap R
      BY <2>3, <2>4, <2>6
    <3> HIDE DEF k, Seen
    <3> QED BY <2>1, <2>2, <3>1
  <2>7. CASE x \in R
    <3> DEFINE o == <<x>>
    <3>1. o \in Seq(S) /\ Held(o) = {x} /\ Once(o)
      BY <2>1 DEF Held, Once
    <3>2. Append(k, x) = k \o o
      <4>1. k \in Seq(S) /\ x \in S
        BY <2>1, <2>2
      <4> HIDE DEF k, x
      <4> QED BY ONLY <4>1, AppendIsConcatenation DEF o
    <3> HIDE DEF o, k, x, Seen
    <3>3. /\ k \o o \in Seq(S) /\ Held(k \o o) = Held(k) \cup Held(o)
          /\ Once(k \o o) <=> Once(k) /\ Once(o) /\ Held(k) \cap Held(o) = {}
      BY <2>2, <3>1, HeldConcat
    <3>4. kept[i + 1] = k \o o
      BY <2>3, <2>7, <3>2
    <3>5. Held(k \o o) = Seen(i + 1) \cap R /\ (Once(list) => Once(k \o o))
      BY <2>2, <2>4, <2>5, <2>7, <3>1, <3>3
    <3> QED BY <2>1, <3>3, <3>4, <3>5
  <2> QED BY <2>6, <2>7
<1>10. n \in T
  <2>1. 0 .. n \subseteq T
    <3> HIDE DEF T, n
    <3> QED BY <1>1, <1>8, <1>9, UpTo
  <2>2. n \in 0 .. n
    BY <1>1
  <2> HIDE DEF T
  <2> QED BY <2>1, <2>2
<1>11. Seen(n) = Held(list)
  BY <1>1 DEF Held
<1> QED BY <1>6, <1>10, <1>11

\* The last row takes the place of the one that goes.
LEMMA PopRowFacts ==
  ASSUME NEW S, NEW rows \in Seq(S), Once(rows), NEW r \in Held(rows)
  PROVE  /\ PopRow(rows, r) \in Seq(S) /\ Once(PopRow(rows, r))
         /\ Held(PopRow(rows, r)) = Held(rows) \ {r}
<1> DEFINE n == Len(rows)
           q == PopRow(rows, r)
<1>1. n \in Nat /\ DOMAIN rows = 1 .. n /\ \A i \in 1 .. n : rows[i] \in S
  OBVIOUS
<1>2. PICK m \in 1 .. n : rows[m] = r
  BY <1>1 DEF Held
<1>3. n \in 1 .. n /\ n - 1 \in Nat /\ \A k \in 1 .. n - 1 : k \in 1 .. n /\ k # n
  <2> HIDE DEF n, q
  <2>1. n \in Nat /\ 1 <= n
    BY <1>1, <1>2
  <2> QED BY <2>1
<1>4. q = [k \in 1 .. n - 1 |-> IF rows[k] = r THEN rows[n] ELSE rows[k]]
  BY DEF PopRow
<1> HIDE DEF n, q
<1>5. \A i, j \in 1 .. n : rows[i] = rows[j] => i = j
  BY <1>1 DEF Once
<1>6. /\ \A k \in 1 .. n - 1 : q[k] = IF k = m THEN rows[n] ELSE rows[k]
      /\ DOMAIN q = 1 .. n - 1
  BY <1>2, <1>3, <1>4, <1>5
<1>7. q \in Seq(S)
  <2>1. \A k \in 1 .. n - 1 : q[k] \in S
    BY <1>1, <1>3, <1>6
  <2>2. q \in [1 .. n - 1 -> S]
    BY <1>4, <2>1
  <2> QED BY <1>3, <2>2
<1>8. Once(q)
  BY <1>3, <1>5, <1>6 DEF Once
<1>9. Held(q) = Held(rows) \ {r}
  <2>1. ASSUME NEW k \in 1 .. n - 1 PROVE q[k] \in Held(rows) \ {r}
    BY <1>1, <1>2, <1>3, <1>5, <1>6 DEF Held
  <2>2. ASSUME NEW k \in 1 .. n, rows[k] # r PROVE \E i \in 1 .. n - 1 : q[i] = rows[k]
    <3>1. CASE k = n
      <4>1. m \in 1 .. n - 1 /\ q[m] = rows[n]
        BY <1>1, <1>2, <1>6, <2>2, <3>1
      <4> QED BY <3>1, <4>1
    <3>2. CASE k # n
      <4>1. k \in 1 .. n - 1 /\ k # m
        BY <1>1, <1>2, <2>2, <3>2
      <4> QED BY <1>6, <4>1
    <3> QED BY <3>1, <3>2
  <2>3. ASSUME NEW x \in Held(q) PROVE x \in Held(rows) \ {r}
    BY <1>6, <2>1, <2>3 DEF Held
  <2>4. ASSUME NEW x \in Held(rows), x # r PROVE x \in Held(q)
    <3>1. PICK k \in 1 .. n : rows[k] = x
      BY <1>1, <2>4 DEF Held
    <3>2. PICK i \in 1 .. n - 1 : q[i] = x
      BY <2>2, <2>4, <3>1
    <3> QED BY <1>6, <3>2 DEF Held
  <2> QED BY <2>3, <2>4
<1> QED BY <1>7, <1>8, <1>9 DEF q

\* Rows that go one after the other, each of them once.
LEMMA PoppedFacts ==
  ASSUME NEW S, NEW rows \in Seq(S), NEW fin \in Seq(S), Once(rows), Once(fin),
         Held(fin) \subseteq Held(rows)
  PROVE  /\ Popped(rows, fin) \in Seq(S) /\ Once(Popped(rows, fin))
         /\ Held(Popped(rows, fin)) = Held(rows) \ Held(fin)
<1> DEFINE n == Len(fin)
           X == Seq(S)
           Y == {y \in X : Once(y)}
           Pop(i, y) == IF fin[i] \in Held(y) THEN PopRow(y, fin[i]) ELSE y
           F == [i \in 1 .. n |-> [y \in Y |-> Pop(i, y)]]
           Equation(g) == g = [i \in 0 .. n |-> IF i = 0 THEN rows ELSE PopRow(g[i - 1], fin[i])]
           left == CHOOSE g : Equation(g)
<1>1. n \in Nat /\ DOMAIN fin = 1 .. n /\ rows \in Y /\ \A i \in 1 .. n : fin[i] \in Held(rows)
  <2>1. n \in Nat /\ DOMAIN fin = 1 .. n /\ rows \in Y
    OBVIOUS
  <2>2. \A i \in 1 .. n : fin[i] \in Held(fin)
    BY <2>1 DEF Held
  <2> QED BY <2>1, <2>2
<1>2. F \in [1 .. n -> [Y -> Y]]
  <2>1. ASSUME NEW i \in 1 .. n, NEW y \in Y PROVE Pop(i, y) \in Y
    <3>1. y \in Seq(S) /\ Once(y)
      OBVIOUS
    <3>2. CASE fin[i] \in Held(y)
      <4>1. PopRow(y, fin[i]) \in Seq(S) /\ Once(PopRow(y, fin[i]))
        BY <3>1, <3>2, PopRowFacts
      <4> QED BY <3>2, <4>1
    <3>3. CASE fin[i] \notin Held(y)
      BY <3>3
    <3> QED BY <3>2, <3>3
  <2> HIDE DEF Y, n, Pop
  <2> QED BY <2>1
<1>3. PICK h \in [0 .. n -> Y] : h[0] = rows /\ \A i \in 1 .. n : h[i] = Pop(i, h[i - 1])
  <2>1. \A i \in 1 .. n, y \in Y : F[i][y] = Pop(i, y)
    OBVIOUS
  <2> HIDE DEF F, n, Y, Pop
  <2>2. PICK h : h \in Runs(Y, rows, n, F)
    BY <1>1, <1>2, RecursionExists
  <2>3. h \in [0 .. n -> Y] /\ h[0] = rows /\ \A i \in 1 .. n : h[i] = F[i][h[i - 1]]
    BY <2>2 DEF Runs
  <2>4. ASSUME NEW i \in 1 .. n PROVE h[i] = Pop(i, h[i - 1])
    <3>1. i - 1 \in 0 .. n
      BY <1>1
    <3> QED BY <2>1, <2>3, <3>1
  <2> QED BY <2>3, <2>4
<1> DEFINE Gone(i) == {x \in Held(rows) : \E j \in 1 .. i : fin[j] = x}
           T == {i \in 0 .. n : Held(h[i]) = Held(rows) \ Gone(i)}
<1>4. 0 .. n \subseteq T
  <2>1. 0 \in T
    BY <1>1, <1>3
  <2>2. ASSUME NEW i \in 0 .. n - 1, i \in T PROVE i + 1 \in T
    <3>1. /\ i + 1 \in 1 .. n /\ i + 1 \in 0 .. n /\ (i + 1) - 1 = i /\ i \in Nat /\ i \in 0 .. n
          /\ Held(h[i]) = Held(rows) \ Gone(i)
      <4>1. Held(h[i]) = Held(rows) \ Gone(i)
        BY <2>2
      <4>2. /\ i + 1 \in 1 .. n /\ i + 1 \in 0 .. n /\ (i + 1) - 1 = i /\ i \in Nat /\ i \in 0 .. n
        <5> HIDE DEF n
        <5> QED BY <1>1
      <4> QED BY <4>1, <4>2
    <3>2. fin[i + 1] \notin Gone(i)
      <4>1. ASSUME NEW j \in 1 .. i, fin[j] = fin[i + 1] PROVE FALSE
        <5>1. j \in DOMAIN fin /\ i + 1 \in DOMAIN fin /\ j # i + 1
          BY <1>1, <3>1
        <5> QED BY <4>1, <5>1 DEF Once
      <4> QED BY <4>1
    <3>3. fin[i + 1] \in Held(h[i])
      BY <1>1, <3>1, <3>2
    <3>4. h[i + 1] = PopRow(h[i], fin[i + 1])
      BY <1>3, <3>1, <3>3
    <3>5. h[i] \in Seq(S) /\ Once(h[i])
      BY <1>3, <3>1
    <3>6. Held(h[i + 1]) = Held(h[i]) \ {fin[i + 1]}
      BY <3>3, <3>4, <3>5, PopRowFacts
    <3>7. Gone(i + 1) = Gone(i) \cup {fin[i + 1]}
      <4>1. \A j : j \in 1 .. i + 1 <=> j = i + 1 \/ j \in 1 .. i
        BY <3>1
      <4> QED BY <1>1, <3>1, <4>1
    <3> HIDE DEF Gone
    <3> QED BY <3>1, <3>6, <3>7
  <2> HIDE DEF T, n
  <2> QED BY <1>1, <2>1, <2>2, UpTo
<1>5. \A i \in 1 .. n : h[i] = PopRow(h[i - 1], fin[i])
  <2> SUFFICES ASSUME NEW i \in 1 .. n PROVE fin[i] \in Held(h[i - 1])
    BY <1>3
  <2>1. i - 1 \in 0 .. n /\ i - 1 \in Nat
    BY <1>1
  <2>2. Held(h[i - 1]) = Held(rows) \ Gone(i - 1)
    BY <1>4, <2>1
  <2>3. fin[i] \notin Gone(i - 1)
    <3>1. ASSUME NEW j \in 1 .. i - 1, fin[j] = fin[i] PROVE FALSE
      <4>1. j \in DOMAIN fin /\ i \in DOMAIN fin /\ j # i
        BY <1>1, <2>1
      <4> QED BY <3>1, <4>1 DEF Once
    <3> QED BY <3>1
  <2> QED BY <1>1, <2>2, <2>3
<1>6. Equation(h)
  <2> DEFINE e == [i \in 0 .. n |-> IF i = 0 THEN rows ELSE PopRow(h[i - 1], fin[i])]
  <2>1. ASSUME NEW i \in 0 .. n PROVE h[i] = e[i]
    <3>1. i = 0 \/ i \in 1 .. n
      BY <1>1
    <3> HIDE DEF n, Y
    <3> QED BY <1>3, <1>5, <3>1
  <2>2. h = [i \in 0 .. n |-> h[i]] /\ e = [i \in 0 .. n |-> e[i]]
    <3> HIDE DEF n, Y
    <3> QED BY <1>3
  <2> HIDE DEF e
  <2> QED BY <2>1, <2>2 DEF e
<1>7. Equation(left)
  <2> HIDE DEF Equation
  <2> QED BY <1>6
<1>8. Popped(rows, fin) = left[n]
  BY DEF Popped
<1> HIDE DEF left
<1>9. left[0] = rows /\ \A i \in 1 .. n : left[i] = PopRow(left[i - 1], fin[i])
  <2>1. ASSUME NEW i \in 0 .. n
        PROVE  left[i] = IF i = 0 THEN rows ELSE PopRow(left[i - 1], fin[i])
    BY <1>7
  <2>2. 0 \in 0 .. n /\ \A i \in 1 .. n : i \in 0 .. n /\ i # 0
    BY <1>1
  <2> HIDE DEF n, Equation
  <2> QED BY <2>1, <2>2
<1> HIDE DEF Equation
<1>10. left[n] = h[n]
  <2> DEFINE U == {i \in 0 .. n : left[i] = h[i]}
  <2>1. 0 \in U
    BY <1>1, <1>3, <1>9
  <2>2. ASSUME NEW i \in 0 .. n - 1, i \in U PROVE i + 1 \in U
    <3>1. i + 1 \in 1 .. n /\ i + 1 \in 0 .. n /\ (i + 1) - 1 = i
      BY <1>1
    <3> QED BY <1>5, <1>9, <2>2, <3>1
  <2>3. 0 .. n \subseteq U
    <3> HIDE DEF U, n
    <3> QED BY <1>1, <2>1, <2>2, UpTo
  <2> QED BY <1>1, <2>3
<1>11. Gone(n) = Held(fin)
  <2>1. \A x : x \in Held(fin) <=> \E j \in 1 .. n : fin[j] = x
    BY <1>1 DEF Held
  <2> QED BY <1>1, <2>1
<1>12. n \in 0 .. n /\ h[n] \in Seq(S) /\ Once(h[n])
  BY <1>1, <1>3
<1>13. Held(h[n]) = Held(rows) \ Held(fin)
  <2> HIDE DEF Gone
  <2> QED BY <1>4, <1>11, <1>12
<1> QED BY <1>8, <1>10, <1>12, <1>13

-----------------------------------------------------------------------------
(* The invariant.                                                          *)

Statuses == {"NEW", "WAITING", "ABORTED", "RUNNING", "COMPLETED"}

Types ==
  /\ phase \in {"idle", "scheduled", "appended"}
  /\ status \in [Rows -> Statuses]
  /\ input_len \in [Rows -> 0 .. MaxInputLen] /\ output_len \in [Rows -> Nat]
  /\ waiting \in [0 .. 2 -> Seq(Rows)]
  /\ prefill \in Seq(Rows) /\ decoding \in Seq(Rows)
  /\ prefill_bb \in Seq(Rows) /\ running_bb \in Seq(Rows)

\* What the manager's variables are functions of, whatever is in them.
Shapes ==
  /\ block_states \in [Blocks -> BOOLEAN] /\ available_blocks \in Int
  /\ ref_count \in [Blocks -> Nat] /\ allocated_size \in [Blocks -> Int]
  /\ block_table = [r \in Rows |-> [k \in Cols |-> block_table[r][k]]]

\* No request is in two places.
Apart ==
  /\ \A p \in 0 .. 2 : Once(waiting[p])
  /\ Once(prefill) /\ Once(decoding) /\ Once(running_bb)
  /\ \A p, q \in 0 .. 2 : p # q => Held(waiting[p]) \cap Held(waiting[q]) = {}
  /\ Waiting \cap Running = {} /\ Held(prefill) \cap Held(decoding) = {}

\* The batches are those of the lists, and a prefill is of the whole list.
Batched ==
  /\ Held(running_bb) = Held(decoding)
  /\ Len(prefill) + Len(decoding) <= MaxBatchSize
  /\ phase = "idle" => prefill_bb = <<>>
  /\ prefill_bb # <<>> => prefill_bb = prefill /\ ReadyForPrefill(prefill)
  /\ phase # "idle" /\ raised = "none" /\ prefill_bb = <<>> => ~ ReadyForPrefill(prefill)

\* A request that waits, one that was admitted, and one that is decoded.
Waits(r, p) ==
  /\ status[r] \in {"WAITING", "ABORTED"} /\ Priority(input_len[r]) = p
  /\ input_len[r] # 0 /\ output_len[r] = 0
Admits(r) ==
  /\ status[r] # "NEW" /\ input_len[r] # 0
  /\ IF phase = "appended" /\ r \in Held(prefill_bb)
       THEN output_len[r] = 1 /\ (status[r] # "COMPLETED" => 1 < MaxOutputLen)
       ELSE output_len[r] = 0 /\ status[r] # "COMPLETED"
Decodes(r) ==
  /\ status[r] # "NEW" /\ input_len[r] # 0 /\ output_len[r] # 0
  /\ status[r] = "COMPLETED" => phase = "appended"
  /\ status[r] # "COMPLETED" => output_len[r] < MaxOutputLen

\* A request is where its status says.
Stated ==
  /\ \A p \in 0 .. 2 : \A r \in Held(waiting[p]) : Waits(r, p)
  /\ \A r \in Held(prefill) : Admits(r)
  /\ \A r \in Held(decoding) : Decodes(r)
  /\ \A r \in Rows : /\ status[r] \in {"WAITING", "RUNNING"} => r \in Waiting \cup Running
                     /\ status[r] = "NEW" => output_len[r] = 0

IInv == Types /\ Apart /\ Batched /\ Stated

LEMMA PriorityType ==
  ASSUME NEW n \in 1 .. MaxInputLen
  PROVE  Priority(n) \in 0 .. 2
<1> DEFINE b == MaxInputLen + 1
           a == n * 3
           q == a \div b
<1>1. b \in Nat /\ b > 0 /\ a \in Nat /\ a < b + b + b
  BY HandlerAssumption
<1> HIDE DEF a, b
<1>2. q \in Int /\ a = b * q + (a % b) /\ a % b \in 0 .. b - 1
  BY <1>1
<1> HIDE DEF q
<1>3. q >= 0
  <2>1. CASE q < 0
    <3>1. b * q <= b * (0 - 1)
      BY <1>1, <1>2, <2>1
    <3> QED BY <1>1, <1>2, <3>1
  <2> QED BY <1>2, <2>1
<1>4. q <= 2
  <2>1. CASE q >= 3
    <3>1. b * q >= b * 3
      BY <1>1, <1>2, <2>1
    <3> QED BY <1>1, <1>2, <3>1
  <2> QED BY <1>2, <2>1
<1> QED BY <1>2, <1>3, <1>4 DEF q, a, b, Priority

LEMMA AppendFacts ==
  ASSUME NEW S, NEW list \in Seq(S), NEW x \in S
  PROVE  /\ Append(list, x) \in Seq(S) /\ Held(Append(list, x)) = Held(list) \cup {x}
         /\ Once(list) /\ x \notin Held(list) => Once(Append(list, x))
<1> DEFINE o == <<x>>
<1>1. o \in Seq(S) /\ Held(o) = {x} /\ Once(o)
  BY DEF Held, Once
<1>2. Append(list, x) = list \o o
  OBVIOUS
<1> HIDE DEF o
<1>3. /\ list \o o \in Seq(S) /\ Held(list \o o) = Held(list) \cup Held(o)
      /\ Once(list \o o) <=> Once(list) /\ Once(o) /\ Held(list) \cap Held(o) = {}
  BY <1>1, HeldConcat
<1> QED BY <1>1, <1>2, <1>3

LEMMA WithoutFacts ==
  ASSUME NEW S, NEW list \in Seq(S), NEW R
  PROVE  /\ Without(list, R) \in Seq(S) /\ Held(Without(list, R)) = Held(list) \ R
         /\ Once(list) => Once(Without(list, R))
<1>1. Held(list) \cap (Held(list) \ R) = Held(list) \ R
  OBVIOUS
<1> QED BY <1>1, WithinFacts DEF Without

LEMMA EmptyList == <<>> \in Seq(Rows) /\ Held(<<>>) = {} /\ Once(<<>>) /\ Len(<<>>) = 0
  BY DEF Held, Once

LEMMA InitIInv == Init => IInv
<1> SUFFICES ASSUME Init PROVE IInv
  OBVIOUS
<1>1. \A p \in 0 .. 2 : waiting[p] = <<>>
  BY DEF Init
<1>2. Waiting = {} /\ Running = {}
  BY <1>1, EmptyList DEF Init, Waiting, Running
<1>3. Types
  BY EmptyList, HandlerAssumption DEF Init, Types, Statuses
<1>4. Apart
  BY <1>1, <1>2, EmptyList DEF Init, Apart
<1>5. Batched
  BY EmptyList, HandlerAssumption DEF Init, Batched
<1>6. Stated
  BY <1>1, <1>2, EmptyList DEF Init, Stated
<1> QED BY <1>3, <1>4, <1>5, <1>6 DEF IInv

\* A request that is somewhere has been added.
LEMMA NewIsNowhere ==
  ASSUME Types, Stated, NEW r \in Rows, status[r] = "NEW"
  PROVE  r \notin Waiting /\ r \notin Running
  BY DEF Stated, Waits, Admits, Decodes, Waiting, Running

\* A request that is added waits, and nothing else moves.
LEMMA AddMoves ==
  ASSUME IInv, NEW r \in Rows, AddSequence(r)
  PROVE  /\ r \notin Waiting /\ r \notin Running /\ Waiting' = Waiting \cup {r} /\ Running' = Running
         /\ \E n \in 1 .. MaxInputLen :
              /\ input_len' = [input_len EXCEPT ![r] = n]
              /\ waiting' = [waiting EXCEPT ![Priority(n)] = Append(@, r)]
              /\ \A p \in 0 .. 2 :
                   /\ waiting'[p] \in Seq(Rows) /\ Once(waiting'[p])
                   /\ Held(waiting'[p]) = Held(waiting[p]) \cup IF p = Priority(n) THEN {r} ELSE {}
<1> USE DEF IInv
<1>1. PICK n \in 1 .. MaxInputLen :
        /\ input_len' = [input_len EXCEPT ![r] = n]
        /\ waiting' = [waiting EXCEPT ![Priority(n)] = Append(@, r)]
  BY DEF AddSequence
<1>2. Priority(n) \in 0 .. 2
  BY PriorityType
<1>3. /\ phase = "idle" /\ status[r] = "NEW" /\ status' = [status EXCEPT ![r] = "WAITING"]
      /\ UNCHANGED <<output_len, prefill, decoding, prefill_bb, running_bb, phase, raised>>
  BY DEF AddSequence, kvVars
<1>4. r \notin Waiting /\ r \notin Running /\ output_len[r] = 0
  BY <1>3, NewIsNowhere DEF Stated
<1>5. /\ \A p \in 0 .. 2 : waiting[p] \in Seq(Rows) /\ r \notin Held(waiting[p])
      /\ \A p \in 0 .. 2 : Held(waiting[p]) \subseteq Rows
      /\ Held(prefill) \subseteq Rows /\ Held(decoding) \subseteq Rows
  <2>1. /\ \A p \in 0 .. 2 : waiting[p] \in Seq(Rows)
        /\ prefill \in Seq(Rows) /\ decoding \in Seq(Rows)
    BY DEF Types
  <2>2. \A p \in 0 .. 2 : r \notin Held(waiting[p])
    BY <1>4 DEF Waiting
  <2> QED BY <2>1, <2>2, ListFacts
<1>6. ASSUME NEW p \in 0 .. 2
      PROVE  /\ waiting'[p] \in Seq(Rows) /\ Once(waiting'[p])
             /\ Held(waiting'[p]) = Held(waiting[p]) \cup IF p = Priority(n) THEN {r} ELSE {}
  <2>1. CASE p = Priority(n)
    <3>1. waiting'[p] = Append(waiting[p], r)
      BY <1>1, <1>2, <2>1 DEF Types
    <3> QED BY <1>5, <2>1, <3>1, AppendFacts DEF Apart
  <2>2. CASE p # Priority(n)
    <3>1. waiting'[p] = waiting[p]
      BY <1>1, <2>2 DEF Types
    <3> QED BY <1>5, <2>2, <3>1 DEF Apart
  <2> QED BY <2>1, <2>2
<1>7. Waiting' = Waiting \cup {r} /\ Running' = Running
  <2>1. Waiting' = Waiting \cup {r}
    BY <1>2, <1>6 DEF Waiting
  <2> QED BY <1>3, <2>1 DEF Running
<1> QED BY <1>1, <1>4, <1>6, <1>7

LEMMA AddKeeps ==
  ASSUME IInv, NEW r \in Rows, AddSequence(r)
  PROVE  IInv'
<1> USE DEF IInv
<1>1. PICK n \in 1 .. MaxInputLen :
        /\ input_len' = [input_len EXCEPT ![r] = n]
        /\ waiting' = [waiting EXCEPT ![Priority(n)] = Append(@, r)]
        /\ \A p \in 0 .. 2 :
             /\ waiting'[p] \in Seq(Rows) /\ Once(waiting'[p])
             /\ Held(waiting'[p]) = Held(waiting[p]) \cup IF p = Priority(n) THEN {r} ELSE {}
  BY AddMoves
<1>2. Priority(n) \in 0 .. 2
  BY PriorityType
<1>3. /\ phase = "idle" /\ status[r] = "NEW" /\ status' = [status EXCEPT ![r] = "WAITING"]
      /\ UNCHANGED <<output_len, prefill, decoding, prefill_bb, running_bb, phase, raised>>
  BY DEF AddSequence, kvVars
<1>4. /\ r \notin Waiting /\ r \notin Running /\ output_len[r] = 0
      /\ Waiting' = Waiting \cup {r} /\ Running' = Running
  BY <1>3, AddMoves DEF Stated
<1>5. /\ \A p \in 0 .. 2 : waiting[p] \in Seq(Rows) /\ r \notin Held(waiting[p])
      /\ \A p \in 0 .. 2 : Held(waiting[p]) \subseteq Rows
      /\ Held(prefill) \subseteq Rows /\ Held(decoding) \subseteq Rows
  <2>1. /\ \A p \in 0 .. 2 : waiting[p] \in Seq(Rows)
        /\ prefill \in Seq(Rows) /\ decoding \in Seq(Rows)
    BY DEF Types
  <2>2. \A p \in 0 .. 2 : r \notin Held(waiting[p])
    BY <1>4 DEF Waiting
  <2> QED BY <2>1, <2>2, ListFacts
<1>6. \A p \in 0 .. 2 :
        /\ waiting'[p] \in Seq(Rows) /\ Once(waiting'[p])
        /\ Held(waiting'[p]) = Held(waiting[p]) \cup IF p = Priority(n) THEN {r} ELSE {}
  BY <1>1
<1>7. Waiting' = Waiting \cup {r} /\ Running' = Running
  BY <1>4
<1>8. /\ \A q \in Rows : q # r => status'[q] = status[q] /\ input_len'[q] = input_len[q]
      /\ status'[r] = "WAITING" /\ input_len'[r] = n
  BY <1>1, <1>3 DEF Types
<1>9. Types'
  <2>1. waiting' \in [0 .. 2 -> Seq(Rows)]
    BY <1>1, <1>6 DEF Types
  <2>2. status' \in [Rows -> Statuses] /\ input_len' \in [Rows -> 0 .. MaxInputLen]
    BY <1>1, <1>3, HandlerAssumption DEF Types, Statuses
  <2> QED BY <1>3, <2>1, <2>2 DEF Types
<1>10. Apart'
  <2>1. \A p, q \in 0 .. 2 : p # q => Held(waiting'[p]) \cap Held(waiting'[q]) = {}
    BY <1>5, <1>6 DEF Apart
  <2>2. Waiting' \cap Running' = {}
    BY <1>4, <1>7 DEF Apart
  <2> QED BY <1>3, <1>6, <2>1, <2>2 DEF Apart
<1>11. Batched'
  BY <1>3 DEF Batched, ReadyForPrefill
<1>12. Stated'
  <2>1. ASSUME NEW p \in 0 .. 2, NEW q \in Held(waiting'[p]) PROVE Waits(q, p)'
    <3>1. CASE q = r
      <4>1. p = Priority(n)
        BY <1>5, <1>6, <2>1, <3>1
      <4> QED BY <1>3, <1>4, <1>8, <3>1, <4>1 DEF Waits, Priority
    <3>2. CASE q # r
      <4>1. q \in Held(waiting[p]) /\ q \in Rows
        BY <1>5, <1>6, <2>1, <3>2
      <4> QED BY <1>3, <1>8, <3>2, <4>1 DEF Stated, Waits, Priority
    <3> QED BY <3>1, <3>2
  <2>2. ASSUME NEW q \in Held(prefill) PROVE Admits(q)'
    <3>1. q # r /\ q \in Rows
      BY <1>4, <1>5 DEF Running
    <3> QED BY <1>3, <1>8, <3>1 DEF Stated, Admits
  <2>3. ASSUME NEW q \in Held(decoding) PROVE Decodes(q)'
    <3>1. q # r /\ q \in Rows
      BY <1>4, <1>5 DEF Running
    <3> QED BY <1>3, <1>8, <3>1 DEF Stated, Decodes
  <2>4. \A q \in Rows : /\ status'[q] \in {"WAITING", "RUNNING"} => q \in Waiting' \cup Running'
                        /\ status'[q] = "NEW" => output_len'[q] = 0
    BY <1>3, <1>7, <1>8 DEF Stated
  <2> QED BY <1>3, <2>1, <2>2, <2>3, <2>4 DEF Stated
<1> QED BY <1>9, <1>10, <1>11, <1>12

LEMMA AbortMoves ==
  ASSUME IInv, NEW r \in Rows, AbortWaiting(r)
  PROVE  /\ \A p \in 0 .. 2 :
              /\ waiting'[p] \in Seq(Rows) /\ Once(waiting'[p])
              /\ Held(waiting'[p]) = Held(waiting[p]) \ {r} /\ Held(waiting[p]) \subseteq Rows
         /\ Waiting' = Waiting \ {r} /\ Running' = Running /\ r \notin Running
<1> USE DEF IInv
<1>1. /\ phase = "idle" /\ r \in Waiting /\ status' = [status EXCEPT ![r] = "ABORTED"]
      /\ waiting' = [p \in 0 .. 2 |-> Without(waiting[p], {r})]
      /\ UNCHANGED <<input_len, output_len, prefill, decoding, prefill_bb, running_bb, phase, raised>>
  BY DEF AbortWaiting, kvVars
<1>2. ASSUME NEW p \in 0 .. 2
      PROVE  /\ waiting'[p] \in Seq(Rows) /\ Once(waiting'[p])
             /\ Held(waiting'[p]) = Held(waiting[p]) \ {r} /\ Held(waiting[p]) \subseteq Rows
  <2>1. waiting[p] \in Seq(Rows) /\ Once(waiting[p]) /\ waiting'[p] = Without(waiting[p], {r})
    BY <1>1 DEF Types, Apart
  <2> QED BY <2>1, WithoutFacts, ListFacts
<1>3. Waiting' = Waiting \ {r} /\ Running' = Running /\ r \notin Running
  <2>1. Waiting' = Waiting \ {r}
    BY <1>2 DEF Waiting
  <2> QED BY <1>1, <2>1 DEF Running, Apart
<1> QED BY <1>2, <1>3

LEMMA AbortWaitingKeeps ==
  ASSUME IInv, NEW r \in Rows, AbortWaiting(r)
  PROVE  IInv'
<1> USE DEF IInv
<1>1. /\ phase = "idle" /\ r \in Waiting /\ status' = [status EXCEPT ![r] = "ABORTED"]
      /\ waiting' = [p \in 0 .. 2 |-> Without(waiting[p], {r})]
      /\ UNCHANGED <<input_len, output_len, prefill, decoding, prefill_bb, running_bb, phase, raised>>
  BY DEF AbortWaiting, kvVars
<1>2. \A p \in 0 .. 2 :
        /\ waiting'[p] \in Seq(Rows) /\ Once(waiting'[p])
        /\ Held(waiting'[p]) = Held(waiting[p]) \ {r} /\ Held(waiting[p]) \subseteq Rows
  BY AbortMoves
<1>3. Waiting' = Waiting \ {r} /\ Running' = Running /\ r \notin Running
  BY AbortMoves
<1>4. /\ Held(prefill) \subseteq Rows /\ Held(decoding) \subseteq Rows
      /\ \A q \in Rows : q # r => status'[q] = status[q]
      /\ status'[r] = "ABORTED"
  BY <1>1, ListFacts DEF Types
<1>5. Types'
  <2>1. waiting' \in [0 .. 2 -> Seq(Rows)]
    BY <1>1, <1>2
  <2>2. status' \in [Rows -> Statuses]
    BY <1>1 DEF Types, Statuses
  <2> QED BY <1>1, <2>1, <2>2 DEF Types
<1>6. Apart'
  BY <1>1, <1>2, <1>3 DEF Apart
<1>7. Batched'
  BY <1>1 DEF Batched, ReadyForPrefill
<1>8. Stated'
  <2>1. ASSUME NEW p \in 0 .. 2, NEW q \in Held(waiting'[p]) PROVE Waits(q, p)'
    <3>1. q # r /\ q \in Held(waiting[p]) /\ q \in Rows
      BY <1>2, <2>1
    <3> QED BY <1>1, <1>4, <3>1 DEF Stated, Waits, Priority
  <2>2. ASSUME NEW q \in Held(prefill) PROVE Admits(q)'
    BY <1>1, <1>3, <1>4, <2>2 DEF Stated, Admits, Running
  <2>3. ASSUME NEW q \in Held(decoding) PROVE Decodes(q)'
    BY <1>1, <1>3, <1>4, <2>3 DEF Stated, Decodes, Running
  <2>4. \A q \in Rows : /\ status'[q] \in {"WAITING", "RUNNING"} => q \in Waiting' \cup Running'
                        /\ status'[q] = "NEW" => output_len'[q] = 0
    BY <1>1, <1>3, <1>4 DEF Stated
  <2> QED BY <1>1, <2>1, <2>2, <2>3, <2>4 DEF Stated
<1> QED BY <1>5, <1>6, <1>7, <1>8

\* The one that is marked by mistake waits on.
LEMMA AbortRunningKeeps ==
  ASSUME IInv, NEW r \in Rows, AbortRunning(r)
  PROVE  IInv'
<1> USE DEF IInv
<1>1. PICK p \in 0 .. 2 : /\ waiting[p] # <<>>
                          /\ status' = [status EXCEPT ![waiting[p][Len(waiting[p])]] = "ABORTED"]
  BY DEF AbortRunning
<1> DEFINE x == waiting[p][Len(waiting[p])]
<1>2. /\ phase = "idle"
      /\ UNCHANGED <<input_len, output_len, waiting, prefill, decoding, prefill_bb, running_bb,
                     phase, raised>>
  BY DEF AbortRunning, kvVars, listVars
<1>3. x \in Held(waiting[p]) /\ x \in Rows
  <2>1. waiting[p] \in Seq(Rows)
    BY DEF Types
  <2>2. Len(waiting[p]) \in DOMAIN waiting[p]
    BY <1>1, <2>1
  <2> QED BY <2>1, <2>2, ListFacts DEF Held
<1> HIDE DEF x
<1>4. Waiting' = Waiting /\ Running' = Running /\ x \in Waiting /\ x \notin Running
  BY <1>2, <1>3 DEF Waiting, Running, Apart
<1>5. /\ \A q \in Rows : q # x => status'[q] = status[q]
      /\ status'[x] = "ABORTED" /\ status' \in [Rows -> Statuses]
  BY <1>1, <1>3 DEF Types, Statuses, x
<1>6. /\ Held(prefill) \subseteq Rows /\ Held(decoding) \subseteq Rows
      /\ \A q \in 0 .. 2 : Held(waiting[q]) \subseteq Rows
  BY ListFacts DEF Types
<1>7. Types' /\ Apart' /\ Batched'
  BY <1>2, <1>4, <1>5 DEF Types, Apart, Batched, ReadyForPrefill
<1>8. Stated'
  <2>1. ASSUME NEW k \in 0 .. 2, NEW q \in Held(waiting[k]) PROVE Waits(q, k)'
    <3>1. Waits(q, k) /\ q \in Rows
      BY <1>6 DEF Stated
    <3> QED BY <1>2, <1>5, <3>1 DEF Waits, Priority
  <2>2. ASSUME NEW q \in Held(prefill) PROVE Admits(q)'
    BY <1>2, <1>4, <1>5, <1>6, <2>2 DEF Stated, Admits, Running
  <2>3. ASSUME NEW q \in Held(decoding) PROVE Decodes(q)'
    BY <1>2, <1>4, <1>5, <1>6, <2>3 DEF Stated, Decodes, Running
  <2>4. \A q \in Rows : /\ status'[q] \in {"WAITING", "RUNNING"} => q \in Waiting' \cup Running'
                        /\ status'[q] = "NEW" => output_len'[q] = 0
    BY <1>2, <1>4, <1>5 DEF Stated
  <2> QED BY <1>2, <2>1, <2>2, <2>3, <2>4 DEF Stated
<1> QED BY <1>7, <1>8

-----------------------------------------------------------------------------
(* A schedule.                                                             *)

Left(p) == Drop(waiting[p], Len(Admitted(p, Room)))

\* Who is admitted: from a list as many as the longer prompts leave room for.
LEMMA AdmittedFacts ==
  ASSUME IInv
  PROVE  /\ Room \in Nat
         /\ \A p \in 0 .. 2 : LET a == Admitted(p, Room) IN
              /\ a \in Seq(Rows) /\ Once(a) /\ Left(p) \in Seq(Rows) /\ Once(Left(p))
              /\ Len(a) \in Nat /\ Len(a) <= Len(waiting[p])
              /\ Held(waiting[p]) = Held(a) \cup Held(Left(p)) /\ Held(a) \cap Held(Left(p)) = {}
              /\ \A i \in 1 .. Len(a) : a[i] = waiting[p][i]
              /\ Len(Left(p)) = Len(waiting[p]) - Len(a)
              /\ \A i \in 1 .. Len(Left(p)) : Left(p)[i] = waiting[p][Len(a) + i]
         /\ LET n(p) == Len(Admitted(p, Room)) IN
              /\ n(2) + n(1) + n(0) <= Room
              /\ \A p \in 0 .. 2 : n(p) = Len(waiting[p]) \/ n(2) + n(1) + n(0) = Room
              /\ \A p, q \in 0 .. 2 : q < p /\ n(p) # Len(waiting[p]) => n(q) = 0
<1> USE DEF IInv
<1>1. Len(prefill) \in Nat /\ Len(decoding) \in Nat /\ Room \in Nat
      /\ \A p \in 0 .. 2 : waiting[p] \in Seq(Rows) /\ Len(waiting[p]) \in Nat /\ Once(waiting[p])
  <2>1. Len(prefill) \in Nat /\ Len(decoding) \in Nat
    BY ListFacts DEF Types
  <2>2. Room \in Nat
    BY <2>1, HandlerAssumption DEF Batched, Room
  <2> QED BY <2>1, <2>2, ListFacts DEF Types, Apart
<1> DEFINE n2 == Len(Take(waiting[2], Room))
           n1 == Len(Take(waiting[1], Room - n2))
           room == [p \in 0 .. 2 |-> CASE p = 2 -> Room [] p = 1 -> Room - n2
                                        [] p = 0 -> Room - n2 - n1]
<1>2. n2 \in Nat /\ n2 = IF Room <= Len(waiting[2]) THEN Room ELSE Len(waiting[2])
  <2>1. n2 = IF Room <= Len(waiting[2]) THEN Room ELSE Len(waiting[2])
    BY <1>1, TakeDrop
  <2> HIDE DEF n2
  <2> QED BY <1>1, <2>1
<1>3. Room - n2 \in Nat
  <2> HIDE DEF n2
  <2> QED BY <1>1, <1>2
<1>4. n1 \in Nat /\ n1 = IF Room - n2 <= Len(waiting[1]) THEN Room - n2 ELSE Len(waiting[1])
  <2>1. n1 = IF Room - n2 <= Len(waiting[1]) THEN Room - n2 ELSE Len(waiting[1])
    <3> DEFINE k == Room - n2
    <3> HIDE DEF k, n2
    <3>1. k \in Nat
      BY <1>3 DEF k
    <3>2. Len(Take(waiting[1], k)) = IF k <= Len(waiting[1]) THEN k ELSE Len(waiting[1])
      BY <1>1, <3>1, TakeDrop
    <3> QED BY <3>2 DEF k
  <2> HIDE DEF n1, n2
  <2> QED BY <1>1, <1>3, <2>1
<1> DEFINE n0 == IF Room - n2 - n1 <= Len(waiting[0]) THEN Room - n2 - n1 ELSE Len(waiting[0])
<1>5. /\ Room - n2 - n1 \in Nat /\ n0 \in Nat /\ n2 + n1 + n0 <= Room
      /\ n2 = Len(waiting[2]) \/ n2 + n1 + n0 = Room
      /\ n1 = Len(waiting[1]) \/ n2 + n1 + n0 = Room
      /\ n0 = Len(waiting[0]) \/ n2 + n1 + n0 = Room
      /\ n2 # Len(waiting[2]) => n1 = 0 /\ n0 = 0
      /\ n1 # Len(waiting[1]) => n0 = 0
  <2> DEFINE R == Room
             w2 == Len(waiting[2])
             w1 == Len(waiting[1])
             w0 == Len(waiting[0])
  <2>1. R \in Nat /\ w2 \in Nat /\ w1 \in Nat /\ w0 \in Nat
    BY <1>1
  <2>2. /\ n2 = IF R <= w2 THEN R ELSE w2
        /\ n1 = IF R - n2 <= w1 THEN R - n2 ELSE w1
        /\ n0 = IF R - n2 - n1 <= w0 THEN R - n2 - n1 ELSE w0
    BY <1>2, <1>4
  <2> HIDE DEF n2, n1, n0, R, w2, w1, w0
  <2>3. n2 \in Nat /\ R - n2 \in Nat /\ (n2 = w2 \/ n2 = R)
    BY <2>1, <2>2
  <2>4. n1 \in Nat /\ R - n2 - n1 \in Nat /\ (n1 = w1 \/ n1 = R - n2)
    BY <2>1, <2>2, <2>3
  <2>5. n0 \in Nat /\ n0 <= R - n2 - n1 /\ (n0 = w0 \/ n0 = R - n2 - n1)
    BY <2>1, <2>2, <2>3, <2>4
  <2>6. /\ R - n2 - n1 \in Nat /\ n0 \in Nat /\ n2 + n1 + n0 <= R
        /\ n2 = w2 \/ n2 + n1 + n0 = R
        /\ n1 = w1 \/ n2 + n1 + n0 = R
        /\ n0 = w0 \/ n2 + n1 + n0 = R
        /\ n2 # w2 => n1 = 0 /\ n0 = 0
        /\ n1 # w1 => n0 = 0
    BY <2>1, <2>3, <2>4, <2>5
  <2> QED BY <2>6 DEF R, w2, w1, w0
<1>6. \A p \in 0 .. 2 : Admitted(p, Room) = Take(waiting[p], room[p])
  BY DEF Admitted
<1>7. room[2] = Room /\ room[1] = Room - n2 /\ room[0] = Room - n2 - n1
  <2> HIDE DEF n1, n2
  <2> QED OBVIOUS
<1> HIDE DEF n0, n1, n2, room
<1>8. \A p \in 0 .. 2 : room[p] \in Nat
  BY <1>1, <1>3, <1>5, <1>7
<1>9. ASSUME NEW p \in 0 .. 2
      PROVE  LET a == Admitted(p, Room) IN
               /\ a \in Seq(Rows) /\ Once(a) /\ Left(p) \in Seq(Rows) /\ Once(Left(p))
               /\ Len(a) \in Nat /\ Len(a) <= Len(waiting[p])
               /\ Held(waiting[p]) = Held(a) \cup Held(Left(p)) /\ Held(a) \cap Held(Left(p)) = {}
               /\ \A i \in 1 .. Len(a) : a[i] = waiting[p][i]
               /\ Len(Left(p)) = Len(waiting[p]) - Len(a)
               /\ \A i \in 1 .. Len(Left(p)) : Left(p)[i] = waiting[p][Len(a) + i]
               /\ Len(a) = IF room[p] <= Len(waiting[p]) THEN room[p] ELSE Len(waiting[p])
  <2> DEFINE list == waiting[p]
             k == room[p]
             a == Take(list, k)
             d == Drop(list, Len(a))
  <2>1. list \in Seq(Rows) /\ k \in Nat /\ Once(list) /\ Len(list) \in Nat
    BY <1>1, <1>8
  <2>2. a = Admitted(p, Room) /\ d = Left(p)
    BY <1>6 DEF Left
  <2> HIDE DEF list, k
  <2>3. /\ a \in Seq(Rows) /\ d \in Seq(Rows)
        /\ Len(a) = IF k <= Len(list) THEN k ELSE Len(list)
        /\ \A i \in 1 .. Len(a) : a[i] = list[i]
        /\ Len(d) = Len(list) - Len(a) /\ \A i \in 1 .. Len(d) : d[i] = list[Len(a) + i]
        /\ Held(list) = Held(a) \cup Held(d)
        /\ Once(a) /\ Once(d) /\ Held(a) \cap Held(d) = {}
    BY <2>1, TakeDrop
  <2> HIDE DEF a, d
  <2>4. Len(a) \in Nat /\ Len(a) <= Len(list)
    BY <2>1, <2>3
  <2> QED BY <2>2, <2>3, <2>4 DEF list, k
<1> DEFINE n(p) == Len(Admitted(p, Room))
<1>10. n(2) = n2 /\ n(1) = n1 /\ n(0) = n0
  <2>1. n(0) = IF room[0] <= Len(waiting[0]) THEN room[0] ELSE Len(waiting[0])
    BY <1>9
  <2>2. n(2) = n2 /\ n(1) = n1
    BY <1>6, <1>7 DEF n1, n2
  <2>3. n(0) = n0
    BY <1>7, <2>1 DEF n0
  <2> QED BY <2>2, <2>3
<1> HIDE DEF n
<1>11. n(2) + n(1) + n(0) <= Room
       /\ \A p \in 0 .. 2 : n(p) = Len(waiting[p]) \/ n(2) + n(1) + n(0) = Room
  <2>1. \A p \in 0 .. 2 : p = 0 \/ p = 1 \/ p = 2
    OBVIOUS
  <2> QED BY <1>5, <1>10, <2>1
<1>12. \A p, q \in 0 .. 2 : q < p /\ n(p) # Len(waiting[p]) => n(q) = 0
  <2>1. \A p, q \in 0 .. 2 : q < p => (p = 2 /\ (q = 1 \/ q = 0)) \/ (p = 1 /\ q = 0)
    OBVIOUS
  <2> QED BY <1>5, <1>10, <2>1
<1> QED BY <1>1, <1>9, <1>11, <1>12 DEF n

\* The running list has room for the admitted, each of them once.
LEMMA QueueFacts ==
  ASSUME IInv
  PROVE  LET A == UNION {Held(Admitted(p, Room)) : p \in 0 .. 2} IN
         /\ Queue \in Seq(Rows) /\ Once(Queue) /\ Held(Queue) = Held(prefill) \cup A
         /\ Len(Queue) = Len(prefill) + Len(Admitted(2, Room)) + Len(Admitted(1, Room))
                           + Len(Admitted(0, Room))
         /\ Len(Queue) + Len(decoding) <= MaxBatchSize
         /\ A \subseteq Waiting /\ A \cap Running = {}
<1> USE DEF IInv
<1> DEFINE a(p) == Admitted(p, Room)
           A == UNION {Held(a(p)) : p \in 0 .. 2}
           q2 == prefill \o a(2)
           q1 == q2 \o a(1)
<1>1. /\ \A p \in 0 .. 2 : a(p) \in Seq(Rows) /\ Once(a(p)) /\ Held(a(p)) \subseteq Held(waiting[p])
      /\ prefill \in Seq(Rows) /\ Once(prefill)
  BY AdmittedFacts DEF Types, Apart
<1>2. Len(a(2)) + Len(a(1)) + Len(a(0)) <= Room /\ \A p \in 0 .. 2 : Len(a(p)) \in Nat
  BY AdmittedFacts
<1>3. Queue = q1 \o a(0)
  BY DEF Queue
<1> HIDE DEF a
<1>4. /\ A \subseteq Waiting /\ A \cap Running = {}
      /\ A = Held(a(2)) \cup Held(a(1)) \cup Held(a(0))
  <2>1. A \subseteq Waiting
    BY <1>1 DEF Waiting
  <2>2. 0 .. 2 = {0, 1, 2}
    OBVIOUS
  <2> QED BY <2>1, <2>2 DEF Apart
<1>5. /\ Held(prefill) \cap Held(a(2)) = {} /\ Held(prefill) \cap Held(a(1)) = {}
      /\ Held(prefill) \cap Held(a(0)) = {}
  BY <1>4 DEF Running
<1>6. /\ Held(a(2)) \cap Held(a(1)) = {} /\ Held(a(2)) \cap Held(a(0)) = {}
      /\ Held(a(1)) \cap Held(a(0)) = {}
  <2>1. \A p, q \in 0 .. 2 : p # q => Held(a(p)) \cap Held(a(q)) = {}
    BY <1>1 DEF Apart
  <2>2. 0 \in 0 .. 2 /\ 1 \in 0 .. 2 /\ 2 \in 0 .. 2 /\ 2 # 1 /\ 2 # 0 /\ 1 # 0
    OBVIOUS
  <2> QED BY <2>1, <2>2
<1>a. 0 \in 0 .. 2 /\ 1 \in 0 .. 2 /\ 2 \in 0 .. 2
  OBVIOUS
<1>7. /\ q2 \in Seq(Rows) /\ Held(q2) = Held(prefill) \cup Held(a(2)) /\ Once(q2)
      /\ Len(q2) = Len(prefill) + Len(a(2))
  BY <1>1, <1>5, <1>a, HeldConcat, ConcatFacts
<1> HIDE DEF q2
<1>8. /\ q1 \in Seq(Rows) /\ Held(q1) = Held(q2) \cup Held(a(1)) /\ Once(q1)
      /\ Len(q1) = Len(q2) + Len(a(1))
  <2>1. Held(q2) \cap Held(a(1)) = {}
    BY <1>5, <1>6, <1>7
  <2>2. a(1) \in Seq(Rows) /\ Once(a(1)) /\ q2 \in Seq(Rows) /\ Once(q2)
    BY <1>1, <1>7, <1>a
  <2>3. Len(q1) = Len(q2) + Len(a(1))
    BY <2>2, ConcatFacts
  <2> QED BY <2>1, <2>2, <2>3, HeldConcat
<1> HIDE DEF q1
<1>9. /\ Queue \in Seq(Rows) /\ Held(Queue) = Held(q1) \cup Held(a(0)) /\ Once(Queue)
      /\ Len(Queue) = Len(q1) + Len(a(0))
  <2>1. Held(q1) \cap Held(a(0)) = {}
    BY <1>5, <1>6, <1>7, <1>8
  <2>2. a(0) \in Seq(Rows) /\ Once(a(0)) /\ q1 \in Seq(Rows) /\ Once(q1)
    BY <1>1, <1>8, <1>a
  <2>3. Len(Queue) = Len(q1) + Len(a(0))
    BY <1>3, <2>2, ConcatFacts
  <2> QED BY <1>3, <2>1, <2>2, <2>3, HeldConcat
<1>10. Len(Queue) = Len(prefill) + Len(a(2)) + Len(a(1)) + Len(a(0))
  BY <1>7, <1>8, <1>9
<1>11. Len(Queue) + Len(decoding) <= MaxBatchSize
  <2>1. Len(prefill) \in Nat /\ Len(decoding) \in Nat
    BY ListFacts DEF Types
  <2> QED BY <1>2, <1>10, <1>a, <2>1, HandlerAssumption DEF Room
<1>12. Held(Queue) = Held(prefill) \cup A
  BY <1>4, <1>7, <1>8, <1>9
<1> QED BY <1>4, <1>9, <1>10, <1>11, <1>12 DEF a

\* The waiting lists and the prefill list after the admission.
LEMMA AdmitMoves ==
  ASSUME IInv, Admit, decoding' = decoding
  PROVE  /\ waiting' \in [0 .. 2 -> Seq(Rows)]
         /\ \A p \in 0 .. 2 : Once(waiting'[p]) /\ Held(waiting'[p]) \subseteq Held(waiting[p])
         /\ prefill' = Queue /\ Queue \in Seq(Rows) /\ Once(Queue)
         /\ Len(Queue) + Len(decoding) <= MaxBatchSize
         /\ Waiting' \cup Running' = Waiting \cup Running /\ Waiting' \cap Running' = {}
         /\ Held(Queue) \cap Held(decoding) = {}
         /\ \A r \in Held(Queue) : r \in Held(prefill) \/ \E p \in 0 .. 2 : r \in Held(waiting[p])
         /\ Running \subseteq Running'
<1> USE DEF IInv
<1> DEFINE A == UNION {Held(Admitted(p, Room)) : p \in 0 .. 2}
<1>1. prefill' = Queue /\ \A p \in 0 .. 2 : waiting'[p] = Left(p)
  BY DEF Admit, Left
<1>2. \A p \in 0 .. 2 : /\ Left(p) \in Seq(Rows) /\ Once(Left(p))
                        /\ Held(waiting[p]) = Held(Admitted(p, Room)) \cup Held(Left(p))
                        /\ Held(Admitted(p, Room)) \cap Held(Left(p)) = {}
  BY AdmittedFacts
<1>3. /\ Queue \in Seq(Rows) /\ Once(Queue) /\ Held(Queue) = Held(prefill) \cup A
      /\ Len(Queue) + Len(decoding) <= MaxBatchSize
      /\ A \subseteq Waiting /\ A \cap Running = {}
  BY QueueFacts
<1>4. Waiting' = Waiting \ A
  <2>1. ASSUME NEW x, x \in Waiting' PROVE x \in Waiting /\ x \notin A
    <3>1. PICK p \in 0 .. 2 : x \in Held(Left(p))
      BY <1>1, <2>1 DEF Waiting
    <3>2. x \in Held(waiting[p]) /\ x \notin Held(Admitted(p, Room))
      BY <1>2, <3>1
    <3>3. ASSUME NEW q \in 0 .. 2, q # p, x \in Held(Admitted(q, Room)) PROVE FALSE
      <4>1. x \in Held(waiting[q])
        BY <1>2, <3>3
      <4> QED BY <3>2, <3>3, <4>1 DEF Apart
    <3> QED BY <3>2, <3>3 DEF Waiting
  <2>2. ASSUME NEW x, x \in Waiting, x \notin A PROVE x \in Waiting'
    <3>1. PICK p \in 0 .. 2 : x \in Held(waiting[p])
      BY <2>2 DEF Waiting
    <3>2. x \in Held(Left(p))
      BY <1>2, <2>2, <3>1
    <3> QED BY <1>1, <3>2 DEF Waiting
  <2> QED BY <2>1, <2>2
<1> HIDE DEF A
<1>5. Running' = Running \cup A
  BY <1>1, <1>3 DEF Running
<1>6. waiting' \in [0 .. 2 -> Seq(Rows)]
  BY <1>1, <1>2 DEF Admit, Left
<1>7. \A r \in Held(Queue) : r \in Held(prefill) \/ \E p \in 0 .. 2 : r \in Held(waiting[p])
  BY <1>3 DEF Waiting
<1>8. Held(Queue) \cap Held(decoding) = {}
  BY <1>3 DEF Running, Apart
<1>9. Waiting' \cup Running' = Waiting \cup Running /\ Waiting' \cap Running' = {}
  BY <1>3, <1>4, <1>5 DEF Apart
<1> QED BY <1>1, <1>2, <1>3, <1>5, <1>6, <1>7, <1>8, <1>9

\* There is something to compute on.
LEMMA ReadyFacts ==
  ASSUME IInv, phase = "idle"
  PROVE  /\ ReadyForPrefill(Queue) => Queue # <<>>
         /\ Unfinished /\ ~ ReadyForPrefill(Queue) => decoding # <<>>
         /\ Take(Queue, MaxBatchSize) = Queue
<1> USE DEF IInv
<1>1. Queue \in Seq(Rows) /\ Len(decoding) \in Nat /\ Len(Queue) \in Nat
      /\ (Len(decoding) = 0 <=> decoding = <<>>) /\ Len(Queue) + Len(decoding) <= MaxBatchSize
      /\ MaxBatchSize \in Nat \ {0}
  <2>1. Queue \in Seq(Rows) /\ Len(Queue) + Len(decoding) <= MaxBatchSize
    BY QueueFacts
  <2> QED BY <2>1, ListFacts, HandlerAssumption DEF Types
<1>2. ReadyForPrefill(Queue) => Queue # <<>>
  <2> SUFFICES ASSUME ReadyForPrefill(Queue), Queue = <<>>, decoding # <<>> PROVE FALSE
    BY DEF ReadyForPrefill
  <2>1. Len(Queue) * RatioDen >= RatioNum * Len(decoding)
    BY DEF ReadyForPrefill
  <2>2. Len(Queue) * RatioDen = 0
    BY EmptyList, HandlerAssumption
  <2>3. RatioNum * Len(decoding) > 0
    <3> DEFINE k == Len(decoding)
    <3>1. k \in Nat /\ k > 0
      BY <1>1
    <3> HIDE DEF k
    <3>2. RatioNum * k > 0
      BY <3>1, HandlerAssumption
    <3> QED BY <3>2 DEF k
  <2>4. RatioNum * Len(decoding) \in Int
    BY <1>1, HandlerAssumption
  <2> QED BY <2>1, <2>2, <2>3, <2>4
<1>3. Unfinished /\ ~ ReadyForPrefill(Queue) => decoding # <<>>
  <2> SUFFICES ASSUME Unfinished, decoding = <<>>, Queue = <<>> PROVE FALSE
    BY DEF ReadyForPrefill
  <2>1. Held(Queue) = {} /\ Held(decoding) = {}
    BY EmptyList
  <2>2. /\ Held(prefill) = {} /\ \A p \in 0 .. 2 : Held(Admitted(p, Room)) = {}
    BY <2>1, QueueFacts
  <2>3. PICK p \in 0 .. 2 : Held(waiting[p]) # {}
    BY <2>1, <2>2 DEF Unfinished, Waiting, Running
  <2>4. waiting[p] \in Seq(Rows) /\ prefill \in Seq(Rows) /\ decoding \in Seq(Rows)
        /\ \A q \in 0 .. 2 : Admitted(q, Room) \in Seq(Rows)
    BY AdmittedFacts DEF Types
  <2>5. /\ Len(waiting[p]) # 0 /\ Len(prefill) = 0 /\ Len(decoding) = 0
        /\ \A q \in 0 .. 2 : Len(Admitted(q, Room)) = 0
    BY <2>1, <2>2, <2>3, <2>4, ListFacts
  <2>6. Room = MaxBatchSize
    BY <1>1, <2>5 DEF Room
  <2>7. Len(Admitted(2, Room)) + Len(Admitted(1, Room)) + Len(Admitted(0, Room)) = 0
    BY <2>5
  <2>8. Len(Admitted(p, Room)) # Len(waiting[p])
    BY <2>5
  <2> QED BY <1>1, <2>6, <2>7, <2>8, AdmittedFacts
<1>4. Take(Queue, MaxBatchSize) = Queue
  <2> DEFINE t == Take(Queue, MaxBatchSize)
  <2>1. MaxBatchSize \in Nat /\ Len(Queue) <= MaxBatchSize
    BY <1>1
  <2>2. t \in Seq(Rows) /\ Len(t) = (IF MaxBatchSize <= Len(Queue) THEN MaxBatchSize ELSE Len(Queue))
        /\ \A i \in 1 .. Len(t) : t[i] = Queue[i]
    BY <1>1, <2>1, TakeDrop
  <2> HIDE DEF t
  <2>3. Len(t) = Len(Queue)
    BY <1>1, <2>1, <2>2
  <2>4. t = Queue
    BY <1>1, <2>2, <2>3, SameSeq
  <2> QED BY <2>4 DEF t
<1> QED BY <1>2, <1>3, <1>4

\* What the two schedules have in common.
LEMMA AdmitKeeps ==
  ASSUME IInv, Admit, UNCHANGED <<input_len, output_len, decoding, running_bb>>,
         phase' = "scheduled", status' \in [Rows -> Statuses], prefill_bb' \in Seq(Rows),
         \A r \in Rows : status'[r] = status[r] \/ (r \in Held(Queue) /\ status'[r] = "RUNNING"),
         Batched'
  PROVE  IInv'
<1> USE DEF IInv
<1>1. /\ waiting' \in [0 .. 2 -> Seq(Rows)]
      /\ \A p \in 0 .. 2 : Once(waiting'[p]) /\ Held(waiting'[p]) \subseteq Held(waiting[p])
      /\ prefill' = Queue /\ Queue \in Seq(Rows) /\ Once(Queue)
      /\ Waiting' \cup Running' = Waiting \cup Running /\ Waiting' \cap Running' = {}
      /\ Held(Queue) \cap Held(decoding) = {}
      /\ \A r \in Held(Queue) : r \in Held(prefill) \/ \E p \in 0 .. 2 : r \in Held(waiting[p])
  BY AdmitMoves
<1>2. phase = "idle"
  BY DEF Admit
<1>3. /\ Held(Queue) \subseteq Rows /\ Held(decoding) \subseteq Rows
      /\ \A p \in 0 .. 2 : Held(waiting[p]) \subseteq Rows
  BY <1>1, ListFacts DEF Types
<1>4. Types'
  BY <1>1 DEF Types
<1>5. Apart'
  BY <1>1 DEF Apart
<1>6. Stated'
  <2>1. ASSUME NEW p \in 0 .. 2, NEW r \in Held(waiting'[p]) PROVE Waits(r, p)'
    <3>1. r \in Held(waiting[p]) /\ r \in Rows /\ r \notin Held(Queue)
      BY <1>1, <1>3 DEF Waiting, Running
    <3> QED BY <3>1 DEF Stated, Waits, Priority
  <2>2. ASSUME NEW r \in Held(Queue) PROVE Admits(r)'
    <3>1. /\ status[r] # "NEW" /\ status[r] # "COMPLETED" /\ input_len[r] # 0 /\ output_len[r] = 0
      BY <1>1, <1>2 DEF Stated, Waits, Admits
    <3> QED BY <1>3, <3>1 DEF Admits
  <2>3. ASSUME NEW r \in Held(decoding) PROVE Decodes(r)'
    <3>1. Decodes(r) /\ r \in Rows /\ r \notin Held(Queue)
      BY <1>1, <1>3 DEF Stated
    <3> QED BY <1>2, <3>1 DEF Decodes
  <2>4. ASSUME NEW r \in Rows
        PROVE  /\ status'[r] \in {"WAITING", "RUNNING"} => r \in Waiting' \cup Running'
               /\ status'[r] = "NEW" => output_len'[r] = 0
    <3>1. r \in Held(Queue) => r \in Running'
      BY <1>1 DEF Running
    <3> QED BY <1>1, <3>1 DEF Stated
  <2> QED BY <1>1, <2>1, <2>2, <2>3, <2>4 DEF Stated
<1> QED BY <1>4, <1>5, <1>6

LEMMA PrefillKeeps ==
  ASSUME IInv, SchedulePrefill
  PROVE  IInv'
<1> USE DEF IInv
<1>1. /\ Admit /\ ReadyForPrefill(Queue) /\ phase' = "scheduled"
      /\ UNCHANGED <<input_len, output_len, decoding, running_bb>>
      /\ phase = "idle" /\ prefill' = Queue
  BY DEF SchedulePrefill, Admit
<1>2. Take(Queue, MaxBatchSize) = Queue /\ Queue # <<>> /\ Queue \in Seq(Rows)
      /\ Len(Queue) + Len(decoding) <= MaxBatchSize
  BY <1>1, ReadyFacts, QueueFacts
<1>3. /\ status' = [r \in Rows |-> IF r \in Held(Queue) THEN "RUNNING" ELSE status[r]]
      /\ prefill_bb' = IF raised' = "none" THEN Queue ELSE <<>>
  BY <1>2 DEF SchedulePrefill
<1>4. prefill_bb' \in Seq(Rows) /\ status' \in [Rows -> Statuses]
  BY <1>2, <1>3, EmptyList DEF Types, Statuses
<1>5. Batched'
  BY <1>1, <1>2, <1>3 DEF Batched, ReadyForPrefill
<1> QED BY <1>1, <1>3, <1>4, <1>5, AdmitKeeps

LEMMA DecodeKeeps ==
  ASSUME IInv, ScheduleDecode
  PROVE  IInv'
<1> USE DEF IInv
<1>1. /\ Admit /\ ~ ReadyForPrefill(Queue) /\ phase' = "scheduled"
      /\ UNCHANGED <<status, input_len, output_len, decoding, prefill_bb, running_bb>>
      /\ phase = "idle" /\ prefill' = Queue
  BY DEF ScheduleDecode, Admit
<1>2. Len(Queue) + Len(decoding) <= MaxBatchSize
  BY QueueFacts
<1>3. prefill_bb' \in Seq(Rows) /\ status' \in [Rows -> Statuses]
  BY <1>1 DEF Types
<1>4. Batched'
  BY <1>1, <1>2 DEF Batched, ReadyForPrefill
<1> QED BY <1>1, <1>3, <1>4, AdmitKeeps

-----------------------------------------------------------------------------
(* The forward pass, and the update after it.                              *)

LEMMA ForwardKeeps ==
  ASSUME IInv, Forward
  PROVE  IInv'
<1> USE DEF IInv
<1>1. PICK eos \in SUBSET Held(Batch) :
        status' = [r \in Rows |->
                     IF r \in Held(Batch) /\ (r \in eos \/ AtLength(output_len[r] + 1))
                     THEN "COMPLETED" ELSE status[r]]
  BY DEF Forward
<1>2. /\ phase = "scheduled" /\ raised = "none" /\ phase' = "appended" /\ raised' = "none"
      /\ output_len' = [r \in Rows |-> output_len[r] + IF r \in Held(Batch) THEN 1 ELSE 0]
      /\ UNCHANGED <<input_len, waiting, prefill, decoding, prefill_bb, running_bb>>
  BY DEF Forward, kvVars, listVars
<1>3. /\ Held(prefill) \subseteq Rows /\ Held(decoding) \subseteq Rows
      /\ \A p \in 0 .. 2 : Held(waiting[p]) \subseteq Rows
      /\ \A r \in Rows : output_len[r] \in Nat
  BY ListFacts DEF Types
<1>4. Waiting' = Waiting /\ Running' = Running
  BY <1>2 DEF Waiting, Running
<1>5. /\ prefill_bb # <<>> => Held(Batch) = Held(prefill) /\ Held(prefill_bb) = Held(prefill)
      /\ prefill_bb = <<>> => Held(Batch) = Held(decoding) /\ Held(prefill_bb) = {}
      /\ Held(Batch) \subseteq Running
  BY EmptyList DEF Batch, Batched, Running
<1>6. ASSUME NEW r \in Rows
      PROVE  /\ r \notin Held(Batch) => status'[r] = status[r] /\ output_len'[r] = output_len[r]
             /\ r \in Held(Batch) =>
                  /\ output_len'[r] = output_len[r] + 1
                  /\ status'[r] \in {status[r], "COMPLETED"}
                  /\ status'[r] # "COMPLETED" => output_len[r] + 1 < MaxOutputLen
  BY <1>1, <1>2, <1>3, HandlerAssumption DEF AtLength
<1>7. Types'
  <2>1. status' \in [Rows -> Statuses]
    BY <1>1 DEF Types, Statuses
  <2>2. output_len' \in [Rows -> Nat]
    BY <1>2, <1>3
  <2> QED BY <1>2, <2>1, <2>2 DEF Types
<1>8. Apart' /\ Batched'
  BY <1>2, <1>4 DEF Apart, Batched, ReadyForPrefill
<1>9. Stated'
  <2>1. ASSUME NEW p \in 0 .. 2, NEW r \in Held(waiting[p]) PROVE Waits(r, p)'
    <3>1. Waits(r, p) /\ r \in Rows /\ r \in Waiting
      BY <1>3 DEF Stated, Waiting
    <3>2. r \notin Held(Batch)
      BY <1>5, <3>1 DEF Apart
    <3> QED BY <1>2, <1>6, <3>1, <3>2 DEF Waits, Priority
  <2>2. ASSUME NEW r \in Held(prefill) PROVE Admits(r)'
    <3>1. /\ r \in Rows /\ status[r] # "NEW" /\ input_len[r] # 0 /\ output_len[r] = 0
          /\ status[r] # "COMPLETED"
      BY <1>2, <1>3 DEF Stated, Admits
    <3>2. CASE prefill_bb # <<>>
      <4>1. r \in Held(Batch) /\ r \in Held(prefill_bb)
        BY <1>5, <3>2
      <4>2. /\ output_len'[r] = 1 /\ status'[r] # "NEW"
            /\ status'[r] # "COMPLETED" => 1 < MaxOutputLen
        BY <1>6, <3>1, <4>1
      <4> QED BY <1>2, <3>1, <4>1, <4>2 DEF Admits
    <3>3. CASE prefill_bb = <<>>
      <4>1. r \notin Held(Batch) /\ r \notin Held(prefill_bb)
        BY <1>5, <3>3 DEF Apart
      <4>2. output_len'[r] = 0 /\ status'[r] = status[r]
        BY <1>6, <3>1, <4>1
      <4> QED BY <1>2, <3>1, <4>1, <4>2 DEF Admits
    <3> QED BY <3>2, <3>3
  <2>3. ASSUME NEW r \in Held(decoding) PROVE Decodes(r)'
    <3>1. /\ r \in Rows /\ status[r] # "NEW" /\ status[r] # "COMPLETED" /\ input_len[r] # 0
          /\ output_len[r] # 0 /\ output_len[r] < MaxOutputLen /\ output_len[r] \in Nat
      BY <1>2, <1>3 DEF Stated, Decodes
    <3>2. /\ output_len'[r] # 0 /\ status'[r] # "NEW"
          /\ status'[r] # "COMPLETED" => output_len'[r] < MaxOutputLen
      BY <1>6, <3>1
    <3> QED BY <1>2, <3>1, <3>2 DEF Decodes
  <2>4. ASSUME NEW r \in Rows
        PROVE  /\ status'[r] \in {"WAITING", "RUNNING"} => r \in Waiting' \cup Running'
               /\ status'[r] = "NEW" => output_len'[r] = 0
    <3>1. CASE r \in Held(Batch)
      <4>1. r \in Running /\ status[r] # "NEW"
        BY <1>5, <3>1, NewIsNowhere
      <4> QED BY <1>4, <1>6, <3>1, <4>1
    <3>2. CASE r \notin Held(Batch)
      BY <1>4, <1>6, <3>2 DEF Stated
    <3> QED BY <3>1, <3>2
  <2> QED BY <1>2, <2>1, <2>2, <2>3, <2>4 DEF Stated
<1> QED BY <1>7, <1>8, <1>9

\* What an update makes of the lists: the prefill batch is decoded from now on,
\* all of it, and whoever has finished is in no list and no row.
Finished == {r \in Held(decoding) \cup Held(prefill_bb) : status[r] = "COMPLETED"}

LEMMA UpdateMoves ==
  ASSUME IInv, Update
  PROVE  /\ decoding' \in Seq(Rows) /\ Once(decoding')
         /\ running_bb' \in Seq(Rows) /\ Once(running_bb')
         /\ Held(decoding') = (Held(decoding) \cup Held(prefill_bb)) \ Finished
         /\ Held(running_bb') = Held(decoding')
         /\ prefill' \in Seq(Rows) /\ Once(prefill') /\ Held(prefill') = Held(prefill) \ Held(prefill_bb)
         /\ Len(prefill') + Len(decoding') <= MaxBatchSize
         /\ prefill_bb' = <<>> /\ FreeTables(Finished)
<1> USE DEF IInv
<1> DEFINE merged == Take(prefill_bb, MaxBatchSize - Len(running_bb))
           rows == running_bb \o merged
           all == decoding \o merged
           fin == Within(all, {r \in Held(rows) : status[r] = "COMPLETED"})
<1>1. /\ decoding' = Without(decoding \o prefill_bb, Held(fin))
      /\ prefill' = Without(prefill, Held(prefill_bb))
      /\ running_bb' = Popped(rows, fin) /\ prefill_bb' = <<>>
      /\ FreeTables(Held(fin))
  BY DEF Update, MergeAndPop
<1>2. /\ prefill \in Seq(Rows) /\ decoding \in Seq(Rows) /\ prefill_bb \in Seq(Rows)
      /\ running_bb \in Seq(Rows) /\ Once(prefill) /\ Once(decoding) /\ Once(running_bb)
      /\ Held(running_bb) = Held(decoding)
      /\ Len(prefill) \in Nat /\ Len(decoding) \in Nat /\ MaxBatchSize \in Nat
      /\ Len(prefill) + Len(decoding) <= MaxBatchSize
  BY ListFacts, HandlerAssumption DEF Types, Apart, Batched
<1>3. Len(running_bb) = Len(decoding)
  BY <1>2, CardOnce
<1>4. /\ prefill_bb = <<>> \/ prefill_bb = prefill
      /\ Once(prefill_bb) /\ Held(prefill_bb) \cap Held(decoding) = {}
      /\ Len(prefill_bb) \in Nat /\ Len(prefill_bb) <= Len(prefill)
      /\ Held(prefill_bb) \subseteq Held(prefill)
  BY <1>2, EmptyList DEF Batched, Apart
<1>5. merged = prefill_bb
  <2> DEFINE n == MaxBatchSize - Len(running_bb)
  <2>1. n \in Nat /\ Len(prefill_bb) <= n
    BY <1>2, <1>3, <1>4
  <2> HIDE DEF n
  <2>2. /\ Take(prefill_bb, n) \in Seq(Rows)
        /\ Len(Take(prefill_bb, n)) = IF n <= Len(prefill_bb) THEN n ELSE Len(prefill_bb)
        /\ \A i \in 1 .. Len(Take(prefill_bb, n)) : Take(prefill_bb, n)[i] = prefill_bb[i]
    BY <1>2, <2>1, TakeDrop
  <2>3. Len(Take(prefill_bb, n)) = Len(prefill_bb)
    BY <1>4, <2>1, <2>2
  <2>4. Take(prefill_bb, n) = prefill_bb
    BY <1>2, <2>2, <2>3, SameSeq
  <2> QED BY <2>4 DEF n
<1> HIDE DEF merged
<1>6. /\ rows \in Seq(Rows) /\ Once(rows) /\ Held(rows) = Held(decoding) \cup Held(prefill_bb)
      /\ all \in Seq(Rows) /\ Once(all) /\ Held(all) = Held(decoding) \cup Held(prefill_bb)
      /\ decoding \o prefill_bb = all
  BY <1>2, <1>4, <1>5, HeldConcat
<1> HIDE DEF rows, all
<1>7. fin \in Seq(Rows) /\ Once(fin) /\ Held(fin) = Finished
  <2> DEFINE R == {r \in Held(rows) : status[r] = "COMPLETED"}
  <2>1. Held(all) \cap R = Finished
    BY <1>6 DEF Finished
  <2> HIDE DEF R
  <2>2. /\ Within(all, R) \in Seq(Rows) /\ Held(Within(all, R)) = Held(all) \cap R
        /\ Once(Within(all, R))
    BY <1>6, WithinFacts
  <2> QED BY <2>1, <2>2 DEF R
<1> HIDE DEF fin
<1>8. /\ decoding' \in Seq(Rows) /\ Once(decoding') /\ Held(decoding') = Held(all) \ Finished
  BY <1>1, <1>6, <1>7, WithoutFacts
<1>9. /\ prefill' \in Seq(Rows) /\ Once(prefill')
      /\ Held(prefill') = Held(prefill) \ Held(prefill_bb)
  BY <1>1, <1>2, WithoutFacts
<1>10. /\ running_bb' \in Seq(Rows) /\ Once(running_bb')
       /\ Held(running_bb') = Held(rows) \ Finished
  <2>1. Held(fin) \subseteq Held(rows)
    BY <1>6, <1>7 DEF Finished
  <2> QED BY <1>1, <1>6, <1>7, <2>1, PoppedFacts
<1>11. Len(prefill') + Len(decoding') <= MaxBatchSize
  <2>1. /\ IsFiniteSet(Held(all)) /\ Cardinality(Held(all)) = Len(all)
        /\ Cardinality(Held(decoding')) = Len(decoding')
        /\ IsFiniteSet(Held(prefill)) /\ Cardinality(Held(prefill)) = Len(prefill)
        /\ Cardinality(Held(prefill')) = Len(prefill')
    BY <1>2, <1>6, <1>8, <1>9, CardOnce
  <2>2. Len(decoding') <= Len(all) /\ Len(prefill') <= Len(prefill)
    <3>1. Held(decoding') \in SUBSET Held(all) /\ Held(prefill') \in SUBSET Held(prefill)
      BY <1>8, <1>9
    <3>2. /\ Cardinality(Held(decoding')) <= Cardinality(Held(all))
          /\ Cardinality(Held(prefill')) <= Cardinality(Held(prefill))
      BY <2>1, <3>1, FS_Subset
    <3> QED BY <2>1, <3>2
  <2>3. Len(all) = Len(decoding) + Len(prefill_bb) /\ Len(all) \in Nat
    BY <1>2, <1>5, <1>6, ConcatFacts, ListFacts DEF all
  <2>4. Len(decoding') \in Nat /\ Len(prefill') \in Nat
    BY <1>8, <1>9, ListFacts
  <2>5. CASE prefill_bb = <<>>
    <3>1. Len(prefill_bb) = 0
      BY <2>5, EmptyList
    <3> QED BY <1>2, <2>2, <2>3, <2>4, <3>1
  <2>6. CASE prefill_bb = prefill
    <3>1. Held(prefill') = {}
      BY <1>9, <2>6
    <3>2. Len(prefill') = 0
      BY <1>9, <3>1, ListFacts
    <3> QED BY <1>2, <2>2, <2>3, <2>4, <2>6, <3>2
  <2> QED BY <1>4, <2>5, <2>6
<1> QED BY <1>1, <1>6, <1>7, <1>8, <1>9, <1>10, <1>11

LEMMA UpdateRuns ==
  ASSUME IInv, Update
  PROVE  /\ Held(prefill_bb) \subseteq Held(prefill)
         /\ Waiting' = Waiting /\ Running' = Running \ Finished
<1> USE DEF IInv
<1>1. /\ waiting' = waiting /\ Held(decoding') = (Held(decoding) \cup Held(prefill_bb)) \ Finished
      /\ Held(prefill') = Held(prefill) \ Held(prefill_bb)
  BY UpdateMoves DEF Update
<1>2. Held(prefill_bb) \subseteq Held(prefill)
  BY EmptyList DEF Batched
<1>3. Waiting' = Waiting /\ Running' = Running \ Finished
  <2>1. Running' = Running \ Finished
    <3>1. Held(prefill) \cap Finished \subseteq Held(prefill_bb)
      BY DEF Finished, Apart
    <3> QED BY <1>1, <1>2, <3>1 DEF Running
  <2> QED BY <1>1, <2>1 DEF Waiting
<1> QED BY <1>2, <1>3

LEMMA UpdateKeeps ==
  ASSUME IInv, Update
  PROVE  IInv'
<1> USE DEF IInv
<1>1. /\ phase = "appended" /\ raised = "none" /\ phase' = "idle"
      /\ UNCHANGED <<status, input_len, output_len, waiting>>
  BY DEF Update
<1>2. /\ decoding' \in Seq(Rows) /\ Once(decoding')
      /\ running_bb' \in Seq(Rows) /\ Once(running_bb')
      /\ Held(decoding') = (Held(decoding) \cup Held(prefill_bb)) \ Finished
      /\ Held(running_bb') = Held(decoding')
      /\ prefill' \in Seq(Rows) /\ Once(prefill') /\ Held(prefill') = Held(prefill) \ Held(prefill_bb)
      /\ Len(prefill') + Len(decoding') <= MaxBatchSize
      /\ prefill_bb' = <<>>
  BY UpdateMoves
<1>3. Held(prefill_bb) \subseteq Held(prefill)
  BY UpdateRuns
<1>4. Waiting' = Waiting /\ Running' = Running \ Finished
  BY UpdateRuns
<1>5. Types'
  BY <1>1, <1>2, EmptyList DEF Types
<1>6. Apart'
  BY <1>1, <1>2, <1>3, <1>4 DEF Apart
<1>7. Batched'
  BY <1>1, <1>2 DEF Batched
<1>8. Stated'
  <2>1. \A p \in 0 .. 2 : \A r \in Held(waiting'[p]) : Waits(r, p)'
    BY <1>1 DEF Stated, Waits, Priority
  <2>2. ASSUME NEW r \in Held(prefill') PROVE Admits(r)'
    <3>1. Admits(r) /\ r \notin Held(prefill_bb)
      BY <1>2 DEF Stated
    <3> QED BY <1>1, <3>1 DEF Admits
  <2>3. ASSUME NEW r \in Held(decoding') PROVE Decodes(r)'
    <3>1. status[r] # "COMPLETED" /\ (r \in Held(decoding) \/ r \in Held(prefill_bb))
      BY <1>2 DEF Finished
    <3>2. /\ status[r] # "NEW" /\ input_len[r] # 0 /\ output_len[r] # 0
          /\ output_len[r] < MaxOutputLen
      BY <1>1, <1>3, <3>1 DEF Stated, Decodes, Admits
    <3> QED BY <1>1, <3>1, <3>2 DEF Decodes
  <2>4. \A r \in Rows : /\ status'[r] \in {"WAITING", "RUNNING"} => r \in Waiting' \cup Running'
                        /\ status'[r] = "NEW" => output_len'[r] = 0
    BY <1>1, <1>4 DEF Stated, Finished
  <2> QED BY <2>1, <2>2, <2>3, <2>4 DEF Stated
<1> QED BY <1>5, <1>6, <1>7, <1>8

LEMMA NextKeeps == IInv /\ [Next]_vars => IInv'
<1> SUFFICES ASSUME IInv, [Next]_vars PROVE IInv'
  OBVIOUS
<1>1. ASSUME NEW r \in Rows, AddSequence(r) PROVE IInv'
  BY <1>1, AddKeeps
<1>2. ASSUME NEW r \in Rows, AbortWaiting(r) PROVE IInv'
  BY <1>2, AbortWaitingKeeps
<1>3. ASSUME NEW r \in Rows, AbortRunning(r) PROVE IInv'
  BY <1>3, AbortRunningKeeps
<1>4. CASE SchedulePrefill
  BY <1>4, PrefillKeeps
<1>5. CASE ScheduleDecode
  BY <1>5, DecodeKeeps
<1>6. CASE Forward
  BY <1>6, ForwardKeeps
<1>7. CASE Update
  BY <1>7, UpdateKeeps
<1>8. CASE UNCHANGED vars
  <2>1. UNCHANGED <<status, input_len, output_len, waiting, prefill, decoding, prefill_bb,
                    running_bb, phase, raised>>
    BY <1>8 DEF vars, listVars
  <2>2. Waiting' = Waiting /\ Running' = Running
    BY <2>1 DEF Waiting, Running
  <2>3. Types' /\ Apart' /\ Batched'
    BY <2>1, <2>2 DEF IInv, Types, Apart, Batched, ReadyForPrefill
  <2>4. Stated'
    BY <2>1, <2>2 DEF IInv, Stated, Waits, Admits, Decodes, Priority
  <2> QED BY <2>3, <2>4 DEF IInv
<1> QED BY <1>1, <1>2, <1>3, <1>4, <1>5, <1>6, <1>7, <1>8 DEF Next, Step

\* Requests, lists and batches agree, whatever is added, aborted and finished.
THEOREM Invariant == Spec => []IInv
<1> QED BY InitIInv, NextKeeps, PTL DEF Spec


-----------------------------------------------------------------------------
(* No request is lost, and longer prompts go first.                        *)

LEMMA IInvNothingLost == IInv => NothingLost
<1> SUFFICES ASSUME IInv PROVE NothingLost
  OBVIOUS
<1> USE DEF IInv
<1> DEFINE c1 == waiting[0] \o waiting[1]
           c2 == c1 \o waiting[2]
           c3 == c2 \o prefill
           c4 == c3 \o decoding
<1>1. /\ \A p \in 0 .. 2 : waiting[p] \in Seq(Rows) /\ Once(waiting[p])
      /\ prefill \in Seq(Rows) /\ Once(prefill) /\ decoding \in Seq(Rows) /\ Once(decoding)
      /\ Waiting \cap (Held(prefill) \cup Held(decoding)) = {}
      /\ Held(prefill) \cap Held(decoding) = {}
      /\ \A p, q \in 0 .. 2 : p # q => Held(waiting[p]) \cap Held(waiting[q]) = {}
  BY DEF Types, Apart, Running
<1>2. Waiting = Held(waiting[0]) \cup Held(waiting[1]) \cup Held(waiting[2])
  <2>1. 0 .. 2 = {0, 1, 2}
    OBVIOUS
  <2> QED BY <2>1 DEF Waiting
<1>3. c1 \in Seq(Rows) /\ Once(c1) /\ Held(c1) = Held(waiting[0]) \cup Held(waiting[1])
  BY <1>1, HeldConcat
<1> HIDE DEF c1
<1>4. c2 \in Seq(Rows) /\ Once(c2) /\ Held(c2) = Waiting
  <2>1. Held(c1) \cap Held(waiting[2]) = {}
    BY <1>1, <1>3
  <2> QED BY <1>1, <1>2, <1>3, <2>1, HeldConcat
<1> HIDE DEF c2
<1>5. c3 \in Seq(Rows) /\ Once(c3) /\ Held(c3) = Waiting \cup Held(prefill)
  <2>1. Held(c2) \cap Held(prefill) = {}
    BY <1>1, <1>4
  <2> QED BY <1>1, <1>4, <2>1, HeldConcat
<1> HIDE DEF c3
<1>6. Once(c4) /\ Held(c4) = Waiting \cup Running
  <2>1. Held(c3) \cap Held(decoding) = {}
    BY <1>1, <1>5
  <2> QED BY <1>1, <1>5, <2>1, HeldConcat DEF Running
<1> HIDE DEF c4
<1>7. \A r \in Rows : status[r] \in {"WAITING", "RUNNING"} => r \in Held(c4)
  BY <1>6 DEF Stated
<1>8. ASSUME NEW r \in Rows, status[r] = "COMPLETED", phase = "idle" PROVE r \notin Held(c4)
  BY <1>6, <1>8 DEF Stated, Waits, Admits, Decodes, Waiting, Running
<1>9. Held(running_bb) = Held(decoding) /\ Len(running_bb) = Len(decoding)
  <2>1. Cardinality(Held(running_bb)) = Len(running_bb) /\ Cardinality(Held(decoding)) = Len(decoding)
    <3>1. running_bb \in Seq(Rows) /\ Once(running_bb)
      BY DEF Types, Apart
    <3> QED BY <1>1, <3>1, CardOnce
  <2> QED BY <2>1 DEF Batched
<1>10. c4 = waiting[0] \o waiting[1] \o waiting[2] \o prefill \o decoding
  BY DEF c1, c2, c3, c4
<1> QED BY <1>6, <1>7, <1>8, <1>9, <1>10 DEF NothingLost, Once

\* Between two steps every request is where its status says, once: the lists
\* of RequestHandler and the batches of BatchBucket never lose or double one.
THEOREM NoRequestIsLost == Spec => []NothingLost
<1> QED BY Invariant, IInvNothingLost, PTL

\* Only a schedule leaves "idle" for "scheduled", and it is an Admit.
LEMMA SchedulesAdmit ==
  ASSUME [Next]_vars, phase = "idle", phase' = "scheduled"
  PROVE  Admit
<1>1. ~ UNCHANGED vars
  BY DEF vars
<1>2. ASSUME NEW r \in Rows, AddSequence(r) \/ AbortWaiting(r) \/ AbortRunning(r) PROVE FALSE
  BY <1>2 DEF AddSequence, AbortWaiting, AbortRunning
<1>3. ~ Forward /\ ~ Update
  BY DEF Forward, Update
<1>4. SchedulePrefill \/ ScheduleDecode
  BY <1>1, <1>2, <1>3 DEF Next, Step
<1> QED BY <1>4 DEF SchedulePrefill, ScheduleDecode

\* Whoever leaves list p was admitted from it, before all that stay in it, and
\* none stays in a list of longer prompts.
LEMMA LeaversGoFirst ==
  ASSUME IInv, Admit, NEW r \in Waiting, r \notin UNION {Held(waiting'[p]) : p \in 0 .. 2},
         NEW p \in Priority(input_len[r]) .. 2, NEW i \in DOMAIN waiting'[p]
  PROVE  /\ p = Priority(input_len[r])
         /\ \E j, k \in DOMAIN waiting[p] :
              j < k /\ waiting[p][j] = r /\ waiting[p][k] = waiting'[p][i]
<1> USE DEF IInv
<1>1. \A q \in 0 .. 2 : waiting'[q] = Left(q)
  BY DEF Admit, Left
<1>2. PICK q \in 0 .. 2 : r \in Held(waiting[q])
  BY DEF Waiting
<1>3. q = Priority(input_len[r])
  BY <1>2 DEF Stated, Waits
<1>4. p \in 0 .. 2 /\ q <= p
  BY <1>2, <1>3
<1> DEFINE a == Admitted(q, Room)
           b == Admitted(p, Room)
<1>5. /\ Len(a) \in Nat /\ Len(a) <= Len(waiting[q])
      /\ Held(waiting[q]) = Held(a) \cup Held(Left(q))
      /\ \A x \in 1 .. Len(a) : a[x] = waiting[q][x] /\ a \in Seq(Rows)
  BY AdmittedFacts
<1>6. /\ Len(b) \in Nat /\ Len(b) <= Len(waiting[p]) /\ Left(p) \in Seq(Rows)
      /\ Len(Left(p)) = Len(waiting[p]) - Len(b)
      /\ \A x \in 1 .. Len(Left(p)) : Left(p)[x] = waiting[p][Len(b) + x]
  BY <1>4, AdmittedFacts
<1>7. r \in Held(a) /\ a \in Seq(Rows)
  <2>1. r \notin Held(Left(q))
    BY <1>1
  <2>2. a \in Seq(Rows)
    BY AdmittedFacts
  <2> QED BY <1>2, <1>5, <2>1, <2>2
<1>8. waiting[p] \in Seq(Rows) /\ i \in 1 .. Len(Left(p))
  <2>1. waiting[p] \in Seq(Rows)
    BY <1>4 DEF Types
  <2>2. waiting'[p] = Left(p)
    BY <1>1, <1>4
  <2>3. Left(p) \in Seq(Rows)
    BY <1>6
  <2>4. DOMAIN Left(p) = 1 .. Len(Left(p))
    BY <2>3
  <2> QED BY <2>1, <2>2, <2>4
<1>9. p = q
  <2>1. Len(a) # 0 /\ Len(b) # Len(waiting[p])
    <3>1. Len(a) # 0
      BY <1>5, <1>7 DEF Held
    <3> QED BY <1>4, <1>6, <1>8, <3>1, ListFacts DEF Types
  <2>2. q < p /\ Len(b) # Len(waiting[p]) => Len(a) = 0
    BY <1>4, AdmittedFacts
  <2> QED BY <1>2, <1>4, <2>1, <2>2
<1>10. PICK j \in 1 .. Len(a) : waiting[q][j] = r
  BY <1>5, <1>7 DEF Held
<1>11. a = b
  BY <1>9
<1>12. waiting'[p][i] = waiting[p][Len(a) + i] /\ Len(a) + i \in 1 .. Len(waiting[p])
       /\ j < Len(a) + i /\ Len(a) + i \in Nat
  <2>1. waiting'[p] = Left(p)
    BY <1>1, <1>4
  <2>2. Left(p)[i] = waiting[p][Len(a) + i]
    BY <1>6, <1>8, <1>11
  <2> DEFINE l == Len(a)
             w == Len(waiting[p])
  <2>3. l \in Nat /\ l <= w /\ j \in 1 .. l /\ i \in 1 .. w - l
    BY <1>5, <1>6, <1>8, <1>10, <1>11, <1>9
  <2>4. w \in Nat
    BY <1>8
  <2> HIDE DEF l, w
  <2>5. l + i \in 1 .. w /\ j < l + i /\ l + i \in Nat
    BY <2>3, <2>4
  <2> QED BY <2>1, <2>2, <2>5 DEF l, w
<1>13. DOMAIN waiting[p] = 1 .. Len(waiting[p])
  BY <1>8
<1> HIDE DEF a, b
<1>14. j \in DOMAIN waiting[p] /\ waiting[p][j] = r
  BY <1>5, <1>9, <1>10, <1>13
<1> QED BY <1>3, <1>9, <1>12, <1>13, <1>14

\* Whenever a schedule takes a request from the waiting lists, no request that
\* it leaves there has a longer prompt's priority or came before it.
THEOREM LongerPromptsGoFirst == Spec => PriorityOfPromptLength
<1> DEFINE A == phase = "idle" /\ phase' = "scheduled" =>
       \A r \in Waiting \ UNION {Held(waiting'[p]) : p \in 0 .. 2} :
         \A p \in Priority(input_len[r]) .. 2 :
           \A i \in DOMAIN waiting'[p] :
             /\ p = Priority(input_len[r])
             /\ \E j, k \in DOMAIN waiting[p] :
                  j < k /\ waiting[p][j] = r /\ waiting[p][k] = waiting'[p][i]
<1>1. IInv /\ [Next]_vars => A
  <2> SUFFICES ASSUME IInv, [Next]_vars, phase = "idle", phase' = "scheduled" PROVE A
    OBVIOUS
  <2>1. Admit
    BY SchedulesAdmit
  <2> QED BY <2>1, LeaversGoFirst
<1>2. [][Next]_vars /\ []IInv => [][A]_vars
  BY <1>1, PTL
<1> QED BY <1>2, Invariant, PTL DEF Spec, PriorityOfPromptLength

-----------------------------------------------------------------------------
(* The handler implements the batcher.                                     *)

\* Three lists without a common element have as many elements as members.
LEMMA CardOfThree ==
  ASSUME NEW f \in [0 .. 2 -> Seq(Rows)], \A p \in 0 .. 2 : Once(f[p]),
         \A p, q \in 0 .. 2 : p # q => Held(f[p]) \cap Held(f[q]) = {}
  PROVE  LET U == UNION {Held(f[p]) : p \in 0 .. 2} IN
         IsFiniteSet(U) /\ Cardinality(U) = Len(f[2]) + Len(f[1]) + Len(f[0])
<1> DEFINE h2 == Held(f[2])
           h1 == Held(f[1])
           h0 == Held(f[0])
<1>1. 0 .. 2 = {0, 1, 2}
  OBVIOUS
<1>2. /\ IsFiniteSet(h2) /\ IsFiniteSet(h1) /\ IsFiniteSet(h0)
      /\ Cardinality(h2) = Len(f[2]) /\ Cardinality(h1) = Len(f[1]) /\ Cardinality(h0) = Len(f[0])
      /\ Len(f[2]) \in Nat /\ Len(f[1]) \in Nat /\ Len(f[0]) \in Nat
  BY <1>1, CardOnce, ListFacts
<1>3. h2 \cap h1 = {} /\ (h2 \cup h1) \cap h0 = {}
  BY <1>1
<1>4. UNION {Held(f[p]) : p \in 0 .. 2} = (h2 \cup h1) \cup h0
  BY <1>1
<1> HIDE DEF h2, h1, h0
<1>5. IsFiniteSet(h2 \cup h1) /\ Cardinality(h2 \cup h1) = Len(f[2]) + Len(f[1])
  <2>1. Cardinality(h2 \cap h1) = 0
    BY <1>3, FS_EmptySet
  <2>2. /\ IsFiniteSet(h2 \cup h1)
        /\ Cardinality(h2 \cup h1) = Cardinality(h2) + Cardinality(h1) - Cardinality(h2 \cap h1)
    BY <1>2, FS_Union
  <2> QED BY <1>2, <1>3, <2>1, <2>2
<1>6. /\ IsFiniteSet((h2 \cup h1) \cup h0)
      /\ Cardinality((h2 \cup h1) \cup h0) = Len(f[2]) + Len(f[1]) + Len(f[0])
  <2>1. Cardinality((h2 \cup h1) \cap h0) = 0
    BY <1>3, FS_EmptySet
  <2>2. /\ IsFiniteSet((h2 \cup h1) \cup h0)
        /\ Cardinality((h2 \cup h1) \cup h0)
             = Cardinality(h2 \cup h1) + Cardinality(h0) - Cardinality((h2 \cup h1) \cap h0)
    BY <1>2, <1>5, FS_Union
  <2> QED BY <1>2, <1>3, <1>5, <2>1, <2>2
<1> QED BY <1>4, <1>6

\* As many are admitted as there is room for.
LEMMA AdmitBegins ==
  ASSUME IInv, Admit, decoding' = decoding, phase' = "scheduled"
  PROVE  Engine!Begin({})
<1> USE DEF IInv
<1> DEFINE a == [p \in 0 .. 2 |-> Admitted(p, Room)]
           A == UNION {Held(Admitted(p, Room)) : p \in 0 .. 2}
<1>1. /\ phase = "idle" /\ Unfinished /\ prefill' = Queue
      /\ \A p \in 0 .. 2 : waiting'[p] = Left(p)
  BY DEF Admit, Left
<1>2. /\ \A p \in 0 .. 2 :
           /\ a[p] \in Seq(Rows) /\ Once(a[p]) /\ Held(a[p]) \cap Held(Left(p)) = {}
           /\ Held(waiting[p]) = Held(a[p]) \cup Held(Left(p))
           /\ Len(a[p]) \in Nat /\ Len(a[p]) <= Len(waiting[p])
      /\ Room \in Nat /\ Len(a[2]) + Len(a[1]) + Len(a[0]) <= Room
      /\ \A p \in 0 .. 2 : Len(a[p]) = Len(waiting[p]) \/ Len(a[2]) + Len(a[1]) + Len(a[0]) = Room
  <2>1. \A p \in 0 .. 2 : a[p] = Admitted(p, Room)
    OBVIOUS
  <2> HIDE DEF a, A, IInv
  <2>2. a[2] = Admitted(2, Room) /\ a[1] = Admitted(1, Room) /\ a[0] = Admitted(0, Room)
    BY <2>1
  <2>3. /\ \A p \in 0 .. 2 :
             /\ a[p] \in Seq(Rows) /\ Once(a[p]) /\ Held(a[p]) \cap Held(Left(p)) = {}
             /\ Held(waiting[p]) = Held(a[p]) \cup Held(Left(p))
             /\ Len(a[p]) \in Nat /\ Len(a[p]) <= Len(waiting[p])
        /\ Room \in Nat
    BY ONLY IInv, <2>1, AdmittedFacts
  <2>4. Len(a[2]) + Len(a[1]) + Len(a[0]) <= Room
    BY ONLY IInv, <2>2, AdmittedFacts
  <2>5. \A p \in 0 .. 2 : Len(a[p]) = Len(waiting[p]) \/ Len(a[2]) + Len(a[1]) + Len(a[0]) = Room
    BY ONLY IInv, <2>1, <2>2, AdmittedFacts
  <2> QED BY <2>3, <2>4, <2>5
<1>3. /\ \A p, q \in 0 .. 2 : p # q => Held(waiting[p]) \cap Held(waiting[q]) = {}
      /\ \A p \in 0 .. 2 : Once(waiting[p])
      /\ waiting \in [0 .. 2 -> Seq(Rows)]
  BY DEF Apart, Types
<1>4. A = UNION {Held(a[p]) : p \in 0 .. 2} /\ a \in [0 .. 2 -> Seq(Rows)]
  BY <1>2
<1> HIDE DEF a, A
<1>5. /\ Cardinality(A) = Len(a[2]) + Len(a[1]) + Len(a[0])
      /\ Cardinality(Waiting) = Len(waiting[2]) + Len(waiting[1]) + Len(waiting[0])
  <2>1. \A p, q \in 0 .. 2 : p # q => Held(a[p]) \cap Held(a[q]) = {}
    BY <1>2, <1>3
  <2>2. Cardinality(A) = Len(a[2]) + Len(a[1]) + Len(a[0])
    BY <1>2, <1>4, <2>1, CardOfThree
  <2>3. Cardinality(Waiting) = Len(waiting[2]) + Len(waiting[1]) + Len(waiting[0])
    BY <1>3, CardOfThree DEF Waiting
  <2> QED BY <2>2, <2>3
<1>6. Cardinality(Running) = Len(prefill) + Len(decoding) /\ Len(prefill) \in Nat /\ Len(decoding) \in Nat
  <2>1. /\ IsFiniteSet(Held(prefill)) /\ Cardinality(Held(prefill)) = Len(prefill)
        /\ IsFiniteSet(Held(decoding)) /\ Cardinality(Held(decoding)) = Len(decoding)
        /\ Len(prefill) \in Nat /\ Len(decoding) \in Nat
        /\ Held(prefill) \cap Held(decoding) = {}
    BY CardOnce, ListFacts DEF Types, Apart
  <2>2. Cardinality(Held(prefill) \cap Held(decoding)) = 0
    BY <2>1, FS_EmptySet
  <2>3. Cardinality(Running) = Cardinality(Held(prefill)) + Cardinality(Held(decoding))
                              - Cardinality(Held(prefill) \cap Held(decoding))
    BY <2>1, FS_Union DEF Running
  <2> QED BY <2>1, <2>2, <2>3
<1>7. MaxBatchSize - Cardinality(Running) = Room
  BY <1>6, HandlerAssumption DEF Room
<1>8. Cardinality(A) = IF Cardinality(Waiting) <= Room THEN Cardinality(Waiting) ELSE Room
  <2> DEFINE w(p) == Len(waiting[p])
             n(p) == Len(a[p])
  <2>1. /\ w(2) \in Nat /\ w(1) \in Nat /\ w(0) \in Nat /\ n(2) \in Nat /\ n(1) \in Nat /\ n(0) \in Nat
        /\ n(2) <= w(2) /\ n(1) <= w(1) /\ n(0) <= w(0) /\ n(2) + n(1) + n(0) <= Room
        /\ n(2) = w(2) \/ n(2) + n(1) + n(0) = Room
        /\ n(1) = w(1) \/ n(2) + n(1) + n(0) = Room
        /\ n(0) = w(0) \/ n(2) + n(1) + n(0) = Room
        /\ Room \in Nat
    <3>1. 0 \in 0 .. 2 /\ 1 \in 0 .. 2 /\ 2 \in 0 .. 2
      OBVIOUS
    <3>2. \A p \in 0 .. 2 : w(p) \in Nat
      BY <1>3, ListFacts
    <3> QED BY <1>2, <3>1, <3>2
  <2> HIDE DEF w, n
  <2>2. n(2) + n(1) + n(0) = IF w(2) + w(1) + w(0) <= Room THEN w(2) + w(1) + w(0) ELSE Room
    BY <2>1
  <2> QED BY <1>5, <2>2 DEF w, n
<1>9. Waiting' = Waiting \ A /\ A \subseteq Waiting
  <2>1. \A p, q \in 0 .. 2 : Held(Left(p)) \cap Held(a[q]) = {}
    BY <1>2, <1>3
  <2> QED BY <1>1, <1>2, <1>4, <2>1 DEF Waiting
<1>10. Running' = Running \cup A
  BY <1>1, QueueFacts DEF Running, A
<1>11. Waiting \cup Running # {}
  BY <1>1 DEF Unfinished
<1>12. Waiting \cup {} = Waiting
  OBVIOUS
<1>13. \A S : Engine!Cardinality(S) = Cardinality(S)
  BY DEF Engine!Cardinality, Cardinality
<1> QED BY <1>1, <1>7, <1>8, <1>9, <1>10, <1>11, <1>12, <1>13 DEF Engine!Begin

LEMMA BatcherStep ==
  ASSUME IInv, [Next]_vars
  PROVE  [Engine!BatcherNext]_(Engine!batcherVars)
<1> USE DEF IInv
<1>1. ASSUME NEW r \in Rows, AddSequence(r) PROVE Engine!BatcherNext
  <2>1. Engine!Add(r)
    BY <1>1, AddMoves DEF AddSequence, Engine!Add
  <2> QED BY <2>1 DEF Engine!BatcherNext
<1>2. ASSUME NEW r \in Rows, AbortWaiting(r) PROVE Engine!BatcherNext
  <2>1. Engine!Withdraw(r)
    BY <1>2, AbortMoves DEF AbortWaiting, Engine!Withdraw
  <2> QED BY <2>1 DEF Engine!BatcherNext
<1>3. ASSUME NEW r \in Rows, AbortRunning(r) PROVE UNCHANGED Engine!batcherVars
  BY <1>3 DEF AbortRunning, listVars, Waiting, Running, Engine!batcherVars
<1>4. CASE SchedulePrefill \/ ScheduleDecode
  <2>1. Engine!Begin({})
    BY <1>4, AdmitBegins DEF SchedulePrefill, ScheduleDecode
  <2> QED BY <2>1 DEF Engine!BatcherNext
<1>5. CASE Forward
  BY <1>5 DEF Forward, listVars, Waiting, Running, Engine!batcherVars
<1>6. CASE Update
  <2>1. Waiting' = Waiting /\ Running' = Running \ Finished /\ Finished \subseteq Running
    BY <1>6, UpdateRuns DEF Finished, Running
  <2>2. Finished \in SUBSET Rows
    BY ListFacts DEF Finished, Types
  <2>3. Engine!End(Finished)
    BY <1>6, <2>1 DEF Update, Engine!End
  <2> QED BY <2>2, <2>3 DEF Engine!BatcherNext
<1>7. CASE UNCHANGED vars
  BY <1>7 DEF vars, listVars, Waiting, Running, Engine!batcherVars
<1> QED BY <1>1, <1>2, <1>3, <1>4, <1>5, <1>6, <1>7 DEF Next, Step

\* Every behaviour of the handler is one of a batcher: a schedule admits all
\* that wait or all there is room for, never more than max_batch_size run, and
\* only an update lets a request go.
THEOREM HandlerIsBatcher == Spec => IsBatcher
<1>1. Init => Engine!BatcherInit
  <2> SUFFICES ASSUME Init PROVE Engine!BatcherInit
    OBVIOUS
  <2>1. \A p \in 0 .. 2 : waiting[p] = <<>>
    BY DEF Init
  <2>2. Waiting = {} /\ Running = {}
    BY <2>1, EmptyList DEF Init, Waiting, Running
  <2> QED BY <2>2 DEF Init, Engine!BatcherInit
<1>2. IInv /\ [Next]_vars => [Engine!BatcherNext]_(Engine!batcherVars)
  BY BatcherStep
<1> QED BY <1>1, <1>2, Invariant, PTL DEF Spec, IsBatcher, Engine!BatcherSpec

-----------------------------------------------------------------------------
(* The handler keeps the protocol of the cache manager.                    *)

\* The lengths the manager is to think of.
Tokens == [r \in Rows |-> IF HasBlocks(r) THEN Asked(r) ELSE 0]

\* The manager of the protocol is the manager of the handler.
LEMMA SameFree ==
  ASSUME NEW R
  PROVE  Usage!FreeTables(R) <=> FreeTables(R)
BY DEF Usage!FreeTables, FreeTables, Usage!Walked, Walked, Usage!Blocks, Blocks, Usage!Fail, Fail,
       Usage!Reclaim, Reclaim, Usage!Cols, Cols, Usage!NoBlock, NoBlock, Usage!At, At,
       Usage!Cardinality, Cardinality

LEMMA SameContext ==
  ASSUME NEW rs, NEW ctx
  PROVE  Usage!AllocateContextTables(rs, ctx) <=> AllocateContextTables(rs, ctx)
BY DEF Usage!AllocateContextTables, AllocateContextTables, Usage!Blocks, Blocks, Usage!Fail, Fail,
       Usage!FreeRuns, FreeRuns, Usage!Cols, Cols, Usage!NoBlock, NoBlock, Usage!ContextCells,
       ContextCells, Usage!BatchRows, BatchRows, Usage!BlocksFor, BlocksFor, Usage!Place, Place,
       Usage!Occupy, Occupy, Usage!ContextAsked, ContextAsked, Usage!Rank, Rank, Usage!Before,
       Before, Usage!Pos, Pos, Usage!kvVars, kvVars, Usage!Cardinality, Cardinality

LEMMA SameTokens ==
  ASSUME NEW rs, NEW lens
  PROVE  Usage!AllocateTokens(rs, lens) <=> AllocateTokens(rs, lens)
BY DEF Usage!AllocateTokens, AllocateTokens, Usage!TokenCells, TokenCells, Usage!TokenCol, TokenCol,
       Usage!Blocks, Blocks, Usage!Fail, Fail, Usage!Free, Free, Usage!Ith, Ith, Usage!At, At,
       Usage!Cols, Cols, Usage!NoBlock, NoBlock, Usage!BatchRows, BatchRows, Usage!Place, Place,
       Usage!Occupy, Occupy, Usage!Rank, Rank, Usage!Before, Before, Usage!Pos, Pos,
       Usage!Cardinality, Cardinality

LEMMA SameRest ==
  /\ \A S : Usage!Cardinality(S) = Cardinality(S)
  /\ \A rs : Usage!BatchRows(rs) = BatchRows(rs) /\ BatchRows(rs) = Held(rs)
  /\ Usage!KVInit <=> KVInit
  /\ Usage!Active = {r \in Rows : Tokens[r] > 0}
<1>1. \A S : Usage!Cardinality(S) = Cardinality(S)
  BY DEF Usage!Cardinality, Cardinality
<1>2. \A rs : Usage!BatchRows(rs) = BatchRows(rs) /\ BatchRows(rs) = Held(rs)
  BY DEF Usage!BatchRows, BatchRows, Held
<1>3. Usage!KVInit <=> KVInit
  BY DEF Usage!KVInit, KVInit, Usage!Blocks, Blocks, Usage!EmptyTable, EmptyTable, Usage!Cols, Cols,
         Usage!NoBlock, NoBlock
<1>4. Usage!Active = {r \in Rows : Tokens[r] > 0}
  BY DEF Usage!Active, Tokens
<1> QED BY <1>1, <1>2, <1>3, <1>4

\* A list that has nothing twice is a batch.
LEMMA ListIsBatch ==
  ASSUME NEW list \in Seq(Rows), Once(list), list # <<>>
  PROVE  list \in Usage!Batches
<1>1. Len(list) \in Nat /\ DOMAIN list = 1 .. Len(list) /\ Len(list) # 0 /\ Held(list) \subseteq Rows
  BY ListFacts
<1>2. Len(list) <= Cardinality(Rows) /\ Cardinality(Rows) \in Nat
  <2>1. Cardinality(Held(list)) = Len(list)
    BY CardOnce
  <2>2. Held(list) \in SUBSET Rows /\ IsFiniteSet(Rows)
    BY <1>1, KVAssumption
  <2>3. Cardinality(Held(list)) <= Cardinality(Rows) /\ Cardinality(Rows) \in Nat
    BY <2>2, FS_Subset, FS_CardinalityType
  <2> QED BY <2>1, <2>3
<1>3. Len(list) \in 1 .. Cardinality(Rows) /\ list \in [1 .. Len(list) -> Rows]
  BY <1>1, <1>2
<1>4. list \in UNION {[1 .. n -> Rows] : n \in 1 .. Cardinality(Rows)}
  BY <1>3
<1>5. Usage!Cardinality(Rows) = Cardinality(Rows)
  BY SameRest
<1> QED BY <1>4, <1>5 DEF Usage!Batches, Once

\* The allocations read the lengths of the batch only.
LEMMA ContextReads ==
  ASSUME NEW rs, NEW c1, NEW c2, \A r \in BatchRows(rs) : c1[r] = c2[r]
  PROVE  AllocateContextTables(rs, c1) <=> AllocateContextTables(rs, c2)
<1>1. ContextCells(rs, c1) = ContextCells(rs, c2)
  BY DEF ContextCells
<1>2. ContextAsked(ContextCells(rs, c1), c1) = ContextAsked(ContextCells(rs, c2), c2)
  <2> DEFINE S == ContextCells(rs, c2)
  <2>1. \A c \in S : c[1] \in BatchRows(rs)
    BY DEF ContextCells
  <2> HIDE DEF S
  <2>2. ContextAsked(S, c1) = ContextAsked(S, c2)
    BY <2>1 DEF ContextAsked
  <2> QED BY <1>1, <2>2 DEF S
<1> QED BY <1>1, <1>2 DEF AllocateContextTables

LEMMA TokensReads ==
  ASSUME NEW rs, NEW c1, NEW c2, \A r \in BatchRows(rs) : c1[r] = c2[r]
  PROVE  AllocateTokens(rs, c1) <=> AllocateTokens(rs, c2)
<1>1. TokenCells(rs, c1) = TokenCells(rs, c2)
  BY DEF TokenCells
<1>2. \A r \in BatchRows(rs) : TokenCol(c1[r]) = TokenCol(c2[r])
  OBVIOUS
<1> QED BY <1>1, <1>2 DEF AllocateTokens

LEMMA TokensAre ==
  /\ \A r \in Rows : Tokens[r] =
       IF r \in Held(prefill_bb) \cup Held(running_bb)
       THEN IF phase = "scheduled" /\ (r \in Held(prefill_bb) \/ ~ ReadyForPrefill(prefill))
            THEN input_len[r] + output_len[r] ELSE (input_len[r] + output_len[r]) - 1
       ELSE 0
  /\ \A r \in Rows : Tokens'[r] =
       IF r \in Held(prefill_bb') \cup Held(running_bb')
       THEN IF phase' = "scheduled" /\ (r \in Held(prefill_bb') \/ ~ ReadyForPrefill(prefill)')
            THEN input_len'[r] + output_len'[r] ELSE (input_len'[r] + output_len'[r]) - 1
       ELSE 0
<1>1. ASSUME NEW r \in Rows
      PROVE  Tokens[r] =
               IF r \in Held(prefill_bb) \cup Held(running_bb)
               THEN IF phase = "scheduled" /\ (r \in Held(prefill_bb) \/ ~ ReadyForPrefill(prefill))
                    THEN input_len[r] + output_len[r] ELSE (input_len[r] + output_len[r]) - 1
               ELSE 0
  <2>1. Tokens[r] = IF HasBlocks(r) THEN Asked(r) ELSE 0
    BY DEF Tokens
  <2>2. Lens[r] = input_len[r] + output_len[r]
    BY DEF Lens
  <2>3. HasBlocks(r) <=> r \in Held(prefill_bb) \cup Held(running_bb)
    BY DEF HasBlocks
  <2>4. Asked(r) = IF phase = "scheduled" /\ (r \in Held(prefill_bb) \/ ~ ReadyForPrefill(prefill))
                   THEN input_len[r] + output_len[r] ELSE (input_len[r] + output_len[r]) - 1
    BY <2>2 DEF Asked
  <2> QED BY <2>1, <2>3, <2>4
<1>2. ASSUME NEW r \in Rows
      PROVE  Tokens'[r] =
               IF r \in Held(prefill_bb') \cup Held(running_bb')
               THEN IF phase' = "scheduled" /\ (r \in Held(prefill_bb') \/ ~ ReadyForPrefill(prefill)')
                    THEN input_len'[r] + output_len'[r] ELSE (input_len'[r] + output_len'[r]) - 1
               ELSE 0
  <2>1. Tokens'[r] = IF HasBlocks(r)' THEN Asked(r)' ELSE 0
    BY DEF Tokens
  <2>2. Lens'[r] = input_len'[r] + output_len'[r]
    BY DEF Lens
  <2>3. HasBlocks(r)' <=> r \in Held(prefill_bb') \cup Held(running_bb')
    BY DEF HasBlocks, Held
  <2>4. Asked(r)' = IF phase' = "scheduled" /\ (r \in Held(prefill_bb') \/ ~ ReadyForPrefill(prefill)')
                    THEN input_len'[r] + output_len'[r] ELSE (input_len'[r] + output_len'[r]) - 1
    BY <2>2 DEF Asked, Held
  <2> QED BY <2>1, <2>3, <2>4
<1> QED BY <1>1, <1>2

LEMMA TokensEqual ==
  ASSUME \A r \in Rows : Tokens'[r] = Tokens[r]
  PROVE  Tokens' = Tokens
BY DEF Tokens

\* Who has blocks between two steps, and that the length is not 0.
LEMMA RunnersHaveLength ==
  ASSUME IInv, phase = "idle"
  PROVE  /\ prefill_bb = <<>> /\ Held(prefill_bb) = {}
         /\ Held(running_bb) \subseteq Rows /\ Held(running_bb) = Held(decoding)
         /\ \A r \in Rows : Tokens[r] = IF r \in Held(running_bb)
                                        THEN (input_len[r] + output_len[r]) - 1 ELSE 0
         /\ \A r \in Held(running_bb) :
              /\ Tokens[r] \in Nat /\ Tokens[r] > 0
              /\ Tokens[r] + 1 < MaxInputLen + MaxOutputLen
         /\ Usage!Active = Held(running_bb)
<1> USE DEF IInv
<1>1. prefill_bb = <<>> /\ Held(prefill_bb) = {}
  BY EmptyList DEF Batched
<1>2. Held(running_bb) \subseteq Rows /\ Held(running_bb) = Held(decoding)
  BY ListFacts DEF Types, Batched
<1>3. \A r \in Rows : Tokens[r] = IF r \in Held(running_bb)
                                  THEN (input_len[r] + output_len[r]) - 1 ELSE 0
  BY <1>1, TokensAre
<1>4. ASSUME NEW r \in Held(running_bb)
      PROVE  /\ Tokens[r] \in Nat /\ Tokens[r] > 0
             /\ Tokens[r] + 1 < MaxInputLen + MaxOutputLen
  <2>1. r \in Rows /\ Decodes(r)
    BY <1>2 DEF Stated
  <2>2. /\ input_len[r] # 0 /\ output_len[r] # 0 /\ output_len[r] < MaxOutputLen
    BY <2>1 DEF Decodes
  <2>3. input_len[r] \in 0 .. MaxInputLen /\ output_len[r] \in Nat
    BY <2>1 DEF Types
  <2>4. Tokens[r] = (input_len[r] + output_len[r]) - 1
    BY <1>3, <2>1
  <2> DEFINE x == input_len[r]
             y == output_len[r]
  <2> HIDE DEF x, y
  <2>5. x \in 0 .. MaxInputLen /\ x # 0 /\ y \in Nat /\ y # 0 /\ y < MaxOutputLen
        /\ Tokens[r] = (x + y) - 1
    BY <2>2, <2>3, <2>4 DEF x, y
  <2> QED BY <2>5, HandlerAssumption
<1>5. Usage!Active = Held(running_bb)
  BY <1>2, <1>3, <1>4, SameRest
<1> QED BY <1>1, <1>2, <1>3, <1>4, <1>5

\* A prefill is one of the protocol: the rows are new, and their length is
\* that of their prompts.
LEMMA PrefillUses ==
  ASSUME IInv, SchedulePrefill
  PROVE  Usage!Prefill(Queue) /\ Queue \in Usage!Batches
<1> USE DEF IInv
<1>1. /\ Admit /\ phase = "idle" /\ raised = "none" /\ ReadyForPrefill(Queue) /\ prefill' = Queue
      /\ phase' = "scheduled" /\ UNCHANGED <<input_len, output_len, decoding, running_bb>>
  BY DEF SchedulePrefill, Admit
<1>2. /\ Take(Queue, MaxBatchSize) = Queue /\ Queue # <<>> /\ Queue \in Seq(Rows) /\ Once(Queue)
      /\ Held(Queue) \subseteq Rows /\ Len(Queue) + Len(decoding) <= MaxBatchSize
  BY <1>1, ReadyFacts, QueueFacts, ListFacts
<1>3. /\ AllocateContextTables(Queue, Lens)
      /\ prefill_bb' = IF raised' = "none" THEN Queue ELSE <<>>
  BY <1>2 DEF SchedulePrefill
<1>4. Queue \in Usage!Batches
  BY <1>2, ListIsBatch
<1>5. /\ Held(prefill_bb) = {} /\ Held(running_bb) = Held(decoding) /\ Held(running_bb) \subseteq Rows
      /\ Usage!Active = Held(running_bb)
      /\ \A r \in Rows : Tokens[r] = IF r \in Held(running_bb)
                                     THEN (input_len[r] + output_len[r]) - 1 ELSE 0
  BY <1>1, RunnersHaveLength
<1>6. Held(Queue) \cap Held(decoding) = {} /\ \A r \in Held(Queue) : r \in Held(prefill) \cup Waiting
  BY <1>1, AdmitMoves DEF Waiting
<1>7. Cardinality(Held(running_bb) \cup Held(Queue)) <= MaxBatchSize
  <2>1. /\ IsFiniteSet(Held(decoding)) /\ Cardinality(Held(decoding)) = Len(decoding)
        /\ IsFiniteSet(Held(Queue)) /\ Cardinality(Held(Queue)) = Len(Queue)
        /\ Len(decoding) \in Nat /\ Len(Queue) \in Nat
    BY <1>2, CardOnce, ListFacts DEF Types, Apart
  <2>2. Cardinality(Held(decoding) \cup Held(Queue))
          = Cardinality(Held(decoding)) + Cardinality(Held(Queue))
            - Cardinality(Held(decoding) \cap Held(Queue))
    BY <2>1, FS_Union
  <2>3. Cardinality(Held(decoding) \cap Held(Queue)) = 0
    <3>1. Held(decoding) \cap Held(Queue) = {}
      BY <1>6
    <3> QED BY <3>1, FS_EmptySet
  <2> QED BY <1>2, <1>5, <2>1, <2>2, <2>3
<1>8. ASSUME NEW r \in Held(Queue)
      PROVE  Lens[r] \in 1 .. MaxInputLen /\ Lens[r] = input_len[r] + output_len[r]
  <2>1. r \in Rows /\ input_len[r] # 0 /\ output_len[r] = 0
    <3>1. CASE r \in Held(prefill)
      BY <1>1, <1>2, <3>1 DEF Stated, Admits
    <3>2. CASE r \in Waiting
      BY <1>2, <3>2 DEF Stated, Waits, Waiting
    <3> QED BY <1>6, <3>1, <3>2
  <2>2. input_len[r] \in 0 .. MaxInputLen
    BY <2>1 DEF Types
  <2>3. Lens[r] = input_len[r] + output_len[r]
    BY <2>1 DEF Lens
  <2> QED BY <2>1, <2>2, <2>3, HandlerAssumption
<1> DEFINE ctx == [r \in Held(Queue) |-> Lens[r]]
<1>9. ctx \in [Held(Queue) -> 1 .. MaxInputLen]
  BY <1>8
<1>10. AllocateContextTables(Queue, ctx)
  <2>1. \A r \in BatchRows(Queue) : ctx[r] = Lens[r]
    BY SameRest
  <2> HIDE DEF ctx
  <2> QED BY <1>3, <2>1, ContextReads
<1>11. Tokens' = [r \in Rows |-> IF r \in Held(Queue) /\ raised' = "none" THEN ctx[r] ELSE Tokens[r]]
  <2>1. ReadyForPrefill(prefill)'
    BY <1>1 DEF ReadyForPrefill
  <2>2. ASSUME NEW r \in Rows
        PROVE  Tokens'[r] = IF r \in Held(Queue) /\ raised' = "none" THEN ctx[r] ELSE Tokens[r]
    <3>1. Tokens'[r] = IF r \in Held(prefill_bb') \cup Held(running_bb)
                       THEN IF r \in Held(prefill_bb') THEN input_len[r] + output_len[r]
                            ELSE (input_len[r] + output_len[r]) - 1
                       ELSE 0
      BY <1>1, <2>1, TokensAre
    <3>2. Held(prefill_bb') = IF raised' = "none" THEN Held(Queue) ELSE {}
      BY <1>3, EmptyList
    <3>3. r \in Held(Queue) => ctx[r] = input_len[r] + output_len[r] /\ r \notin Held(running_bb)
      BY <1>5, <1>6, <1>8
    <3> HIDE DEF ctx
    <3> QED BY <1>5, <3>1, <3>2, <3>3
  <2> HIDE DEF ctx
  <2> QED BY <2>2 DEF Tokens
<1>12. Usage!AllocateContextTables(Queue, ctx)
  BY <1>10, SameContext
<1> HIDE DEF ctx
<1>13. Usage!BatchRows(Queue) = Held(Queue)
  BY SameRest
<1>14. Usage!Cardinality(Usage!Active \cup Held(Queue)) <= MaxBatchSize
  BY <1>5, <1>7, SameRest
<1>15. Held(Queue) \cap Usage!Active = {}
  BY <1>5, <1>6
<1> QED BY <1>1, <1>4, <1>9, <1>11, <1>12, <1>13, <1>14, <1>15 DEF Usage!Prefill, Tokens

\* A decoding step is one of the protocol: every running row has one token
\* more, and is not of full length.
LEMMA DecodeUses ==
  ASSUME IInv, ScheduleDecode
  PROVE  Usage!Decode(running_bb) /\ running_bb \in Usage!Batches
<1> USE DEF IInv
<1>1. /\ Admit /\ phase = "idle" /\ raised = "none" /\ Unfinished /\ ~ ReadyForPrefill(Queue)
      /\ prefill' = Queue /\ AllocateTokens(running_bb, Lens) /\ phase' = "scheduled"
      /\ UNCHANGED <<input_len, output_len, decoding, prefill_bb, running_bb>>
  BY DEF ScheduleDecode, Admit
<1>2. /\ prefill_bb = <<>> /\ Held(prefill_bb) = {} /\ Usage!Active = Held(running_bb)
      /\ Held(running_bb) \subseteq Rows /\ Held(running_bb) = Held(decoding)
      /\ \A r \in Rows : Tokens[r] = IF r \in Held(running_bb)
                                     THEN (input_len[r] + output_len[r]) - 1 ELSE 0
      /\ \A r \in Held(running_bb) : /\ Tokens[r] \in Nat
                                     /\ Tokens[r] + 1 < MaxInputLen + MaxOutputLen
  BY <1>1, RunnersHaveLength
<1>3. running_bb \in Seq(Rows) /\ Once(running_bb) /\ running_bb # <<>>
  <2>1. decoding # <<>>
    BY <1>1, ReadyFacts
  <2>2. decoding \in Seq(Rows) /\ running_bb \in Seq(Rows) /\ Once(running_bb)
    BY DEF Types, Apart
  <2> QED BY <1>2, <2>1, <2>2, ListFacts
<1>4. running_bb \in Usage!Batches
  BY <1>3, ListIsBatch
<1>5. \A r \in Rows : input_len[r] \in Int /\ output_len[r] \in Int
  BY HandlerAssumption DEF Types
<1>6. ASSUME NEW r \in Rows
      PROVE  /\ Tokens'[r] = IF r \in Held(running_bb) THEN Tokens[r] + 1 ELSE Tokens[r]
             /\ r \in Held(running_bb) => Tokens'[r] = Lens[r]
  <2>1. ~ ReadyForPrefill(prefill)'
    BY <1>1 DEF ReadyForPrefill
  <2>2. Tokens'[r] = IF r \in Held(running_bb) THEN input_len[r] + output_len[r] ELSE 0
    BY <1>1, <1>2, <2>1, TokensAre
  <2>3. Lens[r] = input_len[r] + output_len[r]
    BY DEF Lens
  <2> QED BY <1>2, <1>5, <2>2, <2>3
<1>7. Tokens' = [r \in Rows |-> IF r \in Held(running_bb) THEN Tokens[r] + 1 ELSE Tokens[r]]
  BY <1>6 DEF Tokens
<1>8. AllocateTokens(running_bb, Tokens')
  <2>1. \A r \in BatchRows(running_bb) : Lens[r] = Tokens'[r]
    BY <1>2, <1>6, SameRest
  <2> QED BY <1>1, <2>1, TokensReads
<1>9. Usage!AllocateTokens(running_bb, Tokens') /\ Usage!BatchRows(running_bb) = Held(running_bb)
  BY <1>8, SameTokens, SameRest
<1> QED BY <1>1, <1>2, <1>4, <1>7, <1>9 DEF Usage!Decode, Tokens

\* Nothing else changes the lengths.
LEMMA StaysAsItIs ==
  ASSUME UNCHANGED <<input_len, output_len, prefill, decoding, prefill_bb, running_bb, phase>>
  PROVE  Tokens' = Tokens
<1>1. ReadyForPrefill(prefill)' <=> ReadyForPrefill(prefill)
  BY DEF ReadyForPrefill
<1>2. \A r \in Rows : Tokens'[r] = Tokens[r]
  BY <1>1, TokensAre
<1> QED BY <1>2, TokensEqual

LEMMA AddUses ==
  ASSUME IInv, NEW r \in Rows, AddSequence(r)
  PROVE  Tokens' = Tokens /\ UNCHANGED kvVars
<1> USE DEF IInv
<1>1. /\ phase = "idle" /\ UNCHANGED kvVars
      /\ UNCHANGED <<output_len, prefill, decoding, prefill_bb, running_bb, phase>>
  BY DEF AddSequence
<1>2. r \notin Held(running_bb) /\ Held(prefill_bb) = {}
  BY <1>1, AddMoves, RunnersHaveLength DEF Running
<1>3. \A q \in Rows : q # r => input_len'[q] = input_len[q]
  BY DEF AddSequence, Types
<1>4. \A q \in Rows : Tokens'[q] = Tokens[q]
  <2>1. ASSUME NEW q \in Rows, q = r PROVE Tokens'[q] = Tokens[q]
    <3>1. q \notin Held(prefill_bb') \cup Held(running_bb') /\ q \notin Held(prefill_bb) \cup Held(running_bb)
      BY <1>1, <1>2, <2>1
    <3> QED BY <3>1, TokensAre
  <2>2. ASSUME NEW q \in Rows, q # r PROVE Tokens'[q] = Tokens[q]
    <3>1. input_len'[q] = input_len[q] /\ phase' # "scheduled" /\ phase # "scheduled"
      BY <1>1, <1>3, <2>2
    <3> QED BY <1>1, <3>1, TokensAre
  <2> QED BY <2>1, <2>2
<1> QED BY <1>1, <1>4, TokensEqual

\* The token that is appended is the one its position was asked for.
LEMMA ForwardUses ==
  ASSUME IInv, Forward
  PROVE  Tokens' = Tokens /\ UNCHANGED kvVars
<1> USE DEF IInv
<1>1. /\ phase = "scheduled" /\ raised = "none" /\ phase' = "appended" /\ UNCHANGED kvVars
      /\ UNCHANGED <<input_len, waiting, prefill, decoding, prefill_bb, running_bb>>
      /\ output_len' = [r \in Rows |-> output_len[r] + IF r \in Held(Batch) THEN 1 ELSE 0]
  BY DEF Forward, listVars
<1>2. Held(Batch) = IF prefill_bb # <<>> THEN Held(prefill_bb) ELSE Held(running_bb)
  BY DEF Batch
<1>3. prefill_bb = <<>> <=> ~ ReadyForPrefill(prefill)
  BY <1>1 DEF Batched
<1>4. prefill_bb = <<>> => Held(prefill_bb) = {}
  BY EmptyList
<1>5. ASSUME NEW r \in Rows PROVE Tokens'[r] = Tokens[r]
  <2> DEFINE x == input_len[r]
             y == output_len[r]
             z == output_len'[r]
             P == r \in Held(prefill_bb)
             R == r \in Held(running_bb)
             E == prefill_bb = <<>>
  <2>1. x \in Int /\ y \in Int /\ z = y + IF r \in Held(Batch) THEN 1 ELSE 0
    BY <1>1, HandlerAssumption DEF Types
  <2>2. z = y + IF E THEN IF R THEN 1 ELSE 0 ELSE IF P THEN 1 ELSE 0
    BY <1>2, <2>1
  <2>3. E => ~ P
    BY <1>4
  <2>4. Tokens[r] = IF P \/ R THEN IF P \/ E THEN x + y ELSE (x + y) - 1 ELSE 0
    BY <1>1, <1>3, TokensAre
  <2>5. Tokens'[r] = IF P \/ R THEN (x + z) - 1 ELSE 0
    BY <1>1, TokensAre
  <2> HIDE DEF x, y, z, P, R, E
  <2> QED BY <2>1, <2>2, <2>3, <2>4, <2>5
<1> QED BY <1>1, <1>5, TokensEqual

\* The manager's variables are functions of blocks and cells to the last.
LEMMA FreeNothing ==
  ASSUME Shapes, FreeTables({})
  PROVE  UNCHANGED kvVars
<1>1. Walked({}) = {}
  BY DEF Walked
<1>2. \A b \in Blocks : Cardinality({c \in Walked({}) : At(c) = b}) = 0
  <2>1. \A b \in Blocks : {c \in Walked({}) : At(c) = b} = {}
    BY <1>1
  <2> QED BY <2>1, FS_EmptySet
<1>3. \A b \in Blocks : ref_count[b] \in Nat
  BY DEF Shapes
<1> DEFINE drop(b) == Cardinality({c \in Walked({}) : At(c) = b})
           freed == {b \in Blocks : drop(b) > 0 /\ ref_count[b] = drop(b)}
<1>4. freed = {} /\ Cardinality(freed) = 0 /\ ~ \E b \in Blocks : drop(b) > ref_count[b]
  <2>1. \A b \in Blocks : drop(b) = 0
    BY <1>2
  <2> HIDE DEF drop
  <2>2. freed = {} /\ ~ \E b \in Blocks : drop(b) > ref_count[b]
    BY <1>3, <2>1
  <2> QED BY <2>2, FS_EmptySet
<1>5. /\ block_table' = [r \in Rows |-> [k \in Cols |->
             IF <<r, k>> \in Walked({}) /\ block_table[r][k] \in freed
             THEN NoBlock ELSE block_table[r][k]]]
      /\ Reclaim(freed) /\ ref_count' = [b \in Blocks |-> ref_count[b] - drop(b)] /\ UNCHANGED raised
  <2> HIDE DEF drop, freed
  <2> QED BY <1>4 DEF FreeTables, drop, freed
<1>6. block_table' = block_table
  <2> HIDE DEF freed
  <2>1. block_table' = [r \in Rows |-> [k \in Cols |-> block_table[r][k]]]
    BY <1>4, <1>5
  <2> QED BY <2>1 DEF Shapes
<1>7. ref_count' = ref_count
  <2>1. \A b \in Blocks : ref_count[b] - drop(b) = ref_count[b]
    BY <1>2, <1>3
  <2> HIDE DEF drop
  <2> QED BY <1>5, <2>1 DEF Shapes
<1>8. UNCHANGED <<block_states, available_blocks, allocated_size>>
  <2> HIDE DEF freed
  <2>1. /\ block_states' = [b \in Blocks |-> block_states[b] \/ b \in freed]
        /\ available_blocks' = available_blocks + Cardinality(freed)
        /\ allocated_size' = [b \in Blocks |-> IF b \in freed THEN 0 ELSE allocated_size[b]]
    BY <1>5 DEF Reclaim
  <2>2. block_states' = block_states
    BY <1>4, <2>1 DEF Shapes
  <2>3. available_blocks' = available_blocks
    BY <1>4, <2>1 DEF Shapes
  <2>4. allocated_size' = allocated_size
    BY <1>4, <2>1 DEF Shapes
  <2> QED BY <2>2, <2>3, <2>4
<1> QED BY <1>5, <1>6, <1>7, <1>8 DEF kvVars

\* An update frees the tables of the finished requests, which have blocks.
LEMMA UpdateUses ==
  ASSUME IInv, Shapes, Update
  PROVE  \/ Tokens' = Tokens /\ UNCHANGED kvVars
         \/ Usage!Finish(Finished) /\ Finished \in SUBSET Rows
<1> USE DEF IInv
<1>1. /\ phase = "appended" /\ raised = "none" /\ phase' = "idle"
      /\ UNCHANGED <<status, input_len, output_len, waiting>>
  BY DEF Update
<1>2. /\ Held(running_bb') = (Held(decoding) \cup Held(prefill_bb)) \ Finished
      /\ prefill_bb' = <<>> /\ Held(prefill_bb') = {} /\ FreeTables(Finished)
      /\ Held(running_bb) = Held(decoding) /\ Held(prefill_bb) \subseteq Held(prefill)
  BY UpdateMoves, UpdateRuns, EmptyList DEF Batched
<1>3. Finished \subseteq Held(running_bb) \cup Held(prefill_bb) /\ Finished \in SUBSET Rows
  BY <1>2, ListFacts DEF Finished, Types
<1>4. ASSUME NEW r \in Rows
      PROVE  /\ Tokens'[r] = IF r \in Finished THEN 0 ELSE Tokens[r]
             /\ r \in Finished => Tokens[r] > 0
  <2>1. /\ Tokens[r] = IF r \in Held(prefill_bb) \cup Held(running_bb)
                       THEN (input_len[r] + output_len[r]) - 1 ELSE 0
        /\ Tokens'[r] = IF r \in Held(running_bb')
                        THEN (input_len[r] + output_len[r]) - 1 ELSE 0
    BY <1>1, <1>2, TokensAre
  <2>2. Tokens'[r] = IF r \in Finished THEN 0 ELSE Tokens[r]
    BY <1>2, <1>3, <2>1
  <2>3. ASSUME r \in Finished PROVE Tokens[r] > 0
    <3>1. input_len[r] # 0 /\ output_len[r] # 0
      <4>1. CASE r \in Held(decoding)
        BY <4>1 DEF Stated, Decodes
      <4>2. CASE r \in Held(prefill_bb)
        BY <1>1, <1>2, <4>2 DEF Stated, Admits
      <4> QED BY <1>2, <1>3, <2>3, <4>1, <4>2
    <3>2. input_len[r] \in Nat /\ output_len[r] \in Nat
      BY HandlerAssumption DEF Types
    <3>3. Tokens[r] = (input_len[r] + output_len[r]) - 1
      BY <1>3, <2>1, <2>3
    <3> QED BY <3>1, <3>2, <3>3
  <2> QED BY <2>2, <2>3
<1>5. CASE Finished = {}
  <2>1. \A r \in Rows : Tokens'[r] = Tokens[r]
    BY <1>4, <1>5
  <2> QED BY <1>2, <1>5, <2>1, TokensEqual, FreeNothing
<1>6. CASE Finished # {}
  <2>1. Finished \subseteq Usage!Active
    BY <1>3, <1>4, SameRest
  <2>2. Usage!FreeTables(Finished)
    BY <1>2, SameFree
  <2>3. Tokens' = [r \in Rows |-> IF r \in Finished THEN 0 ELSE Tokens[r]]
    BY <1>4 DEF Tokens
  <2>4. Usage!Finish(Finished)
    BY <1>1, <1>6, <2>1, <2>2, <2>3 DEF Usage!Finish, Tokens
  <2> QED BY <1>3, <2>4
<1> QED BY <1>5, <1>6

LEMMA CellsAreFinite ==
  ASSUME NEW S, S \subseteq Rows \X Cols
  PROVE  IsFiniteSet(S) /\ Cardinality(S) \in Nat
<1>1. IsFiniteSet(Rows) /\ IsFiniteSet(Cols)
  <2>1. 0 \in Int /\ MaxBlocksPerSeq - 1 \in Int
    BY KVAssumption
  <2> QED BY <2>1, FS_Interval, KVAssumption DEF Cols
<1>2. IsFiniteSet(Rows \X Cols)
  BY <1>1, FS_Product
<1>3. S \in SUBSET (Rows \X Cols)
  OBVIOUS
<1>4. IsFiniteSet(S)
  BY <1>2, <1>3, FS_Subset
<1> QED BY <1>4, FS_CardinalityType

LEMMA PlaceShapes ==
  ASSUME Shapes, NEW S, S \subseteq Rows \X Cols, NEW f, Place(S, f)
  PROVE  /\ block_states' \in [Blocks -> BOOLEAN] /\ available_blocks' \in Int
         /\ ref_count' \in [Blocks -> Nat]
         /\ block_table' = [r \in Rows |-> [k \in Cols |-> block_table'[r][k]]]
<1> DEFINE img == {f[c] : c \in S}
<1>1. /\ block_table' = [r \in Rows |-> [k \in Cols |->
                           IF <<r, k>> \in S THEN f[<<r, k>>] ELSE block_table[r][k]]]
      /\ block_states' = [b \in Blocks |-> block_states[b] /\ b \notin img]
      /\ available_blocks' = available_blocks - Cardinality(S)
      /\ ref_count' = [b \in Blocks |-> ref_count[b] + IF b \in img THEN 1 ELSE 0]
  BY DEF Place
<1> HIDE DEF img
<1>2. available_blocks' \in Int
  BY <1>1, CellsAreFinite DEF Shapes
<1>3. block_states' \in [Blocks -> BOOLEAN]
  BY <1>1 DEF Shapes
<1>4. ref_count' \in [Blocks -> Nat]
  BY <1>1 DEF Shapes
<1>5. block_table' = [r \in Rows |-> [k \in Cols |-> block_table'[r][k]]]
  <2> DEFINE g(r) == [k \in Cols |-> IF <<r, k>> \in S THEN f[<<r, k>>] ELSE block_table[r][k]]
  <2>1. \A r \in Rows : g(r) = [k \in Cols |-> g(r)[k]]
    OBVIOUS
  <2>2. block_table' = [r \in Rows |-> g(r)]
    BY <1>1
  <2> HIDE DEF g
  <2> QED BY <2>1, <2>2
<1> QED BY <1>2, <1>3, <1>4, <1>5

LEMMA OccupyShapes ==
  ASSUME Shapes, NEW S, NEW asked, \A c \in S : asked[c] \in Int, Occupy(S, asked)
  PROVE  allocated_size' \in [Blocks -> Int]
<1> DEFINE on(b) == {c \in S : block_table'[c[1]][c[2]] = b}
           room(b) == BlockSize - allocated_size[b]
           n(b) == asked[CHOOSE c \in on(b) : TRUE]
           take(b) == IF n(b) <= room(b) THEN n(b) ELSE room(b)
<1>1. allocated_size' = [b \in Blocks |->
                           allocated_size[b] + IF on(b) = {} THEN 0 ELSE take(b)]
  BY DEF Occupy
<1>2. ASSUME NEW b \in Blocks PROVE allocated_size[b] + (IF on(b) = {} THEN 0 ELSE take(b)) \in Int
  <2>1. allocated_size[b] \in Int /\ BlockSize \in Int
    BY KVAssumption DEF Shapes
  <2>2. on(b) # {} => n(b) \in Int
    <3> SUFFICES ASSUME on(b) # {} PROVE n(b) \in Int
      OBVIOUS
    <3>1. (CHOOSE c \in on(b) : TRUE) \in on(b)
      <4> HIDE DEF on
      <4> QED OBVIOUS
    <3>2. (CHOOSE c \in on(b) : TRUE) \in S
      BY <3>1
    <3> QED BY <3>2
  <2>3. room(b) \in Int
    BY <2>1
  <2>4. on(b) # {} => take(b) \in Int
    <3> HIDE DEF on, n, room
    <3> QED BY <2>2, <2>3
  <2> HIDE DEF on, take
  <2> QED BY <2>1, <2>4
<1> HIDE DEF on, take
<1> QED BY <1>1, <1>2

LEMMA ContextShapes ==
  ASSUME Shapes, NEW rs, Held(rs) \subseteq Rows, NEW ctx, \A r \in Held(rs) : ctx[r] \in Int,
         AllocateContextTables(rs, ctx)
  PROVE  Shapes'
<1> DEFINE S == ContextCells(rs, ctx)
           n == Cardinality(S)
<1>1. S \subseteq Rows \X Cols /\ \A c \in S : c[1] \in Held(rs)
  BY SameRest DEF ContextCells
<1>2. \A c \in S : ContextAsked(S, ctx)[c] \in Int
  <2>1. \A c \in S : ctx[c[1]] % BlockSize \in Int /\ BlockSize \in Int
    BY <1>1, KVAssumption
  <2> HIDE DEF S
  <2> QED BY <2>1 DEF ContextAsked
<1>3. \/ UNCHANGED <<block_states, available_blocks, ref_count, allocated_size, block_table>>
      \/ (\E f : Place(S, f)) /\ Occupy(S, ContextAsked(S, ctx))
  <2>1. \/ n > available_blocks /\ UNCHANGED kvVars
        \/ n <= available_blocks /\ FreeRuns(n) = {} /\ Fail("Fragmented")
        \/ /\ n <= available_blocks
           /\ \E s \in FreeRuns(n) :
                /\ \A t \in FreeRuns(n) : s <= t
                /\ Place(S, [c \in S |-> s + Rank(rs, c, S)])
           /\ Occupy(S, ContextAsked(S, ctx))
    BY DEF AllocateContextTables
  <2> HIDE DEF S, n
  <2> QED BY <2>1 DEF Fail, kvVars
<1> HIDE DEF S
<1>4. CASE UNCHANGED <<block_states, available_blocks, ref_count, allocated_size, block_table>>
  BY <1>4 DEF Shapes
<1>5. CASE (\E f : Place(S, f)) /\ Occupy(S, ContextAsked(S, ctx))
  <2>1. allocated_size' \in [Blocks -> Int]
    BY <1>2, <1>5, OccupyShapes
  <2> QED BY <1>1, <1>5, <2>1, PlaceShapes DEF Shapes
<1> QED BY <1>3, <1>4, <1>5

LEMMA TokensShapes ==
  ASSUME Shapes, NEW rs, Held(rs) \subseteq Rows, NEW lens, AllocateTokens(rs, lens)
  PROVE  Shapes'
<1> DEFINE S == TokenCells(rs, lens)
           need == {c \in S : At(c) = NoBlock}
           one == [c \in S |-> 1]
<1>1. S \subseteq Rows \X Cols /\ need \subseteq Rows \X Cols
  BY SameRest DEF TokenCells
<1>2. \A c \in S : one[c] \in Int
  OBVIOUS
<1>3. \/ UNCHANGED <<block_states, available_blocks, ref_count, allocated_size, block_table>>
      \/ (\E f : Place(need, f)) /\ Occupy(S, one)
  <2> HIDE DEF S, need, one
  <2> QED BY DEF AllocateTokens, Fail, S, need, one
<1> HIDE DEF S, need, one
<1>4. CASE UNCHANGED <<block_states, available_blocks, ref_count, allocated_size, block_table>>
  BY <1>4 DEF Shapes
<1>5. CASE (\E f : Place(need, f)) /\ Occupy(S, one)
  <2>1. allocated_size' \in [Blocks -> Int]
    BY <1>2, <1>5, OccupyShapes
  <2> QED BY <1>1, <1>5, <2>1, PlaceShapes DEF Shapes
<1> QED BY <1>3, <1>4, <1>5

LEMMA FreeShapes ==
  ASSUME Shapes, NEW R, R \subseteq Rows, FreeTables(R)
  PROVE  Shapes'
<1> DEFINE walked == Walked(R)
           drop(b) == Cardinality({c \in walked : At(c) = b})
           freed == {b \in Blocks : drop(b) > 0 /\ ref_count[b] = drop(b)}
<1>1. ASSUME NEW b \in Blocks PROVE drop(b) \in Nat
  <2>1. {c \in walked : At(c) = b} \subseteq Rows \X Cols
    BY DEF Walked
  <2> QED BY <2>1, CellsAreFinite
<1>2. Cardinality(freed) \in Nat
  <2>1. freed \in SUBSET Blocks
    OBVIOUS
  <2>2. IsFiniteSet(Blocks)
    <3>1. 0 \in Int /\ NumBlocks - 1 \in Int
      BY KVAssumption
    <3> QED BY <3>1, FS_Interval DEF Blocks
  <2> HIDE DEF freed
  <2> QED BY <2>1, <2>2, FS_Subset, FS_CardinalityType
<1>3. CASE \E b \in Blocks : drop(b) > ref_count[b]
  <2>1. Fail("NoReference")
    BY <1>3 DEF FreeTables
  <2> QED BY <2>1 DEF Fail, Shapes
<1>4. CASE ~ \E b \in Blocks : drop(b) > ref_count[b]
  <2> DEFINE g(r) == [k \in Cols |-> IF <<r, k>> \in walked /\ block_table[r][k] \in freed
                                     THEN NoBlock ELSE block_table[r][k]]
  <2>1. /\ block_table' = [r \in Rows |-> g(r)]
        /\ Reclaim(freed) /\ ref_count' = [b \in Blocks |-> ref_count[b] - drop(b)]
    BY <1>4 DEF FreeTables
  <2>2. \A r \in Rows : g(r) = [k \in Cols |-> g(r)[k]]
    OBVIOUS
  <2> HIDE DEF g, freed, drop
  <2>3. block_table' = [r \in Rows |-> [k \in Cols |-> block_table'[r][k]]]
    BY <2>1, <2>2
  <2>4. ref_count' \in [Blocks -> Nat]
    <3>1. \A b \in Blocks : ref_count[b] - drop(b) \in Nat
      BY <1>1, <1>4 DEF Shapes
    <3> QED BY <2>1, <3>1
  <2>5. /\ block_states' \in [Blocks -> BOOLEAN] /\ available_blocks' \in Int
        /\ allocated_size' \in [Blocks -> Int]
    BY <1>2, <2>1 DEF Reclaim, Shapes
  <2> QED BY <2>3, <2>4, <2>5 DEF Shapes
<1> QED BY <1>3, <1>4

LEMMA ShapesKeep ==
  ASSUME IInv, Shapes, [Next]_vars
  PROVE  Shapes'
<1> USE DEF IInv
<1>1. CASE UNCHANGED kvVars
  BY <1>1 DEF kvVars, Shapes
<1>2. CASE SchedulePrefill
  <2>1. Take(Queue, MaxBatchSize) = Queue /\ Queue \in Seq(Rows)
    BY <1>2, ReadyFacts, QueueFacts DEF SchedulePrefill, Admit
  <2>2. AllocateContextTables(Queue, Lens) /\ Held(Queue) \subseteq Rows
    BY <1>2, <2>1, ListFacts DEF SchedulePrefill
  <2>3. \A r \in Rows : Lens[r] \in Int
    BY HandlerAssumption DEF Lens, Types
  <2> QED BY <2>2, <2>3, ContextShapes
<1>3. CASE ScheduleDecode
  <2>1. AllocateTokens(running_bb, Lens) /\ Held(running_bb) \subseteq Rows
    BY <1>3, ListFacts DEF ScheduleDecode, Types
  <2> QED BY <2>1, TokensShapes
<1>4. CASE Update
  <2>1. FreeTables(Finished) /\ Finished \subseteq Rows
    BY <1>4, UpdateMoves, ListFacts DEF Finished, Types
  <2> QED BY <2>1, FreeShapes
<1>5. CASE UNCHANGED vars
  BY <1>5 DEF vars, Shapes
<1>6. CASE \E r \in Rows : AddSequence(r) \/ AbortWaiting(r) \/ AbortRunning(r)
  BY <1>1, <1>6 DEF AddSequence, AbortWaiting, AbortRunning
<1>7. CASE Forward
  BY <1>1, <1>7 DEF Forward
<1> QED BY <1>2, <1>3, <1>4, <1>5, <1>6, <1>7 DEF Next, Step

LEMMA ProtocolStep ==
  ASSUME IInv, Shapes, [Next]_vars
  PROVE  [Usage!Next]_(Usage!vars)
<1>1. ASSUME Tokens' = Tokens, UNCHANGED kvVars PROVE UNCHANGED Usage!vars
  BY <1>1 DEF kvVars, Usage!vars, Tokens
<1>2. CASE SchedulePrefill
  BY <1>2, PrefillUses DEF Usage!Next
<1>3. CASE ScheduleDecode
  BY <1>3, DecodeUses DEF Usage!Next
<1>4. CASE Update
  BY <1>1, <1>4, UpdateUses DEF Usage!Next
<1>5. CASE Forward
  BY <1>1, <1>5, ForwardUses
<1>6. ASSUME NEW r \in Rows, AddSequence(r) PROVE UNCHANGED Usage!vars
  BY <1>1, <1>6, AddUses
<1>7. ASSUME NEW r \in Rows, AbortWaiting(r) \/ AbortRunning(r) PROVE UNCHANGED Usage!vars
  <2>1. /\ UNCHANGED <<input_len, output_len, prefill, decoding, prefill_bb, running_bb, phase>>
        /\ UNCHANGED kvVars
    BY <1>7 DEF AbortWaiting, AbortRunning, listVars
  <2> QED BY <1>1, <2>1, StaysAsItIs
<1>8. CASE UNCHANGED vars
  <2>1. /\ UNCHANGED <<input_len, output_len, prefill, decoding, prefill_bb, running_bb, phase>>
        /\ UNCHANGED kvVars
    BY <1>8 DEF vars, listVars, kvVars
  <2> QED BY <1>1, <2>1, StaysAsItIs
<1> QED BY <1>2, <1>3, <1>4, <1>5, <1>6, <1>7, <1>8 DEF Next, Step

\* Whatever requests come and go, the handler uses the cache manager as the
\* manager's documentation says: prompts of new rows, one position at a time
\* for running rows below full length, and finished rows given back.
THEOREM HandlerKeepsProtocol == Spec => KeepsProtocol
<1>1. Init => Shapes
  <2> SUFFICES ASSUME Init PROVE Shapes
    OBVIOUS
  <2>1. NumBlocks \in Int
    BY KVAssumption
  <2>2. \A r \in Rows : block_table[r] = [k \in Cols |-> NoBlock]
    BY DEF Init, KVInit, EmptyTable
  <2>3. block_table = [r \in Rows |-> [k \in Cols |-> block_table[r][k]]]
    BY <2>2 DEF Init, KVInit, EmptyTable
  <2> QED BY <2>1, <2>3 DEF Init, KVInit, Shapes
<1>2. Init => Usage!Init
  <2> SUFFICES ASSUME Init PROVE Usage!Init
    OBVIOUS
  <2>1. Held(prefill_bb) = {} /\ Held(running_bb) = {}
    BY EmptyList DEF Init
  <2>2. Tokens = [r \in Rows |-> 0]
    BY <2>1 DEF Tokens, HasBlocks
  <2> QED BY <2>2, SameRest DEF Init, Usage!Init, Tokens
<1>3. Spec => []Shapes
  BY <1>1, ShapesKeep, Invariant, PTL DEF Spec
<1>4. IInv /\ Shapes /\ [Next]_vars => [Usage!Next]_(Usage!vars)
  BY ProtocolStep
<1> QED BY <1>2, <1>3, <1>4, Invariant, PTL DEF Spec, KeepsProtocol, Usage!Spec

-----------------------------------------------------------------------------
(* What is proved of the manager under its protocol holds in the engine.   *)

Manager == INSTANCE KVCacheProofs
             WITH len <- [r \in Rows |-> IF HasBlocks(r) THEN Asked(r) ELSE 0]

LEMMA ManagerPrefill ==
  ASSUME NEW rs, Usage!Prefill(rs)
  PROVE  Manager!Prefill(rs)
BY DEF Usage!Prefill, Manager!Prefill, Usage!AllocateContextTables, Manager!AllocateContextTables,
       Usage!Blocks, Manager!Blocks, Usage!Fail, Manager!Fail, Usage!FreeRuns, Manager!FreeRuns,
       Usage!Cols, Manager!Cols, Usage!NoBlock, Manager!NoBlock, Usage!ContextCells,
       Manager!ContextCells, Usage!BatchRows, Manager!BatchRows, Usage!BlocksFor, Manager!BlocksFor,
       Usage!Place, Manager!Place, Usage!Occupy, Manager!Occupy, Usage!ContextAsked,
       Manager!ContextAsked, Usage!Rank, Manager!Rank, Usage!Before, Manager!Before, Usage!Pos,
       Manager!Pos, Usage!kvVars, Manager!kvVars, Usage!Cardinality, Manager!Cardinality,
       Usage!Active, Manager!Active

LEMMA ManagerDecode ==
  ASSUME NEW rs, Usage!Decode(rs)
  PROVE  Manager!Decode(rs)
BY DEF Usage!Decode, Manager!Decode, Usage!AllocateTokens, Manager!AllocateTokens, Usage!TokenCells,
       Manager!TokenCells, Usage!TokenCol, Manager!TokenCol, Usage!Blocks, Manager!Blocks,
       Usage!Fail, Manager!Fail, Usage!Free, Manager!Free, Usage!Ith, Manager!Ith, Usage!At,
       Manager!At, Usage!Cols, Manager!Cols, Usage!NoBlock, Manager!NoBlock, Usage!BatchRows,
       Manager!BatchRows, Usage!Place, Manager!Place, Usage!Occupy, Manager!Occupy, Usage!Rank,
       Manager!Rank, Usage!Before, Manager!Before, Usage!Pos, Manager!Pos, Usage!Cardinality,
       Manager!Cardinality, Usage!Active, Manager!Active

LEMMA ManagerFinish ==
  ASSUME NEW R, Usage!Finish(R)
  PROVE  Manager!Finish(R)
BY DEF Usage!Finish, Manager!Finish, Usage!FreeTables, Manager!FreeTables, Usage!Walked,
       Manager!Walked, Usage!Blocks, Manager!Blocks, Usage!Fail, Manager!Fail, Usage!Reclaim,
       Manager!Reclaim, Usage!Cols, Manager!Cols, Usage!NoBlock, Manager!NoBlock, Usage!At,
       Manager!At, Usage!Cardinality, Manager!Cardinality, Usage!Active, Manager!Active

LEMMA ManagerClear ==
  ASSUME Usage!Clear
  PROVE  Manager!Clear
BY DEF Usage!Clear, Manager!Clear, Usage!ClearAll, Manager!ClearAll, Usage!Blocks, Manager!Blocks,
       Usage!EmptyTable, Manager!EmptyTable, Usage!Cols, Manager!Cols, Usage!NoBlock,
       Manager!NoBlock

LEMMA ManagerSpec == Usage!Spec => Manager!Spec
<1>1. Usage!Init => Manager!Init
  BY DEF Usage!Init, Manager!Init, Usage!KVInit, Manager!KVInit, Usage!Blocks, Manager!Blocks,
         Usage!EmptyTable, Manager!EmptyTable, Usage!Cols, Manager!Cols, Usage!NoBlock,
         Manager!NoBlock
<1>2. [Usage!Next]_(Usage!vars) => [Manager!Next]_(Manager!vars)
  <2> SUFFICES ASSUME [Usage!Next]_(Usage!vars) PROVE [Manager!Next]_(Manager!vars)
    OBVIOUS
  <2>1. Usage!Batches = Manager!Batches
    BY DEF Usage!Batches, Manager!Batches, Usage!Cardinality, Manager!Cardinality
  <2>2. CASE UNCHANGED Usage!vars
    BY <2>2 DEF Usage!vars, Manager!vars
  <2>3. CASE Usage!Next
    BY <2>1, <2>3, ManagerPrefill, ManagerDecode, ManagerFinish, ManagerClear
       DEF Usage!Next, Manager!Next
  <2> QED BY <2>2, <2>3
<1> QED BY <1>1, <1>2, PTL DEF Usage!Spec, Manager!Spec

\* Every request in a batch has the blocks its tokens are in, whatever was
\* scheduled, merged and popped before; no other request has one, and no two
\* have the same: as the engine sizes the cache, and for blocks of two tokens
\* or more.
THEOREM RequestsOwnTheirBlocks ==
  ASSUME BlockSize > 1, Usage!UsageAssumption, Usage!NobodyAssumption
  PROVE  Spec => []OwnBlocks
<1>1. /\ Manager!KVAssumption /\ Manager!UsageAssumption /\ Manager!NobodyAssumption
  BY KVAssumption DEF Manager!KVAssumption, Manager!IsFiniteSet, IsFiniteSet,
     Usage!UsageAssumption, Manager!UsageAssumption, Usage!BlocksFor, Manager!BlocksFor,
     Usage!NobodyAssumption, Manager!NobodyAssumption
<1>2. Manager!Spec => []Manager!NoSharing
  BY <1>1, Manager!NeverShared
<1>3. Manager!Spec => []Manager!Backed
  BY <1>1, Manager!AlwaysBacked
<1>4. Manager!Spec => []Manager!OnlyFragmentation
  BY <1>1, Manager!NeverLacking
<1>5. Manager!NoSharing /\ Manager!Backed /\ Manager!OnlyFragmentation => OwnBlocks
  <2> SUFFICES ASSUME Manager!NoSharing, Manager!Backed, Manager!OnlyFragmentation PROVE OwnBlocks
    OBVIOUS
  <2>1. NoSharing
    BY DEF NoSharing, Manager!NoSharing, Cells, Manager!Cells, At, Manager!At, Cols, Manager!Cols,
           NoBlock, Manager!NoBlock
  <2>2. raised \in {"none", "Fragmented"}
    BY DEF Manager!OnlyFragmentation
  <2>3. \A n : Manager!BlocksFor(n) = BlocksFor(n) /\ Manager!TokenCol(n) = TokenCol(n)
    BY DEF Manager!BlocksFor, BlocksFor, Manager!TokenCol, TokenCol
  <2>4. Manager!Cols = Cols /\ Manager!NoBlock = NoBlock
    BY DEF Manager!Cols, Cols, Manager!NoBlock, NoBlock
  <2>5. ASSUME NEW r \in Rows, NEW k \in Cols
        PROVE  /\ k < BlocksFor(Tokens[r]) => block_table[r][k] # NoBlock
               /\ Tokens[r] = 0 => block_table[r][k] = NoBlock
    BY <2>3, <2>4 DEF Manager!Backed, Tokens
  <2>6. \A r \in Rows : Tokens[r] = IF HasBlocks(r) THEN Asked(r) ELSE 0
    BY DEF Tokens
  <2> QED BY <2>1, <2>2, <2>5, <2>6 DEF OwnBlocks
<1>6. Spec => Usage!Spec
  BY HandlerKeepsProtocol DEF KeepsProtocol
<1> QED BY <1>2, <1>3, <1>4, <1>5, <1>6, ManagerSpec, PTL

-----------------------------------------------------------------------------
(* The asynchronous engine, over any batcher and for any calls, ids and    *)
(* batch size: nobody who waits is forgotten (but for twins), and no       *)
(* answer changes.                                                         *)

\* The inductive invariant: a caller that waits is safe only because the
\* engine's requests are registered, and the other way round.
AsyncInv == TypeOK /\ NoOrphan /\ EngineKnown

\* The step of the invariant uses the calls' assumption throughout.
LEMMA IdType == \A c \in Calls : IdOf[c] \in Requests /\ c # NoCall
  BY CallsAssumption

-----------------------------------------------------------------------------
\* A set of places of a sequence has a last one.
LEMMA LastPlace ==
  ASSUME NEW n \in Nat, NEW T \in SUBSET (1 .. n), T # {}
  PROVE  \E i \in T : \A j \in T : j <= i
  <1> DEFINE U == {n - t : t \in T}
  <1>1. U \subseteq Nat /\ U # {}
    <2>1. \A t \in T : n - t \in Nat
      OBVIOUS
    <2> QED BY <2>1
  <1>2. PICK x \in U : \A y \in U : ~ (<<y, x>> \in OpToRel(<, Nat))
    BY <1>1, NatLessThanWellFounded, WFMin
  <1>3. \A y \in U : ~ (y < x)
    BY <1>1, <1>2 DEF OpToRel
  <1>4. PICK i \in T : x = n - i
    OBVIOUS
  <1>5. \A j \in T : j <= i
    <2> TAKE j \in T
    <2>1. n - j \in U
      OBVIOUS
    <2> QED BY <2>1, <1>3, <1>4
  <1> QED BY <1>5

\* After get_new_requests an id is registered to what it was, if no fresh
\* request has it, or else to a call of the queue with that id.
LEMMA DrainRegisters ==
  ASSUME TypeOK, NEW id \in Requests
  PROVE  IF PlacesOf(id) \cap Fresh = {} THEN StreamsOfDrain[id] = streams[id]
         ELSE \E i \in PlacesOf(id) : StreamsOfDrain[id] = queue[i]
  <1>1. CASE PlacesOf(id) \cap Fresh = {}
    BY <1>1 DEF StreamsOfDrain
  <1>2. CASE PlacesOf(id) \cap Fresh # {}
    <2>1. Len(queue) \in Nat /\ PlacesOf(id) \in SUBSET (1 .. Len(queue))
      BY DEF PlacesOf, TypeOK
    <2>2. \E i \in PlacesOf(id) : \A j \in PlacesOf(id) : j <= i
      BY <1>2, <2>1, LastPlace
    <2> QED BY <1>2, <2>2 DEF StreamsOfDrain
  <1> QED BY <1>1, <1>2

\* Every call of the queue is a call, and every place of an id has that id.
LEMMA QueueType ==
  ASSUME TypeOK
  PROVE  \A i \in DOMAIN queue : queue[i] \in Calls /\ IdOf[queue[i]] \in Requests
  BY IdType DEF TypeOK

\* NewIds are ids of fresh requests; if all are acceptable, they are all.
LEMMA NewIdsFresh ==
  ASSUME TypeOK
  PROVE  /\ NewIds \subseteq {IdOf[queue[i]] : i \in Fresh}
         /\ AllAcceptable => \A i \in Fresh : IdOf[queue[i]] \in NewIds
         /\ NewIds \subseteq Requests
  BY QueueType DEF NewIds, AllAcceptable, Fresh

-----------------------------------------------------------------------------
LEMMA AsyncInvAtFirst == AsyncInit => AsyncInv
  <1> SUFFICES ASSUME AsyncInit PROVE AsyncInv
    OBVIOUS
  <1>1. TypeOK
    <2>1. queue \in Seq(Calls) /\ (stepping <=> loop = "running")
      BY DEF AsyncInit, BatcherInit
    <2> QED BY <2>1 DEF AsyncInit, BatcherInit, TypeOK
  <1>2. NoOrphan
    BY DEF AsyncInit, NoOrphan
  <1>3. EngineKnown
    BY DEF AsyncInit, BatcherInit, EngineKnown, InEngine
  <1> QED BY <1>1, <1>2, <1>3 DEF AsyncInv

\* What every beginning of a step does to the streams and the answers.
LEMMA DrainKeeps ==
  ASSUME AsyncInv, Drain
  PROVE  /\ queue' \in Seq(Calls) /\ queue' = <<>> /\ finished_ids' \subseteq Requests
         /\ streams' \in [Requests -> Calls \cup {NoCall}]
         /\ answer' \in [Calls -> {"none", "pending"} \cup Final]
         /\ event' \in BOOLEAN
         /\ loop \in {"ready", "parked"} /\ ~ stepping
         /\ \A id \in Requests : streams[id] # NoCall => streams'[id] # NoCall
         /\ \A i \in Fresh : streams'[IdOf[queue[i]]] # NoCall
         /\ \A c \in Calls : answer'[c] = "pending" =>
              \/ streams'[IdOf[c]] = c
                 /\ (IdOf[c] \in InEngine \/ \E i \in Fresh : queue[i] = c)
              \/ \E d \in Calls \ {c} : IdOf[d] = IdOf[c] /\ streams'[IdOf[c]] = d
  <1> USE DEF AsyncInv
  <1>1. /\ queue' \in Seq(Calls) /\ queue' = <<>> /\ finished_ids' \subseteq Requests
        /\ event' \in BOOLEAN /\ loop \in {"ready", "parked"} /\ ~ stepping
    <2>1. loop \in {"ready", "parked"}
      BY DEF Drain
    <2>2. ~ stepping
      BY <2>1 DEF TypeOK
    <2>3. queue' = <<>> /\ finished_ids' = {} /\ event' = FALSE
      BY DEF Drain
    <2>4. queue' \in Seq(Calls) /\ finished_ids' \subseteq Requests
      BY <2>3
    <2>5. event' \in BOOLEAN
      BY <2>3, Zenon
    <2> QED BY <2>1, <2>2, <2>3, <2>4, <2>5, Zenon
  <1>2. answer' \in [Calls -> {"none", "pending"} \cup Final]
    BY DEF Drain, AnswersOfDrain, Answered, TypeOK, Final
  <1>3. streams' = StreamsOfDrain
    BY DEF Drain
  <1>4. \A id \in Requests :
          /\ streams'[id] \in Calls \cup {NoCall}
          /\ streams[id] # NoCall => streams'[id] # NoCall
    <2> TAKE id \in Requests
    <2>1. \A i \in PlacesOf(id) : queue[i] \in Calls
      BY QueueType DEF PlacesOf
    <2>2. streams[id] \in Calls \cup {NoCall}
      BY DEF TypeOK
    <2> QED BY <2>1, <2>2, <1>3, DrainRegisters, CallsAssumption
  <1>5. streams' \in [Requests -> Calls \cup {NoCall}]
    <2>1. streams' = [id \in Requests |-> streams'[id]]
      BY <1>3 DEF StreamsOfDrain
    <2> QED BY <2>1, <1>4
  <1>6. \A i \in Fresh : streams'[IdOf[queue[i]]] # NoCall
    <2> TAKE i \in Fresh
    <2> DEFINE id == IdOf[queue[i]]
    <2>1. id \in Requests /\ i \in PlacesOf(id) \cap Fresh
      BY QueueType DEF Fresh, PlacesOf
    <2>2. \A j \in PlacesOf(id) : queue[j] \in Calls
      BY QueueType DEF PlacesOf
    <2> QED BY <2>1, <2>2, <1>3, DrainRegisters, CallsAssumption
  <1>7. ASSUME NEW c \in Calls, answer'[c] = "pending"
        PROVE  \/ streams'[IdOf[c]] = c
                  /\ (IdOf[c] \in InEngine \/ \E i \in Fresh : queue[i] = c)
               \/ \E d \in Calls \ {c} : IdOf[d] = IdOf[c] /\ streams'[IdOf[c]] = d
    <2> DEFINE id == IdOf[c]
    <2>1. id \in Requests
      BY IdType
    <2>2. answer[c] = "pending" /\ c \notin {queue[i] : i \in DOMAIN queue \ Fresh}
      BY <1>7 DEF Drain, AnswersOfDrain, Answered
    <2>3. \A j \in PlacesOf(id) : queue[j] \in Calls /\ IdOf[queue[j]] = id
                                  /\ queue[j] \in Queued
      BY QueueType DEF PlacesOf, Queued
    <2>4. CASE c \in Queued
      <3>1. PICK i \in DOMAIN queue : queue[i] = c
        BY <2>4 DEF Queued
      <3>2. i \in Fresh /\ i \in PlacesOf(id)
        BY <3>1, <2>2 DEF PlacesOf
      <3>3. PICK j \in PlacesOf(id) : streams'[id] = queue[j]
        BY <3>2, <2>1, <1>3, DrainRegisters
      <3> QED BY <3>1, <3>2, <3>3, <2>3
    <2>5. CASE c \notin Queued
      <3>1. \/ streams[id] = c /\ id \in InEngine
            \/ \E d \in Calls \ {c} : IdOf[d] = id /\ streams[id] = d
        BY <2>2, <2>5, <1>1 DEF NoOrphan
      <3>2. streams'[id] = streams[id]
            \/ \E j \in PlacesOf(id) : streams'[id] = queue[j]
        BY <2>1, <1>3, DrainRegisters
      <3> QED BY <3>1, <3>2, <2>3, <2>5
    <2> QED BY <2>4, <2>5
  <1> QED BY <1>1, <1>2, <1>4, <1>5, <1>6, <1>7

-----------------------------------------------------------------------------
LEMMA CallersStep ==
  ASSUME AsyncInv,
         (\E c \in Calls : Submit(c) \/ Refuse(c) \/ Cancel(c))
         \/ \E id \in Requests : Abort(id)
  PROVE  AsyncInv'
  <1> USE IdType DEF AsyncInv
  <1>1. ASSUME NEW c \in Calls, Submit(c) PROVE AsyncInv'
    <2>1. queue' \in Seq(Calls) /\ \A d \in Queued \cup {c} : d \in Queued'
      <3>1. queue \in Seq(Calls) /\ queue' = Append(queue, c)
        BY <1>1 DEF Submit, TypeOK
      <3>2. queue'[Len(queue) + 1] = c /\ Len(queue) + 1 \in DOMAIN queue'
        BY <3>1
      <3>3. \A i \in DOMAIN queue : queue'[i] = queue[i] /\ i \in DOMAIN queue'
        BY <3>1
      <3> QED BY <3>1, <3>2, <3>3 DEF Queued
    <2>2. UNCHANGED <<finished_ids, streams, held, running, stepping>>
          /\ answer' = [answer EXCEPT ![c] = "pending"] /\ event' = TRUE
          /\ loop' = IF loop = "off" THEN "parked" ELSE loop
      BY <1>1 DEF Submit, batcherVars, EventAfterAdd, Started
    <2>3. TypeOK'
      BY <2>1, <2>2 DEF TypeOK
    <2>4. NoOrphan'
      BY <2>1, <2>2 DEF NoOrphan, TypeOK, InEngine
    <2>5. EngineKnown'
      BY <2>2 DEF EngineKnown, InEngine
    <2> QED BY <2>3, <2>4, <2>5
  <1>2. ASSUME UNCHANGED <<queue, streams, held, running, stepping>>,
               finished_ids' \subseteq Requests, event' \in BOOLEAN,
               answer' \in [Calls -> {"none", "pending"} \cup Final],
               \A c \in Calls : answer'[c] = "pending" => answer[c] = "pending",
               loop' = loop \/ (loop = "off" /\ loop' = "parked")
        PROVE  AsyncInv'
    <2>1. TypeOK'
      BY <1>2 DEF TypeOK
    <2>2. NoOrphan'
      BY <1>2 DEF NoOrphan, InEngine, Queued
    <2>3. EngineKnown'
      BY <1>2 DEF EngineKnown, InEngine
    <2> QED BY <2>1, <2>2, <2>3
  <1>3. ASSUME NEW c \in Calls, Refuse(c) PROVE AsyncInv'
    BY <1>2, <1>3 DEF Refuse, Answered, Started, batcherVars, TypeOK, Final
  <1>4. ASSUME NEW c \in Calls, Cancel(c) PROVE AsyncInv'
    BY <1>2, <1>4 DEF Cancel, Answered, batcherVars, TypeOK, Final
  <1>5. ASSUME NEW id \in Requests, Abort(id) PROVE AsyncInv'
    BY <1>2, <1>5 DEF Abort, Answered, batcherVars, TypeOK, Final
  <1> QED BY <1>1, <1>3, <1>4, <1>5

LEMMA BeginStepKeeps == AsyncInv /\ BeginStep => AsyncInv'
  <1> SUFFICES ASSUME AsyncInv, BeginStep PROVE AsyncInv'
    OBVIOUS
  <1> USE IdType DEF AsyncInv
  <1>1. Drain /\ AllAcceptable /\ loop' = "running" /\ stepping' = TRUE
    BY DEF BeginStep, Begin
  <1>2. InEngine' = InEngine \cup NewIds /\ held' \cup running' \subseteq Requests
    BY NewIdsFresh DEF BeginStep, Begin, InEngine, TypeOK
  <1>3. TypeOK'
    BY <1>1, <1>2, DrainKeeps DEF TypeOK
  <1>4. NoOrphan'
    BY <1>1, <1>2, DrainKeeps, NewIdsFresh DEF NoOrphan
  <1>5. EngineKnown'
    BY <1>1, <1>2, DrainKeeps, NewIdsFresh DEF EngineKnown, InEngine, TypeOK
  <1> QED BY <1>3, <1>4, <1>5

LEMMA StepDies == AsyncInv /\ (StepOnBadRequest \/ StepOnNothing) => AsyncInv'
  <1> SUFFICES ASSUME AsyncInv, StepOnBadRequest \/ StepOnNothing PROVE AsyncInv'
    OBVIOUS
  <1> USE IdType DEF AsyncInv
  <1>1. Drain /\ loop' = "dying" /\ UNCHANGED <<running, stepping>>
        /\ (held' = held \/ held' = held \cup NewIds)
    BY DEF StepOnBadRequest, StepOnNothing, batcherVars
  <1>2. TypeOK'
    BY <1>1, DrainKeeps, NewIdsFresh DEF TypeOK
  <1>3. NoOrphan'
    BY <1>1, DrainKeeps DEF NoOrphan
  <1>4. EngineKnown'
    BY <1>1, DrainKeeps, NewIdsFresh DEF EngineKnown, InEngine, TypeOK
  <1> QED BY <1>2, <1>3, <1>4

LEMMA EndStepKeeps == ASSUME NEW F \in SUBSET Requests, AsyncInv, EndStep(F) PROVE AsyncInv'
  <1> USE IdType DEF AsyncInv
  <1>1. /\ UNCHANGED <<queue, streams, event, held>>
        /\ F \subseteq running /\ running' = running \ F /\ stepping' = FALSE
        /\ loop = "running" /\ loop' \in {"ready", "parked"}
        /\ finished_ids' = finished_ids \cup F
        /\ answer' = Answered(Registered(F), "result")
    BY DEF EndStep, End, LoopAfter
  <1>2. TypeOK'
    BY <1>1 DEF TypeOK, Answered, Final
  <1>3. NoOrphan'
    <2> SUFFICES ASSUME NEW c \in Calls, answer'[c] = "pending"
                 PROVE  \/ c \in Queued'
                        \/ streams'[IdOf[c]] = c /\ IdOf[c] \in InEngine'
                        \/ \E d \in Calls \ {c} : IdOf[d] = IdOf[c] /\ streams'[IdOf[c]] = d
      BY DEF NoOrphan
    <2>1. answer[c] = "pending" /\ c \notin Registered(F)
      BY <1>1 DEF Answered
    <2>2. streams[IdOf[c]] = c => IdOf[c] \notin F
      BY <2>1 DEF Registered
    <2>3. IdOf[c] \notin F /\ IdOf[c] \in InEngine => IdOf[c] \in InEngine'
      BY <1>1 DEF InEngine
    <2> QED BY <2>1, <2>2, <2>3, <1>1 DEF NoOrphan, Queued
  <1>4. EngineKnown'
    BY <1>1 DEF EngineKnown, InEngine
  <1> QED BY <1>2, <1>3, <1>4

LEMMA FailStepKeeps == AsyncInv /\ FailStep => AsyncInv'
  <1> SUFFICES ASSUME AsyncInv, FailStep PROVE AsyncInv'
    OBVIOUS
  <1>1. /\ UNCHANGED <<queue, finished_ids, streams, answer, event, held>>
        /\ running' = running \ {} /\ stepping' = FALSE /\ loop' = "dying"
    BY DEF FailStep, End
  <1> QED BY <1>1 DEF AsyncInv, TypeOK, NoOrphan, EngineKnown, InEngine, Queued

LEMMA BuryKeeps == AsyncInv /\ Bury => AsyncInv'
  <1> SUFFICES ASSUME AsyncInv, Bury PROVE AsyncInv'
    OBVIOUS
  <1> USE IdType DEF AsyncInv
  <1>1. /\ UNCHANGED <<queue, finished_ids, streams, event, held, running, stepping>>
        /\ loop = "dying" /\ loop' = "off" /\ answer' = TellAll
    BY DEF Bury, batcherVars
  <1>2. TypeOK'
    BY <1>1 DEF TypeOK, TellAll, Answered, Final
  <1>3. NoOrphan'
    <2>1. \A c \in Calls : answer'[c] = "pending" =>
            answer[c] = "pending" /\ streams[IdOf[c]] # c
      BY <1>1 DEF TellAll, Answered, Registered
    <2> QED BY <1>1, <2>1 DEF NoOrphan, Queued
  <1>4. EngineKnown'
    BY <1>1 DEF EngineKnown, InEngine
  <1> QED BY <1>2, <1>3, <1>4

LEMMA AsyncInvKept == AsyncInv /\ [AsyncNext]_asyncVars => AsyncInv'
  <1> SUFFICES ASSUME AsyncInv, [AsyncNext]_asyncVars PROVE AsyncInv'
    OBVIOUS
  <1>1. CASE UNCHANGED asyncVars
    BY <1>1 DEF asyncVars, batcherVars, AsyncInv, TypeOK, NoOrphan, EngineKnown, InEngine, Queued
  <1>2. CASE AsyncNext
    BY <1>2, CallersStep, BeginStepKeeps, StepDies, EndStepKeeps, FailStepKeeps, BuryKeeps
       DEF AsyncNext, LoopNext
  <1> QED BY <1>1, <1>2

\* The invariant holds in every run of the service.
THEOREM AsyncInvariance == AsyncSpec => []AsyncInv
  BY AsyncInvAtFirst, AsyncInvKept, PTL DEF AsyncSpec

\* The state has its types, and the loop is in the forward pass exactly while
\* the engine steps.
THEOREM AsyncTypesHold == AsyncSpec => []TypeOK
  <1>1. AsyncInv => TypeOK
    BY DEF AsyncInv
  <1> QED BY <1>1, AsyncInvariance, PTL

\* A waiting caller is queued, or registered and in the engine or about to be
\* told: only a twin of its id can strand it.
THEOREM NeverOrphaned == AsyncSpec => []NoOrphan
  <1>1. AsyncInv => NoOrphan
    BY DEF AsyncInv
  <1> QED BY <1>1, AsyncInvariance, PTL

\* process_finished_request always finds the stream of what finished.
THEOREM AlwaysKnown == AsyncSpec => []EngineKnown
  <1>1. AsyncInv => EngineKnown
    BY DEF AsyncInv
  <1> QED BY <1>1, AsyncInvariance, PTL

\* A future is set at most once, whatever comes late.
THEOREM OneAnswer == AsyncSpec => AnsweredOnce
  <1>1. TypeOK /\ [AsyncNext]_asyncVars =>
          [\A c \in Calls : answer[c] \in Final => answer'[c] = answer[c]]_asyncVars
    <2> SUFFICES ASSUME TypeOK, AsyncNext, NEW c \in Calls, answer[c] \in Final
                 PROVE  answer'[c] = answer[c]
      OBVIOUS
    <2>1. \A C, v : Answered(C, v)[c] = answer[c]
      BY DEF Answered, Final
    <2>2. answer[c] # "none" /\ answer[c] # "pending"
      BY DEF Final
    <2>3. CASE \E d \in Calls : Submit(d) \/ Refuse(d) \/ Cancel(d)
      BY <2>1, <2>2, <2>3 DEF Submit, Refuse, Cancel, TypeOK, Answered
    <2>4. CASE \E id \in Requests : Abort(id)
      BY <2>1, <2>4 DEF Abort
    <2>5. CASE LoopNext
      BY <2>1, <2>5 DEF LoopNext, BeginStep, StepOnBadRequest, StepOnNothing, Bury, Drain,
                        AnswersOfDrain, TellAll
    <2>6. CASE \E F \in SUBSET Requests : EndStep(F)
      BY <2>1, <2>6 DEF EndStep
    <2>7. CASE FailStep
      BY <2>7 DEF FailStep
    <2> QED BY <2>3, <2>4, <2>5, <2>6, <2>7 DEF AsyncNext
  <1> QED BY <1>1, AsyncTypesHold, PTL DEF AsyncSpec, AnsweredOnce
=============================================================================
