----------------------------- MODULE DataLemmas -----------------------------
(***************************************************************************)
(* Lemmas about data that the proofs share: sequences, place by place, and *)
(* induction over the natural numbers, stated with sets and functions in   *)
(* place of predicates and operators, so that a proof can cite it for what *)
(* a recursive function of a model computes.                               *)
(***************************************************************************)
EXTENDS Integers, SequencesExt, WellFoundedInduction, TLAPS

Less == {r \in Nat \X Nat : r[1] < r[2]}

\* A set of natural numbers that is not empty has a least one.
LEMMA LeastNumber ==
  ASSUME NEW T, T \subseteq Nat, T # {}
  PROVE  \E n \in T : \A k \in T : n <= k
<1>1. IsWellFoundedOn(Less, Nat)
  BY NatLessThanWellFounded DEF OpToRel, Less
<1>2. PICK n \in T : \A k \in T : ~ (<<k, n>> \in Less)
  BY <1>1, WFMin
<1>3. ASSUME NEW k \in T, ~ n <= k PROVE FALSE
  <2>1. k \in Nat /\ n \in Nat /\ k < n
    BY <1>3
  <2>2. <<k, n>> \in Less
    BY <2>1 DEF Less
  <2> QED BY <2>2, <1>2
<1> QED BY <1>3

\* What holds at 0 and goes on up to n holds up to n.
LEMMA UpTo ==
  ASSUME NEW n \in Nat, NEW S, 0 \in S, \A i \in 0 .. n - 1 : i \in S => i + 1 \in S
  PROVE  0 .. n \subseteq S
<1> DEFINE T == (0 .. n) \ S
<1> SUFFICES ASSUME T # {} PROVE FALSE
  OBVIOUS
<1>1. PICK k \in T : \A j \in T : k <= j
  <2>1. T \subseteq Nat
    OBVIOUS
  <2> HIDE DEF T
  <2> QED BY <2>1, LeastNumber
<1>2. k \in 1 .. n /\ k - 1 \in S
  BY <1>1
<1> QED BY <1>1, <1>2

\* The functions on 0 .. n that start at b and go on by the steps F.
Runs(X, b, n, F) ==
  {g \in [0 .. n -> X] : g[0] = b /\ \A i \in 1 .. n : g[i] = F[i][g[i - 1]]}

\* There is one, whatever the steps.
LEMMA RecursionExists ==
  ASSUME NEW X, NEW b \in X, NEW n \in Nat, NEW F \in [1 .. n -> [X -> X]]
  PROVE  \E g : g \in Runs(X, b, n, F)
<1> DEFINE Run(g, k) == g[0] = b /\ \A i \in 1 .. k : g[i] = F[i][g[i - 1]]
           S == {k \in 0 .. n : \E g \in [0 .. k -> X] : Run(g, k)}
<1>1. 0 \in S
  <2> DEFINE g == [i \in 0 .. 0 |-> b]
  <2>1. g \in [0 .. 0 -> X] /\ Run(g, 0)
    OBVIOUS
  <2>2. 0 \in 0 .. n
    OBVIOUS
  <2> HIDE DEF g
  <2> QED BY <2>1, <2>2
<1>2. ASSUME NEW k \in 0 .. n - 1, k \in S PROVE k + 1 \in S
  <2>1. PICK g \in [0 .. k -> X] : Run(g, k)
    BY <1>2
  <2> DEFINE x == F[k + 1][g[k]]
             h == [i \in 0 .. k + 1 |-> IF i = k + 1 THEN x ELSE g[i]]
  <2>2. g[k] \in X /\ k + 1 \in 1 .. n /\ F[k + 1] \in [X -> X] /\ x \in X
    OBVIOUS
  <2> HIDE DEF x
  <2>3. h \in [0 .. k + 1 -> X]
    BY <2>2
  <2>4. h[0] = b
    BY <2>1
  <2>5. ASSUME NEW i \in 1 .. k + 1 PROVE h[i] = F[i][h[i - 1]]
    <3>1. CASE i = k + 1
      <4>1. h[i] = x /\ h[i - 1] = g[k]
        BY <3>1
      <4> QED BY <4>1, <3>1 DEF x
    <3>2. CASE i # k + 1
      <4>1. h[i] = g[i] /\ h[i - 1] = g[i - 1] /\ i \in 1 .. k
        BY <3>2
      <4> HIDE DEF h
      <4> QED BY <4>1, <2>1
    <3> QED BY <3>1, <3>2
  <2> HIDE DEF h
  <2>6. Run(h, k + 1)
    BY <2>4, <2>5
  <2> QED BY <2>2, <2>3, <2>6
<1> HIDE DEF S
<1>3. n \in S
  <2>1. 0 .. n \subseteq S
    BY <1>1, <1>2, UpTo
  <2> QED BY <2>1
<1>4. PICK g \in [0 .. n -> X] : Run(g, n)
  BY <1>3 DEF S
<1> QED BY <1>4 DEF Runs

\* The functions that accumulate what t has, by the operation Op.
Accumulations(X, n, t, Op) ==
  {g \in [1 .. n + 1 -> X] :
     g[1] = t[1] /\ \A i \in 2 .. n + 1 : g[i] = Op[g[i - 1]][t[i]]}

LEMMA AccumulationExists ==
  ASSUME NEW X, NEW n \in Nat, NEW t \in [1 .. n + 1 -> X], NEW Op \in [X -> [X -> X]]
  PROVE  \E g : g \in Accumulations(X, n, t, Op)
<1> DEFINE F == [i \in 1 .. n |-> [x \in X |-> Op[x][t[i + 1]]]]
<1>1. F \in [1 .. n -> [X -> X]]
  <2>1. ASSUME NEW x \in X, NEW i \in 1 .. n PROVE Op[x][t[i + 1]] \in X
    <3>1. t[i + 1] \in X /\ Op[x] \in [X -> X]
      OBVIOUS
    <3> QED BY <3>1
  <2> QED BY <2>1
<1>2. t[1] \in X
  OBVIOUS
<1>3. \A x \in X, i \in 1 .. n : F[i][x] = Op[x][t[i + 1]]
  OBVIOUS
<1> HIDE DEF F
<1>4. PICK h : h \in Runs(X, t[1], n, F)
  BY <1>1, <1>2, RecursionExists
<1>5. h \in [0 .. n -> X] /\ h[0] = t[1] /\ \A i \in 1 .. n : h[i] = F[i][h[i - 1]]
  BY <1>4 DEF Runs
<1> DEFINE g == [i \in 1 .. n + 1 |-> h[i - 1]]
<1>6. g \in [1 .. n + 1 -> X] /\ g[1] = t[1]
  BY <1>5
<1>7. ASSUME NEW i \in 2 .. n + 1 PROVE g[i] = Op[g[i - 1]][t[i]]
  <2>1. /\ i - 1 \in 1 .. n /\ (i - 1) + 1 = i /\ (i - 1) - 1 \in 0 .. n
        /\ i \in 1 .. n + 1 /\ i - 1 \in 1 .. n + 1
    OBVIOUS
  <2>2. g[i] = h[i - 1] /\ g[i - 1] = h[(i - 1) - 1]
    BY <2>1
  <2>3. h[i - 1] = F[i - 1][h[(i - 1) - 1]] /\ h[(i - 1) - 1] \in X
    BY <1>5, <2>1
  <2>4. F[i - 1][h[(i - 1) - 1]] = Op[h[(i - 1) - 1]][t[i]]
    BY <1>3, <2>1, <2>3
  <2> HIDE DEF g
  <2> QED BY <2>2, <2>3, <2>4
<1> HIDE DEF g
<1> QED BY <1>6, <1>7 DEF Accumulations

-----------------------------------------------------------------------------
LEMMA ConcatFacts ==
  ASSUME NEW S, NEW d \in Seq(S), NEW e \in Seq(S)
  PROVE  /\ d \o e \in Seq(S) /\ Len(d \o e) = Len(d) + Len(e)
         /\ \A i \in 1 .. Len(d) : (d \o e)[i] = d[i]
         /\ \A i \in Len(d) + 1 .. Len(d) + Len(e) : (d \o e)[i] = e[i - Len(d)]
  OBVIOUS

LEMMA SubSeqFacts ==
  ASSUME NEW S, NEW e \in Seq(S), NEW m \in 1 .. Len(e) + 1, NEW n \in 0 .. Len(e), m <= n + 1
  PROVE  /\ SubSeq(e, m, n) \in Seq(S) /\ Len(SubSeq(e, m, n)) = n - m + 1
         /\ \A i \in 1 .. n - m + 1 : SubSeq(e, m, n)[i] = e[m + i - 1]
  OBVIOUS

LEMMA SameSeq ==
  ASSUME NEW S, NEW d \in Seq(S), NEW e \in Seq(S), Len(d) = Len(e),
         \A i \in 1 .. Len(d) : d[i] = e[i]
  PROVE  d = e
  OBVIOUS

\* What is put together of the first sequences, one after the other.
LEMMA FlattenIs ==
  ASSUME NEW S, NEW t \in Seq(Seq(S)), Len(t) # 0
  PROVE  \E g \in [1 .. Len(t) -> Seq(S)] :
           /\ g[1] = t[1] /\ \A i \in 2 .. Len(t) : g[i] = g[i - 1] \o t[i]
           /\ FlattenSeq(t) = g[Len(t)]
<1> DEFINE n == Len(t) - 1
           X == Seq(S)
           Op == [a \in X |-> [b \in X |-> a \o b]]
           Equation(g) == g = [i \in 1 .. Len(t) |-> IF i = 1 THEN t[i] ELSE g[i - 1] \o t[i]]
           flatten == CHOOSE g : Equation(g)
<1>1. n \in Nat /\ Len(t) = n + 1 /\ t \in [1 .. n + 1 -> X]
  OBVIOUS
<1>2. Op \in [X -> [X -> X]]
  <2>1. \A a, b \in X : a \o b \in X
    BY ConcatFacts
  <2> HIDE DEF X
  <2> QED BY <2>1
<1>3. \A a, b \in X : Op[a][b] = a \o b
  <2> HIDE DEF X
  <2> QED OBVIOUS
<1>4. PICK g : /\ g \in [1 .. Len(t) -> X] /\ g[1] = t[1]
               /\ \A i \in 2 .. Len(t) : g[i] = g[i - 1] \o t[i]
  <2> HIDE DEF X, Op, n, Equation, flatten
  <2>1. PICK g : g \in Accumulations(X, n, t, Op)
    BY <1>1, <1>2, AccumulationExists
  <2>2. /\ g \in [1 .. n + 1 -> X] /\ g[1] = t[1]
        /\ \A i \in 2 .. n + 1 : g[i] = Op[g[i - 1]][t[i]]
    BY <2>1 DEF Accumulations
  <2>3. ASSUME NEW i \in 2 .. n + 1 PROVE g[i] = g[i - 1] \o t[i]
    <3>1. i - 1 \in 1 .. n + 1 /\ i \in 1 .. n + 1
      BY <1>1
    <3>2. g[i - 1] \in X /\ t[i] \in X
      BY <1>1, <2>2, <3>1
    <3> QED BY <1>3, <2>2, <3>2
  <2> QED BY <1>1, <2>2, <2>3
<1>5. ASSUME NEW i \in 1 .. Len(t)
      PROVE  g[i] = IF i = 1 THEN t[i] ELSE g[i - 1] \o t[i]
  <2>1. CASE i = 1
    BY <1>4, <2>1
  <2>2. CASE i # 1
    <3>1. i \in 2 .. Len(t)
      BY <1>1, <2>2
    <3> QED BY <1>4, <2>2, <3>1
  <2> QED BY <2>1, <2>2
<1>6. Equation(g)
  <2> DEFINE e == [i \in 1 .. Len(t) |-> IF i = 1 THEN t[i] ELSE g[i - 1] \o t[i]]
  <2>1. \A i \in 1 .. Len(t) : g[i] = e[i]
    <3> SUFFICES ASSUME NEW i \in 1 .. Len(t) PROVE g[i] = e[i]
      OBVIOUS
    <3>1. e[i] = IF i = 1 THEN t[i] ELSE g[i - 1] \o t[i]
      OBVIOUS
    <3> HIDE DEF e
    <3> QED BY <1>5, <3>1
  <2>2. g = [i \in 1 .. Len(t) |-> g[i]] /\ e = [i \in 1 .. Len(t) |-> e[i]]
    <3>1. g = [i \in 1 .. Len(t) |-> g[i]]
      <4> HIDE DEF X, n, Op, e
      <4> QED BY <1>4
    <3> QED BY <3>1
  <2>3. g = e
    <3> HIDE DEF e
    <3> QED BY <2>1, <2>2
  <2> QED BY <2>3
<1>7. Equation(flatten)
  <2> HIDE DEF Equation
  <2> QED BY <1>6
<1>8. FlattenSeq(t) = flatten[Len(t)]
  BY DEF FlattenSeq
<1> HIDE DEF flatten
<1>9. /\ flatten[1] = t[1]
      /\ \A i \in 2 .. Len(t) : flatten[i] = flatten[i - 1] \o t[i]
  <2>1. flatten = [i \in 1 .. Len(t) |-> IF i = 1 THEN t[i] ELSE flatten[i - 1] \o t[i]]
    BY <1>7
  <2>2. ASSUME NEW i \in 1 .. Len(t)
        PROVE  flatten[i] = IF i = 1 THEN t[i] ELSE flatten[i - 1] \o t[i]
    BY <2>1
  <2>3. 1 \in 1 .. Len(t) /\ \A i \in 2 .. Len(t) : i \in 1 .. Len(t) /\ i # 1
    BY <1>1
  <2> QED BY <2>2, <2>3
<1>10. flatten \in [1 .. Len(t) -> X]
  <2> DEFINE T == {i \in 0 .. n : flatten[i + 1] \in X}
  <2>1. 0 \in T
    BY <1>1, <1>9
  <2>2. ASSUME NEW i \in 0 .. n - 1, i \in T PROVE i + 1 \in T
    <3>1. /\ i + 1 \in 0 .. n /\ (i + 1) + 1 \in 2 .. Len(t) /\ ((i + 1) + 1) - 1 = i + 1
          /\ (i + 1) + 1 \in 1 .. Len(t)
      BY <1>1
    <3>2. flatten[(i + 1) + 1] = flatten[i + 1] \o t[(i + 1) + 1]
      BY <1>9, <3>1
    <3>3. flatten[i + 1] \in Seq(S) /\ t[(i + 1) + 1] \in Seq(S)
      BY <1>1, <2>2, <3>1
    <3>4. flatten[(i + 1) + 1] \in X
      BY <3>2, <3>3, ConcatFacts
    <3> QED BY <3>1, <3>4
  <2>3. 0 .. n \subseteq T
    <3> HIDE DEF T, n
    <3> QED BY <1>1, <2>1, <2>2, UpTo
  <2>4. ASSUME NEW i \in 1 .. Len(t) PROVE flatten[i] \in X
    <3>1. i - 1 \in 0 .. n /\ (i - 1) + 1 = i
      BY <1>1
    <3> QED BY <2>3, <3>1
  <2>5. flatten = [i \in 1 .. Len(t) |-> flatten[i]]
    BY <1>7
  <2> HIDE DEF X
  <2> QED BY <2>4, <2>5
<1> QED BY <1>8, <1>9, <1>10

LEMMA FlattenNext ==
  ASSUME NEW S, NEW t \in Seq(Seq(S)), NEW n \in 0 .. Len(t) - 1
  PROVE  /\ FlattenSeq(SubSeq(t, 1, n)) \in Seq(S) /\ FlattenSeq(SubSeq(t, 1, 0)) = <<>>
         /\ FlattenSeq(SubSeq(t, 1, n + 1)) = FlattenSeq(SubSeq(t, 1, n)) \o t[n + 1]
<1> DEFINE p(m) == SubSeq(t, 1, m)
<1>1. Len(t) \in Nat /\ \A i \in 1 .. Len(t) : t[i] \in Seq(S)
  OBVIOUS
<1>2. \A m \in 0 .. Len(t) : /\ p(m) \in Seq(Seq(S)) /\ Len(p(m)) = m
                             /\ \A i \in 1 .. m : p(m)[i] = t[i]
  OBVIOUS
<1> HIDE DEF p
<1>3. FlattenSeq(p(0)) = <<>>
  <2>1. Len(p(0)) = 0 /\ p(0) \in Seq(Seq(S))
    BY <1>1, <1>2
  <2>2. p(0) = <<>>
    BY <2>1
  <2> QED BY <2>1, <2>2 DEF FlattenSeq
<1>4. PICK g \in [1 .. n + 1 -> Seq(S)] :
        /\ g[1] = t[1] /\ \A i \in 2 .. n + 1 : g[i] = g[i - 1] \o t[i]
        /\ FlattenSeq(p(n + 1)) = g[n + 1]
  <2>1. n + 1 \in 0 .. Len(t) /\ n + 1 # 0 /\ n \in Nat
    BY <1>1
  <2>2. p(n + 1) \in Seq(Seq(S)) /\ Len(p(n + 1)) = n + 1 /\ \A i \in 1 .. n + 1 : p(n + 1)[i] = t[i]
    BY <1>2, <2>1
  <2>3. PICK g \in [1 .. Len(p(n + 1)) -> Seq(S)] :
          /\ g[1] = p(n + 1)[1] /\ \A i \in 2 .. Len(p(n + 1)) : g[i] = g[i - 1] \o p(n + 1)[i]
          /\ FlattenSeq(p(n + 1)) = g[Len(p(n + 1))]
    BY <2>1, <2>2, FlattenIs
  <2>4. 1 \in 1 .. n + 1 /\ \A i \in 2 .. n + 1 : i \in 1 .. n + 1
    BY <2>1
  <2>5. g[1] = t[1] /\ \A i \in 2 .. n + 1 : g[i] = g[i - 1] \o t[i]
    BY <2>2, <2>3, <2>4
  <2> QED BY <2>2, <2>3, <2>5
<1>5. CASE n = 0
  <2>1. FlattenSeq(p(1)) = t[1] /\ t[1] \in Seq(S)
    BY <1>1, <1>4, <1>5
  <2>2. <<>> \o t[1] = t[1] /\ <<>> \in Seq(S)
    BY <2>1
  <2>3. p(n) = p(0) /\ p(n + 1) = p(1) /\ t[n + 1] = t[1]
    BY <1>5
  <2>4. FlattenSeq(p(n)) \in Seq(S) /\ FlattenSeq(p(n + 1)) = FlattenSeq(p(n)) \o t[n + 1]
    BY <1>3, <2>1, <2>2, <2>3
  <2> QED BY <1>3, <2>4 DEF p
<1>6. CASE n # 0
  <2>1. n \in 1 .. Len(t) /\ n \in 0 .. Len(t) /\ n \in Nat /\ n + 1 \in 2 .. n + 1 /\ (n + 1) - 1 = n
    BY <1>1, <1>6
  <2>2. p(n) \in Seq(Seq(S)) /\ Len(p(n)) = n /\ \A i \in 1 .. n : p(n)[i] = t[i]
    BY <1>2, <2>1
  <2>3. PICK f \in [1 .. Len(p(n)) -> Seq(S)] :
          /\ f[1] = p(n)[1] /\ \A i \in 2 .. Len(p(n)) : f[i] = f[i - 1] \o p(n)[i]
          /\ FlattenSeq(p(n)) = f[Len(p(n))]
    BY <1>6, <2>2, FlattenIs
  <2>4. f \in [1 .. n -> Seq(S)] /\ f[1] = t[1] /\ FlattenSeq(p(n)) = f[n]
        /\ \A i \in 2 .. n : f[i] = f[i - 1] \o t[i]
    <3>1. 1 \in 1 .. n /\ \A i \in 2 .. n : i \in 1 .. n
      BY <2>1
    <3> QED BY <2>2, <2>3, <3>1
  <2> DEFINE T == {i \in 0 .. n - 1 : f[i + 1] = g[i + 1]}
  <2>5. 0 .. n - 1 \subseteq T
    <3>1. n - 1 \in Nat /\ 0 \in T
      BY <1>4, <2>1, <2>4
    <3>2. ASSUME NEW i \in 0 .. (n - 1) - 1, i \in T PROVE i + 1 \in T
      <4>1. /\ i + 1 \in 0 .. n - 1 /\ (i + 1) + 1 \in 2 .. n /\ (i + 1) + 1 \in 2 .. n + 1
            /\ ((i + 1) + 1) - 1 = i + 1
        BY <2>1
      <4>2. /\ f[(i + 1) + 1] = f[i + 1] \o t[(i + 1) + 1]
            /\ g[(i + 1) + 1] = g[i + 1] \o t[(i + 1) + 1]
        BY <1>4, <2>4, <4>1
      <4> QED BY <3>2, <4>1, <4>2
    <3> HIDE DEF T
    <3> QED BY <3>1, <3>2, UpTo
  <2>6. f[n] = g[n]
    <3>1. n - 1 \in 0 .. n - 1 /\ (n - 1) + 1 = n
      BY <2>1
    <3> QED BY <2>5, <3>1
  <2>7. g[n + 1] = g[n] \o t[n + 1]
    BY <1>4, <2>1
  <2>8. f[n] \in Seq(S)
    BY <2>1, <2>4
  <2> QED BY <1>3, <1>4, <2>4, <2>6, <2>7, <2>8 DEF p
<1> QED BY <1>5, <1>6

=============================================================================
