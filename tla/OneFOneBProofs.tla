---------------------------- MODULE OneFOneBProofs ----------------------------
(***************************************************************************)
(* Proofs about OneFOneB, for any number of stages, any sizes and numbers  *)
(* of microbatches, any script, with and without the metadata cache.       *)
(*                                                                         *)
(* A stage by itself: the place it has reached in the calls of a step says *)
(* how often it has loaded, saved and popped (Local).                      *)
(* Two neighbours: there is one history of steps that every stage follows, *)
(* each at its own place, and what has gone out at one end of a wire has   *)
(* come in at the other (Linked).                                          *)
(***************************************************************************)
EXTENDS OneFOneB, DataLemmas

Positive == Nat \ {0}
Steps  == [train : BOOLEAN, rows : Positive]
Names  == {"recv_forward", "forward_step", "send_forward", "send_forward_recv_backward",
           "backward_step", "send_backward_recv_forward", "recv_backward", "send_backward"}
Saving == {"send_forward", "send_forward_recv_backward"}

-----------------------------------------------------------------------------
(* The calls of a step with w microbatches of warm-up and m in the steady  *)
(* state; an evaluation is all warm-up.                                    *)

Triple(i)   == CASE i % 3 = 0 -> "recv_forward" [] i % 3 = 1 -> "forward_step"
                 [] i % 3 = 2 -> "send_forward"
Quadruple(i, last) ==
  CASE i % 4 = 0 -> "forward_step" [] i % 4 = 1 -> "send_forward_recv_backward"
    [] i % 4 = 2 -> "backward_step"
    [] i % 4 = 3 -> IF last THEN "send_backward" ELSE "send_backward_recv_forward"
Cooling(i)  == CASE i % 3 = 0 -> "recv_backward" [] i % 3 = 1 -> "backward_step"
                 [] i % 3 = 2 -> "send_backward"

\* The call that follows k others.
CallAfter(w, m, k) ==
  IF k < 3 * w THEN Triple(k)
  ELSE IF k = 3 * w THEN "recv_forward"
  ELSE IF k <= 3 * w + 4 * m THEN Quadruple(k - 3 * w - 1, k = 3 * w + 4 * m)
  ELSE Cooling(k - 3 * w - 4 * m - 1)

\* How often k of them load a microbatch, save what it makes, and pop it.
Forwards(w, m, k) ==
  IF k <= 3 * w THEN (k + 1) \div 3
  ELSE IF k <= 3 * w + 4 * m + 1 THEN w + (k - 3 * w + 2) \div 4 ELSE w + m
Saves(w, m, k) ==
  IF k <= 3 * w THEN k \div 3
  ELSE IF k <= 3 * w + 4 * m + 1 THEN w + (k - 3 * w + 1) \div 4 ELSE w + m
Backwards(w, m, k) ==
  IF k <= 3 * w THEN 0
  ELSE IF k <= 3 * w + 4 * m + 1 THEN (k - 3 * w) \div 4
  ELSE m + (k - 3 * w - 4 * m) \div 3

LEMMA ByThree == \A n \in Nat : \E q \in Nat, r \in 0 .. 2 : n = 3 * q + r
<1> TAKE n \in Nat
<1>1. n \div 3 \in Nat /\ n % 3 \in 0 .. 2 /\ n = 3 * (n \div 3) + (n % 3)
  OBVIOUS
<1> QED BY <1>1

LEMMA ByFour == \A n \in Nat : \E q \in Nat, r \in 0 .. 3 : n = 4 * q + r
<1> TAKE n \in Nat
<1>1. n \div 4 \in Nat /\ n % 4 \in 0 .. 3 /\ n = 4 * (n \div 4) + (n % 4)
  OBVIOUS
<1> QED BY <1>1

\* The values at a place of the warm-up, before the steady state, in it, and
\* after it.
AtWarmup(w, m, q, r) ==
  LET k == 3 * q + r IN
  /\ CallAfter(w, m, k) = CASE r = 0 -> "recv_forward" [] r = 1 -> "forward_step"
                            [] r = 2 -> "send_forward"
  /\ Forwards(w, m, k) = IF r = 2 THEN q + 1 ELSE q
  /\ Saves(w, m, k) = q /\ Backwards(w, m, k) = 0
AtTurn(w, m) ==
  LET k == 3 * w IN
  /\ CallAfter(w, m, k) = "recv_forward"
  /\ Forwards(w, m, k) = w /\ Saves(w, m, k) = w /\ Backwards(w, m, k) = 0
AtSteady(w, m, q, r) ==
  LET k == 3 * w + 1 + 4 * q + r IN
  /\ CallAfter(w, m, k) =
       CASE r = 0 -> "forward_step" [] r = 1 -> "send_forward_recv_backward"
         [] r = 2 -> "backward_step"
         [] r = 3 -> IF q = m - 1 THEN "send_backward" ELSE "send_backward_recv_forward"
  /\ Forwards(w, m, k) = w + IF r = 0 THEN q ELSE q + 1
  /\ Saves(w, m, k) = w + IF r <= 1 THEN q ELSE q + 1
  /\ Backwards(w, m, k) = IF r <= 2 THEN q ELSE q + 1
AtCooling(w, m, q, r) ==
  LET k == 3 * w + 4 * m + 1 + 3 * q + r IN
  /\ CallAfter(w, m, k) = CASE r = 0 -> "recv_backward" [] r = 1 -> "backward_step"
                            [] r = 2 -> "send_backward"
  /\ Forwards(w, m, k) = w + m /\ Saves(w, m, k) = w + m
  /\ Backwards(w, m, k) = m + IF r = 2 THEN q + 1 ELSE q

LEMMA WarmupIs ==
  ASSUME NEW w \in Nat, NEW m \in Nat, NEW q \in Nat, NEW r \in 0 .. 2, q < w
  PROVE  AtWarmup(w, m, q, r)
<1> DEFINE k == 3 * q + r
<1>1. k \in Nat /\ k < 3 * w /\ k <= 3 * w
  OBVIOUS
<1>2. k % 3 = r /\ k \div 3 = q /\ (k + 1) \div 3 = IF r = 2 THEN q + 1 ELSE q
  OBVIOUS
<1> HIDE DEF k
<1>3. CallAfter(w, m, k) = Triple(k)
  BY <1>1 DEF CallAfter
<1>4. CallAfter(w, m, k) = CASE r = 0 -> "recv_forward" [] r = 1 -> "forward_step"
                             [] r = 2 -> "send_forward"
  BY <1>2, <1>3 DEF Triple
<1>5. /\ Forwards(w, m, k) = IF r = 2 THEN q + 1 ELSE q
      /\ Saves(w, m, k) = q /\ Backwards(w, m, k) = 0
  BY <1>1, <1>2 DEF Forwards, Saves, Backwards
<1> QED BY <1>4, <1>5 DEF AtWarmup, k

LEMMA TurnIs ==
  ASSUME NEW w \in Nat, NEW m \in Nat
  PROVE  AtTurn(w, m)
<1>1. (3 * w) \div 3 = w /\ (3 * w + 1) \div 3 = w
  OBVIOUS
<1> QED BY <1>1 DEF AtTurn, CallAfter, Forwards, Saves, Backwards

LEMMA SteadyIs ==
  ASSUME NEW w \in Nat, NEW m \in Nat, NEW q \in Nat, NEW r \in 0 .. 3, q < m
  PROVE  AtSteady(w, m, q, r)
<1> DEFINE j == 4 * q + r
           k == 3 * w + 1 + 4 * q + r
<1>1. /\ j % 4 = r /\ (j + 3) \div 4 = (IF r = 0 THEN q ELSE q + 1)
      /\ (j + 2) \div 4 = (IF r <= 1 THEN q ELSE q + 1)
      /\ (j + 1) \div 4 = (IF r <= 2 THEN q ELSE q + 1)
  OBVIOUS
<1>2. /\ k \in Nat /\ k > 3 * w /\ k <= 3 * w + 4 * m /\ k - 3 * w - 1 = j /\ k - 3 * w = j + 1
      /\ k - 3 * w + 1 = j + 2 /\ k - 3 * w + 2 = j + 3
      /\ r = 3 => (k = 3 * w + 4 * m <=> q = m - 1)
  OBVIOUS
<1> HIDE DEF j, k
<1>3. CallAfter(w, m, k) = Quadruple(j, k = 3 * w + 4 * m)
  BY <1>2 DEF CallAfter
<1>4. CallAfter(w, m, k) =
        CASE r = 0 -> "forward_step" [] r = 1 -> "send_forward_recv_backward"
          [] r = 2 -> "backward_step"
          [] r = 3 -> IF q = m - 1 THEN "send_backward" ELSE "send_backward_recv_forward"
  BY <1>1, <1>2, <1>3 DEF Quadruple
<1>5. /\ Forwards(w, m, k) = w + (j + 3) \div 4
      /\ Saves(w, m, k) = w + (j + 2) \div 4 /\ Backwards(w, m, k) = (j + 1) \div 4
  BY <1>2 DEF Forwards, Saves, Backwards
<1> QED BY <1>1, <1>4, <1>5 DEF AtSteady, k

LEMMA CoolingIs ==
  ASSUME NEW w \in Nat, NEW m \in Nat, NEW q \in Nat, NEW r \in 0 .. 2
  PROVE  AtCooling(w, m, q, r)
<1> DEFINE j == 3 * q + r
           k == 3 * w + 4 * m + 1 + 3 * q + r
<1>1. j \in Nat /\ j % 3 = r /\ (j + 1) \div 3 = IF r = 2 THEN q + 1 ELSE q
  OBVIOUS
<1>2. k \in Nat /\ k > 3 * w + 4 * m /\ k = 3 * w + 4 * m + 1 + j
  OBVIOUS
<1> HIDE DEF j, k
<1>3. CallAfter(w, m, k) = Cooling(j)
  BY <1>1, <1>2 DEF CallAfter
<1>4. CallAfter(w, m, k) = CASE r = 0 -> "recv_backward" [] r = 1 -> "backward_step"
                             [] r = 2 -> "send_backward"
  BY <1>1, <1>3 DEF Cooling
<1>5. /\ Forwards(w, m, k) = w + m /\ Saves(w, m, k) = w + m
      /\ Backwards(w, m, k) = m + (j + 1) \div 3
  <2>1. CASE j = 0
    <3>1. (4 * m + 3) \div 4 = m /\ (4 * m + 2) \div 4 = m /\ (4 * m + 1) \div 4 = m
          /\ (j + 1) \div 3 = 0
      BY <2>1
    <3>2. k - 3 * w + 2 = 4 * m + 3 /\ k - 3 * w + 1 = 4 * m + 2 /\ k - 3 * w = 4 * m + 1
      BY <1>2, <2>1
    <3> QED BY <1>2, <2>1, <3>1, <3>2 DEF Forwards, Saves, Backwards
  <2>2. CASE j # 0
    <3>1. k > 3 * w + 4 * m + 1 /\ k - 3 * w - 4 * m = j + 1
      BY <1>1, <1>2, <2>2
    <3> QED BY <1>1, <1>2, <3>1 DEF Forwards, Saves, Backwards
  <2> QED BY <2>1, <2>2
<1> QED BY <1>1, <1>4, <1>5 DEF AtCooling, k

\* Every place is one of these.
LEMMA PlaceIs ==
  ASSUME NEW w \in Nat, NEW m \in Nat, NEW k \in Nat
  PROVE  \/ \E q \in Nat, r \in 0 .. 2 : q < w /\ k = 3 * q + r
         \/ k = 3 * w
         \/ \E q \in Nat, r \in 0 .. 3 : q < m /\ k = 3 * w + 1 + 4 * q + r
         \/ \E q \in Nat, r \in 0 .. 2 : k = 3 * w + 4 * m + 1 + 3 * q + r
<1>1. CASE k < 3 * w
  <2>1. PICK q \in Nat, r \in 0 .. 2 : k = 3 * q + r
    BY ByThree
  <2> QED BY <1>1, <2>1
<1>2. CASE k > 3 * w /\ k <= 3 * w + 4 * m
  <2>1. k - 3 * w - 1 \in Nat
    BY <1>2
  <2>2. PICK q \in Nat, r \in 0 .. 3 : k - 3 * w - 1 = 4 * q + r
    BY <2>1, ByFour
  <2>3. q < m /\ k = 3 * w + 1 + 4 * q + r
    BY <1>2, <2>2
  <2> QED BY <2>3
<1>3. CASE k > 3 * w + 4 * m
  <2>1. k - 3 * w - 4 * m - 1 \in Nat
    BY <1>3
  <2>2. PICK q \in Nat, r \in 0 .. 2 : k - 3 * w - 4 * m - 1 = 3 * q + r
    BY <2>1, ByThree
  <2>3. k = 3 * w + 4 * m + 1 + 3 * q + r
    BY <2>2
  <2> QED BY <2>3
<1> QED BY <1>1, <1>2, <1>3

One(holds) == IF holds THEN 1 ELSE 0

\* The next call is the one that is counted.
Counted(w, m, k) ==
  /\ CallAfter(w, m, k) \in Names
  /\ Forwards(w, m, k + 1) = Forwards(w, m, k) + One(CallAfter(w, m, k) = "forward_step")
  /\ Saves(w, m, k + 1) = Saves(w, m, k) + One(CallAfter(w, m, k) \in Saving)
  /\ Backwards(w, m, k + 1) = Backwards(w, m, k) + One(CallAfter(w, m, k) = "backward_step")

LEMMA CountsAre ==
  ASSUME NEW w \in Nat, NEW m \in Nat, NEW k \in Nat
  PROVE  Counted(w, m, k)
<1>1. ASSUME NEW q \in Nat, NEW r \in 0 .. 2, q < w, k = 3 * q + r PROVE Counted(w, m, k)
  <2>1. AtWarmup(w, m, q, r)
    BY <1>1, WarmupIs
  <2>2. CASE r # 2
    <3>1. AtWarmup(w, m, q, r + 1) /\ k + 1 = 3 * q + (r + 1)
      BY <1>1, <2>2, WarmupIs
    <3> QED BY <1>1, <2>1, <2>2, <3>1 DEF AtWarmup, Counted, One, Names, Saving
  <2>3. CASE r = 2 /\ q + 1 < w
    <3>1. AtWarmup(w, m, q + 1, 0) /\ k + 1 = 3 * (q + 1) + 0
      BY <1>1, <2>3, WarmupIs
    <3> QED BY <1>1, <2>1, <2>3, <3>1 DEF AtWarmup, Counted, One, Names, Saving
  <2>4. CASE r = 2 /\ q + 1 = w
    <3>1. AtTurn(w, m) /\ k + 1 = 3 * w
      BY <1>1, <2>4, TurnIs
    <3> QED BY <1>1, <2>1, <2>4, <3>1 DEF AtWarmup, AtTurn, Counted, One, Names, Saving
  <2> QED BY <1>1, <2>2, <2>3, <2>4
<1>2. CASE k = 3 * w
  <2>1. AtTurn(w, m)
    BY TurnIs
  <2>2. CASE m > 0
    <3>1. AtSteady(w, m, 0, 0) /\ k + 1 = 3 * w + 1 + 4 * 0 + 0
      BY <1>2, <2>2, SteadyIs
    <3> QED BY <1>2, <2>1, <2>2, <3>1 DEF AtTurn, AtSteady, Counted, One, Names, Saving
  <2>3. CASE m = 0
    <3>1. AtCooling(w, m, 0, 0) /\ k + 1 = 3 * w + 4 * m + 1 + 3 * 0 + 0
      BY <1>2, <2>3, CoolingIs
    <3> QED BY <1>2, <2>1, <2>3, <3>1 DEF AtTurn, AtCooling, Counted, One, Names, Saving
  <2> QED BY <2>2, <2>3
<1>3. ASSUME NEW q \in Nat, NEW r \in 0 .. 3, q < m, k = 3 * w + 1 + 4 * q + r
      PROVE Counted(w, m, k)
  <2>1. AtSteady(w, m, q, r)
    BY <1>3, SteadyIs
  <2>2. CASE r # 3
    <3>1. AtSteady(w, m, q, r + 1) /\ k + 1 = 3 * w + 1 + 4 * q + (r + 1)
      BY <1>3, <2>2, SteadyIs
    <3> QED BY <1>3, <2>1, <2>2, <3>1 DEF AtSteady, Counted, One, Names, Saving
  <2>3. CASE r = 3 /\ q + 1 < m
    <3>1. AtSteady(w, m, q + 1, 0) /\ k + 1 = 3 * w + 1 + 4 * (q + 1) + 0
      BY <1>3, <2>3, SteadyIs
    <3> QED BY <1>3, <2>1, <2>3, <3>1 DEF AtSteady, Counted, One, Names, Saving
  <2>4. CASE r = 3 /\ q + 1 = m
    <3>1. AtCooling(w, m, 0, 0) /\ k + 1 = 3 * w + 4 * m + 1 + 3 * 0 + 0
      BY <1>3, <2>4, CoolingIs
    <3> QED BY <1>3, <2>1, <2>4, <3>1 DEF AtSteady, AtCooling, Counted, One, Names, Saving
  <2> QED BY <1>3, <2>2, <2>3, <2>4
<1>4. ASSUME NEW q \in Nat, NEW r \in 0 .. 2, k = 3 * w + 4 * m + 1 + 3 * q + r
      PROVE Counted(w, m, k)
  <2>1. AtCooling(w, m, q, r)
    BY CoolingIs
  <2>2. CASE r # 2
    <3>1. AtCooling(w, m, q, r + 1) /\ k + 1 = 3 * w + 4 * m + 1 + 3 * q + (r + 1)
      BY <1>4, <2>2, CoolingIs
    <3> QED BY <1>4, <2>1, <2>2, <3>1 DEF AtCooling, Counted, One, Names, Saving
  <2>3. CASE r = 2
    <3>1. AtCooling(w, m, q + 1, 0) /\ k + 1 = 3 * w + 4 * m + 1 + 3 * (q + 1) + 0
      BY <1>4, <2>3, CoolingIs
    <3> QED BY <1>4, <2>1, <2>3, <3>1 DEF AtCooling, Counted, One, Names, Saving
  <2> QED BY <2>2, <2>3
<1>5. \/ \E q \in Nat, r \in 0 .. 2 : q < w /\ k = 3 * q + r
      \/ k = 3 * w
      \/ \E q \in Nat, r \in 0 .. 3 : q < m /\ k = 3 * w + 1 + 4 * q + r
      \/ \E q \in Nat, r \in 0 .. 2 : k = 3 * w + 4 * m + 1 + 3 * q + r
  BY PlaceIs
<1> QED BY <1>1, <1>2, <1>3, <1>4, <1>5

\* What is saved and not yet popped, at any place of a training step: one more
\* than the warm-up at most, something where something is popped, and nothing
\* at the end.
Bounded(w, m, k) ==
  /\ Saves(w, m, k) - Backwards(w, m, k) \in 0 .. w + 1
  /\ CallAfter(w, m, k) = "backward_step" => Saves(w, m, k) - Backwards(w, m, k) > 0
  /\ Forwards(w, m, k) \in 0 .. w + m
  /\ CallAfter(w, m, k) = "forward_step" => Forwards(w, m, k) < w + m

LEMMA HeldIs ==
  ASSUME NEW w \in Nat, NEW m \in Nat
  PROVE  /\ \A k \in 0 .. 6 * w + 4 * m : Bounded(w, m, k)
         /\ Saves(w, m, 0) = 0 /\ Backwards(w, m, 0) = 0 /\ Forwards(w, m, 0) = 0
         /\ Forwards(w, m, 6 * w + 4 * m + 1) = w + m
         /\ Saves(w, m, 6 * w + 4 * m + 1) = w + m
         /\ Backwards(w, m, 6 * w + 4 * m + 1) = w + m
<1>1. Saves(w, m, 0) = 0 /\ Backwards(w, m, 0) = 0 /\ Forwards(w, m, 0) = 0
  BY DEF Saves, Backwards, Forwards
<1>2. AtCooling(w, m, w, 0) /\ 3 * w + 4 * m + 1 + 3 * w + 0 = 6 * w + 4 * m + 1
  BY CoolingIs
<1>3. ASSUME NEW k \in 0 .. 6 * w + 4 * m PROVE Bounded(w, m, k)
  <2>1. ASSUME NEW q \in Nat, NEW r \in 0 .. 2, q < w, k = 3 * q + r PROVE Bounded(w, m, k)
    <3>1. AtWarmup(w, m, q, r)
      BY <2>1, WarmupIs
    <3>2. /\ Saves(w, m, k) - Backwards(w, m, k) = q
          /\ Forwards(w, m, k) = IF r = 2 THEN q + 1 ELSE q
          /\ CallAfter(w, m, k) # "backward_step"
          /\ CallAfter(w, m, k) = "forward_step" => r = 1
      BY <2>1, <3>1 DEF AtWarmup
    <3> QED BY <2>1, <3>2 DEF Bounded
  <2>2. CASE k = 3 * w
    <3>1. AtTurn(w, m)
      BY TurnIs
    <3> QED BY <2>2, <3>1 DEF AtTurn, Bounded
  <2>3. ASSUME NEW q \in Nat, NEW r \in 0 .. 3, q < m, k = 3 * w + 1 + 4 * q + r
        PROVE Bounded(w, m, k)
    <3>1. AtSteady(w, m, q, r)
      BY <2>3, SteadyIs
    <3>2. Saves(w, m, k) - Backwards(w, m, k) = w + IF r = 2 THEN 1 ELSE 0
      BY <2>3, <3>1 DEF AtSteady
    <3>3. /\ Forwards(w, m, k) = w + IF r = 0 THEN q ELSE q + 1
          /\ CallAfter(w, m, k) = "forward_step" => r = 0
          /\ CallAfter(w, m, k) = "backward_step" => r = 2
      BY <2>3, <3>1 DEF AtSteady
    <3> QED BY <2>3, <3>2, <3>3 DEF Bounded
  <2>4. ASSUME NEW q \in Nat, NEW r \in 0 .. 2, k = 3 * w + 4 * m + 1 + 3 * q + r
        PROVE Bounded(w, m, k)
    <3>1. AtCooling(w, m, q, r) /\ q < w
      BY <2>4, CoolingIs
    <3> QED BY <2>4, <3>1 DEF AtCooling, Bounded
  <2>5. \/ \E q \in Nat, r \in 0 .. 2 : q < w /\ k = 3 * q + r
        \/ k = 3 * w
        \/ \E q \in Nat, r \in 0 .. 3 : q < m /\ k = 3 * w + 1 + 4 * q + r
        \/ \E q \in Nat, r \in 0 .. 2 : k = 3 * w + 4 * m + 1 + 3 * q + r
    <3>1. k \in Nat
      OBVIOUS
    <3> QED BY <3>1, PlaceIs
  <2> QED BY <2>1, <2>2, <2>3, <2>4, <2>5
<1> QED BY <1>1, <1>2, <1>3 DEF AtCooling

LEMMA EvaluationIs ==
  ASSUME NEW w \in Nat, NEW m \in Nat
  PROVE  /\ \A k \in 0 .. 3 * w - 1 :
              /\ CallAfter(w, m, k) \in {"recv_forward", "forward_step", "send_forward"}
              /\ Forwards(w, m, k) \in 0 .. w
              /\ CallAfter(w, m, k) = "forward_step" => Forwards(w, m, k) < w
         /\ Forwards(w, m, 0) = 0 /\ Forwards(w, m, 3 * w) = w
<1>1. Forwards(w, m, 0) = 0
  BY DEF Forwards
<1>2. Forwards(w, m, 3 * w) = w
  BY TurnIs DEF AtTurn
<1>3. ASSUME NEW k \in 0 .. 3 * w - 1
      PROVE  /\ CallAfter(w, m, k) \in {"recv_forward", "forward_step", "send_forward"}
             /\ Forwards(w, m, k) \in 0 .. w
             /\ CallAfter(w, m, k) = "forward_step" => Forwards(w, m, k) < w
  <2>1. PICK q \in Nat, r \in 0 .. 2 : k = 3 * q + r
    BY ByThree
  <2>2. AtWarmup(w, m, q, r) /\ q < w
    BY <2>1, WarmupIs
  <2> QED BY <2>1, <2>2 DEF AtWarmup
<1> QED BY <1>1, <1>2, <1>3

-----------------------------------------------------------------------------
(* The list of calls that are left.                                        *)

\* n of the calls, from the one after p others.
Piece(w, m, list, p, n) ==
  /\ list \in Seq(Names) /\ Len(list) = n
  /\ \A i \in 1 .. n : list[i] = CallAfter(w, m, (p + i) - 1)

\* After k of n calls.
Left(w, m, n, k) == [i \in 1 .. n - k |-> CallAfter(w, m, (k + i) - 1)]

LEMMA LeftIs ==
  ASSUME NEW w \in Nat, NEW m \in Nat, NEW n \in Nat, NEW k \in 0 .. n
  PROVE  Piece(w, m, Left(w, m, n, k), k, n - k)
<1>1. \A i \in 1 .. n - k : CallAfter(w, m, (k + i) - 1) \in Names
  BY CountsAre DEF Counted
<1> QED BY <1>1 DEF Left, Piece

LEMMA LeftNext ==
  ASSUME NEW w \in Nat, NEW m \in Nat, NEW n \in Nat, NEW k \in 0 .. n
  PROVE  /\ Left(w, m, n, k) = <<>> <=> k = n
         /\ k < n => /\ Head(Left(w, m, n, k)) = CallAfter(w, m, k)
                     /\ Tail(Left(w, m, n, k)) = Left(w, m, n, k + 1)
<1> DEFINE c == Left(w, m, n, k)
           d == Left(w, m, n, k + 1)
<1>1. Piece(w, m, c, k, n - k)
  BY LeftIs
<1>2. c = <<>> <=> k = n
  <2> HIDE DEF c
  <2> QED BY <1>1 DEF Piece
<1>3. ASSUME k < n
      PROVE  Head(c) = CallAfter(w, m, k) /\ Tail(c) = d
  <2>1. Piece(w, m, d, k + 1, n - (k + 1))
    <3>1. k + 1 \in 0 .. n
      BY <1>3
    <3> QED BY <3>1, LeftIs
  <2> HIDE DEF c, d
  <2>2. Head(c) = CallAfter(w, m, (k + 1) - 1)
    BY <1>1, <1>3 DEF Piece
  <2>3. (k + 1) - 1 = k
    OBVIOUS
  <2>4. Tail(c) \in Seq(Names) /\ Len(Tail(c)) = n - (k + 1)
    BY <1>1, <1>3 DEF Piece
  <2>5. ASSUME NEW i \in 1 .. n - (k + 1) PROVE Tail(c)[i] = d[i]
    <3>1. Tail(c)[i] = c[i + 1] /\ i + 1 \in 1 .. n - k
      BY <1>1, <1>3 DEF Piece
    <3>2. c[i + 1] = CallAfter(w, m, (k + (i + 1)) - 1)
      BY <1>1, <3>1 DEF Piece
    <3>3. (k + (i + 1)) - 1 = ((k + 1) + i) - 1
      OBVIOUS
    <3> QED BY <2>1, <3>1, <3>2, <3>3 DEF Piece
  <2>6. Tail(c) = d
    BY <2>1, <2>4, <2>5, SameSeq DEF Piece
  <2> QED BY <2>2, <2>3, <2>6
<1> QED BY <1>2, <1>3

LEMMA EvalCallsAre ==
  ASSUME NEW w \in Nat, NEW m \in Nat
  PROVE  EvalCalls(w) = Left(w, m, 3 * w, 0)
<1>1. ASSUME NEW k \in 1 .. 3 * w
      PROVE  <<"recv_forward", "forward_step", "send_forward">>[((k - 1) % 3) + 1]
               = CallAfter(w, m, (0 + k) - 1)
  <2>1. (0 + k) - 1 = k - 1 /\ k - 1 \in Nat /\ k - 1 < 3 * w
    OBVIOUS
  <2>2. CallAfter(w, m, k - 1) = Triple(k - 1)
    BY <2>1 DEF CallAfter
  <2>3. (k - 1) % 3 \in 0 .. 2
    OBVIOUS
  <2> QED BY <2>1, <2>2, <2>3 DEF Triple
<1>2. 3 * w - 0 = 3 * w
  OBVIOUS
<1> QED BY <1>1, <1>2 DEF EvalCalls, Left

LEMMA PieceIs ==
  ASSUME NEW w \in Nat, NEW m \in Nat, NEW p \in Nat, NEW n \in Nat
  PROVE  Piece(w, m, [i \in 1 .. n |-> CallAfter(w, m, (p + i) - 1)], p, n)
<1>1. \A i \in 1 .. n : CallAfter(w, m, (p + i) - 1) \in Names
  BY CountsAre DEF Counted
<1> QED BY <1>1 DEF Piece

LEMMA PiecesJoin ==
  ASSUME NEW w \in Nat, NEW m \in Nat, NEW p \in Nat, NEW q \in Nat, NEW d, NEW e,
         Piece(w, m, d, 0, p), Piece(w, m, e, p, q)
  PROVE  Piece(w, m, d \o e, 0, p + q)
<1>1. /\ d \o e \in Seq(Names) /\ Len(d \o e) = p + q
      /\ \A i \in 1 .. p : (d \o e)[i] = d[i]
      /\ \A i \in p + 1 .. p + q : (d \o e)[i] = e[i - p]
  <2>1. d \in Seq(Names) /\ e \in Seq(Names) /\ Len(d) = p /\ Len(e) = q
    BY DEF Piece
  <2>2. /\ d \o e \in Seq(Names) /\ Len(d \o e) = Len(d) + Len(e)
        /\ \A i \in 1 .. Len(d) : (d \o e)[i] = d[i]
        /\ \A i \in Len(d) + 1 .. Len(d) + Len(e) : (d \o e)[i] = e[i - Len(d)]
    BY <2>1, ConcatFacts
  <2> QED BY <2>1, <2>2
<1>2. ASSUME NEW i \in 1 .. p + q PROVE (d \o e)[i] = CallAfter(w, m, (0 + i) - 1)
  <2>1. CASE i <= p
    BY <1>1, <2>1 DEF Piece
  <2>2. CASE i > p
    <3>1. i \in p + 1 .. p + q /\ i - p \in 1 .. q /\ (p + (i - p)) - 1 = (0 + i) - 1
      BY <2>2
    <3>2. (d \o e)[i] = e[i - p] /\ e[i - p] = CallAfter(w, m, (p + (i - p)) - 1)
      BY <1>1, <3>1 DEF Piece
    <3> QED BY <3>1, <3>2
  <2>3. i <= p \/ i > p
    OBVIOUS
  <2> QED BY <2>1, <2>2, <2>3
<1> QED BY <1>1, <1>2 DEF Piece

LEMMA TrainCallsAre ==
  ASSUME NEW s \in Stages, NEW n \in Nat, NEW w \in Nat, NEW m \in Nat \ {0},
         w = Warmup(s, n), m = n - w
  PROVE  TrainCalls(s, n) = Left(w, m, 6 * w + 4 * m + 1, 0)
<1> DEFINE a == EvalCalls(w)
           b == [k \in 1 .. 1 |-> "recv_forward"]
           C(k) == <<"forward_step", "send_forward_recv_backward", "backward_step",
                     IF k = 4 * m THEN "send_backward"
                     ELSE "send_backward_recv_forward">>[((k - 1) % 4) + 1]
           c == [k \in 1 .. 4 * m |-> C(k)]
           D(k) == <<"recv_backward", "backward_step", "send_backward">>[((k - 1) % 3) + 1]
           d == [k \in 1 .. 3 * w |-> D(k)]
           e == Left(w, m, 6 * w + 4 * m + 1, 0)
<1>1. TrainCalls(s, n) = a \o b \o c \o d
  <2> DEFINE T(u, v, f) ==
        EvalCalls(u) \o [k \in 1 .. f |-> "recv_forward"]
        \o [k \in 1 .. 4 * v |->
              <<"forward_step", "send_forward_recv_backward", "backward_step",
                IF k = 4 * v THEN "send_backward"
                ELSE "send_backward_recv_forward">>[((k - 1) % 4) + 1]]
        \o [k \in 1 .. 3 * u |->
              <<"recv_backward", "backward_step", "send_backward">>[((k - 1) % 3) + 1]]
  <2>1. TrainCalls(s, n) = T(Warmup(s, n), n - Warmup(s, n),
                             IF n - Warmup(s, n) > 0 THEN 1 ELSE 0)
    BY ZenonT(30) DEF TrainCalls
  <2>2. T(w, m, 1) = a \o b \o c \o d
    BY Zenon
  <2>3. Warmup(s, n) = w /\ n - Warmup(s, n) = m /\ (IF n - Warmup(s, n) > 0 THEN 1 ELSE 0) = 1
    OBVIOUS
  <2> HIDE DEF T, a, b, c, d
  <2> QED BY <2>1, <2>2, <2>3
<1>2. Piece(w, m, a, 0, 3 * w)
  <2>1. a = Left(w, m, 3 * w, 0) /\ 3 * w \in Nat /\ 3 * w - 0 = 3 * w
    BY EvalCallsAre
  <2>2. Piece(w, m, [i \in 1 .. 3 * w |-> CallAfter(w, m, (0 + i) - 1)], 0, 3 * w)
    BY <2>1, PieceIs
  <2> QED BY <2>1, <2>2 DEF Left
<1>3. Piece(w, m, b, 3 * w, 1)
  <2>1. CallAfter(w, m, 3 * w) = "recv_forward" /\ (3 * w + 1) - 1 = 3 * w
    BY TurnIs DEF AtTurn
  <2>2. b \in Seq(Names) /\ Len(b) = 1 /\ b[1] = "recv_forward"
    BY DEF Names
  <2>3. \A i \in 1 .. 1 : i = 1
    OBVIOUS
  <2> HIDE DEF b
  <2> QED BY <2>1, <2>2, <2>3 DEF Piece
<1>4. Piece(w, m, c, 3 * w + 1, 4 * m)
  <2>1. ASSUME NEW k \in 1 .. 4 * m PROVE C(k) = CallAfter(w, m, ((3 * w + 1) + k) - 1)
    <3> DEFINE p == 3 * w + k
    <3>1. /\ ~ (p < 3 * w) /\ p # 3 * w /\ p <= 3 * w + 4 * m /\ p - 3 * w - 1 = k - 1
          /\ (p = 3 * w + 4 * m <=> k = 4 * m) /\ ((3 * w + 1) + k) - 1 = p
      OBVIOUS
    <3> HIDE DEF p
    <3>2. CallAfter(w, m, p) = Quadruple(k - 1, k = 4 * m)
      BY <3>1 DEF CallAfter
    <3>3. (k - 1) % 4 \in 0 .. 3
      OBVIOUS
    <3>4. C(k) = Quadruple(k - 1, k = 4 * m)
      BY <3>3 DEF Quadruple
    <3> QED BY <3>1, <3>2, <3>4
  <2> HIDE DEF C
  <2>2. c = [k \in 1 .. 4 * m |-> CallAfter(w, m, ((3 * w + 1) + k) - 1)]
    BY <2>1
  <2>3. 3 * w + 1 \in Nat /\ 4 * m \in Nat
    OBVIOUS
  <2> HIDE DEF c
  <2> QED BY <2>2, <2>3, PieceIs
<1>5. Piece(w, m, d, 3 * w + 1 + 4 * m, 3 * w)
  <2>1. ASSUME NEW k \in 1 .. 3 * w PROVE D(k) = CallAfter(w, m, ((3 * w + 1 + 4 * m) + k) - 1)
    <3> DEFINE p == 3 * w + 4 * m + k
    <3>1. ~ (p < 3 * w) /\ p # 3 * w /\ ~ (p <= 3 * w + 4 * m)
          /\ p - 3 * w - 4 * m - 1 = k - 1 /\ ((3 * w + 1 + 4 * m) + k) - 1 = p
      OBVIOUS
    <3> HIDE DEF p
    <3>2. CallAfter(w, m, p) = Cooling(k - 1)
      BY <3>1 DEF CallAfter
    <3>3. (k - 1) % 3 \in 0 .. 2
      OBVIOUS
    <3>4. D(k) = Cooling(k - 1)
      BY <3>3 DEF Cooling
    <3> QED BY <3>1, <3>2, <3>4
  <2> HIDE DEF D
  <2>2. d = [k \in 1 .. 3 * w |-> CallAfter(w, m, ((3 * w + 1 + 4 * m) + k) - 1)]
    BY <2>1
  <2>3. 3 * w + 1 + 4 * m \in Nat /\ 3 * w \in Nat
    OBVIOUS
  <2> HIDE DEF d
  <2> QED BY <2>2, <2>3, PieceIs
<1>6. Piece(w, m, e, 0, 6 * w + 4 * m + 1)
  <2> DEFINE l == 6 * w + 4 * m + 1
  <2>1. l \in Nat /\ l - 0 = l
    OBVIOUS
  <2>2. e = [i \in 1 .. l - 0 |-> CallAfter(w, m, (0 + i) - 1)]
    BY DEF Left
  <2> HIDE DEF l, e
  <2>3. Piece(w, m, e, 0, l)
    BY <2>1, <2>2, PieceIs
  <2> QED BY <2>3 DEF l
<1> HIDE DEF a, b, c, d, e
<1>7. Piece(w, m, a \o b, 0, 3 * w + 1)
  BY <1>2, <1>3, PiecesJoin
<1>8. Piece(w, m, (a \o b) \o c, 0, 3 * w + 1 + 4 * m)
  <2> DEFINE f == a \o b
             p == 3 * w + 1
             q == 4 * m
  <2>1. Piece(w, m, f, 0, p) /\ Piece(w, m, c, p, q) /\ p \in Nat /\ q \in Nat /\ m \in Nat
    BY <1>4, <1>7
  <2> HIDE DEF f, p, q
  <2>2. Piece(w, m, f \o c, 0, p + q)
    BY <2>1, PiecesJoin
  <2> QED BY <2>2 DEF f, p, q
<1>9. Piece(w, m, ((a \o b) \o c) \o d, 0, 3 * w + 1 + 4 * m + 3 * w)
  <2>1. 3 * w + 1 + 4 * m \in Nat /\ 3 * w \in Nat
    OBVIOUS
  <2> QED BY <1>5, <1>8, <2>1, PiecesJoin
<1>10. 3 * w + 1 + 4 * m + 3 * w = 6 * w + 4 * m + 1
  OBVIOUS
<1>11. ((a \o b) \o c) \o d = e
  <2> DEFINE f == ((a \o b) \o c) \o d
  <2>1. f \in Seq(Names) /\ e \in Seq(Names) /\ Len(f) = Len(e)
    BY <1>6, <1>9, <1>10 DEF Piece
  <2>2. \A i \in 1 .. Len(f) : f[i] = e[i]
    BY <1>6, <1>9, <1>10 DEF Piece
  <2> HIDE DEF f
  <2>3. f = e
    BY <2>1, <2>2, SameSeq
  <2> QED BY <2>3 DEF f
<1> QED BY <1>1, <1>11 DEF e

-----------------------------------------------------------------------------
(* Batches and attributes.                                                 *)

\* n microbatches are enough, and no more than are needed.
Covers(n, size, rows) == n * size >= rows /\ (n - 1) * size < rows

LEMMA Times ==
  ASSUME NEW a \in Nat, NEW b \in Nat, NEW c \in Nat, a <= b
  PROVE  a * c <= b * c /\ a * c \in Nat /\ b * c \in Nat
<1>1. PICK d \in Nat : b = a + d
  <2>1. b - a \in Nat /\ b = a + (b - a)
    OBVIOUS
  <2> QED BY <2>1
<1>2. b * c = a * c + d * c /\ d * c \in Nat /\ a * c \in Nat
  BY <1>1
<1> QED BY <1>2

LEMMA ProductCovers ==
  ASSUME NEW n \in Positive, NEW size \in Positive
  PROVE  Covers(n, size, size * n)
<1>1. (n - 1) * size = n * size - size /\ size * n = n * size /\ n * size \in Nat
  BY DEF Positive
<1> QED BY <1>1 DEF Covers, Positive

LEMMA QuotientCovers ==
  ASSUME NEW rows \in Positive, NEW size \in Positive
  PROVE  /\ EvalMicrobatches(rows, size) \in Positive
         /\ Covers(EvalMicrobatches(rows, size), size, rows)
<1> DEFINE q == (rows - 1) \div size
           r == (rows - 1) % size
<1>1. q \in Nat /\ r \in 0 .. size - 1 /\ rows - 1 = size * q + r
  BY DEF Positive
<1> HIDE DEF q, r
<1>2. (q + 1) * size = size * q + size /\ ((q + 1) - 1) * size = size * q /\ size * q \in Nat
  BY <1>1 DEF Positive
<1>3. Covers(q + 1, size, rows)
  BY <1>1, <1>2 DEF Covers, Positive
<1> QED BY <1>1, <1>3 DEF q, EvalMicrobatches, Positive

Fields == {"num", "size", "cache", "last", "send_tensor", "send_grad", "tensor_recv", "grad_recv"}
Attributes(a) ==
  /\ a = [f \in Fields |-> a[f]]
  /\ a.num \in Sizes /\ a.size \in Sizes /\ (a.num # None \/ a.size # None)

LEMMA SizedIs ==
  ASSUME NEW a, Attributes(a), NEW rows \in Positive, Sized(a, rows) # None
  PROVE  /\ Attributes(Sized(a, rows)) /\ Sized(a, rows).num \in Positive
         /\ Sized(a, rows).size \in Positive
<1>1. CASE a.size = None
  <2>1. a.num \in Positive /\ rows % a.num = 0 /\ Sized(a, rows) = [a EXCEPT !.size = rows \div a.num]
    BY <1>1 DEF Sized, Divides, Attributes, Sizes, Positive
  <2> DEFINE n == a.num
             q == rows \div n
             b == [a EXCEPT !.size = q]
  <2>2. q \in Nat /\ rows = n * q + (rows % n)
    BY <2>1 DEF Positive
  <2> HIDE DEF q
  <2>3. q # 0
    BY <2>1, <2>2 DEF Positive
  <2>4. b = [f \in Fields |-> b[f]] /\ b.size = q /\ b.num = n
    BY DEF Attributes, Fields
  <2> HIDE DEF b, n
  <2>5. Sized(a, rows) = b
    BY <2>1 DEF b, q, n
  <2>6. n \in Positive /\ q \in Positive
    BY <2>1, <2>2, <2>3 DEF Positive, n
  <2>7. n # None \/ q # None
    BY <1>1 DEF Attributes, n
  <2> QED BY <2>4, <2>5, <2>6, <2>7 DEF Attributes, Sizes, Positive
<1>2. CASE a.size # None /\ a.num = None
  <2>1. a.size \in Positive /\ rows % a.size = 0 /\ Sized(a, rows) = [a EXCEPT !.num = rows \div a.size]
    BY <1>2 DEF Sized, Divides, Attributes, Sizes, Positive
  <2> DEFINE n == a.size
             q == rows \div n
             b == [a EXCEPT !.num = q]
  <2>2. q \in Nat /\ rows = n * q + (rows % n)
    BY <2>1 DEF Positive
  <2> HIDE DEF q
  <2>3. q # 0
    BY <2>1, <2>2 DEF Positive
  <2>4. b = [f \in Fields |-> b[f]] /\ b.num = q /\ b.size = n
    BY DEF Attributes, Fields
  <2> HIDE DEF b, n
  <2>5. Sized(a, rows) = b
    BY <2>1 DEF b, q, n
  <2>6. n \in Positive /\ q \in Positive
    BY <2>1, <2>2, <2>3 DEF Positive, n
  <2>7. n # None
    BY <1>2 DEF n
  <2> QED BY <2>4, <2>5, <2>6, <2>7 DEF Attributes, Sizes, Positive
<1>3. CASE a.size # None /\ a.num # None
  BY <1>3 DEF Sized, Attributes, Sizes, Positive
<1> QED BY <1>1, <1>2, <1>3

\* What load_batch leaves: sizes that are known and cover the batch.
LEMMA LoadedIs ==
  ASSUME NEW a, Attributes(a), NEW b \in Steps, Loaded(a, b) # None
  PROVE  LET l == Loaded(a, b) IN
         /\ Attributes(l) /\ l.num \in Positive /\ l.size \in Positive
         /\ Covers(l.num, l.size, b.rows) /\ (b.train => l.num >= NumStages)
<1> DEFINE d == Sized(a, b.rows)
           e == [d EXCEPT !.num = EvalMicrobatches(b.rows, d.size), !.last = b.rows]
           f == [d EXCEPT !.last = b.rows]
           l == Loaded(a, b)
<1>1. b.rows \in Positive /\ b.train \in BOOLEAN
  BY DEF Steps
<1>2. d # None
  BY DEF Loaded
<1>3. Attributes(d) /\ d.num \in Positive /\ d.size \in Positive
  BY <1>1, <1>2, SizedIs
<1>4. CASE b.train
  <2>1. TrainingAsserts(d, b.rows) /\ l = f
    BY <1>2, <1>4 DEF Loaded
  <2>2. f = [g \in Fields |-> f[g]] /\ f.num = d.num /\ f.size = d.size
    BY <1>3 DEF Attributes, Fields
  <2>3. b.rows = d.size * d.num /\ d.num >= NumStages
    BY <2>1 DEF TrainingAsserts
  <2> HIDE DEF d, f, l
  <2>4. Covers(d.num, d.size, b.rows)
    BY <1>3, <2>3, ProductCovers
  <2>5. Attributes(f)
    BY <1>3, <2>2 DEF Attributes
  <2>6. /\ Attributes(l) /\ l.num \in Positive /\ l.size \in Positive
        /\ Covers(l.num, l.size, b.rows) /\ (b.train => l.num >= NumStages)
    BY <1>3, <2>1, <2>2, <2>3, <2>4, <2>5
  <2> QED BY <2>6 DEF l
<1>5. CASE ~ b.train
  <2> DEFINE n == EvalMicrobatches(b.rows, d.size)
  <2>1. l = e \/ l = DropCache(e)
    BY <1>2, <1>5 DEF Loaded
  <2>2. n \in Positive /\ Covers(n, d.size, b.rows)
    BY <1>1, <1>3, QuotientCovers
  <2> HIDE DEF n
  <2>3. e = [g \in Fields |-> e[g]] /\ e.num = n /\ e.size = d.size
    BY <1>3 DEF Attributes, Fields, n
  <2> HIDE DEF d, e, l
  <2>4. /\ DropCache(e) = [g \in Fields |-> DropCache(e)[g]]
        /\ DropCache(e).num = n /\ DropCache(e).size = d.size
    BY <2>3 DEF DropCache, Fields
  <2>5. l = [g \in Fields |-> l[g]] /\ l.num = n /\ l.size = d.size
    BY <2>1, <2>3, <2>4
  <2>6. Attributes(l)
    <3>1. l.num # None \/ l.size # None
      BY <2>2, <2>5, PipelineAssumption DEF Positive
    <3> QED BY <1>3, <2>2, <2>5, <3>1 DEF Attributes, Sizes, Positive
  <2>7. /\ Attributes(l) /\ l.num \in Positive /\ l.size \in Positive
        /\ Covers(l.num, l.size, b.rows) /\ (b.train => l.num >= NumStages)
    BY <1>3, <1>5, <2>2, <2>5, <2>6
  <2> QED BY <2>7 DEF l
<1> QED BY <1>1, <1>4, <1>5

-----------------------------------------------------------------------------
(* One stage.                                                              *)

IsSeq(q) == \E S : q \in Seq(S)

LEMMA SeqFacts ==
  ASSUME NEW q, IsSeq(q), NEW x
  PROVE  /\ IsSeq(<<>>) /\ Len(q) \in Nat /\ (Len(q) = 0 <=> q = <<>>)
         /\ IsSeq(Append(q, x)) /\ Len(Append(q, x)) = Len(q) + 1
         /\ Len(q) > 0 => IsSeq(Tail(q)) /\ Len(Tail(q)) = Len(q) - 1
<1>1. PICK S : q \in Seq(S)
  BY DEF IsSeq
<1> DEFINE X == S \cup {x}
<1>2. q \in Seq(X) /\ x \in X
  BY <1>1
<1> HIDE DEF X
<1>3. Append(q, x) \in Seq(X) /\ Len(Append(q, x)) = Len(q) + 1 /\ Len(q) \in Nat
  BY <1>2
<1>4. Len(q) = 0 <=> q = <<>>
  BY <1>2
<1>5. Len(q) > 0 => Tail(q) \in Seq(X) /\ Len(Tail(q)) = Len(q) - 1
  BY <1>2
<1>6. <<>> \in Seq(X)
  OBVIOUS
<1> QED BY <1>3, <1>4, <1>5, <1>6 DEF IsSeq

\* The microbatches of the warm-up and those of the steady state, the calls of
\* the step, and what is held after k of them.
Warm(s)  == IF Batch(s).train THEN Warmup(s, sched[s].num) ELSE sched[s].num
Turns(s) == sched[s].num - Warm(s)
Total(s) == IF Batch(s).train THEN 6 * Warm(s) + 4 * Turns(s) + 1 ELSE 3 * Warm(s)
Holding(s, k) ==
  IF Batch(s).train THEN Saves(Warm(s), Turns(s), k) - Backwards(Warm(s), Turns(s), k) ELSE 0

AtPlace(s, k) ==
  /\ todo[s] = Left(Warm(s), Turns(s), Total(s), k)
  /\ loaded[s] = Forwards(Warm(s), Turns(s), k)
  /\ Len(saved[s]) = Holding(s, k)

InStep(s) ==
  /\ step[s] \in 1 .. Len(script)
  /\ sched[s].num \in Positive /\ sched[s].size \in Positive
  /\ Covers(sched[s].num, sched[s].size, Batch(s).rows)
  /\ Batch(s).train => sched[s].num >= NumStages
  /\ \E k \in 0 .. Total(s) : AtPlace(s, k)

Resting(s) == todo[s] = <<>> /\ saved[s] = <<>>

Typed ==
  /\ script \in Seq(Steps) /\ step \in [Stages -> Nat] /\ failed \subseteq Stages
  /\ sched = [s \in Stages |-> sched[s]] /\ todo = [s \in Stages |-> todo[s]]
  /\ loaded = [s \in Stages |-> loaded[s]] /\ saved = [s \in Stages |-> saved[s]]
  /\ comm = [s \in Stages |-> comm[s]]

AtStage(s) ==
  /\ Attributes(sched[s]) /\ IsSeq(saved[s])
  /\ comm[s] # None => todo[s] # <<>> /\ s \notin failed
  /\ IF s \in failed \/ step[s] = 0 THEN Resting(s) ELSE InStep(s)

Local == Typed /\ \A s \in Stages : AtStage(s)

\* The numbers of a step under way, with what they are in training and in
\* evaluation.
LEMMA NumbersAre ==
  ASSUME Local, NEW s \in Stages, InStep(s)
  PROVE  /\ Warm(s) \in Nat /\ Turns(s) \in Nat /\ Warm(s) + Turns(s) = sched[s].num
         /\ Total(s) \in Nat /\ Batch(s) \in Steps
         /\ Batch(s).train => Turns(s) > 0 /\ Warm(s) = NumStages - s - 1
         /\ ~ Batch(s).train => Turns(s) = 0
<1>1. Batch(s) \in Steps
  BY DEF Local, Typed, InStep, Batch
<1>2. s \in 0 .. NumStages - 1 /\ NumStages \in Nat
  BY PipelineAssumption DEF Stages
<1>3. CASE Batch(s).train
  <2>1. sched[s].num \in Nat /\ sched[s].num >= NumStages
    BY <1>3 DEF InStep, Positive
  <2>2. Warm(s) = NumStages - s - 1
    BY <1>2, <1>3, <2>1 DEF Warm, Warmup, Fewer
  <2>3. Turns(s) = sched[s].num - Warm(s)
    BY DEF Turns
  <2>4. Warm(s) \in Nat /\ Turns(s) \in Nat /\ Turns(s) > 0 /\ Warm(s) + Turns(s) = sched[s].num
    BY <1>2, <2>1, <2>2, <2>3
  <2>5. Total(s) = 6 * Warm(s) + 4 * Turns(s) + 1
    BY <1>3 DEF Total
  <2> QED BY <1>1, <1>3, <2>2, <2>4, <2>5
<1>4. CASE ~ Batch(s).train
  BY <1>1, <1>2, <1>4 DEF InStep, Warm, Turns, Total, Positive
<1> QED BY <1>1, <1>3, <1>4

\* At any place: as many held as the stages to come, something where something
\* is popped, a microbatch left where one is loaded.
LEMMA AtPlaceIs ==
  ASSUME Local, NEW s \in Stages, InStep(s), NEW k \in 0 .. Total(s), AtPlace(s, k)
  PROVE  /\ (todo[s] = <<>> <=> k = Total(s))
         /\ Len(saved[s]) \in 0 .. NumStages - s
         /\ k < Total(s) =>
              /\ Head(todo[s]) = CallAfter(Warm(s), Turns(s), k)
              /\ Tail(todo[s]) = Left(Warm(s), Turns(s), Total(s), k + 1)
              /\ Head(todo[s]) = "forward_step" => loaded[s] \in 0 .. sched[s].num - 1
              /\ Head(todo[s]) = "backward_step" => Batch(s).train /\ Len(saved[s]) > 0
         /\ k = Total(s) => loaded[s] = sched[s].num /\ Len(saved[s]) = 0
<1> DEFINE w == Warm(s)
           m == Turns(s)
           n == Total(s)
<1>1. /\ w \in Nat /\ m \in Nat /\ w + m = sched[s].num /\ n \in Nat /\ k \in 0 .. n
      /\ Batch(s).train => m > 0 /\ w = NumStages - s - 1
      /\ ~ Batch(s).train => m = 0
  BY NumbersAre
<1>2. n = IF Batch(s).train THEN 6 * w + 4 * m + 1 ELSE 3 * w
  BY DEF Total
<1>3. /\ todo[s] = Left(w, m, n, k) /\ loaded[s] = Forwards(w, m, k)
      /\ Len(saved[s]) = IF Batch(s).train THEN Saves(w, m, k) - Backwards(w, m, k) ELSE 0
  BY DEF AtPlace, Holding
<1>4. s \in 0 .. NumStages - 1 /\ NumStages \in Nat
  BY PipelineAssumption DEF Stages
<1> HIDE DEF w, m, n
<1>5. /\ (todo[s] = <<>> <=> k = n)
      /\ k < n => Head(todo[s]) = CallAfter(w, m, k) /\ Tail(todo[s]) = Left(w, m, n, k + 1)
  <2>1. /\ Left(w, m, n, k) = <<>> <=> k = n
        /\ k < n => /\ Head(Left(w, m, n, k)) = CallAfter(w, m, k)
                    /\ Tail(Left(w, m, n, k)) = Left(w, m, n, k + 1)
    <3>1. w \in Nat /\ m \in Nat /\ n \in Nat /\ k \in 0 .. n
      BY <1>1
    <3> QED BY <3>1, LeftNext
  <2> QED BY <1>3, <2>1
<1>6. CASE Batch(s).train
  <2>1. k < n => k \in 0 .. 6 * w + 4 * m
    BY <1>1, <1>2, <1>6
  <2>2. k < n => Bounded(w, m, k)
    BY <1>1, <2>1, HeldIs
  <2>3. k = n => loaded[s] = w + m /\ Len(saved[s]) = 0
    <3>1. /\ Forwards(w, m, 6 * w + 4 * m + 1) = w + m
          /\ Saves(w, m, 6 * w + 4 * m + 1) = w + m
          /\ Backwards(w, m, 6 * w + 4 * m + 1) = w + m
      BY <1>1, HeldIs
    <3>2. n = 6 * w + 4 * m + 1
      BY <1>2, <1>6
    <3> QED BY <1>1, <1>3, <1>6, <3>1, <3>2
  <2>4. Len(saved[s]) \in 0 .. w + 1
    <3>1. CASE k < n
      BY <1>3, <1>6, <2>2, <3>1 DEF Bounded
    <3>2. CASE k = n
      BY <1>1, <2>3, <3>2
    <3> QED BY <1>1, <3>1, <3>2
  <2>5. Len(saved[s]) \in 0 .. NumStages - s
    BY <1>1, <1>4, <1>6, <2>4
  <2>6. k < n => /\ Head(todo[s]) = "forward_step" => loaded[s] \in 0 .. sched[s].num - 1
                 /\ Head(todo[s]) = "backward_step" => Len(saved[s]) > 0
    BY <1>1, <1>3, <1>5, <1>6, <2>2 DEF Bounded
  <2> QED BY <1>1, <1>5, <1>6, <2>3, <2>5, <2>6 DEF w, m, n
<1>7. CASE ~ Batch(s).train
  <2>1. k < n => k \in 0 .. 3 * w - 1
    BY <1>1, <1>2, <1>7
  <2>2. k < n => /\ CallAfter(w, m, k) \in {"recv_forward", "forward_step", "send_forward"}
                 /\ Forwards(w, m, k) \in 0 .. w
                 /\ CallAfter(w, m, k) = "forward_step" => Forwards(w, m, k) < w
    BY <1>1, <2>1, EvaluationIs
  <2>3. k = n => loaded[s] = w
    BY <1>1, <1>2, <1>3, <1>7, EvaluationIs
  <2>4. Len(saved[s]) = 0 /\ Len(saved[s]) \in 0 .. NumStages - s
    BY <1>3, <1>4, <1>7
  <2>5. k < n => /\ Head(todo[s]) = "forward_step" => loaded[s] \in 0 .. sched[s].num - 1
                 /\ Head(todo[s]) # "backward_step"
    BY <1>1, <1>3, <1>5, <1>7, <2>2
  <2> QED BY <1>1, <1>5, <1>7, <2>3, <2>4, <2>5 DEF w, m, n
<1> QED BY <1>6, <1>7

\* A stage whose part of the state is the same, or the same but for what it
\* waits for and what it has cached.
SameStep(s) ==
  /\ script' = script /\ step'[s] = step[s] /\ (s \in failed' <=> s \in failed)
  /\ Attributes(sched'[s])
  /\ sched'[s].num = sched[s].num /\ sched'[s].size = sched[s].size

LEMMA NumbersStay ==
  ASSUME NEW s \in Stages, SameStep(s)
  PROVE  /\ Batch(s)' = Batch(s) /\ Warm(s)' = Warm(s) /\ Turns(s)' = Turns(s)
         /\ Total(s)' = Total(s)
<1>1. Batch(s)' = Batch(s)
  BY DEF SameStep, Batch
<1>2. Warm(s)' = Warm(s)
  BY <1>1 DEF SameStep, Warm, Warmup, Fewer
<1>3. Turns(s)' = Turns(s)
  BY <1>2 DEF SameStep, Turns
<1> QED BY <1>1, <1>2, <1>3 DEF Total

LEMMA Waits ==
  ASSUME NEW s \in Stages, AtStage(s), SameStep(s),
         todo'[s] = todo[s], loaded'[s] = loaded[s], saved'[s] = saved[s],
         comm'[s] # None => todo[s] # <<>> /\ s \notin failed
  PROVE  AtStage(s)'
<1>1. /\ Batch(s)' = Batch(s) /\ Warm(s)' = Warm(s) /\ Turns(s)' = Turns(s)
      /\ Total(s)' = Total(s)
  BY NumbersStay
<1>2. Resting(s) => Resting(s)'
  BY DEF Resting
<1>3. ASSUME InStep(s) PROVE InStep(s)'
  <2>1. PICK k \in 0 .. Total(s) : AtPlace(s, k)
    BY <1>3 DEF InStep
  <2>2. AtPlace(s, k)' /\ k \in 0 .. Total(s)'
    BY <1>1, <2>1 DEF AtPlace, Holding
  <2> HIDE DEF SameStep
  <2>3. /\ (step[s] \in 1 .. Len(script))'
        /\ (sched[s].num \in Positive)' /\ (sched[s].size \in Positive)'
        /\ Covers(sched[s].num, sched[s].size, Batch(s).rows)'
        /\ (Batch(s).train => sched[s].num >= NumStages)'
    BY <1>1, <1>3 DEF InStep, SameStep, Covers
  <2> QED BY <2>2, <2>3 DEF InStep
<1> QED BY <1>2, <1>3 DEF AtStage, SameStep

\* A stage is through with the call at the head of its list.
Advance(s) ==
  /\ SameStep(s) /\ s \notin failed /\ todo[s] # <<>> /\ comm'[s] = None
  /\ todo'[s] = Tail(todo[s])
  /\ loaded'[s] = loaded[s] + One(Head(todo[s]) = "forward_step")
  /\ IF Head(todo[s]) \in Saving /\ Batch(s).train THEN \E x : saved'[s] = Append(saved[s], x)
     ELSE saved'[s] = IF Head(todo[s]) = "backward_step" THEN Tail(saved[s]) ELSE saved[s]

LEMMA AdvanceKeeps ==
  ASSUME Local, NEW s \in Stages, Advance(s)
  PROVE  AtStage(s)'
<1>1. InStep(s) /\ SameStep(s) /\ IsSeq(saved[s])
  BY DEF Local, AtStage, Resting, Advance
<1>2. PICK k \in 0 .. Total(s) : AtPlace(s, k)
  BY <1>1 DEF InStep
<1> DEFINE w == Warm(s)
           m == Turns(s)
           n == Total(s)
           c == Head(todo[s])
<1>3. w \in Nat /\ m \in Nat /\ n \in Nat /\ k \in Nat
  BY <1>1, <1>2, NumbersAre
<1>4. /\ k < n /\ c = CallAfter(w, m, k) /\ Tail(todo[s]) = Left(w, m, n, k + 1)
      /\ c = "backward_step" => Batch(s).train /\ Len(saved[s]) > 0
  <2>1. todo[s] # <<>>
    BY DEF Advance
  <2> QED BY <1>1, <1>2, <1>3, <2>1, AtPlaceIs
<1>5. Batch(s)' = Batch(s) /\ Warm(s)' = w /\ Turns(s)' = m /\ Total(s)' = n
  BY <1>1, NumbersStay
<1>6. /\ loaded[s] = Forwards(w, m, k)
      /\ Len(saved[s]) = IF Batch(s).train THEN Saves(w, m, k) - Backwards(w, m, k) ELSE 0
  BY <1>2 DEF AtPlace, Holding
<1> HIDE DEF w, m, n, c
<1>7. Counted(w, m, k)
  BY <1>3, CountsAre
<1>8. /\ todo'[s] = Left(w, m, n, k + 1)
      /\ loaded'[s] = loaded[s] + One(c = "forward_step")
      /\ IF c \in Saving /\ Batch(s).train THEN \E x : saved'[s] = Append(saved[s], x)
         ELSE saved'[s] = IF c = "backward_step" THEN Tail(saved[s]) ELSE saved[s]
  BY <1>4 DEF Advance, c
<1>9. loaded'[s] = Forwards(w, m, k + 1)
  BY <1>4, <1>6, <1>7, <1>8 DEF Counted
<1>10. /\ Saves(w, m, k + 1) = Saves(w, m, k) + One(c \in Saving)
       /\ Backwards(w, m, k + 1) = Backwards(w, m, k) + One(c = "backward_step")
  BY <1>4, <1>7 DEF Counted
<1>11. Saves(w, m, k) \in Int /\ Backwards(w, m, k) \in Int
  BY <1>3 DEF Saves, Backwards
<1>12. /\ IsSeq(saved'[s])
       /\ Len(saved'[s]) = IF Batch(s).train THEN Saves(w, m, k + 1) - Backwards(w, m, k + 1) ELSE 0
  <2>1. CASE c \in Saving /\ Batch(s).train
    <3>1. PICK x : saved'[s] = Append(saved[s], x)
      BY <1>8, <2>1
    <3>2. IsSeq(saved'[s]) /\ Len(saved'[s]) = Len(saved[s]) + 1
      BY <1>1, <3>1, SeqFacts
    <3>3. One(c \in Saving) = 1 /\ One(c = "backward_step") = 0
      BY <2>1 DEF One, Saving
    <3> QED BY <1>6, <1>10, <1>11, <2>1, <3>2, <3>3
  <2>2. CASE c = "backward_step"
    <3>1. saved'[s] = Tail(saved[s]) /\ Batch(s).train /\ Len(saved[s]) > 0
      BY <1>4, <1>8, <2>2 DEF Saving
    <3>2. IsSeq(saved'[s]) /\ Len(saved'[s]) = Len(saved[s]) - 1
      BY <1>1, <3>1, SeqFacts
    <3>3. One(c \in Saving) = 0 /\ One(c = "backward_step") = 1
      BY <2>2 DEF One, Saving
    <3> QED BY <1>6, <1>10, <1>11, <3>1, <3>2, <3>3
  <2>3. CASE c # "backward_step" /\ ~ (c \in Saving /\ Batch(s).train)
    <3>1. saved'[s] = saved[s]
      BY <1>8, <2>3
    <3>2. Batch(s).train => One(c \in Saving) = 0 /\ One(c = "backward_step") = 0
      BY <2>3 DEF One
    <3> QED BY <1>1, <1>6, <1>10, <1>11, <2>3, <3>1, <3>2
  <2> QED BY <2>1, <2>2, <2>3
<1>13. AtPlace(s, k + 1)' /\ k + 1 \in 0 .. Total(s)'
  BY <1>3, <1>4, <1>5, <1>8, <1>9, <1>12 DEF AtPlace, Holding
<1>14. /\ (step[s] \in 1 .. Len(script))'
       /\ (sched[s].num \in Positive)' /\ (sched[s].size \in Positive)'
       /\ Covers(sched[s].num, sched[s].size, Batch(s).rows)'
       /\ (Batch(s).train => sched[s].num >= NumStages)'
  BY <1>1, <1>5 DEF InStep, SameStep, Covers
<1>15. InStep(s)'
  BY <1>13, <1>14 DEF InStep
<1>16. /\ Attributes(sched[s])' /\ s \notin failed' /\ comm'[s] = None
       /\ (step[s] # 0)'
  BY <1>1, <1>14 DEF SameStep, Advance
<1> QED BY <1>12, <1>15, <1>16 DEF AtStage

-----------------------------------------------------------------------------
(* The steps.                                                              *)

\* g is f, but for what it has at s.
At(g, f, s) == g = [t \in Stages |-> g[t]] /\ \A t \in Stages \ {s} : g[t] = f[t]

LEMMA AtFacts ==
  ASSUME NEW s \in Stages, NEW f, f = [t \in Stages |-> f[t]], NEW e
  PROVE  At(f, f, s) /\ At([f EXCEPT ![s] = e], f, s) /\ [f EXCEPT ![s] = e][s] = e
<1> DEFINE g == [f EXCEPT ![s] = e]
<1>1. g[s] = e /\ g = [t \in Stages |-> g[t]] /\ \A t \in Stages \ {s} : g[t] = f[t]
  OBVIOUS
<1> QED BY <1>1 DEF At

OnlyAt(s) ==
  /\ script' = script /\ step' \in [Stages -> Nat] /\ failed' \subseteq Stages
  /\ \A t \in Stages \ {s} : (t \in failed' <=> t \in failed) /\ step'[t] = step[t]
  /\ At(sched', sched, s) /\ At(todo', todo, s) /\ At(loaded', loaded, s)
  /\ At(saved', saved, s) /\ At(comm', comm, s)

LEMMA OneMoves ==
  ASSUME Local, NEW s \in Stages, OnlyAt(s), AtStage(s)'
  PROVE  Local'
<1>1. Typed'
  <2>1. script' \in Seq(Steps)
    BY DEF Local, Typed, OnlyAt
  <2> QED BY <2>1 DEF Typed, OnlyAt, At
<1>2. ASSUME NEW t \in Stages \ {s} PROVE AtStage(t)'
  <2>1. /\ step'[t] = step[t] /\ sched'[t] = sched[t] /\ todo'[t] = todo[t]
        /\ loaded'[t] = loaded[t] /\ saved'[t] = saved[t] /\ comm'[t] = comm[t]
        /\ (t \in failed' <=> t \in failed) /\ script' = script
    BY DEF OnlyAt, At
  <2>2. AtStage(t)
    BY DEF Local
  <2>3. SameStep(t) /\ (comm'[t] # None => todo[t] # <<>> /\ t \notin failed)
    BY <2>1, <2>2 DEF SameStep, AtStage
  <2> QED BY <2>1, <2>2, <2>3, Waits
<1>3. \A t \in Stages : AtStage(t)'
  BY <1>2
<1> QED BY <1>1, <1>3 DEF Local

LEMMA BeginKeeps ==
  ASSUME Local, NEW s \in Stages, BeginStep(s)
  PROVE  Local'
<1> DEFINE b == script[step[s] + 1]
           a == Loaded(sched[s], b)
<1>1. /\ s \notin failed /\ comm[s] = None /\ todo[s] = <<>> /\ step[s] < Len(script)
      /\ step' = [step EXCEPT ![s] = @ + 1] /\ script' = script /\ saved' = saved /\ comm' = comm
  BY DEF BeginStep, locals
<1>2. /\ step \in [Stages -> Nat] /\ script \in Seq(Steps) /\ failed \subseteq Stages
      /\ AtStage(s)
  BY DEF Local, Typed
<1>3. /\ step' \in [Stages -> Nat] /\ step'[s] = step[s] + 1
      /\ \A t \in Stages \ {s} : step'[t] = step[t]
  BY <1>1, <1>2
<1>4. step'[s] \in 1 .. Len(script) /\ b \in Steps /\ b = script[step'[s]]
  BY <1>1, <1>2, <1>3
<1>5. saved[s] = <<>>
  <2>1. CASE step[s] = 0
    BY <1>2, <2>1 DEF AtStage, Resting
  <2>2. CASE step[s] # 0
    <3>1. InStep(s)
      BY <1>1, <1>2, <2>2 DEF AtStage
    <3>2. PICK k \in 0 .. Total(s) : AtPlace(s, k)
      BY <3>1 DEF InStep
    <3>3. Len(saved[s]) = 0
      BY <1>1, <3>1, <3>2, AtPlaceIs
    <3> QED BY <1>2, <3>3, SeqFacts DEF AtStage
  <2> QED BY <2>1, <2>2
<1>6. IsSeq(saved'[s]) /\ saved'[s] = <<>> /\ comm'[s] = None /\ step'[s] # 0
  BY <1>1, <1>2, <1>3, <1>5 DEF AtStage
<1>7. /\ sched = [x \in Stages |-> sched[x]] /\ todo = [x \in Stages |-> todo[x]]
      /\ loaded = [x \in Stages |-> loaded[x]] /\ saved = [x \in Stages |-> saved[x]]
      /\ comm = [x \in Stages |-> comm[x]]
  BY DEF Local, Typed
<1>8. /\ At(sched, sched, s) /\ At(todo, todo, s) /\ At(loaded, loaded, s)
      /\ At(saved, saved, s) /\ At(comm, comm, s)
  BY <1>7, AtFacts
<1>9. CASE a = None
  <2>1. failed' = failed \cup {s} /\ sched' = sched /\ todo' = todo /\ loaded' = loaded
    BY <1>9 DEF BeginStep
  <2>2. OnlyAt(s)
    BY <1>1, <1>2, <1>3, <1>8, <2>1 DEF OnlyAt
  <2>3. AtStage(s)'
    <3>1. Resting(s)' /\ s \in failed'
      BY <1>1, <1>5, <2>1 DEF Resting
    <3>2. Attributes(sched'[s])
      BY <1>2, <2>1 DEF AtStage
    <3> QED BY <1>6, <3>1, <3>2 DEF AtStage
  <2> QED BY <2>2, <2>3, OneMoves
<1>10. CASE a # None
  <2> DEFINE c == IF b.train THEN TrainCalls(s, a.num) ELSE EvalCalls(a.num)
  <2>1. /\ failed' = failed /\ sched' = [sched EXCEPT ![s] = a]
        /\ todo' = [todo EXCEPT ![s] = c] /\ loaded' = [loaded EXCEPT ![s] = 0]
    BY <1>10 DEF BeginStep
  <2>2. /\ Attributes(a) /\ a.num \in Positive /\ a.size \in Positive
        /\ Covers(a.num, a.size, b.rows) /\ (b.train => a.num >= NumStages)
    <3>1. Attributes(sched[s])
      BY <1>2 DEF AtStage
    <3> HIDE DEF b
    <3> QED BY <1>4, <1>10, <3>1, LoadedIs
  <2> HIDE DEF a, c
  <2>3. /\ At(sched', sched, s) /\ At(todo', todo, s) /\ At(loaded', loaded, s)
        /\ sched'[s] = a /\ todo'[s] = c /\ loaded'[s] = 0
    BY <1>7, <2>1, AtFacts
  <2>4. OnlyAt(s)
    BY <1>1, <1>2, <1>3, <1>8, <2>1, <2>3 DEF OnlyAt
  <2>5. Batch(s)' = b
    BY <1>1, <1>4 DEF Batch
  <2> HIDE DEF b
  <2> DEFINE w == IF b.train THEN Warmup(s, a.num) ELSE a.num
             m == a.num - w
             n == IF b.train THEN 6 * w + 4 * m + 1 ELSE 3 * w
  <2>6. Warm(s)' = w /\ Turns(s)' = m /\ Total(s)' = n
    BY <2>3, <2>5 DEF Warm, Turns, Total, Warmup, Fewer
  <2>7. w \in Nat /\ m \in Nat /\ n \in Nat /\ (b.train => m \in Nat \ {0})
    BY <2>2, PipelineAssumption DEF Stages, Warmup, Fewer, Positive
  <2>8. c = Left(w, m, n, 0)
    <3>1. CASE b.train
      <4>1. c = TrainCalls(s, a.num) /\ w = Warmup(s, a.num) /\ n = 6 * w + 4 * m + 1
        BY <3>1 DEF c
      <4>2. m = a.num - w /\ a.num \in Nat
        BY <2>2 DEF Positive
      <4> HIDE DEF w, m, n
      <4>3. TrainCalls(s, a.num) = Left(w, m, 6 * w + 4 * m + 1, 0)
        BY <2>7, <3>1, <4>1, <4>2, TrainCallsAre
      <4> QED BY <4>1, <4>3
    <3>2. CASE ~ b.train
      <4>1. c = EvalCalls(w) /\ n = 3 * w
        BY <3>2 DEF c
      <4> HIDE DEF w, m, n
      <4>2. EvalCalls(w) = Left(w, m, 3 * w, 0)
        BY <2>7, EvalCallsAre
      <4> QED BY <4>1, <4>2
    <3> QED BY <3>1, <3>2
  <2>9. Holding(s, 0)' = 0 /\ Forwards(w, m, 0) = 0
    <3> HIDE DEF w, m, n
    <3>1. /\ Saves(w, m, 0) = 0 /\ Backwards(w, m, 0) = 0 /\ Forwards(w, m, 0) = 0
      BY <2>7, HeldIs
    <3> QED BY <2>6, <3>1 DEF Holding
  <2> HIDE DEF w, m, n
  <2>10. AtPlace(s, 0)' /\ 0 \in 0 .. Total(s)'
    <3>1. Len(saved'[s]) = 0
      BY <1>6
    <3>2. /\ todo'[s] = Left(Warm(s)', Turns(s)', Total(s)', 0)
          /\ loaded'[s] = Forwards(Warm(s)', Turns(s)', 0)
          /\ Len(saved'[s]) = Holding(s, 0)'
      BY <2>3, <2>6, <2>8, <2>9, <3>1
    <3> QED BY <2>6, <2>7, <3>2 DEF AtPlace
  <2>11. InStep(s)'
    BY <1>1, <1>4, <2>2, <2>3, <2>5, <2>10 DEF InStep
  <2>12. AtStage(s)'
    BY <1>1, <1>6, <2>1, <2>2, <2>3, <2>11 DEF AtStage
  <2> QED BY <2>4, <2>12, OneMoves
<1> QED BY <1>9, <1>10

\* The metadata cache has nothing to do with the sizes.
SameSizes(a, b) == Attributes(b) /\ b.num = a.num /\ b.size = a.size

LEMMA CacheKeeps ==
  ASSUME NEW a, Attributes(a), NEW obj
  PROVE  /\ SameSizes(a, a) /\ SameSizes(a, TensorSent(a)) /\ SameSizes(a, GradSent(a))
         /\ SameSizes(a, TensorCached(a, obj)) /\ SameSizes(a, GradCached(a, obj))
<1>1. ASSUME NEW x, NEW f \in Fields \ {"num", "size"}
      PROVE  SameSizes(a, [a EXCEPT ![f] = x])
  <2> DEFINE b == [a EXCEPT ![f] = x]
  <2>1. a = [g \in Fields |-> a[g]]
    BY DEF Attributes
  <2>2. b = [g \in Fields |-> b[g]] /\ b["num"] = a["num"] /\ b["size"] = a["size"]
    <3>1. "num" \in Fields /\ "size" \in Fields /\ f # "num" /\ f # "size"
      BY DEF Fields
    <3> HIDE DEF Fields
    <3> QED BY <2>1, <3>1
  <2> HIDE DEF b
  <2>3. SameSizes(a, b)
    BY <2>2 DEF SameSizes, Attributes
  <2> QED BY <2>3 DEF b
<1>2. SameSizes(a, a)
  BY DEF SameSizes
<1>3. /\ SameSizes(a, [a EXCEPT !.send_tensor = ~a.cache])
      /\ SameSizes(a, [a EXCEPT !.send_grad = ~a.cache])
      /\ SameSizes(a, [a EXCEPT !.tensor_recv = Meta(obj)])
      /\ SameSizes(a, [a EXCEPT !.grad_recv = Meta(obj)])
  <2>1. {"send_tensor", "send_grad", "tensor_recv", "grad_recv"} \subseteq Fields \ {"num", "size"}
    BY DEF Fields
  <2> QED BY <1>1, <2>1
<1> QED BY <1>2, <1>3 DEF TensorSent, GradSent, TensorCached, GradCached

\* A call that is over in one step of the model.
CallOver(s) ==
  /\ s \notin failed /\ todo[s] # <<>>
  /\ script' = script /\ step' = step /\ failed' = failed
  /\ todo' = Rest(s) /\ comm' = [comm EXCEPT ![s] = None]
  /\ \E a : SameSizes(sched[s], a) /\ sched' = [sched EXCEPT ![s] = a]
  /\ loaded' = [loaded EXCEPT ![s] = @ + One(Head(todo[s]) = "forward_step")]
  /\ \E q : /\ saved' = [saved EXCEPT ![s] = q]
            /\ IF Head(todo[s]) \in Saving /\ Batch(s).train THEN \E x : q = Append(saved[s], x)
               ELSE q = IF Head(todo[s]) = "backward_step" THEN Tail(saved[s]) ELSE saved[s]

LEMMA CallOverMoves ==
  ASSUME Local, NEW s \in Stages, CallOver(s)
  PROVE  OnlyAt(s) /\ Advance(s)
<1>1. /\ sched = [x \in Stages |-> sched[x]] /\ todo = [x \in Stages |-> todo[x]]
      /\ loaded = [x \in Stages |-> loaded[x]] /\ saved = [x \in Stages |-> saved[x]]
      /\ comm = [x \in Stages |-> comm[x]]
      /\ step \in [Stages -> Nat] /\ failed \subseteq Stages
  BY DEF Local, Typed
<1>2. PICK a : SameSizes(sched[s], a) /\ sched' = [sched EXCEPT ![s] = a]
  BY DEF CallOver
<1>3. PICK q : /\ saved' = [saved EXCEPT ![s] = q]
               /\ IF Head(todo[s]) \in Saving /\ Batch(s).train THEN \E x : q = Append(saved[s], x)
                  ELSE q = IF Head(todo[s]) = "backward_step" THEN Tail(saved[s]) ELSE saved[s]
  BY DEF CallOver
<1> DEFINE l == loaded[s] + One(Head(todo[s]) = "forward_step")
<1>4. /\ todo' = [todo EXCEPT ![s] = Tail(todo[s])] /\ comm' = [comm EXCEPT ![s] = None]
      /\ loaded' = [loaded EXCEPT ![s] = l]
  BY DEF CallOver, Rest
<1> HIDE DEF l
<1>5. /\ At(sched', sched, s) /\ At(todo', todo, s) /\ At(loaded', loaded, s)
      /\ At(saved', saved, s) /\ At(comm', comm, s)
      /\ sched'[s] = a /\ todo'[s] = Tail(todo[s]) /\ loaded'[s] = l
      /\ saved'[s] = q /\ comm'[s] = None
  BY <1>1, <1>2, <1>3, <1>4, AtFacts
<1>6. script' = script /\ step' = step /\ failed' = failed /\ s \notin failed /\ todo[s] # <<>>
  BY DEF CallOver
<1>7. OnlyAt(s)
  BY <1>1, <1>5, <1>6 DEF OnlyAt
<1>8. SameStep(s)
  BY <1>2, <1>5, <1>6 DEF SameStep, SameSizes
<1>9. Advance(s)
  BY <1>3, <1>5, <1>6, <1>8 DEF Advance, l
<1> QED BY <1>7, <1>9

LEMMA CallOverKeeps ==
  ASSUME Local, NEW s \in Stages, CallOver(s)
  PROVE  Local'
BY CallOverMoves, AdvanceKeeps, OneMoves

\* A communication that is started or goes on.
LEMMA CommKeeps ==
  ASSUME Local, UNCHANGED <<script, sched, step, todo, loaded, saved, failed>>,
         comm' = [x \in Stages |-> comm'[x]],
         \A x \in Stages : comm'[x] = comm[x] \/ (todo[x] # <<>> /\ x \notin failed)
  PROVE  Local'
<1>1. Typed'
  BY DEF Local, Typed
<1>2. ASSUME NEW x \in Stages PROVE AtStage(x)'
  <2>1. AtStage(x)
    BY DEF Local
  <2>2. SameStep(x) /\ (comm'[x] # None => todo[x] # <<>> /\ x \notin failed)
    BY <2>1 DEF SameStep, AtStage
  <2> QED BY <2>1, <2>2, Waits
<1> QED BY <1>1, <1>2 DEF Local

LEMMA StartKeeps ==
  ASSUME Local, NEW s \in Stages, NEW c, Starts(s, c), NEW x, comm' = [comm EXCEPT ![s] = x]
  PROVE  Local'
<1>1. /\ s \notin failed /\ todo[s] # <<>>
      /\ UNCHANGED <<script, sched, step, todo, loaded, saved, failed>>
  BY DEF Starts, Calls, locals
<1>2. comm = [y \in Stages |-> comm[y]]
  BY DEF Local, Typed
<1>3. At(comm', comm, s)
  BY <1>2, AtFacts
<1> QED BY <1>1, <1>3, CommKeeps DEF At

LEMMA TransferKeeps ==
  ASSUME Local, NEW s \in Stages, NEW t \in Stages, Transfer(s, t)
  PROVE  Local'
<1>1. /\ comm[s] # None /\ comm[t] # None
      /\ UNCHANGED <<script, sched, step, todo, loaded, saved, failed>>
  BY DEF Transfer, Facing, locals
<1>2. s \notin failed /\ todo[s] # <<>> /\ t \notin failed /\ todo[t] # <<>>
  BY <1>1 DEF Local, AtStage
<1>3. comm = [y \in Stages |-> comm[y]]
  BY DEF Local, Typed
<1>4. PICK x, y : comm' = [comm EXCEPT ![s] = x, ![t] = y]
  BY DEF Transfer
<1>5. comm' = [z \in Stages |-> comm'[z]] /\ \A z \in Stages \ {s, t} : comm'[z] = comm[z]
  BY <1>3, <1>4
<1> QED BY <1>1, <1>2, <1>5, CommKeeps

\* A communication that is over: what it returns, and what its loop saves.
LEMMA EndIsOver ==
  ASSUME Local, NEW s \in Stages, NEW c, Ends(s, c), c \notin {"forward_step", "backward_step"},
         NEW a, SameSizes(sched[s], a), sched' = [sched EXCEPT ![s] = a],
         IF c \in Saving THEN Save(s) ELSE saved' = saved
  PROVE  CallOver(s)
<1>1. comm[s] # None /\ Head(todo[s]) = c /\ AtStage(s)
  BY DEF Ends, Local
<1>2. s \notin failed /\ todo[s] # <<>>
  BY <1>1 DEF AtStage
<1>3. /\ loaded = [x \in Stages |-> loaded[x]] /\ saved = [x \in Stages |-> saved[x]]
      /\ loaded[s] + 0 = loaded[s]
  <2>1. InStep(s)
    BY <1>1, <1>2 DEF AtStage, Resting
  <2>2. PICK k \in 0 .. Total(s) : AtPlace(s, k)
    BY <2>1 DEF InStep
  <2>3. Warm(s) \in Nat /\ Turns(s) \in Nat /\ k \in Nat
    BY <2>1, NumbersAre
  <2>4. loaded[s] \in Int
    BY <2>2, <2>3 DEF AtPlace, Forwards
  <2> QED BY <2>4 DEF Local, Typed
<1>4. loaded' = [loaded EXCEPT ![s] = @ + One(Head(todo[s]) = "forward_step")]
  <2>1. One(Head(todo[s]) = "forward_step") = 0
    BY <1>1 DEF One
  <2>2. loaded = [loaded EXCEPT ![s] = @ + 0]
    BY <1>3
  <2> QED BY <2>1, <2>2 DEF Ends
<1>5. \E q : /\ saved' = [saved EXCEPT ![s] = q]
             /\ IF Head(todo[s]) \in Saving /\ Batch(s).train THEN \E x : q = Append(saved[s], x)
                ELSE q = IF Head(todo[s]) = "backward_step" THEN Tail(saved[s]) ELSE saved[s]
  <2>1. CASE c \in Saving /\ Batch(s).train
    BY <1>1, <2>1 DEF Save
  <2>2. CASE ~ (c \in Saving /\ Batch(s).train)
    <3>1. saved' = [saved EXCEPT ![s] = saved[s]]
      BY <1>3, <2>2 DEF Save
    <3> QED BY <1>1, <2>2, <3>1
  <2> QED BY <2>1, <2>2
<1>6. CallOver(s)
  BY <1>2, <1>4, <1>5 DEF CallOver, Ends
<1> QED BY <1>6

\* Calls that are not communications, or return at once.
LEMMA CallIsOver ==
  ASSUME Local, NEW s \in Stages, NEW c, Calls(s, c), todo' = Rest(s),
         UNCHANGED <<script, sched, step, comm, failed>>,
         loaded' = [loaded EXCEPT ![s] = @ + One(c = "forward_step")],
         IF c \in Saving THEN Save(s)
         ELSE saved' = [saved EXCEPT ![s] = IF c = "backward_step" THEN Tail(@) ELSE @]
  PROVE  CallOver(s)
<1>1. /\ s \notin failed /\ todo[s] # <<>> /\ Head(todo[s]) = c /\ comm[s] = None
  BY DEF Calls
<1>2. /\ comm = [x \in Stages |-> comm[x]] /\ sched = [x \in Stages |-> sched[x]]
      /\ Attributes(sched[s])
  BY DEF Local, Typed, AtStage
<1>3. /\ comm' = [comm EXCEPT ![s] = None]
      /\ SameSizes(sched[s], sched[s]) /\ sched' = [sched EXCEPT ![s] = sched[s]]
  BY <1>1, <1>2 DEF SameSizes
<1>4. \E q : /\ saved' = [saved EXCEPT ![s] = q]
             /\ IF c \in Saving /\ Batch(s).train THEN \E x : q = Append(saved[s], x)
                ELSE q = IF c = "backward_step" THEN Tail(saved[s]) ELSE saved[s]
  <2>1. CASE c \in Saving
    BY <2>1 DEF Save, Saving
  <2>2. CASE c \notin Saving
    BY <2>2
  <2> QED BY <2>1, <2>2
<1>5. CallOver(s)
  BY <1>1, <1>3, <1>4 DEF CallOver
<1> QED BY <1>5

LEMMA LoadedIsInt ==
  ASSUME Local, NEW s \in Stages, NEW c, Calls(s, c)
  PROVE  loaded[s] \in Int /\ loaded = [loaded EXCEPT ![s] = @ + 0]
<1>1. InStep(s) /\ loaded = [x \in Stages |-> loaded[x]]
  BY DEF Local, Typed, AtStage, Calls, Resting
<1>2. PICK k \in 0 .. Total(s) : AtPlace(s, k)
  BY <1>1 DEF InStep
<1>3. Warm(s) \in Nat /\ Turns(s) \in Nat /\ k \in Nat
  BY <1>1, NumbersAre
<1>4. loaded[s] \in Int
  BY <1>2, <1>3 DEF AtPlace, Forwards
<1> QED BY <1>1, <1>4

LEMMA SkipIsOver ==
  ASSUME Local, NEW s \in Stages, SkipAtFirst(s) \/ SkipAtLast(s)
  PROVE  CallOver(s)
<1>1. CASE SkipAtFirst(s)
  <2>1. PICK c \in {"recv_forward", "send_backward", "send_backward_recv_forward"} : Calls(s, c)
    BY <1>1 DEF SkipAtFirst
  <2>2. /\ todo' = Rest(s) /\ UNCHANGED <<script, sched, step, comm, failed>>
        /\ loaded' = loaded /\ saved' = saved
    BY <1>1 DEF SkipAtFirst, locals
  <2>3. loaded' = [loaded EXCEPT ![s] = @ + One(c = "forward_step")]
    <3>1. One(c = "forward_step") = 0
      BY DEF One
    <3> QED BY <2>1, <2>2, <3>1, LoadedIsInt
  <2>4. c \notin Saving /\ saved' = [saved EXCEPT ![s] = IF c = "backward_step" THEN Tail(@) ELSE @]
    BY <2>2 DEF Local, Typed, Saving
  <2> QED BY <2>1, <2>2, <2>3, <2>4, CallIsOver
<1>2. CASE SkipAtLast(s)
  <2>1. PICK c \in Saving : Calls(s, c)
    BY <1>2 DEF SkipAtLast, Saving
  <2>2. /\ todo' = Rest(s) /\ UNCHANGED <<script, sched, step, comm, failed>>
        /\ loaded' = loaded /\ Save(s)
    BY <1>2 DEF SkipAtLast
  <2>3. loaded' = [loaded EXCEPT ![s] = @ + One(c = "forward_step")]
    <3>1. One(c = "forward_step") = 0
      BY DEF One, Saving
    <3> QED BY <2>1, <2>2, <3>1, LoadedIsInt
  <2> QED BY <2>1, <2>2, <2>3, CallIsOver
<1> QED BY <1>1, <1>2

\* The assertion of load_micro_batch holds: a microbatch is left to load.
LEMMA LoadsInside ==
  ASSUME Local, NEW s \in Stages, Calls(s, "forward_step")
  PROVE  ~ (loaded[s] * Size(s) > Batch(s).rows)
<1>1. InStep(s) /\ todo[s] # <<>> /\ Head(todo[s]) = "forward_step"
  BY DEF Local, AtStage, Calls, Resting
<1>2. PICK k \in 0 .. Total(s) : AtPlace(s, k)
  BY <1>1 DEF InStep
<1>3. loaded[s] \in 0 .. sched[s].num - 1
  <2>1. k < Total(s)
    BY <1>1, <1>2, AtPlaceIs, NumbersAre
  <2> QED BY <1>1, <1>2, <2>1, AtPlaceIs
<1> DEFINE n == sched[s].num
           z == sched[s].size
           r == Batch(s).rows
           l == loaded[s]
<1>4. n \in Positive /\ z \in Positive /\ Covers(n, z, r) /\ r \in Nat /\ Size(s) = z
  <2>1. Batch(s) \in Steps
    BY <1>1, NumbersAre
  <2> QED BY <1>1, <2>1 DEF InStep, Size, Steps, Positive
<1>5. l \in Nat /\ l <= n - 1 /\ n - 1 \in Nat /\ z \in Nat /\ (n - 1) * z < r
  BY <1>3, <1>4 DEF Positive, Covers
<1> HIDE DEF n, z, r, l
<1>6. l * z <= (n - 1) * z /\ l * z \in Nat /\ (n - 1) * z \in Nat
  BY <1>5, Times
<1>7. ~ (l * z > r)
  BY <1>4, <1>5, <1>6
<1> QED BY <1>4, <1>7 DEF r, l

LEMMA ComputeIsOver ==
  ASSUME Local, NEW s \in Stages, ForwardStep(s) \/ BackwardStep(s)
  PROVE  CallOver(s)
<1>1. CASE ForwardStep(s)
  <2>1. Calls(s, "forward_step")
    BY <1>1 DEF ForwardStep
  <2>2. ~ (loaded[s] * Size(s) > Batch(s).rows)
    BY <2>1, LoadsInside
  <2>3. /\ todo' = Rest(s) /\ UNCHANGED <<script, sched, step, comm, failed>>
        /\ loaded' = [loaded EXCEPT ![s] = @ + 1] /\ saved' = saved
    BY <1>1, <2>2 DEF ForwardStep
  <2>4. One("forward_step" = "forward_step") = 1 /\ "forward_step" \notin Saving
    BY DEF One, Saving
  <2>5. saved' = [saved EXCEPT ![s] = @]
    BY <2>3 DEF Local, Typed
  <2> QED BY <2>1, <2>3, <2>4, <2>5, CallIsOver
<1>2. CASE BackwardStep(s)
  <2>1. Calls(s, "backward_step")
    BY <1>2 DEF BackwardStep
  <2>2. /\ todo' = Rest(s) /\ UNCHANGED <<script, sched, step, comm, failed>>
        /\ loaded' = loaded /\ saved' = [saved EXCEPT ![s] = Tail(@)]
    BY <1>2 DEF BackwardStep
  <2>3. One("backward_step" = "forward_step") = 0 /\ "backward_step" \notin Saving
    BY DEF One, Saving
  <2>4. loaded' = [loaded EXCEPT ![s] = @ + One("backward_step" = "forward_step")]
    BY <2>1, <2>2, <2>3, LoadedIsInt
  <2> QED BY <2>1, <2>2, <2>3, <2>4, CallIsOver
<1> QED BY <1>1, <1>2

LEMMA CommunicateIs ==
  ASSUME NEW s, NEW peer, NEW obj, NEW send, NEW wants, NEW meta,
         Communicate(s, peer, obj, send, wants, meta)
  PROVE  \E x : comm' = [comm EXCEPT ![s] = x]
BY DEF Communicate

Finishes(s) ==
  \/ RecvForwardEnds(s) \/ RecvBackwardEnds(s) \/ SendForwardEnds(s) \/ SendBackwardEnds(s)
  \/ SendForwardRecvBackwardEnds(s) \/ SendBackwardRecvForwardEnds(s)

LEMMA FinishIsOver ==
  ASSUME Local, NEW s \in Stages, Finishes(s)
  PROVE  CallOver(s)
<1>1. Attributes(sched[s]) /\ sched = [x \in Stages |-> sched[x]]
  BY DEF Local, Typed, AtStage
<1>2. CASE RecvForwardEnds(s)
  <2>1. /\ Ends(s, "recv_forward") /\ saved' = saved
        /\ sched' = [sched EXCEPT ![s] = TensorCached(sched[s], comm[s].got)]
    BY <1>2 DEF RecvForwardEnds
  <2>2. SameSizes(sched[s], TensorCached(sched[s], comm[s].got))
    BY <1>1, CacheKeeps
  <2>3. "recv_forward" \notin Saving
    BY DEF Saving
  <2> QED BY <2>1, <2>2, <2>3, EndIsOver
<1>3. CASE RecvBackwardEnds(s)
  <2>1. /\ Ends(s, "recv_backward") /\ saved' = saved
        /\ sched' = [sched EXCEPT ![s] = GradCached(sched[s], comm[s].got)]
    BY <1>3 DEF RecvBackwardEnds
  <2>2. SameSizes(sched[s], GradCached(sched[s], comm[s].got))
    BY <1>1, CacheKeeps
  <2>3. "recv_backward" \notin Saving
    BY DEF Saving
  <2> QED BY <2>1, <2>2, <2>3, EndIsOver
<1>4. CASE SendForwardEnds(s)
  <2>1. /\ Ends(s, "send_forward") /\ Save(s)
        /\ sched' = [sched EXCEPT ![s] = TensorSent(sched[s])]
    BY <1>4 DEF SendForwardEnds
  <2>2. SameSizes(sched[s], TensorSent(sched[s]))
    BY <1>1, CacheKeeps
  <2>3. "send_forward" \in Saving
    BY DEF Saving
  <2> QED BY <2>1, <2>2, <2>3, EndIsOver
<1>5. CASE SendBackwardEnds(s)
  <2>1. /\ Ends(s, "send_backward") /\ saved' = saved
        /\ sched' = [sched EXCEPT ![s] = GradSent(sched[s])]
    BY <1>5 DEF SendBackwardEnds
  <2>2. SameSizes(sched[s], GradSent(sched[s]))
    BY <1>1, CacheKeeps
  <2>3. "send_backward" \notin Saving
    BY DEF Saving
  <2> QED BY <2>1, <2>2, <2>3, EndIsOver
<1>6. CASE SendForwardRecvBackwardEnds(s)
  <2> DEFINE b == TensorSent(sched[s])
             a == GradCached(b, comm[s].got)
  <2>1. /\ Ends(s, "send_forward_recv_backward") /\ Save(s) /\ sched' = [sched EXCEPT ![s] = a]
    BY <1>6 DEF SendForwardRecvBackwardEnds
  <2>2. SameSizes(sched[s], b)
    BY <1>1, CacheKeeps
  <2> HIDE DEF b
  <2>3. SameSizes(b, a)
    BY <2>2, CacheKeeps DEF SameSizes
  <2> HIDE DEF a
  <2>4. SameSizes(sched[s], a) /\ "send_forward_recv_backward" \in Saving
    BY <2>2, <2>3 DEF SameSizes, Saving
  <2> QED BY <2>1, <2>4, EndIsOver
<1>7. CASE SendBackwardRecvForwardEnds(s)
  <2> DEFINE b == GradSent(sched[s])
             a == TensorCached(b, comm[s].got)
  <2>1. /\ Ends(s, "send_backward_recv_forward") /\ saved' = saved
        /\ sched' = [sched EXCEPT ![s] = a]
    BY <1>7 DEF SendBackwardRecvForwardEnds
  <2>2. SameSizes(sched[s], b)
    BY <1>1, CacheKeeps
  <2> HIDE DEF b
  <2>3. SameSizes(b, a)
    BY <2>2, CacheKeeps DEF SameSizes
  <2> HIDE DEF a
  <2>4. SameSizes(sched[s], a) /\ "send_backward_recv_forward" \notin Saving
    BY <2>2, <2>3 DEF SameSizes, Saving
  <2> QED BY <2>1, <2>4, EndIsOver
<1> QED BY <1>2, <1>3, <1>4, <1>5, <1>6, <1>7 DEF Finishes

LEMMA StepKeeps ==
  ASSUME Local, NEW s \in Stages, StageStep(s)
  PROVE  Local'
<1>1. CASE BeginStep(s)
  BY <1>1, BeginKeeps
<1>2. CASE ForwardStep(s) \/ BackwardStep(s)
  BY <1>2, ComputeIsOver, CallOverKeeps
<1>3. CASE SkipAtFirst(s) \/ SkipAtLast(s)
  BY <1>3, SkipIsOver, CallOverKeeps
<1>4. CASE RecvForward(s) \/ RecvBackward(s) \/ SendForward(s) \/ SendBackward(s)
           \/ SendForwardRecvBackward(s) \/ SendBackwardRecvForward(s)
  <2>1. \E c, x : Starts(s, c) /\ comm' = [comm EXCEPT ![s] = x]
    BY <1>4, CommunicateIs DEF RecvForward, RecvBackward, SendForward, SendBackward,
       SendForwardRecvBackward, SendBackwardRecvForward
  <2> QED BY <2>1, StartKeeps
<1>5. CASE Finishes(s)
  BY <1>5, FinishIsOver, CallOverKeeps
<1> QED BY <1>1, <1>2, <1>3, <1>4, <1>5 DEF StageStep, Finishes

LEMMA LocalAtInit == Init => Local
<1> SUFFICES ASSUME Init PROVE Local
  OBVIOUS
<1>1. script \in Seq(Steps)
  BY PipelineAssumption DEF Init, Steps, Positive
<1>2. PICK c \in Configs :
        sched = [s \in Stages |-> [num |-> c.num, size |-> c.size, cache |-> c.cache, last |-> None,
                                   send_tensor |-> TRUE, send_grad |-> TRUE,
                                   tensor_recv |-> None, grad_recv |-> None]]
  BY DEF Init
<1>3. c.num \in Sizes /\ c.size \in Sizes /\ (c.num # None \/ c.size # None)
  BY PipelineAssumption
<1>4. Typed
  <2>1. /\ step \in [Stages -> Nat] /\ failed \subseteq Stages
        /\ sched = [s \in Stages |-> sched[s]] /\ loaded = [s \in Stages |-> loaded[s]]
    BY <1>2 DEF Init
  <2>2. /\ todo = [s \in Stages |-> todo[s]] /\ saved = [s \in Stages |-> saved[s]]
        /\ comm = [s \in Stages |-> comm[s]]
    BY DEF Init
  <2> QED BY <1>1, <2>1, <2>2 DEF Typed
<1>5. ASSUME NEW s \in Stages PROVE AtStage(s)
  <2>1. Attributes(sched[s])
    <3> DEFINE a == sched[s]
    <3>1. a = [num |-> c.num, size |-> c.size, cache |-> c.cache, last |-> None,
               send_tensor |-> TRUE, send_grad |-> TRUE,
               tensor_recv |-> None, grad_recv |-> None]
      BY <1>2
    <3> HIDE DEF a
    <3>2. a = [f \in Fields |-> a[f]] /\ a.num = c.num /\ a.size = c.size
      BY <3>1 DEF Fields
    <3>3. Attributes(a)
      BY <1>3, <3>2 DEF Attributes
    <3> QED BY <3>3 DEF a
  <2>2. saved[s] = <<>> /\ todo[s] = <<>> /\ comm[s] = None /\ step[s] = 0
    BY DEF Init
  <2>3. IsSeq(<<>>)
    <3>1. <<>> \in Seq({})
      OBVIOUS
    <3> QED BY <3>1 DEF IsSeq
  <2> QED BY <2>1, <2>2, <2>3 DEF AtStage, Resting
<1> QED BY <1>4, <1>5 DEF Local

\* A stage by itself, at all times.
THEOREM StagesAreLocal == Spec => []Local
<1>1. ASSUME Local, [Next]_vars PROVE Local'
  <2>1. ASSUME NEW s \in Stages, StageStep(s) PROVE Local'
    BY <1>1, <2>1, StepKeeps
  <2>2. ASSUME NEW s \in Stages, NEW t \in Stages, Transfer(s, t) PROVE Local'
    BY <1>1, <2>2, TransferKeeps
  <2>3. CASE UNCHANGED vars
    <3>1. /\ UNCHANGED <<script, sched, step, todo, loaded, saved, failed>> /\ comm' = comm
      BY <2>3 DEF vars, locals
    <3>2. comm' = [x \in Stages |-> comm'[x]]
      BY <1>1, <3>1 DEF Local, Typed
    <3> QED BY <1>1, <3>1, <3>2, CommKeeps
  <2> QED BY <1>1, <2>1, <2>2, <2>3 DEF Next
<1> QED BY <1>1, LocalAtInit, PTL DEF Spec

\* A stage holds as many activations as there are stages from it to the last,
\* itself included, and no more: forward_backward_step warms up with one less.
THEOREM ActivationsAreBounded == Spec => []InFlight
<1>1. Local => InFlight
  <2> SUFFICES ASSUME Local, NEW s \in Stages PROVE Len(saved[s]) <= NumStages - s
    BY DEF InFlight
  <2>1. s \in 0 .. NumStages - 1 /\ NumStages \in Nat
    BY PipelineAssumption DEF Stages
  <2>2. CASE Resting(s)
    BY <2>1, <2>2 DEF Resting
  <2>3. CASE InStep(s)
    <3>1. PICK k \in 0 .. Total(s) : AtPlace(s, k)
      BY <2>3 DEF InStep
    <3> QED BY <2>1, <2>3, <3>1, AtPlaceIs
  <2> QED BY <2>2, <2>3 DEF Local, AtStage
<1> QED BY <1>1, StagesAreLocal, PTL

\* A step that is over has used its whole batch, not a microbatch too many, and
\* has popped all it saved: load_batch cuts as many as forward_backward_step
\* asks for.
THEOREM BatchesAreWhole == Spec => []WholeBatch
<1>1. Local => WholeBatch
  <2> SUFFICES ASSUME Local, NEW s \in Stages \ failed, step[s] > 0, todo[s] = <<>>
               PROVE  /\ saved[s] = <<>> /\ loaded[s] * Size(s) >= Batch(s).rows
                      /\ (loaded[s] - 1) * Size(s) < Batch(s).rows
    BY DEF WholeBatch
  <2>1. InStep(s) /\ IsSeq(saved[s])
    BY DEF Local, AtStage
  <2>2. PICK k \in 0 .. Total(s) : AtPlace(s, k)
    BY <2>1 DEF InStep
  <2>3. loaded[s] = sched[s].num /\ Len(saved[s]) = 0
    BY <2>1, <2>2, AtPlaceIs
  <2>4. saved[s] = <<>>
    BY <2>1, <2>3, SeqFacts
  <2> QED BY <2>1, <2>3, <2>4 DEF InStep, Covers, Size
<1> QED BY <1>1, StagesAreLocal, PTL

\* The assertion of load_micro_batch never fails: a stage that has failed has
\* done so in load_batch, between two steps.
THEOREM LoadsAreInside ==
  Spec => [](\A s \in Stages : Calls(s, "forward_step") => ~ (loaded[s] * Size(s) > Batch(s).rows))
<1>1. Local => \A s \in Stages : Calls(s, "forward_step") => ~ (loaded[s] * Size(s) > Batch(s).rows)
  BY LoadsInside
<1> QED BY <1>1, StagesAreLocal, PTL

-----------------------------------------------------------------------------
(* Two neighbours.                                                         *)

Receiving     == {"recv_forward", "send_backward_recv_forward"}
GradReceiving == {"recv_backward", "send_forward_recv_backward"}
GradSending   == {"send_backward", "send_backward_recv_forward"}

Call(s)   == IF todo[s] = <<>> THEN "none" ELSE Head(todo[s])
Active(s) == s \notin failed /\ step[s] # 0

\* How many tensors and gradients have gone out and come in by the calls of the
\* step that are over.
TensorsSent(s)     == IF Active(s) THEN loaded[s] - One(Call(s) \in Saving) ELSE 0
TensorsReceived(s) == IF Active(s) THEN loaded[s] + One(Call(s) = "forward_step") ELSE 0
GradsUsed(s) ==
  IF Active(s) /\ Batch(s).train THEN TensorsSent(s) - Len(saved[s]) ELSE 0
GradsReceived(s) == GradsUsed(s) + One(Call(s) = "backward_step")
GradsSent(s)     == GradsUsed(s) - One(Call(s) \in GradSending)

\* What every stage is to find in its i-th step: the attributes, but for what
\* each has cached, and how many tensors and gradients have been sent before.
Sends(h, i)     == IF i = 0 THEN 0 ELSE h[i].attr.num
GradSends(h, i) == IF i = 0 THEN 0 ELSE IF script[i].train THEN h[i].attr.num ELSE 0

Follows(h, i) ==
  /\ h[i].attr # None
  /\ h[i + 1].attr = Loaded(h[i].attr, script[i + 1])
  /\ h[i + 1].tensors = h[i].tensors + Sends(h, i)
  /\ h[i + 1].grads = h[i].grads + GradSends(h, i)

Prepared(h, i) ==
  h[i].attr # None =>
    /\ h[i].attr.num \in Positive /\ h[i].attr.size \in Positive
    /\ h[i].attr.last = script[i].rows
    /\ h[i].attr.cache => script[1].train /\ script[i].rows = h[i].attr.size * h[i].attr.num

Some(a) == a \in Schedules /\ (a.num # None \/ a.size # None)

History(h, n) ==
  /\ n \in 0 .. Len(script)
  /\ \A i \in 0 .. n : /\ h[i].attr \in Schedules \cup {None}
                       /\ h[i].tensors \in Nat /\ h[i].grads \in Nat
  /\ Some(h[0].attr) /\ h[0].attr.last = None /\ h[0].tensors = 0 /\ h[0].grads = 0
  /\ \A i \in 0 .. n - 1 : Follows(h, i)
  /\ \A i \in 1 .. n : Prepared(h, i)
  /\ \A i, j \in 0 .. n : i < j => /\ h[j].tensors >= h[i].tensors + Sends(h, i)
                                   /\ h[j].grads >= h[i].grads + GradSends(h, i)

SameCore(a, b) == a.num = b.num /\ a.size = b.size /\ a.cache = b.cache /\ a.last = b.last

InHistory(s, h, n) ==
  /\ step[s] \in 0 .. n
  /\ sched[s] \in Schedules
  /\ IF s \in failed THEN h[step[s]].attr = None
     ELSE h[step[s]].attr # None /\ SameCore(sched[s], h[step[s]].attr)

\* From x to y: the calls that send and receive, the number that have gone
\* before the one that is next, and the state of the metadata cache.
Neighbours(x, y)  == x \in Stages /\ y \in Stages /\ y \in {x - 1, x + 1}
SendCalls(x, y)   == IF y > x THEN Saving ELSE GradSending
RecvCalls(x, y)   == IF y > x THEN Receiving ELSE GradReceiving
SendIndex(x, y)   == IF y > x THEN TensorsSent(x) ELSE GradsSent(x)
RecvIndex(x, y)   == IF y > x THEN TensorsReceived(y) ELSE GradsReceived(y)
Before(h, i, x, y) == IF y > x THEN h[i].tensors ELSE h[i].grads
SendFlag(x, y)    == IF y > x THEN sched[x].send_tensor ELSE sched[x].send_grad
Cached(x, y)      == IF y > x THEN sched[y].tensor_recv ELSE sched[y].grad_recv

SentBefore(x, y, h) == Before(h, step[x], x, y) + SendIndex(x, y)
GotBefore(x, y, h)  == Before(h, step[y], x, y) + RecvIndex(x, y)

Flags(s, h) ==
  s \notin failed =>
    \A y \in Stages : Neighbours(s, y) =>
      /\ SendFlag(s, y) = (~ sched[s].cache \/ SentBefore(s, y, h) = 0)
      /\ (Cached(y, s) = None) = (~ sched[s].cache \/ GotBefore(y, s, h) = 0)
      /\ Cached(y, s) # None => /\ Cached(y, s).rows = sched[s].size
                                /\ y < s => Cached(y, s).grad

MicroRows(s, j) == Fewer(Size(s), Batch(s).rows - j * Size(s))

\* obj is the j-th microbatch of the step of s, or belongs to it; what goes
\* from x to s requires a gradient, if it has to.
IsMicro(s, obj, j) == obj \in Tensors /\ obj.mb = <<step[s], j>> /\ obj.rows = MicroRows(s, j)
IsInput(s, obj, j)  == IsMicro(s, obj, j) /\ (Batch(s).train => obj.grad)
IsOutput(s, obj, j) == IsMicro(s, obj, j) /\ obj.grad = Batch(s).train

IsSaved(s, p, j) ==
  IsOutput(s, p.output, j) /\ (~ IsFirst(s) => IsInput(s, p.input, j))

Data(s) ==
  Active(s) =>
    /\ Call(s) = "forward_step" /\ ~ IsFirst(s) => IsInput(s, input_obj[s], loaded[s])
    /\ Call(s) \in Saving => IsSaved(s, [input |-> input_obj[s], output |-> output_obj[s]], loaded[s] - 1)
    /\ Batch(s).train => \A p \in 1 .. Len(saved[s]) : IsSaved(s, saved[s][p], GradsUsed(s) + (p - 1))
    /\ Call(s) = "backward_step" /\ ~ IsLast(s) => IsMicro(s, output_obj_grad[s], GradsUsed(s))
    /\ Call(s) \in GradSending /\ ~ IsFirst(s) => IsMicro(s, input_obj_grad[s], GradsUsed(s) - 1)

\* The communication a stage waits for.
CommIs(s) ==
  comm[s] # None =>
    LET c == comm[s]
        y == c.peer
    IN /\ c \in Communications /\ Neighbours(s, y)
       /\ Call(s) \in SendCalls(s, y) \cup RecvCalls(y, s)
       /\ IF Call(s) \in SendCalls(s, y)
          THEN IsMicro(s, c.obj, SendIndex(s, y)) /\ (y > s => c.obj.grad = Batch(s).train)
          ELSE c.obj = None
       /\ c.wants <=> Call(s) \in RecvCalls(y, s)
       /\ c.send => Call(s) \in SendCalls(s, y)
       /\ c.recv => c.wants
       /\ c.phase = "metadata" => /\ c.send \/ c.recv
                                  /\ c.send => SendFlag(s, y)
                                  /\ c.recv => Cached(y, s) = None
       /\ c.wants /\ (c.phase = "data" \/ ~ c.recv) =>
            /\ c.buffer \in Metas /\ c.buffer.rows = MicroRows(s, RecvIndex(y, s))
            /\ y < s /\ Batch(s).train => c.buffer.grad
       /\ c.wants /\ c.phase = "data" /\ ~ c.recv =>
            IsMicro(s, c.got, RecvIndex(y, s)) /\ (y < s /\ Batch(s).train => c.got.grad)

\* The data of the pending communication has gone, or has come; its metadata
\* has, where it is needed, and the data not yet.
DataSent(x, y) ==
  comm[x] # None /\ Call(x) \in SendCalls(x, y) /\ comm[x].phase = "data" /\ ~ comm[x].send
DataGot(x, y) ==
  comm[y] # None /\ Call(y) \in RecvCalls(x, y) /\ comm[y].phase = "data" /\ ~ comm[y].recv
HalfSent(x, y) ==
  /\ comm[x] # None /\ Call(x) \in SendCalls(x, y) /\ SendFlag(x, y)
  /\ comm[x].send <=> comm[x].phase = "data"
HalfGot(x, y) ==
  /\ comm[y] # None /\ Call(y) \in RecvCalls(x, y) /\ Cached(x, y) = None
  /\ comm[y].recv <=> comm[y].phase = "data"

Out(x, y, h) == SentBefore(x, y, h) + One(DataSent(x, y))
In(x, y, h)  == GotBefore(x, y, h) + One(DataGot(x, y))

Wire(x, y, h) == Out(x, y, h) = In(x, y, h) /\ (HalfSent(x, y) <=> HalfGot(x, y))

StageLink(s, h, n) == InHistory(s, h, n) /\ Flags(s, h) /\ Data(s) /\ CommIs(s)

\* The locals of the stages.
Placed ==
  /\ input_obj = [t \in Stages |-> input_obj[t]] /\ output_obj = [t \in Stages |-> output_obj[t]]
  /\ output_obj_grad = [t \in Stages |-> output_obj_grad[t]]
  /\ input_obj_grad = [t \in Stages |-> input_obj_grad[t]]

Linked(h, n) ==
  /\ History(h, n) /\ Placed
  /\ \A s \in Stages : StageLink(s, h, n)
  /\ \A x, y \in Stages : Neighbours(x, y) => Wire(x, y, h)

-----------------------------------------------------------------------------
(* The order of calls, once more.                                          *)

\* d comes after c.
Chain(c, d) ==
  /\ d = "forward_step" <=> c \in Receiving
  /\ d \in Saving <=> c = "forward_step"
  /\ d = "backward_step" <=> c \in GradReceiving
  /\ d \in GradSending <=> c = "backward_step"

\* What has been counted before a call.
Indexed(w, m, k) ==
  /\ Forwards(w, m, k) \in 0 .. w + m /\ Backwards(w, m, k) \in 0 .. w + m
  /\ Saves(w, m, k) = Forwards(w, m, k) - One(CallAfter(w, m, k) \in Saving)
  /\ CallAfter(w, m, k) \in Receiving => Forwards(w, m, k) < w + m
  /\ CallAfter(w, m, k) \in Saving => Forwards(w, m, k) > 0
  /\ CallAfter(w, m, k) \in GradReceiving \cup {"backward_step"} => Backwards(w, m, k) < w + m
  /\ CallAfter(w, m, k) \in GradSending => Backwards(w, m, k) > 0

LEMMA ChainIs ==
  ASSUME NEW w \in Nat, NEW m \in Nat, NEW k \in 0 .. 6 * w + 4 * m, m > 0 \/ k < 3 * w
  PROVE  Chain(CallAfter(w, m, k), CallAfter(w, m, k + 1)) /\ Indexed(w, m, k)
<1> USE DEF Saving, Receiving, GradReceiving, GradSending
<1>1. ASSUME NEW q \in Nat, NEW r \in 0 .. 2, q < w, k = 3 * q + r
      PROVE Chain(CallAfter(w, m, k), CallAfter(w, m, k + 1)) /\ Indexed(w, m, k)
  <2>1. AtWarmup(w, m, q, r)
    BY <1>1, WarmupIs
  <2>2. Indexed(w, m, k)
    <3> DEFINE c == CallAfter(w, m, k)
    <3>1. /\ c = CASE r = 0 -> "recv_forward" [] r = 1 -> "forward_step" [] r = 2 -> "send_forward"
          /\ Forwards(w, m, k) = (IF r = 2 THEN q + 1 ELSE q)
          /\ Saves(w, m, k) = q /\ Backwards(w, m, k) = 0
      BY <1>1, <2>1 DEF AtWarmup
    <3>2. One(c \in Saving) = IF r = 2 THEN 1 ELSE 0
      BY <3>1 DEF One
    <3>3. /\ c \in Receiving => r = 0
          /\ c \in Saving => r = 2
          /\ c \notin GradReceiving \cup {"backward_step"} /\ c \notin GradSending
      BY <3>1
    <3> HIDE DEF c, Saving, Receiving, GradReceiving, GradSending
    <3>4. /\ Forwards(w, m, k) \in 0 .. w + m /\ Backwards(w, m, k) \in 0 .. w + m
          /\ Saves(w, m, k) = Forwards(w, m, k) - One(c \in Saving)
          /\ c \in Receiving => Forwards(w, m, k) < w + m
          /\ c \in Saving => Forwards(w, m, k) > 0
      BY <1>1, <3>1, <3>2, <3>3
    <3> QED BY <3>3, <3>4 DEF Indexed, c
  <2>3. CASE r # 2
    <3>1. AtWarmup(w, m, q, r + 1) /\ k + 1 = 3 * q + (r + 1)
      BY <1>1, <2>3, WarmupIs
    <3> QED BY <1>1, <2>1, <2>2, <2>3, <3>1 DEF AtWarmup, Chain
  <2>4. CASE r = 2 /\ q + 1 < w
    <3>1. AtWarmup(w, m, q + 1, 0) /\ k + 1 = 3 * (q + 1) + 0
      BY <1>1, <2>4, WarmupIs
    <3> QED BY <1>1, <2>1, <2>2, <2>4, <3>1 DEF AtWarmup, Chain
  <2>5. CASE r = 2 /\ q + 1 = w
    <3>1. AtTurn(w, m) /\ k + 1 = 3 * w
      BY <1>1, <2>5, TurnIs
    <3> QED BY <1>1, <2>1, <2>2, <2>5, <3>1 DEF AtWarmup, AtTurn, Chain
  <2> QED BY <1>1, <2>3, <2>4, <2>5
<1>2. CASE k = 3 * w
  <2>1. AtTurn(w, m) /\ m > 0
    BY <1>2, TurnIs
  <2>2. AtSteady(w, m, 0, 0) /\ k + 1 = 3 * w + 1 + 4 * 0 + 0
    BY <1>2, <2>1, SteadyIs
  <2> QED BY <1>2, <2>1, <2>2 DEF AtTurn, AtSteady, Chain, Indexed, One
<1>3. ASSUME NEW q \in Nat, NEW r \in 0 .. 3, q < m, k = 3 * w + 1 + 4 * q + r
      PROVE Chain(CallAfter(w, m, k), CallAfter(w, m, k + 1)) /\ Indexed(w, m, k)
  <2>1. AtSteady(w, m, q, r)
    BY <1>3, SteadyIs
  <2>2. Indexed(w, m, k)
    <3> DEFINE c == CallAfter(w, m, k)
    <3>1. /\ c = CASE r = 0 -> "forward_step" [] r = 1 -> "send_forward_recv_backward"
                   [] r = 2 -> "backward_step"
                   [] r = 3 -> IF q = m - 1 THEN "send_backward" ELSE "send_backward_recv_forward"
          /\ Forwards(w, m, k) = w + (IF r = 0 THEN q ELSE q + 1)
          /\ Saves(w, m, k) = w + (IF r <= 1 THEN q ELSE q + 1)
          /\ Backwards(w, m, k) = (IF r <= 2 THEN q ELSE q + 1)
      BY <1>3, <2>1 DEF AtSteady
    <3>2. One(c \in Saving) = IF r = 1 THEN 1 ELSE 0
      BY <3>1 DEF One
    <3>3. /\ c \in Receiving => r = 3 /\ q # m - 1
          /\ c \in Saving => r = 1
          /\ c \in GradReceiving \cup {"backward_step"} => r \in {1, 2}
          /\ c \in GradSending => r = 3
      BY <3>1
    <3> HIDE DEF c, Saving, Receiving, GradReceiving, GradSending
    <3>4. /\ Forwards(w, m, k) \in 0 .. w + m /\ Backwards(w, m, k) \in 0 .. w + m
          /\ Saves(w, m, k) = Forwards(w, m, k) - One(c \in Saving)
          /\ c \in Receiving => Forwards(w, m, k) < w + m
          /\ c \in Saving => Forwards(w, m, k) > 0
      BY <1>3, <3>1, <3>2, <3>3
    <3>5. /\ c \in GradReceiving \cup {"backward_step"} => Backwards(w, m, k) < w + m
          /\ c \in GradSending => Backwards(w, m, k) > 0
      <4>1. Backwards(w, m, k) = IF r <= 2 THEN q ELSE q + 1
        BY <3>1
      <4>2. r \in {1, 2} => Backwards(w, m, k) < w + m
        BY <1>3, <4>1
      <4>3. r = 3 => Backwards(w, m, k) > 0
        BY <1>3, <4>1
      <4> QED BY <3>3, <4>2, <4>3, Zenon
    <3> QED BY <3>4, <3>5 DEF Indexed, c
  <2>3. CASE r # 3
    <3>1. AtSteady(w, m, q, r + 1) /\ k + 1 = 3 * w + 1 + 4 * q + (r + 1)
      BY <1>3, <2>3, SteadyIs
    <3> QED BY <1>3, <2>1, <2>2, <2>3, <3>1 DEF AtSteady, Chain
  <2>4. CASE r = 3 /\ q + 1 < m
    <3>1. AtSteady(w, m, q + 1, 0) /\ k + 1 = 3 * w + 1 + 4 * (q + 1) + 0
      BY <1>3, <2>4, SteadyIs
    <3> QED BY <1>3, <2>1, <2>2, <2>4, <3>1 DEF AtSteady, Chain
  <2>5. CASE r = 3 /\ q + 1 = m
    <3>1. AtCooling(w, m, 0, 0) /\ k + 1 = 3 * w + 4 * m + 1 + 3 * 0 + 0
      BY <1>3, <2>5, CoolingIs
    <3> QED BY <1>3, <2>1, <2>2, <2>5, <3>1 DEF AtSteady, AtCooling, Chain
  <2> QED BY <1>3, <2>3, <2>4, <2>5
<1>4. ASSUME NEW q \in Nat, NEW r \in 0 .. 2, k = 3 * w + 4 * m + 1 + 3 * q + r
      PROVE Chain(CallAfter(w, m, k), CallAfter(w, m, k + 1)) /\ Indexed(w, m, k)
  <2>1. AtCooling(w, m, q, r)
    BY CoolingIs
  <2>2. Indexed(w, m, k)
    <3>1. q < w
      BY <1>4
    <3> QED BY <1>4, <2>1, <3>1 DEF AtCooling, Indexed, One
  <2>3. CASE r # 2
    <3>1. AtCooling(w, m, q, r + 1) /\ k + 1 = 3 * w + 4 * m + 1 + 3 * q + (r + 1)
      BY <1>4, <2>3, CoolingIs
    <3> QED BY <1>4, <2>1, <2>2, <2>3, <3>1 DEF AtCooling, Chain
  <2>4. CASE r = 2
    <3>1. AtCooling(w, m, q + 1, 0) /\ k + 1 = 3 * w + 4 * m + 1 + 3 * (q + 1) + 0
      BY <1>4, <2>4, CoolingIs
    <3> QED BY <1>4, <2>1, <2>2, <2>4, <3>1 DEF AtCooling, Chain
  <2> QED BY <2>3, <2>4
<1>5. \/ \E q \in Nat, r \in 0 .. 2 : q < w /\ k = 3 * q + r
      \/ k = 3 * w
      \/ \E q \in Nat, r \in 0 .. 3 : q < m /\ k = 3 * w + 1 + 4 * q + r
      \/ \E q \in Nat, r \in 0 .. 2 : k = 3 * w + 4 * m + 1 + 3 * q + r
  <2>1. k \in Nat
    OBVIOUS
  <2> QED BY <2>1, PlaceIs
<1> QED BY <1>1, <1>2, <1>3, <1>4, <1>5

\* The numbers of a stage under way.
NumbersAt(s) ==
  LET n == sched[s].num
      c == Call(s)
  IN /\ n \in Nat \ {0} /\ loaded[s] \in 0 .. n /\ GradsUsed(s) \in 0 .. n
     /\ TensorsSent(s) \in 0 .. n
     /\ c \in Receiving \cup {"forward_step"} => loaded[s] < n
     /\ c \in Saving => loaded[s] > 0
     /\ c \in GradReceiving \cup {"backward_step"} => GradsUsed(s) < n
     /\ c \in GradSending => GradsUsed(s) > 0
     /\ c \in GradReceiving \cup GradSending \cup {"backward_step"} => Batch(s).train
     /\ Batch(s).train => GradsUsed(s) = TensorsSent(s) - Len(saved[s])
     /\ c = "none" => loaded[s] = n /\ GradsUsed(s) = IF Batch(s).train THEN n ELSE 0

\* The call after the next.
CallThen(s) == IF Tail(todo[s]) = <<>> THEN "none" ELSE Head(Tail(todo[s]))

LEMMA StageNumbers ==
  ASSUME Local, NEW s \in Stages, Active(s)
  PROVE  /\ InStep(s) /\ NumbersAt(s)
         /\ todo[s] # <<>> => Call(s) \in Names /\ Chain(Call(s), CallThen(s))
<1>1. InStep(s)
  BY DEF Local, AtStage, Active
<1>2. PICK k \in 0 .. Total(s) : AtPlace(s, k)
  BY <1>1 DEF InStep
<1> DEFINE w == Warm(s)
           m == Turns(s)
           n == Total(s)
           c == Call(s)
<1>3. /\ w \in Nat /\ m \in Nat /\ n \in Nat /\ w + m = sched[s].num /\ k \in 0 .. n
      /\ Batch(s).train => m > 0
      /\ ~ Batch(s).train => m = 0
      /\ Batch(s) \in Steps
  BY <1>1, NumbersAre
<1>4. /\ (todo[s] = <<>> <=> k = n)
      /\ k = n => loaded[s] = sched[s].num /\ Len(saved[s]) = 0
      /\ k < n => Head(todo[s]) = CallAfter(w, m, k) /\ Tail(todo[s]) = Left(w, m, n, k + 1)
      /\ Len(saved[s]) \in Nat
  BY <1>1, <1>2, AtPlaceIs
<1>5. n = IF Batch(s).train THEN 6 * w + 4 * m + 1 ELSE 3 * w
  BY DEF Total
<1>6. /\ loaded[s] = Forwards(w, m, k)
      /\ Len(saved[s]) = IF Batch(s).train THEN Saves(w, m, k) - Backwards(w, m, k) ELSE 0
  BY <1>2 DEF AtPlace, Holding
<1>7. /\ TensorsSent(s) = loaded[s] - One(c \in Saving)
      /\ GradsUsed(s) = IF Batch(s).train THEN TensorsSent(s) - Len(saved[s]) ELSE 0
  BY DEF TensorsSent, GradsUsed
<1>8. sched[s].num \in Nat \ {0}
  BY <1>1 DEF InStep, Positive
<1> HIDE DEF w, m, n
<1>9. CASE k = n
  <2>1. c = "none" /\ One(c \in Saving) = 0
    BY <1>4, <1>9 DEF Call, One, Saving
  <2> HIDE DEF c
  <2>2. TensorsSent(s) = loaded[s] /\ GradsUsed(s) = IF Batch(s).train THEN loaded[s] ELSE 0
    BY <1>4, <1>7, <1>8, <1>9, <2>1
  <2>3. NumbersAt(s)
    BY <1>4, <1>7, <1>8, <1>9, <2>1, <2>2
       DEF NumbersAt, Receiving, Saving, GradReceiving, GradSending, c
  <2> QED BY <1>1, <1>4, <1>9, <2>3
<1>10. CASE k < n
  <2>1. c = CallAfter(w, m, k)
    BY <1>4, <1>10 DEF Call
  <2>2. k \in 0 .. 6 * w + 4 * m /\ (m > 0 \/ k < 3 * w) /\ k \in Nat
    BY <1>3, <1>5, <1>10
  <2>3. Chain(c, CallAfter(w, m, k + 1)) /\ Indexed(w, m, k)
    BY <1>3, <2>1, <2>2, ChainIs
  <2>4. c \in Names /\ Counted(w, m, k)
    BY <1>3, <2>1, <2>2, CountsAre DEF Counted
  <2>5. ~ Batch(s).train => c \in {"recv_forward", "forward_step", "send_forward"}
    <3>1. ~ Batch(s).train => k \in 0 .. 3 * w - 1
      BY <1>3, <1>5, <1>10
    <3> QED BY <1>3, <2>1, <3>1, EvaluationIs
  <2> HIDE DEF c
  <2>6. Batch(s).train => GradsUsed(s) = Backwards(w, m, k)
    <3>1. Backwards(w, m, k) \in Nat /\ Forwards(w, m, k) \in Nat /\ One(c \in Saving) \in 0 .. 1
      BY <1>3, <2>3 DEF Indexed, One
    <3> QED BY <1>6, <1>7, <2>1, <2>3, <3>1 DEF Indexed
  <2>7. c = "forward_step" => loaded[s] < sched[s].num
    <3>1. k < n => (Head(todo[s]) = "forward_step" => loaded[s] \in 0 .. sched[s].num - 1)
      BY <1>1, <1>2, AtPlaceIs DEF n
    <3> QED BY <1>4, <1>8, <1>10, <2>1, <3>1
  <2>8. c \in Saving => c \notin Receiving \cup {"forward_step"}
    BY DEF Saving, Receiving
  <2>9. TensorsSent(s) \in 0 .. sched[s].num
    BY <1>3, <1>6, <1>7, <2>1, <2>3 DEF Indexed, One
  <2>10. /\ loaded[s] \in 0 .. sched[s].num
         /\ c \in Receiving => loaded[s] < sched[s].num
         /\ c \in Saving => loaded[s] > 0
    BY <1>3, <1>6, <2>1, <2>3 DEF Indexed
  <2>11. /\ GradsUsed(s) \in 0 .. sched[s].num
         /\ Batch(s).train /\ c \in GradReceiving \cup {"backward_step"} => GradsUsed(s) < sched[s].num
         /\ Batch(s).train /\ c \in GradSending => GradsUsed(s) > 0
    BY <1>3, <1>7, <1>8, <2>1, <2>3, <2>6 DEF Indexed
  <2>12. c \in GradReceiving \cup GradSending \cup {"backward_step"} => Batch(s).train
    BY <2>5 DEF GradReceiving, GradSending
  <2>13. c # "none"
    BY <2>4 DEF Names
  <2>14. NumbersAt(s)
    BY <1>7, <1>8, <2>7, <2>9, <2>10, <2>11, <2>12, <2>13 DEF NumbersAt, c
  <2>15. Chain(c, CallThen(s))
    <3>1. CASE k + 1 < n
      <4>1. k + 1 \in 0 .. n
        BY <1>3, <3>1
      <4>2. Left(w, m, n, k + 1) # <<>> /\ Head(Left(w, m, n, k + 1)) = CallAfter(w, m, k + 1)
        <5> DEFINE j == k + 1
        <5>1. j \in 0 .. n /\ j < n
          BY <3>1, <4>1
        <5> HIDE DEF j
        <5>2. Left(w, m, n, j) # <<>>
          <6>1. j # n
            BY <1>3, <5>1
          <6> QED BY <1>3, <5>1, <6>1, LeftNext
        <5>3. Head(Left(w, m, n, j)) = CallAfter(w, m, j)
          BY <1>3, <5>1, LeftNext
        <5> QED BY <5>2, <5>3 DEF j
      <4> QED BY <1>4, <1>10, <2>3, <4>2 DEF CallThen
    <3>2. CASE k + 1 = n
      <4>1. k + 1 \in 0 .. n
        BY <1>3, <3>2
      <4>2. Left(w, m, n, k + 1) = <<>>
        BY <1>3, <3>2, <4>1, LeftNext
      <4>3. CallThen(s) = "none"
        BY <1>4, <1>10, <4>2 DEF CallThen
      <4>4. CallAfter(w, m, n) \in {"recv_backward", "recv_forward"}
        <5>1. CASE Batch(s).train
          <6>1. AtCooling(w, m, w, 0) /\ n = 3 * w + 4 * m + 1 + 3 * w + 0
            BY <1>3, <1>5, <5>1, CoolingIs
          <6> QED BY <6>1 DEF AtCooling
        <5>2. CASE ~ Batch(s).train
          <6>1. AtTurn(w, m) /\ n = 3 * w
            BY <1>3, <1>5, <5>2, TurnIs
          <6> QED BY <6>1 DEF AtTurn
        <5> QED BY <5>1, <5>2
      <4> QED BY <2>3, <3>2, <4>3, <4>4 DEF Chain, Receiving, Saving, GradReceiving, GradSending
    <3> QED BY <1>3, <1>10, <3>1, <3>2
  <2> QED BY <1>1, <2>4, <2>14, <2>15 DEF c
<1> QED BY <1>3, <1>9, <1>10

LEMMA ActiveIs ==
  ASSUME Local, NEW s \in Stages, s \notin failed, todo[s] # <<>>
  PROVE  Active(s)
BY DEF Local, AtStage, Resting, Active

\* A call that is over moves the number it stands for by one, and no other.
LEMMA CountsMove ==
  ASSUME Local, NEW s \in Stages, Advance(s)
  PROVE  /\ Active(s) /\ Active(s)' /\ Call(s)' = CallThen(s) /\ Call(s) = Head(todo[s])
         /\ loaded'[s] = loaded[s] + One(Call(s) = "forward_step")
         /\ TensorsSent(s)' = TensorsSent(s) + One(Call(s) \in Saving)
         /\ TensorsReceived(s)' = TensorsReceived(s) + One(Call(s) \in Receiving)
         /\ GradsUsed(s)' = GradsUsed(s) + One(Call(s) = "backward_step")
         /\ GradsReceived(s)' = GradsReceived(s) + One(Call(s) \in GradReceiving)
         /\ GradsSent(s)' = GradsSent(s) + One(Call(s) \in GradSending)
<1>1. Active(s) /\ Call(s) = Head(todo[s]) /\ todo[s] # <<>>
  BY ActiveIs DEF Advance, Call
<1>2. /\ InStep(s) /\ NumbersAt(s) /\ Call(s) \in Names /\ Chain(Call(s), CallThen(s))
  BY <1>1, StageNumbers
<1>3. Active(s)' /\ Batch(s)' = Batch(s) /\ Call(s)' = CallThen(s)
  <2>1. SameStep(s) /\ todo'[s] = Tail(todo[s])
    BY DEF Advance
  <2>2. Batch(s)' = Batch(s)
    BY <2>1, NumbersStay
  <2> QED BY <1>1, <2>1, <2>2 DEF SameStep, Active, Call, CallThen
<1> DEFINE c == Call(s)
           d == CallThen(s)
<1>4. loaded'[s] = loaded[s] + One(c = "forward_step")
  BY <1>1 DEF Advance
<1>5. /\ IF c \in Saving /\ Batch(s).train THEN \E x : saved'[s] = Append(saved[s], x)
         ELSE saved'[s] = IF c = "backward_step" THEN Tail(saved[s]) ELSE saved[s]
      /\ IsSeq(saved[s])
  BY <1>1 DEF Advance, Local, AtStage
<1>6. c \in Saving => c # "backward_step" /\ c # "forward_step"
  BY DEF Saving
<1> HIDE DEF c, d
<1>7. /\ loaded[s] \in Nat /\ TensorsSent(s) \in Nat /\ GradsUsed(s) \in Nat
      /\ c = "backward_step" => Batch(s).train
      /\ Batch(s).train => GradsUsed(s) = TensorsSent(s) - Len(saved[s])
  BY <1>2 DEF NumbersAt, c
<1>8. TensorsSent(s) = loaded[s] - One(c \in Saving) /\ TensorsReceived(s) = loaded[s] + One(c = "forward_step")
  BY <1>1 DEF TensorsSent, TensorsReceived, c
<1>9. /\ TensorsSent(s)' = loaded'[s] - One(d \in Saving)
      /\ TensorsReceived(s)' = loaded'[s] + One(d = "forward_step")
  BY <1>3 DEF TensorsSent, TensorsReceived, d
<1>10. /\ One(d \in Saving) = One(c = "forward_step") /\ One(d = "forward_step") = One(c \in Receiving)
       /\ One(d = "backward_step") = One(c \in GradReceiving)
       /\ One(d \in GradSending) = One(c = "backward_step")
  BY <1>2 DEF Chain, One, c, d
<1>11. \A b \in BOOLEAN : One(b) \in Nat
  BY DEF One
<1>12. /\ One(c \in Saving) \in Nat /\ One(c = "forward_step") \in Nat /\ One(c \in Receiving) \in Nat
       /\ One(c = "backward_step") \in Nat /\ One(c \in GradReceiving) \in Nat
       /\ One(c \in GradSending) \in Nat
  BY DEF One
<1>13. /\ TensorsSent(s)' = TensorsSent(s) + One(c \in Saving)
       /\ TensorsReceived(s)' = TensorsReceived(s) + One(c \in Receiving)
  BY <1>4, <1>7, <1>8, <1>9, <1>10, <1>12
<1>14. Batch(s).train => Len(saved'[s]) = Len(saved[s]) + One(c \in Saving) - One(c = "backward_step")
                         /\ Len(saved[s]) \in Nat
  <2>1. CASE c \in Saving /\ Batch(s).train
    <3>1. Len(saved'[s]) = Len(saved[s]) + 1 /\ Len(saved[s]) \in Nat
      BY <1>5, <2>1, SeqFacts
    <3> QED BY <1>6, <2>1, <3>1 DEF One
  <2>2. CASE c = "backward_step" /\ Batch(s).train
    <3>1. Len(saved[s]) > 0 /\ c \notin Saving
      <4>1. PICK k \in 0 .. Total(s) : AtPlace(s, k)
        BY <1>2 DEF InStep
      <4>2. k < Total(s)
        BY <1>1, <1>2, <4>1, AtPlaceIs, NumbersAre
      <4> QED BY <1>1, <1>2, <1>6, <2>2, <4>1, <4>2, AtPlaceIs DEF c
    <3>2. Len(saved'[s]) = Len(saved[s]) - 1 /\ Len(saved[s]) \in Nat
      BY <1>5, <2>2, <3>1, SeqFacts
    <3> QED BY <2>2, <3>1, <3>2 DEF One
  <2>3. CASE c \notin Saving /\ c # "backward_step"
    <3>1. saved'[s] = saved[s] /\ Len(saved[s]) \in Nat
      BY <1>5, <2>3, SeqFacts
    <3> QED BY <2>3, <3>1 DEF One
  <2> QED BY <2>1, <2>2, <2>3
<1>15. GradsUsed(s)' = GradsUsed(s) + One(c = "backward_step")
  <2>1. GradsUsed(s)' = IF Batch(s).train THEN TensorsSent(s)' - Len(saved'[s]) ELSE 0
    BY <1>3 DEF GradsUsed
  <2>2. ~ Batch(s).train => GradsUsed(s) = 0 /\ One(c = "backward_step") = 0
    BY <1>7 DEF GradsUsed, One
  <2> QED BY <1>7, <1>12, <1>13, <1>14, <2>1, <2>2
<1>16. /\ GradsReceived(s) = GradsUsed(s) + One(c = "backward_step")
       /\ GradsSent(s) = GradsUsed(s) - One(c \in GradSending)
       /\ GradsReceived(s)' = GradsUsed(s)' + One(d = "backward_step")
       /\ GradsSent(s)' = GradsUsed(s)' - One(d \in GradSending)
  BY <1>3 DEF GradsReceived, GradsSent, c, d
<1>17. /\ GradsReceived(s)' = GradsReceived(s) + One(c \in GradReceiving)
       /\ GradsSent(s)' = GradsSent(s) + One(c \in GradSending)
  BY <1>7, <1>10, <1>12, <1>15, <1>16
<1> QED BY <1>1, <1>3, <1>4, <1>13, <1>15, <1>17 DEF c

-----------------------------------------------------------------------------
(* load_batch, for attributes that differ in what is cached only.          *)

LEMMA NoneIsNone ==
  /\ None \notin Nat /\ None \notin Positive /\ None \notin Tensors /\ None \notin Metas
  /\ None \notin Schedules /\ None \notin Communications
BY PipelineAssumption DEF Positive

LEMMA SomeAttributes ==
  ASSUME NEW a, Some(a)
  PROVE  Attributes(a)
<1>1. a = [f \in Fields |-> a[f]]
  BY DEF Some, Schedules, Fields
<1> QED BY <1>1 DEF Some, Schedules, Attributes

\* Sized fills in the size or the number.
LEMMA SizedFills ==
  ASSUME NEW a, Some(a), NEW rows \in Positive, Sized(a, rows) # None
  PROVE  /\ Some(Sized(a, rows))
         /\ \A f \in Fields \ {"num", "size"} : Sized(a, rows)[f] = a[f]
         /\ a.size # None => Sized(a, rows).size = a.size
         /\ a.num # None => Sized(a, rows).num = a.num
<1> DEFINE z == Sized(a, rows)
<1>1. a \in Schedules /\ Attributes(a)
  BY SomeAttributes DEF Some
<1>2. z.num \in Positive /\ z.size \in Positive
  BY <1>1, SizedIs
<1>3. \/ a.size = None /\ a.num # None /\ \E x : z = [a EXCEPT !.size = x]
      \/ a.size # None /\ a.num = None /\ \E x : z = [a EXCEPT !.num = x]
      \/ a.size # None /\ a.num # None /\ z = a
  BY DEF Sized, Some
<1>4. z.num # None
  BY <1>2, NoneIsNone
<1> HIDE DEF z
<1>5. Positive \subseteq Sizes
  BY DEF Positive, Sizes
<1>6. CASE a.size = None /\ a.num # None /\ \E x : z = [a EXCEPT !.size = x]
  <2>1. PICK x : z = [a EXCEPT !.size = x]
    BY <1>6
  <2>2. /\ z.size = x /\ \A f \in Fields \ {"size"} : z[f] = a[f]
    BY <1>1, <2>1 DEF Schedules, Fields
  <2>3. z \in Schedules
    BY <1>1, <1>2, <1>5, <2>1, <2>2 DEF Schedules
  <2> QED BY <1>4, <1>6, <2>2, <2>3 DEF Some, z, Fields
<1>7. CASE a.size # None /\ a.num = None /\ \E x : z = [a EXCEPT !.num = x]
  <2>1. PICK x : z = [a EXCEPT !.num = x]
    BY <1>7
  <2>2. /\ z.num = x /\ \A f \in Fields \ {"num"} : z[f] = a[f]
    BY <1>1, <2>1 DEF Schedules, Fields
  <2>3. z \in Schedules
    BY <1>1, <1>2, <1>5, <2>1, <2>2 DEF Schedules
  <2> QED BY <1>4, <1>7, <2>2, <2>3 DEF Some, z, Fields
<1>8. CASE z = a
  BY <1>8 DEF z
<1> QED BY <1>3, <1>6, <1>7, <1>8

LEMMA SizedSame ==
  ASSUME NEW a, Some(a), NEW b, Some(b), SameCore(a, b), NEW rows \in Positive,
         Sized(a, rows) # None
  PROVE  Sized(b, rows) # None /\ SameCore(Sized(a, rows), Sized(b, rows))
<1>1. a.num = b.num /\ a.size = b.size /\ a.cache = b.cache /\ a.last = b.last
  BY DEF SameCore
<1>2. a \in Schedules /\ b \in Schedules /\ None \notin Schedules
  BY NoneIsNone DEF Some
<1>3. CASE a.size = None
  <2> DEFINE q == rows \div a.num
             x == [a EXCEPT !.size = q]
             y == [b EXCEPT !.size = q]
  <2>1. Sized(a, rows) = x /\ Sized(b, rows) = y
    BY <1>1, <1>3 DEF Sized
  <2> HIDE DEF q
  <2>2. SameCore(x, y)
    BY <1>1, <1>2 DEF SameCore, Schedules
  <2>3. y.size = x.size /\ x.size \in Positive
    <3>1. Attributes(a)
      BY SomeAttributes
    <3>2. Sized(a, rows).size \in Positive
      BY <3>1, SizedIs
    <3> HIDE DEF x, y
    <3> QED BY <2>1, <2>2, <3>2 DEF SameCore
  <2>4. y \in Schedules
    BY <1>2, <2>3 DEF Schedules, Sizes, Positive
  <2> HIDE DEF x, y
  <2> QED BY <1>2, <2>1, <2>2, <2>4
<1>4. CASE a.size # None /\ a.num = None
  <2> DEFINE q == rows \div a.size
             x == [a EXCEPT !.num = q]
             y == [b EXCEPT !.num = q]
  <2>1. Sized(a, rows) = x /\ Sized(b, rows) = y
    BY <1>1, <1>4 DEF Sized
  <2> HIDE DEF q
  <2>2. SameCore(x, y)
    BY <1>1, <1>2 DEF SameCore, Schedules
  <2>3. y.num = x.num /\ x.num \in Positive
    <3>1. Attributes(a)
      BY SomeAttributes
    <3>2. Sized(a, rows).num \in Positive
      BY <3>1, SizedIs
    <3> HIDE DEF x, y
    <3> QED BY <2>1, <2>2, <3>2 DEF SameCore
  <2>4. y \in Schedules
    BY <1>2, <2>3 DEF Schedules, Sizes, Positive
  <2> HIDE DEF x, y
  <2> QED BY <1>2, <2>1, <2>2, <2>4
<1>5. CASE a.size # None /\ a.num # None
  <2>1. Sized(a, rows) = a /\ Sized(b, rows) = b
    BY <1>1, <1>5 DEF Sized
  <2> QED BY <1>2, <2>1
<1> QED BY <1>3, <1>4, <1>5

\* What load_batch does to attributes: the cache is left as it is, or it is
\* off from now on and empty.
Kept(a, l) ==
  /\ l.cache = a.cache /\ l.send_tensor = a.send_tensor /\ l.send_grad = a.send_grad
  /\ l.tensor_recv = a.tensor_recv /\ l.grad_recv = a.grad_recv
Dropped(l) ==
  /\ l.cache = FALSE /\ l.send_tensor = TRUE /\ l.send_grad = TRUE
  /\ l.tensor_recv = None /\ l.grad_recv = None

LEMMA LoadedTo ==
  ASSUME NEW a, Some(a), NEW b \in Steps, Loaded(a, b) # None
  PROVE  LET l == Loaded(a, b) IN
         /\ Some(l) /\ l.last = b.rows
         /\ a.size # None => l.size = a.size
         /\ b.train => /\ Kept(a, l) /\ b.rows = l.size * l.num /\ a.last \in {None, b.rows}
                       /\ a.num # None => l.num = a.num
         /\ ~ b.train => /\ l.num = EvalMicrobatches(b.rows, l.size)
                         /\ IF a.last = b.rows THEN Kept(a, l) ELSE Dropped(l)
<1> DEFINE d == Sized(a, b.rows)
           l == Loaded(a, b)
           n == EvalMicrobatches(b.rows, d.size)
           f == [d EXCEPT !.last = b.rows]
           e == [d EXCEPT !.num = n, !.last = b.rows]
<1>1. b.rows \in Positive /\ b.train \in BOOLEAN /\ Positive \subseteq Nat /\ Positive \subseteq Sizes
  BY DEF Steps, Positive, Sizes
<1>2. d # None
  BY DEF Loaded
<1>3. /\ d \in Schedules /\ d.num \in Positive /\ d.size \in Positive
      /\ \A g \in Fields \ {"num", "size"} : d[g] = a[g]
      /\ a.size # None => d.size = a.size
      /\ a.num # None => d.num = a.num
  <2>1. Attributes(a)
    BY SomeAttributes
  <2> QED BY <1>1, <1>2, <2>1, SizedIs, SizedFills DEF Some
<1>4. /\ d.cache = a.cache /\ d.last = a.last /\ d.send_tensor = a.send_tensor
      /\ d.send_grad = a.send_grad /\ d.tensor_recv = a.tensor_recv /\ d.grad_recv = a.grad_recv
  BY <1>3 DEF Fields
<1>5. n \in Positive
  BY <1>1, <1>3, QuotientCovers
<1>6. None \notin Positive
  BY NoneIsNone
<1>7. CASE b.train
  <2>1. TrainingAsserts(d, b.rows) /\ l = f
    BY <1>2, <1>7 DEF Loaded
  <2> HIDE DEF d, n, l
  <2>2. /\ f \in Schedules /\ f.num = d.num /\ f.size = d.size /\ f.last = b.rows
        /\ f.cache = d.cache /\ f.send_tensor = d.send_tensor /\ f.send_grad = d.send_grad
        /\ f.tensor_recv = d.tensor_recv /\ f.grad_recv = d.grad_recv
    BY <1>1, <1>3 DEF Schedules
  <2> HIDE DEF f
  <2>3. Some(l) /\ l.last = b.rows /\ (a.size # None => l.size = a.size)
    BY <1>3, <1>6, <2>1, <2>2 DEF Some
  <2>4. /\ Kept(a, l) /\ b.rows = l.size * l.num /\ a.last \in {None, b.rows}
        /\ a.num # None => l.num = a.num
    BY <1>3, <1>4, <2>1, <2>2 DEF Kept, TrainingAsserts
  <2> QED BY <1>7, <2>3, <2>4 DEF l
<1>8. CASE ~ b.train
  <2>1. l = IF d.last = b.rows THEN e ELSE DropCache(e)
    BY <1>2, <1>8 DEF Loaded
  <2> HIDE DEF d, n, l
  <2>2. /\ e \in Schedules /\ e.num = n /\ e.size = d.size /\ e.last = b.rows
        /\ e.cache = d.cache /\ e.send_tensor = d.send_tensor /\ e.send_grad = d.send_grad
        /\ e.tensor_recv = d.tensor_recv /\ e.grad_recv = d.grad_recv
    BY <1>1, <1>3, <1>5 DEF Schedules
  <2> HIDE DEF e
  <2>3. /\ DropCache(e) \in Schedules /\ Dropped(DropCache(e)) /\ DropCache(e).num = n
        /\ DropCache(e).size = d.size /\ DropCache(e).last = b.rows
    BY <2>2 DEF DropCache, Dropped, Schedules
  <2>4. Some(l) /\ l.last = b.rows /\ (a.size # None => l.size = a.size) /\ l.num = n /\ l.size = d.size
    BY <1>3, <1>5, <1>6, <2>1, <2>2, <2>3 DEF Some
  <2>5. IF a.last = b.rows THEN Kept(a, l) ELSE Dropped(l)
    BY <1>4, <2>1, <2>2, <2>3 DEF Kept
  <2>6. l.num = EvalMicrobatches(b.rows, l.size)
    BY <2>4 DEF n
  <2> QED BY <1>8, <2>4, <2>5, <2>6 DEF l
<1> QED BY <1>1, <1>7, <1>8

LEMMA LoadedSame ==
  ASSUME NEW a, Some(a), NEW b, Some(b), SameCore(a, b), NEW x \in Steps, Loaded(a, x) # None
  PROVE  Loaded(b, x) # None /\ SameCore(Loaded(a, x), Loaded(b, x))
<1> DEFINE d == Sized(a, x.rows)
           e == Sized(b, x.rows)
<1>1. x.rows \in Positive /\ x.train \in BOOLEAN /\ None \notin Schedules /\ None \notin Positive
  BY NoneIsNone DEF Steps
<1>2. d # None
  BY DEF Loaded
<1>3. e # None /\ SameCore(d, e)
  BY <1>1, <1>2, SizedSame
<1>4. /\ d \in Schedules /\ e \in Schedules
  BY <1>1, <1>2, <1>3, SizedFills DEF Some
<1>5. e.size \in Positive
  BY <1>1, <1>3, SomeAttributes, SizedIs
<1>6. CASE x.train
  <2>1. /\ TrainingAsserts(d, x.rows) /\ Loaded(a, x) = [d EXCEPT !.last = x.rows]
    BY <1>2, <1>6 DEF Loaded
  <2>2. TrainingAsserts(e, x.rows)
    BY <1>3, <2>1 DEF TrainingAsserts, SameCore
  <2>3. Loaded(b, x) = [e EXCEPT !.last = x.rows]
    BY <1>3, <1>6, <2>2 DEF Loaded
  <2> HIDE DEF d, e
  <2>4. /\ [e EXCEPT !.last = x.rows] \in Schedules
        /\ SameCore([d EXCEPT !.last = x.rows], [e EXCEPT !.last = x.rows])
    BY <1>1, <1>3, <1>4 DEF SameCore, Schedules, Positive
  <2> QED BY <1>1, <2>1, <2>3, <2>4
<1>7. CASE ~ x.train
  <2> DEFINE n == EvalMicrobatches(x.rows, d.size)
             u == [d EXCEPT !.num = n, !.last = x.rows]
             v == [e EXCEPT !.num = n, !.last = x.rows]
  <2>1. d.size = e.size /\ d.last = e.last
    BY <1>3 DEF SameCore
  <2>2. n \in Positive
    BY <1>1, <1>5, <2>1, QuotientCovers
  <2>3. /\ Loaded(a, x) = IF d.last = x.rows THEN u ELSE DropCache(u)
        /\ Loaded(b, x) = IF d.last = x.rows THEN v ELSE DropCache(v)
    BY <1>2, <1>3, <1>7, <2>1 DEF Loaded
  <2> HIDE DEF d, e, n
  <2>4. u \in Schedules /\ v \in Schedules /\ SameCore(u, v)
    BY <1>1, <1>3, <1>4, <2>2 DEF SameCore, Schedules, Positive, Sizes
  <2> HIDE DEF u, v
  <2>5. DropCache(v) \in Schedules /\ SameCore(DropCache(u), DropCache(v))
    BY <2>4 DEF SameCore, Schedules, DropCache
  <2> QED BY <1>1, <2>3, <2>4, <2>5
<1> QED BY <1>1, <1>6, <1>7

-----------------------------------------------------------------------------
(* The history, as far as any stage has come, and one step further.        *)

LEMMA HistoryHas ==
  ASSUME NEW h, NEW n, History(h, n), NEW i \in 0 .. n
  PROVE  /\ i \in Nat /\ h[i].tensors \in Nat /\ h[i].grads \in Nat
         /\ h[i].attr # None => /\ Some(h[i].attr)
                                /\ i > 0 => h[i].attr.num \in Positive /\ h[i].attr.size \in Positive
                                /\ Sends(h, i) \in Nat /\ GradSends(h, i) \in Nat
<1>1. i \in Nat /\ h[i].tensors \in Nat /\ h[i].grads \in Nat /\ h[i].attr \in Schedules \cup {None}
  BY DEF History
<1>2. CASE i = 0
  <2>1. Sends(h, i) = 0 /\ GradSends(h, i) = 0
    BY <1>2 DEF Sends, GradSends
  <2> QED BY <1>1, <1>2, <2>1 DEF History
<1>3. CASE i > 0
  <2>1. Prepared(h, i)
    BY <1>3 DEF History
  <2> QED BY <1>1, <1>3, <2>1, NoneIsNone DEF Prepared, Sends, GradSends, Some, Positive
<1> QED BY <1>1, <1>2, <1>3

\* With the cache on, every batch of the history is one of whole microbatches.
LEMMA WholeNumbers ==
  ASSUME NEW n \in Positive, NEW size \in Positive
  PROVE  EvalMicrobatches(size * n, size) = n
<1> DEFINE m == EvalMicrobatches(size * n, size)
<1>1. size * n \in Positive
  BY DEF Positive
<1>2. m \in Positive /\ Covers(m, size, size * n) /\ Covers(n, size, size * n)
  BY <1>1, QuotientCovers, ProductCovers
<1> HIDE DEF m
<1>3. m \in Nat /\ n \in Nat /\ size \in Nat /\ m - 1 \in Nat /\ n - 1 \in Nat
  BY <1>2 DEF Positive
<1>4. ~ (m <= n - 1)
  <2>1. SUFFICES ASSUME m <= n - 1 PROVE FALSE
    OBVIOUS
  <2> DEFINE k == n - 1
  <2>2. m * size <= k * size /\ m * size \in Nat /\ k * size \in Nat
    <3>1. k \in Nat /\ m <= k
      BY <1>3, <2>1
    <3> HIDE DEF k
    <3> QED BY <1>3, <3>1, Times
  <2>3. m * size >= size * n /\ k * size < size * n /\ size * n \in Nat
    BY <1>1, <1>2 DEF Covers, Positive
  <2> HIDE DEF k
  <2> QED BY <2>2, <2>3
<1>5. ~ (n <= m - 1)
  <2>1. SUFFICES ASSUME n <= m - 1 PROVE FALSE
    OBVIOUS
  <2> DEFINE k == m - 1
  <2>2. n * size <= k * size /\ n * size \in Nat /\ k * size \in Nat
    <3>1. k \in Nat /\ n <= k
      BY <1>3, <2>1
    <3> HIDE DEF k
    <3> QED BY <1>3, <3>1, Times
  <2>3. n * size >= size * n /\ k * size < size * n /\ size * n \in Nat
    BY <1>1, <1>2 DEF Covers, Positive
  <2> HIDE DEF k
  <2> QED BY <2>2, <2>3
<1>6. m = n
  BY <1>3, <1>4, <1>5
<1> QED BY <1>6 DEF m

LEMMA LoadedPrepared ==
  ASSUME NEW h, NEW n, History(h, n), script \in Seq(Steps), n < Len(script), h[n].attr # None,
         Loaded(h[n].attr, script[n + 1]) # None
  PROVE  LET l == Loaded(h[n].attr, script[n + 1]) IN
         /\ l \in Schedules /\ l.num \in Positive /\ l.size \in Positive
         /\ l.last = script[n + 1].rows
         /\ l.cache => script[1].train /\ script[n + 1].rows = l.size * l.num
<1> DEFINE a == h[n].attr
           b == script[n + 1]
           l == Loaded(a, b)
<1>1. n \in 0 .. n /\ n \in Nat /\ n \in 0 .. Len(script)
  BY DEF History
<1>2. Some(a)
  BY <1>1, HistoryHas
<1>3. b \in Steps /\ b.rows \in Positive /\ b.train \in BOOLEAN
  <2>1. n + 1 \in 1 .. Len(script)
    BY <1>1
  <2>2. b \in Steps
    BY <2>1
  <2> HIDE DEF b
  <2> QED BY <2>2 DEF Steps
<1>4. l.num \in Positive /\ l.size \in Positive
  BY <1>2, <1>3, SomeAttributes, LoadedIs
<1>5. /\ Some(l) /\ l.last = b.rows
      /\ a.size # None => l.size = a.size
      /\ b.train => Kept(a, l) /\ b.rows = l.size * l.num
      /\ ~ b.train => /\ l.num = EvalMicrobatches(b.rows, l.size)
                      /\ IF a.last = b.rows THEN Kept(a, l) ELSE Dropped(l)
  BY <1>2, <1>3, LoadedTo
<1>6. CASE n = 0
  <2>1. a.last = None /\ a.last # b.rows /\ b = script[1]
    BY <1>3, <1>6, NoneIsNone DEF History
  <2>2. l.cache => b.train
    BY <1>3, <1>5, <2>1 DEF Dropped
  <2> QED BY <1>4, <1>5, <2>1, <2>2 DEF Some
<1>7. CASE n > 0
  <2>1. Prepared(h, n)
    BY <1>1, <1>7 DEF History
  <2>2. /\ a.num \in Positive /\ a.size \in Positive /\ a.last = script[n].rows
        /\ a.cache => script[1].train /\ script[n].rows = a.size * a.num
    BY <2>1 DEF Prepared
  <2>3. l.size = a.size
    BY <1>5, <2>2, NoneIsNone
  <2>4. ASSUME l.cache PROVE script[1].train /\ b.rows = l.size * l.num
    <3>1. a.cache
      BY <1>3, <1>5, <2>4 DEF Kept, Dropped
    <3>2. CASE b.train
      BY <1>5, <2>2, <3>1, <3>2
    <3>3. CASE ~ b.train
      <4>1. a.last = b.rows
        BY <1>5, <2>4, <3>3 DEF Dropped
      <4>2. b.rows = l.size * a.num
        BY <2>2, <2>3, <3>1, <4>1
      <4>3. l.num = a.num
        <5>1. l.num = EvalMicrobatches(l.size * a.num, l.size)
          BY <1>5, <3>3, <4>2
        <5> HIDE DEF a, l
        <5> QED BY <1>4, <2>2, <5>1, WholeNumbers
      <4> QED BY <2>2, <3>1, <4>2, <4>3
    <3> QED BY <1>3, <3>2, <3>3
  <2> QED BY <1>4, <1>5, <2>4 DEF Some
<1> QED BY <1>1, <1>6, <1>7

\* The same, as far as n, and what comes after it.
Extends(g, h, n) == \A i \in 0 .. n : g[i] = h[i]

LEMMA HistoryGrows ==
  ASSUME NEW h, NEW n, History(h, n), script \in Seq(Steps), n < Len(script), h[n].attr # None
  PROVE  \E g : Extends(g, h, n) /\ History(g, n + 1)
<1> DEFINE l == Loaded(h[n].attr, script[n + 1])
           e == [attr |-> l, tensors |-> h[n].tensors + Sends(h, n), grads |-> h[n].grads + GradSends(h, n)]
           g == [i \in 0 .. n + 1 |-> IF i = n + 1 THEN e ELSE h[i]]
<1>1. n \in Nat /\ Len(script) \in Nat
  BY DEF History
<1>2. (\A i \in 0 .. n : g[i] = h[i]) /\ g[n + 1] = e
  BY <1>1
<1>3. /\ e.attr = l /\ e.tensors = h[n].tensors + Sends(h, n) /\ e.grads = h[n].grads + GradSends(h, n)
  OBVIOUS
<1>4. n \in 0 .. n /\ h[n].tensors \in Nat /\ h[n].grads \in Nat /\ Sends(h, n) \in Nat /\ GradSends(h, n) \in Nat
  BY <1>1, HistoryHas
<1>5. l # None => /\ l \in Schedules /\ l.num \in Positive /\ l.size \in Positive
                  /\ l.last = script[n + 1].rows
                  /\ l.cache => script[1].train /\ script[n + 1].rows = l.size * l.num
  BY LoadedPrepared
<1> DEFINE m == n + 1
<1>6. m \in Nat /\ m = n + 1 /\ m # 0 /\ 0 .. m = 0 .. n \cup {m} /\ m \in 0 .. Len(script)
  BY <1>1
<1> HIDE DEF l, e, g, m
<1>7. \A i \in 0 .. n : Sends(g, i) = Sends(h, i) /\ GradSends(g, i) = GradSends(h, i)
  BY <1>2 DEF Sends, GradSends
<1>8. \A i \in 0 .. m : g[i].attr \in Schedules \cup {None} /\ g[i].tensors \in Nat /\ g[i].grads \in Nat
  <2>1. ASSUME NEW i \in 0 .. n
        PROVE g[i].attr \in Schedules \cup {None} /\ g[i].tensors \in Nat /\ g[i].grads \in Nat
    BY <1>2 DEF History
  <2>2. g[m].attr \in Schedules \cup {None} /\ g[m].tensors \in Nat /\ g[m].grads \in Nat
    <3>1. g[m] = e
      BY <1>2, <1>6
    <3>2. e.tensors \in Nat /\ e.grads \in Nat
      BY <1>3, <1>4
    <3>3. e.attr \in Schedules \cup {None}
      BY <1>3, <1>5
    <3> QED BY <3>1, <3>2, <3>3
  <2> QED BY <1>6, <2>1, <2>2
<1>9. Some(g[0].attr) /\ g[0].attr.last = None /\ g[0].tensors = 0 /\ g[0].grads = 0
  BY <1>1, <1>2 DEF History
<1>10. \A i \in 0 .. m - 1 : Follows(g, i)
  <2>1. SUFFICES ASSUME NEW i \in 0 .. n PROVE Follows(g, i)
    BY <1>6
  <2>2. CASE i = n
    BY <1>2, <1>3, <1>6, <1>7, <2>2 DEF Follows, l
  <2>3. CASE i < n
    <3>1. Follows(h, i) /\ i + 1 \in 0 .. n
      BY <1>1, <2>3 DEF History
    <3> QED BY <1>2, <1>7, <3>1 DEF Follows
  <2> QED BY <1>1, <2>2, <2>3
<1>11. \A i \in 1 .. m : Prepared(g, i)
  <2>1. ASSUME NEW i \in 1 .. n PROVE Prepared(g, i)
    <3>1. Prepared(h, i) /\ g[i] = h[i]
      BY <1>1, <1>2 DEF History
    <3> QED BY <3>1 DEF Prepared
  <2>2. Prepared(g, m)
    BY <1>2, <1>3, <1>5, <1>6 DEF Prepared
  <2> QED BY <1>1, <1>6, <2>1, <2>2
<1>12. \A i, j \in 0 .. m : i < j => /\ g[j].tensors >= g[i].tensors + Sends(g, i)
                                     /\ g[j].grads >= g[i].grads + GradSends(g, i)
  <2>1. SUFFICES ASSUME NEW i \in 0 .. n, NEW j \in 0 .. m, i < j
                 PROVE /\ g[j].tensors >= h[i].tensors + Sends(h, i)
                       /\ g[j].grads >= h[i].grads + GradSends(h, i)
    BY <1>1, <1>2, <1>6, <1>7
  <2>2. i < n => /\ h[n].tensors >= h[i].tensors + Sends(h, i)
                 /\ h[n].grads >= h[i].grads + GradSends(h, i)
    BY <1>1 DEF History
  <2>3. i < n => Sends(h, i) \in Nat /\ GradSends(h, i) \in Nat /\ h[i].tensors \in Nat /\ h[i].grads \in Nat
    <3>1. i < n => h[i].attr # None
      <4>1. i < n => Follows(h, i)
        BY <1>1 DEF History
      <4> QED BY <4>1 DEF Follows
    <3> QED BY <3>1, HistoryHas
  <2>4. CASE j = m
    <3>1. g[m].tensors = h[n].tensors + Sends(h, n) /\ g[m].grads = h[n].grads + GradSends(h, n)
      BY <1>2, <1>3, <1>6
    <3>2. CASE i = n
      BY <1>4, <2>4, <3>1, <3>2
    <3>3. CASE i < n
      <4>1. g[m].tensors >= h[n].tensors /\ g[m].grads >= h[n].grads
            /\ g[m].tensors \in Nat /\ g[m].grads \in Nat
        BY <1>4, <3>1
      <4>2. g[m].tensors >= h[i].tensors + Sends(h, i)
        <5>1. h[i].tensors + Sends(h, i) \in Nat
          BY <2>3, <3>3
        <5>2. h[n].tensors >= h[i].tensors + Sends(h, i)
          BY <2>2, <3>3
        <5> QED BY <1>4, <4>1, <5>1, <5>2
      <4>3. g[m].grads >= h[i].grads + GradSends(h, i)
        <5>1. h[i].grads + GradSends(h, i) \in Nat
          BY <2>3, <3>3
        <5>2. h[n].grads >= h[i].grads + GradSends(h, i)
          BY <2>2, <3>3
        <5> QED BY <1>4, <4>1, <5>1, <5>2
      <4> QED BY <2>4, <4>2, <4>3
    <3> QED BY <1>1, <3>2, <3>3
  <2>5. CASE j \in 0 .. n
    <3>1. g[j] = h[j]
      BY <1>2, <2>5
    <3> QED BY <2>1, <2>5, <3>1 DEF History
  <2> QED BY <1>6, <2>4, <2>5
<1>13. History(g, m)
  BY <1>6, <1>8, <1>9, <1>10, <1>11, <1>12 DEF History
<1> QED BY <1>2, <1>6, <1>13 DEF Extends

\* Where as much has gone before, it is the same step and the same microbatch.
LEMMA SamePlace ==
  ASSUME NEW h, NEW n, History(h, n), NEW i \in 0 .. n, NEW j \in 0 .. n,
         h[i].attr # None, h[j].attr # None, NEW a \in Nat, NEW b \in Nat
  PROVE  /\ a < Sends(h, i) /\ b < Sends(h, j) /\ h[i].tensors + a = h[j].tensors + b => i = j /\ a = b
         /\ a < GradSends(h, i) /\ b < GradSends(h, j) /\ h[i].grads + a = h[j].grads + b => i = j /\ a = b
<1>1. /\ h[i].tensors \in Nat /\ h[i].grads \in Nat /\ Sends(h, i) \in Nat /\ GradSends(h, i) \in Nat
      /\ h[j].tensors \in Nat /\ h[j].grads \in Nat /\ Sends(h, j) \in Nat /\ GradSends(h, j) \in Nat
      /\ i \in Nat /\ j \in Nat
  BY HistoryHas
<1>2. CASE i = j
  BY <1>1, <1>2
<1>3. CASE i < j
  <2>1. h[j].tensors >= h[i].tensors + Sends(h, i) /\ h[j].grads >= h[i].grads + GradSends(h, i)
    BY <1>3 DEF History
  <2> QED BY <1>1, <2>1
<1>4. CASE j < i
  <2>1. h[i].tensors >= h[j].tensors + Sends(h, j) /\ h[i].grads >= h[j].grads + GradSends(h, j)
    BY <1>4 DEF History
  <2> QED BY <1>1, <2>1
<1> QED BY <1>1, <1>2, <1>3, <1>4

LEMMA LinkGrows ==
  ASSUME NEW h, NEW n, Linked(h, n), script \in Seq(Steps), n < Len(script), h[n].attr # None
  PROVE  \E g : Linked(g, n + 1)
<1>1. History(h, n) /\ n \in Nat
  BY DEF Linked, History
<1>2. PICK g : Extends(g, h, n) /\ History(g, n + 1)
  BY <1>1, HistoryGrows
<1>3. \A s \in Stages : step[s] \in 0 .. n /\ g[step[s]] = h[step[s]]
  BY <1>2 DEF Extends, Linked, StageLink, InHistory
<1>4. \A x, y \in Stages : SentBefore(x, y, g) = SentBefore(x, y, h) /\ GotBefore(x, y, g) = GotBefore(x, y, h)
  BY <1>3 DEF SentBefore, GotBefore, Before
<1>5. \A s \in Stages : StageLink(s, g, n + 1)
  <2>1. SUFFICES ASSUME NEW s \in Stages PROVE StageLink(s, g, n + 1)
    OBVIOUS
  <2>2. StageLink(s, h, n)
    BY DEF Linked
  <2>3. InHistory(s, g, n + 1)
    <3>1. step[s] \in 0 .. n + 1
      BY <1>1, <1>3
    <3> QED BY <1>3, <2>2, <3>1 DEF StageLink, InHistory
  <2>4. Flags(s, g)
    BY <1>4, <2>2 DEF StageLink, Flags, Neighbours
  <2> QED BY <2>2, <2>3, <2>4 DEF StageLink
<1>6. \A x, y \in Stages : Neighbours(x, y) => Wire(x, y, g)
  <2>1. \A x, y \in Stages : Neighbours(x, y) => Wire(x, y, h)
    BY DEF Linked
  <2> QED BY <1>4, <2>1 DEF Wire, Out, In
<1> QED BY <1>2, <1>5, <1>6 DEF Linked

-----------------------------------------------------------------------------
(* A stage that does not move.                                             *)

\* All but what it waits for.
Settled(s) ==
  /\ script' = script /\ (s \in failed' <=> s \in failed)
  /\ step'[s] = step[s] /\ sched'[s] = sched[s] /\ todo'[s] = todo[s] /\ loaded'[s] = loaded[s]
  /\ saved'[s] = saved[s] /\ input_obj'[s] = input_obj[s] /\ output_obj'[s] = output_obj[s]
  /\ output_obj_grad'[s] = output_obj_grad[s] /\ input_obj_grad'[s] = input_obj_grad[s]

LEMMA SettledIs ==
  ASSUME NEW s \in Stages, Settled(s)
  PROVE  /\ Call(s)' = Call(s) /\ Active(s)' = Active(s) /\ Batch(s)' = Batch(s) /\ Size(s)' = Size(s)
         /\ TensorsSent(s)' = TensorsSent(s) /\ TensorsReceived(s)' = TensorsReceived(s)
         /\ GradsUsed(s)' = GradsUsed(s) /\ GradsReceived(s)' = GradsReceived(s)
         /\ GradsSent(s)' = GradsSent(s)
<1>1. Call(s)' = Call(s) /\ Active(s)' = Active(s) /\ Batch(s)' = Batch(s) /\ Size(s)' = Size(s)
  BY DEF Settled, Call, Active, Batch, Size
<1>2. TensorsSent(s)' = TensorsSent(s) /\ TensorsReceived(s)' = TensorsReceived(s)
  BY <1>1 DEF Settled, TensorsSent, TensorsReceived
<1>3. GradsUsed(s)' = GradsUsed(s)
  BY <1>1, <1>2 DEF Settled, GradsUsed
<1> QED BY <1>1, <1>2, <1>3 DEF GradsReceived, GradsSent

LEMMA SettledKeeps ==
  ASSUME NEW s \in Stages, Settled(s), NEW h, NEW n
  PROVE  /\ InHistory(s, h, n) => InHistory(s, h, n)'
         /\ Flags(s, h) => Flags(s, h)'
         /\ Data(s) => Data(s)'
         /\ \A y : /\ SentBefore(s, y, h)' = SentBefore(s, y, h) /\ GotBefore(y, s, h)' = GotBefore(y, s, h)
                   /\ SendFlag(s, y)' = SendFlag(s, y) /\ Cached(y, s)' = Cached(y, s)
         /\ \A obj, j : IsMicro(s, obj, j)' = IsMicro(s, obj, j)
<1>1. /\ Call(s)' = Call(s) /\ Active(s)' = Active(s) /\ Batch(s)' = Batch(s) /\ Size(s)' = Size(s)
      /\ TensorsSent(s)' = TensorsSent(s) /\ TensorsReceived(s)' = TensorsReceived(s)
      /\ GradsUsed(s)' = GradsUsed(s) /\ GradsReceived(s)' = GradsReceived(s)
      /\ GradsSent(s)' = GradsSent(s)
  BY SettledIs
<1>2. InHistory(s, h, n) => InHistory(s, h, n)'
  BY DEF InHistory, Settled
<1>3. \A y : /\ SentBefore(s, y, h)' = SentBefore(s, y, h) /\ GotBefore(y, s, h)' = GotBefore(y, s, h)
             /\ SendFlag(s, y)' = SendFlag(s, y) /\ Cached(y, s)' = Cached(y, s)
  BY <1>1 DEF SentBefore, GotBefore, Before, SendIndex, RecvIndex, SendFlag, Cached, Settled
<1>4. Flags(s, h) => Flags(s, h)'
  BY <1>3 DEF Flags, Settled
<1>5. \A obj, j : IsMicro(s, obj, j)' = IsMicro(s, obj, j)
  BY <1>1 DEF IsMicro, MicroRows, Settled
<1>6. \A obj, j : IsInput(s, obj, j)' = IsInput(s, obj, j) /\ IsOutput(s, obj, j)' = IsOutput(s, obj, j)
  BY <1>1, <1>5 DEF IsInput, IsOutput
<1>7. \A p, j : IsSaved(s, p, j)' = IsSaved(s, p, j)
  BY <1>6 DEF IsSaved
<1>8. Data(s) => Data(s)'
  BY <1>1, <1>5, <1>6, <1>7 DEF Data, Settled
<1> QED BY <1>2, <1>3, <1>4, <1>5, <1>8

\* The wires see no difference.
SameEnds(s, h) ==
  \A y \in Stages : Neighbours(s, y) =>
    /\ Out(s, y, h)' = Out(s, y, h) /\ In(y, s, h)' = In(y, s, h)
    /\ HalfSent(s, y)' <=> HalfSent(s, y)
    /\ HalfGot(y, s)' <=> HalfGot(y, s)

LEMMA StillKeeps ==
  ASSUME NEW s \in Stages, Settled(s), comm'[s] = comm[s], NEW h, NEW n, StageLink(s, h, n)
  PROVE  StageLink(s, h, n)' /\ SameEnds(s, h)
<1>1. InHistory(s, h, n) /\ Flags(s, h) /\ Data(s) /\ CommIs(s)
  BY DEF StageLink
<1>2. /\ Call(s)' = Call(s) /\ Batch(s)' = Batch(s) /\ Size(s)' = Size(s)
      /\ TensorsSent(s)' = TensorsSent(s) /\ TensorsReceived(s)' = TensorsReceived(s)
      /\ GradsReceived(s)' = GradsReceived(s) /\ GradsSent(s)' = GradsSent(s)
  BY SettledIs
<1>3. InHistory(s, h, n)' /\ Flags(s, h)' /\ Data(s)'
  BY <1>1, SettledKeeps
<1>4. /\ \A y : /\ SentBefore(s, y, h)' = SentBefore(s, y, h) /\ GotBefore(y, s, h)' = GotBefore(y, s, h)
                /\ SendFlag(s, y)' = SendFlag(s, y) /\ Cached(y, s)' = Cached(y, s)
      /\ \A obj, j : IsMicro(s, obj, j)' = IsMicro(s, obj, j)
  BY SettledKeeps
<1>5. /\ \A y : /\ SendCalls(s, y)' = SendCalls(s, y) /\ RecvCalls(y, s)' = RecvCalls(y, s)
                /\ SendIndex(s, y)' = SendIndex(s, y) /\ RecvIndex(y, s)' = RecvIndex(y, s)
                /\ Neighbours(s, y)' = Neighbours(s, y)
      /\ \A j : MicroRows(s, j)' = MicroRows(s, j)
  BY <1>2 DEF SendCalls, RecvCalls, SendIndex, RecvIndex, Neighbours, MicroRows
<1>6. CommIs(s)'
  BY <1>1, <1>2, <1>4, <1>5 DEF CommIs
<1>7. SameEnds(s, h)
  BY <1>2, <1>4, <1>5 DEF SameEnds, Out, In, DataSent, DataGot, HalfSent, HalfGot
<1> QED BY <1>3, <1>6, <1>7 DEF StageLink

\* One stage moves, and the wires do not see it.
LEMMA OneLinks ==
  ASSUME NEW h, NEW n, Linked(h, n), NEW s \in Stages, script' = script, Placed',
         StageLink(s, h, n)', SameEnds(s, h),
         \A t \in Stages \ {s} : Settled(t) /\ comm'[t] = comm[t]
  PROVE  Linked(h, n)'
<1>1. \A t \in Stages : StageLink(t, h, n)' /\ SameEnds(t, h)
  <2>1. ASSUME NEW t \in Stages \ {s} PROVE StageLink(t, h, n)' /\ SameEnds(t, h)
    <3>1. StageLink(t, h, n) /\ Settled(t) /\ comm'[t] = comm[t]
      BY DEF Linked
    <3> QED BY <3>1, StillKeeps
  <2> QED BY <2>1
<1>2. \A x, y \in Stages : Neighbours(x, y) => Wire(x, y, h)'
  <2>1. SUFFICES ASSUME NEW x \in Stages, NEW y \in Stages, Neighbours(x, y) PROVE Wire(x, y, h)'
    OBVIOUS
  <2>2. Wire(x, y, h) /\ Neighbours(y, x)
    BY <2>1 DEF Linked, Neighbours, Stages
  <2>3. Out(x, y, h)' = Out(x, y, h) /\ (HalfSent(x, y)' <=> HalfSent(x, y))
    BY <1>1, <2>1 DEF SameEnds
  <2>4. In(x, y, h)' = In(x, y, h) /\ (HalfGot(x, y)' <=> HalfGot(x, y))
    BY <1>1, <2>2 DEF SameEnds
  <2> QED BY <2>2, <2>3, <2>4 DEF Wire
<1>3. History(h, n)'
  BY DEF Linked, History, Follows, Prepared, Sends, GradSends
<1>4. \A x, y : Neighbours(x, y)' = Neighbours(x, y)
  BY DEF Neighbours
<1> QED BY <1>1, <1>2, <1>3, <1>4 DEF Linked

-----------------------------------------------------------------------------
(* A stage under way.                                                      *)

LEMMA MicroRowsAre ==
  ASSUME Local, NEW s \in Stages, Active(s), NEW j \in Nat, j < sched[s].num
  PROVE  /\ MicroRows(s, j) \in Nat /\ Size(s) \in Nat
         /\ Batch(s).rows = Size(s) * sched[s].num => MicroRows(s, j) = Size(s)
<1>1. InStep(s)
  BY StageNumbers
<1> DEFINE z == sched[s].size
           m == sched[s].num - 1
           r == Batch(s).rows
<1>2. /\ z \in Nat /\ m \in Nat /\ j <= m /\ sched[s].num = m + 1
      /\ (sched[s].num - 1) * sched[s].size < Batch(s).rows
  BY <1>1 DEF InStep, Positive, Covers
<1>3. r \in Nat
  <2>1. Batch(s) \in Steps
    BY <1>1, NumbersAre
  <2> QED BY <2>1 DEF Steps, Positive
<1>4. m * z < r
  BY <1>2
<1>5. r = Size(s) * sched[s].num => r = m * z + z
  BY <1>2 DEF Size
<1>6. MicroRows(s, j) = Fewer(z, r - j * z) /\ Size(s) = z
  BY DEF MicroRows, Size
<1> HIDE DEF z, m, r
<1>7. j * z <= m * z /\ j * z \in Nat /\ m * z \in Nat
  BY <1>2, Times
<1>8. MicroRows(s, j) \in Nat
  BY <1>2, <1>3, <1>4, <1>6, <1>7 DEF Fewer
<1>9. r = m * z + z => MicroRows(s, j) = z
  BY <1>2, <1>3, <1>6, <1>7 DEF Fewer
<1> QED BY <1>2, <1>5, <1>6, <1>8, <1>9 DEF r

LEMMA IndexBounds ==
  ASSUME Local, NEW s \in Stages, Active(s), NEW y
  PROVE  /\ SendIndex(s, y) \in Nat /\ RecvIndex(y, s) \in Nat
         /\ Call(s) \in SendCalls(s, y) => SendIndex(s, y) < sched[s].num
         /\ Call(s) \in RecvCalls(y, s) => RecvIndex(y, s) < sched[s].num
         /\ Call(s) \in GradReceiving \cup GradSending => Batch(s).train
         /\ Call(s) \in Saving => SendIndex(s, y) = loaded[s] - 1 \/ ~ (y > s)
         /\ Call(s) \in GradSending => SendIndex(s, y) = GradsUsed(s) - 1 \/ y > s
         /\ Call(s) \in Receiving => RecvIndex(y, s) = loaded[s] \/ ~ (s > y)
         /\ Call(s) \in GradReceiving => RecvIndex(y, s) = GradsUsed(s) \/ s > y
<1>1. NumbersAt(s)
  BY StageNumbers
<1> DEFINE c == Call(s)
<1>2. /\ TensorsSent(s) = loaded[s] - One(c \in Saving) /\ TensorsReceived(s) = loaded[s] + One(c = "forward_step")
      /\ GradsSent(s) = GradsUsed(s) - One(c \in GradSending)
      /\ GradsReceived(s) = GradsUsed(s) + One(c = "backward_step")
  BY DEF TensorsSent, TensorsReceived, GradsSent, GradsReceived
<1>3. /\ c \in Saving => One(c \in Saving) = 1
      /\ c \in GradSending => One(c \in GradSending) = 1
      /\ c \notin GradSending => One(c \in GradSending) = 0
      /\ c \in Receiving => One(c = "forward_step") = 0
      /\ c \in GradReceiving => One(c = "backward_step") = 0
      /\ One(c = "forward_step") \in Nat /\ One(c = "backward_step") \in Nat
  BY DEF One, Saving, Receiving, GradReceiving, GradSending
<1>4. /\ SendIndex(s, y) = (IF y > s THEN TensorsSent(s) ELSE GradsSent(s))
      /\ RecvIndex(y, s) = (IF s > y THEN TensorsReceived(s) ELSE GradsReceived(s))
      /\ SendCalls(s, y) = (IF y > s THEN Saving ELSE GradSending)
      /\ RecvCalls(y, s) = (IF s > y THEN Receiving ELSE GradReceiving)
  BY DEF SendIndex, RecvIndex, SendCalls, RecvCalls
<1>5. /\ sched[s].num \in Nat /\ loaded[s] \in 0 .. sched[s].num /\ GradsUsed(s) \in 0 .. sched[s].num
      /\ TensorsSent(s) \in 0 .. sched[s].num
      /\ c \in Receiving => loaded[s] < sched[s].num
      /\ c \in Saving => loaded[s] > 0
      /\ c \in GradReceiving => GradsUsed(s) < sched[s].num
      /\ c \in GradSending => GradsUsed(s) > 0
      /\ c \in GradReceiving \cup GradSending => Batch(s).train
  BY <1>1 DEF NumbersAt
<1> HIDE DEF c
<1>6. GradsSent(s) \in Nat /\ GradsReceived(s) \in Nat /\ TensorsReceived(s) \in Nat
  BY <1>2, <1>3, <1>5
<1>7. /\ c \in Saving => TensorsSent(s) < sched[s].num /\ TensorsSent(s) = loaded[s] - 1
      /\ c \in GradSending => GradsSent(s) < sched[s].num /\ GradsSent(s) = GradsUsed(s) - 1
      /\ c \in Receiving => TensorsReceived(s) < sched[s].num /\ TensorsReceived(s) = loaded[s]
      /\ c \in GradReceiving => GradsReceived(s) < sched[s].num /\ GradsReceived(s) = GradsUsed(s)
  BY <1>2, <1>3, <1>5
<1>8. SendIndex(s, y) \in Nat /\ RecvIndex(y, s) \in Nat
  BY <1>4, <1>5, <1>6
<1> QED BY <1>4, <1>5, <1>7, <1>8, Zenon DEF c

LEMMA IndexMoves ==
  ASSUME Local, NEW s \in Stages, Advance(s), NEW h, NEW n, History(h, n), InHistory(s, h, n), NEW y
  PROVE  /\ SentBefore(s, y, h)' = SentBefore(s, y, h) + One(Call(s) \in SendCalls(s, y))
         /\ GotBefore(y, s, h)' = GotBefore(y, s, h) + One(Call(s) \in RecvCalls(y, s))
         /\ SentBefore(s, y, h) \in Nat /\ GotBefore(y, s, h) \in Nat
<1>1. /\ Active(s)
      /\ TensorsSent(s)' = TensorsSent(s) + One(Call(s) \in Saving)
      /\ TensorsReceived(s)' = TensorsReceived(s) + One(Call(s) \in Receiving)
      /\ GradsReceived(s)' = GradsReceived(s) + One(Call(s) \in GradReceiving)
      /\ GradsSent(s)' = GradsSent(s) + One(Call(s) \in GradSending)
  BY CountsMove
<1>2. /\ SendIndex(s, y)' = SendIndex(s, y) + One(Call(s) \in SendCalls(s, y))
      /\ RecvIndex(y, s)' = RecvIndex(y, s) + One(Call(s) \in RecvCalls(y, s))
  BY <1>1 DEF SendIndex, RecvIndex, SendCalls, RecvCalls
<1>3. SendIndex(s, y) \in Nat /\ RecvIndex(y, s) \in Nat
  BY <1>1, IndexBounds
<1>4. step'[s] = step[s] /\ step[s] \in 0 .. n
  BY DEF Advance, SameStep, InHistory
<1>5. /\ Before(h, step[s], s, y) \in Nat /\ Before(h, step[s], y, s) \in Nat
      /\ Before(h, step'[s], s, y) = Before(h, step[s], s, y)
      /\ Before(h, step'[s], y, s) = Before(h, step[s], y, s)
  BY <1>4, HistoryHas DEF Before
<1>6. /\ SentBefore(s, y, h) = Before(h, step[s], s, y) + SendIndex(s, y)
      /\ GotBefore(y, s, h) = Before(h, step[s], y, s) + RecvIndex(y, s)
      /\ SentBefore(s, y, h)' = Before(h, step'[s], s, y) + SendIndex(s, y)'
      /\ GotBefore(y, s, h)' = Before(h, step'[s], y, s) + RecvIndex(y, s)'
  BY DEF SentBefore, GotBefore, Before
<1>7. One(Call(s) \in SendCalls(s, y)) \in Nat /\ One(Call(s) \in RecvCalls(y, s)) \in Nat
  BY DEF One
<1> QED BY <1>2, <1>3, <1>5, <1>6, <1>7

\* What the history says of the step of a stage.
LEMMA StepInHistory ==
  ASSUME Local, NEW s \in Stages, Active(s), NEW h, NEW n, History(h, n), InHistory(s, h, n)
  PROVE  /\ step[s] \in 0 .. n /\ h[step[s]].attr # None
         /\ Sends(h, step[s]) = sched[s].num
         /\ GradSends(h, step[s]) = IF Batch(s).train THEN sched[s].num ELSE 0
         /\ sched[s].cache => script[1].train /\ Batch(s).rows = Size(s) * sched[s].num
         /\ h[step[s]].tensors = 0 => Batch(s) = script[1]
<1>1. /\ step[s] \in 1 .. n /\ h[step[s]].attr # None /\ n \in Nat
      /\ SameCore(sched[s], h[step[s]].attr)
  BY DEF InHistory, Active, History
<1>2. Prepared(h, step[s])
  BY <1>1 DEF History
<1>3. /\ Sends(h, step[s]) = sched[s].num
      /\ GradSends(h, step[s]) = IF Batch(s).train THEN sched[s].num ELSE 0
  BY <1>1 DEF Sends, GradSends, SameCore, Batch
<1>4. sched[s].cache => script[1].train /\ Batch(s).rows = Size(s) * sched[s].num
  BY <1>1, <1>2 DEF Prepared, SameCore, Size, Batch
<1>5. ASSUME step[s] # 1 PROVE h[step[s]].tensors # 0
  <2>1. 1 \in 0 .. n /\ 1 < step[s] /\ step[s] \in 0 .. n
    BY <1>1, <1>5
  <2>2. h[step[s]].tensors >= h[1].tensors + Sends(h, 1)
    BY <2>1 DEF History
  <2>3. Follows(h, 1)
    BY <1>1, <2>1 DEF History
  <2>4. h[1].attr # None /\ h[1].tensors \in Nat
    BY <2>1, <2>3, HistoryHas DEF Follows
  <2>5. Sends(h, 1) \in Positive
    BY <2>1, <2>4, HistoryHas DEF Sends
  <2>6. h[step[s]].tensors \in Nat
    BY <2>1, HistoryHas
  <2> QED BY <2>2, <2>4, <2>5, <2>6 DEF Positive
<1> QED BY <1>1, <1>3, <1>4, <1>5 DEF Batch

-----------------------------------------------------------------------------
(* A call that is over.                                                    *)

\* What it has received, and what it leaves in the cache.
GotIs(s) ==
  \A y \in Stages : Neighbours(s, y) /\ Call(s) \in RecvCalls(y, s) =>
    IsMicro(s, comm[s].got, RecvIndex(y, s)) /\ (y < s /\ Batch(s).train => comm[s].got.grad)

Recorded(s) ==
  /\ sched'[s] \in Schedules /\ SameCore(sched[s], sched'[s])
  /\ \A y \in Stages : Neighbours(s, y) =>
       /\ SendFlag(s, y)' = IF Call(s) \in SendCalls(s, y) THEN ~ sched[s].cache ELSE SendFlag(s, y)
       /\ Cached(y, s)' = IF Call(s) \in RecvCalls(y, s) /\ sched[s].cache /\ Cached(y, s) = None
                          THEN Meta(comm[s].got) ELSE Cached(y, s)

LEMMA FlagsMove ==
  ASSUME Local, NEW s \in Stages, Advance(s), NEW h, NEW n, History(h, n), InHistory(s, h, n),
         Flags(s, h), Recorded(s), GotIs(s)
  PROVE  InHistory(s, h, n)' /\ Flags(s, h)'
<1>1. Active(s) /\ step'[s] = step[s] /\ s \notin failed /\ s \notin failed'
  BY CountsMove DEF Advance, SameStep
<1>2. /\ step[s] \in 0 .. n /\ h[step[s]].attr # None /\ SameCore(sched[s], h[step[s]].attr)
      /\ sched[s] \in Schedules
  BY <1>1 DEF InHistory
<1>3. InHistory(s, h, n)'
  <2>1. SameCore(sched'[s], h[step'[s]].attr) /\ sched'[s] \in Schedules
    BY <1>1, <1>2 DEF Recorded, SameCore
  <2> QED BY <1>1, <1>2, <2>1 DEF InHistory, SameCore
<1>4. sched'[s].cache = sched[s].cache /\ sched'[s].size = sched[s].size /\ sched[s].cache \in BOOLEAN
  BY <1>2 DEF Recorded, SameCore, Schedules
<1>5. ASSUME NEW y \in Stages, Neighbours(s, y)
      PROVE  /\ SendFlag(s, y)' = (~ sched[s].cache \/ SentBefore(s, y, h)' = 0)
             /\ (Cached(y, s)' = None) = (~ sched[s].cache \/ GotBefore(y, s, h)' = 0)
             /\ Cached(y, s)' # None => /\ Cached(y, s)'.rows = sched[s].size
                                        /\ y < s => Cached(y, s)'.grad
  <2>1. /\ SendFlag(s, y) = (~ sched[s].cache \/ SentBefore(s, y, h) = 0)
        /\ (Cached(y, s) = None) = (~ sched[s].cache \/ GotBefore(y, s, h) = 0)
        /\ Cached(y, s) # None => /\ Cached(y, s).rows = sched[s].size
                                  /\ y < s => Cached(y, s).grad
    BY <1>1, <1>5 DEF Flags
  <2>2. /\ SendFlag(s, y)' = IF Call(s) \in SendCalls(s, y) THEN ~ sched[s].cache ELSE SendFlag(s, y)
        /\ Cached(y, s)' = IF Call(s) \in RecvCalls(y, s) /\ sched[s].cache /\ Cached(y, s) = None
                           THEN Meta(comm[s].got) ELSE Cached(y, s)
    BY <1>5 DEF Recorded
  <2>3. /\ SentBefore(s, y, h)' = SentBefore(s, y, h) + One(Call(s) \in SendCalls(s, y))
        /\ GotBefore(y, s, h)' = GotBefore(y, s, h) + One(Call(s) \in RecvCalls(y, s))
        /\ SentBefore(s, y, h) \in Nat /\ GotBefore(y, s, h) \in Nat
    BY IndexMoves
  <2>4. SendFlag(s, y)' = (~ sched[s].cache \/ SentBefore(s, y, h)' = 0)
    <3>1. Call(s) \in SendCalls(s, y) => SentBefore(s, y, h)' # 0
      BY <2>3 DEF One
    <3>2. Call(s) \notin SendCalls(s, y) => SentBefore(s, y, h)' = SentBefore(s, y, h)
      BY <2>3 DEF One
    <3> QED BY <1>4, <2>1, <2>2, <3>1, <3>2, Zenon
  <2>5. CASE Call(s) \notin RecvCalls(y, s)
    <3>1. GotBefore(y, s, h)' = GotBefore(y, s, h)
      BY <2>3, <2>5 DEF One
    <3> QED BY <2>1, <2>2, <2>4, <2>5, <3>1
  <2>6. CASE Call(s) \in RecvCalls(y, s)
    <3>1. GotBefore(y, s, h)' # 0
      BY <2>3, <2>6 DEF One
    <3>2. CASE ~ sched[s].cache
      <4>1. Cached(y, s)' = None
        BY <2>1, <2>2, <3>2
      <4> QED BY <2>4, <3>2, <4>1
    <3>3. CASE sched[s].cache /\ Cached(y, s) # None
      <4>1. Cached(y, s)' = Cached(y, s)
        BY <2>2, <3>3
      <4> QED BY <2>1, <2>4, <3>1, <3>3, <4>1
    <3>4. CASE sched[s].cache /\ Cached(y, s) = None
      <4> DEFINE g == comm[s].got
                 j == RecvIndex(y, s)
      <4>1. Cached(y, s)' = Meta(g)
        BY <2>2, <2>6, <3>4
      <4>2. IsMicro(s, g, j) /\ (y < s /\ Batch(s).train => g.grad)
        BY <1>5, <2>6 DEF GotIs
      <4>3. g \in Tensors /\ g.rows = MicroRows(s, j)
        BY <4>2 DEF IsMicro
      <4>4. j \in Nat /\ j < sched[s].num
        BY <1>1, <2>6, IndexBounds
      <4>5. script[1].train /\ Batch(s).rows = Size(s) * sched[s].num
        BY <1>1, <3>4, StepInHistory
      <4>6. MicroRows(s, j) = sched[s].size
        BY <1>1, <4>4, <4>5, MicroRowsAre DEF Size
      <4>7. y < s => Batch(s).train
        <5>1. GotBefore(y, s, h) = 0
          BY <2>1, <3>4
        <5>2. GotBefore(y, s, h) = Before(h, step[s], y, s) + j /\ Before(h, step[s], y, s) \in Nat
          BY <1>2, HistoryHas DEF GotBefore, Before
        <5>3. Before(h, step[s], y, s) = 0
          BY <4>4, <5>1, <5>2
        <5>4. y < s => h[step[s]].tensors = 0
          BY <5>3 DEF Before
        <5> QED BY <1>1, <4>5, <5>4, StepInHistory
      <4>8. Meta(g) \in Metas /\ Meta(g).rows = sched[s].size /\ (y < s => Meta(g).grad)
        <5> HIDE DEF g, j
        <5> QED BY <4>2, <4>3, <4>6, <4>7 DEF Meta, Metas, Tensors
      <4>9. Meta(g) # None
        BY <4>8, NoneIsNone
      <4> HIDE DEF g, j
      <4> QED BY <2>4, <3>1, <3>4, <4>1, <4>8, <4>9
    <3> QED BY <1>4, <3>2, <3>3, <3>4
  <2> QED BY <2>5, <2>6
<1>6. \A y : Neighbours(s, y)' = Neighbours(s, y)
  BY DEF Neighbours
<1>7. Flags(s, h)'
  BY <1>4, <1>5, <1>6 DEF Flags
<1> QED BY <1>3, <1>7

\* Nothing is left to wait for.
Done(s) ==
  IF comm[s] = None
  THEN \A y \in Stages : Neighbours(s, y) => Call(s) \notin SendCalls(s, y) \cup RecvCalls(y, s)
  ELSE comm[s].phase = "data" /\ ~ comm[s].send /\ ~ comm[s].recv

LEMMA EndsStay ==
  ASSUME Local, NEW s \in Stages, Advance(s), Done(s), NEW h, NEW n, History(h, n), InHistory(s, h, n)
  PROVE  SameEnds(s, h)
<1>1. SUFFICES ASSUME NEW y \in Stages, Neighbours(s, y)
               PROVE  /\ Out(s, y, h)' = Out(s, y, h) /\ In(y, s, h)' = In(y, s, h)
                      /\ HalfSent(s, y)' <=> HalfSent(s, y)
                      /\ HalfGot(y, s)' <=> HalfGot(y, s)
  BY DEF SameEnds
<1>2. /\ SentBefore(s, y, h)' = SentBefore(s, y, h) + One(Call(s) \in SendCalls(s, y))
      /\ GotBefore(y, s, h)' = GotBefore(y, s, h) + One(Call(s) \in RecvCalls(y, s))
      /\ SentBefore(s, y, h) \in Nat /\ GotBefore(y, s, h) \in Nat
  BY IndexMoves
<1>3. comm'[s] = None
  BY DEF Advance
<1>4. ~ DataSent(s, y)' /\ ~ DataGot(y, s)' /\ ~ HalfSent(s, y)' /\ ~ HalfGot(y, s)'
  BY <1>3 DEF DataSent, DataGot, HalfSent, HalfGot
<1>5. /\ DataSent(s, y) <=> Call(s) \in SendCalls(s, y)
      /\ DataGot(y, s) <=> Call(s) \in RecvCalls(y, s)
      /\ ~ HalfSent(s, y) /\ ~ HalfGot(y, s)
  BY <1>1 DEF Done, DataSent, DataGot, HalfSent, HalfGot
<1>6. /\ One(DataSent(s, y)) = One(Call(s) \in SendCalls(s, y)) /\ One(DataSent(s, y)') = 0
      /\ One(DataGot(y, s)) = One(Call(s) \in RecvCalls(y, s)) /\ One(DataGot(y, s)') = 0
      /\ One(DataSent(s, y)) \in Nat /\ One(DataGot(y, s)) \in Nat
  BY <1>4, <1>5 DEF One
<1>7. /\ Out(s, y, h)' = SentBefore(s, y, h)' + One(DataSent(s, y)')
      /\ In(y, s, h)' = GotBefore(y, s, h)' + One(DataGot(y, s)')
      /\ Out(s, y, h) = SentBefore(s, y, h) + One(DataSent(s, y))
      /\ In(y, s, h) = GotBefore(y, s, h) + One(DataGot(y, s))
  BY DEF Out, In, One
<1>8. Out(s, y, h)' = Out(s, y, h) /\ In(y, s, h)' = In(y, s, h)
  BY <1>2, <1>6, <1>7
<1> QED BY <1>4, <1>5, <1>8

\* What it computes or receives.
Handled(s) ==
  /\ Call(s) \in Receiving /\ ~ IsFirst(s) => IsInput(s, input_obj'[s], loaded[s])
  /\ Call(s) = "forward_step" =>
       IsSaved(s, [input |-> input_obj'[s], output |-> output_obj'[s]], loaded[s])
  /\ saved'[s] = IF Call(s) \in Saving /\ Batch(s).train
                 THEN Append(saved[s], [input |-> input_obj[s], output |-> output_obj[s]])
                 ELSE IF Call(s) = "backward_step" THEN Tail(saved[s]) ELSE saved[s]
  /\ Call(s) \in GradReceiving /\ ~ IsLast(s) => IsMicro(s, output_obj_grad'[s], GradsUsed(s))
  /\ Call(s) = "backward_step" /\ ~ IsFirst(s) => IsMicro(s, input_obj_grad'[s], GradsUsed(s))

LEMMA DataMoves ==
  ASSUME Local, NEW s \in Stages, Advance(s), Data(s), Handled(s)
  PROVE  Data(s)'
<1> DEFINE c == Call(s)
           d == CallThen(s)
<1>1. /\ Active(s) /\ Active(s)' /\ Call(s)' = d /\ c = Head(todo[s]) /\ todo[s] # <<>>
      /\ loaded'[s] = loaded[s] + One(c = "forward_step")
      /\ GradsUsed(s)' = GradsUsed(s) + One(c = "backward_step")
  BY CountsMove DEF Advance
<1>2. NumbersAt(s) /\ Chain(c, d) /\ InStep(s)
  BY <1>1, StageNumbers
<1>3. /\ step'[s] = step[s] /\ Batch(s)' = Batch(s) /\ Size(s)' = Size(s)
      /\ IsFirst(s)' = IsFirst(s) /\ IsLast(s)' = IsLast(s)
  BY NumbersStay DEF Advance, SameStep, Size, IsFirst, IsLast
<1>4. \A obj, j : IsMicro(s, obj, j)' = IsMicro(s, obj, j)
  BY <1>3 DEF IsMicro, MicroRows
<1>5. \A obj, j : IsInput(s, obj, j)' = IsInput(s, obj, j) /\ IsOutput(s, obj, j)' = IsOutput(s, obj, j)
  BY <1>3, <1>4 DEF IsInput, IsOutput
<1>6. \A p, j : IsSaved(s, p, j)' = IsSaved(s, p, j)
  BY <1>3, <1>5 DEF IsSaved
<1>7. IsSeq(saved[s])
  BY DEF Local, AtStage
<1>8. /\ loaded[s] \in Nat /\ GradsUsed(s) \in Nat /\ TensorsSent(s) \in Nat
      /\ c = "backward_step" => Batch(s).train
      /\ Batch(s).train => GradsUsed(s) = TensorsSent(s) - Len(saved[s])
      /\ TensorsSent(s) = loaded[s] - One(c \in Saving)
  BY <1>1, <1>2 DEF NumbersAt, TensorsSent
<1>9. /\ c \in Saving => c # "backward_step" /\ c # "forward_step"
      /\ c \in Receiving => c # "forward_step"
      /\ c \in GradReceiving => c # "backward_step"
  BY DEF Saving, Receiving, GradReceiving
<1> HIDE DEF c, d
<1>10. d = "forward_step" /\ ~ IsFirst(s) => IsInput(s, input_obj'[s], loaded'[s])
  <2>1. SUFFICES ASSUME d = "forward_step", ~ IsFirst(s) PROVE IsInput(s, input_obj'[s], loaded'[s])
    OBVIOUS
  <2>2. c \in Receiving
    BY <1>2, <2>1 DEF Chain
  <2>3. loaded'[s] = loaded[s]
    BY <1>1, <1>8, <1>9, <2>2 DEF One
  <2> QED BY <2>1, <2>2, <2>3 DEF Handled, c
<1>11. d \in Saving => IsSaved(s, [input |-> input_obj'[s], output |-> output_obj'[s]], loaded'[s] - 1)
  <2>1. SUFFICES ASSUME d \in Saving
                 PROVE IsSaved(s, [input |-> input_obj'[s], output |-> output_obj'[s]], loaded'[s] - 1)
    OBVIOUS
  <2>2. c = "forward_step"
    BY <1>2, <2>1 DEF Chain
  <2>3. loaded'[s] - 1 = loaded[s]
    BY <1>1, <1>8, <2>2 DEF One
  <2> QED BY <2>2, <2>3 DEF Handled, c
<1>12. d = "backward_step" /\ ~ IsLast(s) => IsMicro(s, output_obj_grad'[s], GradsUsed(s)')
  <2>1. SUFFICES ASSUME d = "backward_step", ~ IsLast(s) PROVE IsMicro(s, output_obj_grad'[s], GradsUsed(s)')
    OBVIOUS
  <2>2. c \in GradReceiving
    BY <1>2, <2>1 DEF Chain
  <2>3. GradsUsed(s)' = GradsUsed(s)
    BY <1>1, <1>8, <1>9, <2>2 DEF One
  <2> QED BY <2>1, <2>2, <2>3 DEF Handled, c
<1>13. d \in GradSending /\ ~ IsFirst(s) => IsMicro(s, input_obj_grad'[s], GradsUsed(s)' - 1)
  <2>1. SUFFICES ASSUME d \in GradSending, ~ IsFirst(s) PROVE IsMicro(s, input_obj_grad'[s], GradsUsed(s)' - 1)
    OBVIOUS
  <2>2. c = "backward_step"
    BY <1>2, <2>1 DEF Chain
  <2>3. GradsUsed(s)' - 1 = GradsUsed(s)
    BY <1>1, <1>8, <2>2 DEF One
  <2> QED BY <2>1, <2>2, <2>3 DEF Handled, c
<1>14. Batch(s).train => \A p \in 1 .. Len(saved'[s]) : IsSaved(s, saved'[s][p], GradsUsed(s)' + (p - 1))
  <2>1. SUFFICES ASSUME Batch(s).train, NEW p \in 1 .. Len(saved'[s])
                 PROVE IsSaved(s, saved'[s][p], GradsUsed(s)' + (p - 1))
    OBVIOUS
  <2>2. \A q \in 1 .. Len(saved[s]) : IsSaved(s, saved[s][q], GradsUsed(s) + (q - 1))
    BY <1>1, <2>1 DEF Data
  <2>3. saved'[s] = IF c \in Saving THEN Append(saved[s], [input |-> input_obj[s], output |-> output_obj[s]])
                    ELSE IF c = "backward_step" THEN Tail(saved[s]) ELSE saved[s]
    BY <2>1 DEF Handled, c
  <2>4. Len(saved[s]) \in Nat
    BY <1>7, SeqFacts
  <2>5. CASE c \in Saving
    <3> DEFINE x == [input |-> input_obj[s], output |-> output_obj[s]]
    <3>1. saved'[s] = Append(saved[s], x) /\ IsSaved(s, x, loaded[s] - 1)
      BY <1>1, <2>3, <2>5 DEF Data, c
    <3> HIDE DEF x
    <3>2. /\ Len(saved'[s]) = Len(saved[s]) + 1 /\ saved'[s][Len(saved[s]) + 1] = x
          /\ \A q \in 1 .. Len(saved[s]) : saved'[s][q] = saved[s][q]
      <4>1. PICK S : saved[s] \in Seq(S)
        BY <1>7 DEF IsSeq
      <4>2. saved[s] \in Seq(S \cup {x}) /\ x \in S \cup {x}
        BY <4>1
      <4> QED BY <3>1, <4>2
    <3>3. GradsUsed(s)' = GradsUsed(s) /\ GradsUsed(s) + Len(saved[s]) = loaded[s] - 1
      BY <1>1, <1>8, <1>9, <2>1, <2>4, <2>5 DEF One
    <3>4. CASE p = Len(saved[s]) + 1
      <4>1. GradsUsed(s)' + (p - 1) = loaded[s] - 1
        BY <1>8, <2>4, <3>3, <3>4
      <4> QED BY <3>1, <3>2, <3>4, <4>1
    <3>5. CASE p \in 1 .. Len(saved[s])
      BY <2>2, <3>2, <3>3, <3>5
    <3> QED BY <2>1, <2>4, <3>2, <3>4, <3>5
  <2>6. CASE c = "backward_step"
    <3>1. saved'[s] = Tail(saved[s]) /\ Len(saved[s]) > 0
      <4>1. PICK k \in 0 .. Total(s) : AtPlace(s, k)
        BY <1>2 DEF InStep
      <4>2. k < Total(s)
        BY <1>1, <1>2, <4>1, AtPlaceIs, NumbersAre
      <4> QED BY <1>1, <1>2, <1>9, <2>3, <2>6, <4>1, <4>2, AtPlaceIs
    <3>2. Len(saved'[s]) = Len(saved[s]) - 1 /\ saved'[s][p] = saved[s][p + 1]
      <4>1. PICK S : saved[s] \in Seq(S)
        BY <1>7 DEF IsSeq
      <4>2. saved[s] # <<>>
        BY <1>7, <3>1, SeqFacts
      <4> QED BY <3>1, <4>1, <4>2
    <3>3. p + 1 \in 1 .. Len(saved[s])
      BY <2>1, <2>4, <3>2
    <3>4. GradsUsed(s)' + (p - 1) = GradsUsed(s) + ((p + 1) - 1)
      BY <1>1, <1>8, <2>1, <2>6 DEF One
    <3> DEFINE q == p + 1
    <3> HIDE DEF q
    <3>5. IsSaved(s, saved[s][q], GradsUsed(s) + (q - 1))
      BY <2>2, <3>3 DEF q
    <3> QED BY <3>2, <3>4, <3>5 DEF q
  <2>7. CASE c \notin Saving /\ c # "backward_step"
    <3>1. saved'[s] = saved[s] /\ GradsUsed(s)' = GradsUsed(s)
      BY <1>1, <1>8, <2>3, <2>7 DEF One
    <3> QED BY <2>1, <2>2, <3>1
  <2> QED BY <2>5, <2>6, <2>7
<1> QED BY <1>1, <1>3, <1>4, <1>5, <1>6, <1>10, <1>11, <1>12, <1>13, <1>14 DEF Data

LocalsAt(s) ==
  /\ At(input_obj', input_obj, s) /\ At(output_obj', output_obj, s)
  /\ At(output_obj_grad', output_obj_grad, s) /\ At(input_obj_grad', input_obj_grad, s)

LEMMA CallLinks ==
  ASSUME Local, NEW s \in Stages, NEW h, NEW n, Linked(h, n), CallOver(s), LocalsAt(s),
         Done(s), GotIs(s), Recorded(s), Handled(s)
  PROVE  Linked(h, n)'
<1>1. OnlyAt(s) /\ Advance(s)
  BY CallOverMoves
<1>2. History(h, n) /\ InHistory(s, h, n) /\ Flags(s, h) /\ Data(s)
  BY DEF Linked, StageLink
<1>3. InHistory(s, h, n)' /\ Flags(s, h)'
  BY <1>1, <1>2, FlagsMove
<1>4. Data(s)'
  BY <1>1, <1>2, DataMoves
<1>5. CommIs(s)'
  BY <1>1 DEF Advance, CommIs
<1>6. SameEnds(s, h)
  BY <1>1, <1>2, EndsStay
<1>7. \A t \in Stages \ {s} : Settled(t) /\ comm'[t] = comm[t]
  BY <1>1 DEF OnlyAt, LocalsAt, At, Settled
<1>8. Placed' /\ script' = script
  BY <1>1 DEF LocalsAt, At, Placed, OnlyAt
<1> QED BY <1>3, <1>4, <1>5, <1>6, <1>7, <1>8, OneLinks DEF StageLink

\* The metadata cache: what is recorded of a tensor and a gradient that have
\* gone and that have come.
Records(a, b, obj, sent, grad_sent, got, grad_got) ==
  /\ b \in Schedules /\ SameCore(a, b)
  /\ b.send_tensor = IF sent THEN ~ a.cache ELSE a.send_tensor
  /\ b.send_grad = IF grad_sent THEN ~ a.cache ELSE a.send_grad
  /\ b.tensor_recv = IF got /\ a.cache /\ a.tensor_recv = None THEN Meta(obj) ELSE a.tensor_recv
  /\ b.grad_recv = IF grad_got /\ a.cache /\ a.grad_recv = None THEN Meta(obj) ELSE a.grad_recv

LEMMA RecordsAre ==
  ASSUME NEW a \in Schedules, NEW obj
  PROVE  /\ Records(a, a, obj, FALSE, FALSE, FALSE, FALSE)
         /\ Records(a, TensorSent(a), obj, TRUE, FALSE, FALSE, FALSE)
         /\ Records(a, GradSent(a), obj, FALSE, TRUE, FALSE, FALSE)
         /\ obj \in Tensors =>
              /\ Records(a, TensorCached(a, obj), obj, FALSE, FALSE, TRUE, FALSE)
              /\ Records(a, GradCached(a, obj), obj, FALSE, FALSE, FALSE, TRUE)
              /\ Records(a, GradCached(TensorSent(a), obj), obj, TRUE, FALSE, FALSE, TRUE)
              /\ Records(a, TensorCached(GradSent(a), obj), obj, FALSE, TRUE, TRUE, FALSE)
<1>1. Records(a, a, obj, FALSE, FALSE, FALSE, FALSE)
  BY DEF Records, SameCore
<1>2. a.cache \in BOOLEAN
  BY DEF Schedules
<1>3. ASSUME NEW b \in Schedules
      PROVE  /\ TensorSent(b) \in Schedules /\ SameCore(b, TensorSent(b))
             /\ TensorSent(b).send_tensor = ~ b.cache /\ TensorSent(b).send_grad = b.send_grad
             /\ TensorSent(b).tensor_recv = b.tensor_recv /\ TensorSent(b).grad_recv = b.grad_recv
  BY DEF TensorSent, Schedules, SameCore
<1>4. ASSUME NEW b \in Schedules
      PROVE  /\ GradSent(b) \in Schedules /\ SameCore(b, GradSent(b))
             /\ GradSent(b).send_grad = ~ b.cache /\ GradSent(b).send_tensor = b.send_tensor
             /\ GradSent(b).tensor_recv = b.tensor_recv /\ GradSent(b).grad_recv = b.grad_recv
  BY DEF GradSent, Schedules, SameCore
<1>5. obj \in Tensors => Meta(obj) \in Metas
  BY DEF Meta, Metas, Tensors
<1>6. ASSUME NEW b \in Schedules, obj \in Tensors
      PROVE  LET e == TensorCached(b, obj) IN
             /\ e \in Schedules /\ SameCore(b, e) /\ e.send_tensor = b.send_tensor
             /\ e.send_grad = b.send_grad /\ e.grad_recv = b.grad_recv
             /\ e.tensor_recv = IF b.cache /\ b.tensor_recv = None THEN Meta(obj) ELSE b.tensor_recv
  <2>1. CASE b.cache /\ b.tensor_recv = None
    <3> DEFINE x == [b EXCEPT !.tensor_recv = Meta(obj)]
    <3>1. TensorCached(b, obj) = x
      BY <2>1 DEF TensorCached
    <3>2. /\ x \in Schedules /\ SameCore(b, x) /\ x.send_tensor = b.send_tensor
          /\ x.send_grad = b.send_grad /\ x.grad_recv = b.grad_recv /\ x.tensor_recv = Meta(obj)
      BY <1>5, <1>6 DEF Schedules, SameCore
    <3> HIDE DEF x
    <3> QED BY <2>1, <3>1, <3>2
  <2>2. CASE ~ (b.cache /\ b.tensor_recv = None)
    <3>1. TensorCached(b, obj) = b
      BY <2>2 DEF TensorCached
    <3> QED BY <2>2, <3>1 DEF SameCore
  <2> QED BY <2>1, <2>2
<1>7. ASSUME NEW b \in Schedules, obj \in Tensors
      PROVE  LET e == GradCached(b, obj) IN
             /\ e \in Schedules /\ SameCore(b, e) /\ e.send_tensor = b.send_tensor
             /\ e.send_grad = b.send_grad /\ e.tensor_recv = b.tensor_recv
             /\ e.grad_recv = IF b.cache /\ b.grad_recv = None THEN Meta(obj) ELSE b.grad_recv
  <2>1. CASE b.cache /\ b.grad_recv = None
    <3> DEFINE x == [b EXCEPT !.grad_recv = Meta(obj)]
    <3>1. GradCached(b, obj) = x
      BY <2>1 DEF GradCached
    <3>2. /\ x \in Schedules /\ SameCore(b, x) /\ x.send_tensor = b.send_tensor
          /\ x.send_grad = b.send_grad /\ x.tensor_recv = b.tensor_recv /\ x.grad_recv = Meta(obj)
      BY <1>5, <1>7 DEF Schedules, SameCore
    <3> HIDE DEF x
    <3> QED BY <2>1, <3>1, <3>2
  <2>2. CASE ~ (b.cache /\ b.grad_recv = None)
    <3>1. GradCached(b, obj) = b
      BY <2>2 DEF GradCached
    <3> QED BY <2>2, <3>1 DEF SameCore
  <2> QED BY <2>1, <2>2
<1>8. Records(a, TensorSent(a), obj, TRUE, FALSE, FALSE, FALSE) /\ Records(a, GradSent(a), obj, FALSE, TRUE, FALSE, FALSE)
  BY <1>3, <1>4 DEF Records
<1>9. ASSUME obj \in Tensors
      PROVE /\ Records(a, TensorCached(a, obj), obj, FALSE, FALSE, TRUE, FALSE)
            /\ Records(a, GradCached(a, obj), obj, FALSE, FALSE, FALSE, TRUE)
  BY <1>6, <1>7, <1>9 DEF Records
<1>10. ASSUME obj \in Tensors
       PROVE Records(a, GradCached(TensorSent(a), obj), obj, TRUE, FALSE, FALSE, TRUE)
  <2> DEFINE b == TensorSent(a)
             e == GradCached(b, obj)
  <2>1. /\ b \in Schedules /\ SameCore(a, b) /\ b.send_tensor = ~ a.cache /\ b.send_grad = a.send_grad
        /\ b.tensor_recv = a.tensor_recv /\ b.grad_recv = a.grad_recv
    BY <1>3
  <2> HIDE DEF b
  <2>2. /\ e \in Schedules /\ SameCore(b, e) /\ e.send_tensor = b.send_tensor
        /\ e.send_grad = b.send_grad /\ e.tensor_recv = b.tensor_recv
        /\ e.grad_recv = IF b.cache /\ b.grad_recv = None THEN Meta(obj) ELSE b.grad_recv
    BY <1>7, <1>10, <2>1
  <2> HIDE DEF e
  <2>3. Records(a, e, obj, TRUE, FALSE, FALSE, TRUE)
    BY <2>1, <2>2 DEF Records, SameCore
  <2> QED BY <2>3 DEF b, e
<1>11. ASSUME obj \in Tensors
       PROVE Records(a, TensorCached(GradSent(a), obj), obj, FALSE, TRUE, TRUE, FALSE)
  <2> DEFINE b == GradSent(a)
             e == TensorCached(b, obj)
  <2>1. /\ b \in Schedules /\ SameCore(a, b) /\ b.send_grad = ~ a.cache /\ b.send_tensor = a.send_tensor
        /\ b.tensor_recv = a.tensor_recv /\ b.grad_recv = a.grad_recv
    BY <1>4
  <2> HIDE DEF b
  <2>2. /\ e \in Schedules /\ SameCore(b, e) /\ e.send_tensor = b.send_tensor
        /\ e.send_grad = b.send_grad /\ e.grad_recv = b.grad_recv
        /\ e.tensor_recv = IF b.cache /\ b.tensor_recv = None THEN Meta(obj) ELSE b.tensor_recv
    BY <1>6, <1>11, <2>1
  <2> HIDE DEF e
  <2>3. Records(a, e, obj, FALSE, TRUE, TRUE, FALSE)
    BY <2>1, <2>2 DEF Records, SameCore
  <2> QED BY <2>3 DEF b, e
<1> QED BY <1>1, <1>8, <1>9, <1>10, <1>11

LEMMA RecordedIs ==
  ASSUME Local, NEW s \in Stages, NEW a, sched' = [sched EXCEPT ![s] = a],
         Records(sched[s], a, comm[s].got, Call(s) \in Saving, Call(s) \in GradSending,
                 Call(s) \in Receiving, Call(s) \in GradReceiving)
  PROVE  Recorded(s)
<1>1. sched'[s] = a
  BY DEF Local, Typed
<1> QED BY <1>1 DEF Records, Recorded, SendFlag, Cached, SendCalls, RecvCalls, Neighbours, Stages

\* A call has one peer.
LEMMA OnePeer ==
  ASSUME NEW s \in Stages, NEW x, NEW y, Neighbours(s, x), Neighbours(s, y), NEW c,
         c \in SendCalls(s, x) \cup RecvCalls(x, s), c \in SendCalls(s, y) \cup RecvCalls(y, s)
  PROVE  x = y
<1>1. /\ Saving \cap Receiving = {} /\ Saving \cap GradSending = {}
      /\ GradReceiving \cap Receiving = {} /\ GradReceiving \cap GradSending = {}
  BY DEF Saving, Receiving, GradReceiving, GradSending
<1> HIDE DEF Saving, Receiving, GradReceiving, GradSending
<1>2. s \in Int /\ x \in {s - 1, s + 1} /\ y \in {s - 1, s + 1}
  BY DEF Neighbours, Stages
<1>3. CASE x = s - 1 /\ y = s + 1
  <2>1. ~ (x > s) /\ s > x /\ y > s /\ ~ (s > y)
    BY <1>2, <1>3
  <2> QED BY <1>1, <2>1 DEF SendCalls, RecvCalls
<1>4. CASE x = s + 1 /\ y = s - 1
  <2>1. ~ (y > s) /\ s > y /\ x > s /\ ~ (s > x)
    BY <1>2, <1>4
  <2> QED BY <1>1, <2>1 DEF SendCalls, RecvCalls
<1> QED BY <1>2, <1>3, <1>4

LEMMA EndHas ==
  ASSUME Local, NEW s \in Stages, NEW h, NEW n, Linked(h, n), NEW c, Ends(s, c)
  PROVE  /\ Call(s) = c /\ Active(s) /\ Done(s) /\ GotIs(s)
         /\ c \in Receiving => comm[s].got \in Tensors /\ IsInput(s, comm[s].got, loaded[s])
         /\ c \in GradReceiving => comm[s].got \in Tensors /\ IsMicro(s, comm[s].got, GradsUsed(s))
<1> DEFINE y == comm[s].peer
           g == comm[s].got
<1>1. /\ comm[s] # None /\ comm[s].phase = "data" /\ ~ comm[s].send /\ ~ comm[s].recv
      /\ Head(todo[s]) = c
  BY DEF Ends
<1>2. todo[s] # <<>> /\ s \notin failed /\ Call(s) = c
  BY <1>1 DEF Local, AtStage, Call
<1>3. Active(s) /\ Done(s)
  BY <1>1, <1>2, ActiveIs DEF Done
<1>4. /\ Neighbours(s, y) /\ c \in SendCalls(s, y) \cup RecvCalls(y, s)
      /\ comm[s].wants <=> c \in RecvCalls(y, s)
      /\ comm[s].wants => IsMicro(s, g, RecvIndex(y, s)) /\ (y < s /\ Batch(s).train => g.grad)
  BY <1>1, <1>2 DEF Linked, StageLink, CommIs
<1> HIDE DEF y, g
<1>5. GotIs(s)
  <2>1. SUFFICES ASSUME NEW z \in Stages, Neighbours(s, z), c \in RecvCalls(z, s)
                 PROVE IsMicro(s, g, RecvIndex(z, s)) /\ (z < s /\ Batch(s).train => g.grad)
    BY <1>2 DEF GotIs, g
  <2>2. z = y
    BY <1>4, <2>1, OnePeer
  <2> QED BY <1>4, <2>1, <2>2
<1>6. c \in Receiving => y < s /\ c \in RecvCalls(y, s) /\ RecvIndex(y, s) = loaded[s]
  <2>1. SUFFICES ASSUME c \in Receiving PROVE y < s /\ c \in RecvCalls(y, s) /\ RecvIndex(y, s) = loaded[s]
    OBVIOUS
  <2>2. y \in {s - 1, s + 1} /\ s \in Int
    BY <1>4 DEF Neighbours, Stages
  <2>3. ~ (y > s)
    BY <1>4, <2>1, <2>2 DEF SendCalls, RecvCalls, Saving, Receiving, GradReceiving
  <2>4. s > y
    BY <2>2, <2>3
  <2> QED BY <1>2, <1>3, <2>1, <2>4, IndexBounds DEF RecvCalls
<1>7. c \in GradReceiving => c \in RecvCalls(y, s) /\ RecvIndex(y, s) = GradsUsed(s)
  <2>1. SUFFICES ASSUME c \in GradReceiving PROVE c \in RecvCalls(y, s) /\ RecvIndex(y, s) = GradsUsed(s)
    OBVIOUS
  <2>2. y \in {s - 1, s + 1} /\ s \in Int
    BY <1>4 DEF Neighbours, Stages
  <2>3. ~ (s > y)
    BY <1>4, <2>1, <2>2 DEF SendCalls, RecvCalls, GradSending, Receiving, GradReceiving
  <2> QED BY <1>2, <1>3, <2>1, <2>3, IndexBounds DEF RecvCalls
<1>8. c \in Receiving => g \in Tensors /\ IsInput(s, g, loaded[s])
  BY <1>4, <1>6 DEF IsInput, IsMicro
<1>9. c \in GradReceiving => g \in Tensors /\ IsMicro(s, g, GradsUsed(s))
  BY <1>4, <1>7 DEF IsMicro
<1> QED BY <1>2, <1>3, <1>5, <1>8, <1>9 DEF g

\* What a communication that is over does with the attributes, the locals and
\* what is saved.
LEMMA EndLinks ==
  ASSUME Local, NEW s \in Stages, NEW h, NEW n, Linked(h, n), Finishes(s), NEW c, Ends(s, c),
         c \notin {"forward_step", "backward_step"},
         NEW a, sched' = [sched EXCEPT ![s] = a],
         Records(sched[s], a, comm[s].got, c \in Saving, c \in GradSending, c \in Receiving, c \in GradReceiving),
         IF c \in Receiving THEN input_obj' = [input_obj EXCEPT ![s] = comm[s].got]
         ELSE input_obj' = input_obj,
         IF c \in GradReceiving THEN output_obj_grad' = [output_obj_grad EXCEPT ![s] = comm[s].got]
         ELSE output_obj_grad' = output_obj_grad,
         IF c \in Saving THEN Save(s) ELSE saved' = saved
  PROVE  Linked(h, n)'
<1>1. /\ Call(s) = c /\ Active(s) /\ Done(s) /\ GotIs(s)
      /\ c \in Receiving => IsInput(s, comm[s].got, loaded[s])
      /\ c \in GradReceiving => IsMicro(s, comm[s].got, GradsUsed(s))
  BY EndHas
<1>2. CallOver(s)
  BY FinishIsOver
<1>3. Recorded(s)
  BY <1>1, RecordedIs
<1>4. output_obj' = output_obj /\ input_obj_grad' = input_obj_grad /\ Placed
  BY DEF Ends, Linked
<1>5. LocalsAt(s)
  <2>1. At(input_obj', input_obj, s)
    BY <1>4, AtFacts DEF Placed
  <2>2. At(output_obj_grad', output_obj_grad, s)
    BY <1>4, AtFacts DEF Placed
  <2>3. At(output_obj', output_obj, s) /\ At(input_obj_grad', input_obj_grad, s)
    BY <1>4, AtFacts DEF Placed
  <2> QED BY <2>1, <2>2, <2>3 DEF LocalsAt
<1>6. c \in Receiving => input_obj'[s] = comm[s].got
  BY <1>4 DEF Placed
<1>7. c \in GradReceiving => output_obj_grad'[s] = comm[s].got
  BY <1>4 DEF Placed
<1>8. saved'[s] = IF c \in Saving /\ Batch(s).train
                 THEN Append(saved[s], [input |-> input_obj[s], output |-> output_obj[s]])
                 ELSE saved[s]
  BY DEF Save, Local, Typed
<1>9. Handled(s)
  BY <1>1, <1>6, <1>7, <1>8 DEF Handled
<1> QED BY <1>1, <1>2, <1>3, <1>5, <1>9, CallLinks

LEMMA FinishLinks ==
  ASSUME Local, NEW s \in Stages, NEW h, NEW n, Linked(h, n), Finishes(s)
  PROVE  Linked(h, n)'
<1> DEFINE a == sched[s]
           g == comm[s].got
<1>1. a \in Schedules
  BY DEF Linked, StageLink, InHistory
<1>2. /\ \A c : Ends(s, c) => /\ c \in Receiving => g \in Tensors
                              /\ c \in GradReceiving => g \in Tensors
  BY EndHas
<1> USE DEF Saving, Receiving, GradReceiving, GradSending
<1>3. CASE RecvForwardEnds(s)
  <2> DEFINE c == "recv_forward"
             b == TensorCached(a, g)
  <2>1. Ends(s, c) /\ sched' = [sched EXCEPT ![s] = b]
    BY <1>3 DEF RecvForwardEnds
  <2>2. Records(a, b, g, FALSE, FALSE, TRUE, FALSE)
    BY <1>1, <1>2, <2>1, RecordsAre
  <2>3. /\ (c \in Saving) = FALSE /\ (c \in GradSending) = FALSE
        /\ (c \in Receiving) = TRUE /\ (c \in GradReceiving) = FALSE
        /\ c \notin {"forward_step", "backward_step"}
    OBVIOUS
  <2>4. /\ IF c \in Receiving THEN input_obj' = [input_obj EXCEPT ![s] = g] ELSE input_obj' = input_obj
        /\ IF c \in GradReceiving THEN output_obj_grad' = [output_obj_grad EXCEPT ![s] = g]
           ELSE output_obj_grad' = output_obj_grad
        /\ IF c \in Saving THEN Save(s) ELSE saved' = saved
    BY <1>3, <2>3 DEF RecvForwardEnds
  <2> HIDE DEF c, b, Saving, Receiving, GradReceiving, GradSending
  <2>5. Records(a, b, g, c \in Saving, c \in GradSending, c \in Receiving, c \in GradReceiving)
    BY <2>2, <2>3
  <2> QED BY <2>1, <2>3, <2>4, <2>5, EndLinks
<1>4. CASE RecvBackwardEnds(s)
  <2> DEFINE c == "recv_backward"
             b == GradCached(a, g)
  <2>1. Ends(s, c) /\ sched' = [sched EXCEPT ![s] = b]
    BY <1>4 DEF RecvBackwardEnds
  <2>2. Records(a, b, g, FALSE, FALSE, FALSE, TRUE)
    BY <1>1, <1>2, <2>1, RecordsAre
  <2>3. /\ (c \in Saving) = FALSE /\ (c \in GradSending) = FALSE
        /\ (c \in Receiving) = FALSE /\ (c \in GradReceiving) = TRUE
        /\ c \notin {"forward_step", "backward_step"}
    OBVIOUS
  <2>4. /\ IF c \in Receiving THEN input_obj' = [input_obj EXCEPT ![s] = g] ELSE input_obj' = input_obj
        /\ IF c \in GradReceiving THEN output_obj_grad' = [output_obj_grad EXCEPT ![s] = g]
           ELSE output_obj_grad' = output_obj_grad
        /\ IF c \in Saving THEN Save(s) ELSE saved' = saved
    BY <1>4, <2>3 DEF RecvBackwardEnds
  <2> HIDE DEF c, b, Saving, Receiving, GradReceiving, GradSending
  <2>5. Records(a, b, g, c \in Saving, c \in GradSending, c \in Receiving, c \in GradReceiving)
    BY <2>2, <2>3
  <2> QED BY <2>1, <2>3, <2>4, <2>5, EndLinks
<1>5. CASE SendForwardEnds(s)
  <2> DEFINE c == "send_forward"
             b == TensorSent(a)
  <2>1. Ends(s, c) /\ sched' = [sched EXCEPT ![s] = b]
    BY <1>5 DEF SendForwardEnds
  <2>2. Records(a, b, g, TRUE, FALSE, FALSE, FALSE)
    BY <1>1, <1>2, <2>1, RecordsAre
  <2>3. /\ (c \in Saving) = TRUE /\ (c \in GradSending) = FALSE
        /\ (c \in Receiving) = FALSE /\ (c \in GradReceiving) = FALSE
        /\ c \notin {"forward_step", "backward_step"}
    OBVIOUS
  <2>4. /\ IF c \in Receiving THEN input_obj' = [input_obj EXCEPT ![s] = g] ELSE input_obj' = input_obj
        /\ IF c \in GradReceiving THEN output_obj_grad' = [output_obj_grad EXCEPT ![s] = g]
           ELSE output_obj_grad' = output_obj_grad
        /\ IF c \in Saving THEN Save(s) ELSE saved' = saved
    BY <1>5, <2>3 DEF SendForwardEnds
  <2> HIDE DEF c, b, Saving, Receiving, GradReceiving, GradSending
  <2>5. Records(a, b, g, c \in Saving, c \in GradSending, c \in Receiving, c \in GradReceiving)
    BY <2>2, <2>3
  <2> QED BY <2>1, <2>3, <2>4, <2>5, EndLinks
<1>6. CASE SendBackwardEnds(s)
  <2> DEFINE c == "send_backward"
             b == GradSent(a)
  <2>1. Ends(s, c) /\ sched' = [sched EXCEPT ![s] = b]
    BY <1>6 DEF SendBackwardEnds
  <2>2. Records(a, b, g, FALSE, TRUE, FALSE, FALSE)
    BY <1>1, <1>2, <2>1, RecordsAre
  <2>3. /\ (c \in Saving) = FALSE /\ (c \in GradSending) = TRUE
        /\ (c \in Receiving) = FALSE /\ (c \in GradReceiving) = FALSE
        /\ c \notin {"forward_step", "backward_step"}
    OBVIOUS
  <2>4. /\ IF c \in Receiving THEN input_obj' = [input_obj EXCEPT ![s] = g] ELSE input_obj' = input_obj
        /\ IF c \in GradReceiving THEN output_obj_grad' = [output_obj_grad EXCEPT ![s] = g]
           ELSE output_obj_grad' = output_obj_grad
        /\ IF c \in Saving THEN Save(s) ELSE saved' = saved
    BY <1>6, <2>3 DEF SendBackwardEnds
  <2> HIDE DEF c, b, Saving, Receiving, GradReceiving, GradSending
  <2>5. Records(a, b, g, c \in Saving, c \in GradSending, c \in Receiving, c \in GradReceiving)
    BY <2>2, <2>3
  <2> QED BY <2>1, <2>3, <2>4, <2>5, EndLinks
<1>7. CASE SendForwardRecvBackwardEnds(s)
  <2> DEFINE c == "send_forward_recv_backward"
             b == GradCached(TensorSent(a), g)
  <2>1. Ends(s, c) /\ sched' = [sched EXCEPT ![s] = b]
    BY <1>7 DEF SendForwardRecvBackwardEnds
  <2>2. Records(a, b, g, TRUE, FALSE, FALSE, TRUE)
    BY <1>1, <1>2, <2>1, RecordsAre
  <2>3. /\ (c \in Saving) = TRUE /\ (c \in GradSending) = FALSE
        /\ (c \in Receiving) = FALSE /\ (c \in GradReceiving) = TRUE
        /\ c \notin {"forward_step", "backward_step"}
    OBVIOUS
  <2>4. /\ IF c \in Receiving THEN input_obj' = [input_obj EXCEPT ![s] = g] ELSE input_obj' = input_obj
        /\ IF c \in GradReceiving THEN output_obj_grad' = [output_obj_grad EXCEPT ![s] = g]
           ELSE output_obj_grad' = output_obj_grad
        /\ IF c \in Saving THEN Save(s) ELSE saved' = saved
    BY <1>7, <2>3 DEF SendForwardRecvBackwardEnds
  <2> HIDE DEF c, b, Saving, Receiving, GradReceiving, GradSending
  <2>5. Records(a, b, g, c \in Saving, c \in GradSending, c \in Receiving, c \in GradReceiving)
    BY <2>2, <2>3
  <2> QED BY <2>1, <2>3, <2>4, <2>5, EndLinks
<1>8. CASE SendBackwardRecvForwardEnds(s)
  <2> DEFINE c == "send_backward_recv_forward"
             b == TensorCached(GradSent(a), g)
  <2>1. Ends(s, c) /\ sched' = [sched EXCEPT ![s] = b]
    BY <1>8 DEF SendBackwardRecvForwardEnds
  <2>2. Records(a, b, g, FALSE, TRUE, TRUE, FALSE)
    BY <1>1, <1>2, <2>1, RecordsAre
  <2>3. /\ (c \in Saving) = FALSE /\ (c \in GradSending) = TRUE
        /\ (c \in Receiving) = TRUE /\ (c \in GradReceiving) = FALSE
        /\ c \notin {"forward_step", "backward_step"}
    OBVIOUS
  <2>4. /\ IF c \in Receiving THEN input_obj' = [input_obj EXCEPT ![s] = g] ELSE input_obj' = input_obj
        /\ IF c \in GradReceiving THEN output_obj_grad' = [output_obj_grad EXCEPT ![s] = g]
           ELSE output_obj_grad' = output_obj_grad
        /\ IF c \in Saving THEN Save(s) ELSE saved' = saved
    BY <1>8, <2>3 DEF SendBackwardRecvForwardEnds
  <2> HIDE DEF c, b, Saving, Receiving, GradReceiving, GradSending
  <2>5. Records(a, b, g, c \in Saving, c \in GradSending, c \in Receiving, c \in GradReceiving)
    BY <2>2, <2>3
  <2> QED BY <2>1, <2>3, <2>4, <2>5, EndLinks
<1> QED BY <1>3, <1>4, <1>5, <1>6, <1>7, <1>8 DEF Finishes

\* A call that concerns no other stage.
LEMMA AloneLinks ==
  ASSUME Local, NEW s \in Stages, NEW h, NEW n, Linked(h, n), CallOver(s), LocalsAt(s),
         comm[s] = None, sched' = sched, Handled(s),
         \A y \in Stages : Neighbours(s, y) => Call(s) \notin SendCalls(s, y) \cup RecvCalls(y, s)
  PROVE  Linked(h, n)'
<1>1. Done(s) /\ GotIs(s)
  BY DEF Done, GotIs
<1>2. sched[s] \in Schedules
  BY DEF Linked, StageLink, InHistory
<1>3. Recorded(s)
  BY <1>2 DEF Recorded, SameCore, SendFlag, Cached
<1> QED BY <1>1, <1>3, CallLinks

LEMMA SkipLinks ==
  ASSUME Local, NEW s \in Stages, NEW h, NEW n, Linked(h, n), SkipAtFirst(s) \/ SkipAtLast(s)
  PROVE  Linked(h, n)'
<1>1. CallOver(s) /\ Placed
  BY SkipIsOver DEF Linked
<1>2. CASE SkipAtFirst(s)
  <2>1. /\ comm[s] = None /\ IsFirst(s) /\ Call(s) \in {"recv_forward", "send_backward", "send_backward_recv_forward"}
        /\ UNCHANGED locals /\ sched' = sched
    BY <1>2 DEF SkipAtFirst, Calls, Call
  <2>2. \A y \in Stages : Neighbours(s, y) => Call(s) \notin SendCalls(s, y) \cup RecvCalls(y, s)
    BY <2>1 DEF Neighbours, Stages, IsFirst, SendCalls, RecvCalls, Saving, GradReceiving
  <2>3. Handled(s)
    BY <2>1 DEF Handled, Saving, GradReceiving, locals
  <2>4. LocalsAt(s)
    BY <1>1, <2>1, AtFacts DEF LocalsAt, Placed, locals
  <2> QED BY <1>1, <2>1, <2>2, <2>3, <2>4, AloneLinks
<1>3. CASE SkipAtLast(s)
  <2>1. /\ comm[s] = None /\ IsLast(s) /\ Call(s) \in Saving /\ sched' = sched
        /\ output_obj_grad' = [output_obj_grad EXCEPT ![s] = None] /\ Save(s)
        /\ UNCHANGED <<input_obj, output_obj, input_obj_grad>>
    BY <1>3 DEF SkipAtLast, Calls, Call, Saving
  <2>2. \A y \in Stages : Neighbours(s, y) => Call(s) \notin SendCalls(s, y) \cup RecvCalls(y, s)
    <3>1. \A y \in Stages : Neighbours(s, y) => ~ (y > s) /\ s > y
      BY <2>1, PipelineAssumption DEF Neighbours, Stages, IsLast
    <3> QED BY <2>1, <3>1 DEF SendCalls, RecvCalls, Saving, GradSending, Receiving
  <2>3. Handled(s)
    <3>1. saved'[s] = IF Batch(s).train
                     THEN Append(saved[s], [input |-> input_obj[s], output |-> output_obj[s]])
                     ELSE saved[s]
      BY <2>1 DEF Save, Local, Typed
    <3>2. Call(s) \notin Receiving \cup {"forward_step", "backward_step"}
      BY <2>1 DEF Saving, Receiving
    <3> QED BY <2>1, <3>1, <3>2 DEF Handled
  <2>4. LocalsAt(s)
    BY <1>1, <2>1, AtFacts DEF LocalsAt, Placed
  <2> QED BY <1>1, <2>1, <2>2, <2>3, <2>4, AloneLinks
<1> QED BY <1>2, <1>3

\* The pair that is popped is the one that the next gradient belongs to.
LEMMA OldestIs ==
  ASSUME Local, NEW s \in Stages, Active(s), Data(s), Call(s) = "backward_step"
  PROVE  GradsUsed(s) \in Nat /\ IsSaved(s, Head(saved[s]), GradsUsed(s))
<1>1. InStep(s) /\ NumbersAt(s)
  BY StageNumbers
<1>2. IsSeq(saved[s]) /\ todo[s] # <<>> /\ Head(todo[s]) = "backward_step"
  BY DEF Local, AtStage, Call
<1>3. PICK k \in 0 .. Total(s) : AtPlace(s, k)
  BY <1>1 DEF InStep
<1>4. k < Total(s)
  BY <1>1, <1>2, <1>3, AtPlaceIs, NumbersAre
<1>5. Batch(s).train /\ Len(saved[s]) > 0 /\ Len(saved[s]) \in Nat /\ GradsUsed(s) \in Nat
  BY <1>1, <1>2, <1>3, <1>4, AtPlaceIs, SeqFacts DEF NumbersAt
<1>6. IsSaved(s, saved[s][1], GradsUsed(s) + (1 - 1))
  BY <1>5 DEF Data
<1>7. Head(saved[s]) = saved[s][1]
  <2>1. PICK S : saved[s] \in Seq(S)
    BY <1>2 DEF IsSeq
  <2> QED BY <1>5, <2>1
<1>8. GradsUsed(s) + (1 - 1) = GradsUsed(s)
  BY <1>5
<1> QED BY <1>5, <1>6, <1>7, <1>8

LEMMA ComputeLinks ==
  ASSUME Local, NEW s \in Stages, NEW h, NEW n, Linked(h, n), ForwardStep(s) \/ BackwardStep(s)
  PROVE  Linked(h, n)'
<1>1. CallOver(s) /\ Placed /\ Data(s)
  BY ComputeIsOver DEF Linked, StageLink
<1>2. Calls(s, Call(s)) /\ Call(s) \in {"forward_step", "backward_step"} /\ sched' = sched
  BY DEF ForwardStep, BackwardStep, Calls, Call
<1>3. comm[s] = None /\ Active(s)
  BY <1>2, ActiveIs DEF Calls
<1>4. \A y \in Stages : Neighbours(s, y) => Call(s) \notin SendCalls(s, y) \cup RecvCalls(y, s)
  BY <1>2 DEF SendCalls, RecvCalls, Saving, GradSending, Receiving, GradReceiving
<1>5. NumbersAt(s) /\ InStep(s)
  BY <1>3, StageNumbers
<1>6. CASE ForwardStep(s)
  <2>1. Call(s) = "forward_step" /\ ~ (loaded[s] * Size(s) > Batch(s).rows)
    BY <1>6, LoadsInside DEF ForwardStep, Calls, Call
  <2> DEFINE o == IF IsFirst(s) THEN Micro(s) ELSE [input_obj[s] EXCEPT !.grad = Batch(s).train]
  <2>2. /\ output_obj' = [output_obj EXCEPT ![s] = o]
        /\ UNCHANGED <<input_obj, output_obj_grad, input_obj_grad, saved>>
    BY <1>6, <2>1 DEF ForwardStep
  <2>3. /\ step[s] \in Nat /\ loaded[s] \in Nat /\ loaded[s] < sched[s].num /\ Batch(s).train \in BOOLEAN
    <3>1. Batch(s) \in Steps
      BY <1>5, NumbersAre
    <3> QED BY <1>5, <2>1, <3>1 DEF NumbersAt, Local, Typed, Steps
  <2>4. ~ IsFirst(s) => IsInput(s, input_obj[s], loaded[s])
    BY <1>1, <1>3, <2>1 DEF Data
  <2>5. IsOutput(s, o, loaded[s])
    <3>1. CASE IsFirst(s)
      <4>1. /\ Micro(s).mb = <<step[s], loaded[s]>> /\ Micro(s).grad = Batch(s).train
            /\ Micro(s).rows = MicroRows(s, loaded[s])
            /\ Micro(s) = [mb |-> Micro(s).mb, rows |-> Micro(s).rows, grad |-> Micro(s).grad]
        BY DEF Micro, MicroRows
      <4>2. MicroRows(s, loaded[s]) \in Nat
        BY <1>3, <2>3, MicroRowsAre
      <4>3. Micro(s) \in Tensors
        BY <2>3, <4>1, <4>2 DEF Tensors
      <4> QED BY <3>1, <4>1, <4>3 DEF IsOutput, IsMicro
    <3>2. CASE ~ IsFirst(s)
      <4>1. input_obj[s] \in Tensors /\ input_obj[s].mb = <<step[s], loaded[s]>>
            /\ input_obj[s].rows = MicroRows(s, loaded[s])
        BY <2>4, <3>2 DEF IsInput, IsMicro
      <4>2. o \in Tensors /\ o.mb = input_obj[s].mb /\ o.rows = input_obj[s].rows /\ o.grad = Batch(s).train
        BY <2>3, <3>2, <4>1 DEF Tensors
      <4> HIDE DEF o
      <4> QED BY <4>1, <4>2 DEF IsOutput, IsMicro
    <3> QED BY <3>1, <3>2
  <2> HIDE DEF o
  <2>6. output_obj'[s] = o
    BY <1>1, <2>2 DEF Placed
  <2>7. Handled(s)
    BY <2>1, <2>2, <2>4, <2>5, <2>6 DEF Handled, IsSaved, Receiving, GradReceiving, Saving
  <2>8. LocalsAt(s)
    BY <1>1, <2>2, AtFacts DEF LocalsAt, Placed
  <2> QED BY <1>1, <1>2, <1>3, <1>4, <2>7, <2>8, AloneLinks
<1>7. CASE BackwardStep(s)
  <2>1. Call(s) = "backward_step"
    BY <1>7 DEF BackwardStep, Calls, Call
  <2> DEFINE p == Popped(saved[s])
  <2>2. /\ input_obj' = [input_obj EXCEPT ![s] = p.input] /\ output_obj' = [output_obj EXCEPT ![s] = p.output]
        /\ input_obj_grad' = [input_obj_grad EXCEPT ![s] = GradOf(p.input)]
        /\ saved' = [saved EXCEPT ![s] = Tail(@)] /\ output_obj_grad' = output_obj_grad
    BY <1>7 DEF BackwardStep
  <2>3. GradsUsed(s) \in Nat /\ IsSaved(s, p, GradsUsed(s)) /\ Batch(s).train
    BY <1>1, <1>3, <1>5, <2>1, OldestIs DEF Popped, NumbersAt
  <2>4. ~ IsFirst(s) => IsInput(s, p.input, GradsUsed(s))
    BY <2>3 DEF IsSaved
  <2> HIDE DEF p
  <2>5. ~ IsFirst(s) => IsMicro(s, GradOf(p.input), GradsUsed(s))
    <3>1. SUFFICES ASSUME ~ IsFirst(s) PROVE IsMicro(s, GradOf(p.input), GradsUsed(s))
      OBVIOUS
    <3> DEFINE x == p.input
    <3>2. /\ x \in Tensors /\ x.mb = <<step[s], GradsUsed(s)>> /\ x.rows = MicroRows(s, GradsUsed(s)) /\ x.grad
      <4>1. IsInput(s, x, GradsUsed(s)) /\ Batch(s).train
        BY <2>3, <2>4, <3>1
      <4> QED BY <4>1 DEF IsInput, IsMicro
    <3>3. x # None
      BY <3>2, NoneIsNone
    <3> HIDE DEF x
    <3>4. GradOf(x) = [mb |-> x.mb, rows |-> x.rows, grad |-> FALSE]
      BY <3>2, <3>3 DEF GradOf
    <3>5. GradOf(x) \in Tensors /\ GradOf(x).mb = x.mb /\ GradOf(x).rows = x.rows
      BY <3>2, <3>4 DEF Tensors
    <3>6. IsMicro(s, GradOf(x), GradsUsed(s))
      BY <3>2, <3>5 DEF IsMicro
    <3> QED BY <3>6 DEF x
  <2>6. input_obj_grad'[s] = GradOf(p.input) /\ saved'[s] = Tail(saved[s])
    BY <1>1, <2>2 DEF Placed, Local, Typed
  <2>7. Handled(s)
    BY <2>1, <2>5, <2>6 DEF Handled, Receiving, GradReceiving, Saving
  <2>8. LocalsAt(s)
    BY <1>1, <2>2, AtFacts DEF LocalsAt, Placed
  <2> QED BY <1>1, <1>2, <1>3, <1>4, <2>7, <2>8, AloneLinks
<1> QED BY <1>6, <1>7

-----------------------------------------------------------------------------
(* The next step is begun.                                                 *)

LEMMA FirstCall ==
  ASSUME NEW s \in Stages, NEW n \in Positive
  PROVE  /\ EvalCalls(n) # <<>> /\ Head(EvalCalls(n)) = "recv_forward"
         /\ n >= NumStages => TrainCalls(s, n) # <<>> /\ Head(TrainCalls(s, n)) = "recv_forward"
<1>1. \A w \in Nat, m \in Nat : w + m > 0 => CallAfter(w, m, 0) = "recv_forward"
  BY DEF CallAfter, Triple
<1>2. n \in Nat /\ n > 0
  BY DEF Positive
<1>3. EvalCalls(n) # <<>> /\ Head(EvalCalls(n)) = "recv_forward"
  <2> DEFINE k == 3 * n
  <2>1. k \in Nat /\ 0 \in 0 .. k /\ 0 < k /\ 0 # k
    BY <1>2
  <2>2. EvalCalls(n) = Left(n, 0, k, 0)
    BY <1>2, EvalCallsAre
  <2>3. CallAfter(n, 0, 0) = "recv_forward"
    BY <1>1, <1>2
  <2> HIDE DEF k
  <2>4. Left(n, 0, k, 0) # <<>>
    BY <1>2, <2>1, LeftNext
  <2>5. Head(Left(n, 0, k, 0)) = CallAfter(n, 0, 0)
    BY <1>2, <2>1, LeftNext
  <2> QED BY <2>2, <2>3, <2>4, <2>5
<1>4. ASSUME n >= NumStages PROVE TrainCalls(s, n) # <<>> /\ Head(TrainCalls(s, n)) = "recv_forward"
  <2> DEFINE w == Warmup(s, n)
             m == n - w
             k == 6 * w + 4 * m + 1
  <2>1. w \in Nat /\ m \in Nat \ {0}
    BY <1>2, <1>4, PipelineAssumption DEF Stages, Warmup, Fewer
  <2> HIDE DEF w
  <2>2. k \in Nat /\ 0 \in 0 .. k /\ 0 # k /\ 0 < k /\ w + m > 0
    BY <2>1
  <2>3. TrainCalls(s, n) = Left(w, m, k, 0)
    <3> HIDE DEF m
    <3> QED BY <1>2, <2>1, TrainCallsAre DEF w, m
  <2>4. CallAfter(w, m, 0) = "recv_forward"
    BY <1>1, <2>1, <2>2
  <2> HIDE DEF m, k
  <2>5. Left(w, m, k, 0) # <<>>
    BY <2>1, <2>2, LeftNext
  <2>6. Head(Left(w, m, k, 0)) = CallAfter(w, m, 0)
    BY <2>1, <2>2, LeftNext
  <2> QED BY <2>3, <2>4, <2>5, <2>6
<1> QED BY <1>3, <1>4

\* Between two steps, all of the last one has gone out and come in.
LEMMA BetweenSteps ==
  ASSUME Local, NEW s \in Stages, s \notin failed, todo[s] = <<>>, NEW h, NEW n, History(h, n),
         InHistory(s, h, n)
  PROVE  /\ saved[s] = <<>> /\ step[s] \in 0 .. n /\ h[step[s]].attr # None
         /\ TensorsSent(s) = Sends(h, step[s]) /\ TensorsReceived(s) = Sends(h, step[s])
         /\ GradsSent(s) = GradSends(h, step[s]) /\ GradsReceived(s) = GradSends(h, step[s])
<1>1. Call(s) = "none"
  BY DEF Call
<1>2. /\ One(Call(s) \in Saving) = 0 /\ One(Call(s) = "forward_step") = 0
      /\ One(Call(s) \in GradSending) = 0 /\ One(Call(s) = "backward_step") = 0
  BY <1>1 DEF One, Saving, GradSending
<1>3. step[s] \in 0 .. n /\ h[step[s]].attr # None
  BY DEF InHistory
<1>4. CASE step[s] = 0
  <2>1. saved[s] = <<>>
    BY <1>4 DEF Local, AtStage, Resting
  <2>2. ~ Active(s)
    BY <1>4 DEF Active
  <2>3. TensorsSent(s) = 0 /\ TensorsReceived(s) = 0 /\ GradsUsed(s) = 0
    BY <2>2 DEF TensorsSent, TensorsReceived, GradsUsed
  <2>4. GradsSent(s) = 0 /\ GradsReceived(s) = 0
    BY <1>2, <2>3 DEF GradsSent, GradsReceived
  <2> QED BY <1>3, <1>4, <2>1, <2>3, <2>4 DEF Sends, GradSends
<1>5. CASE step[s] # 0
  <2>1. Active(s)
    BY <1>5 DEF Active
  <2>2. NumbersAt(s) /\ InStep(s)
    BY <2>1, StageNumbers
  <2>3. saved[s] = <<>>
    <3>1. PICK k \in 0 .. Total(s) : AtPlace(s, k)
      BY <2>2 DEF InStep
    <3>2. Len(saved[s]) = 0
      BY <2>2, <3>1, AtPlaceIs
    <3> QED BY <3>2, SeqFacts DEF Local, AtStage
  <2>4. /\ loaded[s] = sched[s].num /\ sched[s].num \in Nat
        /\ GradsUsed(s) = IF Batch(s).train THEN sched[s].num ELSE 0
    BY <1>1, <2>2 DEF NumbersAt
  <2>5. /\ TensorsSent(s) = loaded[s] - 0 /\ TensorsReceived(s) = loaded[s] + 0
    BY <1>2, <2>1 DEF TensorsSent, TensorsReceived
  <2>6. GradsSent(s) = GradsUsed(s) - 0 /\ GradsReceived(s) = GradsUsed(s) + 0
    BY <1>2 DEF GradsSent, GradsReceived
  <2>7. Sends(h, step[s]) = sched[s].num /\ GradSends(h, step[s]) = IF Batch(s).train THEN sched[s].num ELSE 0
    BY <2>1, StepInHistory
  <2>8. /\ TensorsSent(s) = sched[s].num /\ TensorsReceived(s) = sched[s].num
        /\ GradsSent(s) = GradsUsed(s) /\ GradsReceived(s) = GradsUsed(s)
    BY <2>4, <2>5, <2>6
  <2> QED BY <1>3, <2>3, <2>4, <2>7, <2>8
<1> QED BY <1>4, <1>5

LEMMA BeginLinks ==
  ASSUME Local, NEW s \in Stages, NEW h, NEW n, Linked(h, n), BeginStep(s), step[s] < n
  PROVE  Linked(h, n)'
<1> DEFINE i == step[s]
           b == script[i + 1]
           a == Loaded(sched[s], b)
           l == h[i + 1].attr
<1>1. /\ s \notin failed /\ comm[s] = None /\ todo[s] = <<>> /\ script' = script
      /\ step' = [step EXCEPT ![s] = @ + 1] /\ saved' = saved /\ comm' = comm /\ UNCHANGED locals
      /\ IF a = None THEN failed' = failed \cup {s} /\ UNCHANGED <<sched, todo, loaded>>
         ELSE /\ sched' = [sched EXCEPT ![s] = a] /\ failed' = failed
              /\ todo' = [todo EXCEPT ![s] = IF b.train THEN TrainCalls(s, a.num) ELSE EvalCalls(a.num)]
              /\ loaded' = [loaded EXCEPT ![s] = 0]
  BY DEF BeginStep, locals
<1>2. History(h, n) /\ InHistory(s, h, n) /\ Flags(s, h) /\ Placed
  BY DEF Linked, StageLink
<1>3. /\ n \in Nat /\ n <= Len(script) /\ i \in 0 .. n - 1 /\ i + 1 \in 0 .. n /\ i \in 0 .. n
  BY <1>2 DEF History, InHistory
<1>4. b \in Steps /\ step'[s] = i + 1 /\ i + 1 # 0
  <2>1. i + 1 \in 1 .. Len(script) /\ script \in Seq(Steps) /\ step \in [Stages -> Nat]
    BY <1>2, <1>3 DEF Local, Typed, History
  <2> QED BY <1>1, <2>1
<1>5. l = Loaded(h[i].attr, b) /\ h[i + 1].tensors = h[i].tensors + Sends(h, i)
      /\ h[i + 1].grads = h[i].grads + GradSends(h, i)
  BY <1>2, <1>3 DEF History, Follows
<1>6. Some(h[i].attr) /\ Some(sched[s]) /\ SameCore(sched[s], h[i].attr)
  <2>1. h[i].attr # None /\ SameCore(sched[s], h[i].attr) /\ sched[s] \in Schedules
    BY <1>1, <1>2 DEF InHistory
  <2>2. Some(h[i].attr)
    BY <1>2, <1>3, <2>1, HistoryHas
  <2> QED BY <2>1, <2>2 DEF Some, SameCore
<1> HIDE DEF b, l
<1>7. /\ a = None <=> l = None
      /\ a # None => SameCore(a, l)
  <2>1. SameCore(h[i].attr, sched[s])
    BY <1>6 DEF SameCore
  <2>2. l # None => a # None /\ SameCore(l, a)
    BY <1>4, <1>5, <1>6, <2>1, LoadedSame
  <2>3. a # None => l # None /\ SameCore(a, l)
    BY <1>4, <1>5, <1>6, LoadedSame
  <2> QED BY <2>2, <2>3
<1>8. /\ saved[s] = <<>> /\ TensorsSent(s) = Sends(h, i) /\ TensorsReceived(s) = Sends(h, i)
      /\ GradsSent(s) = GradSends(h, i) /\ GradsReceived(s) = GradSends(h, i)
  BY <1>1, <1>2, BetweenSteps
<1>9. a # None => /\ Some(a) /\ a.last = b.rows
                  /\ sched[s].size # None => a.size = sched[s].size
                  /\ Kept(sched[s], a) \/ Dropped(a)
                  /\ a.num \in Positive /\ (b.train => a.num >= NumStages)
  <2>1. SUFFICES ASSUME a # None
                 PROVE  /\ Some(a) /\ a.last = b.rows
                        /\ sched[s].size # None => a.size = sched[s].size
                        /\ Kept(sched[s], a) \/ Dropped(a)
                        /\ a.num \in Positive /\ (b.train => a.num >= NumStages)
    OBVIOUS
  <2>2. a.num \in Positive /\ (b.train => a.num >= NumStages)
    BY <1>4, <1>6, <2>1, SomeAttributes, LoadedIs
  <2> QED BY <1>4, <1>6, <2>1, <2>2, LoadedTo DEF Steps
<1> HIDE DEF a
<1>10. a # None => sched'[s] = a /\ loaded'[s] = 0 /\ Call(s)' = "recv_forward"
  <2>1. SUFFICES ASSUME a # None PROVE sched'[s] = a /\ loaded'[s] = 0 /\ Call(s)' = "recv_forward"
    OBVIOUS
  <2> DEFINE c == IF b.train THEN TrainCalls(s, a.num) ELSE EvalCalls(a.num)
  <2>2. sched'[s] = a /\ loaded'[s] = 0 /\ todo'[s] = c
    BY <1>1, <2>1 DEF Local, Typed
  <2>3. c # <<>> /\ Head(c) = "recv_forward"
    BY <1>9, <2>1, FirstCall
  <2> HIDE DEF c
  <2> QED BY <2>2, <2>3 DEF Call
<1>11. a = None => sched'[s] = sched[s] /\ Call(s)' = "none" /\ s \in failed'
  BY <1>1 DEF Call
<1>12. /\ One("recv_forward" \in Saving) = 0 /\ One("recv_forward" = "forward_step") = 0
       /\ One("recv_forward" \in GradSending) = 0 /\ One("recv_forward" = "backward_step") = 0
       /\ One("none" \in Saving) = 0 /\ One("none" = "forward_step") = 0
       /\ One("none" \in GradSending) = 0 /\ One("none" = "backward_step") = 0
  BY DEF One, Saving, GradSending
<1>13. TensorsSent(s)' = 0 /\ TensorsReceived(s)' = 0 /\ GradsUsed(s)' = 0
  <2>1. CASE a = None
    <3>1. ~ Active(s)'
      BY <1>11, <2>1 DEF Active
    <3> QED BY <3>1 DEF TensorsSent, TensorsReceived, GradsUsed
  <2>2. CASE a # None
    <3>1. TensorsSent(s)' = 0 /\ TensorsReceived(s)' = 0
      BY <1>10, <1>12, <2>2 DEF TensorsSent, TensorsReceived
    <3>2. Len(saved'[s]) = 0
      BY <1>1, <1>8
    <3>3. GradsUsed(s)' = 0
      BY <3>1, <3>2 DEF GradsUsed
    <3> QED BY <3>1, <3>3
  <2> QED BY <2>1, <2>2
<1>14. GradsSent(s)' = 0 /\ GradsReceived(s)' = 0
  <2>1. Call(s)' \in {"recv_forward", "none"}
    BY <1>10, <1>11
  <2> QED BY <1>12, <1>13, <2>1 DEF GradsSent, GradsReceived
<1>15. \A y : SentBefore(s, y, h)' = SentBefore(s, y, h) /\ GotBefore(y, s, h)' = GotBefore(y, s, h)
  <2>1. TAKE y
  <2>2. SendIndex(s, y)' = 0 /\ RecvIndex(y, s)' = 0
    BY <1>13, <1>14 DEF SendIndex, RecvIndex
  <2>3. /\ Before(h, i + 1, s, y) = Before(h, i, s, y) + SendIndex(s, y)
        /\ Before(h, i + 1, y, s) = Before(h, i, y, s) + RecvIndex(y, s)
    BY <1>5, <1>8 DEF Before, SendIndex, RecvIndex
  <2>4. Before(h, i + 1, s, y) \in Nat /\ Before(h, i + 1, y, s) \in Nat
    BY <1>2, <1>3, HistoryHas DEF Before
  <2>5. /\ SentBefore(s, y, h)' = Before(h, i + 1, s, y) + SendIndex(s, y)'
        /\ GotBefore(y, s, h)' = Before(h, i + 1, y, s) + RecvIndex(y, s)'
    BY <1>4 DEF SentBefore, GotBefore, Before
  <2> QED BY <2>2, <2>3, <2>4, <2>5 DEF SentBefore, GotBefore
<1>16. InHistory(s, h, n)'
  <2>1. step'[s] \in 0 .. n /\ h[step'[s]].attr = l
    BY <1>3, <1>4 DEF l
  <2>2. CASE a = None
    BY <1>6, <1>7, <1>11, <2>1, <2>2 DEF InHistory, Some
  <2>3. CASE a # None
    BY <1>1, <1>7, <1>9, <1>10, <2>1, <2>3 DEF InHistory, Some, SameCore
  <2> QED BY <2>2, <2>3
<1>17. \A y : Neighbours(s, y)' = Neighbours(s, y)
  BY DEF Neighbours
<1>18. Flags(s, h)'
  <2>1. SUFFICES ASSUME s \notin failed', NEW y \in Stages, Neighbours(s, y)
                 PROVE  /\ SendFlag(s, y)' = (~ sched'[s].cache \/ SentBefore(s, y, h) = 0)
                        /\ (Cached(y, s)' = None) = (~ sched'[s].cache \/ GotBefore(y, s, h) = 0)
                        /\ Cached(y, s)' # None => /\ Cached(y, s)'.rows = sched'[s].size
                                                   /\ y < s => Cached(y, s)'.grad
    BY <1>15, <1>17 DEF Flags
  <2>2. a # None /\ sched'[s] = a
    BY <1>10, <1>11, <2>1
  <2>3. CASE Dropped(a)
    BY <2>2, <2>3 DEF Dropped, SendFlag, Cached
  <2>4. CASE Kept(sched[s], a)
    <3>1. /\ SendFlag(s, y) = (~ sched[s].cache \/ SentBefore(s, y, h) = 0)
          /\ (Cached(y, s) = None) = (~ sched[s].cache \/ GotBefore(y, s, h) = 0)
          /\ Cached(y, s) # None => /\ Cached(y, s).rows = sched[s].size
                                    /\ y < s => Cached(y, s).grad
      BY <1>1, <1>2, <2>1 DEF Flags
    <3>2. SendFlag(s, y)' = SendFlag(s, y) /\ Cached(y, s)' = Cached(y, s) /\ sched'[s].cache = sched[s].cache
      BY <2>2, <2>4 DEF Kept, SendFlag, Cached
    <3>3. Cached(y, s) # None => sched'[s].size = sched[s].size
      <4>1. Cached(y, s) \in Metas \cup {None}
        BY <1>6 DEF Some, Schedules, Cached
      <4>2. Cached(y, s) # None => sched[s].size \in Nat
        BY <3>1, <4>1 DEF Metas
      <4> QED BY <1>9, <2>2, <4>2, NoneIsNone
    <3> QED BY <3>1, <3>2, <3>3
  <2> QED BY <1>9, <2>2, <2>3, <2>4
<1>19. Data(s)'
  <2>1. CASE a = None
    <3>1. ~ Active(s)'
      BY <1>11, <2>1 DEF Active
    <3> QED BY <3>1 DEF Data
  <2>2. CASE a # None
    <3>1. Call(s)' = "recv_forward" /\ saved'[s] = <<>> /\ Len(<<>>) = 0
      BY <1>1, <1>8, <1>10, <2>2
    <3> QED BY <3>1 DEF Data, Saving, GradSending
  <2> QED BY <2>1, <2>2
<1>20. CommIs(s)' /\ SameEnds(s, h)
  <2>1. comm'[s] = None /\ comm[s] = None
    BY <1>1
  <2>2. \A y : /\ ~ DataSent(s, y)' /\ ~ DataGot(y, s)' /\ ~ HalfSent(s, y)' /\ ~ HalfGot(y, s)'
              /\ ~ DataSent(s, y) /\ ~ DataGot(y, s) /\ ~ HalfSent(s, y) /\ ~ HalfGot(y, s)
    BY <2>1 DEF DataSent, DataGot, HalfSent, HalfGot
  <2>3. SameEnds(s, h)
    BY <1>15, <2>2 DEF SameEnds, Out, In, One
  <2> QED BY <2>1, <2>3 DEF CommIs
<1>21. \A t \in Stages \ {s} : Settled(t) /\ comm'[t] = comm[t]
  <2>1. SUFFICES ASSUME NEW t \in Stages \ {s} PROVE Settled(t) /\ comm'[t] = comm[t]
    OBVIOUS
  <2>2. sched'[t] = sched[t] /\ todo'[t] = todo[t] /\ loaded'[t] = loaded[t] /\ (t \in failed' <=> t \in failed)
    BY <1>1 DEF Local, Typed
  <2>3. step'[t] = step[t]
    BY <1>1 DEF Local, Typed
  <2> QED BY <1>1, <2>2, <2>3 DEF Settled, locals
<1>22. Placed'
  BY <1>1, <1>2 DEF Placed, locals
<1> QED BY <1>1, <1>16, <1>18, <1>19, <1>20, <1>21, <1>22, OneLinks DEF StageLink

-----------------------------------------------------------------------------
(* A communication is started.                                             *)

\* What _communicate waits for first.
Fresh(c, peer, obj, flag, wants, meta) ==
  /\ c \in Communications /\ c.peer = peer /\ c.obj = obj /\ c.wants = wants /\ c.buffer = meta
  /\ IF (obj # None /\ flag) \/ (wants /\ meta = None)
     THEN c.phase = "metadata" /\ c.send = (obj # None /\ flag) /\ c.recv = (wants /\ meta = None)
     ELSE c.phase = "data" /\ c.send = (obj # None) /\ c.recv = wants

LEMMA StartLinks ==
  ASSUME Local, NEW s \in Stages, NEW h, NEW n, Linked(h, n), NEW c, Starts(s, c), NEW y, Neighbours(s, y),
         c \in SendCalls(s, y) \cup RecvCalls(y, s),
         NEW obj, NEW flag \in BOOLEAN, NEW wants \in BOOLEAN, NEW meta,
         IF c \in SendCalls(s, y)
         THEN IsMicro(s, obj, SendIndex(s, y)) /\ (y > s => obj.grad = Batch(s).train) /\ flag = SendFlag(s, y)
         ELSE obj = None,
         wants = (c \in RecvCalls(y, s)), meta = IF c \in RecvCalls(y, s) THEN Cached(y, s) ELSE None,
         Communicate(s, y, obj, flag, wants, meta)
  PROVE  Linked(h, n)'
<1>1. /\ comm[s] = None /\ Call(s) = c /\ s \notin failed /\ todo[s] # <<>>
      /\ UNCHANGED <<script, sched, step, todo, loaded, locals, failed>>
  BY DEF Starts, Calls, Call
<1>2. Active(s)
  BY <1>1, ActiveIs
<1>3. History(h, n) /\ InHistory(s, h, n) /\ Flags(s, h) /\ Data(s) /\ Placed
  BY DEF Linked, StageLink
<1>4. /\ SendFlag(s, y) = (~ sched[s].cache \/ SentBefore(s, y, h) = 0)
      /\ (Cached(y, s) = None) = (~ sched[s].cache \/ GotBefore(y, s, h) = 0)
      /\ Cached(y, s) # None => /\ Cached(y, s).rows = sched[s].size
                                /\ y < s => Cached(y, s).grad
      /\ y \in Stages /\ y \in Int /\ s \in Int
  BY <1>1, <1>3 DEF Flags, Neighbours, Stages
<1>5. /\ sched[s] \in Schedules /\ Cached(y, s) \in Metas \cup {None} /\ SendFlag(s, y) \in BOOLEAN
  BY <1>3 DEF InHistory, Schedules, Cached, SendFlag
<1>6. /\ obj \in Tensors \cup {None} /\ meta \in Metas \cup {None}
      /\ obj # None <=> c \in SendCalls(s, y)
  BY <1>5, NoneIsNone DEF IsMicro
<1>7. PICK x : comm' = [comm EXCEPT ![s] = x] /\ Fresh(x, y, obj, flag, wants, meta)
  <2> DEFINE r == [peer |-> y, obj |-> obj, wants |-> wants, buffer |-> meta, got |-> None,
                   phase |-> "metadata", send |-> obj # None /\ flag, recv |-> wants /\ meta = None]
  <2>1. /\ r \in Communications /\ r.peer = y /\ r.obj = obj /\ r.wants = wants /\ r.buffer = meta
        /\ r.phase = "metadata" /\ r.send = (obj # None /\ flag) /\ r.recv = (wants /\ meta = None)
    BY <1>4, <1>6 DEF Communications
  <2>2. comm' = [comm EXCEPT ![s] = IF r.send \/ r.recv THEN r ELSE DataPhase(r)]
    BY DEF Communicate
  <2> HIDE DEF r
  <2>3. /\ DataPhase(r) \in Communications /\ DataPhase(r).peer = y /\ DataPhase(r).obj = obj
        /\ DataPhase(r).wants = wants /\ DataPhase(r).buffer = meta /\ DataPhase(r).phase = "data"
        /\ DataPhase(r).send = (obj # None) /\ DataPhase(r).recv = wants
    BY <2>1 DEF DataPhase, Communications
  <2>4. CASE r.send \/ r.recv
    BY <2>1, <2>2, <2>4 DEF Fresh
  <2>5. CASE ~ (r.send \/ r.recv)
    BY <2>1, <2>2, <2>3, <2>5 DEF Fresh
  <2> QED BY <2>4, <2>5
<1>8. comm'[s] = x /\ \A t \in Stages \ {s} : comm'[t] = comm[t]
  BY <1>7 DEF Local, Typed
<1>9. \A t \in Stages : Settled(t)
  BY <1>1 DEF Settled, locals
<1>10. /\ x \in Communications /\ x.peer = y /\ x.obj = obj /\ x.wants = wants /\ x.buffer = meta
       /\ IF (obj # None /\ flag) \/ (wants /\ meta = None)
          THEN x.phase = "metadata" /\ x.send = (obj # None /\ flag) /\ x.recv = (wants /\ meta = None)
          ELSE x.phase = "data" /\ x.send = (obj # None) /\ x.recv = wants
       /\ x # None
  BY <1>7, NoneIsNone DEF Fresh
<1>11. wants /\ meta # None => /\ meta \in Metas /\ meta.rows = MicroRows(s, RecvIndex(y, s))
                               /\ y < s => meta.grad
  <2>1. SUFFICES ASSUME wants, meta # None
                 PROVE  /\ meta \in Metas /\ meta.rows = MicroRows(s, RecvIndex(y, s))
                        /\ y < s => meta.grad
    OBVIOUS
  <2>2. meta = Cached(y, s) /\ c \in RecvCalls(y, s)
    BY <2>1
  <2>3. sched[s].cache
    BY <1>4, <1>5, <2>1, <2>2 DEF Schedules
  <2>4. Batch(s).rows = Size(s) * sched[s].num
    BY <1>2, <1>3, <2>3, StepInHistory
  <2>5. MicroRows(s, RecvIndex(y, s)) = Size(s)
    BY <1>1, <1>2, <2>2, <2>4, IndexBounds, MicroRowsAre
  <2> QED BY <1>4, <1>5, <2>1, <2>2, <2>5 DEF Size
<1>12. /\ Call(s)' = c /\ Batch(s)' = Batch(s) /\ Size(s)' = Size(s)
       /\ TensorsSent(s)' = TensorsSent(s) /\ TensorsReceived(s)' = TensorsReceived(s)
       /\ GradsReceived(s)' = GradsReceived(s) /\ GradsSent(s)' = GradsSent(s)
  BY <1>1, <1>9, SettledIs
<1>13. /\ InHistory(s, h, n)' /\ Flags(s, h)' /\ Data(s)'
       /\ \A z : /\ SentBefore(s, z, h)' = SentBefore(s, z, h) /\ GotBefore(z, s, h)' = GotBefore(z, s, h)
                 /\ SendFlag(s, z)' = SendFlag(s, z) /\ Cached(z, s)' = Cached(z, s)
       /\ \A o, j : IsMicro(s, o, j)' = IsMicro(s, o, j)
  BY <1>3, <1>9, SettledKeeps
<1>14. /\ \A z : /\ SendCalls(s, z)' = SendCalls(s, z) /\ RecvCalls(z, s)' = RecvCalls(z, s)
                 /\ SendIndex(s, z)' = SendIndex(s, z) /\ RecvIndex(z, s)' = RecvIndex(z, s)
                 /\ Neighbours(s, z)' = Neighbours(s, z)
       /\ \A j : MicroRows(s, j)' = MicroRows(s, j)
  BY <1>12 DEF SendCalls, RecvCalls, SendIndex, RecvIndex, Neighbours, MicroRows
<1>15. CommIs(s)'
  <2>1. /\ x \in Communications /\ Neighbours(s, x.peer)
        /\ c \in SendCalls(s, x.peer) \cup RecvCalls(x.peer, s)
        /\ IF c \in SendCalls(s, x.peer)
           THEN IsMicro(s, x.obj, SendIndex(s, x.peer)) /\ (x.peer > s => x.obj.grad = Batch(s).train)
           ELSE x.obj = None
        /\ x.wants <=> c \in RecvCalls(x.peer, s)
    BY <1>10
  <2>2. /\ x.send => c \in SendCalls(s, x.peer)
        /\ x.recv => x.wants
    BY <1>6, <1>10
  <2>3. x.phase = "metadata" => /\ x.send \/ x.recv
                                /\ x.send => SendFlag(s, x.peer)
                                /\ x.recv => Cached(x.peer, s) = None
    BY <1>6, <1>10
  <2>4. x.wants /\ (x.phase = "data" \/ ~ x.recv) =>
            /\ x.buffer \in Metas /\ x.buffer.rows = MicroRows(s, RecvIndex(x.peer, s))
            /\ x.peer < s /\ Batch(s).train => x.buffer.grad
    BY <1>10, <1>11
  <2>5. ~ (x.wants /\ x.phase = "data" /\ ~ x.recv)
    BY <1>10
  <2> QED BY <1>8, <1>12, <1>13, <1>14, <2>1, <2>2, <2>3, <2>4, <2>5 DEF CommIs
<1>16. SameEnds(s, h)
  <2>1. SUFFICES ASSUME NEW z \in Stages, Neighbours(s, z)
                 PROVE  /\ ~ DataSent(s, z)' /\ ~ DataGot(z, s)' /\ ~ HalfSent(s, z)' /\ ~ HalfGot(z, s)'
    <3>1. \A z : ~ DataSent(s, z) /\ ~ DataGot(z, s) /\ ~ HalfSent(s, z) /\ ~ HalfGot(z, s)
      BY <1>1 DEF DataSent, DataGot, HalfSent, HalfGot
    <3> QED BY <1>13, <2>1, <3>1 DEF SameEnds, Out, In, One
  <2>2. z = y \/ c \notin SendCalls(s, z) \cup RecvCalls(z, s)
    BY <2>1, OnePeer
  <2>3. CASE z # y
    BY <1>12, <1>14, <2>2, <2>3 DEF DataSent, DataGot, HalfSent, HalfGot
  <2>4. CASE z = y
    <3>1. ~ (c \in SendCalls(s, y) /\ x.phase = "data" /\ ~ x.send)
      BY <1>6, <1>10
    <3>2. ~ (c \in RecvCalls(y, s) /\ x.phase = "data" /\ ~ x.recv)
      BY <1>10
    <3>3. ~ (c \in SendCalls(s, y) /\ SendFlag(s, y) /\ (x.send <=> x.phase = "data"))
      BY <1>6, <1>10
    <3>4. ~ (c \in RecvCalls(y, s) /\ Cached(y, s) = None /\ (x.recv <=> x.phase = "data"))
      BY <1>6, <1>10
    <3> QED BY <1>8, <1>12, <1>13, <1>14, <2>4, <3>1, <3>2, <3>3, <3>4 DEF DataSent, DataGot, HalfSent, HalfGot
  <2> QED BY <2>3, <2>4
<1>17. Placed'
  BY <1>1, <1>3 DEF Placed, locals
<1> QED BY <1>1, <1>8, <1>9, <1>13, <1>15, <1>16, <1>17, OneLinks DEF StageLink

Begins(s) ==
  \/ RecvForward(s) \/ RecvBackward(s) \/ SendForward(s) \/ SendBackward(s)
  \/ SendForwardRecvBackward(s) \/ SendBackwardRecvForward(s)

LEMMA BeginsLinks ==
  ASSUME Local, NEW s \in Stages, NEW h, NEW n, Linked(h, n), Begins(s)
  PROVE  Linked(h, n)'
<1>1. Data(s) /\ sched[s] \in Schedules /\ s \in Int /\ NumStages \in Nat
  BY PipelineAssumption DEF Linked, StageLink, InHistory, Stages
<1>2. sched[s].send_tensor \in BOOLEAN /\ sched[s].send_grad \in BOOLEAN
  BY <1>1 DEF Schedules
<1>3. \A c : Calls(s, c) => Call(s) = c /\ Active(s)
  BY ActiveIs DEF Calls, Call
<1>4. ASSUME NEW c \in Saving, Calls(s, c)
      PROVE  \A y : y > s => IsMicro(s, output_obj[s], SendIndex(s, y)) /\ output_obj[s].grad = Batch(s).train
  <2>1. IsSaved(s, [input |-> input_obj[s], output |-> output_obj[s]], loaded[s] - 1)
    BY <1>1, <1>3, <1>4 DEF Data
  <2>2. IsOutput(s, output_obj[s], loaded[s] - 1)
    BY <2>1 DEF IsSaved
  <2>3. \A y : y > s => SendIndex(s, y) = loaded[s] - 1
    BY <1>3, <1>4, IndexBounds
  <2> QED BY <2>2, <2>3 DEF IsOutput
<1>5. ASSUME NEW c \in GradSending, Calls(s, c), ~ IsFirst(s)
      PROVE  \A y : ~ (y > s) => IsMicro(s, input_obj_grad[s], SendIndex(s, y))
  <2>1. IsMicro(s, input_obj_grad[s], GradsUsed(s) - 1)
    BY <1>1, <1>3, <1>5 DEF Data
  <2>2. \A y : ~ (y > s) => SendIndex(s, y) = GradsUsed(s) - 1
    BY <1>3, <1>5, IndexBounds
  <2> QED BY <2>1, <2>2
<1>6. CASE RecvForward(s)
  <2> DEFINE y == s - 1
             c == "recv_forward"
  <2>1. /\ Starts(s, c) /\ Calls(s, c) /\ ~ IsFirst(s)
        /\ Communicate(s, y, None, FALSE, TRUE, sched[s].tensor_recv)
    BY <1>6 DEF RecvForward, Starts
  <2>2. Neighbours(s, y) /\ y \in Int /\ s > y /\ ~ (y > s)
    BY <1>1, <2>1 DEF Neighbours, Stages, IsFirst
  <2>3. /\ c \notin SendCalls(s, y) /\ c \in RecvCalls(y, s)
    BY <2>2 DEF SendCalls, RecvCalls, Saving, Receiving, GradSending, GradReceiving
  <2>5. sched[s].tensor_recv = Cached(y, s)
    BY <2>2 DEF Cached
  <2> HIDE DEF y, c
  <2> QED BY <1>2, <2>1, <2>2, <2>3, <2>5, StartLinks
<1>7. CASE RecvBackward(s)
  <2> DEFINE y == s + 1
             c == "recv_backward"
  <2>1. /\ Starts(s, c) /\ Calls(s, c) /\ ~ IsLast(s)
        /\ Communicate(s, y, None, FALSE, TRUE, sched[s].grad_recv)
    BY <1>7 DEF RecvBackward, Starts
  <2>2. Neighbours(s, y) /\ y \in Int /\ y > s /\ ~ (s > y)
    BY <1>1, <2>1 DEF Neighbours, Stages, IsLast
  <2>3. /\ c \notin SendCalls(s, y) /\ c \in RecvCalls(y, s)
    BY <2>2 DEF SendCalls, RecvCalls, Saving, Receiving, GradSending, GradReceiving
  <2>5. sched[s].grad_recv = Cached(y, s)
    BY <2>2 DEF Cached
  <2> HIDE DEF y, c
  <2> QED BY <1>2, <2>1, <2>2, <2>3, <2>5, StartLinks
<1>8. CASE SendForward(s)
  <2> DEFINE y == s + 1
             c == "send_forward"
  <2>1. /\ Starts(s, c) /\ Calls(s, c) /\ ~ IsLast(s)
        /\ Communicate(s, y, output_obj[s], sched[s].send_tensor, FALSE, None)
    BY <1>8 DEF SendForward, Starts
  <2>2. Neighbours(s, y) /\ y \in Int /\ y > s /\ ~ (s > y)
    BY <1>1, <2>1 DEF Neighbours, Stages, IsLast
  <2>3. /\ c \in SendCalls(s, y) /\ c \notin RecvCalls(y, s)
    BY <2>2 DEF SendCalls, RecvCalls, Saving, Receiving, GradSending, GradReceiving
  <2>4. /\ IsMicro(s, output_obj[s], SendIndex(s, y)) /\ (y > s => output_obj[s].grad = Batch(s).train)
        /\ sched[s].send_tensor = SendFlag(s, y)
    BY <1>4, <2>1, <2>2 DEF SendFlag, Saving
  <2>5. /\ FALSE = (c \in RecvCalls(y, s)) /\ FALSE \in BOOLEAN
        /\ None = IF c \in RecvCalls(y, s) THEN Cached(y, s) ELSE None
    BY <2>3
  <2>6. c \in SendCalls(s, y) \cup RecvCalls(y, s) /\ sched[s].send_tensor \in BOOLEAN
    BY <1>2, <2>3
  <2>7. IF c \in SendCalls(s, y)
        THEN IsMicro(s, output_obj[s], SendIndex(s, y)) /\ (y > s => output_obj[s].grad = Batch(s).train)
             /\ sched[s].send_tensor = SendFlag(s, y)
        ELSE output_obj[s] = None
    BY <2>3, <2>4
  <2> HIDE DEF y, c
  <2> QED BY <1>2, <2>1, <2>2, <2>3, <2>4, <2>5, <2>6, <2>7, StartLinks
<1>9. CASE SendBackward(s)
  <2> DEFINE y == s - 1
             c == "send_backward"
  <2>1. /\ Starts(s, c) /\ Calls(s, c) /\ ~ IsFirst(s)
        /\ Communicate(s, y, input_obj_grad[s], sched[s].send_grad, FALSE, None)
    BY <1>9 DEF SendBackward, Starts
  <2>2. Neighbours(s, y) /\ y \in Int /\ s > y /\ ~ (y > s)
    BY <1>1, <2>1 DEF Neighbours, Stages, IsFirst
  <2>3. /\ c \in SendCalls(s, y) /\ c \notin RecvCalls(y, s)
    BY <2>2 DEF SendCalls, RecvCalls, Saving, Receiving, GradSending, GradReceiving
  <2>4. /\ IsMicro(s, input_obj_grad[s], SendIndex(s, y)) /\ (y > s => input_obj_grad[s].grad = Batch(s).train)
        /\ sched[s].send_grad = SendFlag(s, y)
    BY <1>5, <2>1, <2>2 DEF SendFlag, GradSending
  <2>5. /\ FALSE = (c \in RecvCalls(y, s)) /\ FALSE \in BOOLEAN
        /\ None = IF c \in RecvCalls(y, s) THEN Cached(y, s) ELSE None
    BY <2>3
  <2>6. c \in SendCalls(s, y) \cup RecvCalls(y, s) /\ sched[s].send_grad \in BOOLEAN
    BY <1>2, <2>3
  <2>7. IF c \in SendCalls(s, y)
        THEN IsMicro(s, input_obj_grad[s], SendIndex(s, y)) /\ (y > s => input_obj_grad[s].grad = Batch(s).train)
             /\ sched[s].send_grad = SendFlag(s, y)
        ELSE input_obj_grad[s] = None
    BY <2>3, <2>4
  <2> HIDE DEF y, c
  <2> QED BY <1>2, <2>1, <2>2, <2>3, <2>4, <2>5, <2>6, <2>7, StartLinks
<1>10. CASE SendForwardRecvBackward(s)
  <2> DEFINE y == s + 1
             c == "send_forward_recv_backward"
  <2>1. /\ Starts(s, c) /\ Calls(s, c) /\ ~ IsLast(s)
        /\ Communicate(s, y, output_obj[s], sched[s].send_tensor, TRUE, sched[s].grad_recv)
    BY <1>10 DEF SendForwardRecvBackward, Starts
  <2>2. Neighbours(s, y) /\ y \in Int /\ y > s /\ ~ (s > y)
    BY <1>1, <2>1 DEF Neighbours, Stages, IsLast
  <2>3. /\ c \in SendCalls(s, y) /\ c \in RecvCalls(y, s)
    BY <2>2 DEF SendCalls, RecvCalls, Saving, Receiving, GradSending, GradReceiving
  <2>4. /\ IsMicro(s, output_obj[s], SendIndex(s, y)) /\ (y > s => output_obj[s].grad = Batch(s).train)
        /\ sched[s].send_tensor = SendFlag(s, y)
    BY <1>4, <2>1, <2>2 DEF SendFlag, Saving
  <2>5. sched[s].grad_recv = Cached(y, s)
    BY <2>2 DEF Cached
  <2> HIDE DEF y, c
  <2> QED BY <1>2, <2>1, <2>2, <2>3, <2>4, <2>5, StartLinks
<1>11. CASE SendBackwardRecvForward(s)
  <2> DEFINE y == s - 1
             c == "send_backward_recv_forward"
  <2>1. /\ Starts(s, c) /\ Calls(s, c) /\ ~ IsFirst(s)
        /\ Communicate(s, y, input_obj_grad[s], sched[s].send_grad, TRUE, sched[s].tensor_recv)
    BY <1>11 DEF SendBackwardRecvForward, Starts
  <2>2. Neighbours(s, y) /\ y \in Int /\ s > y /\ ~ (y > s)
    BY <1>1, <2>1 DEF Neighbours, Stages, IsFirst
  <2>3. /\ c \in SendCalls(s, y) /\ c \in RecvCalls(y, s)
    BY <2>2 DEF SendCalls, RecvCalls, Saving, Receiving, GradSending, GradReceiving
  <2>4. /\ IsMicro(s, input_obj_grad[s], SendIndex(s, y)) /\ (y > s => input_obj_grad[s].grad = Batch(s).train)
        /\ sched[s].send_grad = SendFlag(s, y)
    BY <1>5, <2>1, <2>2 DEF SendFlag, GradSending
  <2>5. sched[s].tensor_recv = Cached(y, s)
    BY <2>2 DEF Cached
  <2> HIDE DEF y, c
  <2> QED BY <1>2, <2>1, <2>2, <2>3, <2>4, <2>5, StartLinks
<1> QED BY <1>6, <1>7, <1>8, <1>9, <1>10, <1>11 DEF Begins

-----------------------------------------------------------------------------
(* A sender and a receiver meet.                                           *)

\* What both ends know: it is the same microbatch of the same step, and both
\* are at its metadata or both at its data.
Meet(s, t, h) ==
  /\ Neighbours(s, t) /\ Neighbours(t, s) /\ s # t
  /\ Call(s) \in SendCalls(s, t) /\ Call(t) \in RecvCalls(s, t)
  /\ step[s] = step[t] /\ SendIndex(s, t) = RecvIndex(s, t)
  /\ Batch(s) = Batch(t) /\ Size(s) = Size(t)
  /\ SentBefore(s, t, h) = GotBefore(s, t, h)
  /\ comm[s].phase = comm[t].phase
  /\ IsMicro(t, comm[s].obj, RecvIndex(s, t))
  /\ t > s => comm[s].obj.grad = Batch(t).train

LEMMA Meeting ==
  ASSUME Local, NEW h, NEW n, Linked(h, n), NEW s \in Stages, NEW t \in Stages, Facing(s, t)
  PROVE  Meet(s, t, h)
<1>1. /\ comm[s] # None /\ comm[t] # None /\ comm[s].peer = t /\ comm[t].peer = s
      /\ comm[s].send /\ comm[t].recv
  BY DEF Facing
<1>2. History(h, n) /\ StageLink(s, h, n) /\ StageLink(t, h, n)
  BY DEF Linked
<1>3. /\ InHistory(s, h, n) /\ Flags(s, h) /\ CommIs(s) /\ InHistory(t, h, n) /\ Flags(t, h) /\ CommIs(t)
  BY <1>2 DEF StageLink
<1>4. /\ Neighbours(s, t) /\ Call(s) \in SendCalls(s, t)
      /\ IsMicro(s, comm[s].obj, SendIndex(s, t)) /\ (t > s => comm[s].obj.grad = Batch(s).train)
      /\ comm[s].phase = "metadata" => SendFlag(s, t)
      /\ comm[s].phase \in {"metadata", "data"}
  BY <1>1, <1>3 DEF CommIs, Communications
<1>5. /\ Neighbours(t, s) /\ Call(t) \in RecvCalls(s, t)
      /\ comm[t].phase = "metadata" => Cached(s, t) = None
      /\ comm[t].phase \in {"metadata", "data"}
  BY <1>1, <1>3 DEF CommIs, Communications
<1>6. s # t /\ s \notin failed /\ t \notin failed /\ todo[s] # <<>> /\ todo[t] # <<>>
  BY <1>1, <1>4 DEF Neighbours, Stages, Local, AtStage
<1>7. Active(s) /\ Active(t)
  BY <1>6, ActiveIs
<1>8. Wire(s, t, h)
  BY <1>4 DEF Linked
<1>9. ~ DataSent(s, t) /\ ~ DataGot(s, t)
  BY <1>1 DEF DataSent, DataGot
<1> DEFINE a == SendIndex(s, t)
           b == RecvIndex(s, t)
<1>10. a \in Nat /\ b \in Nat /\ a < sched[s].num /\ b < sched[t].num
  BY <1>4, <1>5, <1>7, IndexBounds
<1>11. /\ step[s] \in 0 .. n /\ h[step[s]].attr # None /\ step[t] \in 0 .. n /\ h[step[t]].attr # None
       /\ Sends(h, step[s]) = sched[s].num /\ Sends(h, step[t]) = sched[t].num
       /\ Batch(s).train => GradSends(h, step[s]) = sched[s].num
       /\ Batch(t).train => GradSends(h, step[t]) = sched[t].num
  BY <1>2, <1>3, <1>7, StepInHistory
<1>12. /\ SentBefore(s, t, h) = Before(h, step[s], s, t) + a
       /\ GotBefore(s, t, h) = Before(h, step[t], s, t) + b
       /\ Before(h, step[s], s, t) \in Nat /\ Before(h, step[t], s, t) \in Nat
  BY <1>2, <1>11, HistoryHas DEF SentBefore, GotBefore, Before
<1>13. SentBefore(s, t, h) = GotBefore(s, t, h)
  <2>1. Out(s, t, h) = SentBefore(s, t, h) + 0 /\ In(s, t, h) = GotBefore(s, t, h) + 0
    BY <1>9 DEF Out, In, One
  <2>2. SentBefore(s, t, h) \in Nat /\ GotBefore(s, t, h) \in Nat
    BY <1>10, <1>12
  <2>3. Out(s, t, h) = In(s, t, h)
    BY <1>8 DEF Wire
  <2> QED BY <2>1, <2>2, <2>3
<1>14. step[s] = step[t] /\ a = b
  <2> HIDE DEF a, b
  <2>1. CASE t > s
    <3>1. h[step[s]].tensors + a = h[step[t]].tensors + b
      BY <1>12, <1>13, <2>1 DEF Before
    <3>2. a < Sends(h, step[s]) /\ b < Sends(h, step[t])
      BY <1>10, <1>11
    <3> QED BY <1>2, <1>10, <1>11, <3>1, <3>2, SamePlace
  <2>2. CASE ~ (t > s)
    <3>1. h[step[s]].grads + a = h[step[t]].grads + b
      BY <1>12, <1>13, <2>2 DEF Before
    <3>2. Call(s) \in GradSending /\ Call(t) \in GradReceiving
      BY <1>4, <1>5, <2>2 DEF SendCalls, RecvCalls
    <3>3. Batch(s).train /\ Batch(t).train
      BY <1>7, <3>2, IndexBounds
    <3>4. a < GradSends(h, step[s]) /\ b < GradSends(h, step[t])
      BY <1>10, <1>11, <3>3
    <3> QED BY <1>2, <1>10, <1>11, <3>1, <3>4, SamePlace
  <2> QED BY <2>1, <2>2
<1>15. /\ Batch(s) = Batch(t) /\ Size(s) = Size(t) /\ sched[s].cache = sched[t].cache
  BY <1>3, <1>6, <1>14 DEF InHistory, SameCore, Batch, Size
<1>16. IsMicro(t, comm[s].obj, b) /\ (t > s => comm[s].obj.grad = Batch(t).train)
  BY <1>4, <1>14, <1>15 DEF IsMicro, MicroRows
<1>17. SendFlag(s, t) <=> Cached(s, t) = None
  <2>1. SendFlag(s, t) = (~ sched[s].cache \/ SentBefore(s, t, h) = 0)
    BY <1>3, <1>4, <1>6 DEF Flags
  <2>2. (Cached(s, t) = None) = (~ sched[t].cache \/ GotBefore(s, t, h) = 0)
    BY <1>3, <1>5, <1>6 DEF Flags
  <2> QED BY <1>13, <1>15, <2>1, <2>2
<1>18. comm[s].phase = comm[t].phase
  <2>1. HalfSent(s, t) <=> SendFlag(s, t) /\ comm[s].phase = "data"
    BY <1>1, <1>4 DEF HalfSent
  <2>2. HalfGot(s, t) <=> Cached(s, t) = None /\ comm[t].phase = "data"
    BY <1>1, <1>5 DEF HalfGot
  <2>3. HalfSent(s, t) <=> HalfGot(s, t)
    BY <1>8 DEF Wire
  <2> QED BY <1>4, <1>5, <1>17, <2>1, <2>2, <2>3
<1> QED BY <1>4, <1>5, <1>6, <1>13, <1>14, <1>15, <1>16, <1>18 DEF Meet

\* The wires but that from x to y see no difference at s.
SameEndsBut(s, h, x, y) ==
  \A z \in Stages : Neighbours(s, z) =>
    /\ <<s, z>> # <<x, y>> => Out(s, z, h)' = Out(s, z, h) /\ (HalfSent(s, z)' <=> HalfSent(s, z))
    /\ <<z, s>> # <<x, y>> => In(z, s, h)' = In(z, s, h) /\ (HalfGot(z, s)' <=> HalfGot(z, s))

LEMMA SentGoesOn ==
  ASSUME Local, NEW h, NEW n, NEW s \in Stages, NEW t \in Stages, StageLink(s, h, n), Settled(s),
         comm[s] # None, comm[s].peer = t, comm[s].send, comm'[s] = Sent(comm[s])
  PROVE  /\ StageLink(s, h, n)' /\ SameEndsBut(s, h, s, t)
         /\ IF comm[s].phase = "data" THEN Out(s, t, h)' = SentBefore(s, t, h) + 1 /\ ~ HalfSent(s, t)'
            ELSE Out(s, t, h)' = SentBefore(s, t, h) + 0 /\ HalfSent(s, t)'
<1> DEFINE c == comm[s]
           d == comm'[s]
<1>1. InHistory(s, h, n) /\ Flags(s, h) /\ Data(s) /\ CommIs(s)
  BY DEF StageLink
<1>2. /\ c \in Communications /\ Neighbours(s, t) /\ Call(s) \in SendCalls(s, t)
      /\ IsMicro(s, c.obj, SendIndex(s, t)) /\ (t > s => c.obj.grad = Batch(s).train)
      /\ c.wants <=> Call(s) \in RecvCalls(t, s)
      /\ c.recv => c.wants
      /\ c.phase = "metadata" => /\ c.send => SendFlag(s, t)
                                 /\ c.recv => Cached(t, s) = None
      /\ c.wants /\ (c.phase = "data" \/ ~ c.recv) =>
            /\ c.buffer \in Metas /\ c.buffer.rows = MicroRows(s, RecvIndex(t, s))
            /\ t < s /\ Batch(s).train => c.buffer.grad
      /\ c.wants /\ c.phase = "data" /\ ~ c.recv =>
            IsMicro(s, c.got, RecvIndex(t, s)) /\ (t < s /\ Batch(s).train => c.got.grad)
  BY <1>1 DEF CommIs
<1>3. c.obj # None /\ c.send /\ c.phase \in {"metadata", "data"} /\ c.recv \in BOOLEAN /\ c.wants \in BOOLEAN
  BY <1>2, NoneIsNone DEF IsMicro, Communications
<1>4. /\ d \in Communications /\ d.peer = t /\ d.obj = c.obj /\ d.wants = c.wants /\ d.buffer = c.buffer
      /\ d.got = c.got
      /\ IF c.phase = "data" \/ c.recv THEN d.phase = c.phase /\ d.send = FALSE /\ d.recv = c.recv
         ELSE d.phase = "data" /\ d.send = TRUE /\ d.recv = c.wants
  <2> DEFINE e == [c EXCEPT !.send = FALSE]
  <2>1. /\ e \in Communications /\ e.peer = t /\ e.obj = c.obj /\ e.wants = c.wants /\ e.buffer = c.buffer
        /\ e.got = c.got /\ e.phase = c.phase /\ e.send = FALSE /\ e.recv = c.recv
    BY <1>2 DEF Communications
  <2>2. d = PhaseOver(e)
    BY DEF Sent
  <2> HIDE DEF c, d, e
  <2>3. CASE c.phase = "data" \/ c.recv
    <3>1. d = e
      BY <2>1, <2>2, <2>3 DEF PhaseOver
    <3> QED BY <2>1, <2>3, <3>1
  <2>4. CASE ~ (c.phase = "data" \/ c.recv)
    <3>1. d = DataPhase(e)
      BY <1>3, <2>1, <2>2, <2>4 DEF PhaseOver
    <3> QED BY <1>3, <2>1, <2>4, <3>1 DEF DataPhase, Communications
  <2> QED BY <2>3, <2>4
<1>5. d # None
  BY <1>4, NoneIsNone
<1>6. /\ Call(s)' = Call(s) /\ Batch(s)' = Batch(s) /\ Size(s)' = Size(s)
      /\ TensorsSent(s)' = TensorsSent(s) /\ TensorsReceived(s)' = TensorsReceived(s)
      /\ GradsReceived(s)' = GradsReceived(s) /\ GradsSent(s)' = GradsSent(s)
  BY SettledIs
<1>7. /\ InHistory(s, h, n)' /\ Flags(s, h)' /\ Data(s)'
      /\ \A z : /\ SentBefore(s, z, h)' = SentBefore(s, z, h) /\ GotBefore(z, s, h)' = GotBefore(z, s, h)
                /\ SendFlag(s, z)' = SendFlag(s, z) /\ Cached(z, s)' = Cached(z, s)
      /\ \A o, j : IsMicro(s, o, j)' = IsMicro(s, o, j)
  BY <1>1, SettledKeeps
<1>8. /\ \A z : /\ SendCalls(s, z)' = SendCalls(s, z) /\ RecvCalls(z, s)' = RecvCalls(z, s)
                /\ SendIndex(s, z)' = SendIndex(s, z) /\ RecvIndex(z, s)' = RecvIndex(z, s)
                /\ Neighbours(s, z)' = Neighbours(s, z)
      /\ \A j : MicroRows(s, j)' = MicroRows(s, j)
  BY <1>6 DEF SendCalls, RecvCalls, SendIndex, RecvIndex, Neighbours, MicroRows
<1> HIDE DEF c, d
<1>9. CommIs(s)'
  <2>1. /\ d \in Communications /\ Neighbours(s, d.peer)
        /\ Call(s) \in SendCalls(s, d.peer) \cup RecvCalls(d.peer, s)
        /\ Call(s) \in SendCalls(s, d.peer)
        /\ IsMicro(s, d.obj, SendIndex(s, d.peer)) /\ (d.peer > s => d.obj.grad = Batch(s).train)
        /\ d.wants <=> Call(s) \in RecvCalls(d.peer, s)
        /\ d.recv => d.wants
    BY <1>2, <1>3, <1>4
  <2>2. d.phase = "metadata" => /\ d.send \/ d.recv
                                /\ d.send => SendFlag(s, d.peer)
                                /\ d.recv => Cached(d.peer, s) = None
    BY <1>2, <1>3, <1>4
  <2>3. d.wants /\ (d.phase = "data" \/ ~ d.recv) =>
            /\ d.buffer \in Metas /\ d.buffer.rows = MicroRows(s, RecvIndex(d.peer, s))
            /\ d.peer < s /\ Batch(s).train => d.buffer.grad
    <3>1. d.wants /\ (d.phase = "data" \/ ~ d.recv) => c.wants /\ (c.phase = "data" \/ ~ c.recv)
      BY <1>3, <1>4
    <3> QED BY <1>2, <1>4, <3>1
  <2>4. d.wants /\ d.phase = "data" /\ ~ d.recv =>
            IsMicro(s, d.got, RecvIndex(d.peer, s)) /\ (d.peer < s /\ Batch(s).train => d.got.grad)
    <3>1. d.wants /\ d.phase = "data" /\ ~ d.recv => c.wants /\ c.phase = "data" /\ ~ c.recv
      BY <1>3, <1>4
    <3> QED BY <1>2, <1>4, <3>1
  <2> QED BY <1>6, <1>7, <1>8, <2>1, <2>2, <2>3, <2>4 DEF CommIs, d
<1>10. \A z : Neighbours(s, z) /\ Call(s) \in SendCalls(s, z) \cup RecvCalls(z, s) => z = t
  BY <1>2, OnePeer
<1>11. SameEndsBut(s, h, s, t)
  <2>1. SUFFICES ASSUME NEW z \in Stages, Neighbours(s, z)
                 PROVE  /\ z # t => /\ DataSent(s, z)' <=> DataSent(s, z)
                                    /\ HalfSent(s, z)' <=> HalfSent(s, z)
                        /\ DataGot(z, s)' <=> DataGot(z, s)
                        /\ HalfGot(z, s)' <=> HalfGot(z, s)
    BY <1>7 DEF SameEndsBut, Out, In, One
  <2>2. z # t => /\ ~ DataSent(s, z)' /\ ~ DataSent(s, z) /\ ~ HalfSent(s, z)' /\ ~ HalfSent(s, z)
                 /\ ~ DataGot(z, s)' /\ ~ DataGot(z, s) /\ ~ HalfGot(z, s)' /\ ~ HalfGot(z, s)
    BY <1>6, <1>8, <1>10, <2>1 DEF DataSent, HalfSent, DataGot, HalfGot
  <2>3. CASE z = t
    <3>1. (d.phase = "data" /\ ~ d.recv /\ d.wants) <=> (c.phase = "data" /\ ~ c.recv /\ c.wants)
      BY <1>2, <1>3, <1>4
    <3>2. ((d.recv <=> d.phase = "data") /\ d.wants) <=> ((c.recv <=> c.phase = "data") /\ c.wants)
      BY <1>2, <1>3, <1>4
    <3>3. d.wants <=> c.wants
      BY <1>4
    <3> QED BY <1>2, <1>5, <1>6, <1>7, <1>8, <2>3, <3>1, <3>2, <3>3 DEF DataGot, HalfGot, c, d
  <2> QED BY <2>2, <2>3
<1>12. CASE c.phase = "data"
  <2>1. d.phase = "data" /\ ~ d.send
    BY <1>4, <1>12
  <2>2. DataSent(s, t)' /\ ~ HalfSent(s, t)'
    BY <1>2, <1>5, <1>6, <1>8, <2>1 DEF DataSent, HalfSent, d
  <2>3. Out(s, t, h)' = SentBefore(s, t, h) + 1
    BY <1>7, <2>2 DEF Out, One
  <2> QED BY <1>7, <1>9, <1>11, <1>12, <2>2, <2>3 DEF StageLink, c
<1>13. CASE c.phase # "data"
  <2>1. c.phase = "metadata" /\ (d.send <=> d.phase = "data") /\ SendFlag(s, t)
    BY <1>2, <1>3, <1>4, <1>13
  <2>2. ~ DataSent(s, t)' /\ HalfSent(s, t)'
    BY <1>2, <1>5, <1>6, <1>7, <1>8, <2>1 DEF DataSent, HalfSent, d
  <2>3. Out(s, t, h)' = SentBefore(s, t, h) + 0
    BY <1>7, <2>2 DEF Out, One
  <2> QED BY <1>7, <1>9, <1>11, <1>13, <2>2, <2>3 DEF StageLink, c
<1> QED BY <1>12, <1>13


LEMMA GotGoesOn ==
  ASSUME Local, NEW h, NEW n, NEW t \in Stages, NEW s \in Stages, StageLink(t, h, n), Settled(t),
         comm[t] # None, comm[t].peer = s, comm[t].recv, NEW obj,
         IsMicro(t, obj, RecvIndex(s, t)), t > s => obj.grad = Batch(t).train,
         comm'[t] = Received(comm[t], obj)
  PROVE  /\ StageLink(t, h, n)' /\ SameEndsBut(t, h, s, t)
         /\ IF comm[t].phase = "data" THEN In(s, t, h)' = GotBefore(s, t, h) + 1 /\ ~ HalfGot(s, t)'
            ELSE In(s, t, h)' = GotBefore(s, t, h) + 0 /\ HalfGot(s, t)'
<1> DEFINE c == comm[t]
           d == comm'[t]
           j == RecvIndex(s, t)
<1>1. InHistory(t, h, n) /\ Flags(t, h) /\ Data(t) /\ CommIs(t)
  BY DEF StageLink
<1>2. /\ c \in Communications /\ Neighbours(t, s) /\ Call(t) \in SendCalls(t, s) \cup RecvCalls(s, t)
      /\ IF Call(t) \in SendCalls(t, s)
         THEN IsMicro(t, c.obj, SendIndex(t, s)) /\ (s > t => c.obj.grad = Batch(t).train)
         ELSE c.obj = None
      /\ c.wants <=> Call(t) \in RecvCalls(s, t)
      /\ c.recv => c.wants
      /\ c.send => Call(t) \in SendCalls(t, s)
      /\ c.phase = "metadata" => /\ c.send => SendFlag(t, s)
                                 /\ c.recv => Cached(s, t) = None
      /\ c.wants /\ (c.phase = "data" \/ ~ c.recv) =>
            /\ c.buffer \in Metas /\ c.buffer.rows = MicroRows(t, j)
            /\ s < t /\ Batch(t).train => c.buffer.grad
  BY <1>1 DEF CommIs
<1>3. /\ c.recv /\ c.wants /\ c.phase \in {"metadata", "data"} /\ c.send \in BOOLEAN
      /\ c.obj # None <=> Call(t) \in SendCalls(t, s)
      /\ Call(t) \in RecvCalls(s, t) /\ s \in Int /\ t \in Int
  BY <1>2, NoneIsNone DEF IsMicro, Communications, Stages
<1>4. /\ obj \in Tensors /\ obj.mb = <<step[t], j>> /\ obj.rows = MicroRows(t, j)
      /\ s < t /\ Batch(t).train => obj.grad
      /\ Meta(obj) \in Metas /\ Meta(obj).rows = obj.rows /\ Meta(obj).grad = obj.grad
  <2>1. obj \in Tensors /\ obj.mb = <<step[t], j>> /\ obj.rows = MicroRows(t, j)
    BY DEF IsMicro
  <2>2. Meta(obj) \in Metas /\ Meta(obj).rows = obj.rows /\ Meta(obj).grad = obj.grad
    BY <2>1 DEF Meta, Metas, Tensors
  <2>3. s < t /\ Batch(t).train => obj.grad
    BY <1>3
  <2> QED BY <2>1, <2>2, <2>3
<1> DEFINE g == [mb |-> obj.mb, rows |-> c.buffer.rows, grad |-> c.buffer.grad]
<1>5. c.phase = "data" => /\ IsMicro(t, g, j) /\ g \in Tensors
                          /\ s < t /\ Batch(t).train => g.grad
  <2>1. SUFFICES ASSUME c.phase = "data"
                 PROVE  /\ IsMicro(t, g, j) /\ g \in Tensors
                        /\ s < t /\ Batch(t).train => g.grad
    OBVIOUS
  <2>2. c.buffer \in Metas /\ c.buffer.rows = MicroRows(t, j) /\ (s < t /\ Batch(t).train => c.buffer.grad)
    BY <1>2, <1>3, <2>1
  <2>3. g \in Tensors /\ g.mb = obj.mb /\ g.rows = c.buffer.rows /\ g.grad = c.buffer.grad
    BY <1>4, <2>2 DEF Metas, Tensors
  <2> HIDE DEF g, c, j
  <2> QED BY <1>4, <2>2, <2>3 DEF IsMicro
<1>6. /\ d \in Communications /\ d.peer = s /\ d.obj = c.obj /\ d.wants = c.wants
      /\ IF c.phase = "data" THEN d.phase = "data" /\ d.send = c.send /\ d.recv = FALSE /\ d.buffer = c.buffer /\ d.got = g
         ELSE IF c.send THEN d.phase = "metadata" /\ d.send = TRUE /\ d.recv = FALSE /\ d.buffer = Meta(obj)
         ELSE d.phase = "data" /\ d.send = (c.obj # None) /\ d.recv = TRUE /\ d.buffer = Meta(obj)
  <2> HIDE DEF g
  <2>1. CASE c.phase = "data"
    <3> DEFINE e == [c EXCEPT !.recv = FALSE, !.got = g]
    <3>1. /\ e \in Communications /\ e.peer = s /\ e.obj = c.obj /\ e.wants = c.wants /\ e.phase = "data"
          /\ e.send = c.send /\ e.recv = FALSE /\ e.buffer = c.buffer /\ e.got = g
      BY <1>2, <1>5, <2>1 DEF Communications
    <3>2. d = PhaseOver(e)
      BY <2>1 DEF Received, g
    <3> HIDE DEF c, d, e
    <3>3. d = e
      BY <3>1, <3>2 DEF PhaseOver
    <3> QED BY <2>1, <3>1, <3>3
  <2>2. CASE c.phase # "data"
    <3> DEFINE e == [c EXCEPT !.recv = FALSE, !.buffer = Meta(obj)]
    <3>1. /\ e \in Communications /\ e.peer = s /\ e.obj = c.obj /\ e.wants = c.wants /\ e.phase = "metadata"
          /\ e.send = c.send /\ e.recv = FALSE /\ e.buffer = Meta(obj)
      BY <1>2, <1>3, <1>4, <2>2 DEF Communications
    <3>2. d = PhaseOver(e)
      BY <1>3, <2>2 DEF Received
    <3> HIDE DEF c, d, e
    <3>3. CASE c.send
      <4>1. d = e
        BY <3>1, <3>2, <3>3 DEF PhaseOver
      <4> QED BY <1>3, <2>2, <3>1, <3>3, <4>1
    <3>4. CASE ~ c.send
      <4>1. d = DataPhase(e)
        BY <3>1, <3>2, <3>4 DEF PhaseOver
      <4> QED BY <1>3, <2>2, <3>1, <3>4, <4>1 DEF DataPhase, Communications
    <3> QED BY <3>3, <3>4
  <2> QED BY <2>1, <2>2
<1>7. d # None
  BY <1>6, NoneIsNone
<1>8. /\ Call(t)' = Call(t) /\ Batch(t)' = Batch(t) /\ Size(t)' = Size(t)
      /\ TensorsSent(t)' = TensorsSent(t) /\ TensorsReceived(t)' = TensorsReceived(t)
      /\ GradsReceived(t)' = GradsReceived(t) /\ GradsSent(t)' = GradsSent(t)
  BY SettledIs
<1>9. /\ InHistory(t, h, n)' /\ Flags(t, h)' /\ Data(t)'
      /\ \A z : /\ SentBefore(t, z, h)' = SentBefore(t, z, h) /\ GotBefore(z, t, h)' = GotBefore(z, t, h)
                /\ SendFlag(t, z)' = SendFlag(t, z) /\ Cached(z, t)' = Cached(z, t)
      /\ \A o, k : IsMicro(t, o, k)' = IsMicro(t, o, k)
  BY <1>1, SettledKeeps
<1>10. /\ \A z : /\ SendCalls(t, z)' = SendCalls(t, z) /\ RecvCalls(z, t)' = RecvCalls(z, t)
                 /\ SendIndex(t, z)' = SendIndex(t, z) /\ RecvIndex(z, t)' = RecvIndex(z, t)
                 /\ Neighbours(t, z)' = Neighbours(t, z)
       /\ \A k : MicroRows(t, k)' = MicroRows(t, k)
  BY <1>8 DEF SendCalls, RecvCalls, SendIndex, RecvIndex, Neighbours, MicroRows
<1> HIDE DEF c, d, g
<1>11. CommIs(t)'
  <2>1. /\ d \in Communications /\ Neighbours(t, d.peer)
        /\ Call(t) \in SendCalls(t, d.peer) \cup RecvCalls(d.peer, t)
        /\ IF Call(t) \in SendCalls(t, d.peer)
           THEN IsMicro(t, d.obj, SendIndex(t, d.peer)) /\ (d.peer > t => d.obj.grad = Batch(t).train)
           ELSE d.obj = None
        /\ d.wants <=> Call(t) \in RecvCalls(d.peer, t)
        /\ d.recv => d.wants
    BY <1>2, <1>3, <1>6
  <2>2. d.send => Call(t) \in SendCalls(t, d.peer)
    BY <1>2, <1>3, <1>6
  <2>3. d.phase = "metadata" => /\ d.send \/ d.recv
                                /\ d.send => SendFlag(t, d.peer)
                                /\ d.recv => Cached(d.peer, t) = None
    BY <1>2, <1>3, <1>6
  <2>4. d.wants /\ (d.phase = "data" \/ ~ d.recv) =>
            /\ d.buffer \in Metas /\ d.buffer.rows = MicroRows(t, RecvIndex(d.peer, t))
            /\ d.peer < t /\ Batch(t).train => d.buffer.grad
    <3>1. CASE c.phase = "data"
      BY <1>2, <1>3, <1>6, <3>1
    <3>2. CASE c.phase # "data"
      <4>1. d.buffer = Meta(obj) /\ d.peer = s
        BY <1>6, <3>2
      <4> QED BY <1>4, <4>1
    <3> QED BY <3>1, <3>2
  <2>5. d.wants /\ d.phase = "data" /\ ~ d.recv =>
            IsMicro(t, d.got, RecvIndex(d.peer, t)) /\ (d.peer < t /\ Batch(t).train => d.got.grad)
    <3>1. d.phase = "data" /\ ~ d.recv => c.phase = "data" /\ d.got = g /\ d.peer = s
      BY <1>6
    <3> QED BY <1>5, <3>1
  <2> QED BY <1>8, <1>9, <1>10, <2>1, <2>2, <2>3, <2>4, <2>5 DEF CommIs, d
<1>12. \A z : Neighbours(t, z) /\ Call(t) \in SendCalls(t, z) \cup RecvCalls(z, t) => z = s
  BY <1>2, OnePeer
<1>13. SameEndsBut(t, h, s, t)
  <2>1. SUFFICES ASSUME NEW z \in Stages, Neighbours(t, z)
                 PROVE  /\ z # s => /\ DataGot(z, t)' <=> DataGot(z, t)
                                    /\ HalfGot(z, t)' <=> HalfGot(z, t)
                        /\ DataSent(t, z)' <=> DataSent(t, z)
                        /\ HalfSent(t, z)' <=> HalfSent(t, z)
    BY <1>9 DEF SameEndsBut, Out, In, One
  <2>2. z # s => /\ ~ DataSent(t, z)' /\ ~ DataSent(t, z) /\ ~ HalfSent(t, z)' /\ ~ HalfSent(t, z)
                 /\ ~ DataGot(z, t)' /\ ~ DataGot(z, t) /\ ~ HalfGot(z, t)' /\ ~ HalfGot(z, t)
    BY <1>8, <1>10, <1>12, <2>1 DEF DataSent, HalfSent, DataGot, HalfGot
  <2>3. CASE z = s
    <3> DEFINE sends == Call(t) \in SendCalls(t, s)
    <3>1. (sends /\ d.phase = "data" /\ ~ d.send) <=> (sends /\ c.phase = "data" /\ ~ c.send)
      BY <1>2, <1>3, <1>6
    <3>2. (sends /\ (d.send <=> d.phase = "data")) <=> (sends /\ (c.send <=> c.phase = "data"))
      BY <1>2, <1>3, <1>6
    <3> QED BY <1>2, <1>7, <1>8, <1>9, <1>10, <2>3, <3>1, <3>2 DEF DataSent, HalfSent, c, d
  <2> QED BY <2>2, <2>3
<1>14. CASE c.phase = "data"
  <2>1. d.phase = "data" /\ ~ d.recv
    BY <1>6, <1>14
  <2>2. DataGot(s, t)' /\ ~ HalfGot(s, t)'
    BY <1>3, <1>7, <1>8, <1>10, <2>1 DEF DataGot, HalfGot, d
  <2>3. In(s, t, h)' = GotBefore(s, t, h) + 1
    BY <1>9, <2>2 DEF In, One
  <2> QED BY <1>9, <1>11, <1>13, <1>14, <2>2, <2>3 DEF StageLink, c
<1>15. CASE c.phase # "data"
  <2>1. c.phase = "metadata" /\ (d.recv <=> d.phase = "data") /\ Cached(s, t) = None
    BY <1>2, <1>3, <1>6, <1>15
  <2>2. ~ DataGot(s, t)' /\ HalfGot(s, t)'
    BY <1>3, <1>7, <1>8, <1>9, <1>10, <2>1 DEF DataGot, HalfGot, d
  <2>3. In(s, t, h)' = GotBefore(s, t, h) + 0
    BY <1>9, <2>2 DEF In, One
  <2> QED BY <1>9, <1>11, <1>13, <1>15, <2>2, <2>3 DEF StageLink, c
<1> QED BY <1>14, <1>15

LEMMA TransferLinks ==
  ASSUME Local, NEW h, NEW n, Linked(h, n), NEW s \in Stages, NEW t \in Stages, Transfer(s, t)
  PROVE  Linked(h, n)'
<1>1. /\ Facing(s, t) /\ comm' = [comm EXCEPT ![s] = Sent(comm[s]), ![t] = Received(comm[t], comm[s].obj)]
      /\ UNCHANGED <<script, sched, step, todo, loaded, locals, failed>>
  BY DEF Transfer
<1>2. /\ comm[s] # None /\ comm[t] # None /\ comm[s].peer = t /\ comm[t].peer = s
      /\ comm[s].send /\ comm[t].recv
  BY <1>1 DEF Facing
<1>3. Meet(s, t, h)
  BY <1>1, Meeting
<1>4. \A x \in Stages : Settled(x)
  BY <1>1 DEF Settled, locals
<1>5. /\ comm'[s] = Sent(comm[s]) /\ comm'[t] = Received(comm[t], comm[s].obj)
      /\ \A x \in Stages \ {s, t} : comm'[x] = comm[x]
  BY <1>1, <1>3 DEF Local, Typed, Meet
<1>6. /\ History(h, n) /\ Placed /\ \A x \in Stages : StageLink(x, h, n)
      /\ \A x, y \in Stages : Neighbours(x, y) => Wire(x, y, h)
  BY DEF Linked
<1>7. /\ StageLink(s, h, n)' /\ SameEndsBut(s, h, s, t)
      /\ IF comm[s].phase = "data" THEN Out(s, t, h)' = SentBefore(s, t, h) + 1 /\ ~ HalfSent(s, t)'
         ELSE Out(s, t, h)' = SentBefore(s, t, h) + 0 /\ HalfSent(s, t)'
  BY <1>2, <1>4, <1>5, <1>6, SentGoesOn
<1>8. /\ StageLink(t, h, n)' /\ SameEndsBut(t, h, s, t)
      /\ IF comm[t].phase = "data" THEN In(s, t, h)' = GotBefore(s, t, h) + 1 /\ ~ HalfGot(s, t)'
         ELSE In(s, t, h)' = GotBefore(s, t, h) + 0 /\ HalfGot(s, t)'
  <2>1. IsMicro(t, comm[s].obj, RecvIndex(s, t)) /\ (t > s => comm[s].obj.grad = Batch(t).train)
    BY <1>3 DEF Meet
  <2> QED BY <1>2, <1>4, <1>5, <1>6, <2>1, GotGoesOn
<1>9. \A x \in Stages : StageLink(x, h, n)' /\ SameEndsBut(x, h, s, t)
  <2>1. SUFFICES ASSUME NEW x \in Stages \ {s, t} PROVE StageLink(x, h, n)' /\ SameEndsBut(x, h, s, t)
    BY <1>7, <1>8
  <2>2. StageLink(x, h, n)' /\ SameEnds(x, h)
    BY <1>4, <1>5, <1>6, StillKeeps
  <2> QED BY <2>2 DEF SameEnds, SameEndsBut
<1>10. \A x, y \in Stages : Neighbours(x, y) => Wire(x, y, h)'
  <2>1. SUFFICES ASSUME NEW x \in Stages, NEW y \in Stages, Neighbours(x, y) PROVE Wire(x, y, h)'
    OBVIOUS
  <2>2. CASE <<x, y>> = <<s, t>>
    <3>1. x = s /\ y = t
      BY <2>2
    <3>2. comm[s].phase = comm[t].phase /\ SentBefore(s, t, h) = GotBefore(s, t, h)
      BY <1>3 DEF Meet
    <3> QED BY <1>7, <1>8, <3>1, <3>2 DEF Wire
  <2>3. CASE <<x, y>> # <<s, t>>
    <3>1. Neighbours(y, x)
      BY <2>1 DEF Neighbours, Stages
    <3>2. Out(x, y, h)' = Out(x, y, h) /\ (HalfSent(x, y)' <=> HalfSent(x, y))
      BY <1>9, <2>1, <2>3 DEF SameEndsBut
    <3>3. In(x, y, h)' = In(x, y, h) /\ (HalfGot(x, y)' <=> HalfGot(x, y))
      BY <1>9, <2>3, <3>1 DEF SameEndsBut
    <3> QED BY <1>6, <2>1, <3>2, <3>3 DEF Wire
  <2> QED BY <2>2, <2>3
<1>11. History(h, n)'
  BY <1>1, <1>6 DEF History, Follows, Prepared, Sends, GradSends
<1>12. Placed' /\ \A x, y : Neighbours(x, y)' = Neighbours(x, y)
  BY <1>1, <1>6 DEF Placed, Neighbours, locals
<1> QED BY <1>9, <1>10, <1>11, <1>12 DEF Linked

-----------------------------------------------------------------------------
(* All the stages together.                                                *)

Together == \E h, n : Linked(h, n)

LEMMA TogetherAtInit == Init => Together
<1> SUFFICES ASSUME Init PROVE Together
  OBVIOUS
<1>1. PICK c \in Configs :
        sched = [s \in Stages |-> [num |-> c.num, size |-> c.size, cache |-> c.cache, last |-> None,
                                   send_tensor |-> TRUE, send_grad |-> TRUE,
                                   tensor_recv |-> None, grad_recv |-> None]]
  BY DEF Init
<1> DEFINE a == [num |-> c.num, size |-> c.size, cache |-> c.cache, last |-> None,
                 send_tensor |-> TRUE, send_grad |-> TRUE, tensor_recv |-> None, grad_recv |-> None]
           h == [i \in {0} |-> [attr |-> a, tensors |-> 0, grads |-> 0]]
<1>2. c.num \in Sizes /\ c.size \in Sizes /\ c.cache \in BOOLEAN /\ (c.num # None \/ c.size # None)
  BY PipelineAssumption
<1>3. a \in Schedules /\ Some(a) /\ a # None
  <2>1. a \in Schedules
    BY <1>2 DEF Schedules
  <2> QED BY <1>2, <2>1, NoneIsNone DEF Some
<1>4. \A s \in Stages : sched[s] = a
  BY <1>1
<1>5. /\ a.last = None /\ a.send_tensor = TRUE /\ a.send_grad = TRUE
      /\ a.tensor_recv = None /\ a.grad_recv = None
  OBVIOUS
<1>6. h[0].attr = a /\ h[0].tensors = 0 /\ h[0].grads = 0
  OBVIOUS
<1> HIDE DEF a, h
<1>7. /\ Placed /\ failed = {}
      /\ \A s \in Stages : step[s] = 0 /\ comm[s] = None /\ todo[s] = <<>>
  BY DEF Init, Placed
<1>8. History(h, 0)
  <2>1. 0 \in 0 .. Len(script) /\ \A i \in 0 .. 0 : i = 0
    <3>1. script \in Seq(Steps)
      BY LocalAtInit DEF Local, Typed
    <3> QED BY <3>1
  <2>2. \A i, j \in 0 .. 0 : ~ (i < j)
    BY <2>1
  <2> QED BY <1>3, <1>5, <1>6, <2>1, <2>2 DEF History
<1>9. \A s \in Stages : /\ ~ Active(s) /\ TensorsSent(s) = 0 /\ TensorsReceived(s) = 0
                        /\ GradsReceived(s) = 0 /\ GradsSent(s) = 0
  <2>1. SUFFICES ASSUME NEW s \in Stages
                 PROVE  /\ ~ Active(s) /\ TensorsSent(s) = 0 /\ TensorsReceived(s) = 0
                        /\ GradsReceived(s) = 0 /\ GradsSent(s) = 0
    OBVIOUS
  <2>2. ~ Active(s) /\ Call(s) = "none"
    BY <1>7 DEF Active, Call
  <2>3. One(Call(s) = "backward_step") = 0 /\ One(Call(s) \in GradSending) = 0
    BY <2>2 DEF One, GradSending
  <2>4. GradsUsed(s) = 0
    BY <2>2 DEF GradsUsed
  <2> QED BY <2>2, <2>3, <2>4 DEF TensorsSent, TensorsReceived, GradsReceived, GradsSent
<1>10. \A x, y \in Stages : SentBefore(x, y, h) = 0 /\ GotBefore(x, y, h) = 0
  BY <1>6, <1>7, <1>9 DEF SentBefore, GotBefore, Before, SendIndex, RecvIndex
<1>11. ASSUME NEW s \in Stages PROVE StageLink(s, h, 0)
  <2>1. InHistory(s, h, 0)
    BY <1>3, <1>4, <1>6, <1>7 DEF InHistory, SameCore
  <2>2. Flags(s, h)
    BY <1>4, <1>5, <1>10 DEF Flags, SendFlag, Cached
  <2> QED BY <1>7, <1>9, <2>1, <2>2 DEF StageLink, Data, CommIs
<1>12. \A x, y \in Stages : Neighbours(x, y) => Wire(x, y, h)
  BY <1>7, <1>10 DEF Wire, Out, In, One, DataSent, DataGot, HalfSent, HalfGot
<1>13. Linked(h, 0)
  BY <1>7, <1>8, <1>11, <1>12 DEF Linked
<1> QED BY <1>13 DEF Together

LEMMA TogetherAtStep ==
  ASSUME Local, Together, NEW s \in Stages, StageStep(s)
  PROVE  Together'
<1>1. PICK h, n : Linked(h, n)
  BY DEF Together
<1>2. SUFFICES \E g, m : Linked(g, m)'
  BY DEF Together
<1>3. CASE BeginStep(s)
  <2>1. /\ n \in Nat /\ n <= Len(script) /\ step[s] \in 0 .. n /\ s \notin failed
        /\ script \in Seq(Steps) /\ step[s] < Len(script)
        /\ s \notin failed => h[step[s]].attr # None
    BY <1>1, <1>3 DEF Linked, StageLink, History, InHistory, BeginStep, Local, Typed
  <2>2. CASE step[s] < n
    BY <1>1, <1>3, <2>2, BeginLinks
  <2>3. CASE step[s] = n
    <3>1. PICK g : Linked(g, n + 1)
      BY <1>1, <2>1, <2>3, LinkGrows
    <3> DEFINE m == n + 1
    <3>2. step[s] < m /\ Linked(g, m)
      BY <2>1, <2>3, <3>1
    <3> HIDE DEF m
    <3>3. Linked(g, m)'
      BY <1>3, <3>2, BeginLinks
    <3> QED BY <3>3
  <2> QED BY <2>1, <2>2, <2>3
<1>4. CASE ForwardStep(s) \/ BackwardStep(s)
  BY <1>1, <1>4, ComputeLinks
<1>5. CASE SkipAtFirst(s) \/ SkipAtLast(s)
  BY <1>1, <1>5, SkipLinks
<1>6. CASE Begins(s)
  BY <1>1, <1>6, BeginsLinks
<1>7. CASE Finishes(s)
  BY <1>1, <1>7, FinishLinks
<1> QED BY <1>3, <1>4, <1>5, <1>6, <1>7 DEF StageStep, Begins, Finishes

\* A stage by itself, and the stages together, at all times.
THEOREM StagesAreLinked == Spec => [](Local /\ Together)
<1>1. Init => Together
  BY TogetherAtInit
<1>2. ASSUME Local, Together, [Next]_vars PROVE Together'
  <2>1. ASSUME NEW s \in Stages, StageStep(s) PROVE Together'
    BY <1>2, <2>1, TogetherAtStep
  <2>2. ASSUME NEW s \in Stages, NEW t \in Stages, Transfer(s, t) PROVE Together'
    <3>1. PICK h, n : Linked(h, n)
      BY <1>2 DEF Together
    <3>2. Linked(h, n)'
      BY <1>2, <2>2, <3>1, TransferLinks
    <3> QED BY <3>2 DEF Together
  <2>3. CASE UNCHANGED vars
    <3>1. PICK h, n : Linked(h, n)
      BY <1>2 DEF Together
    <3>2. \A s \in Stages : Settled(s) /\ comm'[s] = comm[s]
      BY <2>3 DEF Settled, vars, locals
    <3>3. \A s \in Stages : StageLink(s, h, n)' /\ SameEnds(s, h)
      BY <3>1, <3>2, StillKeeps DEF Linked
    <3>4. \A x, y \in Stages : Neighbours(x, y) => Wire(x, y, h)'
      <4>1. \A x, y \in Stages : Neighbours(x, y) => Neighbours(y, x) /\ Wire(x, y, h)
        BY <3>1 DEF Linked, Neighbours, Stages
      <4> QED BY <3>3, <4>1 DEF SameEnds, Wire
    <3>5. History(h, n)' /\ Placed' /\ \A x, y : Neighbours(x, y)' = Neighbours(x, y)
      BY <2>3, <3>1 DEF Linked, History, Follows, Prepared, Sends, GradSends, Placed, Neighbours, vars, locals
    <3>6. Linked(h, n)'
      BY <3>3, <3>4, <3>5 DEF Linked
    <3> QED BY <3>6 DEF Together
  <2> QED BY <1>2, <2>1, <2>2, <2>3 DEF Next
<1> QED BY <1>1, <1>2, StagesAreLocal, PTL DEF Spec

\* A sender and a receiver that meet agree on what goes between them, for any
\* number of stages, any script and any setting of the metadata cache:
\* _send_metadata and _recv_metadata are settled by each end on its own.
THEOREM WiresAlwaysAgree == Spec => []WiresAgree
<1>1. Local /\ Together => WiresAgree
  <2> SUFFICES ASSUME Local, Together, NEW s \in Stages, NEW t \in Stages, Facing(s, t)
               PROVE  /\ comm[s].phase = comm[t].phase
                      /\ comm[s].phase = "data" => comm[t].buffer.rows = comm[s].obj.rows
    BY DEF WiresAgree
  <2>1. PICK h, n : Linked(h, n)
    BY DEF Together
  <2>2. Meet(s, t, h)
    BY <2>1, Meeting
  <2>3. /\ comm[s].phase = comm[t].phase /\ comm[s].obj.rows = MicroRows(t, RecvIndex(s, t))
    BY <2>2 DEF Meet, IsMicro
  <2>4. CommIs(t)
    BY <2>1 DEF Linked, StageLink
  <2>5. comm[t].phase = "data" => comm[t].buffer.rows = MicroRows(t, RecvIndex(s, t))
    BY <2>4 DEF CommIs, Facing
  <2> QED BY <2>3, <2>5
<1> QED BY <1>1, StagesAreLinked, PTL

\* forward_step is given the microbatch that the stage has loaded itself, and
\* in training one that requires a gradient, whatever the caches hold.
THEOREM MicrobatchesAreOwn == Spec => []OwnMicrobatch
<1>1. Local /\ Together => OwnMicrobatch
  <2> SUFFICES ASSUME Local, Together, NEW s \in Stages \ failed, Calls(s, "forward_step"), ~ IsFirst(s)
               PROVE  /\ input_obj[s].mb = Micro(s).mb /\ input_obj[s].rows = Micro(s).rows
                      /\ Batch(s).train => input_obj[s].grad
    BY DEF OwnMicrobatch
  <2>1. Active(s) /\ Call(s) = "forward_step"
    BY ActiveIs DEF Calls, Call
  <2>2. Data(s)
    BY DEF Together, Linked, StageLink
  <2>3. IsInput(s, input_obj[s], loaded[s])
    BY <2>1, <2>2 DEF Data
  <2>4. Micro(s).mb = <<step[s], loaded[s]>> /\ Micro(s).rows = MicroRows(s, loaded[s])
    BY DEF Micro, MicroRows
  <2> QED BY <2>3, <2>4 DEF IsInput, IsMicro
<1> QED BY <1>1, StagesAreLinked, PTL

\* backward_step applies the gradient of the microbatch whose output it pops.
THEOREM GradientsAreOwn == Spec => []OwnGradient
<1>1. Local /\ Together => OwnGradient
  <2> SUFFICES ASSUME Local, Together, NEW s \in Stages, Calls(s, "backward_step"), ~ IsLast(s)
               PROVE  output_obj_grad[s].mb = Head(saved[s]).output.mb
    BY DEF OwnGradient
  <2>1. Active(s) /\ Call(s) = "backward_step"
    BY ActiveIs DEF Calls, Call
  <2>2. Data(s)
    BY DEF Together, Linked, StageLink
  <2>3. IsMicro(s, output_obj_grad[s], GradsUsed(s))
    BY <2>1, <2>2 DEF Data
  <2>4. IsSaved(s, Head(saved[s]), GradsUsed(s))
    BY <2>1, <2>2, OldestIs
  <2> QED BY <2>3, <2>4 DEF IsSaved, IsOutput, IsMicro
<1> QED BY <1>1, StagesAreLinked, PTL
=============================================================================
