-------------------------- MODULE LowLevelZeroProofs --------------------------
(***************************************************************************)
(* Proofs about LowLevelZero, for any ranks, parameters, groups, bucket    *)
(* sizes and configurations: the step has the gradient of each microbatch  *)
(* once, the ranks take it together or not at all, and every forward pass  *)
(* runs on what came of it.                                                *)
(***************************************************************************)
EXTENDS LowLevelZero, DataLemmas, FiniteSetTheorems, TLAPS

Batches    == 1 .. Microbatches
GradType   == {None} \cup [Batches -> Nat]
BucketType == [params : Seq(Params), num : Nat, group : Nat]
MachineType == [bucket : [Groups -> BucketType], grad : [Params -> GradType],
                store : [Params -> GradType]]

\* The gradient that has the microbatches of S once each.
Ind(S) == IF S = {} THEN None ELSE [i \in Batches |-> IF i \in S THEN 1 ELSE 0]

\* A bucket that counts nothing has nothing in it.
Counted(x) == \A b \in Groups : x.bucket[b].num = 0 => x.bucket[b].params = <<>>

\* What is left of due[p] in p.grad and what is in the store make due[p] up.
Split(x, due, p) ==
  \E G, S \in SUBSET Batches :
    x.grad[p] = Ind(G) /\ x.store[p] = Ind(S) /\ G \cap S = {} /\ G \cup S = due[p]
Holds(x, due) == \A p \in Params : Split(x, due, p)

Waits(x, p) == \E b \in Groups : Contains(x.bucket[b].params, p)
AllNone(x)  == \A p \in Params : x.grad[p] = None

\* The microbatches whose gradient of p has been computed.
Due == [p \in Params |->
          {i \in 1 .. micro : p \in used[i]} \
            (IF phase = "computing" \/ (phase = "backward" /\ p \in todo)
               THEN {micro} ELSE {})]

Types ==
  /\ cfg \in Configs
  /\ phase \in {"loop", "computing", "backward", "syncing", "stepping", "stepped"}
  /\ micro \in 0 .. Microbatches /\ (phase \in {"computing", "backward"} => micro # 0)
  /\ sync \in BOOLEAN /\ used \in [Batches -> SUBSET Params] /\ todo \in SUBSET Params
  /\ Machine \in MachineType
  /\ bad \in SUBSET (Batches \X Params \X Ranks)
  /\ master \in [Ranks -> [Params -> Nat]]

\* Between the passes: whether gradients wait, and for what.
Passing ==
  /\ ~cfg.no_sync => sync
  /\ phase = "backward" => todo \subseteq used[micro]
  /\ phase \in {"computing", "backward"} /\ ~cfg.drops => used[micro] = Params
  /\ phase \in {"loop", "computing"} /\ Hooked /\ cfg.drops => AllNone(Machine)
  /\ phase = "stepping" => AllNone(Machine)

\* While hooks or _sync_grad run: a gradient is yet to be added or in a bucket.
Awaited ==
  phase = "syncing" \/ (phase = "backward" /\ Hooked /\ sync) =>
    \A p \in Params : grad[p] # None => p \in todo \/ Waits(Machine, p)

Agreed == \A r, s \in Ranks : master[r] = master[s]

IInv == Types /\ Passing /\ Awaited /\ Counted(Machine) /\ Holds(Machine, Due) /\ Agreed

\* No parameter is left out while gradients wait for a hook: the hook comes after
\* the gradient of the pass itself, and of a parameter left out it never comes.
NoneStranded == \A c \in Configs : c.no_sync /\ c.overlap => ~c.drops

-----------------------------------------------------------------------------
LEMMA IndIsGrad ==
  ASSUME NEW S \in SUBSET Batches
  PROVE  /\ Ind(S) \in GradType
         /\ Ind(S) = None <=> S = {}
         /\ S # {} => Ind(S) = [i \in Batches |-> IF i \in S THEN 1 ELSE 0]
         /\ \A i \in Batches : Ind(S) # None => (Ind(S)[i] > 0 <=> Ind(S)[i] # 0)
  <1>1. Batches # {} /\ 1 \in Batches
    BY ZeroAssumption DEF Batches
  <1>2. ASSUME NEW f \in [Batches -> Nat] PROVE f # None
    BY <1>1, <1>2 DEF None
  <1>3. [i \in Batches |-> IF i \in S THEN 1 ELSE 0] \in [Batches -> Nat]
    OBVIOUS
  <1> QED BY <1>2, <1>3 DEF Ind, GradType

LEMMA PlusInd ==
  ASSUME NEW G \in SUBSET Batches, NEW H \in SUBSET Batches, G \cap H = {}
  PROVE  Plus(Ind(G), Ind(H)) = Ind(G \cup H)
  <1>1. CASE G = {} \/ H = {}
    BY <1>1, IndIsGrad DEF Plus, Ind
  <1>2. CASE G # {} /\ H # {}
    <2> DEFINE f == [i \in Batches |-> IF i \in G THEN 1 ELSE 0]
               g == [i \in Batches |-> IF i \in H THEN 1 ELSE 0]
    <2>1. Ind(G) = f /\ Ind(H) = g /\ f # None /\ g # None
      BY <1>2, IndIsGrad
    <2>2. Plus(f, g) = [i \in DOMAIN f |-> f[i] + g[i]]
      BY <2>1 DEF Plus
    <2>3. [i \in DOMAIN f |-> f[i] + g[i]] = [i \in Batches |-> IF i \in G \cup H THEN 1 ELSE 0]
      OBVIOUS
    <2>4. Ind(G \cup H) = [i \in Batches |-> IF i \in G \cup H THEN 1 ELSE 0]
      BY <1>2, IndIsGrad
    <2> QED BY <2>1, <2>2, <2>3, <2>4
  <1> QED BY <1>1, <1>2

\* What is in a bucket counts.
LEMMA CountsUp ==
  ASSUME NEW p \in Params
  PROVE  /\ Numel[p] + Padding(p) \in Nat \ {0}
         /\ Padding(p) \in Nat /\ ParamGroup(p) \in Nat
  <1>1. World \in Nat \ {0}
    BY ZeroAssumption, FS_CardinalityType, FS_EmptySet DEF World
  <1>2. \A m \in Int : m % World \in Nat
    BY <1>1
  <1>3. Padding(p) \in Nat
    <2> DEFINE k == Numel[p] % World
    <2>1. k \in Nat
      BY <1>2, ZeroAssumption
    <2> HIDE DEF k
    <2>2. World - k \in Int
      BY <1>1, <2>1
    <2> QED BY <1>2, <2>2 DEF Padding, k
  <1>4. DOMAIN Order \subseteq Nat
    BY ZeroAssumption
  <1>5. ParamGroup(p) \in DOMAIN Order
    BY ZeroAssumption DEF ParamGroup
  <1> QED BY <1>3, <1>4, <1>5, ZeroAssumption

\* A reduction empties the buckets, and moves what was in them to the stores.
LEMMA RunReductionKeeps ==
  ASSUME NEW x \in MachineType, Counted(x),
         NEW due \in [Params -> SUBSET Batches], Holds(x, due)
  PROVE  LET y == RunReduction(x)
         IN /\ y \in MachineType /\ Counted(y) /\ Holds(y, due)
            /\ \A p \in Params : y.grad[p] # None => x.grad[p] # None /\ ~Waits(x, p)
  <1> DEFINE y == RunReduction(x)
             In(p) == \E b \in Groups : x.bucket[b].num > 0 /\ Contains(x.bucket[b].params, p)
  <1>1. y = [bucket |-> [b \in Groups |-> [params |-> <<>>, num |-> 0, group |-> x.bucket[b].group]],
             grad   |-> [p \in Params |-> IF In(p) THEN None ELSE x.grad[p]],
             store  |-> [p \in Params |-> IF In(p) THEN Plus(x.store[p], x.grad[p])
                                          ELSE x.store[p]]]
    BY DEF RunReduction, Accumulated
  <1> HIDE DEF y, In
  <1>2. \A p \in Params : Waits(x, p) => In(p)
    BY DEF In, Waits, Counted, MachineType, BucketType, Contains
  <1>3. ASSUME NEW p \in Params
        PROVE  /\ Split(y, due, p) /\ y.grad[p] \in GradType /\ y.store[p] \in GradType
    <2>1. PICK G \in SUBSET Batches, S \in SUBSET Batches :
            x.grad[p] = Ind(G) /\ x.store[p] = Ind(S) /\ G \cap S = {} /\ G \cup S = due[p]
      BY DEF Holds, Split
    <2>2. CASE In(p)
      <3>1. y.grad[p] = Ind({})
        BY <1>1, <2>2 DEF Ind
      <3>2. y.store[p] = Ind(S \cup G)
        BY <1>1, <2>1, <2>2, PlusInd
      <3> QED BY <3>1, <3>2, <2>1, IndIsGrad DEF Split
    <2>3. CASE ~In(p)
      BY <1>1, <2>1, <2>3, IndIsGrad DEF Split
    <2> QED BY <2>2, <2>3
  <1>4. /\ y.grad \in [Params -> GradType] /\ y.store \in [Params -> GradType]
        /\ \A p \in Params : y.grad[p] # None => x.grad[p] # None /\ ~Waits(x, p)
    BY <1>1, <1>2, <1>3
  <1>5. ASSUME NEW b \in Groups PROVE y.bucket[b] \in BucketType /\ y.bucket[b].params = <<>>
    <2>1. x.bucket[b].group \in Nat
      BY DEF MachineType, BucketType
    <2>2. y.bucket[b] = [params |-> <<>>, num |-> 0, group |-> x.bucket[b].group]
      BY <1>1
    <2>3. <<>> \in Seq(Params)
      OBVIOUS
    <2> QED BY <2>1, <2>2, <2>3 DEF BucketType
  <1>6. y.bucket \in [Groups -> BucketType]
    BY <1>1, <1>5
  <1>7. y \in MachineType
    BY <1>1, <1>4, <1>6 DEF MachineType
  <1> QED BY <1>3, <1>4, <1>5, <1>7 DEF Counted, Holds, y

\* A parameter that is added is in a bucket; of the others, those that were in
\* one are still there, or their gradients have gone to the stores.
LEMMA AddToBucketKeeps ==
  ASSUME NEW x \in MachineType, Counted(x),
         NEW due \in [Params -> SUBSET Batches], Holds(x, due), NEW p \in Params
  PROVE  LET z == AddToBucket(x, p)
         IN /\ z \in MachineType /\ Counted(z) /\ Holds(z, due) /\ Waits(z, p)
            /\ \A q \in Params : z.grad[q] # None =>
                 x.grad[q] # None /\ (Waits(x, q) => Waits(z, q))
  <1> DEFINE g == GroupOf[p]
             y == IF x.bucket[g].num + Numel[p] > BucketSize \/ x.bucket[g].group # ParamGroup(p)
                    THEN RunReduction(x) ELSE x
             B == [params |-> Append(y.bucket[g].params, p),
                   num |-> y.bucket[g].num + Numel[p] + Padding(p), group |-> ParamGroup(p)]
             z == [y EXCEPT !.bucket[g] = B]
  <1>1. AddToBucket(x, p) = z
    BY DEF AddToBucket
  <1>2. /\ y \in MachineType /\ Counted(y) /\ Holds(y, due)
        /\ \A q \in Params : y.grad[q] # None => x.grad[q] # None /\ (Waits(x, q) => Waits(y, q))
    BY RunReductionKeeps
  <1>3. g \in Groups
    BY ZeroAssumption
  <1> HIDE DEF y, g
  <1>a. /\ y.bucket \in [Groups -> BucketType]
        /\ y = [bucket |-> y.bucket, grad |-> y.grad, store |-> y.store]
    BY <1>2 DEF MachineType
  <1>b. /\ y.bucket[g].params \in Seq(Params) /\ y.bucket[g].num \in Nat
    BY <1>3, <1>a DEF BucketType
  <1>5. B \in BucketType /\ B.num # 0
    <2>1. Numel[p] + Padding(p) \in Nat \ {0} /\ ParamGroup(p) \in Nat
          /\ Numel[p] \in Nat
      BY CountsUp, ZeroAssumption
    <2> DEFINE n == y.bucket[g].num
               k == Padding(p)
    <2>2. n \in Nat /\ k \in Nat
      BY <1>b, CountsUp
    <2> HIDE DEF n, k
    <2>3. n + Numel[p] + k \in Nat \ {0}
      BY <2>1, <2>2, ZeroAssumption
    <2> USE DEF n, k
    <2>4. Append(y.bucket[g].params, p) \in Seq(Params)
      BY <1>b
    <2> QED BY <2>1, <2>3, <2>4 DEF BucketType
  <1>6. \A q : Contains(B.params, q) <=> q = p \/ Contains(y.bucket[g].params, q)
    <2> DEFINE s == y.bucket[g].params
    <2>1. B.params = Append(s, p)
      OBVIOUS
    <2> HIDE DEF s, B
    <2>2. /\ Len(Append(s, p)) = Len(s) + 1 /\ Len(s) \in Nat
          /\ Append(s, p)[Len(s) + 1] = p
          /\ \A i \in 1 .. Len(s) : Append(s, p)[i] = s[i]
      BY <1>b DEF s
    <2>3. ASSUME NEW q, Contains(Append(s, p), q), q # p PROVE Contains(s, q)
      <3>1. PICK i \in 1 .. Len(s) + 1 : Append(s, p)[i] = q
        BY <2>2, <2>3 DEF Contains
      <3>2. i \in 1 .. Len(s)
        BY <3>1, <2>2, <2>3
      <3> QED BY <3>1, <3>2, <2>2 DEF Contains
    <2>4. ASSUME NEW q, q = p \/ Contains(s, q) PROVE Contains(Append(s, p), q)
      BY <2>2, <2>4 DEF Contains
    <2> QED BY <2>1, <2>3, <2>4 DEF s
  <1> HIDE DEF B
  <1>4. /\ z.grad = y.grad /\ z.store = y.store
        /\ z.bucket = [y.bucket EXCEPT ![g] = B]
        /\ z = [bucket |-> z.bucket, grad |-> z.grad, store |-> z.store]
    BY <1>a
  <1> HIDE DEF z
  <1>7. z \in MachineType /\ Counted(z)
    BY <1>2, <1>3, <1>4, <1>5 DEF MachineType, Counted
  <1>8. Holds(z, due)
    BY <1>2, <1>4 DEF Holds, Split
  <1>9. Waits(z, p) /\ \A q \in Params : Waits(y, q) => Waits(z, q)
    BY <1>2, <1>3, <1>4, <1>6 DEF Waits, MachineType
  <1> QED BY <1>1, <1>2, <1>4, <1>7, <1>8, <1>9

-----------------------------------------------------------------------------
LEMMA DueType ==
  ASSUME Types
  PROVE  Due \in [Params -> SUBSET Batches]
  <1>1. ASSUME NEW p \in Params PROVE {i \in 1 .. micro : p \in used[i]} \subseteq Batches
    BY ZeroAssumption DEF Types, Batches
  <1> QED BY <1>1 DEF Due

LEMMA BecomesMachine ==
  ASSUME NEW x \in MachineType, Becomes(x)
  PROVE  Machine' = x
  <1>1. bucket' = x.bucket /\ grad' = x.grad /\ store' = x.store
    BY DEF Becomes
  <1>2. x = [bucket |-> x.bucket, grad |-> x.grad, store |-> x.store]
    BY DEF MachineType
  <1> QED BY <1>1, <1>2 DEF Machine

\* Nothing due, and nothing there.
LEMMA ClearedHolds ==
  ASSUME NEW x, x.grad = NoGrads, x.store = NoGrads,
         x.bucket = [b \in Groups |-> EmptyBucket],
         x = [bucket |-> x.bucket, grad |-> x.grad, store |-> x.store],
         NEW due, \A p \in Params : due[p] = {}
  PROVE  x \in MachineType /\ Counted(x) /\ Holds(x, due) /\ AllNone(x)
  <1>1. NoGrads \in [Params -> GradType]
    BY DEF NoGrads, GradType
  <1>2. EmptyBucket \in BucketType
    BY DEF EmptyBucket, BucketType
  <1>3. x \in MachineType
    BY <1>1, <1>2 DEF MachineType
  <1>4. Counted(x)
    BY DEF Counted, EmptyBucket
  <1>5. \A p \in Params : x.grad[p] = Ind({}) /\ x.store[p] = Ind({})
    BY DEF NoGrads, Ind
  <1>6. Holds(x, due)
    BY <1>5 DEF Holds, Split
  <1>7. AllNone(x)
    BY DEF AllNone, NoGrads
  <1> QED BY <1>3, <1>4, <1>6, <1>7

LEMMA InitIInv == Init => IInv
  <1> SUFFICES ASSUME Init PROVE IInv
    OBVIOUS
  <1>1. \A p \in Params : Due[p] = {}
    BY DEF Init, Due
  <1>2. Machine \in MachineType /\ Counted(Machine) /\ Holds(Machine, Due) /\ AllNone(Machine)
    <2>1. /\ Machine.grad = NoGrads /\ Machine.store = NoGrads
          /\ Machine.bucket = [b \in Groups |-> EmptyBucket]
          /\ Machine = [bucket |-> Machine.bucket, grad |-> Machine.grad,
                        store |-> Machine.store]
      BY DEF Init, Machine
    <2> QED BY <1>1, <2>1, ClearedHolds
  <1>3. Types
    BY <1>2, ZeroAssumption DEF Init, Types, Batches
  <1>4. Passing /\ Awaited /\ Agreed
    BY <1>2 DEF Init, Passing, Awaited, Agreed
  <1> QED BY <1>2, <1>3, <1>4 DEF IInv

\* A pass begins with nothing of its own due, and the hooks have nothing to wait for.
LEMMA ForwardKeeps == IInv /\ Forward => IInv'
  <1> SUFFICES ASSUME IInv, Forward PROVE IInv'
    OBVIOUS
  <1> USE DEF IInv
  <1>1. /\ micro \in Nat /\ micro + 1 \in Batches /\ micro' = micro + 1
        /\ phase = "loop" /\ phase' = "computing"
    BY ZeroAssumption DEF Forward, Types, Batches
  <1>2. Machine' = Machine /\ cfg' = cfg /\ todo' = todo /\ bad' = bad /\ master' = master
    BY DEF Forward, Machine
  <1>3. PICK S \in Passes : used' = [used EXCEPT ![micro'] = S]
    BY DEF Forward
  <1>4. S \subseteq Params /\ (~cfg.drops => S = Params)
    BY <1>3 DEF Passes
  <1>5. sync' \in BOOLEAN /\ (~cfg.no_sync => sync')
    BY DEF Forward
  <1>6. Types'
    BY <1>1, <1>2, <1>3, <1>4, <1>5, ZeroAssumption DEF Types, Batches
  <1>7. Due' = Due
    <2>1. \A i \in 1 .. micro : used'[i] = used[i]
      BY <1>1, <1>3 DEF Types, Batches
    <2>2. 1 .. micro' = (1 .. micro) \cup {micro'} /\ micro' \notin 1 .. micro
      BY <1>1
    <2>3. ASSUME NEW p \in Params
          PROVE  {i \in 1 .. micro' : p \in used'[i]} \ {micro'} = {i \in 1 .. micro : p \in used[i]}
      BY <2>1, <2>2
    <2> QED BY <1>1, <2>3 DEF Due
  <1>8. Passing'
    <2>1. used'[micro'] = S
      BY <1>1, <1>3 DEF Types
    <2>2. Hooked' = Hooked
      BY <1>2 DEF Hooked
    <2> QED BY <1>1, <1>2, <1>4, <1>5, <2>1, <2>2 DEF Passing
  <1>9. Awaited' /\ Agreed' /\ Counted(Machine)' /\ Holds(Machine, Due)'
    BY <1>1, <1>2, <1>7 DEF Awaited, Agreed, Counted, Holds, Split
  <1> QED BY <1>6, <1>8, <1>9

LEMMA BackwardKeeps == IInv /\ Backward => IInv'
  <1> SUFFICES ASSUME IInv, Backward PROVE IInv'
    OBVIOUS
  <1> USE DEF IInv
  <1>1. /\ micro \in Batches /\ phase = "computing" /\ phase' = "backward"
        /\ todo' = used[micro] /\ micro' = micro /\ used' = used
    BY ZeroAssumption DEF Backward, Types, Batches
  <1>2. Machine' = Machine /\ cfg' = cfg /\ sync' = sync /\ master' = master
    BY DEF Backward, Machine
  <1>3. bad' \in SUBSET (Batches \X Params \X Ranks)
    BY <1>1 DEF Backward, Types
  <1>4. Types'
    BY <1>1, <1>2, <1>3 DEF Types
  <1>5. Due' = Due
    <2>1. ASSUME NEW p \in Params, p \notin used[micro]
          PROVE  {i \in 1 .. micro : p \in used[i]} \ {} = {i \in 1 .. micro : p \in used[i]} \ {micro}
      BY <2>1
    <2> QED BY <1>1, <2>1 DEF Due
  <1>6. Hooked' = Hooked
    BY <1>2 DEF Hooked
  <1>7. Passing'
    BY <1>1, <1>2, <1>6 DEF Passing
  <1>8. Awaited'
    BY <1>1, <1>2, <1>6 DEF Awaited, Passing, AllNone, Machine
  <1>9. Agreed' /\ Counted(Machine)' /\ Holds(Machine, Due)'
    BY <1>2, <1>5 DEF Agreed, Counted, Holds, Split
  <1> QED BY <1>4, <1>7, <1>8, <1>9

\* The pass's gradient of p falls due as it is added.
LEMMA AccumulateKeeps ==
  ASSUME IInv, NEW p \in Params, AccumulateGrad(p)
  PROVE  IInv'
  <1> USE DEF IInv
  <1> DEFINE x   == [Machine EXCEPT !.grad[p] = Plus(@, One)]
             due == [Due EXCEPT ![p] = @ \cup {micro}]
             z   == IF Hooked /\ sync THEN AddToBucket(x, p) ELSE x
  <1>1. /\ micro \in Batches /\ phase = "backward" /\ phase' = "backward" /\ p \in todo
        /\ todo' = todo \ {p} /\ micro' = micro /\ used' = used /\ cfg' = cfg
        /\ sync' = sync /\ master' = master /\ bad' = bad /\ p \in used[micro]
    BY ZeroAssumption DEF AccumulateGrad, Types, Passing, Batches
  <1>2. Due \in [Params -> SUBSET Batches] /\ due \in [Params -> SUBSET Batches]
    BY <1>1, DueType
  <1>3. Due' = due /\ micro \notin Due[p]
    <2>1. Due'[p] = Due[p] \cup {micro} /\ micro \notin Due[p]
      BY <1>1 DEF Due, Batches
    <2>2. \A q \in Params \ {p} : Due'[q] = Due[q]
      BY <1>1 DEF Due
    <2> QED BY <1>2, <2>1, <2>2 DEF Due
  <1>4. /\ Machine \in MachineType /\ x.bucket = bucket /\ x.store = store
        /\ x.grad = [grad EXCEPT ![p] = Plus(grad[p], One)]
        /\ x = [bucket |-> x.bucket, grad |-> x.grad, store |-> x.store]
    BY DEF Types, Machine
  <1> HIDE DEF x, due
  <1>5. x \in MachineType /\ Counted(x) /\ Holds(x, due)
    <2>1. PICK G \in SUBSET Batches, S \in SUBSET Batches :
            grad[p] = Ind(G) /\ store[p] = Ind(S) /\ G \cap S = {} /\ G \cup S = Due[p]
      BY DEF Holds, Split, Machine
    <2>2. One = Ind({micro}) /\ {micro} \in SUBSET Batches
      BY <1>1 DEF One, Ind, Batches
    <2>3. Plus(grad[p], One) = Ind(G \cup {micro})
      BY <1>3, <2>1, <2>2, PlusInd
    <2>4. x.grad[p] = Ind(G \cup {micro}) /\ \A q \in Params \ {p} : x.grad[q] = grad[q]
      BY <1>4, <2>3 DEF MachineType, Machine
    <2>5. Split(x, due, p)
      <3>1. /\ G \cup {micro} \in SUBSET Batches /\ (G \cup {micro}) \cap S = {}
            /\ (G \cup {micro}) \cup S = due[p]
        BY <1>2, <1>3, <2>1, <2>2 DEF due
      <3> QED BY <1>4, <2>1, <2>4, <3>1 DEF Split
    <2>6. \A q \in Params \ {p} : Split(x, due, q)
      <3>1. \A q \in Params \ {p} : due[q] = Due[q]
        BY <1>2 DEF due
      <3> QED BY <1>4, <2>4, <3>1 DEF Holds, Split, Machine
    <2>7. x.grad \in [Params -> GradType]
      <3>1. Ind(G \cup {micro}) \in GradType
        BY <2>1, <2>2, IndIsGrad
      <3> QED BY <1>4, <2>3, <3>1 DEF MachineType, Machine
    <2>8. x \in MachineType /\ Counted(x)
      BY <1>4, <2>7 DEF MachineType, Counted, Machine
    <2> QED BY <2>5, <2>6, <2>8 DEF Holds
  <1>6. /\ z \in MachineType /\ Counted(z) /\ Holds(z, due)
        /\ Hooked /\ sync => /\ Waits(z, p)
                             /\ \A q \in Params : z.grad[q] # None =>
                                  x.grad[q] # None /\ (Waits(x, q) => Waits(z, q))
    BY <1>2, <1>5, AddToBucketKeeps
  <1>7. Machine' = z
    <2>1. Becomes(z)
      BY DEF AccumulateGrad, x
    <2> QED BY <1>6, <2>1, BecomesMachine
  <1> HIDE DEF z
  <1>8. Types'
    BY <1>1, <1>6, <1>7 DEF Types
  <1>9. Hooked' = Hooked /\ Passing' /\ Agreed'
    BY <1>1 DEF Passing, Hooked, Agreed
  <1>10. Awaited'
    <2> SUFFICES ASSUME Hooked, sync, NEW q \in Params, z.grad[q] # None
                 PROVE  q \in todo' \/ Waits(z, q)
      BY <1>1, <1>7, <1>9 DEF Awaited, Machine
    <2>1. CASE q = p
      BY <1>6, <2>1
    <2>2. CASE q # p
      <3>1. grad[q] # None
        BY <1>4, <1>6, <2>2 DEF MachineType, Machine
      <3>2. q \in todo \/ Waits(Machine, q)
        BY <1>1, <3>1 DEF Awaited
      <3>3. Waits(Machine, q) => Waits(x, q)
        BY <1>4 DEF Waits, Machine
      <3> QED BY <1>1, <1>6, <2>2, <3>2, <3>3
    <2> QED BY <2>1, <2>2
  <1> QED BY <1>3, <1>6, <1>7, <1>8, <1>9, <1>10 DEF Counted, Holds, Split

\* A reduction leaves nothing behind when all that waited was in a bucket.
LEMMA ReduceKeeps ==
  ASSUME IInv, Reduce, todo = {},
         phase = "syncing" \/ (phase = "backward" /\ Hooked /\ sync),
         UNCHANGED <<cfg, micro, sync, used, bad, master>>
  PROVE  IInv'
  <1> USE DEF IInv
  <1> DEFINE y == RunReduction(Machine)
  <1>1. Due \in [Params -> SUBSET Batches] /\ Machine \in MachineType
    BY DueType DEF Types
  <1>2. /\ y \in MachineType /\ Counted(y) /\ Holds(y, Due)
        /\ \A p \in Params : y.grad[p] # None => Machine.grad[p] # None /\ ~Waits(Machine, p)
    BY <1>1, RunReductionKeeps
  <1>3. Machine' = y
    BY <1>2, BecomesMachine DEF Reduce
  <1> HIDE DEF y
  <1>4. phase' \in {"stepping", "loop"} /\ todo' = todo
    BY DEF Reduce
  <1>5. Due' = Due
    BY <1>4 DEF Due
  <1>6. AllNone(y)
    BY <1>2 DEF Awaited, AllNone, Machine
  <1>7. Types'
    BY <1>2, <1>3, <1>4 DEF Types
  <1>8. Passing' /\ Awaited' /\ Agreed'
    BY <1>3, <1>4, <1>6 DEF Passing, Awaited, Agreed, AllNone
  <1> QED BY <1>2, <1>3, <1>5, <1>7, <1>8 DEF Counted, Holds, Split

LEMMA EndBackwardKeeps ==
  ASSUME NoneStranded, IInv, EndBackward
  PROVE  IInv'
  <1> USE DEF IInv
  <1>1. /\ phase = "backward" /\ todo = {}
        /\ UNCHANGED <<cfg, micro, sync, used, bad, master>>
    BY DEF EndBackward
  <1>2. cfg \in Configs /\ sync \in BOOLEAN
    BY DEF Types
  <1>3. CASE sync /\ Hooked
    <2>1. Reduce
      BY <1>2, <1>3 DEF EndBackward
    <2> QED BY <1>1, <1>3, <2>1, ReduceKeeps
  <1>4. CASE ~sync
    <2>1. phase' = "loop" /\ todo' = todo /\ Machine' = Machine
      BY <1>4 DEF EndBackward, Machine
    <2>2. Due' = Due
      BY <1>1, <2>1 DEF Due
    <2>3. ~(Hooked /\ cfg.drops)
      BY <1>2, <1>4, ZeroAssumption DEF NoneStranded, Passing, Hooked
    <2>4. Types'
      BY <1>1, <2>1 DEF Types
    <2>5. Passing' /\ Awaited' /\ Agreed'
      BY <1>1, <2>1, <2>3 DEF Passing, Awaited, Agreed, Hooked
    <2> QED BY <2>1, <2>2, <2>4, <2>5 DEF Counted, Holds, Split
  <1>5. CASE sync /\ ~Hooked
    <2>1. /\ phase' = "syncing" /\ todo' = {p \in Params : grad[p] # None}
          /\ Machine' = Machine
      BY <1>5 DEF EndBackward, Machine
    <2>2. Due' = Due
      BY <1>1, <2>1 DEF Due
    <2>3. Types'
      BY <1>1, <2>1 DEF Types
    <2>4. Passing' /\ Awaited' /\ Agreed'
      BY <1>1, <2>1 DEF Passing, Awaited, Agreed, Machine
    <2> QED BY <2>1, <2>2, <2>3, <2>4 DEF Counted, Holds, Split
  <1> QED BY <1>2, <1>3, <1>4, <1>5

LEMMA SyncGradKeeps ==
  ASSUME IInv, SyncGrad
  PROVE  IInv'
  <1> USE DEF IInv
  <1>1. phase = "syncing" /\ UNCHANGED <<cfg, micro, sync, used, bad, master>>
    BY DEF SyncGrad
  <1>2. CASE todo = {} /\ Reduce
    BY <1>1, <1>2, ReduceKeeps
  <1>3. ASSUME NEW p \in todo, Becomes(AddToBucket(Machine, p)), todo' = todo \ {p},
               UNCHANGED phase
        PROVE  IInv'
    <2> DEFINE z == AddToBucket(Machine, p)
    <2>1. p \in Params /\ Machine \in MachineType /\ Due \in [Params -> SUBSET Batches]
      BY DueType DEF Types
    <2>2. /\ z \in MachineType /\ Counted(z) /\ Holds(z, Due) /\ Waits(z, p)
          /\ \A q \in Params : z.grad[q] # None =>
               Machine.grad[q] # None /\ (Waits(Machine, q) => Waits(z, q))
      BY <2>1, AddToBucketKeeps
    <2>3. Machine' = z
      BY <1>3, <2>2, BecomesMachine
    <2> HIDE DEF z
    <2>4. Due' = Due
      BY <1>1, <1>3 DEF Due
    <2>5. Types'
      BY <1>1, <1>3, <2>2, <2>3 DEF Types
    <2>6. Passing' /\ Agreed'
      BY <1>1, <1>3 DEF Passing, Agreed
    <2>7. Awaited'
      <3>1. grad' = z.grad /\ grad = Machine.grad
        BY <2>3 DEF Machine
      <3>2. \A q \in Params : grad'[q] # None => q \in todo' \/ Waits(z, q)
        BY <1>1, <1>3, <2>2, <3>1 DEF Awaited
      <3> QED BY <2>3, <3>2 DEF Awaited
    <2> QED BY <2>2, <2>3, <2>4, <2>5, <2>6, <2>7 DEF Counted, Holds, Split
  <1> QED BY <1>2, <1>3 DEF SyncGrad

-----------------------------------------------------------------------------
LEMMA StepKeeps == IInv /\ Step => IInv'
  <1> SUFFICES ASSUME IInv, Step PROVE IInv'
    OBVIOUS
  <1> USE DEF IInv
  <1>1. /\ phase = "stepping" /\ phase' = "stepped" /\ Machine' = Machine
        /\ UNCHANGED <<cfg, micro, sync, used, todo, bad>>
    BY DEF Step, Machine
  <1>2. /\ \A r, s \in Ranks : Found(r) = Found(s)
        /\ master' = [r \in Ranks |-> [p \in Params |->
             IF ~Found(r) /\ store[p] # None THEN (master[r][p] + 1) % 3 ELSE master[r][p]]]
    BY DEF Step, Found
  <1>3. Agreed'
    BY <1>2 DEF Agreed
  <1>4. master' \in [Ranks -> [Params -> Nat]]
    <2>1. \A n \in Nat : (n + 1) % 3 \in Nat
      OBVIOUS
    <2> QED BY <1>2, <2>1 DEF Types
  <1>5. Due' = Due
    BY <1>1 DEF Due
  <1>6. Types'
    BY <1>1, <1>4 DEF Types
  <1>7. Passing' /\ Awaited'
    BY <1>1 DEF Passing, Awaited
  <1> QED BY <1>1, <1>3, <1>5, <1>6, <1>7 DEF Counted, Holds, Split

\* Skipped or stepped, zero_grad begins anew.
LEMMA ClearedKeeps ==
  ASSUME IInv, Cleared, phase' = "loop", UNCHANGED <<cfg, sync, todo, master>>
  PROVE  IInv'
  <1> USE DEF IInv
  <1>1. \A p \in Params : Due'[p] = {}
    BY DEF Cleared, Due
  <1>2. /\ Machine' \in MachineType /\ Counted(Machine') /\ Holds(Machine', Due')
        /\ AllNone(Machine')
    <2>1. /\ Machine'.grad = NoGrads /\ Machine'.store = NoGrads
          /\ Machine'.bucket = [b \in Groups |-> EmptyBucket]
          /\ Machine' = [bucket |-> Machine'.bucket, grad |-> Machine'.grad,
                         store |-> Machine'.store]
      BY DEF Cleared, Machine
    <2> QED BY <1>1, <2>1, ClearedHolds
  <1>3. Types'
    BY <1>2, ZeroAssumption DEF Cleared, Types, Batches
  <1>4. Passing' /\ Awaited' /\ Agreed'
    BY <1>2 DEF Passing, Awaited, Agreed
  <1> QED BY <1>2, <1>3, <1>4 DEF Counted, Holds, Split

LEMMA NextKeeps == NoneStranded /\ IInv /\ [Next]_vars => IInv'
  <1> SUFFICES ASSUME NoneStranded, IInv, [Next]_vars PROVE IInv'
    OBVIOUS
  <1>1. CASE Forward
    BY <1>1, ForwardKeeps
  <1>2. CASE Backward
    BY <1>2, BackwardKeeps
  <1>3. ASSUME NEW p \in Params, AccumulateGrad(p) PROVE IInv'
    BY <1>3, AccumulateKeeps
  <1>4. CASE EndBackward
    BY <1>4, EndBackwardKeeps
  <1>5. CASE SyncGrad
    BY <1>5, SyncGradKeeps
  <1>6. CASE Step
    BY <1>6, StepKeeps
  <1>7. CASE Skip \/ ZeroGrad
    BY <1>7, ClearedKeeps DEF Skip, ZeroGrad
  <1>8. CASE UNCHANGED vars
    <2>1. /\ Machine' = Machine /\ Due' = Due /\ Hooked' = Hooked
          /\ UNCHANGED <<cfg, phase, micro, sync, used, todo, grad, bad, master>>
      BY <1>8 DEF vars, Machine, Due, Hooked
    <2>2. Types' /\ Passing' /\ Awaited' /\ Agreed'
      BY <2>1 DEF IInv, Types, Passing, Awaited, Agreed
    <2>3. Counted(Machine)' /\ Holds(Machine, Due)'
      BY <2>1 DEF IInv, Counted, Holds, Split
    <2> QED BY <2>2, <2>3 DEF IInv
  <1> QED BY <1>1, <1>2, <1>3, <1>4, <1>5, <1>6, <1>7, <1>8 DEF Next

\* The optimizer's invariant: each microbatch that is due is in param.grad or in
\* the store, and once; what is in param.grad is yet to be reduced.
THEOREM Invariant ==
  ASSUME NoneStranded
  PROVE  Spec => []IInv
  <1> QED BY InitIInv, NextKeeps, PTL DEF Spec

\* Whatever the sizes, the groups, the order of the hooks and the microbatches
\* that are synchronised, a step has all of the gradients, each of them once.
THEOREM StepHasAllGradients ==
  ASSUME NoneStranded
  PROVE  Spec => []GradsComplete
  <1>1. IInv => GradsComplete
    <2> SUFFICES ASSUME IInv, phase = "stepping", NEW p \in Params
                 PROVE  store[p] = LET in == {i \in 1 .. micro : p \in used[i]}
                                   IN IF in = {} THEN None
                                      ELSE [i \in 1 .. Microbatches |-> IF i \in in THEN 1 ELSE 0]
      BY DEF GradsComplete
    <2>1. PICK G \in SUBSET Batches, S \in SUBSET Batches :
            grad[p] = Ind(G) /\ store[p] = Ind(S) /\ G \cup S = Due[p]
      BY DEF IInv, Holds, Split, Machine
    <2>2. G = {}
      BY <2>1, IndIsGrad DEF IInv, Passing, AllNone, Machine
    <2>3. S = {i \in 1 .. micro : p \in used[i]}
      BY <2>1, <2>2 DEF Due
    <2> QED BY <2>1, <2>3 DEF Ind, Batches
  <1> QED BY <1>1, Invariant, PTL

\* The ranks have the same weights after every step, and no gradient that
\* overflowed on any of them is in one.
THEOREM RanksStepTogether ==
  ASSUME NoneStranded
  PROVE  Spec => StepsTogether
  <1>1. ASSUME IInv, IInv', [Next]_vars
        PROVE  [master' # master =>
                 /\ \A r, s \in Ranks : master'[r] = master'[s]
                 /\ \A b \in bad : store[b[2]] = None \/ store[b[2]][b[1]] = 0]_vars
    <2> SUFFICES ASSUME master' # master, NEW b \in bad
                 PROVE  store[b[2]] = None \/ store[b[2]][b[1]] = 0
      BY <1>1 DEF IInv, Agreed
    <2>1. Step
      BY <1>1 DEF Next, Forward, Backward, AccumulateGrad, EndBackward, SyncGrad, Skip, ZeroGrad,
                  vars
    <2>2. PICK i \in Batches, p \in Params, r \in Ranks : b = <<i, p, r>>
      BY <1>1 DEF IInv, Types
    <2>3. store[p] \in GradType
      BY <1>1 DEF IInv, Types, Machine, MachineType
    <2>4. ~LocalOverflow(r)
      BY <2>1 DEF Step, Found
    <2>5. store[p] = None \/ ~(store[p][i] > 0)
      BY <2>2, <2>4 DEF LocalOverflow, Batches
    <2>6. store[p] = None \/ store[p][i] \in Nat
      BY <2>2, <2>3 DEF GradType
    <2>7. b[1] = i /\ b[2] = p
      BY <2>2
    <2> QED BY <2>5, <2>6, <2>7
  <1> QED BY <1>1, Invariant, PTL DEF Spec, StepsTogether

-----------------------------------------------------------------------------
(* The parameters a forward pass runs on.                                  *)

LEMMA ContainsConcat ==
  ASSUME NEW S, NEW s \in Seq(S), NEW t \in Seq(S), NEW p
  PROVE  Contains(s \o t, p) <=> Contains(s, p) \/ Contains(t, p)
<1>1. /\ Len(s \o t) = Len(s) + Len(t) /\ Len(s) \in Nat /\ Len(t) \in Nat
      /\ \A i \in 1 .. Len(s) : (s \o t)[i] = s[i]
      /\ \A i \in Len(s) + 1 .. Len(s) + Len(t) : (s \o t)[i] = t[i - Len(s)]
  BY ConcatFacts
<1>2. ASSUME Contains(s \o t, p) PROVE Contains(s, p) \/ Contains(t, p)
  <2>1. PICK i \in 1 .. Len(s) + Len(t) : (s \o t)[i] = p
    BY <1>1, <1>2 DEF Contains
  <2>2. i \in 1 .. Len(s) \/ (i \in Len(s) + 1 .. Len(s) + Len(t) /\ i - Len(s) \in 1 .. Len(t))
    BY <1>1
  <2> QED BY <1>1, <2>1, <2>2 DEF Contains
<1>3. ASSUME Contains(s, p) PROVE Contains(s \o t, p)
  <2>1. PICK i \in 1 .. Len(s) : s[i] = p
    BY <1>3 DEF Contains
  <2>2. i \in 1 .. Len(s) + Len(t)
    BY <1>1
  <2> QED BY <1>1, <2>1, <2>2 DEF Contains
<1>4. ASSUME Contains(t, p) PROVE Contains(s \o t, p)
  <2>1. PICK i \in 1 .. Len(t) : t[i] = p
    BY <1>4 DEF Contains
  <2>2. /\ Len(s) + i \in Len(s) + 1 .. Len(s) + Len(t) /\ Len(s) + i \in 1 .. Len(s) + Len(t)
        /\ (Len(s) + i) - Len(s) = i
    BY <1>1
  <2> QED BY <1>1, <2>1, <2>2 DEF Contains
<1> QED BY <1>2, <1>3, <1>4

\* The loop over the param_groups comes by every parameter.
LEMMA InOrderHasAll == InOrder \in Seq(Params) /\ \A p \in Params : Contains(InOrder, p)
<1> DEFINE f(n) == FlattenSeq(SubSeq(Order, 1, n))
           T == {n \in 0 .. Len(Order) :
                   /\ f(n) \in Seq(Params)
                   /\ \A k \in 1 .. n, p \in Params : Contains(Order[k], p) => Contains(f(n), p)}
<1>1. Order \in Seq(Seq(Params)) /\ Len(Order) \in Nat
  BY ZeroAssumption
<1>2. 0 \in T
  <2>1. FlattenSeq(SubSeq(Order, 1, 0)) = <<>>
    <3>1. SubSeq(Order, 1, 0) = <<>>
      BY <1>1
    <3> QED BY <3>1 DEF FlattenSeq
  <2>2. f(0) \in Seq(Params)
    <3>1. <<>> \in Seq(Params)
      OBVIOUS
    <3>2. f(0) = <<>>
      BY <2>1
    <3> QED BY <3>1, <3>2
  <2>3. 0 \in 0 .. Len(Order) /\ 1 .. 0 = {}
    BY <1>1
  <2> HIDE DEF f
  <2> QED BY <2>2, <2>3
<1>3. ASSUME NEW n \in 0 .. Len(Order) - 1, n \in T PROVE n + 1 \in T
  <2>1. /\ n + 1 \in 0 .. Len(Order) /\ Order[n + 1] \in Seq(Params)
        /\ \A k \in 1 .. n + 1 : k = n + 1 \/ k \in 1 .. n
    BY <1>1
  <2>2. f(n + 1) = f(n) \o Order[n + 1]
    BY <1>1, FlattenNext
  <2>3. f(n) \in Seq(Params)
        /\ \A k \in 1 .. n, p \in Params : Contains(Order[k], p) => Contains(f(n), p)
    BY <1>3
  <2> HIDE DEF f
  <2>4. f(n + 1) \in Seq(Params)
    BY <2>1, <2>2, <2>3, ConcatFacts
  <2>5. ASSUME NEW k \in 1 .. n + 1, NEW p \in Params, Contains(Order[k], p)
        PROVE  Contains(f(n + 1), p)
    <3>1. Contains(f(n), p) \/ Contains(Order[n + 1], p)
      BY <2>1, <2>3, <2>5
    <3> HIDE DEF T
    <3> DEFINE l == f(n)
               m == Order[n + 1]
    <3>2. l \in Seq(Params) /\ m \in Seq(Params) /\ f(n + 1) = l \o m
      BY <2>1, <2>2, <2>3
    <3> HIDE DEF l, m
    <3>3. Contains(l \o m, p) <=> Contains(l, p) \/ Contains(m, p)
      BY <3>2, ContainsConcat
    <3> QED BY <3>1, <3>2, <3>3 DEF l, m
  <2> QED BY <2>1, <2>4, <2>5
<1>4. Len(Order) \in T
  <2> HIDE DEF T
  <2>1. 0 .. Len(Order) \subseteq T
    BY <1>1, <1>2, <1>3, UpTo
  <2> QED BY <1>1, <2>1
<1>5. f(Len(Order)) = InOrder
  <2>1. SubSeq(Order, 1, Len(Order)) = Order
    <3> DEFINE o == SubSeq(Order, 1, Len(Order))
    <3>1. /\ o \in Seq(Seq(Params)) /\ Len(o) = Len(Order)
          /\ \A i \in 1 .. Len(Order) : o[i] = Order[i]
      BY <1>1
    <3> HIDE DEF o
    <3>2. o = Order
      BY <1>1, <3>1, SameSeq
    <3> QED BY <3>2 DEF o
  <2> QED BY <2>1 DEF InOrder
<1>6. DOMAIN Order = 1 .. Len(Order)
  BY <1>1
<1> QED BY <1>4, <1>5, <1>6, ZeroAssumption

LEMMA ShardSizeType ==
  ASSUME NEW p \in Params
  PROVE  ShardSize(p) \in Int
<1>1. World \in Nat \ {0}
  BY ZeroAssumption, FS_CardinalityType, FS_EmptySet DEF World
<1>2. \A m \in Int : m \div World \in Int
  BY <1>1
<1>3. Numel[p] + Padding(p) \in Int
  BY CountsUp
<1> QED BY <1>2, <1>3 DEF ShardSize

Shards == [done : SUBSET Params, in : SUBSET Params, size : Int]

\* One more parameter in the bucket of its process group.
PackedNext(ps, g, i, x) ==
  LET p == InOrder[i]
      size == ShardSize(p)
      full == x.size + size > BucketSize
      y == IF full THEN [done |-> x.done \cup x.in, in |-> {}, size |-> 0] ELSE x
  IN IF p \notin ps \/ GroupOf[p] # g THEN x
     ELSE IF size > BucketSize THEN [x EXCEPT !.done = @ \cup {p}]
     ELSE [y EXCEPT !.in = @ \cup {p}, !.size = @ + size]

LEMMA PackedNextAdds ==
  ASSUME NEW ps \in SUBSET Params, NEW g, NEW i \in 1 .. Len(InOrder), NEW x \in Shards
  PROVE  /\ PackedNext(ps, g, i, x) \in Shards
         /\ PackedNext(ps, g, i, x).done \cup PackedNext(ps, g, i, x).in =
              x.done \cup x.in \cup {q \in ps : q = InOrder[i] /\ GroupOf[q] = g}
<1> DEFINE p == InOrder[i]
           size == ShardSize(p)
<1>1. p \in Params
  BY InOrderHasAll
<1>2. size \in Int
  BY <1>1, ShardSizeType
<1> DEFINE y == PackedNext(ps, g, i, x)
           full == [done |-> x.done \cup x.in, in |-> {}, size |-> 0]
           On(z) == [z EXCEPT !.in = @ \cup {p}, !.size = @ + size]
<1>3. y = IF p \notin ps \/ GroupOf[p] # g THEN x
          ELSE IF size > BucketSize THEN [x EXCEPT !.done = @ \cup {p}]
          ELSE On(IF x.size + size > BucketSize THEN full ELSE x)
  BY ZenonT(30) DEF PackedNext
<1>4. CASE p \notin ps \/ GroupOf[p] # g
  <2> HIDE DEF p, size, y, full, On
  <2>1. y = x
    BY <1>3, <1>4
  <2> QED BY <1>4, <2>1 DEF p, y
<1>5. CASE p \in ps /\ GroupOf[p] = g
  <2>1. {q \in ps : q = p /\ GroupOf[q] = g} = {p}
    BY <1>5
  <2>2. /\ x.done \in SUBSET Params /\ x.in \in SUBSET Params /\ x.size \in Int
        /\ x = [done |-> x.done, in |-> x.in, size |-> x.size]
    BY DEF Shards
  <2>3. full \in Shards /\ full.done \cup full.in = x.done \cup x.in
    BY <2>2 DEF Shards
  <2> HIDE DEF p, size, y, full
  <2>4. ASSUME NEW z \in Shards, z.done \cup z.in = x.done \cup x.in
        PROVE  On(z) \in Shards /\ On(z).done \cup On(z).in = x.done \cup x.in \cup {p}
    <3> DEFINE d == z.in \cup {p}
               n == z.size + size
    <3>1. On(z) = [z EXCEPT !.in = d, !.size = n]
      OBVIOUS
    <3>2. d \in SUBSET Params /\ n \in Int /\ z.done \cup d = x.done \cup x.in \cup {p}
      BY <1>1, <1>2, <2>4 DEF Shards
    <3> HIDE DEF On, d, n
    <3>3. /\ [z EXCEPT !.in = d, !.size = n] \in Shards
          /\ [z EXCEPT !.in = d, !.size = n].done = z.done
          /\ [z EXCEPT !.in = d, !.size = n].in = d
      BY <3>2 DEF Shards
    <3> QED BY <3>1, <3>2, <3>3
  <2>5. CASE size > BucketSize
    <3>1. y = [done |-> x.done \cup {p}, in |-> x.in, size |-> x.size]
      BY <1>3, <1>5, <2>2, <2>5
    <3> QED BY <1>1, <2>1, <2>2, <3>1 DEF Shards, p, y
  <2>6. CASE ~ size > BucketSize
    <3> HIDE DEF On
    <3>1. y = On(full) \/ y = On(x)
      BY <1>3, <1>5, <2>6
    <3> QED BY <2>1, <2>3, <2>4, <3>1 DEF p, y
  <2> QED BY <2>5, <2>6
<1> QED BY <1>4, <1>5

\* Whatever the sizes, and wherever the buckets end, no shard is left over.
LEMMA PackedHas ==
  ASSUME NEW ps \in SUBSET Params, NEW g
  PROVE  Packed(ps, g).done \cup Packed(ps, g).in = {p \in ps : GroupOf[p] = g}
<1> DEFINE n == Len(InOrder)
           b == [done |-> {}, in |-> {}, size |-> 0]
           F == [i \in 1 .. n |-> [x \in Shards |-> PackedNext(ps, g, i, x)]]
           Equation(x) == x = [i \in 0 .. n |-> IF i = 0 THEN b ELSE PackedNext(ps, g, i, x[i - 1])]
           x == CHOOSE x : Equation(x)
<1>1. n \in Nat /\ b \in Shards
  BY InOrderHasAll DEF Shards
<1>2. F \in [1 .. n -> [Shards -> Shards]]
  BY PackedNextAdds
<1>3. PICK h \in [0 .. n -> Shards] :
        /\ h[0] = b /\ \A i \in 1 .. n : h[i] = PackedNext(ps, g, i, h[i - 1])
  <2>1. \A i \in 1 .. n, y \in Shards : F[i][y] = PackedNext(ps, g, i, y)
    OBVIOUS
  <2> HIDE DEF F, b, n
  <2>2. PICK h : h \in Runs(Shards, b, n, F)
    BY <1>1, <1>2, RecursionExists
  <2>3. h \in [0 .. n -> Shards] /\ h[0] = b /\ \A i \in 1 .. n : h[i] = F[i][h[i - 1]]
    BY <2>2 DEF Runs
  <2>4. ASSUME NEW i \in 1 .. n PROVE h[i] = PackedNext(ps, g, i, h[i - 1])
    <3>1. i - 1 \in 0 .. n
      BY <1>1
    <3> QED BY <2>1, <2>3, <3>1
  <2> QED BY <2>3, <2>4
<1>4. Equation(h)
  <2> DEFINE e == [i \in 0 .. n |-> IF i = 0 THEN b ELSE PackedNext(ps, g, i, h[i - 1])]
  <2>1. ASSUME NEW i \in 0 .. n PROVE h[i] = e[i]
    <3> HIDE DEF b, n
    <3>1. i = 0 \/ i \in 1 .. n
      BY <1>1
    <3> QED BY <1>3, <3>1
  <2>2. h = [i \in 0 .. n |-> h[i]] /\ e = [i \in 0 .. n |-> e[i]]
    OBVIOUS
  <2> HIDE DEF e
  <2> QED BY <2>1, <2>2 DEF e
<1>5. Equation(x)
  <2> HIDE DEF Equation
  <2> QED BY <1>4
<1>6. Packed(ps, g) = x[n]
  BY DEF Packed, PackedNext
<1> HIDE DEF x
<1>7. x[0] = b /\ \A i \in 1 .. n : x[i] = PackedNext(ps, g, i, x[i - 1])
  <2>1. ASSUME NEW i \in 0 .. n PROVE x[i] = IF i = 0 THEN b ELSE PackedNext(ps, g, i, x[i - 1])
    BY <1>5
  <2>2. 0 \in 0 .. n /\ \A i \in 1 .. n : i \in 0 .. n /\ i # 0
    BY <1>1
  <2> HIDE DEF b, n, Equation
  <2> QED BY <2>1, <2>2
<1> HIDE DEF Equation
<1> DEFINE Had(i) == {p \in ps : GroupOf[p] = g /\ \E j \in 1 .. i : InOrder[j] = p}
           T == {i \in 0 .. n : x[i] \in Shards /\ x[i].done \cup x[i].in = Had(i)}
<1>8. 0 \in T
  BY <1>1, <1>7
<1>9. ASSUME NEW i \in 0 .. n - 1, i \in T PROVE i + 1 \in T
  <2>1. i + 1 \in 1 .. n /\ i + 1 \in 0 .. n /\ (i + 1) - 1 = i /\ i \in Nat
    BY <1>1
  <2>2. x[i] \in Shards /\ x[i].done \cup x[i].in = Had(i)
    BY <1>9
  <2>3. x[i + 1] = PackedNext(ps, g, i + 1, x[i])
    BY <1>7, <2>1
  <2>4. /\ x[i + 1] \in Shards
        /\ x[i + 1].done \cup x[i + 1].in =
             Had(i) \cup {q \in ps : q = InOrder[i + 1] /\ GroupOf[q] = g}
    <3> HIDE DEF Had, b, T
    <3> QED BY <2>1, <2>2, <2>3, PackedNextAdds
  <2>5. Had(i + 1) = Had(i) \cup {q \in ps : q = InOrder[i + 1] /\ GroupOf[q] = g}
    <3>1. \A j : j \in 1 .. i + 1 <=> j = i + 1 \/ j \in 1 .. i
      BY <2>1
    <3> QED BY <3>1
  <2> QED BY <2>1, <2>4, <2>5
<1>10. n \in T
  <2>1. 0 .. n \subseteq T
    <3> HIDE DEF T, n
    <3> QED BY <1>1, <1>8, <1>9, UpTo
  <2> QED BY <1>1, <2>1
<1>11. Had(n) = {p \in ps : GroupOf[p] = g}
  BY InOrderHasAll DEF Contains
<1> QED BY <1>6, <1>10, <1>11

\* Gathered in buckets or by handles: every parameter that was updated.
LEMMA GatheredIs ==
  ASSUME NEW ps \in SUBSET Params
  PROVE  Gathered(ps) = ps
<1>1. \A g : Packed(ps, g).done \cup Packed(ps, g).in = {p \in ps : GroupOf[p] = g}
  BY PackedHas
<1>2. \A p \in ps : GroupOf[p] \in Groups
  BY ZeroAssumption
<1>3. Gathered(ps) = UNION {{p \in ps : GroupOf[p] = g} : g \in Groups}
  BY <1>1 DEF Gathered
<1> QED BY <1>2, <1>3

\* Every shard of the working parameters is its rank's master copy, and the pass
\* has waited for what it uses.
Fresh ==
  /\ micro \in 0 .. Microbatches /\ used \in [Batches -> SUBSET Params]
  /\ master \in [Ranks -> [Params -> Nat]] /\ working \in [Params -> [Ranks -> Nat]]
  /\ \A p \in Params, r, s \in Ranks : working[p][r] = master[s][p]
  /\ phase = "computing" => used[micro] \in SUBSET Params /\ used[micro] \cap gathers = {}

LEMMA InitFresh == Init => Fresh
  BY ZeroAssumption DEF Init, Fresh, Batches

LEMMA StepFresh ==
  ASSUME Fresh, Step
  PROVE  Fresh'
<1>1. Working \in SUBSET Params
  BY DEF Working
<1>2. \A r \in Ranks : ~Found(r)
  BY DEF Step, Found
<1>3. /\ master' = [r \in Ranks |-> [p \in Params |->
                      IF p \in Working THEN (master[r][p] + 1) % 3 ELSE master[r][p]]]
      /\ working' = [p \in Params |-> IF p \in Working THEN [r \in Ranks |-> master'[r][p]]
                                      ELSE working[p]]
  BY <1>1, <1>2, GatheredIs DEF Step, Working
<1>4. master' \in [Ranks -> [Params -> Nat]]
  <2>1. \A n \in Nat : (n + 1) % 3 \in Nat
    OBVIOUS
  <2> QED BY <1>3, <2>1 DEF Fresh
<1>5. working' \in [Params -> [Ranks -> Nat]]
  BY <1>3, <1>4 DEF Fresh
<1>6. ASSUME NEW p \in Params, NEW r \in Ranks, NEW s \in Ranks
      PROVE  working'[p][r] = master'[s][p]
  <2>1. working[p][r] = master[s][p] /\ working[p][r] = master[r][p]
    BY DEF Fresh
  <2>2. master'[s][p] = IF p \in Working THEN (master[s][p] + 1) % 3 ELSE master[s][p]
    BY <1>3
  <2>3. master'[r][p] = IF p \in Working THEN (master[r][p] + 1) % 3 ELSE master[r][p]
    BY <1>3
  <2>4. working'[p][r] = IF p \in Working THEN master'[r][p] ELSE working[p][r]
    BY <1>3
  <2> QED BY <2>1, <2>2, <2>3, <2>4
<1>7. micro' = micro /\ used' = used /\ phase' = "stepped"
  BY DEF Step
<1> QED BY <1>4, <1>5, <1>6, <1>7 DEF Fresh

LEMMA NextFresh == Fresh /\ [Next]_vars => Fresh'
<1> SUFFICES ASSUME Fresh, [Next]_vars PROVE Fresh'
  OBVIOUS
<1>1. CASE Forward
  <2>1. /\ micro \in Nat /\ micro + 1 \in Batches /\ micro' = micro + 1
        /\ UNCHANGED <<master, working>> /\ micro' \in 0 .. Microbatches
    BY <1>1, ZeroAssumption DEF Forward, Fresh, Batches
  <2>2. PICK S \in SUBSET Params : used' = [used EXCEPT ![micro'] = S] /\ gathers' = gathers \ S
    BY <1>1 DEF Forward, Passes
  <2>3. /\ used' \in [Batches -> SUBSET Params] /\ used'[micro'] = S
        /\ used'[micro'] \cap gathers' = {}
    BY <2>1, <2>2 DEF Fresh
  <2> QED BY <2>1, <2>3 DEF Fresh
<1>2. CASE Step
  BY <1>2, StepFresh
<1>3. CASE Skip \/ ZeroGrad
  <2>1. /\ micro' = 0 /\ used' = [i \in Batches |-> {}] /\ phase' = "loop"
        /\ UNCHANGED <<master, working>>
    BY <1>3 DEF Skip, ZeroGrad, Cleared, Batches
  <2> QED BY <2>1, ZeroAssumption DEF Fresh
<1>4. ASSUME UNCHANGED <<micro, used, master, working, gathers>>,
             phase' # "computing" \/ phase' = phase
      PROVE  Fresh'
  BY <1>4 DEF Fresh
<1>5. CASE Backward \/ (\E p \in Params : AccumulateGrad(p)) \/ UNCHANGED vars
  BY <1>4, <1>5 DEF Backward, AccumulateGrad, vars
<1>6. CASE EndBackward \/ SyncGrad
  BY <1>4, <1>6 DEF EndBackward, SyncGrad, Reduce
<1> QED BY <1>1, <1>2, <1>3, <1>5, <1>6 DEF Next

\* Whatever the sizes, the process groups, the passes that leave parameters out
\* and the overflows, a forward pass runs on the shards of the last step taken.
THEOREM ForwardIsOnCurrent == Spec => []ForwardOnCurrent
<1>1. Fresh => ForwardOnCurrent
  BY DEF Fresh, ForwardOnCurrent
<1> QED BY <1>1, InitFresh, NextFresh, PTL DEF Spec
===============================================================================
