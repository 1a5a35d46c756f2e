-------------------------- MODULE ZeroBubbleRLProofs --------------------------
(***************************************************************************)
(* Proofs about ZeroBubbleRL, for any producers, ranks and sizes, any      *)
(* number of episodes, and whatever is filtered out: the queue's counter,  *)
(* the order in which every rank reads and trains, and the way of the      *)
(* weights from the consumer to the producers' models.                     *)
(***************************************************************************)
EXTENDS ZeroBubbleRL, DataLemmas, FiniteSetTheorems, TLAPS

Rollouts     == [1 .. MicrobatchSize -> BOOLEAN]
DataType     == [queue : Seq([uid : Nat, reads : Nat]), size : Int]
SignalType   == [consumer : {"none", "ready", "not ready", "terminate"},
                 producer : [Producers -> {"none", "ready", "not ready"}],
                 step : Nat, version : Nat]
ConsumerType == [pc : {"fetch", "train", "offload", "terminate", "done"}, uid : Nat \ {0},
                 received : Nat, episode : Nat, buffer : Seq(BOOLEAN)]
TrainerType  == [count : Nat, step : Nat, sync : BOOLEAN, trained : Nat]
ThreadsType  == [waking : SUBSET Nat, sending : SUBSET Nat, busy : SUBSET Nat]
ProducerType == [pc : {"sync", "evaluate", "pick up", "roll out", "load", "done"}, n : Nat,
                 latest : Int, version : Nat, started : BOOLEAN,
                 thread : {"none", "signal", "receive"}, cpu : SUBSET Nat, model : SUBSET Nat]
DistributorType ==
  [pc : {"poll", "barrier", "clear", "receive", "receiving", "answer", "send", "publish", "done"},
   asked : BOOLEAN, ending : BOOLEAN, version : Nat, last : Nat, weights : SUBSET Nat]

Types ==
  /\ data \in DataType /\ made \in Seq(Rollouts) /\ signal \in SignalType
  /\ consumer \in [Ranks -> ConsumerType] /\ trainer \in TrainerType /\ cpu \in Nat
  /\ threads \in ThreadsType /\ producer \in [Producers -> ProducerType]
  /\ distributor \in [Producers -> DistributorType]

\* Nothing is in the queue, or read, that was not made.
Known ==
  /\ \A i \in DOMAIN data.queue : data.queue[i].uid \in 1 .. Len(made)
  /\ \A r \in Ranks : consumer[r].uid <= Len(made) + 1

RollingOut == {p \in Producers : producer[p].pc = "roll out"}
Counted ==
  /\ data.size = MicrobatchSize * (Len(data.queue) + Cardinality(RollingOut))
  /\ data.size < BufferLimit + MicrobatchSize

\* The distributors count together; what they announce, and what a producer
\* acts on, is not ahead of them.
Announced ==
  /\ \A d, e \in Producers : distributor[d].version = distributor[e].version
  /\ \A p \in Producers :
       /\ producer[p].version <= signal.version
       /\ signal.version <= distributor[p].version
       /\ distributor[p].version > 0 => distributor[p].weights # {}
       /\ distributor[p].pc = "receiving" => distributor[p].weights # {}

\* No copy of the weights is newer than the consumer's on the CPU, and each is
\* as new as what it is to replace.
Aged ==
  /\ cpu <= trainer.step
  /\ \A p \in Producers :
       /\ \A v \in distributor[p].weights \cup producer[p].cpu \cup producer[p].model : v <= cpu
       /\ producer[p].model # {}
       /\ NoOlder(distributor[p].weights, producer[p].cpu)
       /\ NoOlder(distributor[p].weights, producer[p].model)
       /\ NoOlder(producer[p].cpu, producer[p].model)

-----------------------------------------------------------------------------
(* Operators.                                                              *)

\* Every step that does something is one of these.
LEMMA Steps ==
  ASSUME [Next]_vars
  PROVE  \/ UNCHANGED vars
         \/ Train \/ Offload \/ WakeDistributors \/ Barrier \/ BeginBroadcast \/ EndBroadcast
         \/ Evaluate
         \/ \E r \in Ranks : Fetch(r) \/ Terminate(r)
         \/ \E p \in Producers :
              \/ Look(p) \/ PickUp(p) \/ RollOut(p) \/ Load(p) \/ AskForWeights(p)
              \/ Poll(p) \/ Clear(p) \/ ClearProducer(p) \/ Answer(p) \/ Publish(p)
  BY DEF Next, ConsumerNext, Broadcast, ProducerNext, DistributorNext

LEMMA SizesAreNat ==
  /\ MicrobatchSize \in Nat \ {0} /\ MinibatchSize \in Nat \ {0} /\ BatchSize \in Nat \ {0}
  /\ BufferLimit \in Nat \ {0} /\ Episodes \in Nat \ {0} /\ Batches \in Nat \ {0}
  /\ PerUpdate \in Nat \ {0} /\ EvalInterval \in Nat \ {0}
  /\ Cardinality(Ranks) \in Nat \ {0} /\ Global(MinibatchSize) \in Nat \ {0}
  /\ Global(BatchSize) \in Nat \ {0} /\ LastBatch \in Nat /\ Total \in Nat
<1>1. /\ MicrobatchSize \in Nat \ {0} /\ MinibatchSize \in Nat \ {0} /\ BatchSize \in Nat \ {0}
      /\ BufferLimit \in Nat \ {0} /\ Episodes \in Nat \ {0} /\ Batches \in Nat \ {0}
      /\ PerUpdate \in Nat \ {0} /\ EvalInterval \in Nat \ {0}
  BY SizesAssumption
<1>2. Cardinality(Ranks) \in Nat \ {0} /\ Cardinality(Producers) \in Nat
  BY SizesAssumption, FS_CardinalityType, FS_EmptySet
<1>3. \A m, n \in Nat \ {0} : m * n \in Nat \ {0}
  OBVIOUS
<1>4. \A m, n \in Nat : m * n \in Nat
  OBVIOUS
<1>5. Global(MinibatchSize) \in Nat \ {0} /\ Global(BatchSize) \in Nat \ {0}
  BY <1>1, <1>2, <1>3 DEF Global
<1>6. Episodes * Batches \in Nat \ {0} /\ Batches * MicrobatchSize \in Nat \ {0}
  BY <1>1, <1>3
<1>7. LastBatch \in Nat
  BY <1>6 DEF LastBatch
<1>8. Total \in Nat
  BY <1>2, <1>4, <1>6 DEF Total
<1> QED BY <1>1, <1>2, <1>5, <1>7, <1>8


\* A queue without one of its elements.
LEMMA RemoveAtIs ==
  ASSUME NEW S, NEW q \in Seq(S), NEW i \in 1 .. Len(q)
  PROVE  /\ RemoveAt(q, i) \in Seq(S) /\ Len(RemoveAt(q, i)) = Len(q) - 1
         /\ \A k \in 1 .. Len(q) - 1 : RemoveAt(q, i)[k] = IF k < i THEN q[k] ELSE q[k + 1]
<1> DEFINE a == SubSeq(q, 1, i - 1)
           b == SubSeq(q, i + 1, Len(q))
<1>1. a \in Seq(S) /\ Len(a) = i - 1 /\ \A k \in 1 .. i - 1 : a[k] = q[k]
  OBVIOUS
<1>2. b \in Seq(S) /\ Len(b) = Len(q) - i /\ \A k \in 1 .. Len(q) - i : b[k] = q[i + k]
  OBVIOUS
<1> HIDE DEF a, b
<1>3. /\ a \o b \in Seq(S) /\ Len(a \o b) = Len(q) - 1
      /\ \A k \in 1 .. Len(q) - 1 : (a \o b)[k] = IF k < i THEN a[k] ELSE b[k - i + 1]
  <2>1. a \o b \in Seq(S) /\ Len(a \o b) = Len(a) + Len(b)
    BY <1>1, <1>2, ConcatFacts
  <2>2. \A k \in 1 .. Len(a) + Len(b) : (a \o b)[k] = IF k <= Len(a) THEN a[k] ELSE b[k - Len(a)]
    BY <1>1, <1>2, ConcatFacts
  <2>3. \A k \in 1 .. Len(q) - 1 : (k < i <=> k <= Len(a)) /\ k - Len(a) = k - i + 1
    BY <1>1
  <2>4. Len(a) + Len(b) = Len(q) - 1
    BY <1>1, <1>2
  <2> QED BY <2>1, <2>2, <2>3, <2>4
<1>4. ASSUME NEW k \in 1 .. Len(q) - 1, ~ k < i PROVE b[k - i + 1] = q[k + 1]
  <2>1. k - i + 1 \in 1 .. Len(q) - i /\ i + (k - i + 1) = k + 1
    BY <1>4
  <2> QED BY <2>1, <1>2
<1>5. RemoveAt(q, i) = a \o b
  BY DEF RemoveAt, a, b
<1>6. ASSUME NEW k \in 1 .. Len(q) - 1
      PROVE  (a \o b)[k] = IF k < i THEN q[k] ELSE q[k + 1]
  <2>1. CASE k < i
    BY <2>1, <1>1, <1>3
  <2>2. CASE ~ k < i
    BY <2>2, <1>3, <1>4
  <2> QED BY <2>1, <2>2
<1> HIDE DEF RemoveAt
<1> QED BY <1>3, <1>5, <1>6

\* A read by one rank: of the queue either a counter changes or a batch goes.
LEMMA ReadIs ==
  ASSUME data \in DataType, NEW i \in DOMAIN data.queue
  PROVE  LET d == DataAfterRead(i) IN
         /\ d.queue \in Seq([uid : Nat, reads : Nat])
         /\ \A k \in DOMAIN d.queue : \E j \in DOMAIN data.queue : d.queue[k].uid = data.queue[j].uid
         /\ d = [queue |-> d.queue, size |-> d.size]
         /\ \/ d.size = data.size /\ Len(d.queue) = Len(data.queue)
            \/ d.size = data.size - MicrobatchSize /\ Len(d.queue) = Len(data.queue) - 1
<1> DEFINE E == [uid : Nat, reads : Nat]
           q == data.queue
<1>1. q \in Seq(E) /\ i \in 1 .. Len(q) /\ q[i] \in E /\ data = [queue |-> q, size |-> data.size]
  <2>1. q \in Seq(E) /\ data = [queue |-> q, size |-> data.size] /\ i \in DOMAIN q
    BY DEF DataType
  <2> HIDE DEF q, E
  <2> QED BY <2>1
<1>2. CASE q[i].reads + 1 < Cardinality(Ranks)
  <2> DEFINE e == [uid |-> q[i].uid, reads |-> q[i].reads + 1]
             r == [q EXCEPT ![i] = e]
  <2>1. e \in E
    BY <1>1
  <2>2. [q[i] EXCEPT !.reads = @ + 1] = e
    BY <1>1
  <2>3. DataAfterRead(i) = [data EXCEPT !.queue[i].reads = @ + 1]
    BY <1>2 DEF DataAfterRead
  <2>4. DataAfterRead(i) = [queue |-> r, size |-> data.size]
    BY <1>1, <2>2, <2>3
  <2> HIDE DEF e
  <2>5. r \in Seq(E) /\ Len(r) = Len(q) /\ \A k \in 1 .. Len(q) : r[k] = IF k = i THEN e ELSE q[k]
    BY <1>1, <2>1
  <2>6. \A k \in 1 .. Len(q) : r[k].uid = q[k].uid
    BY <2>5 DEF e
  <2>7. DOMAIN q = 1 .. Len(q) /\ DOMAIN r = 1 .. Len(q)
    BY <1>1, <2>5
  <2> HIDE DEF q, r
  <2>8. \A k \in DOMAIN r : \E j \in DOMAIN q : r[k].uid = q[j].uid
    BY <2>6, <2>7
  <2> QED BY <2>4, <2>5, <2>8 DEF q
<1>3. CASE ~ q[i].reads + 1 < Cardinality(Ranks)
  <2> DEFINE r == RemoveAt(q, i)
  <2>1. DataAfterRead(i) = [queue |-> r, size |-> data.size - MicrobatchSize]
    BY <1>3 DEF DataAfterRead
  <2>2. /\ r \in Seq(E) /\ Len(r) = Len(q) - 1
        /\ \A k \in 1 .. Len(q) - 1 : r[k] = IF k < i THEN q[k] ELSE q[k + 1]
    BY <1>1, RemoveAtIs
  <2>3. DOMAIN q = 1 .. Len(q) /\ DOMAIN r = 1 .. Len(q) - 1
    BY <1>1, <2>2
  <2> HIDE DEF q, r
  <2>4. ASSUME NEW k \in 1 .. Len(q) - 1 PROVE \E j \in 1 .. Len(q) : r[k].uid = q[j].uid
    <3>1. r[k] = q[k] \/ r[k] = q[k + 1]
      BY <2>2
    <3>2. k \in 1 .. Len(q) /\ k + 1 \in 1 .. Len(q)
      BY <1>1
    <3> QED BY <3>1, <3>2
  <2> QED BY <2>1, <2>2, <2>3, <2>4 DEF q
<1> QED BY <1>2, <1>3


\* How many of a set of places come up to the i-th.
Count(E, i) == Cardinality({j \in E : j <= i})

LEMMA CountFacts ==
  ASSUME NEW E, E \subseteq Nat \ {0}, IsFiniteSet(E), NEW i \in Nat
  PROVE  /\ Count(E, i) \in Nat /\ Count(E, 0) = 0
         /\ Count(E, i + 1) = IF i + 1 \in E THEN Count(E, i) + 1 ELSE Count(E, i)
<1> DEFINE D == {j \in E : j <= i}
<1>1. IsFiniteSet(D) /\ Cardinality(D) \in Nat
  <2>1. D \in SUBSET E
    OBVIOUS
  <2> HIDE DEF D
  <2> QED BY <2>1, FS_Subset, FS_CardinalityType
<1>0. \A j \in E : ~ j <= 0 /\ (j <= i + 1 <=> j <= i \/ j = i + 1) /\ ~ i + 1 <= i
  <2> SUFFICES ASSUME NEW j \in E
               PROVE  ~ j <= 0 /\ (j <= i + 1 <=> j <= i \/ j = i + 1) /\ ~ i + 1 <= i
    OBVIOUS
  <2>1. j \in Nat \ {0}
    OBVIOUS
  <2> QED BY <2>1
<1>2. Count(E, 0) = 0
  <2>1. {j \in E : j <= 0} = {}
    BY <1>0
  <2> QED BY <2>1, FS_EmptySet DEF Count
<1>3. CASE i + 1 \in E
  <2>1. {j \in E : j <= i + 1} = D \cup {i + 1} /\ i + 1 \notin D
    BY <1>0, <1>3
  <2> HIDE DEF D
  <2>2. Cardinality(D \cup {i + 1}) = Cardinality(D) + 1
    BY <1>1, <2>1, FS_AddElement
  <2> QED BY <1>1, <1>2, <1>3, <2>1, <2>2 DEF Count, D
<1>4. CASE i + 1 \notin E
  <2>1. {j \in E : j <= i + 1} = D
    BY <1>0, <1>4
  <2> QED BY <1>1, <1>2, <1>4, <2>1 DEF Count
<1> QED BY <1>3, <1>4

LEMMA EffectiveFacts ==
  ASSUME NEW b \in Seq(BOOLEAN)
  PROVE  /\ EffectiveIn(b) \subseteq 1 .. Len(b) /\ IsFiniteSet(EffectiveIn(b))
         /\ Cardinality(EffectiveIn(b)) \in Nat
         /\ Cardinality(EffectiveIn(b)) = Count(EffectiveIn(b), Len(b))
<1>1. Len(b) \in Nat /\ EffectiveIn(b) \subseteq 1 .. Len(b) /\ IsFiniteSet(1 .. Len(b))
  BY FS_Interval DEF EffectiveIn
<1>2. {j \in EffectiveIn(b) : j <= Len(b)} = EffectiveIn(b)
  BY <1>1
<1> QED BY <1>1, <1>2, FS_Subset, FS_CardinalityType DEF Count

\* The group that a training step ends with exists.
LEMMA LastUsedExists ==
  ASSUME NEW b \in Seq(BOOLEAN), NEW n \in Nat \ {0}, Cardinality(EffectiveIn(b)) >= n
  PROVE  \E i \in EffectiveIn(b) : Count(EffectiveIn(b), i) = n
<1> DEFINE E == EffectiveIn(b)
           T == {i \in Nat : Count(E, i) >= n}
<1>1. Len(b) \in T
  BY EffectiveFacts
<1>2. \A i \in Nat : /\ Count(E, i) \in Nat /\ Count(E, 0) = 0
                     /\ Count(E, i + 1) = IF i + 1 \in E THEN Count(E, i) + 1 ELSE Count(E, i)
  <2>1. E \subseteq Nat \ {0} /\ IsFiniteSet(E)
    BY EffectiveFacts
  <2> HIDE DEF E
  <2> QED BY <2>1, CountFacts
<1>3. PICK i \in T : \A k \in T : i <= k
  <2>1. T \subseteq Nat
    OBVIOUS
  <2> HIDE DEF T
  <2> QED BY <1>1, <2>1, LeastNumber
<1> HIDE DEF E
<1>4. i \in Nat /\ Count(E, i) >= n /\ i # 0
  BY <1>2, <1>3
<1>5. i - 1 \in Nat /\ ~ Count(E, i - 1) >= n
  BY <1>3, <1>4
<1>6. /\ Count(E, i - 1) \in Nat
      /\ Count(E, i) = IF i \in E THEN Count(E, i - 1) + 1 ELSE Count(E, i - 1)
  <2>1. Count(E, (i - 1) + 1) = IF (i - 1) + 1 \in E THEN Count(E, i - 1) + 1 ELSE Count(E, i - 1)
    BY <1>2, <1>5
  <2>2. (i - 1) + 1 = i
    BY <1>4
  <2> QED BY <1>2, <1>5, <2>1, <2>2
<1>7. i \in E /\ Count(E, i) = n
  BY <1>4, <1>5, <1>6
<1> QED BY <1>7 DEF E


\* What a training step leaves of a buffer.
LEMMA AfterStepIs ==
  ASSUME NEW b \in Seq(BOOLEAN), Enough(b)
  PROVE  \E i \in EffectiveIn(b) :
           /\ i \in 1 .. Len(b) /\ Count(EffectiveIn(b), i) = Global(MinibatchSize)
           /\ AfterStep(b) = SubSeq(b, i + 1, Len(b))
<1>1. \E i \in EffectiveIn(b) : Count(EffectiveIn(b), i) = Global(MinibatchSize)
  BY SizesAreNat, LastUsedExists DEF Enough
<1> DEFINE last == CHOOSE i \in EffectiveIn(b) :
                     Cardinality({j \in EffectiveIn(b) : j <= i}) = Global(MinibatchSize)
<1>2. last \in EffectiveIn(b) /\ Count(EffectiveIn(b), last) = Global(MinibatchSize)
  BY <1>1 DEF Count
<1>3. AfterStep(b) = SubSeq(b, last + 1, Len(b))
  BY DEF AfterStep
<1> HIDE DEF last
<1> QED BY <1>2, <1>3, EffectiveFacts

\* The buffers of the ranks that train together have a step's worth of groups.
Buffered == \A r \in Ranks : consumer[r].pc = "train" => Enough(consumer[r].buffer)

-----------------------------------------------------------------------------
(* Types, variable by variable.                                            *)
LEMMA ProducerTypes ==
  ASSUME Types, [Next]_vars
  PROVE  producer' \in [Producers -> ProducerType]
<1>1. /\ producer \in [Producers -> ProducerType] /\ signal.version \in Nat /\ signal.step \in Nat
      /\ \A p \in Producers : distributor[p].weights \in SUBSET Nat
  BY DEF Types, SignalType, DistributorType
<1>2. ASSUME NEW p \in Producers, NEW e \in ProducerType
      PROVE  [producer EXCEPT ![p] = e] \in [Producers -> ProducerType]
  BY <1>1
<1>3. CASE UNCHANGED producer
  BY <1>1, <1>3
<1>4. CASE Evaluate
  <2>1. \A p \in Producers : [producer[p] EXCEPT !.pc = "pick up"] \in ProducerType
    BY <1>1 DEF ProducerType
  <2> QED BY <1>4, <2>1 DEF Evaluate
<1>5. ASSUME NEW p \in Producers, Look(p) PROVE producer' \in [Producers -> ProducerType]
  <2>1. PICK start \in BOOLEAN : producer' = [producer EXCEPT
          ![p].latest = IF EvaluatesAt(p, signal.step) THEN signal.step ELSE @,
          ![p].pc = IF EvaluatesAt(p, signal.step) THEN "evaluate" ELSE "pick up",
          ![p].version = IF start THEN signal.version ELSE @,
          ![p].started = start \/ @,
          ![p].thread = IF start THEN "signal" ELSE @]
    BY <1>5 DEF Look
  <2> DEFINE c == producer[p]
             e == [c EXCEPT
                     !.latest = IF EvaluatesAt(p, signal.step) THEN signal.step ELSE @,
                     !.pc = IF EvaluatesAt(p, signal.step) THEN "evaluate" ELSE "pick up",
                     !.version = IF start THEN signal.version ELSE @,
                     !.started = start \/ @,
                     !.thread = IF start THEN "signal" ELSE @]
             latest == IF EvaluatesAt(p, signal.step) THEN signal.step ELSE c.latest
             pc == IF EvaluatesAt(p, signal.step) THEN "evaluate" ELSE "pick up"
             version == IF start THEN signal.version ELSE c.version
             started == start \/ c.started
             thread == IF start THEN "signal" ELSE c.thread
  <2>4. c \in ProducerType
    BY <1>1
  <2>5. /\ latest \in Int /\ pc \in {"evaluate", "pick up"} /\ version \in Nat
        /\ started \in BOOLEAN /\ thread \in {"none", "signal", "receive"}
    <3>1. c.latest \in Int /\ c.version \in Nat /\ c.thread \in {"none", "signal", "receive"}
      BY <2>4 DEF ProducerType
    <3> HIDE DEF c
    <3>2. latest \in Int /\ version \in Nat
      BY <1>1, <3>1
    <3>3. pc \in {"evaluate", "pick up"} /\ thread \in {"none", "signal", "receive"}
      BY <3>1
    <3>4. started \in BOOLEAN
      OBVIOUS
    <3> QED BY <3>2, <3>3, <3>4
  <2>6. e = [c EXCEPT !.latest = latest, !.pc = pc, !.version = version, !.started = started,
                      !.thread = thread]
    OBVIOUS
  <2>2. e \in ProducerType
    <3> HIDE DEF c, e, latest, pc, version, started, thread
    <3> QED BY <2>4, <2>5, <2>6 DEF ProducerType
  <2>3. producer' = [producer EXCEPT ![p] = e]
    BY <1>1, <2>1
  <2> QED BY <1>2, <2>2, <2>3
<1>6. ASSUME NEW p \in Producers, PickUp(p) PROVE producer' \in [Producers -> ProducerType]
  <2>1. [producer[p] EXCEPT !.pc = "roll out"] \in ProducerType
    BY <1>1 DEF ProducerType
  <2> QED BY <1>2, <1>6, <2>1 DEF PickUp
<1>7. ASSUME NEW p \in Producers, RollOut(p) PROVE producer' \in [Producers -> ProducerType]
  <2>1. [producer[p] EXCEPT !.pc = "load"] \in ProducerType
    BY <1>1 DEF ProducerType
  <2> QED BY <1>2, <1>7, <2>1 DEF RollOut
<1>8. ASSUME NEW p \in Producers, Load(p) PROVE producer' \in [Producers -> ProducerType]
  <2>1. PICK load \in BOOLEAN : producer' = [producer EXCEPT
          ![p].n = producer[p].n + 1,
          ![p].pc = IF producer[p].n = LastBatch THEN "done" ELSE "sync",
          ![p].model = IF load THEN producer[p].cpu ELSE @]
    BY <1>8 DEF Load
  <2> DEFINE e == [producer[p] EXCEPT
                     !.n = producer[p].n + 1,
                     !.pc = IF producer[p].n = LastBatch THEN "done" ELSE "sync",
                     !.model = IF load THEN producer[p].cpu ELSE @]
             pc == IF producer[p].n = LastBatch THEN "done" ELSE "sync"
             model == IF load THEN producer[p].cpu ELSE producer[p].model
  <2>2. e \in ProducerType
    <3>1. pc \in {"done", "sync"} /\ model \in SUBSET Nat /\ producer[p].n + 1 \in Nat
      <4>1. producer[p].cpu \in SUBSET Nat /\ producer[p].model \in SUBSET Nat
            /\ producer[p].n \in Nat
        BY <1>1 DEF ProducerType
      <4>2. model \in SUBSET Nat
        BY <4>1
      <4> QED BY <4>1, <4>2
    <3>2. e = [producer[p] EXCEPT !.n = producer[p].n + 1, !.pc = pc, !.model = model]
      OBVIOUS
    <3> HIDE DEF e, pc, model
    <3> QED BY <1>1, <3>1, <3>2 DEF ProducerType
  <2>3. producer' = [producer EXCEPT ![p] = e]
    BY <1>1, <2>1
  <2> QED BY <1>2, <2>2, <2>3
<1>9. ASSUME NEW p \in Producers, AskForWeights(p) PROVE producer' \in [Producers -> ProducerType]
  <2>1. [producer[p] EXCEPT !.thread = "receive"] \in ProducerType
    BY <1>1 DEF ProducerType
  <2> QED BY <1>2, <1>9, <2>1 DEF AskForWeights
<1>10. ASSUME NEW p \in Producers, Answer(p) PROVE producer' \in [Producers -> ProducerType]
  <2> DEFINE e == [producer[p] EXCEPT !.cpu = distributor[p].weights,
                                      !.thread = "none", !.started = FALSE]
  <2>1. e \in ProducerType
    BY <1>1 DEF ProducerType
  <2>2. producer' = [producer EXCEPT ![p] = e]
    BY <1>1, <1>10 DEF Answer
  <2> QED BY <1>2, <2>1, <2>2
<1>11. \/ UNCHANGED producer \/ Evaluate
       \/ \E p \in Producers : \/ Look(p) \/ PickUp(p) \/ RollOut(p) \/ Load(p)
                               \/ AskForWeights(p) \/ Answer(p)
  <2> USE DEF vars, Train, Offload, WakeDistributors, Barrier, BeginBroadcast, EndBroadcast,
              Fetch, Terminate, Poll, Clear, ClearProducer, Publish
  <2> QED BY Steps
<1> QED BY <1>3, <1>4, <1>5, <1>6, <1>7, <1>8, <1>9, <1>10, <1>11

LEMMA DistributorTypes ==
  ASSUME Types, [Next]_vars
  PROVE  distributor' \in [Producers -> DistributorType]
<1>1. /\ distributor \in [Producers -> DistributorType] /\ cpu \in Nat /\ trainer.step \in Nat
  BY DEF Types, TrainerType
<1>2. ASSUME NEW p \in Producers, NEW e \in DistributorType
      PROVE  [distributor EXCEPT ![p] = e] \in [Producers -> DistributorType]
  BY <1>1
<1>3. \A d : /\ AfterProducer(d) \in {"done", "publish", "poll"}
             /\ AfterConsumer(d) \in {"answer", "done", "publish", "poll"}
  BY DEF AfterConsumer, AfterProducer
<1>4. CASE UNCHANGED distributor
  BY <1>1, <1>4
<1>5. CASE Offload
  <2>1. \A d \in Producers : [distributor[d] EXCEPT !.weights = @ \cup {trainer.step}]
                               \in DistributorType
    BY <1>1 DEF DistributorType
  <2> QED BY <1>1, <1>5, <2>1 DEF Offload
<1>6. CASE Barrier
  <2>1. \A d \in Producers : [distributor[d] EXCEPT !.pc = "clear"] \in DistributorType
    BY <1>1 DEF DistributorType
  <2> QED BY <1>6, <2>1 DEF Barrier
<1>7. CASE BeginBroadcast
  <2>1. \A d \in Producers : [distributor[d] EXCEPT !.pc = "receiving", !.weights = {cpu}]
                               \in DistributorType
    BY <1>1 DEF DistributorType
  <2> QED BY <1>7, <2>1 DEF BeginBroadcast, Sent
<1>8. CASE EndBroadcast
  <2>1. ASSUME NEW d \in Producers
        PROVE  LET counted == [distributor[d] EXCEPT !.version = @ + 1]
               IN [counted EXCEPT !.pc = AfterConsumer(counted)] \in DistributorType
    <3> DEFINE counted == [distributor[d] EXCEPT !.version = @ + 1]
    <3>1. counted \in DistributorType
      BY <1>1 DEF DistributorType
    <3> HIDE DEF counted
    <3>2. [counted EXCEPT !.pc = AfterConsumer(counted)] \in DistributorType
      BY <1>3, <3>1 DEF DistributorType
    <3> QED BY <3>2 DEF counted
  <2> QED BY <1>8, <2>1 DEF EndBroadcast
<1>9. ASSUME NEW p \in Producers, Poll(p) PROVE distributor' \in [Producers -> DistributorType]
  <2> DEFINE turn == [distributor[p] EXCEPT
                        !.asked  = (signal.producer[p] = "ready"),
                        !.ending = (signal.consumer = "terminate")]
             e == [turn EXCEPT !.pc = IF signal.consumer = "ready" THEN "barrier"
                                      ELSE AfterConsumer(turn)]
  <2>1. turn \in DistributorType
    BY <1>1 DEF DistributorType
  <2>2. distributor' = [distributor EXCEPT ![p] = e]
    BY <1>9 DEF Poll
  <2> HIDE DEF turn
  <2>3. e \in DistributorType
    BY <1>3, <2>1 DEF DistributorType
  <2> QED BY <1>2, <2>2, <2>3
<1>10. ASSUME NEW p \in Producers, NEW pc \in {"receive", "send", "done", "publish", "poll"},
              distributor' = [distributor EXCEPT ![p].pc = pc]
       PROVE  distributor' \in [Producers -> DistributorType]
  <2>1. [distributor[p] EXCEPT !.pc = pc] \in DistributorType
    BY <1>1 DEF DistributorType
  <2> QED BY <1>2, <1>10, <2>1
<1>11. ASSUME NEW p \in Producers, Publish(p) PROVE distributor' \in [Producers -> DistributorType]
  <2> DEFINE e == [distributor[p] EXCEPT !.pc = "poll", !.last = distributor[p].version]
  <2>1. e \in DistributorType
    BY <1>1 DEF DistributorType
  <2>2. distributor' = [distributor EXCEPT ![p] = e]
    BY <1>1, <1>11 DEF Publish
  <2> QED BY <1>2, <2>1, <2>2
<1>12. ASSUME NEW p \in Producers, Clear(p) \/ ClearProducer(p) \/ Answer(p)
       PROVE  distributor' \in [Producers -> DistributorType]
  BY <1>3, <1>10, <1>12 DEF Clear, ClearProducer, Answer
<1>13. \/ UNCHANGED distributor \/ Offload \/ Barrier \/ BeginBroadcast \/ EndBroadcast
       \/ \E p \in Producers : \/ Poll(p) \/ Clear(p) \/ ClearProducer(p) \/ Answer(p)
                               \/ Publish(p)
  <2> USE DEF vars, Train, WakeDistributors, Evaluate, Fetch, Terminate, Look, PickUp, RollOut,
              Load, AskForWeights
  <2> QED BY Steps
<1> QED BY <1>4, <1>5, <1>6, <1>7, <1>8, <1>9, <1>11, <1>12, <1>13

LEMMA SignalTypes ==
  ASSUME Types, [Next]_vars
  PROVE  signal' \in SignalType
<1>1. /\ signal \in SignalType /\ trainer.step \in Nat
      /\ \A p \in Producers : distributor[p].version \in Nat
  BY DEF Types, TrainerType, DistributorType
<1>2. CASE UNCHANGED signal
  BY <1>1, <1>2
<1>3. CASE Train
  <2>1. ASSUME NEW n \in Nat PROVE [signal EXCEPT !.step = n] \in SignalType
    BY <1>1 DEF SignalType
  <2>2. trainer.step + 2 \in Nat
    BY <1>1
  <2> QED BY <1>1, <1>3, <2>1, <2>2 DEF Train
<1>4. ASSUME NEW s \in {"terminate", "ready", "not ready"}, signal' = [signal EXCEPT !.consumer = s]
      PROVE  signal' \in SignalType
  BY <1>1, <1>4 DEF SignalType
<1>5. ASSUME NEW p \in Producers, NEW s \in {"ready", "not ready"},
             signal' = [signal EXCEPT !.producer[p] = s]
      PROVE  signal' \in SignalType
  BY <1>1, <1>5 DEF SignalType
<1>6. ASSUME NEW p \in Producers, Publish(p) PROVE signal' \in SignalType
  BY <1>1, <1>6 DEF SignalType, Publish, Published
<1>7. \/ UNCHANGED signal \/ Train \/ WakeDistributors
      \/ \E r \in Ranks : Terminate(r)
      \/ \E p \in Producers : \/ Clear(p) \/ ClearProducer(p) \/ AskForWeights(p) \/ Publish(p)
  <2> USE DEF vars, Offload, Barrier, BeginBroadcast, EndBroadcast, Evaluate, Fetch, Look, PickUp,
              RollOut, Load, Poll, Answer
  <2> QED BY Steps
<1>8. CASE WakeDistributors \/ \E r \in Ranks : Terminate(r)
  BY <1>4, <1>8 DEF WakeDistributors, Terminate
<1>9. ASSUME NEW p \in Producers, Clear(p) \/ ClearProducer(p) \/ AskForWeights(p)
      PROVE  signal' \in SignalType
  BY <1>4, <1>5, <1>9 DEF Clear, ClearProducer, AskForWeights
<1> QED BY <1>2, <1>3, <1>6, <1>7, <1>8, <1>9

LEMMA OtherTypes ==
  ASSUME Types, [Next]_vars
  PROVE  trainer' \in TrainerType /\ cpu' \in Nat /\ threads' \in ThreadsType
<1>1. trainer \in TrainerType /\ cpu \in Nat /\ threads \in ThreadsType /\ trainer.step \in Nat
  BY DEF Types, TrainerType
<1>2. CASE UNCHANGED <<trainer, cpu, threads>>
  BY <1>1, <1>2
<1>3. CASE Train
  <2>1. PICK update \in BOOLEAN, s \in BOOLEAN :
          trainer' = [count |-> IF update THEN 0 ELSE trainer.count + Global(MinibatchSize),
                      step |-> IF update THEN trainer.step + 1 ELSE trainer.step,
                      sync |-> s, trained |-> trainer.trained + 1]
    BY <1>3 DEF Train
  <2>2. trainer.count + Global(MinibatchSize) \in Nat
    BY <1>1, SizesAreNat DEF TrainerType
  <2>3. trainer.step + 1 \in Nat /\ trainer.trained + 1 \in Nat
    BY <1>1 DEF TrainerType
  <2>4. trainer' \in TrainerType
    BY <1>1, <2>1, <2>2, <2>3 DEF TrainerType
  <2>5. UNCHANGED <<cpu, threads>>
    BY <1>3 DEF Train
  <2> QED BY <1>1, <2>4, <2>5
<1>4. CASE Offload
  BY <1>1, <1>4 DEF Offload, ThreadsType
<1>5. CASE WakeDistributors
  BY <1>1, <1>5 DEF WakeDistributors, ThreadsType
<1>6. CASE BeginBroadcast
  <2>1. PICK v \in threads.sending :
          threads' = [threads EXCEPT !.sending = @ \ {v}, !.busy = {v}]
    BY <1>6 DEF BeginBroadcast
  <2>2. threads.sending \ {v} \in SUBSET Nat /\ {v} \in SUBSET Nat
    BY <1>1 DEF ThreadsType
  <2>3. threads' \in ThreadsType
    BY <1>1, <2>1, <2>2 DEF ThreadsType
  <2>4. UNCHANGED <<trainer, cpu>>
    BY <1>6 DEF BeginBroadcast
  <2> QED BY <1>1, <2>3, <2>4
<1>7. CASE EndBroadcast
  BY <1>1, <1>7 DEF EndBroadcast, ThreadsType
<1>8. \/ UNCHANGED <<trainer, cpu, threads>> \/ Train \/ Offload \/ WakeDistributors
      \/ BeginBroadcast \/ EndBroadcast
  <2>1. UNCHANGED vars => UNCHANGED <<trainer, cpu, threads>>
    BY DEF vars
  <2>2. Barrier \/ Evaluate => UNCHANGED <<trainer, cpu, threads>>
    BY DEF Barrier, Evaluate
  <2>3. \A r \in Ranks : Fetch(r) \/ Terminate(r) => UNCHANGED <<trainer, cpu, threads>>
    BY DEF Fetch, Terminate
  <2>4. \A p \in Producers : Look(p) \/ PickUp(p) \/ RollOut(p) \/ Load(p) \/ AskForWeights(p)
          => UNCHANGED <<trainer, cpu, threads>>
    BY DEF Look, PickUp, RollOut, Load, AskForWeights
  <2>5. \A p \in Producers : Poll(p) \/ Clear(p) \/ ClearProducer(p) \/ Answer(p) \/ Publish(p)
          => UNCHANGED <<trainer, cpu, threads>>
    BY DEF Poll, Clear, ClearProducer, Answer, Publish
  <2> QED BY Steps, <2>1, <2>2, <2>3, <2>4, <2>5
<1> QED BY <1>2, <1>3, <1>4, <1>5, <1>6, <1>7, <1>8

LEMMA AtHeadIs ==
  ASSUME NEW c \in ConsumerType
  PROVE  /\ AtHead(c) \in ConsumerType /\ AtHead(c).uid = c.uid /\ AtHead(c).buffer = c.buffer
         /\ AtHead(c).pc # "train"
<1>1. /\ c.received \in Nat /\ c.episode \in Nat /\ c.episode + 1 \in Nat
  BY DEF ConsumerType
<1>2. CASE c.received < Total
  <2>1. ~ c.received >= Total
    BY <1>1, <1>2, SizesAreNat
  <2>2. AtHead(c) = [c EXCEPT !.pc = "fetch"]
    BY <1>2, <2>1 DEF AtHead
  <2>3. LET e == [c EXCEPT !.pc = "fetch"]
        IN e \in ConsumerType /\ e.uid = c.uid /\ e.buffer = c.buffer /\ e.pc # "train"
    BY DEF ConsumerType
  <2> QED BY <2>2, <2>3
<1>3. CASE ~ c.received < Total /\ c.episode + 1 < Episodes
  <2>1. c.received >= Total
    BY <1>1, <1>3, SizesAreNat
  <2>2. PICK n \in Nat : AtHead(c) = [c EXCEPT !.pc = "fetch", !.received = 0, !.episode = n]
    BY <1>1, <1>3, <2>1 DEF AtHead
  <2>3. LET e == [c EXCEPT !.pc = "fetch", !.received = 0, !.episode = n]
        IN e \in ConsumerType /\ e.uid = c.uid /\ e.buffer = c.buffer /\ e.pc # "train"
    BY DEF ConsumerType
  <2> QED BY <2>2, <2>3
<1>4. CASE ~ c.received < Total /\ ~ c.episode + 1 < Episodes
  <2>1. AtHead(c) = [c EXCEPT !.pc = "terminate", !.received = 0]
    BY <1>4 DEF AtHead
  <2>2. LET e == [c EXCEPT !.pc = "terminate", !.received = 0]
        IN e \in ConsumerType /\ e.uid = c.uid /\ e.buffer = c.buffer /\ e.pc # "train"
    BY DEF ConsumerType
  <2> QED BY <2>1, <2>2
<1> QED BY <1>2, <1>3, <1>4

\* A rank that reads: its next batch, behind what it has in its buffer.
LEMMA FetchIs ==
  ASSUME Types, Known, NEW r \in Ranks, Fetch(r)
  PROVE  /\ \E i \in DOMAIN data.queue : data' = DataAfterRead(i)
         /\ consumer[r].uid \in 1 .. Len(made)
         /\ made[consumer[r].uid] \in Seq(BOOLEAN)
         /\ consumer' = [consumer EXCEPT ![r] = consumer'[r]]
         /\ consumer'[r] \in ConsumerType /\ consumer'[r].uid = consumer[r].uid + 1
         /\ consumer'[r].buffer = consumer[r].buffer \o made[consumer[r].uid]
         /\ consumer'[r].pc = "train" => Enough(consumer'[r].buffer)
<1>1. PICK i \in DOMAIN data.queue :
        /\ data.queue[i].uid = consumer[r].uid
        /\ data' = DataAfterRead(i)
        /\ consumer' = [consumer EXCEPT
             ![r].uid = @ + 1, ![r].received = @ + MicrobatchSize,
             ![r].buffer = consumer[r].buffer \o made[consumer[r].uid],
             ![r].pc = IF Enough(consumer[r].buffer \o made[consumer[r].uid])
                       THEN "train" ELSE "fetch"]
  BY DEF Fetch
<1>2. consumer \in [Ranks -> ConsumerType] /\ made \in Seq(Rollouts)
  BY DEF Types
<1>3. consumer[r].uid \in 1 .. Len(made)
  BY <1>1 DEF Known
<1>4. made[consumer[r].uid] \in Rollouts
  BY <1>2, <1>3
<1>5. made[consumer[r].uid] \in Seq(BOOLEAN)
  BY <1>4, SizesAreNat DEF Rollouts
<1> DEFINE c == consumer[r]
           b == c.buffer \o made[c.uid]
           pc == IF Enough(b) THEN "train" ELSE "fetch"
           e == [c EXCEPT !.uid = c.uid + 1, !.received = c.received + MicrobatchSize,
                          !.buffer = b, !.pc = pc]
<1>6. /\ c \in ConsumerType /\ c.uid + 1 \in Nat \ {0} /\ c.received + MicrobatchSize \in Nat
      /\ c.buffer \in Seq(BOOLEAN)
  BY <1>2, SizesAreNat DEF ConsumerType
<1>7. b \in Seq(BOOLEAN)
  BY <1>5, <1>6, ConcatFacts
<1>8. consumer' = [consumer EXCEPT ![r] = e]
  BY <1>1, <1>2
<1>9. consumer'[r] = e
  BY <1>2, <1>8
<1>10. pc \in {"train", "fetch"} /\ (pc = "train" => Enough(b))
  OBVIOUS
<1>11. e \in ConsumerType /\ e.uid = c.uid + 1 /\ e.buffer = b /\ e.pc = pc
  <2> HIDE DEF c, b, pc
  <2> QED BY <1>6, <1>7, <1>10 DEF ConsumerType
<1> QED BY <1>1, <1>3, <1>5, <1>8, <1>9, <1>10, <1>11

\* The ranks that train: each cuts its buffer.
LEMMA TrainIs ==
  ASSUME Types, Buffered, Train, NEW r \in Ranks
  PROVE  /\ Enough(consumer[r].buffer)
         /\ consumer'[r] \in ConsumerType /\ consumer'[r].uid = consumer[r].uid
         /\ consumer'[r].buffer = AfterStep(consumer[r].buffer)
         /\ consumer'[r].pc = "train" => Enough(consumer'[r].buffer)
<1> DEFINE c == consumer[r]
           b == AfterStep(c.buffer)
           rest == [c EXCEPT !.buffer = b]
<1>1. c \in ConsumerType /\ Enough(c.buffer) /\ c.buffer \in Seq(BOOLEAN)
  BY DEF Types, Train, Buffered, ConsumerType
<1>2. b \in Seq(BOOLEAN)
  <2>1. PICK i \in 1 .. Len(c.buffer) : b = SubSeq(c.buffer, i + 1, Len(c.buffer))
    BY <1>1, AfterStepIs
  <2> HIDE DEF b
  <2> QED BY <1>1, <2>1, SubSeqFacts
<1>3. rest \in ConsumerType /\ rest.uid = c.uid /\ rest.buffer = b /\ rest.pc = c.pc
  <2> HIDE DEF b, c
  <2> QED BY <1>1, <1>2 DEF ConsumerType
<1>4. \/ consumer'[r] = rest /\ Enough(rest.buffer)
      \/ consumer'[r] = [rest EXCEPT !.pc = "offload"]
      \/ consumer'[r] = AtHead(rest)
  BY DEF Train
<1> HIDE DEF c, b, rest
<1>5. LET o == [rest EXCEPT !.pc = "offload"]
      IN o \in ConsumerType /\ o.uid = rest.uid /\ o.buffer = rest.buffer /\ o.pc # "train"
  BY <1>3 DEF ConsumerType
<1>6. LET o == AtHead(rest)
      IN o \in ConsumerType /\ o.uid = rest.uid /\ o.buffer = rest.buffer /\ o.pc # "train"
  BY <1>3, AtHeadIs
<1>7. /\ consumer'[r] \in ConsumerType /\ consumer'[r].uid = c.uid /\ consumer'[r].buffer = b
      /\ consumer'[r].pc = "train" => Enough(consumer'[r].buffer)
  BY <1>3, <1>4, <1>5, <1>6
<1> QED BY <1>1, <1>7 DEF b, c

\* Apart from reading and training, no rank's place or buffer changes.
LEMMA ConsumerIs ==
  ASSUME Types, [Next]_vars
  PROVE  \/ Train \/ \E r \in Ranks : Fetch(r)
         \/ /\ consumer' \in [Ranks -> ConsumerType]
            /\ \A r \in Ranks :
                 /\ consumer'[r].uid = consumer[r].uid /\ consumer'[r].buffer = consumer[r].buffer
                 /\ consumer'[r].pc = "train" => consumer[r].pc = "train"
<1>1. consumer \in [Ranks -> ConsumerType]
  BY DEF Types
<1>2. CASE UNCHANGED consumer
  BY <1>1, <1>2
<1>3. CASE Offload
  <2>1. consumer' = [r \in Ranks |-> AtHead(consumer[r])]
    BY <1>3 DEF Offload
  <2>2. \A r \in Ranks : consumer'[r] = AtHead(consumer[r]) /\ consumer[r] \in ConsumerType
    BY <1>1, <2>1
  <2>3. \A r \in Ranks : /\ AtHead(consumer[r]) \in ConsumerType
                         /\ AtHead(consumer[r]).uid = consumer[r].uid
                         /\ AtHead(consumer[r]).buffer = consumer[r].buffer
                         /\ AtHead(consumer[r]).pc # "train"
    BY <2>2, AtHeadIs
  <2> QED BY <2>1, <2>2, <2>3
<1>4. ASSUME NEW r \in Ranks, Terminate(r)
      PROVE  /\ consumer' \in [Ranks -> ConsumerType]
             /\ \A s \in Ranks :
                  /\ consumer'[s].uid = consumer[s].uid /\ consumer'[s].buffer = consumer[s].buffer
                  /\ consumer'[s].pc = "train" => consumer[s].pc = "train"
  <2> DEFINE e == [consumer[r] EXCEPT !.pc = "done"]
  <2>1. /\ e \in ConsumerType /\ e.uid = consumer[r].uid /\ e.buffer = consumer[r].buffer
        /\ e.pc # "train"
    BY <1>1 DEF ConsumerType
  <2>2. consumer' = [consumer EXCEPT ![r] = e]
    BY <1>4 DEF Terminate
  <2> HIDE DEF e
  <2> QED BY <1>1, <2>1, <2>2
<1>5. \/ Train \/ \E r \in Ranks : Fetch(r)
      \/ UNCHANGED consumer \/ Offload \/ \E r \in Ranks : Terminate(r)
  <2>1. UNCHANGED vars => UNCHANGED consumer
    BY DEF vars
  <2>2. WakeDistributors \/ Barrier \/ BeginBroadcast \/ EndBroadcast \/ Evaluate
          => UNCHANGED consumer
    BY DEF WakeDistributors, Barrier, BeginBroadcast, EndBroadcast, Evaluate
  <2>3. \A p \in Producers : Look(p) \/ PickUp(p) \/ RollOut(p) \/ Load(p) \/ AskForWeights(p)
          => UNCHANGED consumer
    BY DEF Look, PickUp, RollOut, Load, AskForWeights
  <2>4. \A p \in Producers : Poll(p) \/ Clear(p) \/ ClearProducer(p) \/ Answer(p) \/ Publish(p)
          => UNCHANGED consumer
    BY DEF Poll, Clear, ClearProducer, Answer, Publish
  <2> QED BY Steps, <2>1, <2>2, <2>3, <2>4
<1> QED BY <1>2, <1>3, <1>4, <1>5

\* The queue changes when a rank reads, and when a producer picks up a task or
\* has rolled it out.
LEMMA QueueIs ==
  ASSUME Types, [Next]_vars
  PROVE  \/ \E r \in Ranks : Fetch(r)
         \/ \E p \in Producers : PickUp(p) \/ RollOut(p)
         \/ /\ UNCHANGED <<data, made>>
            /\ \A p \in Producers : producer'[p].pc = "roll out" <=> producer[p].pc = "roll out"
<1> DEFINE Same == \A p \in Producers : producer'[p].pc = "roll out" <=> producer[p].pc = "roll out"
<1>1. producer \in [Producers -> ProducerType]
  BY DEF Types
<1>2. UNCHANGED producer => Same
  OBVIOUS
<1>3. ASSUME UNCHANGED vars PROVE UNCHANGED <<data, made>> /\ Same
  BY <1>3 DEF vars
<1>4. ASSUME Train \/ Offload \/ WakeDistributors \/ Barrier \/ BeginBroadcast \/ EndBroadcast
      PROVE  UNCHANGED <<data, made>> /\ Same
  <2>1. UNCHANGED <<data, made, producer>>
    BY <1>4 DEF Train, Offload, WakeDistributors, Barrier, BeginBroadcast, EndBroadcast
  <2> QED BY <1>2, <2>1
<1>5. ASSUME Evaluate PROVE UNCHANGED <<data, made>> /\ Same
  <2>1. \A p \in Producers : producer[p].pc = "evaluate" /\ producer'[p].pc = "pick up"
    BY <1>1, <1>5 DEF Evaluate, ProducerType
  <2> QED BY <1>5, <2>1 DEF Evaluate
<1>6. ASSUME NEW r \in Ranks, Terminate(r) PROVE UNCHANGED <<data, made>> /\ Same
  <2>1. UNCHANGED <<data, made, producer>>
    BY <1>6 DEF Terminate
  <2> QED BY <1>2, <2>1
<1>7. ASSUME NEW p \in Producers, Poll(p) \/ Clear(p) \/ ClearProducer(p) \/ Publish(p)
      PROVE  UNCHANGED <<data, made>> /\ Same
  <2>1. UNCHANGED <<data, made, producer>>
    BY <1>7 DEF Poll, Clear, ClearProducer, Publish
  <2> QED BY <1>2, <2>1
<1>8. ASSUME NEW p \in Producers, NEW c, producer' = [producer EXCEPT ![p] = c],
             c.pc = "roll out" <=> producer[p].pc = "roll out"
      PROVE  Same
  BY <1>1, <1>8
<1>9. ASSUME NEW p \in Producers, Look(p) PROVE UNCHANGED <<data, made>> /\ Same
  <2>1. producer' = [producer EXCEPT ![p] = producer'[p]]
    BY <1>1, <1>9 DEF Look
  <2>2. producer[p].pc = "sync" /\ producer'[p].pc \in {"evaluate", "pick up"}
    BY <1>1, <1>9 DEF Look, ProducerType
  <2> QED BY <1>8, <1>9, <2>1, <2>2 DEF Look
<1>10. ASSUME NEW p \in Producers, Load(p) PROVE UNCHANGED <<data, made>> /\ Same
  <2>1. producer' = [producer EXCEPT ![p] = producer'[p]]
    BY <1>1, <1>10 DEF Load
  <2>2. producer[p].pc = "load" /\ producer'[p].pc \in {"done", "sync"}
    BY <1>1, <1>10 DEF Load, ProducerType
  <2> QED BY <1>8, <1>10, <2>1, <2>2 DEF Load
<1>11. ASSUME NEW p \in Producers, AskForWeights(p) PROVE UNCHANGED <<data, made>> /\ Same
  <2>1. producer' = [producer EXCEPT ![p] = producer'[p]]
    BY <1>1, <1>11 DEF AskForWeights
  <2>2. producer'[p].pc = producer[p].pc
    BY <1>1, <1>11 DEF AskForWeights, ProducerType
  <2>3. producer'[p].pc = "roll out" <=> producer[p].pc = "roll out"
    BY <2>2
  <2>4. Same
    <3> HIDE DEF Same
    <3> QED BY <1>8, <2>1, <2>3
  <2>5. UNCHANGED <<data, made>>
    BY <1>11 DEF AskForWeights
  <2> QED BY <2>4, <2>5
<1>12. ASSUME NEW p \in Producers, Answer(p) PROVE UNCHANGED <<data, made>> /\ Same
  <2>1. producer' = [producer EXCEPT ![p] = producer'[p]]
    BY <1>1, <1>12 DEF Answer
  <2>2. producer'[p].pc = producer[p].pc
    BY <1>1, <1>12 DEF Answer, ProducerType
  <2>3. producer'[p].pc = "roll out" <=> producer[p].pc = "roll out"
    BY <2>2
  <2>4. Same
    <3> HIDE DEF Same
    <3> QED BY <1>8, <2>1, <2>3
  <2>5. UNCHANGED <<data, made>>
    BY <1>12 DEF Answer
  <2> QED BY <2>4, <2>5
<1> HIDE DEF Same
<1>13. \/ \E r \in Ranks : Fetch(r)
       \/ \E p \in Producers : PickUp(p) \/ RollOut(p)
       \/ UNCHANGED <<data, made>> /\ Same
  BY Steps, <1>3, <1>4, <1>5, <1>6, <1>7, <1>9, <1>10, <1>11, <1>12
<1> QED BY <1>13 DEF Same

\* The counter follows the queue and the tasks that are being rolled out.
LEMMA Counting ==
  ASSUME Types, Known, Counted, [Next]_vars
  PROVE  data' \in DataType /\ made' \in Seq(Rollouts) /\ Len(made') >= Len(made) /\ Counted'
         /\ \A i \in DOMAIN data'.queue : data'.queue[i].uid \in 1 .. Len(made')
<1>1. /\ data \in DataType /\ producer \in [Producers -> ProducerType] /\ made \in Seq(Rollouts)
      /\ data.size \in Int /\ data.queue \in Seq([uid : Nat, reads : Nat])
      /\ Len(data.queue) \in Nat /\ Len(made) \in Nat
      /\ data = [queue |-> data.queue, size |-> data.size]
  BY DEF Types, DataType
<1>2. IsFiniteSet(RollingOut) /\ Cardinality(RollingOut) \in Nat
  <2>1. RollingOut \in SUBSET Producers /\ IsFiniteSet(Producers)
    BY SizesAssumption DEF RollingOut
  <2> QED BY <2>1, FS_Subset, FS_CardinalityType
<1>3. /\ MicrobatchSize \in Nat \ {0} /\ BufferLimit \in Nat
  BY SizesAreNat
<1>4. CASE /\ UNCHANGED <<data, made>>
           /\ \A p \in Producers : producer'[p].pc = "roll out" <=> producer[p].pc = "roll out"
  <2>1. RollingOut' = RollingOut
    BY <1>4 DEF RollingOut
  <2>2. Counted'
    BY <1>4, <2>1 DEF Counted
  <2>5. data' = data /\ made' = made
    BY <1>4
  <2>3. data' \in DataType /\ made' \in Seq(Rollouts) /\ Len(made') >= Len(made)
    BY <1>1, <2>5
  <2>4. \A i \in DOMAIN data'.queue : data'.queue[i].uid \in 1 .. Len(made')
    BY <2>5 DEF Known
  <2> QED BY <2>2, <2>3, <2>4
<1>5. ASSUME NEW r \in Ranks, Fetch(r)
      PROVE  data' \in DataType /\ made' \in Seq(Rollouts) /\ Len(made') >= Len(made) /\ Counted'
             /\ \A i \in DOMAIN data'.queue : data'.queue[i].uid \in 1 .. Len(made')
  <2>1. PICK i \in DOMAIN data.queue : data' = DataAfterRead(i)
    BY <1>5, FetchIs
  <2>2. /\ data'.queue \in Seq([uid : Nat, reads : Nat])
        /\ \A k \in DOMAIN data'.queue : \E j \in DOMAIN data.queue :
             data'.queue[k].uid = data.queue[j].uid
        /\ data' = [queue |-> data'.queue, size |-> data'.size]
        /\ \/ data'.size = data.size /\ Len(data'.queue) = Len(data.queue)
           \/ data'.size = data.size - MicrobatchSize /\ Len(data'.queue) = Len(data.queue) - 1
    BY <1>1, <2>1, ReadIs
  <2>3. made' = made /\ RollingOut' = RollingOut
    BY <1>5 DEF Fetch, RollingOut
  <2>4. data'.size \in Int
    BY <1>1, <1>3, <2>2
  <2>5. data' \in DataType
    <3>1. [queue |-> data'.queue, size |-> data'.size] \in DataType
      BY <2>2, <2>4 DEF DataType
    <3> QED BY <2>2, <3>1
  <2>6. Counted'
    <3>1. CASE data'.size = data.size /\ Len(data'.queue) = Len(data.queue)
      BY <2>3, <3>1 DEF Counted
    <3>2. CASE data'.size = data.size - MicrobatchSize /\ Len(data'.queue) = Len(data.queue) - 1
      <4> DEFINE n == Len(data.queue)
                 c == Cardinality(RollingOut)
      <4>1. n \in Nat /\ c \in Nat /\ data.size = MicrobatchSize * (n + c)
        BY <1>1, <1>2 DEF Counted
      <4>2. \A m, k \in Int : m * (k - 1) = m * k - m
        OBVIOUS
      <4> HIDE DEF n, c
      <4>3. MicrobatchSize * ((n + c) - 1) = MicrobatchSize * (n + c) - MicrobatchSize
        BY <1>3, <4>1, <4>2
      <4>4. (n - 1) + c = (n + c) - 1
        BY <4>1
      <4>5. data'.size = MicrobatchSize * ((n - 1) + c)
        BY <3>2, <4>1, <4>3, <4>4
      <4>6. data'.size < BufferLimit + MicrobatchSize
        BY <1>1, <1>3, <3>2 DEF Counted
      <4> QED BY <2>3, <3>2, <4>5, <4>6 DEF Counted, n, c
    <3> QED BY <2>2, <3>1, <3>2
  <2>7. \A k \in DOMAIN data'.queue : data'.queue[k].uid \in 1 .. Len(made')
    BY <2>2, <2>3 DEF Known
  <2> QED BY <1>1, <2>3, <2>5, <2>6, <2>7
<1>6. ASSUME NEW p \in Producers, PickUp(p)
      PROVE  data' \in DataType /\ made' \in Seq(Rollouts) /\ Len(made') >= Len(made) /\ Counted'
             /\ \A i \in DOMAIN data'.queue : data'.queue[i].uid \in 1 .. Len(made')
  <2>1. /\ data' = [queue |-> data.queue, size |-> data.size + MicrobatchSize]
        /\ data.size < BufferLimit /\ made' = made
    BY <1>1, <1>6 DEF PickUp, MayPickUp
  <2>2. RollingOut' = RollingOut \cup {p} /\ p \notin RollingOut
    <3>1. \A e \in Producers : producer'[e].pc = IF e = p THEN "roll out" ELSE producer[e].pc
      BY <1>1, <1>6 DEF PickUp, ProducerType
    <3>2. producer[p].pc = "pick up"
      BY <1>6 DEF PickUp
    <3> QED BY <3>1, <3>2 DEF RollingOut
  <2>3. Cardinality(RollingOut') = Cardinality(RollingOut) + 1
    BY <1>2, <2>2, FS_AddElement
  <2>4. Counted'
    <3> DEFINE n == Len(data.queue)
               c == Cardinality(RollingOut)
    <3>1. n \in Nat /\ c \in Nat /\ data.size = MicrobatchSize * (n + c)
      BY <1>1, <1>2 DEF Counted
    <3>2. \A m, k \in Int : m * (k + 1) = m * k + m
      OBVIOUS
    <3> HIDE DEF n, c
    <3>3. MicrobatchSize * ((n + c) + 1) = MicrobatchSize * (n + c) + MicrobatchSize
      BY <1>3, <3>1, <3>2
    <3>4. n + (c + 1) = (n + c) + 1
      BY <3>1
    <3>5. data'.size = MicrobatchSize * (n + (c + 1)) /\ Len(data'.queue) = n
      BY <2>1, <3>1, <3>3, <3>4 DEF n
    <3>6. data'.size < BufferLimit + MicrobatchSize
      BY <1>1, <1>3, <2>1
    <3> QED BY <2>3, <3>5, <3>6 DEF Counted, n, c
  <2>5. data' \in DataType
    BY <1>1, <1>3, <2>1 DEF DataType
  <2> QED BY <1>1, <2>1, <2>4, <2>5 DEF Known
<1>7. ASSUME NEW p \in Producers, RollOut(p)
      PROVE  data' \in DataType /\ made' \in Seq(Rollouts) /\ Len(made') >= Len(made) /\ Counted'
             /\ \A i \in DOMAIN data'.queue : data'.queue[i].uid \in 1 .. Len(made')
  <2> DEFINE e == [uid |-> Len(made) + 1, reads |-> 0]
  <2>1. PICK groups \in Rollouts : made' = Append(made, groups)
    BY <1>7 DEF RollOut, Rollouts
  <2>2. data' = [queue |-> Append(data.queue, e), size |-> data.size]
    BY <1>1, <1>7 DEF RollOut
  <2>3. RollingOut' = RollingOut \ {p} /\ p \in RollingOut
    <3>1. \A o \in Producers : producer'[o].pc = IF o = p THEN "load" ELSE producer[o].pc
      BY <1>1, <1>7 DEF RollOut, ProducerType
    <3>2. producer[p].pc = "roll out"
      BY <1>7 DEF RollOut
    <3> QED BY <3>1, <3>2 DEF RollingOut
  <2>4. Cardinality(RollingOut') = Cardinality(RollingOut) - 1
    BY <1>2, <2>3, FS_RemoveElement
  <2>5. e \in [uid : Nat, reads : Nat] /\ e.uid = Len(made) + 1
    BY <1>1
  <2> HIDE DEF e
  <2>6. /\ Append(data.queue, e) \in Seq([uid : Nat, reads : Nat])
        /\ Len(Append(data.queue, e)) = Len(data.queue) + 1
        /\ \A i \in 1 .. Len(data.queue) + 1 :
             Append(data.queue, e)[i] = IF i = Len(data.queue) + 1 THEN e ELSE data.queue[i]
    BY <1>1, <2>5
  <2>7. made' \in Seq(Rollouts) /\ Len(made') = Len(made) + 1
    BY <1>1, <2>1
  <2>8. Len(data.queue) + Cardinality(RollingOut)
          = Len(data.queue) + 1 + (Cardinality(RollingOut) - 1)
    BY <1>1, <1>2
  <2>9. Counted'
    BY <2>2, <2>4, <2>6, <2>8 DEF Counted
  <2>10. data' \in DataType
    BY <1>1, <2>2, <2>6 DEF DataType
  <2>11. ASSUME NEW i \in DOMAIN data'.queue PROVE data'.queue[i].uid \in 1 .. Len(made')
    <3>1. i \in 1 .. Len(data.queue) + 1
      BY <2>2, <2>6, <2>11
    <3>2. CASE i = Len(data.queue) + 1
      BY <1>1, <2>2, <2>5, <2>6, <2>7, <3>2
    <3>3. CASE i # Len(data.queue) + 1
      <4>1. i \in DOMAIN data.queue /\ data'.queue[i] = data.queue[i]
        BY <1>1, <2>2, <2>6, <3>1, <3>3
      <4>2. data.queue[i].uid \in 1 .. Len(made)
        BY <4>1 DEF Known
      <4> QED BY <1>1, <2>7, <4>1, <4>2
    <3> QED BY <3>2, <3>3
  <2> QED BY <1>1, <2>7, <2>9, <2>10, <2>11
<1> QED BY <1>4, <1>5, <1>6, <1>7, QueueIs

\* The consumer's part of the types.
LEMMA ConsumerTypes ==
  ASSUME Types, Known, Buffered, [Next]_vars, Len(made') \in Nat, Len(made') >= Len(made)
  PROVE  /\ consumer' \in [Ranks -> ConsumerType] /\ Buffered'
         /\ \A r \in Ranks : consumer'[r].uid <= Len(made') + 1
<1>1. consumer \in [Ranks -> ConsumerType] /\ Len(made) \in Nat
  BY DEF Types
<1>2. \A r \in Ranks : consumer[r].uid \in Nat /\ consumer[r].uid <= Len(made) + 1
  BY <1>1 DEF Known, ConsumerType
<1>3. ASSUME Train
      PROVE  /\ consumer' \in [Ranks -> ConsumerType] /\ Buffered'
             /\ \A r \in Ranks : consumer'[r].uid <= Len(made') + 1
  <2>1. \A r \in Ranks : /\ consumer'[r] \in ConsumerType /\ consumer'[r].uid = consumer[r].uid
                         /\ consumer'[r].pc = "train" => Enough(consumer'[r].buffer)
    BY <1>3, TrainIs
  <2>2. consumer' = [r \in Ranks |-> consumer'[r]]
    BY <1>3 DEF Train
  <2>3. consumer' \in [Ranks -> ConsumerType]
    BY <2>1, <2>2
  <2>4. \A r \in Ranks : consumer'[r].uid <= Len(made') + 1
    BY <1>1, <1>2, <2>1
  <2>5. Buffered'
    BY <2>1 DEF Buffered
  <2> QED BY <2>3, <2>4, <2>5
<1>4. ASSUME NEW r \in Ranks, Fetch(r)
      PROVE  /\ consumer' \in [Ranks -> ConsumerType] /\ Buffered'
             /\ \A s \in Ranks : consumer'[s].uid <= Len(made') + 1
  <2> DEFINE e == consumer'[r]
  <2>1. /\ consumer[r].uid \in 1 .. Len(made) /\ consumer' = [consumer EXCEPT ![r] = e]
        /\ e \in ConsumerType /\ e.uid = consumer[r].uid + 1
        /\ e.pc = "train" => Enough(e.buffer)
    BY <1>4, FetchIs
  <2> HIDE DEF e
  <2>2. consumer' \in [Ranks -> ConsumerType]
    BY <1>1, <2>1
  <2>3. \A s \in Ranks : consumer'[s] = IF s = r THEN e ELSE consumer[s]
    BY <1>1, <2>1
  <2>4. e.uid <= Len(made') + 1
    BY <1>1, <2>1
  <2>5. \A s \in Ranks : consumer'[s].uid <= Len(made') + 1
    <3> SUFFICES ASSUME NEW s \in Ranks PROVE consumer'[s].uid <= Len(made') + 1
      OBVIOUS
    <3>1. CASE s = r
      BY <2>3, <2>4, <3>1
    <3>2. CASE s # r
      BY <1>1, <1>2, <2>3, <3>2
    <3> QED BY <3>1, <3>2
  <2>6. Buffered'
    BY <2>1, <2>3 DEF Buffered
  <2> QED BY <2>2, <2>5, <2>6
<1>5. ASSUME consumer' \in [Ranks -> ConsumerType],
             \A r \in Ranks :
               /\ consumer'[r].uid = consumer[r].uid /\ consumer'[r].buffer = consumer[r].buffer
               /\ consumer'[r].pc = "train" => consumer[r].pc = "train"
      PROVE  Buffered' /\ \A r \in Ranks : consumer'[r].uid <= Len(made') + 1
  <2>1. Buffered'
    BY <1>5 DEF Buffered
  <2>2. \A r \in Ranks : consumer'[r].uid <= Len(made') + 1
    BY <1>1, <1>2, <1>5
  <2> QED BY <2>1, <2>2
<1> QED BY <1>3, <1>4, <1>5, ConsumerIs

-----------------------------------------------------------------------------
(* The queue.                                                              *)
Sound == Types /\ Known /\ Counted /\ Buffered

LEMMA SoundAtInit ==
  ASSUME Init
  PROVE  Sound
<1>1. data \in DataType /\ made \in Seq(Rollouts) /\ trainer \in TrainerType
      /\ cpu \in Nat /\ threads \in ThreadsType
  BY DEF Init, DataType, TrainerType, ThreadsType
<1>2. signal \in SignalType
  BY DEF Init, SignalType
<1>3. consumer \in [Ranks -> ConsumerType]
  <2>1. [pc |-> "fetch", uid |-> 1, received |-> 0, episode |-> 0, buffer |-> <<>>] \in ConsumerType
    BY DEF ConsumerType
  <2> QED BY <2>1 DEF Init
<1>4. producer \in [Producers -> ProducerType]
  <2>1. [pc |-> "sync", n |-> 0, latest |-> -1, version |-> 0,
         started |-> FALSE, thread |-> "none", cpu |-> {}, model |-> {0}] \in ProducerType
    BY DEF ProducerType
  <2> QED BY <2>1 DEF Init
<1>5. distributor \in [Producers -> DistributorType]
  <2>1. [pc |-> "poll", asked |-> FALSE, ending |-> FALSE, version |-> 0, last |-> 0,
         weights |-> {}] \in DistributorType
    BY DEF DistributorType
  <2> QED BY <2>1 DEF Init
<1>6. Known
  BY DEF Init, Known
<1>7. RollingOut = {}
  BY DEF Init, RollingOut
<1>8. Counted
  <2>1. MicrobatchSize * (0 + 0) = 0 /\ 0 < BufferLimit + MicrobatchSize
    BY SizesAreNat
  <2> QED BY <1>7, <2>1, FS_EmptySet DEF Init, Counted
<1>9. Buffered
  BY DEF Init, Buffered
<1> QED BY <1>1, <1>2, <1>3, <1>4, <1>5, <1>6, <1>8, <1>9 DEF Sound, Types

LEMMA SoundStays ==
  ASSUME Sound, [Next]_vars
  PROVE  Sound'
<1>1. Types /\ Known /\ Counted /\ Buffered
  BY DEF Sound
<1>2. data' \in DataType /\ made' \in Seq(Rollouts) /\ Len(made') >= Len(made) /\ Counted'
      /\ \A i \in DOMAIN data'.queue : data'.queue[i].uid \in 1 .. Len(made')
  BY <1>1, Counting
<1>3. Len(made') \in Nat
  BY <1>2
<1>4. /\ consumer' \in [Ranks -> ConsumerType] /\ Buffered'
      /\ \A r \in Ranks : consumer'[r].uid <= Len(made') + 1
  BY <1>1, <1>2, <1>3, ConsumerTypes
<1>5. producer' \in [Producers -> ProducerType]
  BY <1>1, ProducerTypes
<1>6. distributor' \in [Producers -> DistributorType]
  BY <1>1, DistributorTypes
<1>7. signal' \in SignalType
  BY <1>1, SignalTypes
<1>8. trainer' \in TrainerType /\ cpu' \in Nat /\ threads' \in ThreadsType
  BY <1>1, OtherTypes
<1>9. Types'
  BY <1>2, <1>4, <1>5, <1>6, <1>7, <1>8 DEF Types
<1>10. Known'
  BY <1>2, <1>4 DEF Known
<1> QED BY <1>2, <1>4, <1>9, <1>10 DEF Sound

LEMMA SoundAlways == Spec => []Sound
<1>1. Init => Sound
  BY SoundAtInit
<1>2. Sound /\ [Next]_vars => Sound'
  BY SoundStays
<1> QED BY <1>1, <1>2, PTL DEF Spec

\* The queue's counter is a task's size for each batch in the queue and each
\* batch being rolled out, and stays within the limit and one task.
THEOREM QueueIsCounted == Spec => []QueueCounted
<1>1. Sound => QueueCounted
  <2> SUFFICES ASSUME Sound PROVE QueueCounted
    OBVIOUS
  <2>1. Types /\ Known /\ Counted
    BY DEF Sound
  <2>2. data.size \in Nat
    <3>1. IsFiniteSet(RollingOut) /\ Cardinality(RollingOut) \in Nat
      <4>1. RollingOut \in SUBSET Producers /\ IsFiniteSet(Producers)
        BY SizesAssumption DEF RollingOut
      <4> QED BY <4>1, FS_Subset, FS_CardinalityType
    <3>2. Len(data.queue) + Cardinality(RollingOut) \in Nat /\ MicrobatchSize \in Nat
      BY <2>1, <3>1, SizesAreNat DEF Types, DataType
    <3>3. \A m, k \in Nat : m * k \in Nat
      OBVIOUS
    <3> QED BY <2>1, <3>2, <3>3 DEF Counted
  <2>3. data.queue \in Seq([uid : 1 .. Len(made), reads : Nat])
    <3> DEFINE E == [uid : Nat, reads : Nat]
               q == data.queue
               S == [uid : 1 .. Len(made), reads : Nat]
    <3>1. q \in Seq(E)
      BY <2>1 DEF Types, DataType
    <3>2. Len(q) \in Nat /\ q = [i \in 1 .. Len(q) |-> q[i]] /\ \A i \in 1 .. Len(q) : q[i] \in E
      <4> HIDE DEF q, E
      <4> QED BY <3>1
    <3>3. \A i \in 1 .. Len(q) : q[i].uid \in 1 .. Len(made)
      <4> DOMAIN q = 1 .. Len(q)
        <5> HIDE DEF q, E
        <5> QED BY <3>1
      <4> QED BY <2>1 DEF Known
    <3>4. \A i \in 1 .. Len(q) : q[i] \in S
      BY <3>2, <3>3
    <3> HIDE DEF q, E, S
    <3>5. [i \in 1 .. Len(q) |-> q[i]] \in Seq(S)
      BY <3>2, <3>4
    <3> QED BY <3>2, <3>5 DEF q, S
  <2>4. made \in Seq([1 .. MicrobatchSize -> BOOLEAN])
    BY <2>1 DEF Types, Rollouts
  <2>5. /\ signal.version \in Nat /\ signal.step \in Nat
        /\ signal.consumer \in {"none", "ready", "not ready", "terminate"}
    BY <2>1 DEF Types, SignalType
  <2>6. \A r \in Ranks :
          /\ consumer[r].pc \in {"fetch", "train", "offload", "terminate", "done"}
          /\ consumer[r].uid \in 1 .. Len(made) + 1
          /\ consumer[r].buffer \in Seq(BOOLEAN)
    <3> SUFFICES ASSUME NEW r \in Ranks
                 PROVE  /\ consumer[r].pc \in {"fetch", "train", "offload", "terminate", "done"}
                        /\ consumer[r].uid \in 1 .. Len(made) + 1
                        /\ consumer[r].buffer \in Seq(BOOLEAN)
      OBVIOUS
    <3>1. consumer[r] \in ConsumerType
      BY <2>1 DEF Types
    <3>2. /\ consumer[r].pc \in {"fetch", "train", "offload", "terminate", "done"}
          /\ consumer[r].uid \in Nat \ {0} /\ consumer[r].buffer \in Seq(BOOLEAN)
      BY <3>1 DEF ConsumerType
    <3>3. consumer[r].uid <= Len(made) + 1 /\ Len(made) \in Nat
      BY <2>1 DEF Known, Types
    <3> QED BY <3>2, <3>3
  <2>7. threads \in [waking : SUBSET Nat, sending : SUBSET Nat, busy : SUBSET Nat]
    BY <2>1 DEF Types, ThreadsType
  <2>8. TypeOK
    BY <2>2, <2>3, <2>4, <2>5, <2>6, <2>7 DEF TypeOK
  <2> QED BY <2>1, <2>8 DEF QueueCounted, Counted, RollingOut
<1> QED BY <1>1, SoundAlways, PTL

-----------------------------------------------------------------------------
(* The weights.                                                            *)
Distributes(d) ==  \* an action leaves d's weights and version as they are
  /\ distributor'[d].version = distributor[d].version
  /\ distributor'[d].weights = distributor[d].weights
  /\ distributor'[d].pc = "receiving" => distributor[d].pc = "receiving"
Produces(p) ==     \* ... and p's
  /\ producer'[p].version = producer[p].version
  /\ producer'[p].cpu = producer[p].cpu /\ producer'[p].model = producer[p].model

\* The actions that move weights or versions, and what the others leave alone.
LEMMA WeightsAre ==
  ASSUME Types, [Next]_vars
  PROVE  \/ Offload \/ BeginBroadcast \/ EndBroadcast
         \/ \E p \in Producers : Look(p) \/ Load(p) \/ Answer(p) \/ Publish(p)
         \/ /\ cpu' = cpu /\ signal'.version = signal.version
            /\ trainer'.step \in {trainer.step, trainer.step + 1}
            /\ \A p \in Producers : Distributes(p) /\ Produces(p)
<1> DEFINE Still == /\ cpu' = cpu /\ signal'.version = signal.version
                    /\ trainer'.step \in {trainer.step, trainer.step + 1}
                    /\ \A p \in Producers : Distributes(p) /\ Produces(p)
<1>1. /\ producer \in [Producers -> ProducerType] /\ distributor \in [Producers -> DistributorType]
      /\ signal \in SignalType
  BY DEF Types
<1>2. UNCHANGED distributor => \A p \in Producers : Distributes(p)
  BY DEF Distributes
<1>3. UNCHANGED producer => \A p \in Producers : Produces(p)
  BY DEF Produces
<1>4. \A s \in {"terminate", "ready", "not ready"} :
        signal' = [signal EXCEPT !.consumer = s] => signal'.version = signal.version
  BY <1>1 DEF SignalType
<1>5. \A p \in Producers, s \in {"ready", "not ready"} :
        signal' = [signal EXCEPT !.producer[p] = s] => signal'.version = signal.version
  BY <1>1 DEF SignalType
<1>6. \A p \in Producers, pc \in {"receive", "send"} :
        distributor' = [distributor EXCEPT ![p].pc = pc] => \A d \in Producers : Distributes(d)
  BY <1>1 DEF DistributorType, Distributes
<1>7. ASSUME NEW p \in Producers, NEW pc \in {"roll out", "load"},
             producer' = [producer EXCEPT ![p].pc = pc]
      PROVE  \A d \in Producers : Produces(d)
  BY <1>1, <1>7 DEF ProducerType, Produces
<1>8. UNCHANGED vars => Still
  BY <1>2, <1>3 DEF vars
<1>9. ASSUME Train PROVE Still
  <2>1. UNCHANGED <<cpu, distributor, producer>>
    BY <1>9 DEF Train
  <2>2. signal'.version = signal.version
    BY <1>1, <1>9 DEF Train, SignalType
  <2>3. trainer'.step \in {trainer.step, trainer.step + 1}
    BY <1>9 DEF Train
  <2> QED BY <1>2, <1>3, <2>1, <2>2, <2>3
<1>10. WakeDistributors => Still
  BY <1>2, <1>3, <1>4 DEF WakeDistributors
<1>11. ASSUME Barrier PROVE Still
  <2>1. \A p \in Producers : Distributes(p)
    BY <1>1, <1>11 DEF Barrier, DistributorType, Distributes
  <2> QED BY <1>3, <1>11, <2>1 DEF Barrier
<1>12. ASSUME Evaluate PROVE Still
  <2>1. \A p \in Producers : Produces(p)
    BY <1>1, <1>12 DEF Evaluate, ProducerType, Produces
  <2> QED BY <1>2, <1>12, <2>1 DEF Evaluate
<1>13. \A r \in Ranks : Fetch(r) => Still
  BY <1>2, <1>3 DEF Fetch
<1>14. \A r \in Ranks : Terminate(r) => Still
  BY <1>2, <1>3, <1>4 DEF Terminate
<1>15. ASSUME NEW p \in Producers, PickUp(p) PROVE Still
  BY <1>2, <1>7, <1>15 DEF PickUp
<1>16. ASSUME NEW p \in Producers, RollOut(p) PROVE Still
  BY <1>2, <1>7, <1>16 DEF RollOut
<1>17. ASSUME NEW p \in Producers, AskForWeights(p) PROVE Still
  <2>1. \A d \in Producers : Produces(d)
    BY <1>1, <1>17 DEF AskForWeights, ProducerType, Produces
  <2> QED BY <1>2, <1>5, <1>17, <2>1 DEF AskForWeights
<1>18. ASSUME NEW p \in Producers, Poll(p) PROVE Still
  <2>1. PICK pc \in {"barrier", "answer", "done", "publish", "poll"} :
          distributor' = [distributor EXCEPT ![p] =
            [[distributor[p] EXCEPT !.asked  = (signal.producer[p] = "ready"),
                                    !.ending = (signal.consumer = "terminate")]
             EXCEPT !.pc = pc]]
    BY <1>18 DEF Poll, AfterConsumer, AfterProducer
  <2>2. \A d \in Producers : Distributes(d)
    BY <1>1, <2>1 DEF DistributorType, Distributes
  <2> QED BY <1>3, <1>18, <2>2 DEF Poll
<1>19. ASSUME NEW p \in Producers, Clear(p) PROVE Still
  BY <1>3, <1>4, <1>6, <1>19 DEF Clear
<1>20. ASSUME NEW p \in Producers, ClearProducer(p) PROVE Still
  BY <1>3, <1>5, <1>6, <1>20 DEF ClearProducer
<1> HIDE DEF Still
<1>21. \/ Offload \/ BeginBroadcast \/ EndBroadcast
       \/ \E p \in Producers : Look(p) \/ Load(p) \/ Answer(p) \/ Publish(p)
       \/ Still
  BY Steps, <1>8, <1>9, <1>10, <1>11, <1>12, <1>13, <1>14, <1>15, <1>16, <1>17, <1>18, <1>19, <1>20
<1> QED BY <1>21 DEF Still

LEMMA NoOlderSelf ==
  ASSUME NEW A, A \subseteq Nat
  PROVE  NoOlder(A, A)
<1>1. \A w \in A : w >= w
  OBVIOUS
<1> QED BY <1>1 DEF NoOlder

LEMMA NoOlderFacts ==
  ASSUME NEW A, A \subseteq Nat, NEW B, B \subseteq Nat, NEW n \in Nat, \A w \in B : w <= n
  PROVE  /\ NoOlder({n}, B)
         /\ NoOlder(A, B) => NoOlder(A \cup {n}, B)
         /\ (\A w \in A : w <= n) => NoOlder(A \cup {n}, A)
<1>1. \A w \in A : w >= w
  OBVIOUS
<1>3. NoOlder({n}, B)
  BY DEF NoOlder
<1>4. NoOlder(A, B) => NoOlder(A \cup {n}, B)
  BY <1>3 DEF NoOlder
<1>2. (\A w \in A : w <= n) => NoOlder(A \cup {n}, A)
  BY <1>1 DEF NoOlder
<1> QED BY <1>2, <1>3, <1>4

Forward ==  \* what NeverOlder says of a step
  /\ signal'.version >= signal.version
  /\ \A p \in Producers : /\ NoOlder(producer'[p].model, producer[p].model)
                          /\ NoOlder(distributor'[p].weights, distributor[p].weights)

LEMMA WeightsStay ==
  ASSUME Types, Types', Announced, Aged, [Next]_vars
  PROVE  Announced' /\ Aged' /\ Forward
<1>1. /\ producer \in [Producers -> ProducerType] /\ distributor \in [Producers -> DistributorType]
      /\ signal \in SignalType /\ signal.version \in Nat /\ cpu \in Nat /\ trainer.step \in Nat
  BY DEF Types, SignalType, TrainerType
<1>2. \A p \in Producers :
        /\ producer[p].version \in Nat /\ producer[p].cpu \subseteq Nat
        /\ producer[p].model \subseteq Nat
        /\ distributor[p].version \in Nat /\ distributor[p].weights \subseteq Nat
  BY <1>1 DEF ProducerType, DistributorType
<1>3. \A p \in Producers :
        /\ NoOlder(producer[p].model, producer[p].model)
        /\ NoOlder(producer[p].cpu, producer[p].cpu)
        /\ NoOlder(distributor[p].weights, distributor[p].weights)
  BY <1>2, NoOlderSelf
<1>4. signal.version >= signal.version
  BY <1>1
<1>5. CASE /\ cpu' = cpu /\ signal'.version = signal.version
           /\ trainer'.step \in {trainer.step, trainer.step + 1}
           /\ \A p \in Producers : Distributes(p) /\ Produces(p)
  <2>1. Announced'
    BY <1>5 DEF Announced, Distributes, Produces
  <2>2. cpu' <= trainer'.step
    BY <1>1, <1>5 DEF Aged
  <2>3. Aged'
    BY <1>5, <2>2 DEF Aged, Distributes, Produces
  <2>4. Forward
    BY <1>3, <1>4, <1>5 DEF Forward, Distributes, Produces
  <2> QED BY <2>1, <2>3, <2>4
<1>6. CASE Offload
  <2> DEFINE n == trainer.step
  <2>1. cpu' = n /\ UNCHANGED <<signal, trainer, producer>>
    BY <1>6 DEF Offload
  <2>2. ASSUME NEW p \in Producers
        PROVE  /\ distributor'[p].version = distributor[p].version
               /\ distributor'[p].pc = distributor[p].pc
               /\ distributor'[p].weights \in {distributor[p].weights, distributor[p].weights \cup {n}}
    <3>1. CASE distributor[p].pc = "receiving"
      <4>1. distributor'[p] = [distributor[p] EXCEPT !.weights = @ \cup {n}]
        BY <1>6, <3>1 DEF Offload
      <4> QED BY <1>1, <4>1 DEF DistributorType
    <3>2. CASE distributor[p].pc # "receiving"
      BY <1>6, <3>2 DEF Offload
    <3> QED BY <3>1, <3>2
  <2>3. n \in Nat /\ cpu <= n
    BY <1>1 DEF Aged
  <2>4. ASSUME NEW p \in Producers
        PROVE  /\ \A v \in distributor[p].weights \cup producer[p].cpu \cup producer[p].model : v <= n
               /\ NoOlder(distributor'[p].weights, producer[p].cpu)
               /\ NoOlder(distributor'[p].weights, producer[p].model)
               /\ NoOlder(distributor'[p].weights, distributor[p].weights)
    <3>1. ASSUME NEW v \in distributor[p].weights \cup producer[p].cpu \cup producer[p].model
          PROVE  v <= n
      <4>1. v \in Nat /\ v <= cpu
        BY <1>2 DEF Aged
      <4> QED BY <1>1, <2>3, <4>1
    <3>2. NoOlder(distributor[p].weights \cup {n}, producer[p].cpu)
      BY <1>2, <2>3, <3>1, NoOlderFacts DEF Aged
    <3>3. NoOlder(distributor[p].weights \cup {n}, producer[p].model)
      BY <1>2, <2>3, <3>1, NoOlderFacts DEF Aged
    <3>4. NoOlder(distributor[p].weights \cup {n}, distributor[p].weights)
      BY <1>2, <2>3, <3>1, NoOlderFacts
    <3> HIDE DEF n
    <3> QED BY <1>3, <2>2, <3>1, <3>2, <3>3, <3>4 DEF Aged
  <2> HIDE DEF n
  <2>5. Announced'
    BY <2>1, <2>2 DEF Announced
  <2>6. cpu' <= trainer'.step
    BY <1>1, <2>1, <2>3 DEF n
  <2>7. \A p \in Producers :
          \A v \in distributor'[p].weights \cup producer[p].cpu \cup producer[p].model : v <= n
    BY <2>2, <2>3, <2>4
  <2>8. Aged'
    BY <2>1, <2>4, <2>6, <2>7 DEF Aged
  <2>9. Forward
    BY <1>3, <1>4, <2>1, <2>4 DEF Forward
  <2> QED BY <2>5, <2>8, <2>9
<1>7. CASE BeginBroadcast
  <2>1. UNCHANGED <<cpu, signal, trainer, producer>>
    BY <1>7 DEF BeginBroadcast
  <2>2. \A p \in Producers : /\ distributor'[p].version = distributor[p].version
                             /\ distributor'[p].weights = {cpu}
    <3>1. \A p \in Producers :
            distributor'[p] = [distributor[p] EXCEPT !.pc = "receiving", !.weights = {cpu}]
      BY <1>7 DEF BeginBroadcast, Sent
    <3>2. ASSUME NEW d \in DistributorType
          PROVE  LET e == [d EXCEPT !.pc = "receiving", !.weights = {cpu}]
                 IN e.version = d.version /\ e.weights = {cpu}
      BY DEF DistributorType
    <3> SUFFICES ASSUME NEW p \in Producers
                 PROVE  /\ distributor'[p].version = distributor[p].version
                        /\ distributor'[p].weights = {cpu}
      OBVIOUS
    <3>3. distributor[p] \in DistributorType
      BY <1>1
    <3> QED BY <3>1, <3>2, <3>3
  <2>3. \A p \in Producers :
          \A v \in distributor[p].weights \cup producer[p].cpu \cup producer[p].model : v <= cpu
    BY DEF Aged
  <2>4. ASSUME NEW p \in Producers
        PROVE  /\ NoOlder({cpu}, producer[p].cpu) /\ NoOlder({cpu}, producer[p].model)
               /\ NoOlder({cpu}, distributor[p].weights)
    BY <1>1, <1>2, <2>3, NoOlderFacts
  <2>5. Announced'
    BY <2>1, <2>2 DEF Announced
  <2>6. cpu <= cpu
    BY <1>1
  <2>7. Aged'
    BY <2>1, <2>2, <2>3, <2>4, <2>6 DEF Aged
  <2>8. Forward
    BY <1>3, <1>4, <2>1, <2>2, <2>4 DEF Forward
  <2> QED BY <2>5, <2>7, <2>8
<1>8. CASE EndBroadcast
  <2>1. UNCHANGED <<cpu, signal, trainer, producer>>
    BY <1>8 DEF EndBroadcast
  <2>2. ASSUME NEW p \in Producers
        PROVE  /\ distributor'[p].version = distributor[p].version + 1
               /\ distributor'[p].weights = distributor[p].weights
               /\ distributor'[p].pc # "receiving" /\ distributor[p].weights # {}
    <3> DEFINE counted == [distributor[p] EXCEPT !.version = distributor[p].version + 1]
    <3>1. distributor'[p] = [counted EXCEPT !.pc = AfterConsumer(counted)]
      BY <1>8 DEF EndBroadcast
    <3>2. AfterConsumer(counted) # "receiving"
      BY DEF AfterConsumer, AfterProducer
    <3>3. counted \in DistributorType /\ counted.version = distributor[p].version + 1
          /\ counted.weights = distributor[p].weights
      BY <1>1 DEF DistributorType
    <3>4. distributor[p].weights # {}
      BY <1>8 DEF EndBroadcast, Announced
    <3> HIDE DEF counted
    <3> QED BY <3>1, <3>2, <3>3, <3>4 DEF DistributorType
  <2>3. Announced'
    <3>1. \A d, e \in Producers : distributor'[d].version = distributor'[e].version
      BY <2>2 DEF Announced
    <3>2. \A p \in Producers : signal.version <= distributor[p].version + 1
      BY <1>1, <1>2 DEF Announced
    <3> QED BY <2>1, <2>2, <3>1, <3>2 DEF Announced
  <2>4. Aged'
    BY <2>1, <2>2 DEF Aged
  <2>5. Forward
    BY <1>3, <1>4, <2>1, <2>2 DEF Forward
  <2> QED BY <2>3, <2>4, <2>5
<1>9. ASSUME NEW p \in Producers, Look(p) PROVE Announced' /\ Aged' /\ Forward
  <2>1. UNCHANGED <<cpu, signal, trainer, distributor>>
    BY <1>9 DEF Look
  <2>2. \A q \in Producers : /\ producer'[q].version \in {producer[q].version, signal.version}
                             /\ producer'[q].cpu = producer[q].cpu
                             /\ producer'[q].model = producer[q].model
    <3> DEFINE start == /\ producer[p].n # LastBatch
                        /\ ~producer[p].started
                        /\ signal.version # producer[p].version
               latest == IF EvaluatesAt(p, signal.step) THEN signal.step ELSE producer[p].latest
               pc == IF EvaluatesAt(p, signal.step) THEN "evaluate" ELSE "pick up"
               version == IF start THEN signal.version ELSE producer[p].version
               started == start \/ producer[p].started
               thread == IF start THEN "signal" ELSE producer[p].thread
    <3>1. producer' = [producer EXCEPT ![p].latest = latest, ![p].pc = pc, ![p].version = version,
                                       ![p].started = started, ![p].thread = thread]
      BY <1>9 DEF Look
    <3>5. version \in {producer[p].version, signal.version}
      OBVIOUS
    <3> HIDE DEF latest, pc, version, started, thread
    <3>2. producer'[p] = [producer[p] EXCEPT !.latest = latest, !.pc = pc, !.version = version,
                                             !.started = started, !.thread = thread]
      BY <1>1, <3>1
    <3>3. /\ producer'[p].version = version /\ producer'[p].cpu = producer[p].cpu
          /\ producer'[p].model = producer[p].model
      <4>1. ASSUME NEW c \in ProducerType, NEW a, NEW b, NEW n, NEW s, NEW t
            PROVE  LET e == [c EXCEPT !.latest = a, !.pc = b, !.version = n,
                                      !.started = s, !.thread = t]
                   IN e.version = n /\ e.cpu = c.cpu /\ e.model = c.model
        BY DEF ProducerType
      <4>2. producer[p] \in ProducerType
        BY <1>1
      <4> QED BY <3>2, <4>1, <4>2
    <3>4. \A q \in Producers : q # p => producer'[q] = producer[q]
      BY <1>1, <3>1
    <3> QED BY <3>3, <3>4, <3>5
  <2>3. Announced'
    BY <1>4, <2>1, <2>2 DEF Announced
  <2>4. Aged'
    BY <2>1, <2>2 DEF Aged
  <2>5. Forward
    BY <1>3, <1>4, <2>1, <2>2 DEF Forward
  <2> QED BY <2>3, <2>4, <2>5
<1>10. ASSUME NEW p \in Producers, Load(p) PROVE Announced' /\ Aged' /\ Forward
  <2>1. UNCHANGED <<cpu, signal, trainer, distributor>>
    BY <1>10 DEF Load
  <2>2. \A q \in Producers :
          /\ producer'[q].version = producer[q].version /\ producer'[q].cpu = producer[q].cpu
          /\ \/ producer'[q].model = producer[q].model
             \/ producer'[q].model = producer[q].cpu /\ producer[q].cpu # {}
    BY <1>1, <1>10 DEF Load, ProducerType
  <2>3. Announced'
    BY <2>1, <2>2 DEF Announced
  <2>4. Aged'
    BY <1>3, <2>1, <2>2 DEF Aged
  <2>5. Forward
    BY <1>3, <1>4, <2>1, <2>2 DEF Forward, Aged
  <2> QED BY <2>3, <2>4, <2>5
<1>11. ASSUME NEW p \in Producers, Answer(p) PROVE Announced' /\ Aged' /\ Forward
  <2>1. UNCHANGED <<cpu, signal, trainer>>
    BY <1>11 DEF Answer
  <2>2. \A q \in Producers :
          /\ producer'[q].version = producer[q].version /\ producer'[q].model = producer[q].model
          /\ producer'[q].cpu \in {producer[q].cpu, distributor[q].weights}
    BY <1>1, <1>11 DEF Answer, ProducerType
  <2>3. \A q \in Producers : Distributes(q)
    BY <1>1, <1>11 DEF Answer, AfterProducer, DistributorType, Distributes
  <2>4. Announced'
    BY <2>1, <2>2, <2>3 DEF Announced, Distributes
  <2>5. Aged'
    BY <1>3, <2>1, <2>2, <2>3 DEF Aged, Distributes
  <2>6. Forward
    BY <1>3, <1>4, <2>1, <2>2, <2>3 DEF Forward, Distributes
  <2> QED BY <2>4, <2>5, <2>6
<1>12. ASSUME NEW p \in Producers, Publish(p) PROVE Announced' /\ Aged' /\ Forward
  <2>1. UNCHANGED <<cpu, producer, trainer>>
    BY <1>12 DEF Publish
  <2>2. signal'.version = distributor[p].version
    BY <1>1, <1>12 DEF Publish, Published, SignalType
  <2>3. \A q \in Producers : Distributes(q)
    BY <1>1, <1>12 DEF Publish, DistributorType, Distributes
  <2>4. signal'.version >= signal.version
    BY <1>1, <1>2, <2>2 DEF Announced
  <2>5. Announced'
    <3>1. \A q \in Producers : /\ producer[q].version <= signal'.version
                               /\ signal'.version <= distributor[q].version
      BY <1>1, <1>2, <2>2 DEF Announced
    <3> QED BY <2>1, <2>3, <3>1 DEF Announced, Distributes
  <2>6. Aged'
    BY <2>1, <2>3 DEF Aged, Distributes
  <2>7. Forward
    BY <1>3, <2>1, <2>3, <2>4 DEF Forward, Distributes
  <2> QED BY <2>5, <2>6, <2>7
<1> QED BY <1>5, <1>6, <1>7, <1>8, <1>9, <1>10, <1>11, <1>12, WeightsAre

LEMMA WeightsAlways == Spec => [](Sound /\ Announced /\ Aged)
<1>1. Init => Announced /\ Aged
  <2> SUFFICES ASSUME Init PROVE Announced /\ Aged
    OBVIOUS
  <2>1. cpu = 0 /\ trainer.step = 0 /\ signal.version = 0
    BY DEF Init
  <2>2. \A p \in Producers :
          /\ producer[p].version = 0 /\ producer[p].cpu = {} /\ producer[p].model = {0}
          /\ distributor[p].version = 0 /\ distributor[p].weights = {}
          /\ distributor[p].pc = "poll"
    BY DEF Init
  <2>3. Announced
    BY <2>1, <2>2 DEF Announced
  <2>4. NoOlder({}, {}) /\ NoOlder({}, {0})
    BY DEF NoOlder
  <2>5. Aged
    <3>1. \A p \in Producers :
            /\ \A v \in distributor[p].weights \cup producer[p].cpu \cup producer[p].model : v = 0
            /\ producer[p].model # {}
      BY <2>2
    <3>2. 0 <= 0
      OBVIOUS
    <3>3. \A p \in Producers : /\ NoOlder(distributor[p].weights, producer[p].cpu)
                               /\ NoOlder(distributor[p].weights, producer[p].model)
                               /\ NoOlder(producer[p].cpu, producer[p].model)
      BY <2>2, <2>4
    <3> QED BY <2>1, <3>1, <3>2, <3>3 DEF Aged
  <2> QED BY <2>3, <2>5
<1>2. Sound /\ Sound' /\ Announced /\ Aged /\ [Next]_vars => Announced' /\ Aged'
  BY WeightsStay DEF Sound
<1> QED BY <1>1, <1>2, SoundAlways, PTL DEF Spec

\* What is announced is there, at every distributor, and no copy of the
\* weights is newer than the consumer's step.
THEOREM AnnouncedIsAlwaysThere == Spec => []AnnouncedIsThere
<1>1. Sound /\ Announced /\ Aged => AnnouncedIsThere
  <2> SUFFICES ASSUME Types, Announced, Aged, NEW p \in Producers
               PROVE  /\ producer[p].version <= signal.version
                      /\ \A d \in Producers : signal.version <= distributor[d].version
                      /\ producer[p].version > 0 => distributor[p].weights # {}
                      /\ \A v \in distributor[p].weights : v <= trainer.step
    BY DEF Sound, AnnouncedIsThere
  <2>1. /\ producer[p].version \in Nat /\ signal.version \in Nat
        /\ distributor[p].version \in Nat /\ distributor[p].weights \subseteq Nat
        /\ cpu \in Nat /\ trainer.step \in Nat
    BY DEF Types, ProducerType, SignalType, DistributorType, TrainerType
  <2>2. \A v \in distributor[p].weights : v <= trainer.step
    BY <2>1 DEF Aged
  <2>3. producer[p].version > 0 => distributor[p].weights # {}
    BY <2>1 DEF Announced
  <2> QED BY <2>2, <2>3 DEF Announced
<1> QED BY <1>1, WeightsAlways, PTL

\* No step takes a distributor, a producer's model or the announced version
\* back to something older.
THEOREM WeightsNeverGetOlder == Spec => NeverOlder
<1>1. Sound /\ Sound' /\ Announced /\ Aged /\ [Next]_vars => Forward
  BY WeightsStay DEF Sound
<1>2. Forward =>
        [/\ signal'.version >= signal.version
         /\ \A p \in Producers :
              /\ NoOlder(producer'[p].model, producer[p].model)
              /\ NoOlder(distributor'[p].weights, distributor[p].weights)]_vars
  BY DEF Forward
<1> QED BY <1>1, <1>2, WeightsAlways, SoundAlways, PTL DEF Spec, NeverOlder

-----------------------------------------------------------------------------
(* What is read and what is trained on.                                    *)

\* What is put together of sequences has their effective groups, one behind
\* the other.
LEMMA EffectiveOfConcat ==
  ASSUME NEW a \in Seq(BOOLEAN), NEW b \in Seq(BOOLEAN)
  PROVE  Cardinality(EffectiveIn(a \o b)) = Cardinality(EffectiveIn(a)) + Cardinality(EffectiveIn(b))
<1> DEFINE c == a \o b
           A == EffectiveIn(a)
           B == EffectiveIn(b)
           C == EffectiveIn(c)
           n == Len(a)
           S == {i \in 0 .. n : Count(C, i) = Count(A, i)}
           T == {i \in 0 .. Len(b) : Count(C, n + i) = Cardinality(A) + Count(B, i)}
<1>1. /\ c \in Seq(BOOLEAN) /\ Len(c) = n + Len(b) /\ n \in Nat /\ Len(b) \in Nat
      /\ \A i \in 1 .. n : c[i] = a[i]
      /\ \A i \in n + 1 .. n + Len(b) : c[i] = b[i - n]
  BY ConcatFacts
<1>2. /\ A \subseteq 1 .. n /\ B \subseteq 1 .. Len(b) /\ C \subseteq 1 .. n + Len(b)
      /\ IsFiniteSet(A) /\ IsFiniteSet(B) /\ IsFiniteSet(C)
      /\ Cardinality(A) \in Nat /\ Cardinality(A) = Count(A, n)
      /\ Cardinality(B) = Count(B, Len(b)) /\ Cardinality(C) = Count(C, n + Len(b))
  <2> HIDE DEF c
  <2> QED BY <1>1, EffectiveFacts
<1>3. /\ \A i \in 1 .. n : i \in C <=> i \in A
      /\ \A i \in 1 .. Len(b) : n + i \in C <=> i \in B
  <2>1. DOMAIN a = 1 .. n /\ DOMAIN b = 1 .. Len(b) /\ DOMAIN c = 1 .. n + Len(b)
    <3> HIDE DEF c
    <3> QED BY <1>1
  <2> HIDE DEF c, n
  <2>2. \A i \in 1 .. n : i \in 1 .. n + Len(b)
    BY <1>1
  <2>3. \A i \in 1 .. Len(b) : /\ n + i \in 1 .. n + Len(b) /\ n + i \in n + 1 .. n + Len(b)
                               /\ (n + i) - n = i
    BY <1>1
  <2>4. \A i \in 1 .. Len(b) : c[n + i] = b[i]
    BY <1>1, <2>3
  <2> QED BY <1>1, <2>1, <2>2, <2>3, <2>4 DEF EffectiveIn
<1>4. /\ A \subseteq Nat \ {0} /\ B \subseteq Nat \ {0} /\ C \subseteq Nat \ {0}
  <2> HIDE DEF A, B, C, n
  <2> QED BY <1>1, <1>2
<1> HIDE DEF A, B, C, c, n
<1>5. \A i \in Nat : /\ Count(A, i) \in Nat /\ Count(A, 0) = 0
                     /\ Count(A, i + 1) = IF i + 1 \in A THEN Count(A, i) + 1 ELSE Count(A, i)
  BY <1>2, <1>4, CountFacts
<1>6. \A i \in Nat : /\ Count(B, i) \in Nat /\ Count(B, 0) = 0
                     /\ Count(B, i + 1) = IF i + 1 \in B THEN Count(B, i) + 1 ELSE Count(B, i)
  BY <1>2, <1>4, CountFacts
<1>7. \A i \in Nat : /\ Count(C, i) \in Nat /\ Count(C, 0) = 0
                     /\ Count(C, i + 1) = IF i + 1 \in C THEN Count(C, i) + 1 ELSE Count(C, i)
  BY <1>2, <1>4, CountFacts
<1>8. 0 .. n \subseteq S
  <2>1. 0 \in S
    BY <1>1, <1>5, <1>7
  <2>2. ASSUME NEW i \in 0 .. n - 1, i \in S PROVE i + 1 \in S
    <3>1. i \in Nat /\ i + 1 \in 0 .. n /\ i + 1 \in 1 .. n
      BY <1>1
    <3>2. Count(C, i + 1) = Count(A, i + 1)
      BY <1>3, <1>5, <1>7, <2>2, <3>1
    <3> QED BY <3>1, <3>2
  <2> HIDE DEF S
  <2> QED BY <1>1, <2>1, <2>2, UpTo
<1>9. Count(C, n) = Cardinality(A)
  BY <1>1, <1>2, <1>8
<1>10. 0 .. Len(b) \subseteq T
  <2>1. 0 \in T
    BY <1>1, <1>2, <1>6, <1>9
  <2>2. ASSUME NEW i \in 0 .. Len(b) - 1, i \in T PROVE i + 1 \in T
    <3>1. i \in Nat /\ i + 1 \in 0 .. Len(b) /\ i + 1 \in 1 .. Len(b) /\ n + i \in Nat
          /\ n + (i + 1) = (n + i) + 1
      BY <1>1
    <3>2. n + (i + 1) \in C <=> i + 1 \in B
      BY <1>3, <3>1
    <3>3. Count(C, n + (i + 1)) = IF i + 1 \in B THEN Count(C, n + i) + 1 ELSE Count(C, n + i)
      BY <1>7, <3>1, <3>2
    <3>4. Count(B, i + 1) = IF i + 1 \in B THEN Count(B, i) + 1 ELSE Count(B, i)
      BY <1>6, <3>1
    <3>5. Count(C, n + i) = Cardinality(A) + Count(B, i) /\ Count(B, i) \in Nat
      BY <1>6, <2>2, <3>1
    <3>6. Count(C, n + (i + 1)) = Cardinality(A) + Count(B, i + 1)
      BY <1>2, <3>3, <3>4, <3>5
    <3> QED BY <3>1, <3>6
  <2> HIDE DEF T
  <2> QED BY <1>1, <2>1, <2>2, UpTo
<1>11. Count(C, n + Len(b)) = Cardinality(A) + Count(B, Len(b))
  BY <1>1, <1>10
<1>12. Cardinality(C) = Cardinality(A) + Cardinality(B)
  BY <1>2, <1>11
<1> QED BY <1>12 DEF A, B, C, c

\* A sequence is its beginning and its end.
LEMMA Split ==
  ASSUME NEW S, NEW b \in Seq(S), NEW i \in 0 .. Len(b)
  PROVE  /\ SubSeq(b, 1, i) \in Seq(S) /\ SubSeq(b, i + 1, Len(b)) \in Seq(S)
         /\ b = SubSeq(b, 1, i) \o SubSeq(b, i + 1, Len(b))
<1> DEFINE x == SubSeq(b, 1, i)
           y == SubSeq(b, i + 1, Len(b))
<1>1. x \in Seq(S) /\ Len(x) = i /\ \A k \in 1 .. i : x[k] = b[k]
  OBVIOUS
<1>2. y \in Seq(S) /\ Len(y) = Len(b) - i /\ \A k \in 1 .. Len(b) - i : y[k] = b[i + k]
  OBVIOUS
<1> HIDE DEF x, y
<1>3. /\ x \o y \in Seq(S) /\ Len(x \o y) = Len(b)
      /\ \A k \in 1 .. i : (x \o y)[k] = x[k]
      /\ \A k \in i + 1 .. Len(b) : (x \o y)[k] = y[k - i]
  <2>1. /\ x \o y \in Seq(S) /\ Len(x \o y) = Len(x) + Len(y)
        /\ \A k \in 1 .. Len(x) : (x \o y)[k] = x[k]
        /\ \A k \in Len(x) + 1 .. Len(x) + Len(y) : (x \o y)[k] = y[k - Len(x)]
    BY <1>1, <1>2, ConcatFacts
  <2>2. Len(x) = i /\ Len(x) + Len(y) = Len(b)
    BY <1>1, <1>2
  <2> QED BY <2>1, <2>2
<1>4. ASSUME NEW k \in 1 .. Len(b) PROVE (x \o y)[k] = b[k]
  <2>1. CASE k <= i
    BY <1>1, <1>3, <2>1
  <2>2. CASE ~ k <= i
    <3>1. k \in i + 1 .. Len(b) /\ k - i \in 1 .. Len(b) - i /\ i + (k - i) = k
      BY <2>2
    <3> QED BY <1>2, <1>3, <3>1
  <2> QED BY <2>1, <2>2
<1>5. b = x \o y
  BY <1>3, <1>4, SameSeq
<1> QED BY <1>1, <1>2, <1>5 DEF x, y

LEMMA Concat3 ==
  ASSUME NEW S, NEW a \in Seq(S), NEW b \in Seq(S), NEW c \in Seq(S)
  PROVE  (a \o b) \o c = a \o (b \o c)
<1> DEFINE x == (a \o b) \o c
           y == a \o (b \o c)
           ab == a \o b
           bc == b \o c
<1>1. /\ ab \in Seq(S) /\ Len(ab) = Len(a) + Len(b) /\ bc \in Seq(S) /\ Len(bc) = Len(b) + Len(c)
      /\ \A i \in 1 .. Len(a) : ab[i] = a[i]
      /\ \A i \in Len(a) + 1 .. Len(a) + Len(b) : ab[i] = b[i - Len(a)]
      /\ \A i \in 1 .. Len(b) : bc[i] = b[i]
      /\ \A i \in Len(b) + 1 .. Len(b) + Len(c) : bc[i] = c[i - Len(b)]
      /\ Len(a) \in Nat /\ Len(b) \in Nat /\ Len(c) \in Nat
  BY ConcatFacts
<1>7. x = ab \o c /\ y = a \o bc
  OBVIOUS
<1> HIDE DEF ab, bc, x, y
<1>2. /\ x \in Seq(S) /\ Len(x) = Len(ab) + Len(c)
      /\ \A i \in 1 .. Len(ab) : x[i] = ab[i]
      /\ \A i \in Len(ab) + 1 .. Len(ab) + Len(c) : x[i] = c[i - Len(ab)]
  BY <1>1, <1>7, ConcatFacts
<1>3. /\ y \in Seq(S) /\ Len(y) = Len(a) + Len(bc)
      /\ \A i \in 1 .. Len(a) : y[i] = a[i]
      /\ \A i \in Len(a) + 1 .. Len(a) + Len(bc) : y[i] = bc[i - Len(a)]
  BY <1>1, <1>7, ConcatFacts
<1>4. ASSUME NEW i \in 1 .. Len(x) PROVE x[i] = y[i]
  <2>1. CASE i <= Len(a)
    BY <1>1, <1>2, <1>3, <2>1
  <2>2. CASE i > Len(a) /\ i <= Len(a) + Len(b)
    <3>1. /\ i \in 1 .. Len(ab) /\ i \in Len(a) + 1 .. Len(a) + Len(b)
          /\ i \in Len(a) + 1 .. Len(a) + Len(bc) /\ i - Len(a) \in 1 .. Len(b)
      BY <1>1, <2>2
    <3> QED BY <1>1, <1>2, <1>3, <3>1
  <2>3. CASE i > Len(a) + Len(b)
    <3>1. /\ i \in Len(ab) + 1 .. Len(ab) + Len(c) /\ i \in Len(a) + 1 .. Len(a) + Len(bc)
          /\ i - Len(a) \in Len(b) + 1 .. Len(b) + Len(c) /\ (i - Len(a)) - Len(b) = i - Len(ab)
      BY <1>1, <1>2, <2>3
    <3>2. x[i] = c[i - Len(ab)] /\ y[i] = bc[i - Len(a)]
      BY <1>2, <1>3, <3>1
    <3>3. bc[i - Len(a)] = c[(i - Len(a)) - Len(b)]
      BY <1>1, <3>1
    <3> QED BY <3>1, <3>2, <3>3
  <2> QED BY <1>1, <1>2, <2>1, <2>2, <2>3
<1>5. Len(x) = Len(y)
  BY <1>1, <1>2, <1>3
<1>6. x = y
  BY <1>2, <1>3, <1>4, <1>5, SameSeq
<1> QED BY <1>6 DEF x, y

\* The end of what is put together is a suffix of it.
LEMMA SuffixOfConcat ==
  ASSUME NEW S, NEW a \in Seq(S), NEW b \in Seq(S)
  PROVE  IsSuffix(b, a \o b)
<1> DEFINE c == a \o b
           n == Len(a)
           m == Len(b)
           x == [i \in 1 .. m |-> b[(m - i) + 1]]
           y == [i \in 1 .. Len(c) |-> c[(Len(c) - i) + 1]]
<1>1. /\ c \in Seq(S) /\ Len(c) = n + m /\ n \in Nat /\ m \in Nat
      /\ \A i \in n + 1 .. n + m : c[i] = b[i - n]
  BY ConcatFacts
<1>2. Reverse(b) = x /\ Reverse(c) = y
  BY DEF Reverse
<1> HIDE DEF c, n
<1>3. x \in Seq(S) /\ Len(x) = m /\ y \in Seq(S) /\ Len(y) = n + m
  <2>1. \A i \in 1 .. m : b[(m - i) + 1] \in S
    BY <1>1
  <2>2. \A i \in 1 .. n + m : c[((n + m) - i) + 1] \in S
    BY <1>1
  <2> QED BY <1>1, <2>1, <2>2
<1>4. ASSUME NEW i \in 1 .. m PROVE x[i] = y[i]
  <2>1. /\ i \in 1 .. n + m /\ ((n + m) - i) + 1 \in n + 1 .. n + m
        /\ (((n + m) - i) + 1) - n = (m - i) + 1
    BY <1>1
  <2>2. y[i] = c[((n + m) - i) + 1]
    BY <1>1, <2>1
  <2> QED BY <1>1, <2>1, <2>2
<1> HIDE DEF x, y, m
<1>5. SubSeq(x, 1, m) = SubSeq(y, 1, m)
  <2>1. /\ SubSeq(x, 1, m) \in Seq(S) /\ Len(SubSeq(x, 1, m)) = m
        /\ \A i \in 1 .. m : SubSeq(x, 1, m)[i] = x[i]
    BY <1>1, <1>3
  <2>2. /\ SubSeq(y, 1, m) \in Seq(S) /\ Len(SubSeq(y, 1, m)) = m
        /\ \A i \in 1 .. m : SubSeq(y, 1, m)[i] = y[i]
    BY <1>1, <1>3
  <2> QED BY <1>4, <2>1, <2>2, SameSeq
<1>6. Len(x) <= Len(y)
  BY <1>1, <1>3
<1> QED BY <1>2, <1>3, <1>5, <1>6 DEF IsSuffix, IsPrefix, c

\* What a rank has read is what was trained on, and behind it its buffer.
ReadBy(r) == FlattenSeq(SubSeq(made, 1, consumer[r].uid - 1))
UsedUp ==
  \A r \in Ranks : \E used \in Seq(BOOLEAN) :
    /\ ReadBy(r) = used \o consumer[r].buffer
    /\ Cardinality(EffectiveIn(used)) = trainer.trained * Global(MinibatchSize)

LEMMA MadeType ==
  ASSUME Types
  PROVE  made \in Seq(Seq(BOOLEAN)) /\ Len(made) \in Nat
<1>1. made \in Seq(Rollouts) /\ MicrobatchSize \in Nat
  BY SizesAreNat DEF Types
<1>2. ASSUME NEW g \in Rollouts PROVE g \in Seq(BOOLEAN)
  BY <1>1 DEF Rollouts
<1>3. \A i \in 1 .. Len(made) : made[i] \in Seq(BOOLEAN)
  BY <1>1, <1>2
<1>4. made = [i \in 1 .. Len(made) |-> made[i]] /\ Len(made) \in Nat
  BY <1>1
<1>5. [i \in 1 .. Len(made) |-> made[i]] \in Seq(Seq(BOOLEAN))
  BY <1>3, <1>4
<1> QED BY <1>4, <1>5

\* What was queued is never taken back.
LEMMA MadeGrows ==
  ASSUME Types, [Next]_vars
  PROVE  \A m \in 0 .. Len(made) : SubSeq(made', 1, m) = SubSeq(made, 1, m)
<1>1. made \in Seq(Rollouts)
  BY DEF Types
<1>2. UNCHANGED made \/ \E p \in Producers : RollOut(p)
  <2>1. UNCHANGED vars => UNCHANGED made
    BY DEF vars
  <2>2. \A r \in Ranks : Fetch(r) => UNCHANGED made
    BY DEF Fetch
  <2>3. \A p \in Producers : PickUp(p) => UNCHANGED made
    BY DEF PickUp
  <2> QED BY <2>1, <2>2, <2>3, QueueIs
<1>3. ASSUME NEW p \in Producers, RollOut(p)
      PROVE  \A m \in 0 .. Len(made) : SubSeq(made', 1, m) = SubSeq(made, 1, m)
  <2>1. PICK g \in Rollouts : made' = Append(made, g)
    BY <1>3 DEF RollOut, Rollouts
  <2> SUFFICES ASSUME NEW m \in 0 .. Len(made)
               PROVE  SubSeq(Append(made, g), 1, m) = SubSeq(made, 1, m)
    BY <2>1
  <2> DEFINE a == Append(made, g)
             x == SubSeq(a, 1, m)
             y == SubSeq(made, 1, m)
  <2>2. /\ a \in Seq(Rollouts) /\ Len(a) = Len(made) + 1 /\ Len(made) \in Nat
        /\ \A i \in 1 .. Len(made) : a[i] = made[i]
    BY <1>1
  <2>3. y \in Seq(Rollouts) /\ Len(y) = m /\ \A i \in 1 .. m : y[i] = made[i]
    BY <1>1
  <2> HIDE DEF a
  <2>4. x \in Seq(Rollouts) /\ Len(x) = m /\ \A i \in 1 .. m : x[i] = a[i]
    BY <2>2
  <2> HIDE DEF x, y
  <2>5. \A i \in 1 .. m : x[i] = y[i]
    BY <2>2, <2>3, <2>4
  <2>6. x = y
    BY <2>3, <2>4, <2>5, SameSeq
  <2> QED BY <2>6 DEF x, y, a
<1> QED BY <1>2, <1>3

\* Only training counts a step, and it only moves effective groups from the
\* buffers to what is used up.
LEMMA TrainCuts ==
  ASSUME Types, Buffered, Train, NEW r \in Ranks
  PROVE  \E first \in Seq(BOOLEAN) :
           /\ consumer[r].buffer = first \o consumer'[r].buffer
           /\ Cardinality(EffectiveIn(first)) = Global(MinibatchSize)
<1> DEFINE b == consumer[r].buffer
<1>1. /\ b \in Seq(BOOLEAN) /\ Enough(b) /\ consumer'[r].buffer = AfterStep(b)
  <2>1. consumer[r] \in ConsumerType
    BY DEF Types
  <2> QED BY <2>1, TrainIs DEF ConsumerType
<1> HIDE DEF b
<1>2. PICK i \in 1 .. Len(b) : /\ Count(EffectiveIn(b), i) = Global(MinibatchSize)
                               /\ AfterStep(b) = SubSeq(b, i + 1, Len(b))
  BY <1>1, AfterStepIs
<1> DEFINE first == SubSeq(b, 1, i)
<1>3. i \in 0 .. Len(b)
  BY <1>1
<1>4. first \in Seq(BOOLEAN) /\ b = first \o SubSeq(b, i + 1, Len(b))
  BY <1>1, <1>3, Split
<1>5. DOMAIN first = 1 .. i /\ DOMAIN b = 1 .. Len(b) /\ \A j \in 1 .. i : first[j] = b[j]
  BY <1>1, <1>3
<1> HIDE DEF first
<1>6. EffectiveIn(first) = {j \in EffectiveIn(b) : j <= i}
  <2>1. \A j \in 1 .. Len(b) : j <= i <=> j \in 1 .. i
    BY <1>1, <1>3
  <2>2. \A j \in 1 .. i : j \in 1 .. Len(b)
    BY <1>1, <1>3
  <2> QED BY <1>5, <2>1, <2>2 DEF EffectiveIn
<1>7. Cardinality(EffectiveIn(first)) = Global(MinibatchSize)
  BY <1>2, <1>6 DEF Count
<1>8. b = first \o consumer'[r].buffer
  BY <1>1, <1>2, <1>4
<1> QED BY <1>4, <1>7, <1>8 DEF b

LEMMA UsedUpStays ==
  ASSUME Sound, UsedUp, [Next]_vars
  PROVE  UsedUp'
<1>1. Types /\ Known /\ Buffered /\ made \in Seq(Seq(BOOLEAN)) /\ Len(made) \in Nat
  BY MadeType DEF Sound
<1>2. ASSUME NEW r \in Ranks
      PROVE  /\ consumer[r].uid \in Nat \ {0} /\ consumer[r].uid - 1 \in 0 .. Len(made)
             /\ consumer[r].buffer \in Seq(BOOLEAN)
  <2>1. consumer[r] \in ConsumerType /\ consumer[r].uid <= Len(made) + 1
    BY <1>1 DEF Types, Known
  <2>2. consumer[r].uid \in Nat \ {0} /\ consumer[r].buffer \in Seq(BOOLEAN)
    BY <2>1 DEF ConsumerType
  <2> QED BY <1>1, <2>1, <2>2
<1>3. ASSUME NEW r \in Ranks, consumer'[r].uid = consumer[r].uid
      PROVE  ReadBy(r)' = ReadBy(r)
  BY <1>1, <1>2, <1>3, MadeGrows DEF ReadBy
<1>4. trainer.trained \in Nat /\ Global(MinibatchSize) \in Nat
  BY <1>1, SizesAreNat DEF Types, TrainerType
<1>5. ASSUME NEW r \in Ranks, consumer'[r].uid = consumer[r].uid,
             consumer'[r].buffer = consumer[r].buffer, trainer'.trained = trainer.trained
      PROVE  \E used \in Seq(BOOLEAN) :
               /\ ReadBy(r)' = used \o consumer'[r].buffer
               /\ Cardinality(EffectiveIn(used)) = trainer'.trained * Global(MinibatchSize)
  BY <1>3, <1>5 DEF UsedUp
<1>6. CASE Train
  <2>1. trainer'.trained = trainer.trained + 1
    BY <1>6 DEF Train
  <2>2. ASSUME NEW r \in Ranks
        PROVE  \E used \in Seq(BOOLEAN) :
                 /\ ReadBy(r)' = used \o consumer'[r].buffer
                 /\ Cardinality(EffectiveIn(used)) = trainer'.trained * Global(MinibatchSize)
    <3>1. PICK used \in Seq(BOOLEAN) :
            /\ ReadBy(r) = used \o consumer[r].buffer
            /\ Cardinality(EffectiveIn(used)) = trainer.trained * Global(MinibatchSize)
      BY DEF UsedUp
    <3>2. PICK first \in Seq(BOOLEAN) :
            /\ consumer[r].buffer = first \o consumer'[r].buffer
            /\ Cardinality(EffectiveIn(first)) = Global(MinibatchSize)
      BY <1>1, <1>6, TrainCuts
    <3>3. consumer'[r].uid = consumer[r].uid /\ consumer'[r].buffer \in Seq(BOOLEAN)
      <4>1. consumer'[r] \in ConsumerType /\ consumer'[r].uid = consumer[r].uid
        BY <1>1, <1>6, TrainIs
      <4> QED BY <4>1 DEF ConsumerType
    <3>4. ReadBy(r)' = ReadBy(r)
      BY <1>3, <3>3
    <3>5. ReadBy(r) = (used \o first) \o consumer'[r].buffer
      <4> DEFINE x == consumer'[r].buffer
      <4>1. x \in Seq(BOOLEAN) /\ ReadBy(r) = used \o (first \o x)
        BY <3>1, <3>2, <3>3
      <4> HIDE DEF x
      <4>2. (used \o first) \o x = used \o (first \o x)
        BY <4>1, Concat3
      <4> QED BY <4>1, <4>2 DEF x
    <3>6. used \o first \in Seq(BOOLEAN)
      BY ConcatFacts
    <3>7. Cardinality(EffectiveIn(used \o first))
            = trainer.trained * Global(MinibatchSize) + Global(MinibatchSize)
      BY <3>1, <3>2, EffectiveOfConcat
    <3>8. \A m, k \in Nat : m * k + k = (m + 1) * k
      OBVIOUS
    <3>9. Cardinality(EffectiveIn(used \o first)) = trainer'.trained * Global(MinibatchSize)
      BY <1>4, <2>1, <3>7, <3>8
    <3> QED BY <3>4, <3>5, <3>6, <3>9
  <2> QED BY <2>2 DEF UsedUp
<1>7. ASSUME NEW r \in Ranks, Fetch(r) PROVE UsedUp'
  <2> DEFINE m == made[consumer[r].uid]
             u == consumer[r].uid
  <2>1. /\ u \in 1 .. Len(made) /\ m \in Seq(BOOLEAN)
        /\ consumer' = [consumer EXCEPT ![r] = consumer'[r]]
        /\ consumer'[r].uid = u + 1 /\ consumer'[r].buffer = consumer[r].buffer \o m
    BY <1>1, <1>7, FetchIs
  <2>2. made' = made /\ trainer' = trainer
    BY <1>7 DEF Fetch
  <2>3. PICK used \in Seq(BOOLEAN) :
          /\ ReadBy(r) = used \o consumer[r].buffer
          /\ Cardinality(EffectiveIn(used)) = trainer.trained * Global(MinibatchSize)
    BY DEF UsedUp
  <2>4. ReadBy(r)' = ReadBy(r) \o m
    <3> DEFINE n == u - 1
    <3>1. n \in 0 .. Len(made) - 1 /\ n + 1 = u /\ (u + 1) - 1 = u
      <4> HIDE DEF m, u
      <4> QED BY <1>1, <2>1
    <3> HIDE DEF n
    <3>2. FlattenSeq(SubSeq(made, 1, n + 1)) = FlattenSeq(SubSeq(made, 1, n)) \o made[n + 1]
      BY <1>1, <3>1, FlattenNext
    <3>3. ReadBy(r)' = FlattenSeq(SubSeq(made, 1, u))
      BY <2>1, <2>2, <3>1 DEF ReadBy
    <3>4. ReadBy(r) = FlattenSeq(SubSeq(made, 1, n))
      BY DEF ReadBy, n
    <3> QED BY <3>1, <3>2, <3>3, <3>4
  <2> HIDE DEF m, u
  <2>5. ReadBy(r)' = used \o consumer'[r].buffer
    <3> DEFINE x == consumer[r].buffer
    <3>1. x \in Seq(BOOLEAN) /\ m \in Seq(BOOLEAN) /\ ReadBy(r)' = (used \o x) \o m
      BY <1>2, <2>1, <2>3, <2>4
    <3>2. consumer'[r].buffer = x \o m
      BY <2>1
    <3> HIDE DEF x
    <3>3. (used \o x) \o m = used \o (x \o m)
      BY <3>1, Concat3
    <3> QED BY <3>1, <3>2, <3>3
  <2>6. \E e \in Seq(BOOLEAN) :
          /\ ReadBy(r)' = e \o consumer'[r].buffer
          /\ Cardinality(EffectiveIn(e)) = trainer'.trained * Global(MinibatchSize)
    BY <2>2, <2>3, <2>5
  <2>7. ASSUME NEW s \in Ranks, s # r
        PROVE  \E e \in Seq(BOOLEAN) :
                 /\ ReadBy(s)' = e \o consumer'[s].buffer
                 /\ Cardinality(EffectiveIn(e)) = trainer'.trained * Global(MinibatchSize)
    <3>1. consumer'[s] = consumer[s]
      BY <1>1, <2>1, <2>7 DEF Types
    <3> QED BY <1>5, <2>2, <3>1
  <2> QED BY <2>6, <2>7 DEF UsedUp
<1>8. CASE /\ ~ Train
           /\ \A r \in Ranks : /\ consumer'[r].uid = consumer[r].uid
                               /\ consumer'[r].buffer = consumer[r].buffer
  <2>1. trainer'.trained = trainer.trained
    <3>1. UNCHANGED vars => UNCHANGED trainer
      BY DEF vars
    <3>2. Offload \/ WakeDistributors \/ Barrier \/ BeginBroadcast \/ EndBroadcast \/ Evaluate
            => UNCHANGED trainer
      BY DEF Offload, WakeDistributors, Barrier, BeginBroadcast, EndBroadcast, Evaluate
    <3>3. \A r \in Ranks : Fetch(r) \/ Terminate(r) => UNCHANGED trainer
      BY DEF Fetch, Terminate
    <3>4. \A p \in Producers : Look(p) \/ PickUp(p) \/ RollOut(p) \/ Load(p) \/ AskForWeights(p)
            => UNCHANGED trainer
      BY DEF Look, PickUp, RollOut, Load, AskForWeights
    <3>5. \A p \in Producers : Poll(p) \/ Clear(p) \/ ClearProducer(p) \/ Answer(p) \/ Publish(p)
            => UNCHANGED trainer
      BY DEF Poll, Clear, ClearProducer, Answer, Publish
    <3> QED BY <1>8, <3>1, <3>2, <3>3, <3>4, <3>5, Steps
  <2> QED BY <1>5, <1>8, <2>1 DEF UsedUp
<1> QED BY <1>1, <1>6, <1>7, <1>8, ConsumerIs

LEMMA UsedUpAtInit ==
  ASSUME Init
  PROVE  UsedUp
<1>1. ASSUME NEW r \in Ranks PROVE ReadBy(r) = <<>> \o consumer[r].buffer
  <2>1. consumer[r].uid - 1 = 0 /\ consumer[r].buffer = <<>> /\ made = <<>>
    BY DEF Init
  <2>2. SubSeq(made, 1, 0) = <<>>
    BY <2>1
  <2>3. <<>> \o <<>> = <<>> /\ Len(<<>>) = 0
    OBVIOUS
  <2> QED BY <2>1, <2>2, <2>3 DEF ReadBy, FlattenSeq
<1>2. EffectiveIn(<<>>) = {} /\ <<>> \in Seq(BOOLEAN)
  BY DEF EffectiveIn
<1>3. Cardinality(EffectiveIn(<<>>)) = trainer.trained * Global(MinibatchSize)
  <2>1. trainer.trained = 0
    BY DEF Init
  <2>2. 0 * Global(MinibatchSize) = 0
    BY SizesAreNat
  <2> QED BY <1>2, <2>1, <2>2, FS_EmptySet
<1> QED BY <1>1, <1>2, <1>3 DEF UsedUp

\* Every rank has read the batches in one order, up to its place, and has
\* trained on the effective groups but those in its buffer, which end it.
THEOREM NothingIsSkipped == Spec => []NothingSkipped
<1>1. Init => UsedUp
  BY UsedUpAtInit
<1>2. Sound /\ UsedUp /\ [Next]_vars => UsedUp'
  BY UsedUpStays
<1>3. Sound /\ UsedUp => NothingSkipped
  <2> SUFFICES ASSUME Sound, UsedUp, NEW r \in Ranks
               PROVE  /\ IsSuffix(consumer[r].buffer, ReadBy(r))
                      /\ Cardinality(EffectiveIn(ReadBy(r)))
                           - Cardinality(EffectiveIn(consumer[r].buffer))
                           = trainer.trained * Global(MinibatchSize)
    BY DEF NothingSkipped, ReadBy
  <2> DEFINE b == consumer[r].buffer
  <2>1. b \in Seq(BOOLEAN)
    <3>1. consumer[r] \in ConsumerType
      BY DEF Sound, Types
    <3> QED BY <3>1 DEF ConsumerType
  <2>2. PICK used \in Seq(BOOLEAN) :
          /\ ReadBy(r) = used \o b
          /\ Cardinality(EffectiveIn(used)) = trainer.trained * Global(MinibatchSize)
    BY DEF UsedUp
  <2>3. IsSuffix(b, ReadBy(r))
    BY <2>1, <2>2, SuffixOfConcat
  <2>4. Cardinality(EffectiveIn(ReadBy(r)))
          = Cardinality(EffectiveIn(used)) + Cardinality(EffectiveIn(b))
    BY <2>1, <2>2, EffectiveOfConcat
  <2>5. Cardinality(EffectiveIn(used)) \in Nat /\ Cardinality(EffectiveIn(b)) \in Nat
    BY <2>1, EffectiveFacts
  <2> QED BY <2>2, <2>3, <2>4, <2>5
<1> QED BY <1>1, <1>2, <1>3, SoundAlways, PTL DEF Spec

===============================================================================
