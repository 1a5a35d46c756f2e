----------------------------- MODULE ZeroBubbleRL -----------------------------
(***************************************************************************)
(* ColossalChat's zero-bubble reinforcement learning:                      *)
(*   applications/ColossalChat/coati/distributed/zero_bubble/              *)
(*   {consumer,producer,distributor,grpo_consumer}.py,                     *)
(*   coati/distributed/comm.py (SharedVariableActor).                      *)
(*                                                                         *)
(* Producers roll batches out into the queue of one actor; every rank of   *)
(* the consumer reads every batch, and the ranks train together.  Weights  *)
(* travel back by way of distributors, one per producer, which poll the    *)
(* signals of a second actor.  Both sides of the way back are threads that *)
(* run beside the main loops.  An action is a call of an actor, a joint    *)
(* collective, or the local work between two of these.  No pipeline and no *)
(* tensor parallelism within the consumer (pp_size = tp_size = 1).         *)
(***************************************************************************)
EXTENDS Integers, FiniteSets, SequencesExt

CONSTANTS
  Producers,      \* each with the distributor of its index
  Ranks,          \* of the consumer, which is data parallel
  Episodes,       \* num_episodes
  Batches,        \* num_valid_microbatches, per producer and episode
  PerUpdate,      \* num_microbatches of a producer
  MicrobatchSize, \* prompts of a rollout
  MinibatchSize,  \* prompts of a training step, per rank
  BatchSize,      \* prompts of an update, per rank
  BufferLimit,    \* data_actor_buffer_size_limit
  EvalInterval,   \* eval_interval
  Modes,          \* subset of: "filters" groups by accuracy, "evaluates"
  MayBeFiltered   \* bound: uids of the batches whose groups may be filtered out

ASSUME SizesAssumption ==
  /\ {Episodes, Batches, PerUpdate, MicrobatchSize, MinibatchSize, BatchSize,
      BufferLimit, EvalInterval} \subseteq Nat \ {0}
  /\ Modes \subseteq {"filters", "evaluates"} /\ MayBeFiltered \subseteq Nat
  /\ Producers # {} /\ Ranks # {} /\ IsFiniteSet(Producers) /\ IsFiniteSet(Ranks)

VARIABLES
  data,        \* the data actor: its queue of uids and reads, and queue_size
  made,        \* what was ever queued: uid -> for each group, is it effective
  signal,      \* the signal actor
  consumer,    \* rank -> main loop
  trainer,     \* what the ranks have in common
  cpu,         \* version of the consumer's state_dict_cpu
  threads,     \* the consumer's sync threads, each by the version it was started
               \* for: yet to signal, about to broadcast, in the broadcast
  producer,    \* main loop and sync thread of each
  distributor, \* loop of each
  mode         \* one of Modes

vars == <<data, made, signal, consumer, trainer, cpu, threads, producer,
          distributor, mode>>

Total     == Batches * MicrobatchSize * Cardinality(Producers)  \* train_dataset_size
LastBatch == Episodes * Batches - 1
Global(n) == n * Cardinality(Ranks)

Init ==
  /\ data = [queue |-> <<>>, size |-> 0]
  /\ made = <<>>
  /\ signal = [consumer |-> "none", producer |-> [p \in Producers |-> "none"],
               step |-> 0, version |-> 0]
  /\ consumer = [r \in Ranks |-> [pc |-> "fetch", uid |-> 1, received |-> 0,
                                  episode |-> 0, buffer |-> <<>>]]
  /\ trainer = [count |-> 0, step |-> 0, sync |-> FALSE, trained |-> 0]
  /\ cpu = 0 /\ threads = [waking |-> {}, sending |-> {}, busy |-> {}]
  /\ producer = [p \in Producers |->
       [pc |-> "sync", n |-> 0, latest |-> -1, version |-> 0,
        started |-> FALSE, thread |-> "none", cpu |-> {}, model |-> {0}]]
  /\ distributor = [d \in Producers |->
       [pc |-> "poll", asked |-> FALSE, ending |-> FALSE, version |-> 0, last |-> 0,
        weights |-> {}]]
  /\ mode \in Modes

-----------------------------------------------------------------------------
(* The consumer.  A group that is not effective stays in the buffer, as    *)
(* None, until the training step that passes over it.                      *)
EffectiveIn(b)  == {i \in DOMAIN b : b[i]}
Enough(b)       == Cardinality(EffectiveIn(b)) >= Global(MinibatchSize)

\* Mutant: the groups after the first ineffective one are cut by their count.
AfterCount(b) == SubSeq(b, Global(MinibatchSize) + 1, Len(b))

\* The buffer after a training step: cut behind the last group used.
AfterStep(b) ==
  LET last == CHOOSE i \in EffectiveIn(b) :
        Cardinality({j \in EffectiveIn(b) : j <= i}) = Global(MinibatchSize)
  IN SubSeq(b, last + 1, Len(b))

\* The head of the loop over prompts and of the loop over episodes.
AtHead(c) ==
  CASE c.received < Total -> [c EXCEPT !.pc = "fetch"]
    [] c.received >= Total /\ c.episode + 1 < Episodes ->
         [c EXCEPT !.pc = "fetch", !.received = 0, !.episode = @ + 1]
    [] OTHER -> [c EXCEPT !.pc = "terminate", !.received = 0]

\* Mutant: a batch leaves the queue with its first reader.
WithoutFirstRead(i) ==
  [queue |-> RemoveAt(data.queue, i), size |-> data.size - MicrobatchSize]

\* get_data of a batch that is there; its last reader removes it.
DataAfterRead(i) ==
  IF data.queue[i].reads + 1 < Cardinality(Ranks)
  THEN [data EXCEPT !.queue[i].reads = @ + 1]
  ELSE [queue |-> RemoveAt(data.queue, i), size |-> data.size - MicrobatchSize]

Fetch(r) ==
  /\ consumer[r].pc = "fetch"
  /\ \E i \in DOMAIN data.queue :
       /\ data.queue[i].uid = consumer[r].uid
       /\ data' = DataAfterRead(i)
       /\ LET buffer == consumer[r].buffer \o made[consumer[r].uid]
          IN consumer' = [consumer EXCEPT
               ![r].uid = @ + 1, ![r].received = @ + MicrobatchSize,
               ![r].buffer = buffer,
               ![r].pc = IF Enough(buffer) THEN "train" ELSE "fetch"]
  /\ UNCHANGED <<made, signal, trainer, cpu, threads, producer, distributor, mode>>

\* A training step, with its all-reduces; an update when enough was accumulated.
\* global_step is counted by the update and once more for the signal.
Train ==
  /\ \A r \in Ranks : consumer[r].pc = "train"
  /\ LET count  == trainer.count + Global(MinibatchSize)
         update == count >= Global(BatchSize)
         sync   == trainer.sync \/ update
         Final(c) == c.episode = Episodes - 1 /\ c.received = Total
         After(c) == LET rest == [c EXCEPT !.buffer = AfterStep(@)]
                     IN CASE Enough(rest.buffer) -> rest
                          [] ~Enough(rest.buffer) /\ sync /\ ~Final(c) ->
                               [rest EXCEPT !.pc = "offload"]
                          [] OTHER -> AtHead(rest)
     IN /\ consumer' = [r \in Ranks |-> After(consumer[r])]
        /\ trainer' = [count |-> IF update THEN 0 ELSE count,
                       step |-> IF update THEN trainer.step + 1 ELSE trainer.step,
                       sync |-> sync /\ \E r \in Ranks : After(consumer[r]).pc = "train",
                       trained |-> trainer.trained + 1]
        /\ signal' = IF update THEN [signal EXCEPT !.step = trainer.step + 2] ELSE signal
  /\ UNCHANGED <<data, made, cpu, threads, producer, distributor, mode>>

\* The weights are copied to the CPU; after the ranks' barrier a thread is started.
\* The flag that should keep a second thread away is cleared at once.
\* Distributors that are receiving get tensors of both versions.
Offload ==
  /\ \A r \in Ranks : consumer[r].pc = "offload"
  /\ cpu' = trainer.step
  /\ threads' = [threads EXCEPT !.waking = @ \cup {trainer.step}]
  /\ distributor' = [d \in Producers |->
       IF distributor[d].pc = "receiving"
       THEN [distributor[d] EXCEPT !.weights = @ \cup {trainer.step}]
       ELSE distributor[d]]
  /\ consumer' = [r \in Ranks |-> AtHead(consumer[r])]
  /\ UNCHANGED <<data, made, signal, trainer, producer, mode>>

Terminate(r) ==
  /\ consumer[r].pc = "terminate"
  /\ signal' = [signal EXCEPT !.consumer = "terminate"]
  /\ consumer' = [consumer EXCEPT ![r].pc = "done"]
  /\ UNCHANGED <<data, made, trainer, cpu, threads, producer, distributor, mode>>

\* A sync thread announces itself and goes into the broadcast.
WakeDistributors ==
  /\ \E v \in threads.waking :
       threads' = [threads EXCEPT !.waking = @ \ {v}, !.sending = @ \cup {v}]
  /\ signal' = [signal EXCEPT !.consumer = "ready"]
  /\ UNCHANGED <<data, made, consumer, trainer, cpu, producer, distributor, mode>>

-----------------------------------------------------------------------------
(* The distributors.  One turn of the loop works on one copy of the        *)
(* signals: the consumer's part, the producer's part, the end, the version *)
AfterProducer(d) ==
  CASE d.ending -> "done"
    [] ~d.ending /\ d.version # d.last -> "publish"
    [] OTHER -> "poll"
AfterConsumer(d) == IF d.asked THEN "answer" ELSE AfterProducer(d)

Poll(d) ==
  /\ distributor[d].pc = "poll"
  /\ \/ signal.consumer \in {"ready", "terminate"}
     \/ signal.producer[d] = "ready"
  /\ LET turn == [distributor[d] EXCEPT
                    !.asked  = (signal.producer[d] = "ready"),
                    !.ending = (signal.consumer = "terminate")]
     IN distributor' = [distributor EXCEPT ![d] =
          [turn EXCEPT !.pc = IF signal.consumer = "ready" THEN "barrier"
                              ELSE AfterConsumer(turn)]]
  /\ UNCHANGED <<data, made, signal, consumer, trainer, cpu, threads, producer, mode>>

Barrier ==
  /\ \A d \in Producers : distributor[d].pc = "barrier"
  /\ distributor' = [d \in Producers |-> [distributor[d] EXCEPT !.pc = "clear"]]
  /\ UNCHANGED <<data, made, signal, consumer, trainer, cpu, threads, producer, mode>>

Clear(d) ==
  /\ distributor[d].pc = "clear"
  /\ signal' = [signal EXCEPT !.consumer = "not ready"]
  /\ distributor' = [distributor EXCEPT ![d].pc = "receive"]
  /\ UNCHANGED <<data, made, consumer, trainer, cpu, threads, producer, mode>>

\* Mutant: a thread sends the weights it was started for.
SentAtStart(v) == v

\* What a thread sends: the one dictionary of the consumer.
Sent(v) == cpu

\* The broadcast, from one of the threads to all distributors.
BeginBroadcast ==
  /\ \A d \in Producers : distributor[d].pc = "receive"
  /\ \E v \in threads.sending :
       /\ threads' = [threads EXCEPT !.sending = @ \ {v}, !.busy = {v}]
       /\ distributor' = [d \in Producers |->
            [distributor[d] EXCEPT !.pc = "receiving", !.weights = {Sent(v)}]]
  /\ UNCHANGED <<data, made, signal, consumer, trainer, cpu, producer, mode>>

EndBroadcast ==
  /\ \A d \in Producers : distributor[d].pc = "receiving"
  /\ threads' = [threads EXCEPT !.busy = {}]
  /\ distributor' = [d \in Producers |->
       LET counted == [distributor[d] EXCEPT !.version = @ + 1]
       IN [counted EXCEPT !.pc = AfterConsumer(counted)]]
  /\ UNCHANGED <<data, made, signal, consumer, trainer, cpu, producer, mode>>

ClearProducer(d) ==
  /\ distributor[d].pc = "answer"
  /\ signal' = [signal EXCEPT !.producer[d] = "not ready"]
  /\ distributor' = [distributor EXCEPT ![d].pc = "send"]
  /\ UNCHANGED <<data, made, consumer, trainer, cpu, threads, producer, mode>>

\* The broadcast from a distributor to its producer, whose thread then ends.
Answer(d) ==
  /\ distributor[d].pc = "send"
  /\ producer[d].thread = "receive"
  /\ producer' = [producer EXCEPT ![d].cpu = distributor[d].weights,
                                  ![d].thread = "none", ![d].started = FALSE]
  /\ distributor' = [distributor EXCEPT ![d].pc = AfterProducer(distributor[d])]
  /\ UNCHANGED <<data, made, signal, consumer, trainer, cpu, threads, mode>>

\* Mutant: the version is announced before the broadcast that brings it.
PublishedAhead(d) == distributor[d].version + 1

Published(d) == distributor[d].version

Publish(d) ==
  /\ distributor[d].pc = "publish"
  /\ signal' = [signal EXCEPT !.version = Published(d)]
  /\ distributor' = [distributor EXCEPT ![d].pc = "poll",
                                        ![d].last = distributor[d].version]
  /\ UNCHANGED <<data, made, consumer, trainer, cpu, threads, producer, mode>>

-----------------------------------------------------------------------------
(* The producers.                                                          *)
EvaluatesAt(p, step) ==
  /\ mode = "evaluates"
  /\ \/ producer[p].latest = -1
     \/ step - producer[p].latest >= EvalInterval

\* Before a rollout: look at the signals (the step and the version, in one call
\* here); start a thread for newer weights, but not for the last rollout, and not
\* while one runs.
Look(p) ==
  /\ producer[p].pc = "sync"
  /\ LET start == /\ producer[p].n # LastBatch
                  /\ ~producer[p].started
                  /\ signal.version # producer[p].version
     IN producer' = [producer EXCEPT
          ![p].latest = IF EvaluatesAt(p, signal.step) THEN signal.step ELSE @,
          ![p].pc = IF EvaluatesAt(p, signal.step) THEN "evaluate" ELSE "pick up",
          ![p].version = IF start THEN signal.version ELSE @,
          ![p].started = start \/ @,
          ![p].thread = IF start THEN "signal" ELSE @]
  /\ UNCHANGED <<data, made, signal, consumer, trainer, cpu, threads, distributor,
                 mode>>

AskForWeights(p) ==
  /\ producer[p].thread = "signal"
  /\ signal' = [signal EXCEPT !.producer[p] = "ready"]
  /\ producer' = [producer EXCEPT ![p].thread = "receive"]
  /\ UNCHANGED <<data, made, consumer, trainer, cpu, threads, distributor, mode>>

\* The evaluation ends in an all-reduce among the producers.
Evaluate ==
  /\ \A p \in Producers : producer[p].pc = "evaluate"
  /\ producer' = [p \in Producers |->
       [producer[p] EXCEPT !.pc = "pick up"]]
  /\ UNCHANGED <<data, made, signal, consumer, trainer, cpu, threads, distributor,
                 mode>>

\* Mutant: every producer that asks is let through.
RoomFor(size) == TRUE

\* pickup_rollout_task.  sample_utilization, which would widen the limit, is set
\* on the other actor: here it has its default.
MayPickUp(size) == size < BufferLimit

PickUp(p) ==
  /\ producer[p].pc = "pick up"
  /\ MayPickUp(data.size)
  /\ data' = [data EXCEPT !.size = @ + MicrobatchSize]
  /\ producer' = [producer EXCEPT ![p].pc = "roll out"]
  /\ UNCHANGED <<made, signal, consumer, trainer, cpu, threads, distributor, mode>>

RollOut(p) ==
  /\ producer[p].pc = "roll out"
  /\ \E groups \in [1 .. MicrobatchSize -> BOOLEAN] :
       /\ (mode # "filters" \/ Len(made) + 1 \notin MayBeFiltered) => FALSE \notin Range(groups)
       /\ made' = Append(made, groups)
  /\ data' = [data EXCEPT !.queue = Append(@, [uid |-> Len(made) + 1, reads |-> 0])]
  /\ producer' = [producer EXCEPT ![p].pc = "load"]
  /\ UNCHANGED <<signal, consumer, trainer, cpu, threads, distributor, mode>>

\* After an update's worth of rollouts: load what the thread has fetched.
Load(p) ==
  /\ producer[p].pc = "load"
  /\ LET n == producer[p].n
     IN producer' = [producer EXCEPT
          ![p].n = n + 1,
          ![p].pc = IF n = LastBatch THEN "done" ELSE "sync",
          ![p].model = IF /\ ((n % Batches) + 1) % PerUpdate = 0
                          /\ n # LastBatch
                          /\ ~producer[p].started
                          /\ producer[p].cpu # {}
                       THEN producer[p].cpu ELSE @]
  /\ UNCHANGED <<data, made, signal, consumer, trainer, cpu, threads, distributor,
                 mode>>

-----------------------------------------------------------------------------
ConsumerNext == Train \/ Offload \/ \E r \in Ranks : Fetch(r) \/ Terminate(r)
ProducerNext(p) == Look(p) \/ PickUp(p) \/ RollOut(p) \/ Load(p)
DistributorNext(d) ==
  Poll(d) \/ Clear(d) \/ ClearProducer(d) \/ Answer(d) \/ Publish(d)
Broadcast == WakeDistributors \/ Barrier \/ BeginBroadcast \/ EndBroadcast

Next ==
  \/ ConsumerNext \/ Broadcast \/ Evaluate
  \/ \E p \in Producers : ProducerNext(p) \/ AskForWeights(p) \/ DistributorNext(p)

\* Processes and threads run; a collective whose members are all there takes place.
Spec ==
  /\ Init /\ [][Next]_vars
  /\ WF_vars(Train) /\ WF_vars(Offload) /\ WF_vars(Broadcast) /\ WF_vars(Evaluate)
  /\ \A r \in Ranks : WF_vars(Fetch(r)) /\ WF_vars(Terminate(r))
  /\ \A p \in Producers :
       WF_vars(ProducerNext(p)) /\ WF_vars(AskForWeights(p)) /\ WF_vars(DistributorNext(p))

-----------------------------------------------------------------------------
TypeOK ==
  /\ data.size \in Nat /\ data.queue \in Seq([uid : 1 .. Len(made), reads : Nat])
  /\ made \in Seq([1 .. MicrobatchSize -> BOOLEAN])
  /\ signal.version \in Nat /\ signal.step \in Nat
  /\ signal.consumer \in {"none", "ready", "not ready", "terminate"}
  /\ \A r \in Ranks :
       /\ consumer[r].pc \in {"fetch", "train", "offload", "terminate", "done"}
       /\ consumer[r].uid \in 1 .. Len(made) + 1
       /\ consumer[r].buffer \in Seq(BOOLEAN)
  /\ threads \in [waking : SUBSET Nat, sending : SUBSET Nat, busy : SUBSET Nat]

(* The queue's counter, by which producers are held back, is changed by    *)
(* other calls than the queue is: taking a task adds, the last read of a   *)
(* batch takes off (comm.py:95, :127).  It always counts the batches being *)
(* rolled out and those not read by all, so the buffer stays within its    *)
(* limit and one task.                                                     *)
QueueCounted ==
  /\ TypeOK
  /\ data.size = MicrobatchSize * (Len(data.queue)
                   + Cardinality({p \in Producers : producer[p].pc = "roll out"}))
  /\ data.size < BufferLimit + MicrobatchSize

(* Every rank reads every batch, whoever made it and whenever, once and in *)
(* one order; the effective groups not in its buffer are those trained on: *)
(* none is passed over, none is trained on twice, by any rank              *)
(* (consumer.py:242, :248).                                                *)
NothingSkipped ==
  \A r \in Ranks :
    LET read == FlattenSeq(SubSeq(made, 1, consumer[r].uid - 1))
        buf  == consumer[r].buffer
    IN /\ IsSuffix(buf, read)
       /\ Cardinality(EffectiveIn(read)) - Cardinality(EffectiveIn(buf))
            = trainer.trained * Global(MinibatchSize)

(* What is announced is there: the version a producer acts on was          *)
(* announced, and every distributor, not only the one that announced it,   *)
(* has received it; so a producer never asks its distributor for weights   *)
(* it does not have (distributor.py:117, producer.py:288).                 *)
AnnouncedIsThere ==
  \A p \in Producers :
    /\ producer[p].version <= signal.version
    /\ \A d \in Producers : signal.version <= distributor[d].version
    /\ producer[p].version > 0 => distributor[p].weights # {}
    /\ \A v \in distributor[p].weights : v <= trainer.step

(* Weights never go back to older ones, at a distributor or in a           *)
(* producer's model, although threads of the consumer overtake each other  *)
(* (consumer.py:339); nor does the announced version, which every          *)
(* distributor writes (distributor.py:117).                                *)
NoOlder(weights, before) == \A v \in weights : before = {} \/ \E w \in before : v >= w

NeverOlder ==
  [][/\ signal'.version >= signal.version
     /\ \A p \in Producers :
          /\ NoOlder(producer'[p].model, producer[p].model)
          /\ NoOlder(distributor'[p].weights, distributor[p].weights)]_vars

(* Without evaluation, producers come to their end whatever becomes of the *)
(* weights; and so does the consumer, if no group is filtered out: then    *)
(* the batches of an episode make whole training steps.  (When some are,   *)
(* the last groups may be too few, and consumer.py:172 waits for ever.)    *)
EveryoneFinishes ==
  mode # "evaluates" =>
    <>(/\ \A p \in Producers : producer[p].pc = "done"
       /\ (\E uid \in DOMAIN made : FALSE \in Range(made[uid])) \/ \A r \in Ranks : consumer[r].pc = "done")

=============================================================================
