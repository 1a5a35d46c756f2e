# A TLA+ project for Colossal-AI

Colossal-AI trains and serves large models on many devices. Most of it is
numerical; what decides whether it is *correct* in the sense of this project is
the bookkeeping around the numbers: which cache block belongs to which
sequence, which caller waits for which request, which rank sends what to whom
in which order, which gradient has been reduced into what, and on which version
of the weights somebody computes. These are the parts modelled here. A tensor
is reduced to what the bookkeeping knows of it.

Paths below are relative to `src/colossalai/` unless they start with `src/`.

## 1. Inventory

### The inference engine

| Part | Source | State | Operations | What makes it correct |
|---|---|---|---|---|
| KV cache manager | `inference/kv_cache/kvcache_manager.py`, `block_cache.py` | `_block_states`, `_available_blocks`, a `CacheBlock` (reference count, tokens) per block; the block tables of its callers | `allocate_context_from_block_tables`, `allocate_tokens_from_block_tables`, `free_block_table(s)`, `clear_all` | a block has one owner, the four ledgers agree, every token has a block, nothing leaks |
| Batch bucket | `inference/batch_bucket.py` | a dictionary of sequences, an index to rows, lengths and block tables by row, a count | `add_seqs`, `pop_seq_update_batch`, `pop_n_seqs`, `merge`, `append_batch_tokens`, `revoke_batch_tokens`, `clear` | a row keeps the length and the table of its own sequence |
| Request handler, engine step | `inference/core/request_handler.py`, `llm_engine.py`, `struct.py` | three waiting lists, the running list (prefill and decoding part), two buckets | `add_sequence`, `abort_sequence`, `schedule`, `append_next_tokens`, `update`, `LLMEngine.step` | no request is lost, the batch never overflows, every request ends |
| Asynchronous engine | `inference/core/async_engine.py` | the tracer's two queues, streams, the event, the background task | `generate`, `abort`, `step`, `run_engine_loop`, `propagate_exception` | every caller gets one answer |

They interact by calls, in one thread. `AsyncInferenceEngine` awaits the forward
pass of `LLMEngine`'s step; meanwhile other coroutines add, abort and cancel.
The step calls `RequestHandler.schedule`, which lets the cache manager write
block tables into a bucket; `append_next_tokens` extends sequences and rows;
`update` merges the prefill bucket into the running one and frees the blocks
of what has finished.

### The pipeline

| Part | Source | State | Operations | What makes it correct |
|---|---|---|---|---|
| 1F1B schedule | `pipeline/schedule/one_f_one_b.py` | batch, counters and last size; saved inputs and outputs; metadata caches and flags | `load_batch`, `load_micro_batch`, the sends and receives and their pairs, `forward_step`, `backward_step`, `run_forward_backward`, `run_forward_only` | nobody waits for ever, gradients meet their activations, buffers fit |
| Interleaved schedule | `pipeline/schedule/interleaved_pp.py` | the same, per chunk, and handles of communications under way | the same, with receives started ahead | a pass runs on its own object, and on one that has come |
| Point-to-point communication | `pipeline/p2p.py`, `stage_manager.py` | none of its own | `_communicate`: metadata where needed, then data | both sides agree on what is on the wire |

One process per stage; they share nothing and meet in sends and receives only.

### Training with sharded state

| Part | Source | State | Operations | What makes it correct |
|---|---|---|---|---|
| Low-level ZeRO | `zero/low_level/low_level_optim.py`, `bookkeeping/*`, `zero_hook.py` | buckets and stores of gradients per process group, shards of master weights, handles of gathers | gradient hooks, `_add_to_bucket`, `_run_reduction`, `_sync_grad`, `step`, `zero_grad` | each microbatch is in the step once, ranks step together, the next forward pass has all new shards |
| Mixed precision | `amp/naive_amp/mixed_precision_mixin/fp16.py`, `grad_scaler/dynamic_grad_scaler.py` | the loss scale with its counters | `should_skip_step`, `update` | an overflow anywhere skips the step everywhere, and does not for ever |
| Gemini | `zero/gemini/chunk/*`, `gemini_mgr.py`, `gemini_hook.py`, `placement_policy.py`, `gemini_ddp.py`, `gemini_optimizer.py` | per chunk: shard, gathered buffer, tensor states, copies; the manager's memory totals and accessed set; the cached eviction lists | operator and gradient hooks, access, release, reduce, move, evict, prefetch, accumulate, `step` | operators compute on the last weights, gradients are complete, memory is accounted for |

### Reinforcement learning across actors

| Part | Source | State | Operations | What makes it correct |
|---|---|---|---|---|
| Zero-bubble loops | `src/applications/ColossalChat/coati/distributed/zero_bubble/*.py`, `comm.py` | a data actor with a counted queue, a signal actor, main loops and sync threads of consumer ranks and producers, distributors | take a task, roll out, read, train, offload, signal, broadcast, announce, ask for weights, evaluate, terminate | every batch reaches every rank once, weights never go back, all come to their end |

### The rest

`PROJECT.json` lists every other component with the reason it is not modelled
or its place in the plan: the zero-bubble and V schedules, process-group
meshes, layout conversion, the legacy engines, the checkpoint writers, and the
numerical, offline and I/O parts.

### What is hard about it

* *Stale state.* The same fact is kept several times: a free block four times,
  a row of a bucket four times, metadata once on each side of a wire, weights
  on a GPU, on a pinned copy and in a gathered buffer.
* *Interleaving.* Callers come, cancel and abort between any two awaits of the
  loop; sync threads overtake each other; gradient hooks come in any order.
* *Ordering and deadlock.* Ranks that disagree about what comes next wait for
  each other, or read one thing as another.
* *Failure of a part.* The loop dies and callers must be told; an overflow on
  one rank skips the step of all.
* *Boundaries.* Fragmentation, the block of the next token, a full bucket, a
  last microbatch that is smaller, a loss scale at its limit.

The hazards are listed line by line in `PROJECT.json` with the properties that
would catch each, or a note where none does.

## 2. Modules

    BlockPool  <-implements-  KVCacheUsage  <-keeps protocol of-  RequestHandler
                                   |                                  |
                              KVCacheManager  <----- EXTENDS ---------+
                                                                      | implements
    BatchBucket      (rows; RequestHandler sees lists of rows)     Batcher
                                                                      | EXTENDS
    OneFOneB         (schedule and communication)                 AsyncEngine
    Interleaved      (schedule and overlapped communication)
    LowLevelZero     (hooks, buckets, scaler, step)
    Gemini           (hooks, chunks, placement, step)
    ZeroBubbleRL     (actors, loops and threads)

| Module | What it is |
|---|---|
| `KVCacheManager` | The state of the manager and its methods as operators on it: `AllocateContextTables`, `AllocateTokens`, `FreeTables`, `ClearAll`. `raised` is the exception that ended the run. Ledger properties. |
| `KVCacheUsage` | The manager under the protocol of its docstring: prefill a batch, then let the lengths grow by one and allocate, then free. |
| `BlockPool` | The abstract manager: blocks, each with at most one owner; an owner returns all or none. |
| `BatchBucket` | Two buckets and the moves within and between them. A block table is the sequence it was allocated for. |
| `RequestHandler` | Handler and engine step over the real manager. A step has three actions, `SchedulePrefill` or `ScheduleDecode`, `Forward` and `Update`, in this order; `AddSequence` and the two kinds of abort come between steps, as they can in `LLMEngine`. A bucket is the sequence of its rows. |
| `Batcher` | The abstract handler: requests held, running, stepping. Work-conserving; one step at a time. |
| `AsyncEngine` | Tracer, callers and background loop over a `Batcher`. An action is what runs between two awaits. |
| `OneFOneB` | Every stage's schedule object, locals and program counter (`todo`, the calls left in its step), and its pending communication. |
| `Interleaved` | The same for stages of several chunks. A stage's started communications queue up on its `wire`, as operations of one process group do. |
| `LowLevelZero` | One training loop of all ranks: passes, the gradient hooks in any order, buckets, reductions, step or skip, gathers. |
| `Gemini` | One training program on all ranks: operators with their hooks, the chunk manager as a record `m`, evictions of any set the policy may choose. |
| `ZeroBubbleRL` | The two actors, every rank of the consumer with its sync threads, producers with theirs, and distributors. |
| `MC*` | Values for TLC: symmetry sets, derived constants, id maps, scripts, configurations. |
| `*Proofs`, `DataLemmas` | Theorems and proofs. |

Definitions under a comment beginning with *Mutant* belong to no model. Each is a
plausible wrong version of the definition that follows it; with it in place of
the right one, TLC finds a property violated (`mutants` of `PROJECT.json`), so
the property does depend on that line of the code.

### How state and actions correspond to the code

* `KVCacheManager`. `block_states`, `available_blocks`, `ref_count` and
  `allocated_size` are the fields of the manager and of its `CacheBlock`s;
  `block_table` gathers the tables that callers pass in. The search for a run of
  free blocks is `FreeRuns`: the first run long enough wins, as with
  `_block_finder`; entries of the finder that the subtraction did not overwrite
  cannot change that. When there is none, the operation raises (`:268`).
* `RequestHandler`. `Priority` is the integer the code computes from prompt and
  `max_input_len`; prompts within the limit give the lists 0 to 2. `schedule`
  admits from list 2 down and then either prefills or decodes. The forward pass
  chooses any set of sequences to end with an end-of-sequence token. `Update`
  is `update` as a whole: merge, clear, pop and free. `Within` is the loop of
  `pop_finished` that collects sequences, `Without` the `remove` of each of some
  sequences from a list, `Popped` the loop that pops rows one after the other:
  recursive functions, as the loops are, and as the prover can reason about.
  `Asked` is the last position of a request for which the manager has been asked:
  within a step that is its length, once it is scheduled; otherwise one less, for
  the position of the newest token is asked for in the next step.
* `AsyncEngine`. `queue` and `finished_ids` are the tracer's two queues (of the
  second only the set matters), `streams` its table, `answer` the futures. `loop`
  is `off`, `parked` on the event, `ready` to step, `running` inside the awaited
  forward pass, or `dying`: the task has ended and its callback has not run yet,
  during which the status is still "running".
* `OneFOneB`. `sched` is the schedule object (number and size of microbatches,
  last batch size, cache switch, the two send flags, the two cached metadata).
  `Transfer(s, t)` carries one object, metadata or data, from a side that has
  posted a send to one that has posted the receive. A gradient carries the
  identity of the microbatch it belongs to, so that a mix-up is visible.
* `Interleaved`. `ForwardPasses`, `BackwardPasses` and `Warmup` give the calls of
  a step in the order of `run_forward_backward` and `run_forward_only`. A call
  of `_communicate` is `Communicate`, and `MetadataEnds` where metadata is
  exchanged, for which the stage waits. Data is put on `wire` and the call
  returns; `held` says whether the handles of the batch are those a variable
  still holds, and `Arrived` is the wait for them before the next pass. Without
  overlap a stage waits for all it has started. An object says which microbatch
  it is, which chunk of which stage made it, and whether it is an activation or
  a gradient.
* `LowLevelZero`. A gradient is the count of each microbatch in it. `grad` is
  `param.grad`, `bucket` the `BucketStore` of each process group, `store` the
  `GradientStore`. `AccumulateGrad(p)` is the whole hook of `p`, with the bucket
  that is reduced when `p` does not fit; `EndBackward` the last reduction,
  `SyncGrad` the `_sync_grad` of a step after passes without synchronisation.
  `working` is who has which version of which shard; `gathers` the handles that
  `Forward` waits for. `Packed` is the loop that fills the buckets of gathers, over
  the `Working` parameters of a group in their order.
* `Gemini`. `m.chunk` holds the chunks with their tensor states, buffers and
  copies; every move subtracts and adds memory as the chunk manager does. `PreOp`
  and `PostOp` are the hooks around an operator with everything they call:
  eviction, gathers, prefetching, tensor states. `GradHandle(p)` is the hook of a
  gradient up to the reduction of its chunk. The contents of a buffer are a
  version of the weights, or counts of the gradients of each iteration.
* `ZeroBubbleRL`. A call of an actor is atomic, as Ray makes it; a collective is
  one action of all who take part; what runs between two such calls belongs to
  the next. `threads` are the consumer's sync threads by what they wait for; a
  version is the training step the weights are of.

## 3. What is checked

### Runs that pass

| Run | Properties | Bounds | States |
|---|---|---|---|
| `kv_usage` | no block in two cells; ledgers agree; every token is backed, none ahead of its place; only fragmentation raises; implements `BlockPool` | 4 rows, 3 at a time, blocks of 2, prompt 3, output 1 | 11 000 |
| `bucket` | rows own; always compact; merge is first in, first out | 4 sequences, 3 rows, prompt 2, length 3 | 12 000 |
| `handler` | nothing lost or doubled; a request in a batch has a block of its own for each token, and no other has any; longest prompts first and first come first served among those of one list; implements `Batcher` (which bounds the batch); every call to the manager is a step of `KVCacheUsage` | 4 requests, 2 at a time, prompt 3, output 2, ratio 1.2 | 23 000 |
| `handler_live` | every request finishes or is aborted | 3 requests, 2 at a time, prompt 2 | 6 500 |
| `async` | no caller is orphaned; the engine knows only ids with streams; one answer each; while the loop is awake everyone is answered | 4 calls, two for each of two ids, one prompt too long, batch of 1 | 81 000 |
| `pipeline` | both sides of a wire agree; own microbatch, with gradients required in training; own gradient; bound of activations held; whole batch used; no stage waits for ever | 3 stages, all scripts of 3 steps out of training with 6 rows and evaluation with 6 or 5, four configurations | 70 000 |
| `interleaved` | both sides of a wire agree; a pass is of its own object, which has come; every step ends, with every microbatch through every chunk and nothing left on the wires | 2 and 3 stages, 2 and 3 chunks, one or two groups of microbatches, with and without overlap, by number or size, with and without cache | 14 000 |
| `rl` | the queue's counter is right and within its limit; nothing is skipped or trained on twice; what is announced is there; weights never go back; everyone finishes | 2 producers, 2 ranks, 3 batches of each, one episode, with filtering or evaluation | 632 000 |
| `gemini` | operators compute on the last weights; gradients complete; memory accounted for; no assertion fails | 3 chunks, 4 parameters, 3 iterations and an inference pass, eight configurations | 163 000 |
| `zero` | gradients complete; forward passes on current weights; ranks step together; steps go on being taken | 2 ranks, 4 parameters, 2 param groups, 2 process groups, 2 microbatches a step, four configurations | 886 000 |

Why these bounds suffice. In the manager: two blocks per row, so that rows grow
into a second block; three rows at a time leave holes between them. In the
bucket: three rows is the least at which the popped, the moved and an untouched
row differ; four sequences overfill it. In the handler: more requests than the
batch holds, so that some wait in each list while others decode; prompts that
fall into different lists; sequences that end in prefill, in decoding and at
their limit. In the asynchronous engine: a queue of two or more behind a step,
twins of both ids, a bad request before and after good ones, a request held
while another runs. In the pipeline: a first, a middle and a last stage; fewer,
as many and (after a smaller batch) unequal microbatches; every order of
training and evaluation around a change of batch size. In the interleaved
schedule: one pair of wires for both neighbours (two stages) and two (three);
a second group, so that chunks come round again. In the reinforcement-learning
loops: more batches than the queue may hold, threads of two training steps under
way at once, an ineffective group in the middle of the buffer. In Gemini: a chunk
of two parameters whose operators lie around another chunk's, a recomputation,
two iterations after the warm-up, whose cached lists they reuse. In ZeRO:
parameters smaller and larger than a bucket, a bucket cut short by the other
param group, padding, a parameter that one pass leaves out, a scale that
overflows until it is lowered and is then raised again.

Bounds that are not sizes of the system: `MaxIterations` and `MaxInferences` of
`Gemini`, `Microbatches` of `LowLevelZero`, versions modulo three there (no two
that can meet are further apart), `MayBeFiltered` of `ZeroBubbleRL`, the scripts of
the pipelines.

Deadlock is not checked where the system may rest: no request left, no caller
left, the script done, the bounds reached, the loops at their end, or where an
exception ends the run. It is checked of the buckets and of ZeRO's loop.

### Runs that violate what a comment says

| Run | Statement | What the code does |
|---|---|---|
| `gemini_overflow` | `zero_grad()  # reset all gradients` on an overflow (`gemini_optimizer.py:279`) | gradients accumulated in chunks of their own stay, and the next backward passes add to them; infinite ones make every later step overflow |
| `interleaved_metadata` | `disable metadata cache when batch size changes (not valid anymore)` (`interleaved_pp.py:94`): then metadata goes with every object | a communication in which the last stage sends nothing clears its flag (`:249`), and its next object goes without; the receiver takes data for metadata. An evaluation before the training is enough |

`findings` of `PROJECT.json` quotes the lines.

The passing runs keep clear of what these two show: `gemini` has no
configuration that both accumulates and overflows, and the scripts of
`interleaved` end with the step in which the cache goes off (or with one that is
refused), in one group of microbatches.

### Departures without a run of their own

What comments and docstrings promise and the code does not do, or what a reader
would not expect. They are in the models, because they are in the code, unless
it is said otherwise.

Inference:

* `kvcache_manager.py:268`: with the default ratio and four requests a prefill
  raises IndexError although enough blocks are free; `OnlyFragmentation` excuses it.
* `kvcache_manager.py:203`: the single-row `allocate_context_from_block_table`
  takes allocated blocks when there is no run of free ones. Only a test calls it;
  it is not modelled.
* `async_engine.py:204`, `:256`: "True if there are in-progress requests", but the
  loop sleeps while requests wait for room in the batch: the third disjunct of
  `EveryoneAnswered`.
* `AbortRunning` (`request_handler.py:340`): aborting a running request marks the
  last waiting one and raises.
* `Submit` of an id that is queued already is accepted (`async_engine.py:103`);
  `StreamsOfDrain` then leaves the first caller without a stream: the last
  disjunct of `NoOrphan`.
* `StepOnNothing` (`async_engine.py:172`, `batch_bucket.py:512`): a request that is
  aborted before the drain wakes the loop for an empty step, whose assertion ends it.
* `Abort` has no effect on a request the engine has (`async_engine.py:118`).
* `TellAll` reaches registered streams only (`async_engine.py:86`): a caller who was
  queued during the failing step waits until somebody restarts the loop.
* `Refuse`: a refused duplicate aborts the request that had the id
  (`async_engine.py:329`); and where the loop had died it has just restarted it with
  a fresh event, so the loop sleeps although a request may be queued. This is why
  `EveryoneAnswered` speaks of a loop that is awake.

Pipelines:

* `one_f_one_b.py:90`: training asserts the size of the last batch, evaluated ones
  included, so evaluating a batch of another size ends the training; all stages
  fail together. The interleaved schedule does the same (`interleaved_pp.py:86`).
* `Loaded`: `microbatch_size` is not ignored when both arguments are given
  (`one_f_one_b.py:42`, `:91`).
* `interleaved_pp.py:93`: an evaluation whose microbatches do not fill their groups
  numbers its chunks wrongly: microbatches are lost and sends are received by
  nobody (with `<<Train(8), Eval(5)>>` as script `EveryStepEnds` fails). The
  assertion that would say so is for training only (`:89`).
* `interleaved_pp.py:249`, `:275`: `enable_metadata_cache=False` alone, with two
  groups of microbatches or in the second step, leads to the same mix-up as
  `interleaved_metadata`.

ZeRO and the scaler:

* `fp16.py:76`, `:84`: the scaler is updated before the optimizer asks what to divide
  the gradients by, so in the step at which the scale grows they are divided by
  twice what their losses were multiplied by. The division is not modelled.
* With `overlap_communication`, a parameter that only a pass under `no_sync` used
  has a gradient that no hook takes up: the step goes without it. `MCConfigs` and
  the theorems (`NoneStranded`) leave the combination out.

Gemini (the first four as configurations in `MCGemini` that no run
takes; TLC shows the trace):

* `KeptAndAccumulated`: a chunk that is kept gathered and accumulated loses
  gradients (`chunk/manager.py:289-291`).
* `PrefetchInInference`: an inference pass waits for prefetched chunks in the order
  of a training pass (`gemini_ddp.py:260-272`), and computes on one that has not come.
* `InferenceAmidAccumulation`: `gemini_ddp.py:262` scatters chunks whose gradients are
  accumulated, and `chunk.py:511-512` asserts against it.
* `MovedAmidAccumulation`: with a memory margin, accumulated gradients stay on the
  CPU while their master weights move to the GPU: `_maybe_move_fp32_params` moves the
  chunk of weights ("stores grad now", `gemini_optimizer.py:331-332`), not the
  gradients' own.
* An inference before the first iteration is recorded as if it were part of the
  warm-up, and prefetching follows it.

Reinforcement learning:

* `consumer.py:317` says that only one sync thread runs at a time; `:339` clears the
  flag as soon as the thread has been started. Threads overlap: `threads` are sets.
* `consumer.py:172` waits for ever when filtering leaves fewer effective groups than
  a training step takes.
* `distributor.py:92`, `:116`: "terminate" may overwrite a "ready" that one distributor
  has seen and another has not, and leaves the first at the barrier; `:93`: every
  distributor clears the one signal, and with it a second "ready".
* `producer.py:226`, `:303`, `:339`: whether to evaluate depends on a step each producer
  reads at a time of its own; one may wait in the all-reduce for ever.
* `grpo_consumer.py:521` sets `sample_utilization` on one actor, `comm.py:103` reads
  it on the other. Not modelled: the value decides nothing else.
* `consumer.py:256` signals the step after the one that has been trained.

### Fairness

* `RequestHandler`: weak fairness of the step as a whole. `generate` calls `step`
  in a loop while requests are unfinished; no single disjunct is forced, and the
  forward pass may never choose an end-of-sequence token. Termination comes from
  the length limit. `EveryRequestFinishes` excuses a manager that raised; within
  the bounds of that run it does not (the excuse is not used there).
* `AsyncEngine`: `FairSpec` adds weak fairness of the loop's turns (asyncio runs
  what can go on), of the end of a forward pass (it returns or raises), and strong
  fairness of each running request finishing: a request that takes part in step
  after step reaches its length limit, which the `Batcher` does not count. Nothing
  is assumed of callers: they may abort, cancel, or never restart a dead loop.
* `OneFOneB`, `Interleaved`: weak fairness of the stages and of transfers:
  processes run, and NCCL carries out what both sides have posted.
* `LowLevelZero`: weak fairness of the whole: a training loop goes on. That a step is
  taken again and again rests on the scaler, and on losses that do not overflow at
  or below `SafeScale`, which is at least the scaler's minimum.
* `ZeroBubbleRL`: weak fairness of each process, thread and joint collective: the
  operating system runs them, Ray answers calls, and a collective ends when all
  are in it. Threads are not forced to run in the order they were started in.
* `Gemini`: safety only.

## 4. What is proved

All theorems hold for every value of the constants that satisfies the stated
assumptions; the runs check the same formulas on one value.

**`KVCacheProofs`** (of `KVCacheUsage`; assumes `BlockSize > 1` in every theorem,
and the assumptions of the two modules, of which the important one is the
constructor's number of blocks, `MaxBlocksPerSeq * MaxBatchSize`). With blocks of
one token the protocol leaves a gap: the first position after the prompt is
allocated by the decode step for the length *after* it was counted, so a block is
skipped, and the rest of the row is not freed. The engine's default is 16.

The inductive invariant `IInv` joins
`TypeOK`, `NoSharing`, `Accounting`, `FreeIsEmpty`, `Backed`, `Filled`,
`OnlyFragmentation` and `WithinBatch` (never more active rows than the batch).
None of these is inductive alone: sharing follows from blocks being free when
placed (`Accounting`), freeing is complete because a row has no hole, which
follows from `Backed`, and the assertion of free space in a block follows from
`Filled`. The argument has four layers: ranks and k-th smallest elements (how
cells of a batch are paired with blocks of a run); the ledger (placing distinct
free blocks in empty cells, emptying rows); columns of positions (division by
the block size); space (what each allocation adds to a block). A counting
argument, that active rows need at most `MaxBlocksPerSeq` blocks each, gives
`NeverLacking`. `Refinement` shows that each step is an `Acquire`, a `Release`
or a stutter of `BlockPool`.

**`BatchBucketProofs`**. `IInv` is `TypeOK`, `Indexed`, `RowsOfTheirOwn` and
`InOneBucket`. For each operation a lemma about one bucket (`AddedGood`,
`PoppedGood`, `CompactedGood`, `PoppedNGood`), then a step lemma that puts the
bucket back into the pair. `Indexed` is needed throughout: that the rows after
the last are clean is what lets `add_seqs` append, and that indexes are a
bijection is what makes the swap of `pop_seq_update_batch` total.
`NeverLoose` (the `is_compact` assertions) then follows by counting. Each step lemma
also says what goes from one bucket to the other: nothing (`Apart`), or, of a merge,
the first of the dictionary (`OldestMove`), from which `MergeIsFirstInFirstOut`
(`MergeTakesTheOldest`) follows.

**`EngineProofs`, of `AsyncEngine`**. `AsyncInv` is `TypeOK`, `NoOrphan` and `EngineKnown`; each
needs the other: a registered caller is not orphaned because the engine has its
request, and the engine's requests have streams because only drained requests
are added. `OneAnswer` follows from the steps alone.

**`LowLevelZeroProofs`** (assumes `NoneStranded`: no parameter is left out of a pass
where `no_sync` and overlapped reductions come together; see the departures). The
invariant that matters is `Holds`: for every parameter, the microbatches whose
gradient is due so far are split between `param.grad` (and with it the bucket,
which refers to it) and the store, so each is in exactly one of them and once.
Around it `IInv` has: `Types`; `Passing`, how far the pass is and who is still to
come; `Awaited`, which gradients left over from unsynchronised passes are still to
be met by a hook or by `_sync_grad`; `Counted`, that a bucket that holds
parameters counts elements, so that an "empty" bucket is empty and the last
reduction of a pass misses nothing; and `Agreed`, that all ranks have the same
master weights. `Holds` alone is not inductive: a reduction moves from
`param.grad` to the store exactly what is in the bucket, which is all of it only
because of `Counted` and `Awaited`. Buckets and reductions are lemmas about a
record (the bucket, `param.grad`, the store), so that each of the four actions
that reduce cites the same ones. `StepHasAllGradients` is `GradsComplete` for any
parameters, groups, sizes, bucket size and number of microbatches;
`RanksStepTogether` is `StepsTogether`.

`ForwardIsOnCurrent` needs no such assumption. A forward pass runs on the shards
of the last step because (`Fresh`) the shards of every parameter equal the masters
of all ranks, and a pass has waited for the gathers of what it uses; that a step
gathers every parameter it has changed, so that none falls out of the buckets of
gathers, is an induction over the loop that packs them (`PackedHas`), for groups
of any length.

**`EngineProofs`, of `RequestHandler`** (no assumption beyond those of the modules, but for the
last theorem). `IInv` has four parts: `Types`; `Apart`, that the three waiting
lists, the two parts of the running list and the running batch have nobody twice
and that waiting and running requests differ; `Batched`, which batch holds
whom in which phase of the step (the running batch has the requests of the
decoding list, a prefill batch is the whole prefill list); and
`Stated`, what status and lengths say of a request in each of them. `Batched` is
what makes `update` right: the merge appends all of the prefill batch because
decoding and prefill list together never exceed the batch size, and what is
popped from the rows is exactly what is removed from the list. `NoRequestIsLost`
and `LongerPromptsGoFirst` follow from it. `HandlerIsBatcher` shows that each step
is a step of `Batcher` or a stutter; admitting from three lists with one budget is
one admission of all or of as many as fit. `HandlerKeepsProtocol` maps each step
to one of `KVCacheUsage`, with `Asked` as the length of a row; it rests on a second
invariant, `Shapes`, that the manager's variables are functions of the right
domain. As a refinement this carries the theorems about the manager over to the
engine: `RequestsOwnTheirBlocks` instantiates `KVCacheProofs` under the mapping and
cites `NeverShared`, `AlwaysBacked` and `NeverLacking`, so it has their assumptions
(the constructor's number of blocks, `BlockSize > 1`).

**`ZeroBubbleRLProofs`** (no assumption beyond the module's). `Sound` says where each
actor can be in its loop, with the types, and what each buffer holds.
`QueueIsCounted` is the equation between the counter, the queue and the producers
that roll out, a part of it. `AnnouncedIsAlwaysThere` and `WeightsNeverGetOlder` come from `Announced` and
`Aged`: for each sync thread, wherever it waits, what it will send or announce is
between what the distributors have and the consumer's step, threads that overlap
included. `NothingIsSkipped` relates four sequences: what has been produced, what
a rank has read, the effective groups in that, and the buffer, whose cut by the
mapping from effective to raw groups is shown to leave a suffix (`UsedUp`).

**`OneFOneBProofs`** (any number of stages from two, any positive sizes, any script;
`PipelineAssumption` has what `__init__` asserts and that sizes and batches are
positive: with a size or number of zero the code divides by it). The invariant
`Local` says of each stage by itself that
there is a place `k` in its step such that the calls left are those after the first
`k`, as many microbatches are loaded as there are forward calls among these, and as
many pairs saved as the calls to save exceed the calls to pop. The list of calls is
written once in the model as the loops write it (`TrainCalls`), once in the proofs
as a function of the place (`CallAfter`, with the counts as quotients by the length
of a loop's body), and `TrainCallsAre` shows that they are the same. That the
counts go up with the calls is then a case distinction over warm-up, steady state
and cool-down (`CountsAre`), and what they are bounded by as well (`HeldIs`).
`LoadedIs` shows that `load_batch` leaves a number and size of microbatches that
cover the batch. From `Local` follow `ActivationsAreBounded` (`InFlight`),
`BatchesAreWhole` (`WholeBatch`) and `LoadsAreInside`: the assertion of
`load_micro_batch` never fails, so a stage can only fail in `load_batch`.

The stages together are `Linked(h, n)` for some history `h` of `n` steps, which says
what every stage is to find when it begins its `i`-th step: the sizes and the
cache switch that `load_batch` leaves, and how many tensors and gradients have
gone over each wire before. It exists because `load_batch` depends on nothing that
a stage has cached (`LoadedSame`), and it is extended by the stage that is ahead
(`LinkGrows`). On each wire, what one end has sent in all its steps is what
the other has received (`Wire`), half sent if and only if half received. So when
two stages meet they are in the same step at the same microbatch (`Meeting`, by
`SamePlace`: as many things have gone before), though one may have begun steps
that the other has not. The send flag of one end and the cached metadata of the
other are both functions of the cache switch and of whether anything has gone
yet (`Flags`), hence they agree; that a cached size is right needs that with the cache
on every batch is one of whole microbatches (`Prepared`): an evaluation of another
size drops the cache, and a training step with another size fails. With what a stage
holds (`Data`) and waits for (`CommIs`) this is inductive: `StagesAreLinked`. From
it follow `WiresAlwaysAgree` (`WiresAgree`), `MicrobatchesAreOwn` (`OwnMicrobatch`)
and `GradientsAreOwn` (`OwnGradient`). The sets `Tensors`, `Metas`, `Schedules` and
`Communications` of the model are the types of this invariant; that `None` is in
none of them is part of `PipelineAssumption`.

**`GeminiProofs`** (any chunks, parameters, operators, number of ranks from two,
number of iterations, evictions and prefetches). The assumption `Supported` is on
`Configs`: a configuration that accumulates neither keeps chunks gathered, nor
overflows, nor has a memory margin, nor infers amid accumulation; one whose
inference scatters does not prefetch. These are the departures of section 3: in
each of the five TLC finds a state that breaks the property, so the assumption is
no stronger than the code makes it, and it holds of all of `MCConfigs`.

The invariant `IInv` is `CoreInv`, `Sound(m)` and `ContentInv`. `CoreInv` does not
look into chunks: the place in the pass, the iterations since the last step, and
what the manager has recorded in the warm-up, which is one entry an operator.
`Sound` is that each chunk is in order (`Well`: a gathered chunk has no shard beside
it, one that waits for its master copy has nothing on the GPU and is not believed
to be on the CPU), that the totals balance, and that the chunks that are not kept
are gathered just when they are accessed. `ContentInv` says what each chunk holds:

* `ParamInv`, of a chunk of weights: the weights of the last step, with the copy in
  pinned memory, if the CPU is believed to have seen it, the same
  (`HoldsWeights`); without accumulation, from its first gradient to its last, a
  mixture of gradients and of the weights still to be used (`Mixed`), in a chunk that
  is gathered and cannot be let go because its states forbid it (`StateInv`); then
  the gradients, on the device of the master copy.
* `GradInv`, of a buffer of gradients: the sum of the iterations before, and of this
  one for the parameters that have had their hook.
* `WorksInv`: whatever has been prefetched and not waited for is no chunk that an
  operator computes on.
* `LayoutInv`: what was cached in the warm-up as evictable before an operator of the
  backward pass has in every later pass a gradient to come at that place, so it still
  holds weights.

None of the four properties is inductive without this: that an eviction loses
nothing needs `HoldsWeights`, which needs that what is evicted is not in the
middle of its gradients, which in a later pass is known of the cached list by
`LayoutInv` and of a computed one by `StateInv`. The proof has three layers: what the manager's methods do to chunks that
are in order (`AccessFacts`, `ReleaseFacts`, `MoveFacts`, `ReduceFacts`,
`InitGradFacts`, `RearrangeFacts`, `PrefetchFacts`: they stay in order, the accounts
balance, and weights stay weights); `CoreInv` for all actions at once; one lemma for
each action that `ContentInv` is kept. From the invariant follow
`OperatorsComputeOnWeights`, `StepsWithAllGradients`, `ManagerAccountsForMemory` and
`NoAssertionFails`.

**`DataLemmas`** has what these proofs share: that a recursive function over
`0 .. n` exists, by well-founded induction over numbers, for sequences built by
appending (`RecursionExists`) and for numbers that are summed up
(`AccumulationExists`); concatenation and cut of sequences. Induction is over the
set of indexes at which a property holds, so no theorem with an operator as a
parameter is used, and the models say `f[i \in 0 .. n]` where a fold or
`SelectSeq` would say the same to TLC only.

### Only model-checked

Liveness (`EveryRequestFinishes`, `EveryoneAnswered`, `EveryStepEnds`,
`EveryoneFinishes`, `KeepsStepping`): the prover has no rule for fairness and
ENABLED. The safety of `Interleaved` (`WiresAgree`, `OwnObjects`) is not proved yet. Of `Gemini`, the
configurations `Supported` leaves out go wrong, so there is nothing to prove of
them. No module declares a RECURSIVE operator.

## 5. What is left out, and what that means

* *Forward pass and sampling*: a choice of which sequences end.
* *Physical cache*: pointers of a block never change after construction.
* *Speculative decoding and streaming-LLM*: other paths through `schedule` and
  the manager; switched off in what is modelled.
* *Single-row methods of the manager*: nothing in the library calls them.
* *An exception of the manager inside `schedule`* ends a run of `RequestHandler`.
  The buckets it would leave half filled are not looked at.
* *Wrong arguments*: prompts over `max_input_len` are refused by an assertion
  before they reach the lists, so the second removal in `schedule` is not reached;
  they are part of `AsyncEngine`, where that assertion ends the loop.
* *`AbortRunning`* is what the code does, with its exception; the caller is
  assumed to survive it.
* *Pipelines*: tensors only, no fp8, no `send_first` (it orders two operations
  started together), one sequence length, so the shape is the number of rows.
  A send completes when it meets its receive, as NCCL's wait does; with NCCL
  operations of one process group run in the order they were started in, which
  `Interleaved` takes from there (gloo, which tests use, matches by peer as well).
* *ZeRO*: the values of gradients, clipping, CPU offload, expert groups of fewer
  ranks, `master_weights=False`, checkpoints. An overflow is a choice for any
  gradient whose loss was scaled by more than `SafeScale`.
* *Gemini*: ranks in lockstep (they run one program and meet in collectives), so the
  shards of a chunk have one content; `master_weights=True`; a group of two ranks
  or more; no `extra_dp_group`. Which chunks are evicted depends on measured
  memory and is left open, so every set the policy may choose is covered. Streams
  of the GPU are not modelled: an operation counts as done when it is issued, but
  a gather only when somebody has waited for it. Memory of fp32 copies is not in
  the totals, as in the code.
* *Reinforcement learning*: no pipeline or tensor parallelism within the consumer, what
  rollouts and rewards are, engine sleep and wake-up, saving.
* *Most of the rest of the repository* (in lines) is numerical, model definitions,
  kernels, examples and wiring: it has no state of the kind that is modelled here.

## 6. Plan

1. Inference: `allocate_n_tokens_from_block_tables` and `revoke_batch_tokens`
   together (speculative decoding); `streamingllm_*` with the recycling of blocks;
   what an exception leaves in the prefill bucket; the RPC engine.
2. Zero-bubble and V schedules with their split backward, generation. An abstract
   specification of all schedules: every microbatch passes every chunk forward,
   then backward, once.
3. Gemini's optimizer with fewer GPU chunks than parameters and its interplay with
   checkpoints; ZeRO with expert groups.
4. The legacy RPC pipeline; the asynchronous checkpoint writer.
5. Operators checked against a reference: rank and coordinate conversion, the
   groups of an axis, the division of layers over stages, layout conversion.
6. Proofs: `WiresAgree` and `OwnObjects` of `Interleaved`, along the argument for
   1F1B.
