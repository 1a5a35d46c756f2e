----------------------------- MODULE LowLevelZero -----------------------------
(***************************************************************************)
(* ZeRO stages 1 and 2 with mixed precision:                               *)
(*   colossalai/zero/low_level/low_level_optim.py (LowLevelZeroOptimizer), *)
(*   bookkeeping/{bucket_store,gradient_store,tensor_bucket}.py,           *)
(*   zero_hook.py, booster/plugin/low_level_zero_plugin.py (the wait for   *)
(*   gathers), amp/naive_amp/mixed_precision_mixin/fp16.py and             *)
(*   amp/naive_amp/grad_scaler/dynamic_grad_scaler.py.                     *)
(*                                                                         *)
(* A training loop: a few microbatches, with or without synchronisation of *)
(* the gradients, a step, zero_grad, and again.  Every rank holds every    *)
(* parameter, and the master copy of its own shard of each.  The ranks     *)
(* meet in collectives; their backward passes run in one order.  A         *)
(* gradient is the number of times each microbatch of the loop is in it,   *)
(* averaged over the ranks.  Factors of the loss scale are powers of two,  *)
(* of which the exponents are kept; versions are counted modulo three.     *)
(***************************************************************************)
EXTENDS Integers, FiniteSets, SequencesExt

CONSTANTS
  Ranks,           \* of the data parallel group
  Params,
  Order,           \* sequence of sequences of Params: the param_groups
  Numel,           \* Params -> elements
  Groups, GroupOf, \* process groups, each of all Ranks, and who belongs to which
  BucketSize,      \* reduce_bucket_size
  Microbatches,    \* bound: of one step
  Droppable,       \* parameters a pass may leave out, as layer drop does
  InitialScale, MinScale, MaxScale, GrowthInterval, Hysteresis,
  SafeScale,       \* a loss scaled by no more does not overflow
  Configs          \* [partition, overlap, overlap_allgather, no_sync, drops]

ASSUME ZeroAssumption ==
  /\ IsFiniteSet(Ranks) /\ Ranks # {} /\ GroupOf \in [Params -> Groups]
  /\ Order \in Seq(Seq(Params))
  /\ \A p \in Params : \E n \in DOMAIN Order : Contains(Order[n], p)
  /\ Numel \in [Params -> Nat \ {0}] /\ BucketSize \in Nat
  /\ {MinScale, MaxScale, InitialScale, SafeScale} \subseteq Nat
  /\ MinScale <= SafeScale /\ MinScale <= InitialScale /\ InitialScale <= MaxScale
  /\ {GrowthInterval, Microbatches} \subseteq Nat \ {0} /\ Hysteresis \in Nat
  /\ Configs \subseteq [partition : BOOLEAN, overlap : BOOLEAN, overlap_allgather : BOOLEAN,
                         no_sync : BOOLEAN, drops : BOOLEAN]
  /\ \A c \in Configs : c.partition => ~c.no_sync  \* asserted by backward

VARIABLES
  cfg,
  phase,   \* "loop", "computing", "backward", "syncing", "stepping", "stepped"
  micro,   \* microbatches of the loop so far
  sync,    \* require_grad_sync, of the current one
  used,    \* microbatch -> parameters of its pass
  todo,    \* parameters whose gradients the backward pass, or _sync_grad, has yet to add
  grad,    \* param.grad
  bucket,  \* process group -> its BucketStore
  store,   \* parameter -> the gradient in its GradientStore
  bad,     \* <<microbatch, parameter, rank>>: an overflow in the rank's shard
  scaler,  \* DynamicGradScaler
  master,  \* rank -> parameter -> version
  working, \* parameter -> rank -> version of that shard
  gathers  \* parameters with an all-gather handle

vars == <<cfg, phase, micro, sync, used, todo, grad, bucket, store, bad, scaler,
          master, working, gathers>>

World   == Cardinality(Ranks)
None    == <<>>
NoGrads == [p \in Params |-> None]
Plus(g, h) ==
  IF g = None THEN h ELSE IF h = None THEN g ELSE [i \in DOMAIN g |-> g[i] + h[i]]
InOrder       == FlattenSeq(Order)
Place(p)      == CHOOSE i \in DOMAIN InOrder : InOrder[i] = p
ParamGroup(p) == CHOOSE n \in DOMAIN Order : Contains(Order[n], p)
Padding(p)    == (World - (Numel[p] % World)) % World
ShardSize(p)  == (Numel[p] + Padding(p)) \div World
EmptyBucket   == [params |-> <<>>, num |-> 0, group |-> 1]

Init ==
  /\ cfg \in Configs
  /\ phase = "loop" /\ micro = 0 /\ sync = TRUE
  /\ used = [i \in 1 .. Microbatches |-> {}] /\ todo = {}
  /\ grad = NoGrads /\ store = NoGrads /\ bad = {}
  /\ bucket = [b \in Groups |-> EmptyBucket]
  /\ scaler = [scale |-> InitialScale, growth |-> 0, hysteresis |-> 0]
  /\ master = [r \in Ranks |-> [p \in Params |-> 0]]
  /\ working = [p \in Params |-> [r \in Ranks |-> 0]] /\ gathers = {}

-----------------------------------------------------------------------------
(* Buckets.  x has the buckets, the gradients and the stores.              *)
Machine == [bucket |-> bucket, grad |-> grad, store |-> store]

\* Mutant: a gradient of a later microbatch replaces the one there is.
AccumulatedLast(old, new) == new
\* _add_grad
Accumulated(old, new) == Plus(old, new)

\* Every bucket with something in it is averaged and emptied.
RunReduction(x) ==
  LET In(p) == \E b \in Groups : x.bucket[b].num > 0 /\ Contains(x.bucket[b].params, p)
  IN [bucket |-> [b \in Groups |-> [params |-> <<>>, num |-> 0, group |-> x.bucket[b].group]],
      grad   |-> [p \in Params |-> IF In(p) THEN None ELSE x.grad[p]],
      store  |-> [p \in Params |-> IF In(p) THEN Accumulated(x.store[p], x.grad[p])
                                   ELSE x.store[p]]]

AddToBucket(x, p) ==
  LET g == GroupOf[p]
      full == x.bucket[g].num + Numel[p] > BucketSize
      y == IF full \/ x.bucket[g].group # ParamGroup(p) THEN RunReduction(x) ELSE x
  IN [y EXCEPT !.bucket[g] = [params |-> Append(@.params, p),
                              num    |-> @.num + Numel[p] + Padding(p),
                              group  |-> ParamGroup(p)]]

Becomes(x) == \E y \in {x} : bucket' = y.bucket /\ grad' = y.grad /\ store' = y.store

Hooked == cfg.overlap \/ cfg.partition

-----------------------------------------------------------------------------
(* A microbatch.                                                           *)
Passes == {Params} \cup IF cfg.drops THEN {Params \ {p} : p \in Droppable} ELSE {}

\* The forward pass waits for the parameters it uses.
\* The last microbatch of a step is synchronised.
Forward ==
  /\ phase = "loop" /\ micro < Microbatches
  /\ micro' = micro + 1 /\ phase' = "computing"
  /\ sync' \in (IF cfg.no_sync /\ micro' < Microbatches THEN BOOLEAN ELSE {TRUE})
  /\ \E S \in Passes : used' = [used EXCEPT ![micro'] = S] /\ gathers' = gathers \ S
  /\ UNCHANGED <<cfg, todo, grad, bucket, store, bad, scaler, master,
                 working>>

Backward ==
  /\ phase = "computing" /\ phase' = "backward"
  /\ todo' = used[micro]
  /\ \/ UNCHANGED bad
     \/ /\ scaler.scale > SafeScale
        /\ \E p \in used[micro], r \in Ranks : bad' = bad \cup {<<micro, p, r>>}
  /\ UNCHANGED <<cfg, micro, sync, used, grad, bucket, store, scaler, master,
                 working, gathers>>

One == [i \in 1 .. Microbatches |-> IF i = micro THEN 1 ELSE 0]

\* A gradient is added to, and the hook after it may put it into the bucket.
AccumulateGrad(p) ==
  /\ phase = "backward" /\ p \in todo /\ todo' = todo \ {p}
  /\ \E x \in {[Machine EXCEPT !.grad[p] = Plus(@, One)]} :
       Becomes(IF Hooked /\ sync THEN AddToBucket(x, p) ELSE x)
  /\ UNCHANGED <<cfg, phase, micro, sync, used, bad, scaler, master,
                 working, gathers>>

\* The buckets are emptied, and the loop goes on or steps.
Reduce ==
  /\ Becomes(RunReduction(Machine))
  /\ phase' \in {"stepping"} \cup IF micro < Microbatches THEN {"loop"} ELSE {}
  /\ UNCHANGED todo

\* The end of backward; without hooks the gradients are still to be added.
EndBackward ==
  /\ phase = "backward" /\ todo = {}
  /\ CASE ~sync -> phase' = "loop" /\ UNCHANGED <<todo, bucket, grad, store>>
       [] sync /\ Hooked -> Reduce
       [] OTHER -> /\ phase' = "syncing" /\ todo' = {p \in Params : grad[p] # None}
                   /\ UNCHANGED <<bucket, grad, store>>
  /\ UNCHANGED <<cfg, micro, sync, used, bad, scaler, master, working,
                 gathers>>

\* _sync_grad, a parameter at a time and in order
SyncGrad ==
  /\ phase = "syncing"
  /\ \/ todo = {} /\ Reduce
     \/ \E p \in todo :
          /\ \A q \in todo : Place(p) <= Place(q)
          /\ Becomes(AddToBucket(Machine, p))
          /\ todo' = todo \ {p} /\ UNCHANGED phase
  /\ UNCHANGED <<cfg, micro, sync, used, bad, scaler, master, working,
                 gathers>>

-----------------------------------------------------------------------------
(* The step.                                                               *)
LocalOverflow(r) ==
  \E p \in Params : store[p] # None /\
    \E i \in 1 .. Microbatches : store[p][i] > 0 /\ <<i, p, r>> \in bad

\* Mutant: every rank goes by its own shards.
FoundAlone(r) == LocalOverflow(r)
\* check_overflow, the maximum over the ranks
Found(r) == \E s \in Ranks : LocalOverflow(s)

Larger(m, n)  == IF m >= n THEN m ELSE n
Smaller(m, n) == IF m <= n THEN m ELSE n

\* Mutant: one overflow after another counts as the first.
UpdatedOnOverflowAnew(s) ==
  [s EXCEPT !.growth = 0, !.hysteresis = 1,
            !.scale = IF Hysteresis <= 1 THEN Larger(@ - 1, MinScale) ELSE @]
UpdatedOnOverflow(s) ==
  [s EXCEPT !.growth = 0, !.hysteresis = Smaller(@ + 1, Hysteresis),
            !.scale = IF s.hysteresis + 1 >= Hysteresis THEN Larger(@ - 1, MinScale) ELSE @]
UpdatedOnSuccess(s) ==
  IF s.growth + 1 = GrowthInterval
    THEN [scale |-> Smaller(s.scale + 1, MaxScale), growth |-> 0, hysteresis |-> 0]
    ELSE [s EXCEPT !.growth = @ + 1]

\* Parameters with a gradient; the others were not really working.
Working == {p \in Params : store[p] # None}

\* Their shards are gathered in order and in buckets as well, those of each
\* process group apart, and alone when they are larger than a bucket.
Packed(ps, g) ==
  LET x[i \in 0 .. Len(InOrder)] ==
        IF i = 0 THEN [done |-> {}, in |-> {}, size |-> 0]
        ELSE LET p == InOrder[i]
                 size == ShardSize(p)
                 full == x[i - 1].size + size > BucketSize
                 y == IF full THEN [done |-> x[i - 1].done \cup x[i - 1].in, in |-> {}, size |-> 0]
                      ELSE x[i - 1]
             IN IF p \notin ps \/ GroupOf[p] # g THEN x[i - 1]
                ELSE IF size > BucketSize THEN [x[i - 1] EXCEPT !.done = @ \cup {p}]
                ELSE [y EXCEPT !.in = @ \cup {p}, !.size = @ + size]
  IN x[Len(InOrder)]

\* Mutant: the last buckets are left to the next step.
GatheredFull(ps) == UNION {Packed(ps, g).done : g \in Groups}
Gathered(ps)     == UNION {Packed(ps, g).done \cup Packed(ps, g).in : g \in Groups}

\* zero_grad
Cleared ==
  /\ grad' = NoGrads /\ store' = NoGrads /\ bad' = {}
  /\ bucket' = [b \in Groups |-> EmptyBucket]
  /\ micro' = 0 /\ used' = [i \in 1 .. Microbatches |-> {}]

Skip ==
  /\ phase = "stepping" /\ \A r \in Ranks : Found(r)
  /\ scaler' = UpdatedOnOverflow(scaler)
  /\ Cleared /\ phase' = "loop"
  /\ UNCHANGED <<cfg, sync, todo, master, working, gathers>>

Step ==
  /\ phase = "stepping" /\ \E r \in Ranks : ~Found(r)
  /\ scaler' = UpdatedOnSuccess(scaler)
  /\ master' = [r \in Ranks |-> [p \in Params |->
                  IF ~Found(r) /\ store[p] # None THEN (master[r][p] + 1) % 3
                  ELSE master[r][p]]]
  /\ \E now \in {IF cfg.overlap_allgather THEN Working ELSE Gathered(Working)} :
       working' = [p \in Params |-> IF p \in now THEN [r \in Ranks |-> master'[r][p]]
                                    ELSE working[p]]
  /\ gathers' = IF cfg.overlap_allgather THEN gathers \cup Working ELSE gathers
  /\ phase' = "stepped"
  /\ UNCHANGED <<cfg, micro, sync, used, todo, grad, bucket, store, bad>>

\* The loop's own call.
ZeroGrad ==
  /\ phase = "stepped" /\ phase' = "loop" /\ Cleared
  /\ UNCHANGED <<cfg, sync, todo, scaler, master, working, gathers>>

Next ==
  \/ Forward \/ Backward \/ (\E p \in Params : AccumulateGrad(p)) \/ EndBackward
  \/ SyncGrad \/ Step \/ Skip \/ ZeroGrad

\* A rank runs its training loop on.
Spec == Init /\ [][Next]_vars /\ WF_vars(Next)

-----------------------------------------------------------------------------
\* The optimizer steps with the gradient of each microbatch since the last
\* zero_grad once, for every parameter and for the passes that used it, in
\* whatever order the hooks filled and emptied the buckets of the groups.
GradsComplete ==
  phase = "stepping" =>
    \A p \in Params :
      store[p] = LET in == {i \in 1 .. micro : p \in used[i]}
                 IN IF in = {} THEN None
                    ELSE [i \in 1 .. Microbatches |-> IF i \in in THEN 1 ELSE 0]

\* A forward pass runs on parameters that are all there, and all of whose
\* shards are those of the last step that was taken: buckets of gathers, handles
\* of overlapped ones and parameters left out of a step notwithstanding.
ForwardOnCurrent ==
  phase = "computing" =>
    \A p \in used[micro] :
      p \notin gathers /\ \A r, s \in Ranks : working[p][r] = master[s][p]

\* The ranks take a step together, and none that an overflow of any rank, in any
\* of its microbatches, went into.
StepsTogether ==
  [][master' # master =>
       /\ \A r, s \in Ranks : master'[r] = master'[s]
       /\ \A b \in bad : store[b[2]] = None \/ store[b[2]][b[1]] = 0]_vars

\* However gradients overflow above the safe scale, steps go on being taken.
KeepsStepping == []<>(phase = "stepped")

===============================================================================
