-------------------------------- MODULE Gemini --------------------------------
(***************************************************************************)
(* Gemini, the chunked ZeRO-3 trainer:                                     *)
(*   colossalai/zero/gemini/chunk/{chunk,manager}.py (Chunk, ChunkManager),*)
(*   gemini_mgr.py, gemini_hook.py, placement_policy.py, gemini_ddp.py and *)
(*   gemini_optimizer.py.                                                  *)
(*                                                                         *)
(* Parameters live in chunks; a chunk is gathered on every rank, or its    *)
(* shards lie on the GPU or on the CPU.  Hooks around every operator move  *)
(* chunks, hooks of the gradients reuse them for the gradients, and the    *)
(* optimizer writes the weights back.  The ranks run the same program on   *)
(* the same chunks and meet in collectives; the model follows all of them  *)
(* at once, so that the shards of a chunk are one content.  A content says *)
(* for each parameter which version of the weights it is, or how often the *)
(* gradient of each iteration is in it: as the ranks' buffers add up, in   *)
(* units of the mean that the reduction divides down to.                   *)
(* Weights have a float32 master copy (master_weights), of which only the  *)
(* version and the device matter.  Which chunks are evicted follows memory *)
(* measured at run time, and is left open.                                 *)
(***************************************************************************)
EXTENDS Integers, FiniteSets, SequencesExt

CONSTANTS
  Chunks, Params,
  ChunkOf,        \* Params -> Chunks
  Fwd, Bwd,       \* the operators of a forward and of a backward pass, each a
                  \* sequence of parameters; Bwd holds recomputations too
  GroupSize,      \* pg_size
  MaxIterations,  \* bound: forward and backward passes
  MaxInferences,  \* bound: inference passes
  Configs         \* [auto, margin, accumulate, overflows, kept, prefetch, infers, pinned]

\* Backward refuses to end when a parameter had no gradient.
ASSUME GeminiAssumption ==
  /\ IsFiniteSet(Chunks) /\ GroupSize \in Nat \ {0, 1} /\ MaxIterations \in Nat
  /\ ChunkOf \in [Params -> Chunks]
  /\ \A c \in Chunks : \E p \in Params : ChunkOf[p] = c
  /\ Fwd \in Seq(Seq(Params)) /\ Bwd \in Seq(Seq(Params))
  /\ \A p \in Params : \E j \in DOMAIN Bwd : p \in ToSet(Bwd[j])
  /\ Configs \subseteq
       [auto : BOOLEAN, margin : BOOLEAN, accumulate : BOOLEAN, overflows : SUBSET Params,
        kept : SUBSET Chunks, prefetch : Nat, infers : {"no", "scatters", "keeps", "midway"},
        pinned : BOOLEAN]

VARIABLES
  cfg,           \* the arguments of GeminiDDP
  m,             \* the chunk manager, with its chunks and the pending gathers
  grads_device,  \* chunk -> device of its gradients and of its master copy
  phase,         \* "idle", "forward", "backward", "inference", "all gathered"
  pos,           \* operators done in the phase
  running,       \* within an operator
  hooks,         \* parameters whose gradient hook is due
  manager,       \* the attributes of GeminiManager
  accumulating,  \* accumulating_grads
  overflow,      \* overflow_counter > 0
  version,       \* of the master weights
  iter,          \* iterations begun
  since,         \* of these, the ones backward has finished since the last step
  bad,           \* <<iteration, parameter>> of the gradients that overflowed
  inferences,
  moved          \* _should_move_fp32_params_h2d is spent

vars == <<cfg, m, grads_device, phase, pos, running, hooks, manager, accumulating,
          overflow, version, iter, since, bad, inferences, moved>>

-----------------------------------------------------------------------------
(* Contents, and chunks.                                                   *)
None       == <<>>
NoGrad     == [i \in 1 .. MaxIterations |-> 0]
Weight(v)  == [version |-> v, times |-> NoGrad]
Grad(g)    == [version |-> -2, times |-> g]
InChunk(k) == {p \in Params : ChunkOf[p] = k[1]}
Filled(k, x) == [p \in InChunk(k) |-> x]
Garbage(k) == Filled(k, Weight(-1))

Param(c)  == <<c, "param">>
GradOf(k) == <<k[1], "grad">>
Keys      == Chunks \X {"param", "grad"}
ParamKeys == {Param(c) : c \in Chunks}
Kept(k)   == k[1] \in cfg.kept
GradKey(k) == IF cfg.accumulate THEN GradOf(k) ELSE k     \* ~reuse_fp16_chunk

StateTrans ==
  {<<"hold", "compute">>, <<"compute", "hold">>, <<"compute", "hold_after_bwd">>,
   <<"hold_after_bwd", "compute">>, <<"hold_after_bwd", "ready">>, <<"ready", "hold">>}

\* Of a chunk, or of the manager.
Asserting(x, e)  == IF e THEN x ELSE [x EXCEPT !.ok = FALSE]

AllIn(c, S)      == \A p \in DOMAIN c.state : c.state[p] \in S
CanRelease(k, c) == ~Kept(k) /\ AllIn(c, {"hold", "hold_after_bwd"})
OnCuda(c)  == c.is_gathered \/ c.cuda # None
Device(c)  == IF OnCuda(c) THEN "cuda" ELSE "cpu"
Payload(c) == IF c.is_gathered THEN c.global
              ELSE IF c.cuda # None THEN c.cuda ELSE c.cpu

-----------------------------------------------------------------------------
(* What a chunk does; c is the chunk k before, the value the chunk after.  *)
Trans(c, P, s) ==
  [c EXCEPT !.state = [p \in DOMAIN c.state |->
     IF p \in P /\ <<c.state[p], s>> \in StateTrans THEN s ELSE c.state[p]]]

Gather(k, c) ==
  IF c.is_gathered THEN c
  ELSE [Asserting(c, c.cuda # None) EXCEPT
          !.global = IF c.cuda = None THEN Garbage(k) ELSE c.cuda,
          !.cuda = None, !.is_gathered = TRUE]

\* Of a gradient not reduced yet, the shards would only hold parts.
Scatter(k, c) ==
  IF Kept(k) \/ ~c.is_gathered THEN c
  ELSE [Asserting(c, c.cuda = None) EXCEPT
          !.cuda = [p \in InChunk(k) |->
                      IF c.state[p] = "ready" THEN Weight(-1) ELSE c.global[p]],
          !.global = None, !.is_gathered = FALSE]

\* The master copy of a chunk that was on the CPU at the last step.
PairedMove(k, c) ==
  [Asserting(c, c.cuda = None /\ grads_device[k[1]] = "cpu") EXCEPT
     !.cuda = Filled(k, Weight(version)), !.optim_sync = TRUE,
     !.cpu  = IF cfg.pinned THEN @ ELSE None]

ToCuda(c) == [c EXCEPT !.cuda = c.cpu, !.cpu = IF cfg.pinned THEN @ ELSE None]

\* With pinned memory the copy is spared when the CPU has seen the content.
ToCpu(c, force) ==
  [c EXCEPT !.cpu  = IF cfg.pinned /\ ~force /\ c.cpu_vis THEN @ ELSE c.cuda,
            !.cuda = None, !.cpu_vis = TRUE]

ShardMove(k, c, device, force) ==
  IF ~c.optim_sync THEN PairedMove(k, Asserting(c, device = "cuda"))
  ELSE IF device = "cuda" THEN IF c.cuda # None THEN c ELSE ToCuda(c)
  ELSE IF c.cuda = None THEN c ELSE ToCpu(c, force)

\* Every rank adds what it has; a shard is divided down to the mean.
Reduced(k, c) ==
  LET r == [Asserting(c, c.is_gathered) EXCEPT !.state = [p \in DOMAIN c.state |-> "hold"]]
  IN IF Kept(k) THEN r
     ELSE [r EXCEPT !.cuda = c.global, !.global = None, !.is_gathered = FALSE]

\* A buffer is made anew on the GPU, with a shard on the CPU when memory is pinned.
Renewed(g, c) ==
  [c EXCEPT !.is_gathered = TRUE, !.cuda = None,
            !.global = IF @ = None THEN Garbage(g) ELSE @,
            !.cpu = IF cfg.pinned /\ ~Kept(g) /\ @ = None THEN Garbage(g) ELSE @]

-----------------------------------------------------------------------------
(* What the chunk manager does, x before and the value after.  A loop over *)
(* chunks takes each of them for itself, so it is one step of the set.     *)

\* memory_usage; a shard counts 1, a gathered chunk GroupSize.
Usage(x, S) ==
  [cuda |-> GroupSize * Cardinality({k \in S : x.chunk[k].is_gathered})
              + Cardinality({k \in S : x.chunk[k].cuda # None}),
   cpu  |-> Cardinality({k \in S : x.chunk[k].cpu # None})]

Put(x, new) ==
  [x EXCEPT !.chunk = [k \in Keys |-> IF k \in DOMAIN new THEN new[k] ELSE x.chunk[k]]]

AddUsage(x, S)   == [cuda |-> x.total.cuda + Usage(x, S).cuda,
                     cpu  |-> x.total.cpu + Usage(x, S).cpu]
SubUsage(x, S)   == [cuda |-> x.total.cuda - Usage(x, S).cuda,
                     cpu  |-> x.total.cpu - Usage(x, S).cpu]
Metered(x, new)  ==
  LET y == [Put(x, new) EXCEPT !.total = SubUsage(x, DOMAIN new)]
  IN [y EXCEPT !.total = AddUsage(y, DOMAIN new)]

AddAccessed(x, S) ==
  [x EXCEPT !.accessed = @ \cup S, !.accessed_mem = @ + GroupSize * Cardinality(S)]
SubAccessed(x, S) ==
  [Asserting(x, S \subseteq x.accessed) EXCEPT
     !.accessed = @ \ S, !.accessed_mem = @ - GroupSize * Cardinality(S)]

Access(x, S) ==
  LET A == S \ x.accessed
      Brought(k, c) == IF Device(c) = "cpu" THEN ShardMove(k, c, "cuda", FALSE) ELSE c
  IN AddAccessed(Metered(x, [k \in A |-> Gather(k, Brought(k, x.chunk[k]))]), A)

Release(x, S) ==
  LET R == {k \in S \cap x.accessed : CanRelease(k, x.chunk[k])}
  IN SubAccessed(Metered(x, [k \in R |-> Scatter(k, x.chunk[k])]), R)

Move(x, S, device, force) ==
  LET T == {k \in S : ~x.chunk[k].is_gathered /\ Device(x.chunk[k]) # device[k[1]]}
  IN Metered(x, [k \in T |-> ShardMove(k, x.chunk[k], device[k[1]], force)])
Everywhere(d) == [c \in Chunks |-> d]

FakeRelease(x, S) ==
  LET Checked(k, c) == Asserting(c, Kept(k) /\ AllIn(c, {"hold"}))
  IN SubAccessed(Put(x, [k \in S |-> Scatter(k, Checked(k, x.chunk[k]))]), S)

Reduce(x, k) ==
  SubAccessed(Metered(x, [j \in {k} |-> Scatter(j, Reduced(j, x.chunk[j]))]), {k})

\* Mutant: the total is not told of what the chunk gives up.
InitGradChunkUnmetered(x, k) ==
  LET g == GradOf(k)
      y == Put(x, [j \in {g} |-> Renewed(j, x.chunk[j])])
      z == [y EXCEPT !.total = AddUsage(y, {g})]
  IN IF g \in z.accessed THEN z ELSE AddAccessed(z, {g})

InitGradChunk(x, k) ==
  LET g == GradOf(k)
      y == Metered(x, [j \in {g} |-> Renewed(j, x.chunk[j])])
  IN IF g \in y.accessed THEN y ELSE AddAccessed(y, {g})

\* What is there is multiplied by GroupSize, put back, by every rank into its
\* own shard or by every rank as a whole, and divided again by the reduction.
Rearrange(x, k) ==
  LET g == GradOf(k)
      old == x.chunk[g]
      n == IF old.is_gathered THEN GroupSize ELSE 1
      back == [p \in InChunk(g) |-> [Payload(old)[p] EXCEPT
                 !.times = [i \in 1 .. MaxIterations |-> n * @[i]]]]
      y == InitGradChunk(Asserting(x, Payload(old) # None), k)
  IN Put(y, [j \in {g} |-> [y.chunk[j] EXCEPT !.global = back]])

-----------------------------------------------------------------------------
Init ==
  /\ cfg \in Configs
  /\ grads_device \in [Chunks -> {"cuda", "cpu"}]
  /\ \A c \in Chunks : c \in cfg.kept => grads_device[c] = "cuda"
  /\ \A c \in Chunks \ cfg.kept : cfg.auto => grads_device[c] = "cpu"
  /\ m = [chunk |-> [k \in Keys |->
             LET weights == Filled(k, Weight(0))
                 none == [is_gathered |-> FALSE, global |-> None, cuda |-> None,
                          cpu |-> None, optim_sync |-> TRUE, cpu_vis |-> FALSE,
                          state |-> Filled(k, "hold"), ok |-> TRUE]
             IN IF k[2] = "grad" THEN none
                ELSE IF Kept(k) THEN [none EXCEPT !.is_gathered = TRUE, !.global = weights]
                ELSE [none EXCEPT !.cpu = weights, !.cpu_vis = TRUE]],
           accessed |-> {}, accessed_mem |-> 0,
           total |-> [cuda |-> GroupSize * Cardinality({k \in ParamKeys : Kept(k)}),
                      cpu |-> Cardinality({k \in ParamKeys : ~Kept(k)})],
           works |-> {}, ok |-> TRUE]
  /\ phase = "idle" /\ pos = 0 /\ running = FALSE /\ hooks = {}
  /\ manager = [warmup |-> TRUE, compute_list |-> <<>>, compute_idx |-> -1,
                layout |-> <<>>]
  /\ accumulating = FALSE /\ overflow = FALSE
  /\ version = 0 /\ iter = 0 /\ since = {} /\ bad = {}
  /\ inferences = 0 /\ moved = FALSE

-----------------------------------------------------------------------------
(* The hook before an operator.                                            *)
Ops     == IF phase = "backward" THEN Bwd ELSE Fwd
Current == Ops[pos + 1]

\* get_chunks, where a repetition makes no difference.
ChunksOf(ps) == [i \in DOMAIN ps |-> Param(ChunkOf[ps[i]])]

\* get_cuda_movable_chunks
Movable(x) == {k \in x.accessed : CanRelease(k, x.chunk[k])}

\* adjust_layout looks the list up by the index, the warm-up and the chunks;
\* what it computed for them once is what it takes in every later pass.
LayoutKey(ks) == <<manager.compute_idx + 1, manager.warmup, ks>>
Evictable(x, ks) ==
  IF LayoutKey(ks) \in DOMAIN manager.layout
    THEN manager.layout[LayoutKey(ks)] ELSE Movable(x)

\* The automatic policy moves what it releases to the CPU, the static one a part
\* of it when all gradients go there.
Offloads(R) ==
  IF cfg.auto THEN {R}
  ELSE IF \A c \in Chunks \ cfg.kept : grads_device[c] = "cpu" THEN SUBSET R ELSE {{}}
Evict(x, R, T) == Move(Release(x, R), T, Everywhere("cpu"), FALSE)

\* get_prefetch_chunks: the first of those the rest of the iteration wants, up
\* to the chunk n of the operator i.
Wanted(i, n) ==
  (UNION {ToSet(manager.compute_list[j]) : j \in manager.compute_idx + 3 .. i - 1})
    \cup {manager.compute_list[i][a] : a \in 1 .. n}
ToPrefetch(x) ==
  LET room == cfg.prefetch - Cardinality(x.works)
  IN {{}} \cup {Q \in UNION {{Wanted(i, n) \ x.accessed : n \in DOMAIN manager.compute_list[i]} :
                            i \in manager.compute_idx + 3 .. Len(manager.compute_list)} :
              ~manager.warmup /\ Cardinality(Q) <= room}

Prefetch(x, Q) ==
  LET W == {k \in Q : ~x.chunk[k].is_gathered}
  IN [Asserting(Access(x, Q), W \cap x.works = {}) EXCEPT !.works = @ \cup W]

PreOp ==
  /\ phase \in {"forward", "backward", "inference"} /\ ~running /\ hooks = {}
  /\ pos < Len(Ops)
  /\ LET ks == ChunksOf(Current)
         waited == [m EXCEPT !.works = @ \ ToSet(ks)]
         computing == Put(waited, [k \in ToSet(ks) |->
                                    Trans(m.chunk[k], ToSet(Current), "compute")])
         may == Evictable(computing, ks)
     IN /\ \E R \in SUBSET (may \ computing.works) : \E T \in Offloads(R) :
           LET fetched == Access(Evict(computing, R, T), ToSet(ks) \ m.works)
           IN \E Q \in ToPrefetch(fetched) : m' = Prefetch(fetched, Q)
        /\ manager' = [manager EXCEPT
             !.compute_idx = @ + 1,
             !.compute_list = IF manager.warmup /\ cfg.prefetch > 0
                                THEN Append(@, ks) ELSE @,
             !.layout = [l \in DOMAIN @ \cup {LayoutKey(ks)} |->
                           IF l = LayoutKey(ks) THEN may ELSE @[l]]]
  /\ running' = TRUE
  /\ UNCHANGED <<cfg, grads_device, phase, pos, hooks, accumulating, overflow, version,
                 iter, since, bad, inferences, moved>>

\* The hooks of the gradients come due after the last use of a parameter.
LastUse(p) == \A j \in pos + 2 .. Len(Bwd) : p \notin ToSet(Bwd[j])

PostOp ==
  /\ running
  /\ LET s == IF phase = "backward" THEN "hold_after_bwd" ELSE "hold" IN
       m' = Put(m, [k \in ToSet(ChunksOf(Current)) |-> Trans(m.chunk[k], ToSet(Current), s)])
  /\ hooks' = IF phase = "backward" THEN {p \in ToSet(Current) : LastUse(p)} ELSE {}
  /\ running' = FALSE /\ pos' = pos + 1
  /\ UNCHANGED <<cfg, grads_device, phase, manager, accumulating, overflow, version,
                 iter, since, bad, inferences, moved>>

-----------------------------------------------------------------------------
(* The hook of a gradient: grad_handle.                                    *)
Copied   == Grad([NoGrad EXCEPT ![iter] = 1])
Added(v) == [v EXCEPT !.times[iter] = @ + 1]

\* A buffer of its own, in the state of the parameter's own hook.
Prepared(x, k, p) ==
  LET g == GradOf(k)
      y == IF ~accumulating THEN InitGradChunk(x, k)
           ELSE IF g \in x.accessed THEN x ELSE Rearrange(x, k)
      After(c, r, s) == Trans(Trans(c, {p}, r), {p}, s)
  IN Put(y, [j \in {g, k} |-> IF j = g THEN After(y.chunk[j], "compute", "hold_after_bwd")
                              ELSE After(y.chunk[j], "ready", "hold")])

Stored(x, k, p) ==
  LET c == Trans(Asserting(x.chunk[k], x.chunk[k].is_gathered), {p}, "ready")
  IN Put(x, [j \in {k} |-> [c EXCEPT !.global[p] = IF accumulating THEN Added(@) ELSE Copied]])

HasInf(c) ==
  \E p \in DOMAIN c.state, i \in 1 .. MaxIterations :
    Payload(c)[p].times[i] > 0 /\ <<i, p>> \in bad

\* Mutant: the copy to the CPU may be spared.
NoForceCopy == FALSE
ForceCopy   == TRUE

\* Mutant: the weights stay where they are.
StayBehind(x, k) == x
Follow(x, k)     == Move(x, {k}, grads_device, ForceCopy)

\* The chunk of gradients goes where the optimizer is; weights that it has not
\* taken the place of are let go, and follow.
AfterReduce(x, k) ==
  IF ~cfg.accumulate THEN Move(x, {k}, grads_device, ForceCopy)
  ELSE LET y == IF Kept(k) THEN FakeRelease(x, {k}) ELSE Release(x, {k})
       IN Follow(Move(y, {GradOf(k)}, grads_device, ForceCopy), k)

GradHandle(p) ==
  /\ p \in hooks
  /\ LET k == Param(ChunkOf[p])
         g == GradKey(k)
         x == Asserting(m, m.chunk[k].state[p] = "hold_after_bwd")
         y == Stored(IF cfg.accumulate THEN Prepared(x, k, p) ELSE x, g, p)
         z == Reduce(y, g)
     IN IF AllIn(y.chunk[g], {"ready"})
          THEN /\ m' = AfterReduce(z, k)
               /\ overflow' = (overflow \/ HasInf(z.chunk[g]))
          ELSE m' = y /\ UNCHANGED overflow
  /\ hooks' = hooks \ {p}
  /\ UNCHANGED <<cfg, grads_device, phase, pos, running, manager, accumulating, version,
                 iter, since, bad, inferences, moved>>

-----------------------------------------------------------------------------
(* Passes and steps.  Without accumulation the gradients take the place of *)
(* the weights, and only a step brings these back.                         *)
Start(ph, midway) ==
  /\ phase = "idle" /\ (since # {} => cfg.accumulate /\ midway)
  /\ phase' = ph /\ pos' = 0

StartForward ==
  /\ iter < MaxIterations /\ Start("forward", TRUE)
  /\ iter' = iter + 1
  /\ \E S \in {{}, cfg.overflows} :
       bad' = bad \cup {<<iter', p>> : p \in S}
  /\ UNCHANGED <<cfg, m, grads_device, running, hooks, manager, accumulating, overflow,
                 version, since, inferences, moved>>

StartBackward ==
  /\ phase = "forward" /\ pos = Len(Fwd) /\ ~running
  /\ phase' = "backward" /\ pos' = 0
  /\ UNCHANGED <<cfg, m, grads_device, running, hooks, manager, accumulating, overflow,
                 version, iter, since, bad, inferences, moved>>

PostBackward ==
  /\ phase = "backward" /\ pos = Len(Bwd) /\ ~running /\ hooks = {}
  /\ m' = Asserting(m, m.accessed_mem = 0)
  /\ accumulating' = cfg.accumulate
  /\ manager' = [manager EXCEPT !.warmup = FALSE, !.compute_idx = -1]
  /\ phase' = "idle" /\ since' = since \cup {iter}
  /\ UNCHANGED <<cfg, grads_device, pos, running, hooks, overflow, version, iter, bad,
                 inferences, moved>>

\* _inference_forward; the second kind is scatter_after_inference = False.
StartInference ==
  /\ inferences < MaxInferences
  /\ cfg.auto => ~manager.warmup
  /\ \/ /\ cfg.infers \in {"scatters", "midway"} /\ UNCHANGED m
        /\ Start("inference", cfg.infers = "midway")
     \/ /\ cfg.infers = "keeps" /\ Start("all gathered", FALSE)
        /\ m' = Access(m, ParamKeys)
  /\ inferences' = inferences + 1
  /\ UNCHANGED <<cfg, grads_device, running, hooks, manager, accumulating, overflow,
                 version, iter, since, bad, moved>>

PostForward(x) ==
  LET kept == {k \in x.accessed : Kept(k)}
      rest == x.accessed \ kept
      y == Asserting(FakeRelease(x, kept), \A k \in rest : CanRelease(k, x.chunk[k]))
  IN Move(Release(y, rest), x.accessed, grads_device, FALSE)

EndInference ==
  /\ \/ phase = "inference" /\ pos = Len(Fwd) /\ ~running
     \/ phase = "all gathered"
  /\ m' = IF phase = "all gathered" THEN m
          ELSE Asserting(PostForward(m), PostForward(m).accessed_mem = 0)
  /\ phase' = "idle" /\ manager' = [manager EXCEPT !.compute_idx = -1]
  /\ UNCHANGED <<cfg, grads_device, pos, running, hooks, accumulating, overflow, version,
                 iter, since, bad, inferences, moved>>

\* Mutant: what the CPU has seen before counts as seen.
RefreshedAndSeen(c, sync) == [c EXCEPT !.optim_sync = sync]
Refreshed(c, sync) == [c EXCEPT !.optim_sync = sync, !.cpu_vis = FALSE]

\* A chunk takes the master weights over, or notes that it has to.
OptimUpdate(k, c, v, device) ==
  LET new == Filled(k, Weight(v)) IN
  IF c.is_gathered THEN [c EXCEPT !.global = new, !.optim_sync = TRUE]
  ELSE IF device = "cuda" /\ OnCuda(c) THEN Refreshed([c EXCEPT !.cuda = new], TRUE)
  ELSE Refreshed(Asserting(c, device = "cpu" /\ ~OnCuda(c)), FALSE)

Updated(x, v, device) ==
  Put(x, [k \in ParamKeys |-> OptimUpdate(k, x.chunk[k], v, device[k[1]])])

\* _maybe_move_fp32_params, as far as there is memory to spare.
ToMove == IF cfg.margin /\ ~moved THEN SUBSET {c \in Chunks : grads_device[c] = "cpu"} ELSE {{}}

Step ==
  /\ phase = "idle" /\ since # {}
  /\ \E X \in ToMove :
       LET device == [c \in Chunks |-> IF c \in X THEN "cuda" ELSE grads_device[c]]
           gone == Move(m, {Param(c) : c \in X}, Everywhere("cuda"), FALSE)
           there == Asserting(gone, \A c \in Chunks :
                                Device(gone.chunk[GradKey(Param(c))]) = device[c])
       IN /\ grads_device' = device
          /\ IF overflow
               THEN /\ m' = IF cfg.accumulate THEN there ELSE Updated(there, version, device)
                    /\ UNCHANGED <<version, accumulating>>
               ELSE /\ m' = Updated(there, version + 1, device) /\ version' = version + 1
                    /\ accumulating' = FALSE
  /\ overflow' = FALSE /\ moved' = cfg.margin /\ since' = {}
  /\ UNCHANGED <<cfg, phase, pos, running, hooks, manager, iter, bad, inferences>>

\* No assertion has failed.
Fine == m.ok /\ \A k \in Keys : m.chunk[k].ok

Next ==
  /\ Fine
  /\ \/ PreOp \/ PostOp \/ \E p \in Params : GradHandle(p)
     \/ StartForward \/ StartBackward \/ PostBackward
     \/ StartInference \/ EndInference \/ Step

Spec == Init /\ [][Next]_vars

-----------------------------------------------------------------------------
\* An operator never runs on anything but the weights of the last step: its
\* chunks are gathered, the gather is over, and what they hold is neither a
\* gradient nor a copy that some device kept from before, through all the
\* evictions, moves and prefetches of the placement policy.
ComputesOnWeights ==
  running \/ phase = "all gathered" =>
    \A p \in IF running THEN ToSet(Current) ELSE Params :
      LET k == Param(ChunkOf[p]) IN
      /\ m.chunk[k].is_gathered /\ k \notin m.works
      /\ m.chunk[k].global[p] = Weight(version)

\* What the optimizer steps with is, for every parameter, the gradient of each
\* iteration since the last step once, and of no other: whatever was evicted
\* or moved, in whatever order the hooks came, and though the last step was
\* skipped.
GradsComplete ==
  phase = "idle" /\ since # {} =>
    \A p \in Params :
      Payload(m.chunk[GradKey(Param(ChunkOf[p]))])[p] =
        Grad([i \in 1 .. MaxIterations |-> IF i \in since THEN 1 ELSE 0])

\* The totals that the placement policies go by, which are kept by adding and
\* subtracting around every operation, are what the chunks take up.
MemoryAccounted ==
  /\ m.total = Usage(m, Keys)
  /\ m.accessed_mem = GroupSize * Cardinality(m.accessed)
  /\ \A k \in Keys : ~Kept(k) => (m.chunk[k].is_gathered <=> k \in m.accessed)

\* No assertion of the chunks and of their manager fails, no hook meets a
\* parameter in another state than it expects, the reductions leave no chunk
\* gathered, and a chunk is where its master copy is when the step is taken.
NeverRaises == Fine
===============================================================================
