----------------------------- MODULE Interleaved -----------------------------
(***************************************************************************)
(* The interleaved 1F1B schedule, whose communication overlaps with the    *)
(* computation:                                                            *)
(*   colossalai/pipeline/schedule/interleaved_pp.py (InterleavedSchedule), *)
(*   colossalai/pipeline/p2p.py (_communicate, PipelineP2PCommunication),  *)
(*   colossalai/pipeline/stage_manager.py.                                 *)
(*                                                                         *)
(* A stage holds several chunks of the model; the last stage sends to the  *)
(* first.  Metadata is waited for; data is started, and waited for when it *)
(* is needed.  All stages share one process group: what a stage starts is  *)
(* carried out in that order, one batch of a send and a receive after the  *)
(* other, and a send is over when the receive it meets is.  So between two *)
(* stages a receive gets what was sent first, be it an activation, a       *)
(* gradient or metadata.                                                   *)
(*                                                                         *)
(* An object is its microbatch, where it was made, its rows and whether it *)
(* requires a gradient.  send_first orders operations of one batch, which  *)
(* start together, and is left out.                                        *)
(***************************************************************************)
EXTENDS Integers, FiniteSets, SequencesExt

CONSTANTS
  Configs,   \* [stages, chunks, overlap, num, size, cache]: the schedule's arguments
  Scripts,   \* config -> sequences of [train, rows]: the steps all stages run
  None

ASSUME InterleavedAssumption ==
  \A c \in Configs : c.stages \in Nat \ {0, 1} /\ c.chunks \in Nat \ {0, 1}

VARIABLES
  cfg, script,
  sched,    \* stage -> attributes of its schedule object
  step,     \* stage -> steps begun
  todo,     \* stage -> calls left in the step
  loaded,   \* stage -> chunk -> microbatches loaded, microbatch_offset
  input_obj, output_obj, output_obj_grad, input_obj_grad,  \* the locals of a stage
  saved,    \* stage -> chunk -> input_objs and output_objs, pairwise
  wire,     \* stage -> batches started and not over
  midway,   \* stages whose call has started metadata
  buffer,   \* stage -> the metadata that has come for the call
  failed    \* the stages where an assertion has failed

locals == <<input_obj, output_obj, output_obj_grad, input_obj_grad, saved>>
vars   == <<cfg, script, sched, step, todo, loaded, locals, wire, midway, buffer, failed>>

Stages     == 0 .. cfg.stages - 1
Chunks     == 0 .. cfg.chunks - 1
NextRank(s) == (s + 1) % cfg.stages
PrevRank(s) == (s - 1) % cfg.stages
IsFirst(s, c) == s = 0 /\ c = 0
IsLast(s, c)  == s = cfg.stages - 1 /\ c = cfg.chunks - 1
Place(s, c) == c * cfg.stages + s
Batch(s)    == script[step[s]]
Fewer(m, n) == IF m <= n THEN m ELSE n

-----------------------------------------------------------------------------
(* The order of the calls of a step; m passes of a microbatch by a chunk.  *)
ForwardChunk(i) == (i % (cfg.stages * cfg.chunks)) \div cfg.stages

BackwardChunk(i) == cfg.chunks - ForwardChunk(i) - 1

\* A communication of activations or of gradients, of no chunk where it is None.
Comm(what, sent, received) ==
  [call |-> "communicate", what |-> what, sent |-> sent, received |-> received]

Concat(F, from, to) == FlattenSeq([k \in 1 .. to - from + 1 |-> F[from + k - 1]])

\* A pass, and the communication after it.
ForwardPasses(m) == [i \in 0 .. m - 1 |->
  <<[call |-> "forward", chunk |-> ForwardChunk(i)],
    Comm("activation", ForwardChunk(i), IF i = m - 1 THEN None ELSE ForwardChunk(i + 1))>>]
BackwardPasses(m) == [i \in 0 .. m - 1 |->
  <<[call |-> "backward", chunk |-> BackwardChunk(i)],
    Comm("gradient", BackwardChunk(i), IF i = m - 1 THEN None ELSE BackwardChunk(i + 1))>>]

Warmup(s, m) == Fewer(2 * (cfg.stages - s - 1) + (cfg.chunks - 1) * cfg.stages, m)

EvalCalls(m) ==
  <<Comm("activation", None, ForwardChunk(0))>> \o Concat(ForwardPasses(m), 0, m - 1)

TrainCalls(s, m) ==
  LET f == ForwardPasses(m)
      b == BackwardPasses(m)
      w == Warmup(s, m)
  IN <<Comm("activation", None, ForwardChunk(0))>> \o Concat(f, 0, w - 1)
     \o <<Comm("gradient", None, BackwardChunk(0))>>
     \o Concat([i \in 0 .. m - w - 1 |-> f[w + i] \o b[i]], 0, m - w - 1)
     \o Concat(b, m - w, m - 1)

-----------------------------------------------------------------------------
(* load_batch.                                                             *)
Divides(m, n) == n % m = 0

\* The sizes, once both are known; None when one does not divide the batch.
Sized(a, rows) ==
  IF a.size = None
  THEN IF Divides(a.num, rows) THEN [a EXCEPT !.size = rows \div a.num] ELSE None
  ELSE IF a.num = None
  THEN IF Divides(a.size, rows) THEN [a EXCEPT !.num = rows \div a.size] ELSE None
  ELSE a

TrainingAsserts(a, rows) ==
  a.last \in {None, rows} /\ rows = a.size * a.num /\ Divides(cfg.stages, a.num)

\* The metadata cache is off from now on.
DropCache(a) ==
  [a EXCEPT !.cache = FALSE, !.send = [activation |-> TRUE, gradient |-> TRUE],
            !.cached = [activation |-> None, gradient |-> None]]

\* Mutant: the last, smaller, microbatch is dropped.
EvalMicrobatchesDown(rows, size) == rows \div size
EvalMicrobatches(rows, size) == (rows - 1) \div size + 1

\* The attributes after load_batch, None when an assertion fails.
Loaded(a0, b) ==
  LET a == Sized(a0, b.rows)
  IN IF a = None THEN None
     ELSE IF b.train
     THEN IF TrainingAsserts(a, b.rows) THEN [a EXCEPT !.last = b.rows] ELSE None
     ELSE LET e == [a EXCEPT !.num = EvalMicrobatches(b.rows, a.size), !.last = b.rows]
          IN IF a.last = b.rows THEN e ELSE DropCache(e)

\* A stage goes on when it waits for nothing: without overlap, not for data either.
Free(s) == s \notin failed /\ s \notin midway /\ (cfg.overlap \/ wire[s] = <<>>)
Calls(s, c) == Free(s) /\ todo[s] # <<>> /\ Head(todo[s]).call = c

\* forward_backward_step, up to the first call.
BeginStep(s) ==
  /\ Free(s) /\ todo[s] = <<>> /\ step[s] < Len(script)
  /\ step' = [step EXCEPT ![s] = @ + 1]
  /\ LET b == script[step[s] + 1]
         a == Loaded(sched[s], b)
     IN IF a = None
        THEN failed' = failed \cup {s} /\ UNCHANGED <<sched, todo, loaded>>
        ELSE /\ sched' = [sched EXCEPT ![s] = a]
             /\ todo' = [todo EXCEPT ![s] = LET m == a.num * cfg.chunks
                                            IN IF b.train THEN TrainCalls(s, m) ELSE EvalCalls(m)]
             /\ loaded' = [loaded EXCEPT ![s] = [c \in Chunks |-> 0]]
             /\ UNCHANGED failed
  /\ UNCHANGED <<cfg, script, locals, wire, midway, buffer>>

-----------------------------------------------------------------------------
(* A communication: whether there is something to send and to receive.     *)
IsSend(s, c) ==
  /\ c.sent # None
  /\ IF c.what = "activation" THEN ~IsLast(s, c.sent) ELSE ~IsFirst(s, c.sent)
IsRecv(s, c) ==
  /\ c.received # None
  /\ IF c.what = "activation" THEN ~IsFirst(s, c.received) ELSE ~IsLast(s, c.received)

Meta(obj) == [rows |-> obj.rows, grad |-> obj.grad]

\* A batch of kind "metadata" or "data".  The handles of the last one are held.
Start(s, c, kind, send, recv) ==
  LET up == c.what = "activation"
      Dropped(q) == [i \in DOMAIN q |-> [q[i] EXCEPT !.held = @ /\ q[i].what # c.what]]
      b == [kind |-> kind, what |-> c.what, held |-> TRUE, send |-> send, recv |-> recv,
            obj  |-> IF up THEN output_obj[s] ELSE input_obj_grad[s],
            to   |-> IF up THEN NextRank(s) ELSE PrevRank(s),
            from |-> IF up THEN PrevRank(s) ELSE NextRank(s)]
  IN wire' = [wire EXCEPT ![s] = Dropped(@) \o IF send \/ recv THEN <<b>> ELSE <<>>]

Awaits(s, kind, what) ==
  \E i \in DOMAIN wire[s] : wire[s][i].kind = kind /\ wire[s][i].what = what /\ wire[s][i].held

\* Mutant: after a pair of which nothing was sent, metadata goes along again.
SendFlagAgain(flag, cache, pair, is_send) ==
  IF pair THEN ~(cache /\ is_send) ELSE IF is_send THEN ~cache ELSE flag

\* send_tensor_metadata, send_grad_metadata: a call that sends and receives
\* sets it even where there was nothing to send.
SendFlag(flag, cache, pair, is_send) ==
  IF pair THEN ~cache /\ is_send ELSE IF is_send THEN ~cache ELSE flag

\* The data is started, the call returns, and the object will come.
StartData(s, c, got) ==
  LET w == c.what
      a == sched[s]
      pair == c.sent # None /\ c.received # None
  IN /\ Start(s, c, "data", IsSend(s, c), IsRecv(s, c))
     /\ sched' = [sched EXCEPT
          ![s].send[w] = SendFlag(@, a.cache, pair, IsSend(s, c)),
          ![s].cached[w] = IF IsRecv(s, c) /\ a.cache /\ @ = None THEN got ELSE @]
     /\ IF c.received = None THEN UNCHANGED <<input_obj, output_obj_grad>>
        ELSE IF w = "activation"
        THEN input_obj' = [input_obj EXCEPT ![s] = got] /\ UNCHANGED output_obj_grad
        ELSE output_obj_grad' = [output_obj_grad EXCEPT ![s] = got] /\ UNCHANGED input_obj
     /\ todo' = [todo EXCEPT ![s] = Tail(@)]
     /\ midway' = midway \ {s} /\ buffer' = [buffer EXCEPT ![s] = None]

Communicate(s) ==
  /\ Calls(s, "communicate")
  /\ LET c == Head(todo[s])
         sends == IsSend(s, c) /\ sched[s].send[c.what]
         wants == IsRecv(s, c) /\ sched[s].cached[c.what] = None
     IN IF sends \/ wants
        THEN /\ Start(s, c, "metadata", sends, wants)
             /\ midway' = midway \cup {s}
             /\ UNCHANGED <<sched, todo, input_obj, output_obj_grad, buffer>>
        ELSE StartData(s, c, IF IsRecv(s, c) THEN sched[s].cached[c.what] ELSE None)
  /\ UNCHANGED <<cfg, script, step, loaded, output_obj, input_obj_grad, saved, failed>>

\* The metadata is over; without any received, the cached one makes the buffer.
MetadataEnds(s) ==
  /\ s \notin failed /\ s \in midway /\ ~Awaits(s, "metadata", Head(todo[s]).what)
  /\ LET c == Head(todo[s])
     IN StartData(s, c, IF ~IsRecv(s, c) THEN None
                        ELSE IF buffer[s] = None THEN sched[s].cached[c.what] ELSE buffer[s])
  /\ UNCHANGED <<cfg, script, step, loaded, output_obj, input_obj_grad, saved, failed>>

-----------------------------------------------------------------------------
(* What meets on the wires: the first batches of both.                     *)
Facing(s, t) ==
  /\ wire[s] # <<>> /\ wire[t] # <<>>
  /\ Head(wire[s]).send /\ Head(wire[s]).to = t
  /\ Head(wire[t]).recv /\ Head(wire[t]).from = s

\* A batch with one of its operations done is over when the other is.
Done(q, op) == LET b == [Head(q) EXCEPT ![op] = FALSE]
               IN IF b.send \/ b.recv THEN <<b>> \o Tail(q) ELSE Tail(q)

Transfer(s, t) ==
  /\ Facing(s, t) /\ Head(wire[s]).kind = Head(wire[t]).kind
  /\ wire' = [wire EXCEPT ![s] = Done(@, "send"), ![t] = Done(@, "recv")]
  /\ LET obj == Head(wire[s]).obj
         b   == Head(wire[t])
         Into(m) == [obj EXCEPT !.rows = m.rows, !.grad = m.grad]
         For(kind, what) == b.kind = kind /\ b.what = what /\ b.held
     IN /\ buffer' = IF b.kind = "metadata" THEN [buffer EXCEPT ![t] = Meta(obj)] ELSE buffer
        /\ input_obj' = IF For("data", "activation") THEN [input_obj EXCEPT ![t] = Into(@)]
                        ELSE input_obj
        /\ output_obj_grad' = IF For("data", "gradient")
                              THEN [output_obj_grad EXCEPT ![t] = Into(@)] ELSE output_obj_grad
  /\ UNCHANGED <<cfg, script, sched, step, todo, loaded, output_obj, input_obj_grad, saved, midway,
                 failed>>

-----------------------------------------------------------------------------
(* The computations, each after the wait for its object.                   *)
Micro(s, c) == [mb   |-> <<step[s], loaded[s][c]>>,
                rows |-> Fewer(sched[s].size, Batch(s).rows - loaded[s][c] * sched[s].size)]

\* Mutant: the forward pass does not wait for its input.
ArrivedUnseen(s, what) == TRUE
\* _wait_p2p
Arrived(s, what) == ~Awaits(s, "data", what)

ForwardStep(s) ==
  /\ Calls(s, "forward") /\ Arrived(s, "activation")
  /\ LET c == Head(todo[s]).chunk
         out == [mb    |-> IF IsFirst(s, c) THEN Micro(s, c).mb ELSE input_obj[s].mb,
                 place |-> Place(s, c), what |-> "activation",
                 rows  |-> IF IsFirst(s, c) THEN Micro(s, c).rows ELSE input_obj[s].rows,
                 grad  |-> Batch(s).train]
     IN IF loaded[s][c] * sched[s].size > Batch(s).rows
        THEN failed' = failed \cup {s} /\ UNCHANGED <<todo, loaded, output_obj, saved>>
        ELSE /\ output_obj' = [output_obj EXCEPT ![s] = out]
             /\ loaded' = [loaded EXCEPT ![s][c] = @ + 1]
             /\ saved' = [saved EXCEPT ![s][c] =
                            IF Batch(s).train
                            THEN Append(@, [input |-> input_obj[s], output |-> out]) ELSE @]
             /\ todo' = [todo EXCEPT ![s] = Tail(@)]
             /\ UNCHANGED failed
  /\ UNCHANGED <<cfg, script, sched, step, input_obj, output_obj_grad, input_obj_grad, wire, midway,
                 buffer>>

\* The gradient of an input: empty where the input did not require one.
GradOf(s, c, obj) ==
  IF obj = None THEN None
  ELSE [mb |-> obj.mb, place |-> Place(s, c), what |-> "gradient",
        rows |-> IF obj.grad THEN obj.rows ELSE 0, grad |-> FALSE]

BackwardStep(s) ==
  /\ Calls(s, "backward") /\ Arrived(s, "gradient")
  /\ LET c == Head(todo[s]).chunk
     IN /\ input_obj_grad' = [input_obj_grad EXCEPT ![s] = GradOf(s, c, Head(saved[s][c]).input)]
        /\ saved' = [saved EXCEPT ![s][c] = Tail(@)]
  /\ todo' = [todo EXCEPT ![s] = Tail(@)]
  /\ UNCHANGED <<cfg, script, sched, step, loaded, input_obj, output_obj, output_obj_grad, wire,
                 midway, buffer, failed>>

-----------------------------------------------------------------------------
Init ==
  /\ cfg \in Configs /\ script \in Scripts[cfg]
  /\ sched = [s \in Stages |-> [num |-> cfg.num, size |-> cfg.size, cache |-> cfg.cache, last |-> None,
                                send |-> [activation |-> TRUE, gradient |-> TRUE],
                                cached |-> [activation |-> None, gradient |-> None]]]
  /\ step = [s \in Stages |-> 0]
  /\ loaded = [s \in Stages |-> [c \in Chunks |-> 0]]
  /\ todo = [s \in Stages |-> <<>>] /\ wire = todo
  /\ saved = [s \in Stages |-> [c \in Chunks |-> <<>>]]
  /\ input_obj = [s \in Stages |-> None] /\ output_obj = input_obj
  /\ output_obj_grad = input_obj /\ input_obj_grad = input_obj
  /\ buffer = input_obj /\ midway = {} /\ failed = {}

StageStep(s) ==
  BeginStep(s) \/ Communicate(s) \/ MetadataEnds(s) \/ ForwardStep(s) \/ BackwardStep(s)

Next == \E s \in Stages : StageStep(s) \/ \E t \in Stages : Transfer(s, t)

\* Every process runs, and what meets on the wires is carried out.
Spec == Init /\ [][Next]_vars
             /\ WF_vars(\E s \in Stages : StageStep(s)) /\ WF_vars(\E s, t \in Stages : Transfer(s, t))

-----------------------------------------------------------------------------
\* What meets is metadata on both sides or data on both, and an activation where
\* one is wanted, a gradient where one is.
WiresAgree ==
  \A s, t \in Stages : Facing(s, t) =>
    LET b == Head(wire[s])
        d == Head(wire[t])
    IN b.kind = d.kind /\ b.what = d.what

\* interleaved_pp.py:94 takes the metadata cache for disabled: from there on what
\* is sent to a stage that waits for metadata goes with it.
MetadataGoesAlong ==
  \A s, t \in Stages : Facing(s, t) /\ ~sched[s].cache =>
    (Head(wire[t]).kind = "metadata" => Head(wire[s]).kind = "metadata")

\* A pass is of the object it is meant for, which has come: the microbatch the
\* stage has loaded for the chunk, from the place before, and the gradient of
\* the oldest saved output of the chunk, from the place after.
OwnObjects ==
  \A s \in Stages :
    /\ Calls(s, "forward") /\ Arrived(s, "activation") =>
         LET c == Head(todo[s]).chunk IN
         IF IsFirst(s, c) THEN input_obj[s] = None
         ELSE /\ input_obj[s] \in [mb : {Micro(s, c).mb}, place : {Place(s, c) - 1},
                                  what : {"activation"}, rows : {Micro(s, c).rows}, grad : BOOLEAN]
              /\ Batch(s).train => input_obj[s].grad
    /\ Calls(s, "backward") /\ Arrived(s, "gradient") =>
         LET c == Head(todo[s]).chunk
             o == Head(saved[s][c]).output IN
         IF IsLast(s, c) THEN output_obj_grad[s] = None
         ELSE output_obj_grad[s] = [mb |-> o.mb, place |-> Place(s, c) + 1, what |-> "gradient",
                                    rows |-> o.rows, grad |-> FALSE]

\* A step that is over has taken every microbatch through every chunk, and has
\* nothing saved.
WholeBatch(s) ==
  \A c \in Chunks : /\ saved[s][c] = <<>>
                    /\ loaded[s][c] * sched[s].size >= Batch(s).rows
                    /\ (loaded[s][c] - 1) * sched[s].size < Batch(s).rows

\* No stage waits for ever, nothing is left on the wires, and no row is left out.
EveryStepEnds ==
  <>[](\/ failed = Stages
       \/ \A s \in Stages : /\ step[s] = Len(script) /\ todo[s] = <<>> /\ wire[s] = <<>>
                            /\ WholeBatch(s))
===============================================================================
