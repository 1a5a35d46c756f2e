------------------------------ MODULE OneFOneB ------------------------------
(***************************************************************************)
(* The 1F1B pipeline schedule and the metadata cache of its communication: *)
(*   colossalai/pipeline/schedule/one_f_one_b.py                           *)
(*     (OneForwardOneBackwardSchedule),                                    *)
(*   colossalai/pipeline/p2p.py (_communicate, PipelineP2PCommunication).  *)
(*                                                                         *)
(* Every stage runs the same script of training and evaluation steps, each *)
(* at its own pace.  A communication is a rendezvous, as with NCCL: an     *)
(* operation waits until the peer has posted the matching one.  An object  *)
(* goes as metadata, then data; either side leaves the metadata out        *)
(* according to its own cache, and nothing on the wire tells the two       *)
(* apart.                                                                  *)
(*                                                                         *)
(* A tensor is its microbatch, its rows and whether it requires a gradient.*)
(* send_first only orders two operations that are started together, and is *)
(* left out.  Batches differ in rows only, and hold tensors only.          *)
(***************************************************************************)
EXTENDS Integers, Sequences, FiniteSets

CONSTANTS
  NumStages,  \* pipeline stages
  Configs,    \* [num, size, cache]: the arguments of the schedule
  Scripts,    \* sequences of [train, rows]: the steps every stage runs
  None

Sizes   == (Nat \ {0}) \cup {None}
Tensors == [mb : Nat \X Nat, rows : Nat, grad : BOOLEAN]
Metas   == [rows : Nat, grad : BOOLEAN]

\* The attributes of a schedule object, and a communication.
Schedules ==
  [num : Sizes, size : Sizes, cache : BOOLEAN, last : Nat \cup {None},
   send_tensor : BOOLEAN, send_grad : BOOLEAN,
   tensor_recv : Metas \cup {None}, grad_recv : Metas \cup {None}]
Communications ==
  [peer : Int, obj : Tensors \cup {None}, wants : BOOLEAN, buffer : Metas \cup {None},
   got : Tensors \cup {None}, phase : {"metadata", "data"}, send : BOOLEAN, recv : BOOLEAN]

ASSUME PipelineAssumption ==
  /\ NumStages \in Nat \ {0, 1}
  /\ None \notin Nat \cup Tensors \cup Metas \cup Schedules \cup Communications
  /\ Configs \subseteq [num : Sizes, size : Sizes, cache : BOOLEAN]
  /\ \A c \in Configs : c.num # None \/ c.size # None
  /\ Scripts \subseteq Seq([train : BOOLEAN, rows : Nat \ {0}])

VARIABLES
  script,   \* the steps, the same for all stages
  sched,    \* stage -> attributes of its schedule object
  step,     \* stage -> steps begun
  todo,     \* stage -> calls left in the step
  loaded,   \* stage -> microbatches loaded in the step
  input_obj, output_obj, output_obj_grad, input_obj_grad,  \* the locals of a stage
  saved,    \* stage -> input_objs and output_objs, pairwise
  comm,     \* stage -> the communication it waits for
  failed    \* the stages where an assertion has failed

locals == <<input_obj, output_obj, output_obj_grad, input_obj_grad, saved>>
vars == <<script, sched, step, todo, loaded, locals, comm, failed>>

Stages == 0 .. NumStages - 1
IsFirst(s) == s = 0
IsLast(s)  == s = NumStages - 1
Batch(s)   == script[step[s]]
Size(s)    == sched[s].size
Fewer(m, n) == IF m <= n THEN m ELSE n
Rest(s)    == [todo EXCEPT ![s] = Tail(@)]
Calls(s, c) == s \notin failed /\ comm[s] = None /\ todo[s] # <<>> /\ Head(todo[s]) = c

-----------------------------------------------------------------------------
(* The order of the calls of a step.                                       *)
EvalCalls(n) ==
  [k \in 1 .. 3 * n |-> <<"recv_forward", "forward_step", "send_forward">>[((k - 1) % 3) + 1]]

\* Mutant: one forward too many before the first backward.
WarmupOneMore(s, n) == Fewer(NumStages - s, n)

Warmup(s, n) == Fewer(NumStages - s - 1, n)

TrainCalls(s, n) ==
  LET warmup == Warmup(s, n)
      steady == n - warmup
      first  == IF steady > 0 THEN 1 ELSE 0
  IN EvalCalls(warmup)
     \o [k \in 1 .. first |-> "recv_forward"]
     \o [k \in 1 .. 4 * steady |->
           <<"forward_step", "send_forward_recv_backward", "backward_step",
             IF k = 4 * steady THEN "send_backward"
             ELSE "send_backward_recv_forward">>[((k - 1) % 4) + 1]]
     \o [k \in 1 .. 3 * warmup |->
           <<"recv_backward", "backward_step", "send_backward">>[((k - 1) % 3) + 1]]

-----------------------------------------------------------------------------
(* load_batch.                                                             *)
Divides(m, n) == n % m = 0

\* Mutant: the last, smaller, microbatch is dropped.
EvalMicrobatchesDown(rows, size) == rows \div size

EvalMicrobatches(rows, size) == (rows - 1) \div size + 1

\* The sizes, once both are known; None when one does not divide the batch.
Sized(a, rows) ==
  IF a.size = None
  THEN IF Divides(a.num, rows) THEN [a EXCEPT !.size = rows \div a.num] ELSE None
  ELSE IF a.num = None
  THEN IF Divides(a.size, rows) THEN [a EXCEPT !.num = rows \div a.size] ELSE None
  ELSE a

TrainingAsserts(a, rows) ==
  /\ a.last \in {None, rows}
  /\ rows = a.size * a.num
  /\ a.num >= NumStages

\* Mutant: a new batch size leaves the cache on.
KeepCache(a) == a

\* The metadata cache is off from now on.
DropCache(a) ==
  [a EXCEPT !.cache = FALSE, !.send_tensor = TRUE, !.send_grad = TRUE,
            !.tensor_recv = None, !.grad_recv = None]

\* The attributes after load_batch, None when an assertion fails.
Loaded(a0, b) ==
  LET a == Sized(a0, b.rows)
  IN IF a = None THEN None
     ELSE IF b.train
     THEN IF TrainingAsserts(a, b.rows) THEN [a EXCEPT !.last = b.rows] ELSE None
     ELSE LET e == [a EXCEPT !.num = EvalMicrobatches(b.rows, a.size), !.last = b.rows]
          IN IF a.last = b.rows THEN e ELSE DropCache(e)

\* forward_backward_step, up to the first call.
BeginStep(s) ==
  /\ s \notin failed /\ comm[s] = None /\ todo[s] = <<>> /\ step[s] < Len(script)
  /\ step' = [step EXCEPT ![s] = @ + 1]
  /\ LET b == script[step[s] + 1]
         a == Loaded(sched[s], b)
     IN IF a = None
        THEN failed' = failed \cup {s} /\ UNCHANGED <<sched, todo, loaded>>
        ELSE /\ sched' = [sched EXCEPT ![s] = a]
             /\ todo' = [todo EXCEPT ![s] = IF b.train THEN TrainCalls(s, a.num)
                                            ELSE EvalCalls(a.num)]
             /\ loaded' = [loaded EXCEPT ![s] = 0]
             /\ UNCHANGED failed
  /\ UNCHANGED <<script, locals, comm>>

-----------------------------------------------------------------------------
(* _communicate: metadata where one side has to, then data.                *)
Meta(obj) == [rows |-> obj.rows, grad |-> obj.grad]

\* Waiting for the data, or finished.
DataPhase(c) == [c EXCEPT !.phase = "data", !.send = c.obj # None, !.recv = c.wants]

\* obj goes to the peer (None: nothing goes), with its metadata or not; an
\* object is wanted from the peer or not, its metadata being cached or None.
Communicate(s, peer, obj, send_metadata, wants, metadata_recv) ==
  LET c == [peer |-> peer, obj |-> obj, wants |-> wants, buffer |-> metadata_recv,
            got |-> None, phase |-> "metadata",
            send |-> obj # None /\ send_metadata,
            recv |-> wants /\ metadata_recv = None]
  IN comm' = [comm EXCEPT ![s] = IF c.send \/ c.recv THEN c ELSE DataPhase(c)]

Facing(s, t) ==
  /\ comm[s] # None /\ comm[t] # None
  /\ comm[s].peer = t /\ comm[t].peer = s
  /\ comm[s].send /\ comm[t].recv

PhaseOver(c) == IF ~c.send /\ ~c.recv /\ c.phase = "metadata" THEN DataPhase(c) ELSE c

Sent(c) == PhaseOver([c EXCEPT !.send = FALSE])

\* The metadata makes the buffer; the data fills it.
Received(c, obj) ==
  PhaseOver(IF c.phase = "metadata"
            THEN [c EXCEPT !.recv = FALSE, !.buffer = Meta(obj)]
            ELSE [c EXCEPT !.recv = FALSE,
                           !.got = [mb |-> obj.mb, rows |-> c.buffer.rows, grad |-> c.buffer.grad]])

Transfer(s, t) ==
  /\ Facing(s, t)
  /\ comm[s].phase = comm[t].phase
  /\ comm' = [comm EXCEPT ![s] = Sent(comm[s]), ![t] = Received(comm[t], comm[s].obj)]
  /\ UNCHANGED <<script, sched, step, todo, loaded, locals, failed>>

\* A call of stage s that is a communication: it is started, ...
Starts(s, c) ==
  /\ Calls(s, c)
  /\ UNCHANGED <<script, sched, step, todo, loaded, locals, failed>>

\* ... and it is over when nothing is waited for.
Ends(s, c) ==
  /\ comm[s] # None /\ comm[s].phase = "data" /\ ~comm[s].send /\ ~comm[s].recv
  /\ Head(todo[s]) = c
  /\ comm' = [comm EXCEPT ![s] = None]
  /\ todo' = Rest(s)
  /\ UNCHANGED <<script, step, loaded, output_obj, input_obj_grad, failed>>

-----------------------------------------------------------------------------
(* The metadata cache, after a communication.                              *)
TensorSent(a) == [a EXCEPT !.send_tensor = ~a.cache]

\* Mutant: the metadata of gradients is sent every time.
GradSentUncached(a) == a

GradSent(a) == [a EXCEPT !.send_grad = ~a.cache]

TensorCached(a, obj) ==
  IF a.cache /\ a.tensor_recv = None THEN [a EXCEPT !.tensor_recv = Meta(obj)] ELSE a

GradCached(a, obj) ==
  IF a.cache /\ a.grad_recv = None THEN [a EXCEPT !.grad_recv = Meta(obj)] ELSE a

\* What the loops append to input_objs and output_objs.
Save(s) ==
  saved' = [saved EXCEPT ![s] = IF Batch(s).train
                                THEN Append(@, [input |-> input_obj[s], output |-> output_obj[s]])
                                ELSE @]

\* Calls that return at once at one end of the pipeline.
SkipAtFirst(s) ==
  /\ IsFirst(s)
  /\ \E c \in {"recv_forward", "send_backward", "send_backward_recv_forward"} : Calls(s, c)
  /\ todo' = Rest(s)
  /\ UNCHANGED <<script, sched, step, loaded, locals, comm, failed>>

SkipAtLast(s) ==
  /\ IsLast(s)
  /\ \E c \in {"send_forward", "send_forward_recv_backward"} : Calls(s, c)
  /\ todo' = Rest(s)
  /\ output_obj_grad' = [output_obj_grad EXCEPT ![s] = None]
  /\ Save(s)
  /\ UNCHANGED <<script, sched, step, loaded, input_obj, output_obj, input_obj_grad, comm, failed>>

RecvForward(s) ==
  /\ ~IsFirst(s)
  /\ Starts(s, "recv_forward")
  /\ Communicate(s, s - 1, None, FALSE, TRUE, sched[s].tensor_recv)

RecvForwardEnds(s) ==
  /\ Ends(s, "recv_forward")
  /\ input_obj' = [input_obj EXCEPT ![s] = comm[s].got]
  /\ sched' = [sched EXCEPT ![s] = TensorCached(@, comm[s].got)]
  /\ UNCHANGED <<output_obj_grad, saved>>

RecvBackward(s) ==
  /\ ~IsLast(s)
  /\ Starts(s, "recv_backward")
  /\ Communicate(s, s + 1, None, FALSE, TRUE, sched[s].grad_recv)

RecvBackwardEnds(s) ==
  /\ Ends(s, "recv_backward")
  /\ output_obj_grad' = [output_obj_grad EXCEPT ![s] = comm[s].got]
  /\ sched' = [sched EXCEPT ![s] = GradCached(@, comm[s].got)]
  /\ UNCHANGED <<input_obj, saved>>

SendForward(s) ==
  /\ ~IsLast(s)
  /\ Starts(s, "send_forward")
  /\ Communicate(s, s + 1, output_obj[s], sched[s].send_tensor, FALSE, None)

SendForwardEnds(s) ==
  /\ Ends(s, "send_forward")
  /\ sched' = [sched EXCEPT ![s] = TensorSent(@)]
  /\ Save(s)
  /\ UNCHANGED <<input_obj, output_obj_grad>>

SendBackward(s) ==
  /\ ~IsFirst(s)
  /\ Starts(s, "send_backward")
  /\ Communicate(s, s - 1, input_obj_grad[s], sched[s].send_grad, FALSE, None)

SendBackwardEnds(s) ==
  /\ Ends(s, "send_backward")
  /\ sched' = [sched EXCEPT ![s] = GradSent(@)]
  /\ UNCHANGED <<input_obj, output_obj_grad, saved>>

SendForwardRecvBackward(s) ==
  /\ ~IsLast(s)
  /\ Starts(s, "send_forward_recv_backward")
  /\ Communicate(s, s + 1, output_obj[s], sched[s].send_tensor, TRUE, sched[s].grad_recv)

SendForwardRecvBackwardEnds(s) ==
  /\ Ends(s, "send_forward_recv_backward")
  /\ output_obj_grad' = [output_obj_grad EXCEPT ![s] = comm[s].got]
  /\ sched' = [sched EXCEPT ![s] = GradCached(TensorSent(@), comm[s].got)]
  /\ Save(s)
  /\ UNCHANGED input_obj

SendBackwardRecvForward(s) ==
  /\ ~IsFirst(s)
  /\ Starts(s, "send_backward_recv_forward")
  /\ Communicate(s, s - 1, input_obj_grad[s], sched[s].send_grad, TRUE, sched[s].tensor_recv)

\* Mutant: what it returns is not assigned.
SendBackwardRecvForwardForgets(s) ==
  /\ Ends(s, "send_backward_recv_forward")
  /\ sched' = [sched EXCEPT ![s] = TensorCached(GradSent(@), comm[s].got)]
  /\ UNCHANGED <<input_obj, output_obj_grad, saved>>

SendBackwardRecvForwardEnds(s) ==
  /\ Ends(s, "send_backward_recv_forward")
  /\ input_obj' = [input_obj EXCEPT ![s] = comm[s].got]
  /\ sched' = [sched EXCEPT ![s] = TensorCached(GradSent(@), comm[s].got)]
  /\ UNCHANGED <<output_obj_grad, saved>>

-----------------------------------------------------------------------------
(* The computations.                                                       *)
\* The microbatch that load_micro_batch cuts.
Micro(s) == [mb   |-> <<step[s], loaded[s]>>,
             rows |-> Fewer(Size(s), Batch(s).rows - loaded[s] * Size(s)),
             grad |-> Batch(s).train]

\* forward_step of the microbatch (first stage) or of what was received.
ForwardStep(s) ==
  /\ Calls(s, "forward_step")
  /\ IF loaded[s] * Size(s) > Batch(s).rows
     THEN failed' = failed \cup {s} /\ UNCHANGED <<todo, loaded, output_obj>>
     ELSE /\ output_obj' = [output_obj EXCEPT ![s] =
                              IF IsFirst(s) THEN Micro(s)
                              ELSE [input_obj[s] EXCEPT !.grad = Batch(s).train]]
          /\ loaded' = [loaded EXCEPT ![s] = @ + 1]
          /\ todo' = Rest(s)
          /\ UNCHANGED failed
  /\ UNCHANGED <<script, sched, step, input_obj, output_obj_grad, input_obj_grad, saved, comm>>

\* Mutant: the youngest is popped.
Youngest(q) == q[Len(q)]

\* What pop(0) returns.
Popped(q) == Head(q)

\* The gradient of an input: empty where the input did not require one.
GradOf(obj) ==
  IF obj = None THEN None
  ELSE [mb |-> obj.mb, rows |-> IF obj.grad THEN obj.rows ELSE 0, grad |-> FALSE]

\* backward_step of the oldest saved pair, with the gradient just received.
BackwardStep(s) ==
  /\ Calls(s, "backward_step")
  /\ LET p == Popped(saved[s]) IN
       /\ input_obj' = [input_obj EXCEPT ![s] = p.input]
       /\ output_obj' = [output_obj EXCEPT ![s] = p.output]
       /\ input_obj_grad' = [input_obj_grad EXCEPT ![s] = GradOf(p.input)]
  /\ saved' = [saved EXCEPT ![s] = Tail(@)]
  /\ todo' = Rest(s)
  /\ UNCHANGED <<script, sched, step, loaded, output_obj_grad, comm, failed>>

-----------------------------------------------------------------------------
Init ==
  /\ script \in Scripts
  /\ \E c \in Configs :
       sched = [s \in Stages |-> [num |-> c.num, size |-> c.size, cache |-> c.cache, last |-> None,
                                  send_tensor |-> TRUE, send_grad |-> TRUE,
                                  tensor_recv |-> None, grad_recv |-> None]]
  /\ step = [s \in Stages |-> 0] /\ loaded = step
  /\ todo = [s \in Stages |-> <<>>] /\ saved = todo
  /\ input_obj = [s \in Stages |-> None] /\ output_obj = input_obj
  /\ output_obj_grad = input_obj /\ input_obj_grad = input_obj /\ comm = input_obj
  /\ failed = {}

StageStep(s) ==
  \/ BeginStep(s) \/ ForwardStep(s) \/ BackwardStep(s) \/ SkipAtFirst(s) \/ SkipAtLast(s)
  \/ RecvForward(s) \/ RecvForwardEnds(s) \/ RecvBackward(s) \/ RecvBackwardEnds(s)
  \/ SendForward(s) \/ SendForwardEnds(s) \/ SendBackward(s) \/ SendBackwardEnds(s)
  \/ SendForwardRecvBackward(s) \/ SendForwardRecvBackwardEnds(s)
  \/ SendBackwardRecvForward(s) \/ SendBackwardRecvForwardEnds(s)

Next == \E s \in Stages : StageStep(s) \/ \E t \in Stages : Transfer(s, t)

\* Every process runs, and a matched communication is carried out.
Spec == Init /\ [][Next]_vars
             /\ \A s \in Stages : WF_vars(StageStep(s)) /\ \A t \in Stages : WF_vars(Transfer(s, t))

-----------------------------------------------------------------------------
\* Where a sender and a receiver meet, both are at the metadata or both at the
\* data, and the data fits the buffer, cached metadata or not.
WiresAgree ==
  \A s, t \in Stages : Facing(s, t) =>
    /\ comm[s].phase = comm[t].phase
    /\ comm[s].phase = "data" => comm[t].buffer.rows = comm[s].obj.rows

\* A stage computes on the microbatch it has loaded itself (the last one
\* compares outputs with labels it cut from the batch on its own), and in
\* training on inputs that require gradients, though evaluation fills buffers
\* too: the stages before would otherwise learn nothing.
OwnMicrobatch ==
  \A s \in Stages \ failed : Calls(s, "forward_step") /\ ~IsFirst(s) =>
    /\ input_obj[s].mb = Micro(s).mb /\ input_obj[s].rows = Micro(s).rows
    /\ Batch(s).train => input_obj[s].grad

\* The gradient that has come is that of the oldest saved output.
OwnGradient ==
  \A s \in Stages : Calls(s, "backward_step") /\ ~IsLast(s) =>
    output_obj_grad[s].mb = Head(saved[s]).output.mb

\* What 1F1B is for: the activations held are as many as the stages to come.
InFlight == \A s \in Stages : Len(saved[s]) <= NumStages - s

\* A step that is over has used all rows of its batch, and has nothing saved.
WholeBatch ==
  \A s \in Stages \ failed : step[s] > 0 /\ todo[s] = <<>> =>
    /\ saved[s] = <<>>
    /\ loaded[s] * Size(s) >= Batch(s).rows /\ (loaded[s] - 1) * Size(s) < Batch(s).rows

\* No stage waits for ever: all get through the script, or all of them fail.
EveryStepEnds ==
  <>[](\/ failed = Stages
       \/ \A s \in Stages : step[s] = Len(script) /\ todo[s] = <<>>)

=============================================================================
