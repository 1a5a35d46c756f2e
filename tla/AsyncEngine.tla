----------------------------- MODULE AsyncEngine -----------------------------
(***************************************************************************)
(* The asynchronous engine:                                                *)
(*   colossalai/inference/core/async_engine.py                             *)
(*   (AsyncInferenceEngine, Tracer, RequstStream).                         *)
(*                                                                         *)
(* Coroutines of callers and one background loop share the tracer's two    *)
(* queues and its streams.  All run in one thread: a coroutine is          *)
(* interrupted only where it awaits, so an action is what happens between  *)
(* two awaits.  The loop awaits the event when it has nothing to do, the   *)
(* forward pass inside a step, and asyncio.sleep(0) after one.  The engine *)
(* under the loop is a Batcher, which RequestHandler implements.           *)
(***************************************************************************)
EXTENDS Batcher, Sequences

CONSTANTS
  Calls,     \* the calls of generate
  IdOf,      \* the request id of each
  TooLong,   \* the calls whose prompt exceeds max_input_len
  NoCall     \* no call

ASSUME CallsAssumption ==
  /\ IdOf \in [Calls -> Requests]
  /\ TooLong \subseteq Calls
  /\ NoCall \notin Calls

VARIABLES
  queue,         \* _new_requests: calls whose stream the loop has not seen
  finished_ids,  \* _finished_requests, as the set the loop makes of it
  streams,       \* _request_streams: request id -> the call it answers
  answer,        \* call -> what its future holds
  event,         \* new_requests_event
  loop           \* the background task

asyncVars == <<queue, finished_ids, streams, answer, event, loop, batcherVars>>

Final    == {"result", "aborted", "failed", "refused", "cancelled"}
Queued   == {queue[i] : i \in DOMAIN queue}
InEngine == held \cup running

AsyncInit ==
  /\ BatcherInit
  /\ queue = <<>> /\ finished_ids = {}
  /\ streams = [id \in Requests |-> NoCall]
  /\ answer = [c \in Calls |-> "none"]
  /\ event = FALSE /\ loop = "off"

-----------------------------------------------------------------------------
\* Mutant: set_result does not ask whether the future is done.
Overwritten(C, v) == [c \in Calls |-> IF c \in C THEN v ELSE answer[c]]

\* set_result on the streams of the calls in C.
Answered(C, v) ==
  [c \in Calls |-> IF c \in C /\ answer[c] = "pending" THEN v ELSE answer[c]]

\* The calls whose streams are registered under the ids.
Registered(ids) == {streams[id] : id \in ids}

-----------------------------------------------------------------------------
(* generate, up to its await of the future.  add_request starts the loop,  *)
(* with a fresh event, unless it runs or its end is still to be noticed.   *)
Started == IF loop = "off" THEN "parked" ELSE loop

\* Mutant: the event is set only for a loop that was awaiting it.
EventIfParked == event \/ loop = "parked"

\* new_requests_event after a request was put into the queue.
EventAfterAdd == TRUE

Submit(c) ==
  /\ answer[c] = "none"
  /\ streams[IdOf[c]] = NoCall
  /\ queue' = Append(queue, c)
  /\ answer' = [answer EXCEPT ![c] = "pending"]
  /\ event' = EventAfterAdd
  /\ loop' = Started
  /\ UNCHANGED <<finished_ids, streams, batcherVars>>

\* The id is already known: KeyError, whereupon generate aborts "the request".
Refuse(c) ==
  /\ answer[c] = "none"
  /\ streams[IdOf[c]] # NoCall
  /\ answer' = [Answered(Registered({IdOf[c]}), "aborted") EXCEPT ![c] = "refused"]
  /\ finished_ids' = finished_ids \cup {IdOf[c]}
  /\ event' = (event /\ loop # "off")
  /\ loop' = Started
  /\ UNCHANGED <<queue, streams, batcherVars>>

\* abort(request_id), by anyone, while the loop runs.
Abort(id) ==
  /\ loop # "off"
  /\ answer' = Answered(Registered({id}), "aborted")
  /\ finished_ids' = finished_ids \cup {id}
  /\ UNCHANGED <<queue, streams, event, loop, batcherVars>>

\* A caller is cancelled while it awaits its future, which is cancelled too;
\* generate aborts the request.
Cancel(c) ==
  /\ answer[c] = "pending"
  /\ answer' = [Answered(Registered({IdOf[c]}), "aborted") EXCEPT ![c] = "cancelled"]
  /\ finished_ids' = finished_ids \cup {IdOf[c]}
  /\ UNCHANGED <<queue, streams, event, loop, batcherVars>>

-----------------------------------------------------------------------------
(* step, up to its await of the forward pass: get_new_requests, then one   *)
(* add_single_request after the other, then the schedule.                  *)
\* Places in the queue, those with an id or those not aborted.
PlacesOf(id) == {i \in DOMAIN queue : IdOf[queue[i]] = id}
Fresh == {i \in DOMAIN queue : IdOf[queue[i]] \notin finished_ids}

\* Mutant: requests aborted in the queue are dropped without an answer.
DropSilently == answer

\* Requests aborted in the queue get None.
AnswersOfDrain == Answered({queue[i] : i \in DOMAIN queue \ Fresh}, "aborted")

\* The others are registered in the order they came.
StreamsOfDrain ==
  [id \in Requests |->
     IF PlacesOf(id) \cap Fresh = {} THEN streams[id]
     ELSE queue[CHOOSE i \in PlacesOf(id) : \A j \in PlacesOf(id) : j <= i]]

Drain ==
  /\ loop = "ready" \/ (loop = "parked" /\ event)
  /\ queue' = <<>> /\ finished_ids' = {} /\ event' = FALSE
  /\ answer' = AnswersOfDrain
  /\ streams' = StreamsOfDrain

\* The engine asserts that a prompt has its length and an id is new to it; the
\* assertion of one ends the loop and leaves the requests after it unadded.
Acceptable(i) ==
  /\ queue[i] \notin TooLong
  /\ IdOf[queue[i]] \notin InEngine
  /\ \A j \in PlacesOf(IdOf[queue[i]]) : j >= i

\* Mutant: the requests aborted in the queue are added all the same.
NewIdsOfAll == {IdOf[queue[i]] : i \in DOMAIN queue}

\* The requests that are added.
NewIds == {IdOf[queue[i]] : i \in {k \in Fresh : \A j \in Fresh : j <= k => Acceptable(j)}}
AllAcceptable == \A i \in Fresh : Acceptable(i)

BeginStep ==
  /\ Drain /\ AllAcceptable
  /\ Begin(NewIds)
  /\ loop' = "running"

StepOnBadRequest ==
  /\ Drain /\ ~ AllAcceptable
  /\ held' = held \cup NewIds
  /\ loop' = "dying"
  /\ UNCHANGED <<running, stepping>>

\* prepare_input asserts that there is a sequence in the batch.
StepOnNothing ==
  /\ Drain /\ Fresh = {} /\ InEngine = {}
  /\ loop' = "dying"
  /\ UNCHANGED batcherVars

-----------------------------------------------------------------------------
\* processing_requests: does the running list hold a sequence?
LoopAfter(F) == IF running \ F # {} THEN "ready" ELSE "parked"

\* The rest of the step, F being the requests it finishes.
EndStep(F) ==
  /\ loop = "running"
  /\ End(F)
  /\ answer' = Answered(Registered(F), "result")
  /\ finished_ids' = finished_ids \cup F
  /\ loop' = LoopAfter(F)
  /\ UNCHANGED <<queue, streams, event>>

\* The forward pass raises; the requests stay in the engine's lists.
FailStep ==
  /\ loop = "running"
  /\ End({})
  /\ loop' = "dying"
  /\ UNCHANGED <<queue, finished_ids, streams, answer, event>>

\* propagate_exception reaches every registered stream.
TellAll == Answered(Registered(Requests), "failed")

\* _raise_exception_on_finish, called back once the task is done; until then
\* background_loop_status takes the loop for running.
Bury ==
  /\ loop = "dying"
  /\ answer' = TellAll
  /\ loop' = "off"
  /\ UNCHANGED <<queue, finished_ids, streams, event, batcherVars>>

LoopNext == BeginStep \/ StepOnBadRequest \/ StepOnNothing \/ Bury

AsyncNext ==
  \/ \E c \in Calls : Submit(c) \/ Refuse(c) \/ Cancel(c)
  \/ \E id \in Requests : Abort(id)
  \/ LoopNext
  \/ \E F \in SUBSET Requests : EndStep(F)
  \/ FailStep

AsyncSpec == AsyncInit /\ [][AsyncNext]_asyncVars

\* asyncio runs every coroutine that can go on, a forward pass ends, and a
\* sequence that runs step after step reaches its length limit.
FairSpec ==
  /\ AsyncSpec
  /\ WF_asyncVars(LoopNext)
  /\ WF_asyncVars(FailStep \/ \E F \in SUBSET Requests : EndStep(F))
  /\ \A id \in Requests : SF_asyncVars(\E F \in SUBSET Requests : id \in F /\ EndStep(F))

-----------------------------------------------------------------------------
\* Types, and that the step of the engine is the step of the loop.
TypeOK ==
  /\ queue \in Seq(Calls)
  /\ finished_ids \subseteq Requests
  /\ streams \in [Requests -> Calls \cup {NoCall}]
  /\ answer \in [Calls -> {"none", "pending"} \cup Final]
  /\ event \in BOOLEAN
  /\ loop \in {"off", "parked", "ready", "running", "dying"}
  /\ held \in SUBSET Requests /\ running \in SUBSET Requests
  /\ stepping <=> loop = "running"

\* A caller that waits is in the queue, or in the engine under its stream, or
\* the loop is about to tell it of its death; or a call with the same id took
\* its stream's place.
NoOrphan ==
  \A c \in Calls : answer[c] = "pending" =>
    \/ c \in Queued
    \/ streams[IdOf[c]] = c /\ (IdOf[c] \in InEngine \/ loop = "dying")
    \/ \E d \in Calls \ {c} : IdOf[d] = IdOf[c] /\ streams[IdOf[c]] = d

\* The engine never finishes a request that has no stream:
\* process_finished_request would raise and end the loop.
EngineKnown == \A id \in InEngine : streams[id] # NoCall

\* A future is set once: neither a late result nor an abort nor the death of
\* the loop changes an answer.
AnsweredOnce ==
  [][\A c \in Calls : answer[c] \in Final => answer'[c] = answer[c]]_asyncVars

\* Whoever waits while the loop is awake is answered, unless the loop dies and
\* nobody starts it again, or it sleeps because the request is held for want of
\* room, or the call's stream has gone to a twin.
EveryoneAnswered ==
  \A c \in Calls :
    answer[c] = "pending" /\ (loop \in {"ready", "running"} \/ (loop = "parked" /\ event)) ~>
      \/ answer[c] \in Final
      \/ loop = "off"
      \/ loop = "parked" /\ IdOf[c] \in held
      \/ c \notin Queued /\ streams[IdOf[c]] # c
=============================================================================
