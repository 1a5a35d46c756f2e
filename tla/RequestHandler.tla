--------------------------- MODULE RequestHandler ---------------------------
(***************************************************************************)
(* Continuous batching:                                                    *)
(*   colossalai/inference/core/request_handler.py (RequestHandler,         *)
(*   RunningList), driven by LLMEngine.step of core/llm_engine.py.         *)
(*                                                                         *)
(* Requests wait in three lists by prompt length, are admitted to the      *)
(* running list, prefilled together, merged into the running batch and     *)
(* decoded token by token.  A step of the engine is schedule, the forward  *)
(* pass with append_next_tokens, and update: three actions, because an     *)
(* exception may leave the step between them.  The block tables are those  *)
(* of KVCacheManager, named by the request they belong to.                 *)
(***************************************************************************)
EXTENDS KVCacheManager

CONSTANTS
  MaxBatchSize, MaxInputLen, MaxOutputLen,
  RatioNum, RatioDen   \* prefill_ratio = RatioNum / RatioDen

ASSUME HandlerAssumption ==
  /\ MaxBatchSize \in Nat \ {0}
  /\ MaxInputLen \in Nat \ {0}
  /\ MaxOutputLen \in Nat \ {0}
  /\ RatioNum \in Nat \ {0}
  /\ RatioDen \in Nat \ {0}

VARIABLES
  status,      \* request -> Sequence.status, "NEW" before it is added
  input_len,   \* request -> tokens of its prompt
  output_len,  \* request -> tokens generated
  waiting,     \* 0 .. 2 -> waiting_list, by length of the prompt
  prefill,     \* RunningList._prefill, in insertion order
  decoding,    \* RunningList._decoding, in insertion order
  prefill_bb,  \* the requests of the prefill batch, row by row
  running_bb,  \* the requests of the running batch, row by row
  phase        \* where LLMEngine.step is

listVars == <<waiting, prefill, decoding, prefill_bb, running_bb>>
vars == <<block_states, available_blocks, ref_count, allocated_size,
          block_table, raised, status, input_len, output_len, listVars, phase>>

-----------------------------------------------------------------------------
Held(list)    == {list[i] : i \in DOMAIN list}
Take(list, n) == SubSeq(list, 1, IF n <= Len(list) THEN n ELSE Len(list))
Drop(list, n) == SubSeq(list, n + 1, Len(list))

\* What a list has of R, and what it has besides, in the order of the list.
Within(list, R) ==
  LET kept[i \in 0 .. Len(list)] ==
        IF i = 0 THEN <<>>
        ELSE IF list[i] \in R THEN Append(kept[i - 1], list[i]) ELSE kept[i - 1]
  IN kept[Len(list)]
Without(list, R) == Within(list, Held(list) \ R)

Waiting    == UNION {Held(waiting[p]) : p \in 0 .. 2}
Running    == Held(prefill) \cup Held(decoding)
Unfinished == Waiting \cup Running # {}
Lens       == [r \in Rows |-> input_len[r] + output_len[r]]

\* The batch whose tokens append_next_tokens appends.
Batch == IF prefill_bb # <<>> THEN prefill_bb ELSE running_bb

Init ==
  /\ KVInit
  /\ status = [r \in Rows |-> "NEW"]
  /\ input_len = [r \in Rows |-> 0]
  /\ output_len = [r \in Rows |-> 0]
  /\ waiting = [p \in 0 .. 2 |-> <<>>]
  /\ prefill = <<>> /\ decoding = <<>>
  /\ prefill_bb = <<>> /\ running_bb = <<>>
  /\ phase = "idle"

-----------------------------------------------------------------------------
(* add_sequence, between two steps: the priority grows with the prompt.    *)
Priority(n) == (n * 3) \div (MaxInputLen + 1)

AddSequence(r) ==
  /\ phase = "idle" /\ raised = "none"
  /\ status[r] = "NEW"
  /\ \E n \in 1 .. MaxInputLen :
       /\ input_len' = [input_len EXCEPT ![r] = n]
       /\ waiting' = [waiting EXCEPT ![Priority(n)] = Append(@, r)]
  /\ status' = [status EXCEPT ![r] = "WAITING"]
  /\ UNCHANGED <<kvVars, output_len, prefill, decoding, prefill_bb, running_bb, phase>>

\* abort_sequence of a request that waits.  Had an earlier call marked it as
\* aborted by mistake, this one raises and changes nothing.
AbortWaiting(r) ==
  /\ phase = "idle" /\ raised = "none"
  /\ r \in Waiting /\ status[r] = "WAITING"
  /\ status' = [status EXCEPT ![r] = "ABORTED"]
  /\ waiting' = [p \in 0 .. 2 |-> Without(waiting[p], {r})]
  /\ UNCHANGED <<kvVars, input_len, output_len, prefill, decoding, prefill_bb,
                 running_bb, phase>>

\* abort_sequence of a request that runs: _find_sequence returns the sequence
\* its search loop ended with.  That one, the last of the last non-empty
\* waiting list, is marked; then indexing waiting_list with None raises.
\* With empty waiting lists the call raises at once.
AbortRunning(r) ==
  /\ phase = "idle" /\ raised = "none"
  /\ r \in Running
  /\ \E p \in 0 .. 2 :
       /\ waiting[p] # <<>> /\ \A q \in p + 1 .. 2 : waiting[q] = <<>>
       /\ status[waiting[p][Len(waiting[p])]] = "WAITING"
       /\ status' = [status EXCEPT ![waiting[p][Len(waiting[p])]] = "ABORTED"]
  /\ UNCHANGED <<kvVars, input_len, output_len, listVars, phase>>

-----------------------------------------------------------------------------
(* schedule: who leaves the waiting lists, longest prompts first.          *)
\* The room that total_seq_num leaves.
Room == MaxBatchSize - Len(prefill) - Len(decoding)

\* Mutant: the lists are visited in the order of their numbers.
AdmittedShortFirst(p, room) ==
  CASE p = 0 -> Take(waiting[0], room)
    [] p = 1 -> Take(waiting[1], room - Len(Take(waiting[0], room)))
    [] p = 2 -> Take(waiting[2], room - Len(Take(waiting[0], room))
                                      - Len(Take(waiting[1], room - Len(Take(waiting[0], room)))))

\* Mutant: only the first list that is not empty is served.
AdmittedFromOneList(p, room) ==
  IF \E q \in p + 1 .. 2 : waiting[q] # <<>> THEN <<>> ELSE Take(waiting[p], room)

\* The part of list p that is admitted when there is room for so many.
Admitted(p, room) ==
  LET n2 == Len(Take(waiting[2], room))
      n1 == Len(Take(waiting[1], room - n2))
  IN Take(waiting[p], CASE p = 2 -> room [] p = 1 -> room - n2 [] p = 0 -> room - n2 - n1)

\* ready_for_prefill, queue being the prefill list after the admission.
ReadyForPrefill(queue) ==
  IF decoding = <<>> THEN queue # <<>>
  ELSE Len(queue) * RatioDen >= RatioNum * Len(decoding)

Queue == prefill \o Admitted(2, Room) \o Admitted(1, Room) \o Admitted(0, Room)

Admit ==
  /\ phase = "idle" /\ raised = "none" /\ Unfinished
  /\ waiting' = [p \in 0 .. 2 |-> Drop(waiting[p], Len(Admitted(p, Room)))]
  /\ prefill' = Queue

\* A prefill: the batch gets the blocks of its prompts.  An exception of the
\* manager ends the run; the rows add_seqs has half filled then are left out.
SchedulePrefill ==
  /\ Admit
  /\ ReadyForPrefill(Queue)
  /\ LET rs == Take(Queue, MaxBatchSize) IN
       /\ status' = [r \in Rows |-> IF r \in Held(rs) THEN "RUNNING" ELSE status[r]]
       /\ AllocateContextTables(rs, Lens)
       /\ prefill_bb' = IF raised' = "none" THEN rs ELSE <<>>
  /\ phase' = "scheduled"
  /\ UNCHANGED <<input_len, output_len, decoding, running_bb>>

\* A decoding step: every row of the running batch gets its next position.
ScheduleDecode ==
  /\ Admit
  /\ ~ ReadyForPrefill(Queue)
  /\ AllocateTokens(running_bb, Lens)
  /\ phase' = "scheduled"
  /\ UNCHANGED <<status, input_len, output_len, decoding, prefill_bb, running_bb>>

-----------------------------------------------------------------------------
(* The forward pass yields a token per row; append_next_tokens adds it and *)
(* marks the sequences that ended (end-of-sequence token or full length).  *)

AtLength(n) == n >= MaxOutputLen

Forward ==
  /\ phase = "scheduled" /\ raised = "none"
  /\ \E eos \in SUBSET Held(Batch) :
       status' = [r \in Rows |->
                    IF r \in Held(Batch) /\ (r \in eos \/ AtLength(output_len[r] + 1))
                    THEN "COMPLETED" ELSE status[r]]
  /\ output_len' = [r \in Rows |-> output_len[r] + IF r \in Held(Batch) THEN 1 ELSE 0]
  /\ phase' = "appended"
  /\ UNCHANGED <<kvVars, input_len, listVars>>

\* Mutant: the row of the last sequence is dropped with that of the finished one.
PopLastToo(rows, r) == Take(SelectSeq(rows, LAMBDA q : q # r), Len(rows) - 2)

\* pop_seq_update_batch: the last row moves into the gap.
PopRow(rows, r) ==
  [k \in 1 .. Len(rows) - 1 |-> IF rows[k] = r THEN rows[Len(rows)] ELSE rows[k]]

\* pop_finished, one row after the other.
Popped(rows, fin) ==
  LET left[i \in 0 .. Len(fin)] == IF i = 0 THEN rows ELSE PopRow(left[i - 1], fin[i])
  IN left[Len(fin)]

\* Mutant: the finished sequences stay in the running list.
UpdateLists(merged, fin) ==
  /\ decoding' = decoding \o prefill_bb
  /\ prefill' = Without(prefill, Held(prefill_bb))
  /\ running_bb' = Popped(running_bb \o merged, fin)
  /\ prefill_bb' = <<>>

\* The prefill batch is merged into the running batch, as far as it fits, and
\* cleared; finished sequences leave the batch and the list.
MergeAndPop(merged, fin) ==
  /\ decoding' = Without(decoding \o prefill_bb, Held(fin))
  /\ prefill' = Without(prefill, Held(prefill_bb))
  /\ running_bb' = Popped(running_bb \o merged, fin)
  /\ prefill_bb' = <<>>

\* update: sequences are popped in the order they came into the batch, which
\* is their order in the decoding list.
Update ==
  /\ phase = "appended" /\ raised = "none"
  /\ LET merged == Take(prefill_bb, MaxBatchSize - Len(running_bb))
         rows == running_bb \o merged
         fin == Within(decoding \o merged, {r \in Held(rows) : status[r] = "COMPLETED"})
     IN MergeAndPop(merged, fin) /\ FreeTables(Held(fin))
  /\ phase' = "idle"
  /\ UNCHANGED <<status, input_len, output_len, waiting>>

Step == SchedulePrefill \/ ScheduleDecode \/ Forward \/ Update

Next == \/ \E r \in Rows : AddSequence(r) \/ AbortWaiting(r) \/ AbortRunning(r)
        \/ Step

\* LLMEngine.generate calls step until no request is unfinished.
Spec == Init /\ [][Next]_vars /\ WF_vars(Step)

-----------------------------------------------------------------------------
\* Between two steps every request is where its status says, once: a waiting
\* one in one list, a decoding one in the list and in the running batch, a
\* finished one nowhere.
NothingLost ==
  LET lists == waiting[0] \o waiting[1] \o waiting[2] \o prefill \o decoding IN
  /\ \A i, j \in DOMAIN lists : lists[i] = lists[j] => i = j
  /\ \A r \in Rows :
       /\ status[r] \in {"WAITING", "RUNNING"} => r \in Held(lists)
       /\ status[r] = "COMPLETED" /\ phase = "idle" => r \notin Held(lists)
  /\ phase = "idle" => /\ Held(running_bb) = Held(decoding)
                       /\ Len(running_bb) = Len(decoding)

\* Requests with longer prompts go first, and those of one list in the order
\* they came: a schedule that takes a request leaves no one before it.
PriorityOfPromptLength ==
  [][phase = "idle" /\ phase' = "scheduled" =>
       \A r \in Waiting \ UNION {Held(waiting'[p]) : p \in 0 .. 2} :
         \A p \in Priority(input_len[r]) .. 2 :
           \A i \in DOMAIN waiting'[p] :
             /\ p = Priority(input_len[r])
             /\ \E j, k \in DOMAIN waiting[p] :
                  j < k /\ waiting[p][j] = r /\ waiting[p][k] = waiting'[p][i]]_vars

\* Every request that is added finishes or is aborted, unless the manager
\* raised for want of adjacent blocks.
EveryRequestFinishes ==
  \A r \in Rows : status[r] = "WAITING" ~>
    status[r] = "COMPLETED" \/ status[r] = "ABORTED" \/ raised # "none"

\* The handler keeps the protocol of the manager, so what is proved of that
\* holds for every engine: a request has length, for the manager, while it is
\* in a batch, up to the last position a block was asked for.
CONSTANT Nobody
HasBlocks(r) == r \in Held(prefill_bb) \cup Held(running_bb)
Asked(r) == IF phase = "scheduled" /\ (r \in Held(prefill_bb) \/ ~ ReadyForPrefill(prefill))
            THEN Lens[r] ELSE Lens[r] - 1
Usage == INSTANCE KVCacheUsage
           WITH len <- [r \in Rows |-> IF HasBlocks(r) THEN Asked(r) ELSE 0]
KeepsProtocol == Usage!Spec

\* A request in a batch has a block for each of its tokens, in no other
\* request's table, and a request in no batch has none: what is admitted,
\* merged, popped and freed here agrees with the manager's tables, and
\* nothing but fragmentation is ever raised.
OwnBlocks ==
  /\ raised \in {"none", "Fragmented"}
  /\ NoSharing
  /\ \A r \in Rows : \A k \in Cols :
       IF HasBlocks(r) THEN k < BlocksFor(Asked(r)) => block_table[r][k] # NoBlock
                       ELSE block_table[r][k] = NoBlock

\* Seen from the engine, the handler is a batcher: work-conserving, never
\* over max_batch_size, and deaf to everything but finishing during a step.
Engine == INSTANCE Batcher WITH Requests <- Rows, held <- Waiting,
                                running <- Running, stepping <- (phase # "idle"),
                                BatchSize <- MaxBatchSize
IsBatcher == Engine!BatcherSpec

=============================================================================
