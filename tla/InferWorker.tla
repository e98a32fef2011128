----------------------------- MODULE InferWorker -----------------------------
(***************************************************************************)
(* infer_async of the transformers engine.  Every request is put into one  *)
(* queue; a single worker thread, started by the first request, moves them *)
(* into a pool of tasks by the hash of their request_config, takes a batch *)
(* of the oldest task, generates it with the arguments of the task's first *)
(* request, and puts what it generates into the asyncio queue of each      *)
(* request.  The requests belong to coroutines of one event loop, as in    *)
(* swift deploy.                                                           *)
(***************************************************************************)
EXTENDS Integers, SequencesExt, FiniteSets

CONSTANTS
  Request,
  ConfigOf,     \* request_config of each request
  AdapterOf,    \* adapter_request of each request
  Streaming,    \* the configs with stream = True
  MaybeMalformed, \* the requests template.encode may raise for
  StrictModes,  \* the values of engine.strict: such an error is raised, not returned
  MaxBatch,     \* max_batch_size
  MaxChunks     \* bounds the texts of a stream before the last one

ASSUME InferConstants ==
  /\ MaybeMalformed \subseteq Request /\ StrictModes \subseteq BOOLEAN
  /\ MaxBatch \in Int /\ MaxChunks \in Nat
  /\ DOMAIN ConfigOf = Request /\ DOMAIN AdapterOf = Request

VARIABLES
  strict,   \* engine.strict
  malformed, \* the requests template.encode raises for
  client,   \* where the coroutine of each request is
  queue,    \* _queue
  pool,     \* _task_pool: a dict, in the order its keys were inserted
  worker,   \* _task_thread and where it is
  batch,    \* queue_list of the worker, and the adapter it generates with
  chunks,   \* texts streamed of this batch
  inbox,    \* the asyncio queue of each request
  got       \* what each request has received

vars == <<strict, malformed, client, queue, pool, worker, batch, chunks, inbox, got>>

End == [kind |-> "end", of |-> {}]    \* None: the end of a stream
NoBatch == [adapter |-> "none", data |-> << >>]

Streams(r) == ConfigOf[r] \in Streaming

(* The elements of a sequence that are in a set, in their order.            *)
Among(s, S) ==
  LET kept[n \in 0..Len(s)] == IF n = 0 THEN << >>
                               ELSE IF s[n] \in S THEN Append(kept[n - 1], s[n]) ELSE kept[n - 1]
  IN  kept[Len(s)]

Good(data) == Among(data, Request \ malformed)

Init ==
  /\ strict \in StrictModes /\ malformed \in SUBSET MaybeMalformed
  /\ client = [r \in Request |-> "new"]
  /\ queue = << >> /\ pool = << >>
  /\ worker = "off" /\ batch = NoBatch /\ chunks = 0
  /\ inbox = [r \in Request |-> << >>] /\ got = [r \in Request |-> << >>]

-----------------------------------------------------------------------------
(* infer_async, up to the sleep(0) ...                                      *)
Put(r) ==
  /\ client[r] = "new"
  /\ client' = [client EXCEPT ![r] = "put"]
  /\ queue' = Append(queue, r)
  /\ UNCHANGED <<strict, malformed, pool, worker, batch, chunks, inbox, got>>

(* ... and after it: a dead thread is not replaced.                         *)
StartWorker(r) ==
  /\ client[r] = "put"
  /\ client' = [client EXCEPT ![r] = "waiting"]
  /\ worker' = IF worker = "off" THEN "idle" ELSE worker
  /\ UNCHANGED <<strict, malformed, queue, pool, batch, chunks, inbox, got>>

EndsWait(r, item) == Streams(r) => item = End

(* queue.get(): one answer, or a stream up to the first None.               *)
Receive(r) ==
  /\ client[r] = "waiting" /\ inbox[r] # << >>
  /\ LET item == Head(inbox[r])
     IN  /\ inbox' = [inbox EXCEPT ![r] = Tail(@)]
         /\ got' = IF item = End THEN got ELSE [got EXCEPT ![r] = Append(@, item)]
         /\ client' = IF EndsWait(r, item) THEN [client EXCEPT ![r] = "done"] ELSE client
  /\ UNCHANGED <<strict, malformed, queue, pool, worker, batch, chunks>>

-----------------------------------------------------------------------------
(* A request joins the task of its config; a config that has none gets one, *)
(* with the adapter_request of this request.                                *)
Join(tasks, r) ==
  IF \E k \in DOMAIN tasks : tasks[k].config = ConfigOf[r]
    THEN [k \in DOMAIN tasks |-> IF tasks[k].config = ConfigOf[r]
                                   THEN [tasks[k] EXCEPT !.data = Append(@, r)] ELSE tasks[k]]
    ELSE Append(tasks, [config |-> ConfigOf[r], adapter |-> AdapterOf[r], data |-> <<r>>])

(* ... one after the other, until the queue is empty.                       *)
Tasks ==
  LET joined[i \in 0..Len(queue)] == IF i = 0 THEN pool ELSE Join(joined[i - 1], queue[i])
  IN  joined[Len(queue)]

(* With a bug: what a batch leaves of its task is forgotten.                *)
NothingRemains(tasks, n) == Tail(tasks)

(* The task stays first in the pool as long as something of it remains.     *)
Remaining(tasks, n) ==
  LET rest == SubSeq(tasks[1].data, n + 1, Len(tasks[1].data))
  IN  IF rest = << >> THEN Tail(tasks) ELSE <<[tasks[1] EXCEPT !.data = rest]>> \o Tail(tasks)

(* _fetch_infer_requests.                                                   *)
Fetch ==
  /\ worker = "idle" /\ (queue # << >> \/ pool # << >>)
  /\ LET tasks == Tasks
         data == tasks[1].data
         n == IF MaxBatch <= 0 \/ MaxBatch > Len(data) THEN Len(data) ELSE MaxBatch
     IN  /\ batch' = [adapter |-> tasks[1].adapter, data |-> SubSeq(data, 1, n)]
         /\ pool' = Remaining(tasks, n)
  /\ queue' = << >>
  /\ worker' = "infer"
  /\ UNCHANGED <<strict, malformed, client, chunks, inbox, got>>

(* With a bug: the errors follow the outputs.                               *)
ErrorsLast(outputs) ==
  outputs \o [i \in 1..Len(batch.data) - Len(outputs) |-> [kind |-> "error", of |-> malformed]]

(* _add_error_list: each error is put back at the place of its request, in  *)
(* ascending order.                                                         *)
WithErrors(outputs) ==
  LET data == batch.data
      list[i \in 0..Len(data)] ==
        IF i = 0 THEN outputs
        ELSE IF data[i] \in malformed
               THEN InsertAt(list[i - 1], i, [kind |-> "error", of |-> {data[i]}])
               ELSE list[i - 1]
  IN  list[Len(data)]

Output(kind, r) == [kind |-> kind, of |-> {r}, adapter |-> batch.adapter, n |-> chunks + 1]

(* A result for each request of the batch, in the order of queue_list.      *)
Deliver(results) ==
  inbox' = [r \in Request |->
    LET places == {i \in DOMAIN batch.data : batch.data[i] = r}
    IN  IF places = {} THEN inbox[r] ELSE Append(inbox[r], results[CHOOSE i \in places : TRUE])]

(* An exception of _infer ends the thread.                                  *)
InferRaises ==
  /\ worker = "infer"
  /\ strict /\ Good(batch.data) # batch.data
  /\ worker' = "dead"
  /\ UNCHANGED <<strict, malformed, client, queue, pool, batch, chunks, inbox, got>>

(* _infer without stream: all answers at once.                              *)
InferFull ==
  /\ worker = "infer" /\ (strict => Good(batch.data) = batch.data)
  /\ ~Streams(batch.data[1])
  /\ LET good == Good(batch.data)
     IN  Deliver(WithErrors([i \in DOMAIN good |-> Output("answer", good[i])]))
  /\ worker' = "idle" /\ batch' = NoBatch
  /\ UNCHANGED <<strict, malformed, client, queue, pool, chunks, got>>

InferStream ==
  /\ worker = "infer" /\ (strict => Good(batch.data) = batch.data)
  /\ Streams(batch.data[1])
  /\ worker' = "stream"
  /\ UNCHANGED <<strict, malformed, client, queue, pool, batch, chunks, inbox, got>>

(* With a bug: a step with nothing to print is yielded too.                 *)
AnyPrintable(printable) == TRUE

Yielded(printable) == printable # {}

(* A step of _infer_stream: some of the requests have a text to print, the  *)
(* others give None; nothing is yielded if nobody has.                      *)
StreamStep ==
  /\ worker = "stream" /\ chunks < MaxChunks
  /\ LET good == Good(batch.data)
     IN  /\ good # << >>
         /\ \E printable \in SUBSET DOMAIN good :
              /\ Yielded(printable)
              /\ Deliver(WithErrors([i \in DOMAIN good |->
                           IF i \in printable THEN Output("text", good[i]) ELSE End]))
  /\ chunks' = chunks + 1
  /\ UNCHANGED <<strict, malformed, client, queue, pool, worker, batch, got>>

(* The last step prints what every request has left; without requests to    *)
(* generate only the errors are yielded.                                    *)
StreamLast ==
  /\ worker = "stream"
  /\ LET good == Good(batch.data)
     IN  Deliver(WithErrors([i \in DOMAIN good |-> Output("last", good[i])]))
  /\ worker' = "stop"
  /\ UNCHANGED <<strict, malformed, client, queue, pool, batch, chunks, got>>

(* StopIteration: None for everybody.                                       *)
StreamEnd ==
  /\ worker = "stop"
  /\ Deliver([i \in DOMAIN batch.data |-> End])
  /\ worker' = "idle" /\ batch' = NoBatch /\ chunks' = 0
  /\ UNCHANGED <<strict, malformed, client, queue, pool, got>>

Terminated ==
  /\ worker = "dead" \/ (worker = "idle" /\ queue = << >> /\ pool = << >>)
  /\ \A r \in Request : client[r] = "done" \/ (client[r] = "waiting" /\ inbox[r] = << >>)
  /\ UNCHANGED vars

Worker == Fetch \/ InferRaises \/ InferFull \/ InferStream \/ StreamStep \/ StreamLast \/ StreamEnd
Coroutine(r) == Put(r) \/ StartWorker(r) \/ Receive(r)

Next == Worker \/ Terminated \/ \E r \in Request : Coroutine(r)

Spec == Init /\ [][Next]_vars

(* The thread and the event loop keep running.                              *)
FairSpec == Spec /\ WF_vars(Worker) /\ \A r \in Request : WF_vars(Coroutine(r))

-----------------------------------------------------------------------------
Unanswered == queue \o FlattenSeq([i \in DOMAIN pool |-> pool[i].data]) \o batch.data

(* No request is in two places of the engine, a config has one task, and a  *)
(* task that is kept has requests (_fetch_infer_requests).                  *)
TypeOK ==
  /\ client \in [Request -> {"new", "put", "waiting", "done"}]
  /\ worker \in {"off", "idle", "infer", "stream", "stop", "dead"}
  /\ strict \in StrictModes /\ malformed \subseteq MaybeMalformed /\ chunks \in 0..MaxChunks
  /\ ToSet(Unanswered) \subseteq Request /\ IsInjective(Unanswered)
  /\ \A i, j \in DOMAIN pool : pool[i].config = pool[j].config => i = j
  /\ \A i \in DOMAIN pool : pool[i].data # << >>

(* Each request receives its own output, generated with its own adapter,    *)
(* its texts in the order they were generated, and an error only if the     *)
(* error is its own (_infer_worker, _add_error_list).                       *)
OwnAnswers ==
  \A r \in Request : \A i \in DOMAIN got[r] :
    /\ got[r][i].of = {r}
    /\ got[r][i].kind # "error" =>
         /\ got[r][i].adapter = AdapterOf[r]
         /\ \A j \in 1..i - 1 : got[r][j].n < got[r][i].n

(* A stream that has ended has delivered its last text: no None reaches the *)
(* coroutine before it (_infer_stream, _gen_wrapper).                       *)
StreamComplete ==
  \A r \in Request \ malformed :
    Streams(r) /\ client[r] = "done" => got[r] # << >> /\ Last(got[r]).kind = "last"

(* Every request is answered, whatever the others ask for and whichever of  *)
(* them are malformed (_infer_worker, _fetch_infer_requests).               *)
AllAnswered == ~strict => <>(\A r \in Request : client[r] = "done")
=============================================================================
