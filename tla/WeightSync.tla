----------------------------- MODULE WeightSync -----------------------------
(***************************************************************************)
(* The weight synchronisation and rollout protocol between VLLMClient (in  *)
(* the main rank of the trainer) and the `swift rollout` servers.  A       *)
(* server is a FastAPI process whose single event loop forwards each       *)
(* request as a command to every data-parallel worker over a pipe; a       *)
(* fire_and_forget command is answered to the client at once, a call waits *)
(* for the reply of every worker.  The tensors themselves travel by NCCL:  *)
(* a broadcast and a barrier that the client and all the workers of a      *)
(* server enter together.                                                  *)
(*                                                                         *)
(* Faults: HTTP requests and answers may be lost or late (MayLose), the    *)
(* methods named in MayRaise may raise in a worker, and the trainer may    *)
(* crash and be started again while the servers stay up (MaxCrashes).      *)
(***************************************************************************)
EXTENDS Integers, Sequences

CONSTANTS
  NumServers,      \* len(base_urls)
  NumWorkers,      \* num_connections of each server
  NumBuckets,      \* parameter buckets (or parameters) of one synchronisation
  Rounds,          \* rollouts of the run: bounds it
  NumRequests,     \* prompts of one rollout
  Flattened,       \* args.enable_flattened_weight_sync
  RequestRetries,  \* VLLM_CLIENT_POST_RETRIES
  MayLose,
  MayRaise,        \* a subset of CanRaise
  MaxCrashes

CanRaise == {"init", "update", "load", "reset", "infer", "close"}

ASSUME SyncConstants ==
  /\ NumServers \in Nat \ {0} /\ NumWorkers \in Nat \ {0} /\ NumBuckets \in Nat \ {0}
  /\ Rounds \in Nat \ {0} /\ NumRequests \in Nat \ {0} /\ RequestRetries \in Nat \ {0}
  /\ MaxCrashes \in Nat
  /\ Flattened \in BOOLEAN /\ MayLose \in BOOLEAN /\ MayRaise \subseteq CanRaise

Server == 1 .. NumServers
Worker == 1 .. NumWorkers
Bucket == 1 .. NumBuckets

VARIABLES
  (* the client, and its thread for each server *)
  phase, bucket, ver, round, epoch, th, attempt, out, answer,
  (* HTTP: requests on their way, the connection in use, its response *)
  net, conn, resp,
  (* the server: lifespan is over; the call whose replies it is collecting *)
  up, busy,
  (* the pipes to and from the workers *)
  pipe, reply,
  (* the workers: weights by bucket, data received and not yet loaded, the *)
  (* epoch of the communicator (0: none), the version behind the prefix cache *)
  ready, loaded, data, comm, cache,
  crashes

clientVars == <<phase, bucket, ver, round, epoch, th, attempt, out, answer>>
httpVars == <<net, conn, resp>>
serverVars == <<up, busy, pipe, reply>>
workerVars == <<ready, loaded, data, comm, cache>>
vars == <<clientVars, httpVars, serverVars, workerVars, crashes>>

Phase == {"check", "preclose", "init", "update", "reset", "infer", "close", "done", "down"}

None == [none |-> TRUE]            \* nothing: no data, no response, no call
Lost == << -1 >>                   \* the None a worker's exception turns into
Ok(xs) == [ok |-> TRUE, out |-> xs]
Failed == [ok |-> FALSE, out |-> << >>]

-----------------------------------------------------------------------------
(* How a rollout's requests are divided: by the client between the servers  *)
(* (infer), by a server between its workers (chunk_list of TRL).            *)
Request == [i \in 1 .. NumRequests |-> i]

ServerChunk(s) ==
  LET size == (NumRequests + NumServers - 1) \div NumServers
      last == s * size
  IN  SubSeq(Request, (s - 1) * size + 1, IF last < NumRequests THEN last ELSE NumRequests)

MinOf(a, b) == IF a < b THEN a ELSE b

WorkerChunk(xs, w) ==
  LET k == Len(xs) \div NumWorkers
      r == Len(xs) % NumWorkers
  IN  SubSeq(xs, (w - 1) * k + MinOf(w - 1, r) + 1, w * k + MinOf(w, r))

(* A worker without prompts is sent a placeholder, whose answer is dropped. *)
Placeholder == <<0>>

-----------------------------------------------------------------------------
Op == IF phase = "preclose" THEN "close" ELSE phase

Finished(s) == th[s] \in {"done", "err"}

(* init_communicator and close_communicator go through the servers one by   *)
(* one; the other operations have a thread for each server.                 *)
Sequential == Op \in {"init", "close"}

(* With a bug: every request is retried. *)
RetryEverything == RequestRetries

(* update_flattened_params posts with retries, the other operations do not. *)
RetryLimit == IF Op = "update" /\ Flattened THEN RequestRetries ELSE 1

Init ==
  /\ phase = "check" /\ bucket = 1 /\ ver = 0 /\ round = 0 /\ epoch = 1
  /\ th = [s \in Server |-> "idle"]
  /\ attempt = [s \in Server |-> 1]
  /\ out = [s \in Server |-> << >>]
  /\ answer = Request
  /\ net = [s \in Server |-> {}]
  /\ conn = [s \in Server |-> 0]
  /\ resp = [s \in Server |-> None]
  /\ up = [s \in Server |-> FALSE]
  /\ busy = [s \in Server |-> None]
  /\ pipe = [s \in Server |-> [w \in Worker |-> << >>]]
  /\ reply = [s \in Server |-> [w \in Worker |-> << >>]]
  /\ ready = [s \in Server |-> [w \in Worker |-> FALSE]]
  /\ loaded = [s \in Server |-> [w \in Worker |-> [b \in Bucket |-> [b |-> b, v |-> 0]]]]
  /\ data = [s \in Server |-> [w \in Worker |-> None]]
  /\ comm = [s \in Server |-> [w \in Worker |-> 0]]
  /\ cache = [s \in Server |-> [w \in Worker |-> 0]]
  /\ crashes = 0

-----------------------------------------------------------------------------
(* The client.                                                              *)

(* check_server: every server answers /health/.                             *)
CheckServer ==
  /\ phase = "check"
  /\ \A s \in Server : up[s]
  /\ phase' = "preclose"
  /\ UNCHANGED <<bucket, ver, round, epoch, th, attempt, out, answer,
                 httpVars, serverVars, workerVars, crashes>>

(* A POST of the operation at hand, the first attempt or a new one.         *)
Post(s) ==
  /\ phase \notin {"check", "done", "down"}
  /\ th[s] = "idle"
  /\ Sequential => \A t \in 1 .. s - 1 : Finished(t)
  /\ Op = "init" => \A t \in Server : th[t] # "err"
  /\ th' = [th EXCEPT ![s] = "posting"]
  /\ conn' = [conn EXCEPT ![s] = @ + 1]
  /\ net' = [net EXCEPT ![s] = @ \cup
       {[conn |-> conn[s] + 1, op |-> Op, b |-> bucket, v |-> ver, epoch |-> epoch,
         xs |-> ServerChunk(s)]}]
  /\ resp' = [resp EXCEPT ![s] = None]
  /\ UNCHANGED <<phase, bucket, ver, round, epoch, attempt, out, answer,
                 serverVars, workerVars, crashes>>

(* An attempt failed: retry if the operation has attempts left.             *)
AttemptFailed(s) ==
  IF attempt[s] < RetryLimit
    THEN /\ th' = [th EXCEPT ![s] = "idle"]
         /\ attempt' = [attempt EXCEPT ![s] = @ + 1]
    ELSE /\ th' = [th EXCEPT ![s] = "err"]
         /\ UNCHANGED attempt

(* The response arrives.  After an update or init_communicator request the  *)
(* client enters the NCCL operation with the workers.                       *)
Response(s) ==
  /\ th[s] = "posting" /\ resp[s] # None
  /\ IF resp[s].ok
       THEN /\ th' = [th EXCEPT ![s] = IF Op \in {"update", "init"} THEN "nccl" ELSE "done"]
            /\ out' = [out EXCEPT ![s] = resp[s].out]
            /\ UNCHANGED attempt
       ELSE AttemptFailed(s) /\ UNCHANGED out
  /\ UNCHANGED <<phase, bucket, ver, round, epoch, answer, httpVars, serverVars, workerVars, crashes>>

(* The connection breaks or times out: the request may not have reached the *)
(* server, may still be on its way, or may have been handled.               *)
NoResponse(s) ==
  /\ MayLose
  /\ th[s] = "posting"
  /\ AttemptFailed(s)
  /\ \/ UNCHANGED net
     \/ net' = [net EXCEPT ![s] = {m \in @ : m.conn # conn[s]}]
  /\ UNCHANGED <<phase, bucket, ver, round, epoch, out, answer, conn, resp,
                 serverVars, workerVars, crashes>>

(* StatelessProcessGroup.create times out.                                  *)
NoRendezvous(s) ==
  /\ "init" \in MayRaise \/ crashes > 0
  /\ phase = "init" /\ th[s] = "nccl"
  /\ th' = [th EXCEPT ![s] = "err"]
  /\ UNCHANGED <<phase, bucket, ver, round, epoch, attempt, out, answer, httpVars,
                 serverVars, workerVars, crashes>>

(* The results of the servers, in the order of the servers.                 *)
Results ==
  LET upTo[s \in 0 .. NumServers] == IF s = 0 THEN << >> ELSE upTo[s - 1] \o out[s]
  IN  upTo[NumServers]

(* With a bug: one bucket too few, no reset_prefix_cache. *)
AfterBucketOneLess == IF bucket + 1 < NumBuckets THEN <<"update", bucket + 1>> ELSE <<"reset", bucket>>
AfterBucketNoReset == IF bucket < NumBuckets THEN <<"update", bucket + 1>> ELSE <<"infer", bucket>>

(* The buckets of a synchronisation one after another, then the reset.      *)
AfterBucket == IF bucket < NumBuckets THEN <<"update", bucket + 1>> ELSE <<"reset", bucket>>

(* What the trainer calls when an operation has succeeded.                  *)
Advance ==
  CASE phase = "preclose" -> phase' = "init" /\ UNCHANGED <<bucket, ver, round, answer>>
    [] phase = "init" -> /\ phase' = "update" /\ bucket' = 1 /\ ver' = ver + 1
                         /\ UNCHANGED <<round, answer>>
    [] phase = "update" -> /\ phase' = AfterBucket[1] /\ bucket' = AfterBucket[2]
                           /\ UNCHANGED <<ver, round, answer>>
    [] phase = "reset" -> phase' = "infer" /\ UNCHANGED <<bucket, ver, round, answer>>
    [] phase = "infer" -> /\ answer' = Results
                          /\ round' = round + 1
                          /\ IF round + 1 < Rounds
                               THEN phase' = "update" /\ bucket' = 1 /\ ver' = ver + 1
                               ELSE phase' = "close" /\ UNCHANGED <<bucket, ver>>
    [] phase = "close" -> phase' = "done" /\ UNCHANGED <<bucket, ver, round, answer>>

(* The results of all the futures have been taken.                          *)
AllFinished ==
  \/ \A s \in Server : Finished(s)
  \/ phase = "init" /\ \E s \in Server : th[s] = "err"

(* An error of any server is raised, and ends the trainer.  Its communicators *)
(* are closed at exit if they were all made; errors of that are ignored.    *)
Join ==
  /\ phase \notin {"check", "done", "down"}
  /\ AllFinished
  /\ IF \E s \in Server : th[s] = "err" /\ Op # "close"
       THEN /\ phase' = IF phase = "init" THEN "done" ELSE "close"
            /\ UNCHANGED <<bucket, ver, round, answer>>
       ELSE Advance
  /\ th' = [s \in Server |-> "idle"]
  /\ attempt' = [s \in Server |-> 1]
  /\ UNCHANGED <<epoch, out, httpVars, serverVars, workerVars, crashes>>

(* The trainer is killed; its launcher starts it again.  By the time it has *)
(* loaded its model, a free event loop has handled the requests left behind. *)
Crash ==
  /\ phase \notin {"done", "down"}
  /\ crashes < MaxCrashes
  /\ crashes' = crashes + 1
  /\ phase' = "down"
  /\ th' = [s \in Server |-> "idle"]
  /\ attempt' = [s \in Server |-> 1]
  /\ resp' = [s \in Server |-> None]
  /\ UNCHANGED <<bucket, ver, round, epoch, out, answer, net, conn, serverVars, workerVars>>

Restart ==
  /\ phase = "down"
  /\ \A s \in Server : net[s] = {} \/ busy[s] # None
  /\ phase' = "check"
  /\ epoch' = epoch + 1
  /\ UNCHANGED <<bucket, ver, round, th, attempt, out, answer, httpVars,
                 serverVars, workerVars, crashes>>

-----------------------------------------------------------------------------
(* The server.                                                              *)

(* lifespan: wait for the ready message of every worker, then serve.        *)
ServerUp(s) ==
  /\ ~up[s]
  /\ \A w \in Worker : reply[s][w] # << >>
  /\ up' = [up EXCEPT ![s] = TRUE]
  /\ reply' = [reply EXCEPT ![s] = [w \in Worker |-> Tail(reply[s][w])]]
  /\ UNCHANGED <<clientVars, httpVars, busy, pipe, workerVars, crashes>>

(* Answer a request: lost if its sender has gone on.                        *)
Respond(s, c, r) ==
  resp' = [resp EXCEPT ![s] = IF th[s] = "posting" /\ conn[s] = c THEN r ELSE @]

Command(m, w) ==
  [op |-> m.op, b |-> m.b, v |-> m.v, epoch |-> m.epoch,
   xs |-> IF WorkerChunk(m.xs, w) = << >> THEN Placeholder ELSE WorkerChunk(m.xs, w)]

(* With a bug: updates, too, wait for the reply of the workers. *)
UpdatesAreCalls(op) == op \in {"reset", "infer", "update"}

IsCall(op) == op \in {"reset", "infer"}

(* A handler sends its command to every worker.  The event loop is free     *)
(* only while no other handler is collecting replies.                       *)
Handle(s, m) ==
  /\ up[s] /\ busy[s] = None
  /\ m \in net[s]
  /\ net' = [net EXCEPT ![s] = @ \ {m}]
  /\ pipe' = [pipe EXCEPT ![s] = [w \in Worker |-> Append(pipe[s][w], Command(m, w))]]
  /\ IF IsCall(m.op)
       THEN /\ busy' = [busy EXCEPT ![s] = [m |-> m, next |-> 1, out |-> << >>, bad |-> FALSE]]
            /\ UNCHANGED resp
       ELSE /\ Respond(s, m.conn, Ok(<< >>))
            /\ UNCHANGED busy
  /\ UNCHANGED <<clientVars, conn, up, reply, workerVars, crashes>>

(* With a bug: the answers to placeholders are kept. *)
PlaceholdersKept(m, w) == m.op = "reset"

(* The output of a worker that is not part of the response.                 *)
Dropped(m, w) == m.op = "reset" \/ WorkerChunk(m.xs, w) = << >>

(* With a bug: a None among the outputs is skipped. *)
MissingSkipped(m, w, r) == FALSE

(* A worker that raised has no output to chain with the others.             *)
Missing(m, w, r) == ~Dropped(m, w) /\ r = Lost

(* connection.recv() of each worker in turn.  The answer to a placeholder   *)
(* is dropped; a None among the others is an internal error (status 500).   *)
(* reset_prefix_cache reports its status in the text of a 200.              *)
Collect(s) ==
  /\ busy[s] # None
  /\ LET call == busy[s]
         w == call.next
         r == Head(reply[s][w])
         got == IF Dropped(call.m, w) \/ r = Lost THEN call.out ELSE call.out \o r
         bad == call.bad \/ Missing(call.m, w, r)
     IN  /\ reply[s][w] # << >>
         /\ reply' = [reply EXCEPT ![s][w] = Tail(@)]
         /\ IF w < NumWorkers
              THEN /\ busy' = [busy EXCEPT ![s] =
                                 [call EXCEPT !.next = w + 1, !.out = got, !.bad = bad]]
                   /\ UNCHANGED resp
              ELSE /\ busy' = [busy EXCEPT ![s] = None]
                   /\ Respond(s, call.m.conn, IF bad THEN Failed ELSE Ok(got))
  /\ UNCHANGED <<clientVars, net, conn, up, pipe, workerVars, crashes>>

-----------------------------------------------------------------------------
(* The workers: llm_worker executes the commands of its pipe in order.      *)

WorkerReady(s, w) ==
  /\ ~ready[s][w]
  /\ ready' = [ready EXCEPT ![s][w] = TRUE]
  /\ reply' = [reply EXCEPT ![s][w] = Append(@, <<0>>)]
  /\ UNCHANGED <<clientVars, httpVars, up, busy, pipe, loaded, data, comm, cache, crashes>>

Executing(s, w, op) ==
  /\ ready[s][w] /\ data[s][w] = None
  /\ pipe[s][w] # << >> /\ Head(pipe[s][w]).op = op

NextCommand(s, w) == pipe' = [pipe EXCEPT ![s][w] = Tail(@)]

(* The version of all the weights of a worker, 0 if they are mixed.         *)
Version(s, w) ==
  IF \A b \in Bucket : loaded[s][w][b] = [b |-> b, v |-> loaded[s][w][1].v]
    THEN loaded[s][w][1].v ELSE 0

Infer(s, w) ==
  /\ Executing(s, w, "infer")
  /\ reply' = [reply EXCEPT ![s][w] = Append(@, Head(pipe[s][w]).xs)]
  /\ cache' = [cache EXCEPT ![s][w] = Version(s, w)]
  /\ NextCommand(s, w)
  /\ UNCHANGED <<clientVars, httpVars, up, busy, ready, loaded, data, comm, crashes>>

ResetPrefixCache(s, w) ==
  /\ Executing(s, w, "reset")
  /\ reply' = [reply EXCEPT ![s][w] = Append(@, <<0>>)]
  /\ cache' = [cache EXCEPT ![s][w] = 0]
  /\ NextCommand(s, w)
  /\ UNCHANGED <<clientVars, httpVars, up, busy, ready, loaded, data, comm, crashes>>

CloseCommunicator(s, w) ==
  /\ Executing(s, w, "close")
  /\ comm' = [comm EXCEPT ![s][w] = 0]
  /\ NextCommand(s, w)
  /\ UNCHANGED <<clientVars, httpVars, up, busy, reply, ready, loaded, data, cache, crashes>>

(* A command raises: an update without a communicator, an initialisation    *)
(* with one, or any failure.  The exception is logged; a call gets None.    *)
Raise(s, w) ==
  \E op \in CanRaise \ {"load"} :
    /\ Executing(s, w, op)
    /\ \/ op \in MayRaise
       \/ op = "update" /\ comm[s][w] = 0
       \/ op = "init" /\ (comm[s][w] # 0 \/ crashes > 0)
    /\ reply' = IF IsCall(op)
                  THEN [reply EXCEPT ![s][w] = Append(@, Lost)] ELSE reply
    /\ NextCommand(s, w)
    /\ UNCHANGED <<clientVars, httpVars, up, busy, workerVars, crashes>>

(* The client and all the workers of a server form a new communicator.      *)
Rendezvous(s) ==
  /\ phase = "init" /\ th[s] = "nccl"
  /\ \A w \in Worker : Executing(s, w, "init") /\ comm[s][w] = 0
  /\ th' = [th EXCEPT ![s] = "done"]
  /\ comm' = [comm EXCEPT ![s] = [w \in Worker |-> epoch]]
  /\ pipe' = [pipe EXCEPT ![s] = [w \in Worker |-> Tail(pipe[s][w])]]
  /\ UNCHANGED <<phase, bucket, ver, round, epoch, attempt, out, answer, httpVars,
                 up, busy, reply, ready, loaded, data, cache, crashes>>

(* The broadcast of a bucket and the barrier: every worker that executes an *)
(* update receives what the client sends, whatever its own command names.   *)
Broadcast(s) ==
  /\ phase = "update" /\ th[s] = "nccl"
  /\ \A w \in Worker : Executing(s, w, "update") /\ comm[s][w] = epoch
  /\ th' = [th EXCEPT ![s] = "done"]
  /\ data' = [data EXCEPT ![s] = [w \in Worker |-> [b |-> bucket, v |-> ver]]]
  /\ UNCHANGED <<phase, bucket, ver, round, epoch, attempt, out, answer, httpVars,
                 serverVars, ready, loaded, comm, cache, crashes>>

(* After the barrier the worker loads what it received into the parameters  *)
(* its command names, while the client goes on.  If load_weights raises,    *)
(* that is logged and the worker keeps the weights it had.                  *)
LoadWeights(s, w) ==
  /\ data[s][w] # None
  /\ \/ loaded' = [loaded EXCEPT ![s][w][Head(pipe[s][w]).b] = data[s][w]]
     \/ "load" \in MayRaise /\ UNCHANGED loaded
  /\ data' = [data EXCEPT ![s][w] = None]
  /\ NextCommand(s, w)
  /\ UNCHANGED <<clientVars, httpVars, up, busy, reply, ready, comm, cache, crashes>>

-----------------------------------------------------------------------------
Client == CheckServer \/ Join \/ \E s \in Server : Post(s) \/ Response(s) \/ Rendezvous(s) \/ Broadcast(s)

Serve(s) == ServerUp(s) \/ Collect(s) \/ \E m \in net[s] : Handle(s, m)

Work(s, w) ==
  \/ WorkerReady(s, w) \/ Infer(s, w) \/ ResetPrefixCache(s, w) \/ CloseCommunicator(s, w)
  \/ LoadWeights(s, w) \/ Raise(s, w)

Fault == Crash \/ Restart \/ \E s \in Server : NoResponse(s) \/ NoRendezvous(s)

Terminated == phase = "done" /\ UNCHANGED vars

Next ==
  \/ Client
  \/ \E s \in Server : Serve(s) \/ \E w \in Worker : Work(s, w)
  \/ Fault
  \/ Terminated

Spec == Init /\ [][Next]_vars

Fairness ==
  /\ WF_vars(Client)
  /\ \A s \in Server : WF_vars(Serve(s)) /\ \A w \in Worker : WF_vars(Work(s, w))

FairSpec == Spec /\ Fairness

-----------------------------------------------------------------------------
TypeOK ==
  /\ phase \in Phase /\ bucket \in Bucket /\ ver \in Nat /\ round \in 0 .. Rounds /\ epoch \in Nat
  /\ th \in [Server -> {"idle", "posting", "nccl", "done", "err"}]
  /\ attempt \in [Server -> 1 .. RequestRetries]
  /\ \A s \in Server : conn[s] \in Nat /\ \A m \in net[s] : m.conn \in 1 .. conn[s]
  /\ up \in [Server -> BOOLEAN] /\ ready \in [Server -> [Worker -> BOOLEAN]]
  /\ comm \in [Server -> [Worker -> 0 .. epoch]]
  /\ cache \in [Server -> [Worker -> 0 .. ver]]
  /\ crashes \in 0 .. MaxCrashes

(* A worker executes a rollout of the client that is alive.                 *)
Rolling(s, w) == Executing(s, w, "infer") /\ Head(pipe[s][w]).epoch = epoch /\ phase = "infer"

(* update_flattened_params "Updates the model weights with flattened tensor *)
(* data": a bucket of the model only ever receives its own tensors.         *)
BucketIntegrity ==
  \A s \in Server, w \in Worker, b \in Bucket : loaded[s][w][b].b = b

(* A rollout runs, on every worker of every server, on the complete weights *)
(* of the last synchronisation, although no worker has acknowledged the     *)
(* buckets: fire_and_forget commands are answered before they are executed. *)
RolloutWeights ==
  \A s \in Server, w \in Worker : Rolling(s, w) => Version(s, w) = ver

(* A rollout never reuses a prefix cache computed with older weights.       *)
FreshPrefixCache ==
  \A s \in Server, w \in Worker : Rolling(s, w) => cache[s][w] \in {0, ver}

(* The reply a server collects is the reply to the call it is serving: the  *)
(* answers come back in the order of the prompts, the placeholders dropped. *)
AnswersInOrder == answer = Request

(* Every rollout is answered, and the trainer ends.                         *)
RunEnds == <>(phase = "done" /\ round = Rounds)
=============================================================================
