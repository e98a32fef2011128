-------------------------- MODULE WeightSyncProofs --------------------------
(***************************************************************************)
(* What the servers hold when they serve, whatever is lost, raises or is   *)
(* killed on the way: for any number of servers, workers, buckets and      *)
(* rounds, a bucket of the model only receives its own tensors, a rollout  *)
(* runs on all the weights of the last synchronisation, and it does not    *)
(* reuse an older prefix cache.  The trainer is killed at most once.       *)
(* And, without any hypothesis, that the answers of a rollout come back in *)
(* the order of its prompts.                                               *)
(***************************************************************************)
EXTENDS WeightSync, TLAPS, SequenceTheorems, WellFoundedInduction

(* An update request is never posted a second time.                         *)
NoUpdateRetry == RequestRetries = 1 \/ ~Flattened \/ ~MayLose

(* The requests of a synchronisation and of a rollout.                      *)
Live == {"update", "reset", "infer"}

-----------------------------------------------------------------------------
(* The inductive invariant, server by server.                               *)

Message ==
  [conn : Nat, op : CanRaise \ {"load"}, b : Bucket, v : Nat, epoch : Nat,
   xs : {ServerChunk(s) : s \in Server}]

Output == {Placeholder, Lost} \cup {WorkerChunk(ServerChunk(s), w) : s \in Server, w \in Worker}

Cmd == [op : CanRaise \ {"load"}, b : Bucket, v : Nat, epoch : Nat, xs : Output]

Call(s) == busy[s] # None

ClientTypes ==
  /\ phase \in Phase /\ bucket \in Bucket /\ ver \in Nat
  /\ epoch \in Nat /\ epoch >= 1 /\ crashes \in Nat
  /\ th \in [Server -> {"idle", "posting", "nccl", "done", "err"}]
  /\ attempt \in [Server -> {n \in Nat : n >= 1}]

HttpTypes ==
  /\ conn \in [Server -> Nat]
  /\ net \in [Server -> SUBSET Message]
  /\ \A s \in Server : \A m \in net[s] : m.epoch <= epoch /\ m.conn <= conn[s]
  /\ DOMAIN resp = Server

ServerTypes ==
  /\ up \in [Server -> BOOLEAN] /\ DOMAIN busy = Server
  /\ \A s \in Server : Call(s) =>
       /\ "m" \in DOMAIN busy[s] /\ busy[s].m \in Message /\ IsCall(busy[s].m.op)
       /\ busy[s].m.epoch <= epoch /\ busy[s].next \in Worker

PipeTypes ==
  /\ pipe \in [Server -> [Worker -> Seq(Cmd)]]
  /\ \A s \in Server, w \in Worker : \A i \in DOMAIN pipe[s][w] : pipe[s][w][i].epoch <= epoch

WorkerTypes ==
  /\ ready \in [Server -> [Worker -> BOOLEAN]]
  /\ loaded \in [Server -> [Worker -> [Bucket -> [b : Bucket, v : Nat]]]]
  /\ data \in [Server -> [Worker -> {None} \cup [b : Bucket, v : Nat]]]
  /\ comm \in [Server -> [Worker -> Nat]]
  /\ \A s \in Server, w \in Worker : comm[s][w] <= epoch

Types == ClientTypes /\ HttpTypes /\ ServerTypes /\ PipeTypes /\ WorkerTypes

(* A command in the pipe of a worker, an update not broadcast yet.          *)
At(s, w, i, op) == i \in DOMAIN pipe[s][w] /\ pipe[s][w][i].op = op
Fresh(s, w, i) ==
  At(s, w, i, "update") /\ pipe[s][w][i].epoch = epoch /\ (i = 1 => data[s][w] = None)

(* What the trainer that is alive has asked of a server, and is not done.   *)
Posted(s) == {m \in net[s] : m.op \in Live /\ m.epoch = epoch}
Serving(s) == Call(s) /\ busy[s].m.epoch = epoch
Updating(s) == \E w \in Worker : \E i \in DOMAIN pipe[s][w] : Fresh(s, w, i)

(* ... that is one thing at a time ...                                      *)
One(s) ==
  /\ \A m, n \in Posted(s) : m = n
  /\ Posted(s) # {} => ~Serving(s) /\ ~Updating(s)
  /\ Serving(s) => ~Updating(s)
  /\ \A w \in Worker : \A i, j \in DOMAIN pipe[s][w] : Fresh(s, w, i) /\ Fresh(s, w, j) => i = j

(* ... and the request of the operation at hand, unless the trainer has     *)
(* given up.                                                                *)
Over == phase \in {"close", "done", "down"}
Matches(m) == m.op = phase /\ m.b = bucket /\ m.v = ver

Asked(s) == ~Over =>
  /\ \A m \in Posted(s) : Matches(m) /\ th[s] \in {"posting", "err"}
  /\ Serving(s) => Matches(busy[s].m) /\ th[s] \in {"posting", "err"}
  /\ \A w \in Worker : \A i \in DOMAIN pipe[s][w] : Fresh(s, w, i) =>
       Matches(pipe[s][w][i]) /\ th[s] \in {"posting", "nccl", "err"}

(* A response is that of the request the client waits for.                  *)
Connections(s) ==
  /\ \A m, n \in net[s] : m.conn = n.conn => m = n
  /\ Call(s) => busy[s].m.conn <= conn[s] /\ \A m \in net[s] : m.conn # busy[s].m.conn
  /\ th[s] = "posting" =>
       /\ \A m \in net[s] : m.conn = conn[s] => m.op = Op /\ m.epoch = epoch /\ resp[s] = None
       /\ Call(s) /\ busy[s].m.conn = conn[s] =>
            busy[s].m.op = Op /\ busy[s].m.epoch = epoch /\ resp[s] = None

Responded(s) == th[s] = "posting" /\ resp[s] # None

Answered(s) == phase \in Live /\ Responded(s) =>
  /\ Posted(s) = {} /\ ~Serving(s)
  /\ phase = "update" => resp[s].ok

(* What a trainer that was killed has left behind.                          *)
Stale(s) ==
  /\ \A m \in net[s] : m.op \in Live => m.epoch = epoch
  /\ \A w \in Worker : \A i \in DOMAIN pipe[s][w] :
       At(s, w, i, "update") /\ pipe[s][w][i].epoch # epoch =>
         /\ comm[s][w] # epoch
         /\ \A j \in DOMAIN pipe[s][w] : j < i => ~At(s, w, j, "init")

(* Until then: no update is sent before every init_communicator is over.    *)
Pending(s, op) ==
  \/ \E m \in net[s] : m.op = op
  \/ \E w \in Worker : \E i \in DOMAIN pipe[s][w] : At(s, w, i, op)

FirstTrainer(s) == crashes = 0 \/ phase = "down" =>
  /\ Call(s) => busy[s].m.epoch = epoch
  /\ ~(Pending(s, "init") /\ Pending(s, "update"))
  /\ phase \in {"check", "preclose", "init"} => ~Pending(s, "update")
  /\ phase \in {"init", "done", "down"} \/ ~Pending(s, "init")
  /\ phase = "init" /\ th[s] \in {"idle", "done"} => ~Pending(s, "init")
  /\ phase = "init" /\ (th[s] = "nccl" \/ Responded(s)) =>
       \A m \in net[s] : m.op # "init"
  /\ \A m, n \in net[s] : m.op = "init" /\ n.op = "init" => m = n
  /\ \A m \in net[s] : m.op = "init" =>
       \A w \in Worker : \A i \in DOMAIN pipe[s][w] : ~At(s, w, i, "init")
  /\ \A w \in Worker : \A i, j \in DOMAIN pipe[s][w] :
       At(s, w, i, "init") /\ At(s, w, j, "init") => i = j

(* A worker receives data for an update, and for the bucket that it names.  *)
Receiving(s, w) == data[s][w] # None => At(s, w, 1, "update")

Received(s, w) ==
  /\ Receiving(s, w)
  /\ data[s][w] # None => pipe[s][w][1].b = data[s][w].b
  /\ \A b \in Bucket : loaded[s][w][b].b = b

Requests(s) ==
  /\ One(s) /\ Asked(s) /\ Connections(s) /\ Answered(s)
  /\ Stale(s) /\ FirstTrainer(s) /\ \A w \in Worker : Received(s, w)

(* The client is idle between two operations.                               *)
Idle ==
  /\ phase = "down" => crashes = 1
  /\ phase \in {"check", "down", "done"} => \A s \in Server : th[s] = "idle"

SInv == Types /\ crashes <= 1 /\ Idle /\ \A s \in Server : Requests(s)

-----------------------------------------------------------------------------
(* The buckets of the synchronisation at hand that a server has been sent   *)
(* are loaded in each of its workers, the last one perhaps just received.   *)
Sent(s, b) ==
  \/ phase = "update" /\ (b < bucket \/ (b = bucket /\ th[s] = "done"))
  \/ phase \in {"reset", "infer"}

Loaded(s, w) == \A b \in Bucket : Sent(s, b) =>
  /\ data[s][w] # None => data[s][w].v = ver
  /\ \/ loaded[s][w][b] = [b |-> b, v |-> ver]
     \/ data[s][w] = [b |-> b, v |-> ver]

LInv == \A s \in Server, w \in Worker : Loaded(s, w)

-----------------------------------------------------------------------------
(* The call that a server is serving is the only one its workers have.      *)
HasCall(s, w) == \E i \in DOMAIN pipe[s][w] : IsCall(pipe[s][w][i].op)

Single(q) == q # << >> /\ Tail(q) = << >>

Orderly(s, w) ==
  /\ ready[s][w]
  /\ \A i \in DOMAIN pipe[s][w] : IsCall(pipe[s][w][i].op) =>
       /\ Call(s) /\ busy[s].next <= w /\ pipe[s][w][i].op = busy[s].m.op
       /\ reply[s][w] = << >>
       /\ \A j \in DOMAIN pipe[s][w] : IsCall(pipe[s][w][j].op) => j = i
  /\ reply[s][w] # << >> => Call(s) /\ busy[s].next <= w /\ Single(reply[s][w])

Calls(s) ==
  /\ ~up[s] => ~Call(s) /\ \A w \in Worker :
       pipe[s][w] = << >> /\ IF ready[s][w] THEN Single(reply[s][w]) ELSE reply[s][w] = << >>
  /\ up[s] => \A w \in Worker : Orderly(s, w)

(* It is a call of the trainer that is alive, once its communicator is made. *)
NoOldCall(s) ==
  (\/ phase \in Live
   \/ phase = "init" /\ (th[s] \in {"nccl", "done"} \/ Responded(s)))
  => ~(Call(s) /\ busy[s].m.epoch # epoch)

(* The prefix cache is empty from the reset to the rollout.                 *)
Reset(s, w) ==
  /\ phase = "reset" =>
       /\ Serving(s) /\ ~HasCall(s, w) => cache[s][w] = 0
       /\ th[s] = "done" \/ Responded(s) => cache[s][w] = 0
  /\ phase = "infer" =>
       /\ th[s] = "idle" \/ Posted(s) # {} => cache[s][w] = 0
       /\ Serving(s) /\ HasCall(s, w) => cache[s][w] = 0

Tables ==
  /\ DOMAIN reply = Server /\ DOMAIN cache = Server
  /\ \A s \in Server : DOMAIN reply[s] = Worker /\ DOMAIN cache[s] = Worker

CInv == Tables /\ \A s \in Server : Calls(s) /\ NoOldCall(s) /\ \A w \in Worker : Reset(s, w)

-----------------------------------------------------------------------------
(* Lemmas about the values.                                                 *)

LEMMA Sizes ==
  /\ 1 \in Worker /\ NumWorkers \in Worker /\ \A w \in Worker : w \in Nat /\ w <= NumWorkers
  /\ 1 \in Bucket /\ NumBuckets \in Bucket /\ \A b \in Bucket : b \in Nat /\ b <= NumBuckets
BY SyncConstants DEF Worker, Bucket

LEMMA Something ==
  /\ \A xs : Ok(xs) # None /\ Ok(xs).ok = TRUE /\ Failed # None
  /\ \A x, y : [b |-> x, v |-> y] # None
  /\ \A m, n, o, x : [m |-> m, next |-> n, out |-> o, bad |-> x] # None
<1>1. DOMAIN None = {"none"}
  BY DEF None
<1>2. \A xs : "ok" \in DOMAIN Ok(xs) /\ Ok(xs).ok = TRUE /\ "ok" \in DOMAIN Failed
  BY DEF Ok, Failed
<1>3. \A x, y : "b" \in DOMAIN [b |-> x, v |-> y]
  OBVIOUS
<1>4. \A m, n, o, x : "m" \in DOMAIN [m |-> m, next |-> n, out |-> o, bad |-> x]
  OBVIOUS
<1>5. QED BY <1>1, <1>2, <1>3, <1>4

LEMMA TailFacts ==
  ASSUME NEW S, NEW q \in Seq(S), q # << >>
  PROVE  /\ Tail(q) \in Seq(S) /\ Head(q) = q[1] /\ q[1] \in S /\ 1 \in DOMAIN q
         /\ \A i \in DOMAIN Tail(q) : /\ i \in Nat /\ i >= 1 /\ i + 1 \in DOMAIN q
                                      /\ Tail(q)[i] = q[i + 1]
OBVIOUS

LEMMA TailRest ==
  ASSUME NEW S, NEW q \in Seq(S), NEW i \in DOMAIN q, i # 1
  PROVE  \E j \in DOMAIN Tail(q) : Tail(q)[j] = q[i]
<1>1. PICK n \in Nat : n = Len(q)
  OBVIOUS
<1>2. i \in 1 .. n
  BY <1>1
<1>3. i - 1 \in 1 .. n - 1 /\ (i - 1) + 1 = i /\ n - 1 \in Nat
  BY <1>2
<1>4. DOMAIN Tail(q) = 1 .. n - 1 /\ \A j \in 1 .. n - 1 : Tail(q)[j] = q[j + 1]
  BY <1>1, <1>3
<1>5. QED BY <1>3, <1>4

LEMMA AppendFacts ==
  ASSUME NEW S, NEW q \in Seq(S), NEW e \in S
  PROVE  /\ Append(q, e) \in Seq(S)
         /\ \A i \in DOMAIN q : i \in DOMAIN Append(q, e) /\ Append(q, e)[i] = q[i]
         /\ \A i \in DOMAIN Append(q, e) : /\ i \in Nat /\ i >= 1
                                           /\ i \in DOMAIN q \/ (Append(q, e)[i] = e /\ i \notin DOMAIN q)
         /\ \A i, j \in DOMAIN Append(q, e) : i \notin DOMAIN q /\ j \notin DOMAIN q => i = j
         /\ \A i \in DOMAIN q, j \in DOMAIN Append(q, e) : j \notin DOMAIN q => i < j
         /\ q # << >> => 1 \in DOMAIN q
         /\ \E i \in DOMAIN Append(q, e) : Append(q, e)[i] = e /\ i \notin DOMAIN q
<1>1. /\ Append(q, e) \in Seq(S) /\ Len(Append(q, e)) = Len(q) + 1 /\ Len(q) \in Nat
      /\ DOMAIN q = 1 .. Len(q) /\ DOMAIN Append(q, e) = 1 .. Len(q) + 1
      /\ Append(q, e)[Len(q) + 1] = e
      /\ \A i \in 1 .. Len(q) : Append(q, e)[i] = q[i]
  OBVIOUS
<1>2. PICK n \in Nat : n = Len(q)
  BY <1>1
<1>3. /\ DOMAIN q = 1 .. n /\ DOMAIN Append(q, e) = 1 .. n + 1 /\ Append(q, e)[n + 1] = e
      /\ \A i \in 1 .. n : Append(q, e)[i] = q[i]
  BY <1>1, <1>2
<1>4. q # << >> => n # 0
  BY <1>2
<1>5. \A i \in 1 .. n + 1 : i \in 1 .. n \/ i = n + 1
  OBVIOUS
<1>6. n + 1 \in 1 .. n + 1 /\ n + 1 \notin 1 .. n /\ (n # 0 => 1 \in 1 .. n)
  OBVIOUS
<1>7. QED BY <1>1, <1>3, <1>4, <1>5, <1>6

(* The commands of a request.                                               *)
LEMMA CommandLemma ==
  ASSUME NEW m \in Message, NEW w \in Worker
  PROVE  /\ Command(m, w) \in Cmd /\ Command(m, w).op = m.op /\ Command(m, w).b = m.b
         /\ Command(m, w).v = m.v /\ Command(m, w).epoch = m.epoch
<1>1. WorkerChunk(m.xs, w) \in Output /\ Placeholder \in Output
  BY DEF Message, Output
<1>2. QED BY <1>1 DEF Command, Cmd, Message

-----------------------------------------------------------------------------
(* The types.                                                               *)

LEMMA TypesPost ==
  ASSUME Types, NEW s \in Server, Post(s) PROVE Types'
<1> DEFINE new == [conn |-> conn[s] + 1, op |-> Op, b |-> bucket, v |-> ver, epoch |-> epoch,
                   xs |-> ServerChunk(s)]
<1>1. Op \in CanRaise \ {"load"}
  BY DEF Post, Op, CanRaise, Types, ClientTypes, Phase
<1>2. conn[s] \in Nat /\ bucket \in Bucket /\ ver \in Nat /\ epoch \in Nat
  BY DEF Types, HttpTypes, ClientTypes
<1>3. new \in Message
  BY <1>1, <1>2 DEF Message
<1>4. net' = [net EXCEPT ![s] = net[s] \cup {new}]
  BY DEF Post
<1>5. conn' = [conn EXCEPT ![s] = conn[s] + 1] /\ epoch' = epoch /\ DOMAIN resp' = DOMAIN resp
  BY DEF Post
<1>6. ClientTypes'
  BY DEF Types, ClientTypes, Post
<1>7. HttpTypes'
  <2>1. conn' \in [Server -> Nat] /\ net' \in [Server -> SUBSET Message] /\ DOMAIN resp' = Server
    BY <1>2, <1>3, <1>4, <1>5 DEF Types, HttpTypes
  <2>2. ASSUME NEW t \in Server, NEW m \in net'[t] PROVE m.epoch <= epoch' /\ m.conn <= conn'[t]
    <3>1. CASE m \in net[t]
      <4>1. m \in Message /\ m.epoch <= epoch /\ m.conn <= conn[t] /\ conn[t] \in Nat
        BY <3>1 DEF Types, HttpTypes
      <4>2. conn'[t] = conn[t] \/ conn'[t] = conn[t] + 1
        BY <1>5 DEF Types, HttpTypes
      <4>3. QED BY <1>5, <4>1, <4>2 DEF Message
    <3>2. CASE m \notin net[t]
      <4>1. t = s /\ m = new
        BY <1>4, <2>2, <3>2 DEF Types, HttpTypes
      <4>2. conn'[s] = conn[s] + 1
        BY <1>5 DEF Types, HttpTypes
      <4>3. QED BY <1>2, <1>5, <4>1, <4>2
    <3>3. QED BY <3>1, <3>2
  <2>3. QED BY <2>1, <2>2 DEF HttpTypes
<1>8. UNCHANGED <<epoch, up, busy, pipe, ready, loaded, data, comm>>
  BY DEF Post, serverVars, workerVars
<1>9. ServerTypes' /\ PipeTypes' /\ WorkerTypes'
  BY <1>8 DEF Types, ServerTypes, PipeTypes, WorkerTypes, Call
<1>10. QED BY <1>6, <1>7, <1>9 DEF Types

(* The other steps of the client, and the faults.                           *)
LEMMA TypesClient ==
  ASSUME Types,
         \/ CheckServer \/ Join \/ Crash \/ Restart
         \/ \E s \in Server : Response(s) \/ NoResponse(s) \/ NoRendezvous(s)
  PROVE  Types'
<1>1. /\ UNCHANGED <<conn, up, busy, pipe, ready, loaded, data, comm>>
      /\ DOMAIN resp' = DOMAIN resp
      /\ epoch' = epoch \/ epoch' = epoch + 1
  BY DEF CheckServer, Join, Crash, Restart, Response, NoResponse, NoRendezvous, httpVars,
         serverVars, workerVars, Types, HttpTypes
<1>2. epoch \in Nat /\ epoch' \in Nat /\ epoch <= epoch' /\ epoch >= 1
  BY <1>1 DEF Types, ClientTypes
<1>3. net' \in [Server -> SUBSET Message] /\ \A s \in Server : net'[s] \subseteq net[s]
  BY DEF CheckServer, Join, Crash, Restart, Response, NoResponse, NoRendezvous, httpVars,
         Types, HttpTypes
<1>4. ClientTypes'
  <2>1. CASE CheckServer \/ Crash \/ Restart
    BY <1>2, <2>1 DEF CheckServer, Crash, Restart, Types, ClientTypes, Phase
  <2>2. CASE Join
    <3>1. /\ th' \in [Server -> {"idle", "posting", "nccl", "done", "err"}]
          /\ attempt' \in [Server -> {n \in Nat : n >= 1}] /\ UNCHANGED <<epoch, crashes>>
      BY <2>2 DEF Join, Types, ClientTypes
    <3>2. CASE Advance
      <4>1. phase \in {"preclose", "init", "update", "reset", "infer", "close"}
        BY <2>2 DEF Join, Types, ClientTypes, Phase
      <4>2. /\ phase' \in Phase /\ bucket' \in Bucket /\ ver' \in Nat
        <5>1. bucket \in Nat /\ bucket >= 1 /\ bucket <= NumBuckets /\ NumBuckets \in Nat /\ ver \in Nat
          BY SyncConstants DEF Types, ClientTypes, Bucket
        <5>2. CASE phase = "update"
          <6>1. phase' = AfterBucket[1] /\ bucket' = AfterBucket[2] /\ UNCHANGED ver
            BY <3>2, <5>2 DEF Advance
          <6>2. CASE bucket < NumBuckets
            BY <5>1, <6>1, <6>2 DEF AfterBucket, Bucket, Phase
          <6>3. CASE ~(bucket < NumBuckets)
            BY <5>1, <6>1, <6>3 DEF AfterBucket, Bucket, Phase
          <6>4. QED BY <6>2, <6>3
        <5>3. CASE phase # "update"
          <6>1. bucket \in Bucket
            BY DEF Types, ClientTypes
          <6>2. CASE phase \in {"preclose", "reset", "close"}
            BY <3>2, <5>1, <6>1, <6>2 DEF Advance, Phase
          <6>3. CASE phase = "init"
            BY <3>2, <5>1, <6>3, Sizes DEF Advance, Phase
          <6>4. CASE phase = "infer"
            BY <3>2, <5>1, <6>1, <6>4, Sizes DEF Advance, Phase
          <6>5. QED BY <4>1, <5>3, <6>2, <6>3, <6>4
        <5>4. QED BY <5>2, <5>3
      <4>3. QED BY <1>2, <3>1, <4>2 DEF Types, ClientTypes
    <3>3. CASE ~Advance
      <4>1. phase' \in {"done", "close"} /\ UNCHANGED <<bucket, ver>>
        BY <2>2, <3>3 DEF Join
      <4>2. QED BY <1>2, <3>1, <4>1 DEF Types, ClientTypes, Phase
    <3>4. QED BY <3>2, <3>3
  <2>3. ASSUME NEW s \in Server, Response(s) \/ NoResponse(s) \/ NoRendezvous(s)
        PROVE  ClientTypes'
    BY <1>2, <2>3 DEF Response, NoResponse, NoRendezvous, AttemptFailed, Types, ClientTypes
  <2>4. QED BY <2>1, <2>2, <2>3
<1>5. HttpTypes'
  <2>1. ASSUME NEW s \in Server, NEW m \in net'[s] PROVE m.epoch <= epoch' /\ m.conn <= conn'[s]
    <3>1. m \in Message /\ m.epoch <= epoch /\ m.conn <= conn[s]
      BY <1>3, <2>1 DEF Types, HttpTypes
    <3>2. QED BY <1>1, <1>2, <3>1 DEF Message
  <2>2. QED BY <1>1, <1>3, <2>1 DEF Types, HttpTypes
<1>6. ServerTypes'
  <2>1. ASSUME NEW s \in Server, Call(s)' PROVE busy'[s].m.epoch <= epoch'
    <3>1. Call(s) /\ busy[s].m \in Message /\ busy[s].m.epoch <= epoch /\ busy'[s] = busy[s]
      BY <1>1, <2>1 DEF Call, Types, ServerTypes
    <3>2. QED BY <1>2, <3>1 DEF Message
  <2>2. QED BY <1>1, <2>1 DEF Types, ServerTypes, Call
<1>7. PipeTypes'
  <2>1. ASSUME NEW s \in Server, NEW w \in Worker, NEW i \in DOMAIN pipe[s][w]
        PROVE  pipe[s][w][i].epoch <= epoch'
    <3>1. pipe[s][w] \in Seq(Cmd) /\ pipe[s][w][i].epoch <= epoch
      BY DEF Types, PipeTypes
    <3>2. pipe[s][w][i] \in Cmd
      BY <3>1
    <3>3. pipe[s][w][i].epoch \in Nat
      BY <3>2 DEF Cmd
    <3>4. QED BY <1>2, <3>1, <3>3
  <2>2. QED BY <1>1, <2>1 DEF Types, PipeTypes
<1>8. WorkerTypes'
  <2>1. ASSUME NEW s \in Server, NEW w \in Worker PROVE comm[s][w] <= epoch'
    BY <1>2 DEF Types, WorkerTypes
  <2>2. QED BY <1>1, <2>1 DEF Types, WorkerTypes
<1>9. QED BY <1>4, <1>5, <1>6, <1>7, <1>8 DEF Types

(* The servers.                                                             *)
LEMMA TypesHandle ==
  ASSUME Types, NEW s \in Server, NEW m \in net[s], Handle(s, m) PROVE Types'
<1>1. /\ UNCHANGED <<phase, bucket, ver, epoch, crashes, th, attempt, conn, up, ready, loaded, data, comm>>
      /\ net' = [net EXCEPT ![s] = net[s] \ {m}] /\ DOMAIN resp' = DOMAIN resp
      /\ pipe' = [pipe EXCEPT ![s] = [w \in Worker |-> Append(pipe[s][w], Command(m, w))]]
  BY DEF Handle, clientVars, workerVars, Respond
<1>2. m \in Message /\ m.epoch <= epoch
  BY DEF Types, HttpTypes
<1>3. ClientTypes' /\ WorkerTypes'
  BY <1>1 DEF Types, ClientTypes, WorkerTypes
<1>4. HttpTypes'
  BY <1>1 DEF Types, HttpTypes
<1>5. ServerTypes'
  <2>1. CASE IsCall(m.op)
    <3>1. busy' = [busy EXCEPT ![s] = [m |-> m, next |-> 1, out |-> << >>, bad |-> FALSE]]
      BY <2>1 DEF Handle
    <3>2. /\ DOMAIN busy' = Server /\ busy'[s].m = m /\ busy'[s].next = 1
          /\ "m" \in DOMAIN busy'[s]
      BY <3>1 DEF Types, ServerTypes
    <3>3. ASSUME NEW t \in Server, t # s PROVE busy'[t] = busy[t]
      BY <3>1, <3>3 DEF Types, ServerTypes
    <3>4. QED BY <1>1, <1>2, <2>1, <3>2, <3>3, Sizes DEF Types, ServerTypes, Call
  <2>2. CASE ~IsCall(m.op)
    BY <1>1, <2>2 DEF Handle, Types, ServerTypes, Call
  <2>3. QED BY <2>1, <2>2
<1>6. PipeTypes'
  <2>1. ASSUME NEW w \in Worker
        PROVE  /\ pipe'[s][w] \in Seq(Cmd)
               /\ \A i \in DOMAIN pipe'[s][w] : pipe'[s][w][i].epoch <= epoch'
    <3>1. pipe[s][w] \in Seq(Cmd) /\ Command(m, w) \in Cmd /\ Command(m, w).epoch = m.epoch
      BY <1>2, CommandLemma DEF Types, PipeTypes
    <3>2. pipe'[s][w] = Append(pipe[s][w], Command(m, w))
      BY <1>1 DEF Types, PipeTypes
    <3>3. ASSUME NEW i \in DOMAIN pipe'[s][w] PROVE pipe'[s][w][i].epoch <= epoch'
      <4>1. CASE i \in DOMAIN pipe[s][w]
        BY <1>1, <3>1, <3>2, <4>1, AppendFacts DEF Types, PipeTypes
      <4>2. CASE i \notin DOMAIN pipe[s][w]
        BY <1>1, <1>2, <3>1, <3>2, <3>3, <4>2, AppendFacts
      <4>3. QED BY <4>1, <4>2
    <3>4. QED BY <3>1, <3>2, <3>3, AppendFacts
  <2>2. ASSUME NEW t \in Server, t # s PROVE pipe'[t] = pipe[t]
    BY <1>1, <2>2 DEF Types, PipeTypes
  <2>3. pipe' \in [Server -> [Worker -> Seq(Cmd)]]
    <3>1. [w \in Worker |-> Append(pipe[s][w], Command(m, w))] \in [Worker -> Seq(Cmd)]
      <4>1. \A w \in Worker : pipe[s][w] \in Seq(Cmd) /\ Command(m, w) \in Cmd
        BY <1>2, CommandLemma DEF Types, PipeTypes
      <4>2. \A w \in Worker : Append(pipe[s][w], Command(m, w)) \in Seq(Cmd)
        BY <4>1, AppendFacts
      <4>3. QED BY <4>2
    <3>2. QED BY <1>1, <3>1 DEF Types, PipeTypes
  <2>4. QED BY <1>1, <2>1, <2>2, <2>3 DEF Types, PipeTypes
<1>7. QED BY <1>3, <1>4, <1>5, <1>6 DEF Types

LEMMA TypesServe ==
  ASSUME Types, NEW s \in Server, ServerUp(s) \/ Collect(s) PROVE Types'
<1>1. /\ UNCHANGED <<phase, bucket, ver, epoch, crashes, th, attempt, net, conn, pipe,
                     ready, loaded, data, comm>>
      /\ DOMAIN resp' = DOMAIN resp
  BY DEF ServerUp, Collect, clientVars, httpVars, workerVars, Respond
<1>2. ClientTypes' /\ HttpTypes' /\ PipeTypes' /\ WorkerTypes'
  BY <1>1 DEF Types, ClientTypes, HttpTypes, PipeTypes, WorkerTypes
<1>3. ServerTypes'
  <2>1. CASE ServerUp(s)
    BY <1>1, <2>1 DEF ServerUp, Types, ServerTypes, Call
  <2>2. CASE Collect(s)
    <3>1. UNCHANGED up /\ DOMAIN busy' = Server /\ \A t \in Server : t # s => busy'[t] = busy[t]
      BY <2>2 DEF Collect, Types, ServerTypes
    <3>2. Call(s)' => /\ busy'[s].m = busy[s].m /\ busy'[s].next \in Worker
                     /\ DOMAIN busy'[s] = DOMAIN busy[s]
      <4>1. busy[s].next \in Worker
        BY <2>2 DEF Collect, Types, ServerTypes, Call
      <4>2. CASE busy[s].next < NumWorkers
        <5>1. busy[s].next + 1 \in Worker
          BY <4>1, <4>2, SyncConstants DEF Worker
        <5>2. PICK got, bad : busy' = [busy EXCEPT ![s] =
                 [busy[s] EXCEPT !.next = busy[s].next + 1, !.out = got, !.bad = bad]]
          BY <2>2, <4>2 DEF Collect
        <5>3. QED BY <5>1, <5>2 DEF Types, ServerTypes
      <4>3. CASE ~(busy[s].next < NumWorkers)
        <5>1. busy' = [busy EXCEPT ![s] = None]
          BY <2>2, <4>3 DEF Collect
        <5>2. QED BY <5>1 DEF Types, ServerTypes, Call
      <4>4. QED BY <4>2, <4>3
    <3>3. Call(s)
      BY <2>2 DEF Collect, Call
    <3>4. QED BY <1>1, <3>1, <3>2, <3>3 DEF Types, ServerTypes, Call
  <2>3. QED BY <2>1, <2>2
<1>4. QED BY <1>2, <1>3 DEF Types

(* The workers.                                                             *)

(* A worker takes its next command from the pipe.                           *)
Takes(s, w) ==
  /\ pipe[s][w] # << >> /\ pipe'[s][w] = Tail(pipe[s][w])
  /\ \A u \in Worker : u # w => pipe'[s][u] = pipe[s][u]
  /\ \A t \in Server : t # s => pipe'[t] = pipe[t]

LEMMA NextCommandLemma ==
  ASSUME Types, NEW s \in Server, NEW w \in Worker, pipe[s][w] # << >>, NextCommand(s, w),
         epoch' = epoch
  PROVE  Takes(s, w) /\ PipeTypes'
<1>1. pipe \in [Server -> [Worker -> Seq(Cmd)]] /\ pipe[s][w] \in Seq(Cmd)
  BY DEF Types, PipeTypes
<1>2. Tail(pipe[s][w]) \in Seq(Cmd)
  BY <1>1, TailFacts
<1>3. pipe' = [pipe EXCEPT ![s] = [pipe[s] EXCEPT ![w] = Tail(pipe[s][w])]]
  BY DEF NextCommand
<1>4. Takes(s, w) /\ pipe' \in [Server -> [Worker -> Seq(Cmd)]]
  BY <1>1, <1>2, <1>3 DEF Takes
<1>5. ASSUME NEW t \in Server, NEW u \in Worker, NEW i \in DOMAIN pipe'[t][u]
      PROVE  pipe'[t][u][i].epoch <= epoch
  <2>1. CASE t = s /\ u = w
    <3>1. i \in DOMAIN Tail(pipe[s][w]) /\ pipe'[s][w][i] = Tail(pipe[s][w])[i]
      BY <1>4, <1>5, <2>1 DEF Takes
    <3>2. i + 1 \in DOMAIN pipe[s][w] /\ pipe'[s][w][i] = pipe[s][w][i + 1]
      BY <1>1, <3>1, TailFacts
    <3>3. QED BY <2>1, <3>2 DEF Types, PipeTypes
  <2>2. CASE ~(t = s /\ u = w)
    BY <1>4, <1>5, <2>2 DEF Takes, Types, PipeTypes
  <2>3. QED BY <2>1, <2>2
<1>6. QED BY <1>4, <1>5 DEF PipeTypes

(* A worker that works has a command.                                       *)
LEMMA HasCommand ==
  ASSUME NEW s \in Server, NEW w \in Worker, pipe[s][w] \in Seq(Cmd), Receiving(s, w),
         Work(s, w), ~WorkerReady(s, w)
  PROVE  pipe[s][w] # << >>
<1>1. CASE LoadWeights(s, w)
  BY <1>1 DEF LoadWeights, Receiving, At
<1>2. CASE Infer(s, w) \/ ResetPrefixCache(s, w) \/ CloseCommunicator(s, w) \/ Raise(s, w)
  BY <1>2 DEF Infer, ResetPrefixCache, CloseCommunicator, Raise, Executing
<1>3. QED BY <1>1, <1>2 DEF Work

LEMMA TypesWork ==
  ASSUME Types, NEW s \in Server, NEW w \in Worker, Work(s, w), Receiving(s, w)
  PROVE  Types' /\ (WorkerReady(s, w) \/ Takes(s, w))
<1>1. /\ UNCHANGED <<phase, bucket, ver, epoch, crashes, th, attempt, net, conn, resp, up, busy>>
  BY DEF Work, WorkerReady, Infer, ResetPrefixCache, CloseCommunicator, LoadWeights, Raise,
     clientVars, httpVars
<1>2. ClientTypes' /\ HttpTypes' /\ ServerTypes'
  BY <1>1 DEF Types, ClientTypes, HttpTypes, ServerTypes, Call
<1>3. CASE WorkerReady(s, w)
  <2>1. UNCHANGED <<pipe, loaded, data, comm>> /\ ready' = [ready EXCEPT ![s][w] = TRUE]
    BY <1>3 DEF WorkerReady
  <2>2. PipeTypes' /\ WorkerTypes'
    BY <1>1, <2>1 DEF Types, PipeTypes, WorkerTypes
  <2>3. QED BY <1>2, <1>3, <2>2 DEF Types
<1>4. CASE ~WorkerReady(s, w)
  <2>1. UNCHANGED ready /\ NextCommand(s, w)
    BY <1>4 DEF Work, Infer, ResetPrefixCache, CloseCommunicator, LoadWeights, Raise, workerVars
  <2>2. pipe[s][w] \in Seq(Cmd)
    BY DEF Types, PipeTypes
  <2>3. pipe[s][w] # << >>
    BY <1>4, <2>2, HasCommand
  <2>4. PipeTypes' /\ Takes(s, w)
    BY <1>1, <2>1, <2>3, NextCommandLemma
  <2>5. WorkerTypes'
    <3>1. CASE LoadWeights(s, w)
      <4>1. data[s][w] \in [b : Bucket, v : Nat] /\ UNCHANGED comm
            /\ data' = [data EXCEPT ![s][w] = None]
        BY <3>1 DEF LoadWeights, Types, WorkerTypes
      <4>2. \/ loaded' = [loaded EXCEPT ![s][w][Head(pipe[s][w]).b] = data[s][w]]
            \/ loaded' = loaded
        BY <3>1 DEF LoadWeights
      <4>3. Head(pipe[s][w]).b \in Bucket
        <5>1. Head(pipe[s][w]) \in Cmd
          BY <2>2, <2>3, TailFacts
        <5>2. QED BY <5>1 DEF Cmd
      <4>4. loaded' \in [Server -> [Worker -> [Bucket -> [b : Bucket, v : Nat]]]]
        <5> DEFINE R == [b : Bucket, v : Nat]
                   x == [loaded[s][w] EXCEPT ![Head(pipe[s][w]).b] = data[s][w]]
                   y == [loaded[s] EXCEPT ![w] = x]
        <5>1. loaded \in [Server -> [Worker -> [Bucket -> R]]]
          BY DEF Types, WorkerTypes
        <5>2. x \in [Bucket -> R]
          BY <4>1, <4>3, <5>1
        <5>3. y \in [Worker -> [Bucket -> R]]
          BY <5>1, <5>2
        <5>4. loaded' = [loaded EXCEPT ![s] = y] \/ loaded' = loaded
          BY <4>2
        <5>5. QED BY <5>1, <5>3, <5>4
      <4>5. data' \in [Server -> [Worker -> {None} \cup [b : Bucket, v : Nat]]]
        BY <4>1 DEF Types, WorkerTypes
      <4>6. QED BY <1>1, <2>1, <4>1, <4>4, <4>5 DEF Types, WorkerTypes
    <3>2. CASE CloseCommunicator(s, w)
      <4>1. UNCHANGED <<loaded, data>> /\ comm' = [comm EXCEPT ![s][w] = 0]
        BY <3>2 DEF CloseCommunicator
      <4>2. comm' \in [Server -> [Worker -> Nat]]
        BY <4>1 DEF Types, WorkerTypes
      <4>3. \A t \in Server, u \in Worker : comm'[t][u] <= epoch
        BY <4>1 DEF Types, WorkerTypes, ClientTypes
      <4>4. QED BY <1>1, <2>1, <4>1, <4>2, <4>3 DEF Types, WorkerTypes
    <3>3. CASE Infer(s, w) \/ ResetPrefixCache(s, w) \/ Raise(s, w)
      <4>1. UNCHANGED <<loaded, data, comm>>
        BY <3>3 DEF Infer, ResetPrefixCache, Raise, workerVars
      <4>2. QED BY <1>1, <2>1, <4>1 DEF Types, WorkerTypes
    <3>4. QED BY <1>4, <3>1, <3>2, <3>3 DEF Work
  <2>6. QED BY <1>2, <2>4, <2>5 DEF Types
<1>5. QED BY <1>3, <1>4

(* The joint steps of a server's workers and the client.                    *)
LEMMA TypesJoint ==
  ASSUME Types, NEW s \in Server, Rendezvous(s) \/ Broadcast(s) PROVE Types'
<1>1. UNCHANGED <<phase, bucket, ver, epoch, crashes, attempt, net, conn, resp, up, busy,
                  ready, loaded>>
      /\ th' = [th EXCEPT ![s] = "done"]
  BY DEF Rendezvous, Broadcast, httpVars, serverVars
<1>2. ClientTypes' /\ HttpTypes' /\ ServerTypes'
  BY <1>1 DEF Types, ClientTypes, HttpTypes, ServerTypes, Call
<1>3. CASE Rendezvous(s)
  <2>1. /\ comm' = [comm EXCEPT ![s] = [w \in Worker |-> epoch]] /\ UNCHANGED data
        /\ pipe' = [pipe EXCEPT ![s] = [w \in Worker |-> Tail(pipe[s][w])]]
        /\ \A w \in Worker : pipe[s][w] # << >>
    BY <1>3 DEF Rendezvous, Executing
  <2>2. WorkerTypes'
    BY <1>1, <2>1 DEF Types, WorkerTypes, ClientTypes
  <2>3. \A w \in Worker : pipe[s][w] \in Seq(Cmd) /\ Tail(pipe[s][w]) \in Seq(Cmd)
    BY <2>1, TailFacts DEF Types, PipeTypes
  <2>4. pipe' \in [Server -> [Worker -> Seq(Cmd)]]
    BY <2>1, <2>3 DEF Types, PipeTypes
  <2>5. ASSUME NEW t \in Server, NEW u \in Worker, NEW i \in DOMAIN pipe'[t][u]
        PROVE  pipe'[t][u][i].epoch <= epoch
    <3>1. CASE t = s
      <4>1. pipe'[t][u] = Tail(pipe[s][u])
        BY <2>1, <3>1 DEF Types, PipeTypes
      <4>2. i + 1 \in DOMAIN pipe[s][u] /\ pipe'[t][u][i] = pipe[s][u][i + 1]
        <5>1. pipe[s][u] \in Seq(Cmd) /\ pipe[s][u] # << >>
          BY <2>1, <2>3
        <5>2. i \in DOMAIN Tail(pipe[s][u])
          BY <2>5, <4>1
        <5>3. QED BY <4>1, <5>1, <5>2, TailFacts
      <4>3. QED BY <4>2 DEF Types, PipeTypes
    <3>2. CASE t # s
      <4>1. pipe'[t] = pipe[t]
        BY <2>1, <3>2 DEF Types, PipeTypes
      <4>2. QED BY <2>5, <4>1 DEF Types, PipeTypes
    <3>3. QED BY <3>1, <3>2
  <2>6. QED BY <1>1, <1>2, <2>2, <2>4, <2>5 DEF Types, PipeTypes
<1>4. CASE Broadcast(s)
  <2>1. /\ data' = [data EXCEPT ![s] = [w \in Worker |-> [b |-> bucket, v |-> ver]]]
        /\ UNCHANGED <<pipe, comm>>
    BY <1>4 DEF Broadcast, serverVars
  <2>2. WorkerTypes'
    BY <1>1, <2>1 DEF Types, WorkerTypes, ClientTypes
  <2>3. PipeTypes'
    BY <1>1, <2>1 DEF Types, PipeTypes
  <2>4. QED BY <1>2, <2>2, <2>3 DEF Types
<1>5. QED BY <1>3, <1>4

-----------------------------------------------------------------------------
(* A server about which nothing changes.                                    *)
Same(s) ==
  /\ UNCHANGED <<phase, bucket, ver, epoch, crashes>>
  /\ th'[s] = th[s] /\ net'[s] = net[s] /\ conn'[s] = conn[s] /\ resp'[s] = resp[s]
  /\ busy'[s] = busy[s] /\ pipe'[s] = pipe[s] /\ data'[s] = data[s] /\ comm'[s] = comm[s]
  /\ loaded'[s] = loaded[s]

LEMMA RequestsFrame ==
  ASSUME NEW s \in Server, Requests(s), Same(s) PROVE Requests(s)'
<1>1. /\ Posted(s)' = Posted(s) /\ (Serving(s)' <=> Serving(s)) /\ (Call(s)' <=> Call(s))
      /\ (Responded(s)' <=> Responded(s)) /\ Op' = Op /\ (Over' <=> Over)
      /\ \A m : Matches(m)' <=> Matches(m)
  BY DEF Same, Posted, Serving, Call, Responded, Op, Over, Matches
<1>2. /\ \A w, i, op : At(s, w, i, op)' <=> At(s, w, i, op)
      /\ \A w, i : Fresh(s, w, i)' <=> Fresh(s, w, i)
  BY DEF Same, At, Fresh
<1>3. (Updating(s)' <=> Updating(s)) /\ \A op : Pending(s, op)' <=> Pending(s, op)
  BY <1>2 DEF Same, Updating, Pending
<1>4. One(s)' /\ Asked(s)'
  BY <1>1, <1>2, <1>3 DEF Requests, One, Asked, Same
<1>5. Connections(s)' /\ Answered(s)'
  BY <1>1 DEF Requests, Connections, Answered, Same
<1>6. Stale(s)' /\ \A w \in Worker : Received(s, w)'
  BY <1>2 DEF Requests, Stale, Received, Receiving, Same
<1>7. FirstTrainer(s)'
  BY <1>1, <1>2, <1>3 DEF Requests, FirstTrainer, Same
<1>8. QED BY <1>4, <1>5, <1>6, <1>7 DEF Requests

-----------------------------------------------------------------------------
(* Every step but a post and its handling leaves a server with fewer        *)
(* requests: sh tells which workers take a command from their pipe.         *)
Shift(s, sh) == \A w \in Worker : \A i \in DOMAIN pipe'[s][w] :
  /\ i \in Nat /\ i >= 1 /\ i + sh[w] \in DOMAIN pipe[s][w]
  /\ pipe'[s][w][i] = pipe[s][w][i + sh[w]]
  /\ Fresh(s, w, i)' => Fresh(s, w, i + sh[w])

Fewer(s) ==
  /\ net'[s] \subseteq net[s] /\ conn'[s] = conn[s] /\ epoch' = epoch
  /\ Call(s)' => Call(s) /\ busy'[s].m = busy[s].m
  /\ \E sh \in [Worker -> {0, 1}] : Shift(s, sh)

LEMMA FewerFacts ==
  ASSUME NEW s \in Server, Fewer(s)
  PROVE  /\ Posted(s)' \subseteq Posted(s)
         /\ Serving(s)' => Serving(s) /\ busy'[s].m = busy[s].m
         /\ Updating(s)' => Updating(s)
         /\ \A op : Pending(s, op)' => Pending(s, op)
<1>1. PICK sh \in [Worker -> {0, 1}] : Shift(s, sh)
  BY DEF Fewer
<1>2. Posted(s)' \subseteq Posted(s) /\ (Serving(s)' => Serving(s) /\ busy'[s].m = busy[s].m)
  BY DEF Fewer, Posted, Serving
<1>3. Updating(s)' => Updating(s)
  BY <1>1 DEF Shift, Updating
<1>4. ASSUME NEW op, Pending(s, op)' PROVE Pending(s, op)
  <2>1. CASE \E m \in net'[s] : m.op = op
    BY <2>1 DEF Fewer, Pending
  <2>2. CASE \E w \in Worker : \E i \in DOMAIN pipe'[s][w] : At(s, w, i, op)'
    BY <1>1, <2>2 DEF Shift, Pending, At
  <2>3. QED BY <1>4, <2>1, <2>2 DEF Pending
<1>5. QED BY <1>2, <1>3, <1>4

LEMMA FewerOne ==
  ASSUME NEW s \in Server, Fewer(s), One(s) PROVE One(s)'
<1>1. PICK sh \in [Worker -> {0, 1}] : Shift(s, sh)
  BY DEF Fewer
<1>2. ASSUME NEW w \in Worker, NEW i \in DOMAIN pipe'[s][w], NEW j \in DOMAIN pipe'[s][w],
             Fresh(s, w, i)', Fresh(s, w, j)'
      PROVE  i = j
  <2>1. i \in Nat /\ j \in Nat /\ sh[w] \in Nat
    BY <1>1 DEF Shift
  <2>2. i + sh[w] = j + sh[w]
    BY <1>1, <1>2 DEF Shift, One
  <2>3. QED BY <2>1, <2>2
<1>3. QED BY <1>2, FewerFacts DEF One

LEMMA FewerAsked ==
  ASSUME NEW s \in Server, Fewer(s), Asked(s), UNCHANGED <<phase, bucket, ver>>,
         \/ th'[s] \in {th[s], "err"}
         \/ /\ Posted(s)' = {} /\ ~Serving(s)'
            /\ th'[s] = "nccl" \/ ~Updating(s)' \/ phase # "update"
  PROVE  Asked(s)'
<1>1. PICK sh \in [Worker -> {0, 1}] : Shift(s, sh)
  BY DEF Fewer
<1>2. (Over' <=> Over) /\ UNCHANGED <<phase, bucket, ver>>
  BY DEF Over
<1>3. ASSUME ~Over, NEW w \in Worker, NEW i \in DOMAIN pipe'[s][w], Fresh(s, w, i)',
             NEW x, x = pipe'[s][w][i]
      PROVE  Matches(x) /\ th'[s] \in {"posting", "nccl", "err"}
  <2>1. /\ i + sh[w] \in DOMAIN pipe[s][w] /\ x = pipe[s][w][i + sh[w]]
        /\ Fresh(s, w, i + sh[w])
    BY <1>1, <1>3 DEF Shift
  <2>2. Matches(x) /\ th[s] \in {"posting", "nccl", "err"}
    BY <1>3, <2>1 DEF Asked
  <2>3. Updating(s)'
    BY <1>3 DEF Updating
  <2>4. x.op = "update"
    BY <1>3 DEF Fresh, At
  <2>5. phase = "update"
    BY <2>2, <2>4 DEF Matches
  <2>6. QED BY <2>2, <2>3, <2>5
<1>4. ASSUME ~Over, NEW m \in Posted(s)' PROVE Matches(m) /\ th'[s] \in {"posting", "err"}
  BY <1>4, FewerFacts DEF Asked
<1>5. ASSUME ~Over, Serving(s)'
      PROVE  Matches(busy[s].m) /\ busy'[s].m = busy[s].m /\ th'[s] \in {"posting", "err"}
  BY <1>5, FewerFacts DEF Asked
<1>6. QED BY <1>2, <1>3, <1>4, <1>5 DEF Asked, Matches

LEMMA FewerConnections ==
  ASSUME NEW s \in Server, Fewer(s), Connections(s),
         th'[s] = "posting" => th[s] = "posting" /\ phase' = phase /\ resp'[s] = resp[s]
  PROVE  Connections(s)'
<1>1. phase' = phase => Op' = Op
  BY DEF Op
<1>2. QED BY <1>1 DEF Fewer, Connections

LEMMA FewerAnswered ==
  ASSUME NEW s \in Server, Fewer(s), Answered(s), phase' = phase,
         Responded(s)' => Responded(s) /\ resp'[s] = resp[s]
  PROVE  Answered(s)'
BY FewerFacts DEF Answered

LEMMA FewerStale ==
  ASSUME NEW s \in Server, Fewer(s), Stale(s), epoch \in Nat, epoch >= 1,
         \A w \in Worker : comm'[s][w] \in {comm[s][w], 0}
  PROVE  Stale(s)'
<1>1. PICK sh \in [Worker -> {0, 1}] : Shift(s, sh)
  BY DEF Fewer
<1>2. ASSUME NEW w \in Worker, NEW i \in DOMAIN pipe'[s][w],
             At(s, w, i, "update")', pipe'[s][w][i].epoch # epoch'
      PROVE  /\ comm'[s][w] # epoch'
             /\ \A j \in DOMAIN pipe'[s][w] : j < i => ~At(s, w, j, "init")'
  <2>1. i + sh[w] \in DOMAIN pipe[s][w] /\ pipe'[s][w][i] = pipe[s][w][i + sh[w]]
    BY <1>1 DEF Shift
  <2>2. At(s, w, i + sh[w], "update") /\ pipe[s][w][i + sh[w]].epoch # epoch
    BY <1>2, <2>1 DEF At, Fewer
  <2>3. /\ comm[s][w] # epoch
        /\ \A j \in DOMAIN pipe[s][w] : j < i + sh[w] => ~At(s, w, j, "init")
    BY <2>1, <2>2 DEF Stale
  <2>4. ASSUME NEW j \in DOMAIN pipe'[s][w], j < i PROVE ~At(s, w, j, "init")'
    <3>1. /\ j + sh[w] \in DOMAIN pipe[s][w] /\ pipe'[s][w][j] = pipe[s][w][j + sh[w]]
          /\ j \in Nat /\ i \in Nat /\ sh[w] \in Nat
      BY <1>1 DEF Shift
    <3>2. j + sh[w] < i + sh[w]
      BY <2>4, <3>1
    <3>3. QED BY <2>3, <3>1, <3>2 DEF At
  <2>5. QED BY <2>3, <2>4 DEF Fewer
<1>3. QED BY <1>2 DEF Stale, Fewer

LEMMA FewerFirst ==
  ASSUME NEW s \in Server, Fewer(s), FirstTrainer(s), UNCHANGED <<crashes, phase>>,
         phase = "init" =>
           \/ th'[s] = th[s] /\ (Responded(s)' => Responded(s))
           \/ th'[s] = "err"
           \/ th'[s] = "nccl" /\ Responded(s)
           \/ th'[s] = "done" /\ (crashes = 0 => ~Pending(s, "init")')
  PROVE  FirstTrainer(s)'
<1>1. PICK sh \in [Worker -> {0, 1}] : Shift(s, sh)
  BY DEF Fewer
<1>2. SUFFICES ASSUME crashes = 0 \/ phase = "down" PROVE FirstTrainer(s)'
  BY DEF FirstTrainer
<1>3. /\ Call(s)' => busy'[s].m.epoch = epoch'
      /\ ~(Pending(s, "init")' /\ Pending(s, "update")')
      /\ phase' \in {"check", "preclose", "init"} => ~Pending(s, "update")'
      /\ phase' \in {"init", "done", "down"} \/ ~Pending(s, "init")'
      /\ phase' = "init" /\ th'[s] \in {"idle", "done"} => ~Pending(s, "init")'
  BY <1>2, FewerFacts DEF FirstTrainer, Fewer
<1>4. phase' = "init" /\ (th'[s] = "nccl" \/ Responded(s)') => \A m \in net'[s] : m.op # "init"
  BY <1>2 DEF FirstTrainer, Fewer, Responded
<1>5. \A m, n \in net'[s] : m.op = "init" /\ n.op = "init" => m = n
  BY <1>2 DEF FirstTrainer, Fewer
<1>6. ASSUME NEW m \in net'[s], m.op = "init", NEW w \in Worker, NEW i \in DOMAIN pipe'[s][w]
      PROVE  ~At(s, w, i, "init")'
  BY <1>1, <1>2, <1>6 DEF FirstTrainer, Fewer, Shift, At
<1>7. ASSUME NEW w \in Worker, NEW i \in DOMAIN pipe'[s][w], NEW j \in DOMAIN pipe'[s][w],
             At(s, w, i, "init")', At(s, w, j, "init")'
      PROVE  i = j
  <2>1. /\ i \in Nat /\ j \in Nat /\ sh[w] \in Nat
        /\ At(s, w, i + sh[w], "init") /\ At(s, w, j + sh[w], "init")
        /\ i + sh[w] \in DOMAIN pipe[s][w] /\ j + sh[w] \in DOMAIN pipe[s][w]
    BY <1>1, <1>7 DEF Shift, At
  <2>2. i + sh[w] = j + sh[w]
    BY <1>2, <2>1 DEF FirstTrainer
  <2>3. QED BY <2>1, <2>2
<1>8. QED BY <1>3, <1>4, <1>5, <1>6, <1>7 DEF FirstTrainer

LEMMA FewerStill ==
  ASSUME Types, NEW s \in Server, net'[s] \subseteq net[s], UNCHANGED epoch,
         conn'[s] = conn[s], pipe'[s] = pipe[s],
         Call(s)' => Call(s) /\ busy'[s].m = busy[s].m,
         \A w \in Worker : data'[s][w] = None => data[s][w] = None
  PROVE  Fewer(s)
<1> DEFINE sh == [w \in Worker |-> 0]
<1>1. ASSUME NEW w \in Worker, NEW i \in DOMAIN pipe'[s][w]
      PROVE  /\ i \in Nat /\ i >= 1 /\ i + sh[w] = i
             /\ i \in DOMAIN pipe[s][w] /\ pipe'[s][w][i] = pipe[s][w][i]
             /\ Fresh(s, w, i)' => Fresh(s, w, i)
  <2>1. pipe[s][w] \in Seq(Cmd) /\ i \in DOMAIN pipe[s][w]
    BY <1>1 DEF Types, PipeTypes
  <2>2. i \in Nat /\ i >= 1 /\ sh[w] = 0
    BY <2>1
  <2>3. QED BY <2>1, <2>2 DEF Fresh, At
<1>2. Shift(s, sh)
  BY <1>1 DEF Shift
<1>3. QED BY <1>2 DEF Fewer

(* When nothing of a server is outstanding.                                 *)
LEMMA Quiet ==
  ASSUME Types, NEW s \in Server, Asked(s), ~Over,
         phase \in {"check", "preclose", "init"} \/ th[s] \in {"idle", "done"}
  PROVE  Posted(s) = {} /\ ~Serving(s) /\ ~Updating(s)
<1>1. CASE th[s] \in {"idle", "done"}
  BY <1>1 DEF Asked, Updating
<1>2. CASE phase \in {"check", "preclose", "init"}
  <2>1. Posted(s) = {}
    BY <1>2 DEF Asked, Posted, Matches, Live
  <2>2. ~Serving(s)
    BY <1>2 DEF Asked, Serving, Matches, IsCall, Types, ServerTypes
  <2>3. ~Updating(s)
    BY <1>2 DEF Asked, Updating, Fresh, At, Matches
  <2>4. QED BY <2>1, <2>2, <2>3
<1>3. QED BY <1>1, <1>2

-----------------------------------------------------------------------------
(* The requests, step by step: the client.                                  *)

LEMMA ReceivedSame ==
  ASSUME NEW s \in Server, Requests(s), pipe'[s] = pipe[s], data'[s] = data[s],
         loaded'[s] = loaded[s]
  PROVE  \A w \in Worker : Received(s, w)'
BY DEF Requests, Received, Receiving, At

LEMMA RequestsCheckServer ==
  ASSUME SInv, CheckServer, NEW s \in Server PROVE Requests(s)'
<1>1. /\ UNCHANGED <<bucket, ver, epoch, th, net, conn, resp, busy, pipe, loaded, data, comm, crashes>>
      /\ phase = "check" /\ phase' = "preclose" /\ th[s] = "idle"
  BY DEF CheckServer, httpVars, serverVars, workerVars, SInv, Idle
<1>2. Types /\ Requests(s) /\ One(s) /\ Asked(s) /\ Connections(s) /\ Stale(s) /\ FirstTrainer(s)
  BY DEF SInv, Requests
<1>3. Fewer(s)
  BY <1>1, <1>2, FewerStill DEF Call
<1>4. Posted(s) = {} /\ ~Serving(s) /\ ~Updating(s)
  BY <1>1, <1>2, Quiet DEF Over
<1>5. Posted(s)' = {} /\ ~Serving(s)' /\ ~Updating(s)'
  BY <1>3, <1>4, FewerFacts
<1>6. One(s)' /\ Asked(s)'
  BY <1>2, <1>3, <1>5, FewerOne DEF Asked, Updating
<1>7. Connections(s)' /\ Answered(s)'
  BY <1>1, <1>2, <1>3, FewerConnections DEF Answered, Responded
<1>8. Stale(s)'
  BY <1>1, <1>2, <1>3, FewerStale DEF Types, ClientTypes
<1>9. FirstTrainer(s)'
  <2>1. \A op : Pending(s, op)' => Pending(s, op)
    BY <1>3, FewerFacts
  <2>2. \A w, i, op : At(s, w, i, op)' <=> At(s, w, i, op)
    BY <1>1 DEF At
  <2>3. QED BY <1>1, <1>2, <2>1, <2>2 DEF FirstTrainer, Call, Responded
<1>10. QED BY <1>1, <1>2, <1>6, <1>7, <1>8, <1>9, ReceivedSame DEF Requests

(* What a step of Join does to the phase.                                   *)
LEMMA JoinPhase ==
  ASSUME Types, Join, NEW s \in Server
  PROVE  \/ phase' \in {"close", "done"} /\ (phase = "init" => phase' = "done")
         \/ phase = "preclose" /\ phase' = "init"
         \/ phase = "init" /\ phase' = "update" /\ th[s] = "done"
         \/ phase = "update" /\ phase' \in {"update", "reset"} /\ th[s] = "done"
         \/ phase = "reset" /\ phase' = "infer" /\ th[s] = "done"
         \/ phase = "infer" /\ phase' \in {"update", "close"} /\ th[s] = "done"
<1>1. phase \in {"preclose", "init", "update", "reset", "infer", "close"}
  BY DEF Join, Types, ClientTypes, Phase
<1>2. CASE \E t \in Server : th[t] = "err" /\ Op # "close"
  BY <1>2 DEF Join
<1>3. CASE ~\E t \in Server : th[t] = "err" /\ Op # "close"
  <2>1. Advance
    BY <1>3 DEF Join
  <2>2. CASE phase \in {"preclose", "close"}
    BY <2>1, <2>2 DEF Advance
  <2>3. CASE phase \notin {"preclose", "close"}
    <3>1. Op # "close"
      BY <2>3 DEF Op
    <3>2. th[s] = "done"
      BY <1>3, <3>1 DEF Join, AllFinished, Finished
    <3>3. CASE phase = "update"
      BY <2>1, <3>2, <3>3 DEF Advance, AfterBucket
    <3>4. CASE phase = "init"
      BY <2>1, <3>2, <3>4 DEF Advance
    <3>5. CASE phase = "reset"
      BY <2>1, <3>2, <3>5 DEF Advance
    <3>6. CASE phase = "infer"
      BY <2>1, <3>2, <3>6 DEF Advance
    <3>7. QED BY <1>1, <2>3, <3>3, <3>4, <3>5, <3>6
  <2>4. QED BY <2>2, <2>3
<1>4. QED BY <1>2, <1>3

LEMMA RequestsJoin ==
  ASSUME SInv, Join, NEW s \in Server PROVE Requests(s)'
<1>1. /\ UNCHANGED <<epoch, net, conn, resp, busy, pipe, loaded, data, comm, crashes>>
      /\ th'[s] = "idle" /\ phase \notin {"check", "done", "down"}
  BY DEF Join, httpVars, serverVars, workerVars
<1>2. Types /\ Requests(s) /\ One(s) /\ Asked(s) /\ Connections(s) /\ Stale(s) /\ FirstTrainer(s)
  BY DEF SInv, Requests
<1>3. Fewer(s)
  BY <1>1, <1>2, FewerStill DEF Call
<1>4. One(s)' /\ Connections(s)' /\ Answered(s)'
  BY <1>1, <1>2, <1>3, FewerOne, FewerConnections DEF Answered, Responded
<1>5. Asked(s)'
  <2>1. CASE Over'
    BY <2>1 DEF Asked
  <2>2. CASE ~Over'
    <3>1. ~Over /\ (phase = "preclose" \/ th[s] = "done")
      BY <1>1, <1>2, <2>2, JoinPhase DEF Over
    <3>2. Posted(s) = {} /\ ~Serving(s) /\ ~Updating(s)
      BY <1>2, <3>1, Quiet
    <3>3. QED BY <1>3, <3>2, FewerFacts DEF Asked, Updating
  <2>3. QED BY <2>1, <2>2
<1>6. Stale(s)'
  BY <1>1, <1>2, <1>3, FewerStale DEF Types, ClientTypes
<1>7. FirstTrainer(s)'
  <2>1. \A op : Pending(s, op)' => Pending(s, op)
    BY <1>3, FewerFacts
  <2>2. \A w, i, op : At(s, w, i, op)' <=> At(s, w, i, op)
    BY <1>1 DEF At
  <2>3. SUFFICES ASSUME crashes = 0 PROVE FirstTrainer(s)'
    BY <1>1, <1>2, JoinPhase DEF FirstTrainer
  <2>4. phase' \in {"check", "preclose", "init"} => phase = "preclose"
    BY <1>2, JoinPhase
  <2>5. phase' \in {"init", "done", "down"} \/ ~Pending(s, "init")
    BY <1>1, <1>2, <2>3, JoinPhase DEF FirstTrainer
  <2>6. phase' = "init" => ~Pending(s, "init")
    BY <1>2, <2>3, <2>4 DEF FirstTrainer
  <2>7. QED BY <1>1, <1>2, <2>1, <2>2, <2>3, <2>4, <2>5, <2>6 DEF FirstTrainer, Call, Responded
<1>8. QED BY <1>1, <1>2, <1>4, <1>5, <1>6, <1>7, ReceivedSame DEF Requests

LEMMA RequestsPost ==
  ASSUME SInv, NEW s \in Server, Post(s) PROVE Requests(s)'
<1> DEFINE new == [conn |-> conn[s] + 1, op |-> Op, b |-> bucket, v |-> ver, epoch |-> epoch,
                   xs |-> ServerChunk(s)]
<1>1. /\ UNCHANGED <<phase, bucket, ver, epoch, busy, pipe, loaded, data, comm, crashes>>
      /\ phase \notin {"check", "done", "down"} /\ th[s] = "idle"
  BY DEF Post, serverVars, workerVars
<1>2. /\ Types /\ Requests(s) /\ One(s) /\ Asked(s) /\ Connections(s) /\ Answered(s)
      /\ Stale(s) /\ FirstTrainer(s)
  BY DEF SInv, Requests
<1>3. /\ th'[s] = "posting" /\ conn'[s] = conn[s] + 1 /\ resp'[s] = None
      /\ net' = [net EXCEPT ![s] = net[s] \cup {new}]
  BY DEF Post, SInv, Types, ClientTypes, HttpTypes
<1>4. net'[s] = net[s] \cup {new}
  BY <1>2, <1>3 DEF Types, HttpTypes
<1>5. PICK m : m = new
  OBVIOUS
<1>6. m.op = Op /\ m.b = bucket /\ m.v = ver /\ m.epoch = epoch /\ m.conn = conn[s] + 1
  BY <1>5
<1>7. net'[s] = net[s] \cup {m} /\ Op' = Op
  BY <1>1, <1>4, <1>5 DEF Op
<1>8. /\ (Call(s)' <=> Call(s)) /\ (Serving(s)' <=> Serving(s)) /\ (Updating(s)' <=> Updating(s))
      /\ \A w, i, op : At(s, w, i, op)' <=> At(s, w, i, op)
      /\ \A w, i : Fresh(s, w, i)' <=> Fresh(s, w, i)
      /\ (Over' <=> Over) /\ ~Responded(s)'
  BY <1>1, <1>3 DEF Call, Serving, Updating, At, Fresh, Over, Responded
<1>9. \/ Op \notin Live /\ Posted(s)' = Posted(s)
      \/ /\ Op = phase /\ phase \in Live /\ ~Over /\ Posted(s)' = {m}
         /\ Posted(s) = {} /\ ~Serving(s) /\ ~Updating(s)
  <2>1. CASE Op \notin Live
    <3>1. Posted(s)' = Posted(s)
      BY <1>1, <1>6, <1>7, <2>1 DEF Posted
    <3>2. QED BY <2>1, <3>1
  <2>2. CASE Op \in Live
    <3>1. Op = phase /\ phase \in Live /\ ~Over
      BY <2>2 DEF Op, Live, Over
    <3>2. Posted(s) = {} /\ ~Serving(s) /\ ~Updating(s)
      BY <1>1, <1>2, <3>1, Quiet
    <3>3. Posted(s)' = {m}
      BY <1>1, <1>6, <1>7, <2>2, <3>2 DEF Posted
    <3>4. QED BY <3>1, <3>2, <3>3
  <2>3. QED BY <2>1, <2>2
<1>10. One(s)'
  BY <1>1, <1>2, <1>8, <1>9 DEF One
<1>11. Asked(s)'
  <2>1. SUFFICES ASSUME ~Over PROVE Asked(s)'
    BY <1>8 DEF Asked
  <2>2. Posted(s) = {} /\ ~Serving(s) /\ ~Updating(s)
    BY <1>1, <1>2, <2>1, Quiet
  <2>3. \A n \in Posted(s)' : n = m /\ Op = phase
    BY <1>9, <2>2
  <2>4. QED BY <1>1, <1>3, <1>6, <1>8, <2>2, <2>3 DEF Asked, Matches, Updating
<1>12. Connections(s)'
  <2>1. \A n \in net[s] : n.conn \in Nat /\ n.conn <= conn[s] /\ n.conn # conn[s] + 1
    BY <1>2 DEF Types, HttpTypes, Message
  <2>2. Call(s) => busy[s].m.conn \in Nat /\ busy[s].m.conn <= conn[s]
                   /\ busy[s].m.conn # conn[s] + 1 /\ busy[s].m.conn <= conn[s] + 1
    <3>1. ASSUME Call(s) PROVE busy[s].m.conn \in Nat /\ busy[s].m.conn <= conn[s] /\ conn[s] \in Nat
      BY <1>2, <3>1 DEF Connections, Types, HttpTypes, ServerTypes, Message
    <3>2. QED BY <3>1
  <2>3. \A n, o \in net'[s] : n.conn = o.conn => n = o
    BY <1>2, <1>6, <1>7, <2>1 DEF Connections
  <2>4. Call(s) => \A n \in net'[s] : n.conn # busy[s].m.conn
    BY <1>2, <1>6, <1>7, <2>2 DEF Connections
  <2>5. \A n \in net'[s] : n.conn = conn'[s] => n.op = Op' /\ n.epoch = epoch' /\ resp'[s] = None
    BY <1>1, <1>3, <1>6, <1>7, <2>1
  <2>6. QED BY <1>1, <1>3, <1>8, <2>2, <2>3, <2>4, <2>5 DEF Connections
<1>13. Answered(s)'
  BY <1>8 DEF Answered
<1>14. Stale(s)'
  BY <1>1, <1>2, <1>6, <1>7, <1>8 DEF Stale
<1>15. FirstTrainer(s)'
  <2>1. SUFFICES ASSUME crashes = 0 PROVE FirstTrainer(s)'
    BY <1>1 DEF FirstTrainer
  <2>2. \A op : Pending(s, op)' => Pending(s, op) \/ op = Op
    BY <1>1, <1>6, <1>7, <1>8 DEF Pending
  <2>3. phase = "init" => ~Pending(s, "init") /\ ~Pending(s, "update")
    BY <1>1, <1>2, <2>1 DEF FirstTrainer
  <2>4. /\ Op = "init" <=> phase = "init"
        /\ Op = "update" <=> phase = "update"
    BY DEF Op
  <2>5. ~(Pending(s, "init")' /\ Pending(s, "update")')
    BY <1>1, <1>2, <2>1, <2>2, <2>3, <2>4 DEF FirstTrainer
  <2>6. phase' \in {"check", "preclose", "init"} => ~Pending(s, "update")'
    BY <1>1, <1>2, <2>1, <2>2, <2>4 DEF FirstTrainer
  <2>7. phase' \in {"init", "done", "down"} \/ ~Pending(s, "init")'
    BY <1>1, <1>2, <2>1, <2>2, <2>4 DEF FirstTrainer
  <2>8. CASE phase = "init"
    <3>1. \A n \in net'[s] : n.op = "init" => n = m
      BY <1>7, <2>3, <2>8 DEF Pending
    <3>2. \A w \in Worker : \A i \in DOMAIN pipe'[s][w] : ~At(s, w, i, "init")'
      BY <1>1, <1>8, <2>3, <2>8 DEF Pending
    <3>3. QED BY <1>1, <1>2, <1>3, <1>8, <2>1, <2>5, <2>6, <2>7, <3>1, <3>2 DEF FirstTrainer
  <2>9. CASE phase # "init"
    <3>1. \A n \in net'[s] : n.op = "init" => n \in net[s]
      BY <1>6, <1>7, <2>4, <2>9
    <3>2. QED BY <1>1, <1>2, <1>8, <2>1, <2>5, <2>6, <2>7, <2>9, <3>1 DEF FirstTrainer
  <2>10. QED BY <2>8, <2>9
<1>16. QED BY <1>1, <1>2, <1>10, <1>11, <1>12, <1>13, <1>14, <1>15, ReceivedSame DEF Requests

(* A thread of the client goes on after its request.                        *)
LEMMA RequestsResponse ==
  ASSUME SInv, NoUpdateRetry, NEW s \in Server, Response(s) \/ NoResponse(s) \/ NoRendezvous(s)
  PROVE  Requests(s)'
<1>1. /\ UNCHANGED <<phase, bucket, ver, epoch, conn, resp, busy, pipe, loaded, data, comm, crashes>>
      /\ net'[s] \subseteq net[s]
  BY DEF SInv, Types, HttpTypes, Response, NoResponse, NoRendezvous, httpVars, serverVars, workerVars
<1>2. /\ Types /\ Requests(s) /\ One(s) /\ Asked(s) /\ Connections(s) /\ Answered(s)
      /\ Stale(s) /\ FirstTrainer(s)
  BY DEF SInv, Requests
<1>3. Fewer(s)
  BY <1>1, <1>2, FewerStill DEF Call
<1>4. \/ th'[s] = "err"
      \/ th'[s] = "nccl" /\ Op \in {"update", "init"} /\ Responded(s)
      \/ th'[s] = "done" /\ Op \notin {"update", "init"} /\ Responded(s)
  <2>1. DOMAIN th = Server
    BY <1>2 DEF Types, ClientTypes
  <2>2. CASE NoRendezvous(s)
    BY <2>1, <2>2 DEF NoRendezvous
  <2>3. CASE Response(s) /\ resp[s].ok
    BY <2>1, <2>3 DEF Response, Responded
  <2>4. CASE AttemptFailed(s) /\ (NoResponse(s) \/ (Response(s) /\ ~resp[s].ok))
    <3>1. ASSUME attempt[s] < RetryLimit PROVE FALSE
      <4>1. attempt[s] \in Nat /\ attempt[s] >= 1
        BY <1>2 DEF Types, ClientTypes
      <4>2. Op = "update" /\ Flattened /\ RequestRetries # 1
        BY <3>1, <4>1 DEF RetryLimit
      <4>3. phase = "update"
        BY <4>2 DEF Op
      <4>4. CASE NoResponse(s)
        BY <4>2, <4>4 DEF NoResponse, NoUpdateRetry
      <4>5. CASE Response(s) /\ ~resp[s].ok
        BY <1>2, <4>3, <4>5 DEF Response, Answered, Responded, Live
      <4>6. QED BY <2>4, <4>4, <4>5
    <3>2. QED BY <2>1, <2>4, <3>1 DEF AttemptFailed
  <2>5. QED BY <2>2, <2>3, <2>4 DEF Response, NoResponse
<1>5. Asked(s)'
  <2>1. CASE Over
    BY <1>1, <2>1 DEF Asked, Over
  <2>2. CASE ~Over /\ th'[s] = "err"
    BY <1>1, <1>2, <1>3, <2>2, FewerAsked
  <2>3. CASE ~Over /\ Responded(s) /\ th'[s] # "err"
    <3>1. Posted(s) = {} /\ ~Serving(s)
      <4>1. CASE phase \in Live
        BY <1>2, <2>3, <4>1 DEF Answered
      <4>2. CASE phase \notin Live
        <5>1. phase \in {"check", "preclose", "init"}
          BY <1>2, <2>3, <4>2 DEF Types, ClientTypes, Phase, Live, Over
        <5>2. QED BY <1>2, <2>3, <5>1, Quiet
      <4>3. QED BY <4>1, <4>2
    <3>2. th'[s] = "nccl" \/ phase # "update"
      BY <1>4, <2>3 DEF Op
    <3>3. Posted(s)' = {} /\ ~Serving(s)'
      BY <1>3, <3>1, FewerFacts
    <3>4. QED BY <1>1, <1>2, <1>3, <3>2, <3>3, FewerAsked
  <2>4. QED BY <1>4, <2>1, <2>2, <2>3
<1>6. One(s)' /\ Connections(s)' /\ Answered(s)'
  BY <1>1, <1>2, <1>3, <1>4, FewerOne, FewerConnections, FewerAnswered DEF Responded
<1>7. Stale(s)'
  BY <1>1, <1>2, <1>3, FewerStale DEF Types, ClientTypes
<1>8. FirstTrainer(s)'
  <2>1. phase = "init" => Op = "init"
    BY DEF Op
  <2>2. QED BY <1>1, <1>2, <1>3, <1>4, <2>1, FewerFirst
<1>9. QED BY <1>1, <1>2, <1>5, <1>6, <1>7, <1>8, ReceivedSame DEF Requests

(* The trainer is killed, and started again.                                *)
LEMMA RequestsCrash ==
  ASSUME SInv, Crash, MaxCrashes <= 1, NEW s \in Server PROVE Requests(s)' /\ crashes' = 1
<1>1. /\ UNCHANGED <<bucket, ver, epoch, net, conn, busy, pipe, loaded, data, comm>>
      /\ th'[s] = "idle" /\ phase' = "down" /\ phase # "down"
      /\ crashes' = crashes + 1 /\ crashes < MaxCrashes
  BY DEF Crash, serverVars, workerVars
<1>2. Types /\ Requests(s) /\ One(s) /\ Connections(s) /\ Stale(s) /\ FirstTrainer(s)
  BY DEF SInv, Requests
<1>3. crashes = 0 /\ crashes' = 1
  <2>1. crashes \in Nat /\ MaxCrashes \in Nat
    BY <1>2, SyncConstants DEF Types, ClientTypes
  <2>2. QED BY <1>1, <2>1
<1>4. Fewer(s)
  BY <1>1, <1>2, FewerStill DEF Call
<1>5. One(s)' /\ Connections(s)' /\ Answered(s)' /\ Asked(s)'
  BY <1>1, <1>2, <1>4, FewerOne, FewerConnections DEF Answered, Responded, Asked, Over
<1>6. Stale(s)'
  BY <1>1, <1>2, <1>4, FewerStale DEF Types, ClientTypes
<1>7. FirstTrainer(s)'
  <2>1. \A op : Pending(s, op)' => Pending(s, op)
    BY <1>4, FewerFacts
  <2>2. \A w, i, op : At(s, w, i, op)' <=> At(s, w, i, op)
    BY <1>1 DEF At
  <2>3. QED BY <1>1, <1>2, <1>3, <2>1, <2>2 DEF FirstTrainer, Call
<1>8. QED BY <1>1, <1>2, <1>3, <1>5, <1>6, <1>7, ReceivedSame DEF Requests

LEMMA RequestsRestart ==
  ASSUME SInv, Restart, NEW s \in Server PROVE Requests(s)'
<1>1. /\ UNCHANGED <<bucket, ver, th, net, conn, resp, busy, pipe, loaded, data, comm, crashes>>
      /\ phase = "down" /\ phase' = "check" /\ epoch' = epoch + 1
      /\ th[s] = "idle" /\ crashes = 1 /\ (net[s] = {} \/ busy[s] # None)
  BY DEF Restart, httpVars, serverVars, workerVars, SInv, Idle
<1>2. Types /\ Requests(s) /\ One(s) /\ Connections(s) /\ Stale(s) /\ FirstTrainer(s)
  BY DEF SInv, Requests
<1>3. epoch \in Nat /\ \A n \in Nat : n <= epoch => n # epoch'
  BY <1>1, <1>2 DEF Types, ClientTypes
<1>4. \A m \in net[s] : m.op \notin Live
  <2>1. Call(s) => Serving(s)
    BY <1>1, <1>2 DEF FirstTrainer, Serving
  <2>2. Posted(s) = {}
    BY <1>1, <1>2, <2>1 DEF One, Posted, Call
  <2>3. QED BY <1>2, <2>2 DEF Posted, Stale
<1>5. Posted(s)' = {}
  BY <1>1, <1>4 DEF Posted
<1>6. ~Serving(s)'
  BY <1>1, <1>2, <1>3 DEF Serving, Call, Types, ServerTypes, Message
<1>7. ASSUME NEW w \in Worker, NEW i \in DOMAIN pipe[s][w]
      PROVE  pipe[s][w][i].epoch # epoch'
  <2>1. pipe[s][w] \in Seq(Cmd) /\ pipe[s][w][i].epoch <= epoch
    BY <1>2 DEF Types, PipeTypes
  <2>2. pipe[s][w][i] \in Cmd
    BY <2>1
  <2>3. QED BY <1>3, <2>1, <2>2 DEF Cmd
<1>8. \A w \in Worker : \A i \in DOMAIN pipe'[s][w] : ~Fresh(s, w, i)'
  BY <1>1, <1>7 DEF Fresh
<1>9. One(s)' /\ Asked(s)'
  BY <1>5, <1>6, <1>8 DEF One, Asked, Updating
<1>10. Connections(s)' /\ Answered(s)' /\ FirstTrainer(s)'
  BY <1>1, <1>2 DEF Connections, Answered, Responded, FirstTrainer, Call
<1>11. Stale(s)'
  <2>1. ASSUME NEW w \in Worker, NEW i \in DOMAIN pipe[s][w], At(s, w, i, "update"),
               NEW j \in DOMAIN pipe[s][w]
        PROVE  ~At(s, w, j, "init")
    BY <1>1, <1>2, <2>1 DEF FirstTrainer, Pending
  <2>2. \A w \in Worker : comm[s][w] # epoch'
    BY <1>2, <1>3 DEF Types, WorkerTypes
  <2>3. \A w, i, op : At(s, w, i, op)' <=> At(s, w, i, op)
    BY <1>1 DEF At
  <2>4. QED BY <1>1, <1>4, <2>1, <2>2, <2>3 DEF Stale
<1>12. QED BY <1>1, <1>2, <1>9, <1>10, <1>11, ReceivedSame DEF Requests

-----------------------------------------------------------------------------
(* The requests, step by step: the servers.                                 *)

LEMMA RequestsServerUp ==
  ASSUME SInv, NEW s \in Server, ServerUp(s) PROVE Requests(s)'
<1>1. Same(s)
  BY DEF ServerUp, Same, clientVars, httpVars, workerVars
<1>2. QED BY <1>1, RequestsFrame DEF SInv

LEMMA CollectStep ==
  ASSUME Types, NEW s \in Server, Collect(s)
  PROVE  /\ Call(s) /\ (Call(s)' => busy'[s].m = busy[s].m)
         /\ \/ resp'[s] = resp[s]
            \/ ~Call(s)' /\ th[s] = "posting" /\ conn[s] = busy[s].m.conn
<1>1. Call(s) /\ DOMAIN resp = Server /\ DOMAIN busy = Server
  BY DEF Collect, Call, Types, HttpTypes, ServerTypes
<1>2. CASE busy[s].next < NumWorkers
  <2>1. PICK got, bad : busy' = [busy EXCEPT ![s] =
           [busy[s] EXCEPT !.next = busy[s].next + 1, !.out = got, !.bad = bad]]
    BY <1>2 DEF Collect
  <2>2. busy'[s].m = busy[s].m
    BY <1>1, <2>1
  <2>3. resp' = resp
    BY <1>2 DEF Collect
  <2>4. QED BY <1>1, <2>2, <2>3
<1>3. CASE ~(busy[s].next < NumWorkers)
  <2>1. busy'[s] = None
    BY <1>1, <1>3 DEF Collect
  <2>2. PICK r : Respond(s, busy[s].m.conn, r)
    BY <1>3 DEF Collect
  <2>3. resp'[s] = resp[s] \/ (th[s] = "posting" /\ conn[s] = busy[s].m.conn)
    BY <1>1, <2>2 DEF Respond
  <2>4. QED BY <1>1, <2>1, <2>3 DEF Call
<1>4. QED BY <1>2, <1>3

LEMMA RequestsCollect ==
  ASSUME SInv, NEW s \in Server, Collect(s) PROVE Requests(s)'
<1>1. UNCHANGED <<phase, bucket, ver, epoch, th, conn, net, pipe, loaded, data, comm, crashes>>
  BY DEF Collect, clientVars, workerVars
<1>2. /\ Types /\ Requests(s) /\ One(s) /\ Asked(s) /\ Connections(s) /\ Answered(s)
      /\ Stale(s) /\ FirstTrainer(s)
  BY DEF SInv, Requests
<1>3. /\ Call(s) /\ (Call(s)' => busy'[s].m = busy[s].m)
      /\ \/ resp'[s] = resp[s]
         \/ ~Call(s)' /\ th[s] = "posting" /\ conn[s] = busy[s].m.conn
  BY <1>2, CollectStep
<1>4. Fewer(s)
  BY <1>1, <1>2, <1>3, FewerStill
<1>5. One(s)' /\ Asked(s)'
  BY <1>1, <1>2, <1>4, FewerOne, FewerAsked
<1>6. Stale(s)'
  BY <1>1, <1>2, <1>4, FewerStale DEF Types, ClientTypes
<1>7. Connections(s)' /\ Answered(s)' /\ FirstTrainer(s)'
  <2>1. CASE resp'[s] = resp[s]
    BY <1>1, <1>2, <1>4, <2>1, FewerConnections, FewerAnswered, FewerFirst DEF Responded
  <2>2. CASE ~Call(s)' /\ th[s] = "posting" /\ conn[s] = busy[s].m.conn
    <3>1. busy[s].m.op = Op /\ busy[s].m.epoch = epoch /\ IsCall(busy[s].m.op)
      BY <1>2, <1>3, <2>2 DEF Connections, Types, ServerTypes
    <3>2. Serving(s) /\ Posted(s) = {}
      BY <1>2, <1>3, <3>1 DEF Serving, One
    <3>3. phase \notin {"init", "update"}
      BY <3>1 DEF Op, IsCall
    <3>4. Connections(s)'
      BY <1>1, <1>2, <1>3, <2>2 DEF Connections, Op
    <3>5. Answered(s)'
      BY <1>1, <1>4, <2>2, <3>2, <3>3, FewerFacts DEF Answered, Serving
    <3>6. FirstTrainer(s)'
      BY <1>1, <1>2, <1>4, <3>3, FewerFirst
    <3>7. QED BY <3>4, <3>5, <3>6
  <2>3. QED BY <1>3, <2>1, <2>2
<1>8. QED BY <1>1, <1>2, <1>5, <1>6, <1>7, ReceivedSame DEF Requests

(* The request of a handler, the commands it appends to the pipes.          *)
LEMMA HandleStep ==
  ASSUME Types, NEW s \in Server, NEW m \in net[s], Handle(s, m)
  PROVE  /\ ~Call(s) /\ net'[s] = net[s] \ {m}
         /\ UNCHANGED <<phase, bucket, ver, epoch, th, conn, loaded, data, comm, crashes>>
         /\ IF IsCall(m.op)
              THEN Call(s)' /\ busy'[s].m = m /\ resp'[s] = resp[s]
              ELSE /\ busy'[s] = busy[s]
                   /\ IF th[s] = "posting" /\ conn[s] = m.conn
                        THEN resp'[s] = Ok(<< >>) ELSE resp'[s] = resp[s]
         /\ \A w \in Worker :
              /\ \A i \in DOMAIN pipe[s][w] :
                   i \in DOMAIN pipe'[s][w] /\ pipe'[s][w][i] = pipe[s][w][i]
              /\ \A i \in DOMAIN pipe'[s][w] : i \notin DOMAIN pipe[s][w] =>
                   /\ pipe'[s][w][i].op = m.op /\ pipe'[s][w][i].epoch = m.epoch
                   /\ pipe'[s][w][i].b = m.b /\ pipe'[s][w][i].v = m.v
              /\ \A i, j \in DOMAIN pipe'[s][w] :
                   i \notin DOMAIN pipe[s][w] /\ j \notin DOMAIN pipe[s][w] => i = j
              /\ \A i \in DOMAIN pipe[s][w], j \in DOMAIN pipe'[s][w] :
                   j \notin DOMAIN pipe[s][w] => ~(j < i)
<1>1. /\ ~Call(s) /\ net'[s] = net[s] \ {m}
      /\ UNCHANGED <<phase, bucket, ver, epoch, th, conn, loaded, data, comm, crashes>>
  BY DEF Handle, Call, clientVars, workerVars, Types, HttpTypes
<1>2. IF IsCall(m.op)
        THEN Call(s)' /\ busy'[s].m = m /\ resp'[s] = resp[s]
        ELSE /\ busy'[s] = busy[s]
             /\ IF th[s] = "posting" /\ conn[s] = m.conn
                  THEN resp'[s] = Ok(<< >>) ELSE resp'[s] = resp[s]
  <2>1. DOMAIN busy = Server /\ DOMAIN resp = Server
    BY DEF Types, HttpTypes, ServerTypes
  <2>2. CASE IsCall(m.op)
    <3>1. busy' = [busy EXCEPT ![s] = [m |-> m, next |-> 1, out |-> << >>, bad |-> FALSE]]
          /\ resp' = resp
      BY <2>2 DEF Handle
    <3>2. QED BY <2>1, <2>2, <3>1, Something DEF Call
  <2>3. CASE ~IsCall(m.op)
    <3>1. busy' = busy /\ Respond(s, m.conn, Ok(<< >>))
      BY <2>3 DEF Handle
    <3>2. QED BY <2>1, <2>3, <3>1 DEF Respond
  <2>4. QED BY <2>2, <2>3
<1>3. ASSUME NEW w \in Worker
      PROVE  /\ \A i \in DOMAIN pipe[s][w] :
                  i \in DOMAIN pipe'[s][w] /\ pipe'[s][w][i] = pipe[s][w][i]
             /\ \A i \in DOMAIN pipe'[s][w] : i \notin DOMAIN pipe[s][w] =>
                  /\ pipe'[s][w][i].op = m.op /\ pipe'[s][w][i].epoch = m.epoch
                  /\ pipe'[s][w][i].b = m.b /\ pipe'[s][w][i].v = m.v
             /\ \A i, j \in DOMAIN pipe'[s][w] :
                  i \notin DOMAIN pipe[s][w] /\ j \notin DOMAIN pipe[s][w] => i = j
             /\ \A i \in DOMAIN pipe[s][w], j \in DOMAIN pipe'[s][w] :
                  j \notin DOMAIN pipe[s][w] => ~(j < i)
  <2>1. m \in Message /\ pipe[s][w] \in Seq(Cmd)
    BY DEF Types, HttpTypes, PipeTypes
  <2>2. pipe'[s][w] = Append(pipe[s][w], Command(m, w))
    BY DEF Handle, Types, PipeTypes
  <2>3. PICK e \in Cmd : /\ e = Command(m, w) /\ e.op = m.op /\ e.b = m.b /\ e.v = m.v
                         /\ e.epoch = m.epoch
    BY <2>1, CommandLemma
  <2>4. PICK q \in Seq(Cmd) : q = pipe[s][w]
    BY <2>1
  <2>5. \A i \in DOMAIN q, j \in DOMAIN Append(q, e) : j \notin DOMAIN q => ~(j < i)
    <3>1. ASSUME NEW i \in DOMAIN q, NEW j \in DOMAIN Append(q, e), j \notin DOMAIN q
          PROVE  ~(j < i)
      <4>1. i \in Nat /\ j \in Nat /\ i < j
        BY <3>1, AppendFacts
      <4>2. QED BY <4>1
    <3>2. QED BY <3>1
  <2>6. pipe'[s][w] = Append(q, e)
    BY <2>2, <2>3, <2>4
  <2>7. QED BY <2>3, <2>4, <2>5, <2>6, AppendFacts
<1>4. QED BY <1>1, <1>2, <1>3

LEMMA RequestsHandle ==
  ASSUME SInv, NEW s \in Server, NEW m \in net[s], Handle(s, m) PROVE Requests(s)'
<1>1. /\ Types /\ Requests(s) /\ One(s) /\ Asked(s) /\ Connections(s) /\ Answered(s)
      /\ Stale(s) /\ FirstTrainer(s)
  BY DEF SInv, Requests
<1>2. /\ ~Call(s) /\ net'[s] = net[s] \ {m}
      /\ UNCHANGED <<phase, bucket, ver, epoch, th, conn, loaded, data, comm, crashes>>
  BY <1>1, HandleStep
<1>3. /\ IsCall(m.op) => Call(s)' /\ busy'[s].m = m /\ resp'[s] = resp[s]
      /\ ~IsCall(m.op) => ~Call(s)' /\ (\/ resp'[s] = resp[s]
                                        \/ th[s] = "posting" /\ conn[s] = m.conn /\ resp'[s].ok)
      /\ resp'[s] = resp[s] \/ (th[s] = "posting" /\ conn[s] = m.conn)
  BY <1>1, <1>2, HandleStep, Something DEF Call
<1>4. ASSUME NEW w \in Worker, NEW i \in DOMAIN pipe'[s][w]
      PROVE  \/ i \in DOMAIN pipe[s][w] /\ pipe'[s][w][i] = pipe[s][w][i]
             \/ /\ i \notin DOMAIN pipe[s][w]
                /\ pipe'[s][w][i].op = m.op /\ pipe'[s][w][i].epoch = m.epoch
                /\ pipe'[s][w][i].b = m.b /\ pipe'[s][w][i].v = m.v
  BY <1>1, HandleStep
<1>5. \A w \in Worker : \A i, j \in DOMAIN pipe'[s][w] :
        /\ i \notin DOMAIN pipe[s][w] /\ j \notin DOMAIN pipe[s][w] => i = j
        /\ i \in DOMAIN pipe[s][w] /\ j \notin DOMAIN pipe[s][w] => ~(j < i)
  BY <1>1, HandleStep
<1>6. \A w \in Worker : \A i \in DOMAIN pipe[s][w] :
        i \in DOMAIN pipe'[s][w] /\ pipe'[s][w][i] = pipe[s][w][i]
  BY <1>1, HandleStep
<1>7. m.op \in Live <=> m \in Posted(s)
  BY <1>1 DEF Stale, Posted
<1>8. IsCall(m.op) => m.op \in Live /\ m.op # "update"
  BY DEF IsCall, Live
<1>9. /\ Posted(s)' = Posted(s) \ {m} /\ ~Serving(s)
      /\ Serving(s)' => IsCall(m.op) /\ busy'[s].m = m
      /\ m \in Posted(s) => Posted(s)' = {} /\ ~Updating(s)
  BY <1>1, <1>2, <1>3 DEF Posted, Serving, One
<1>10. ASSUME NEW w \in Worker, NEW i \in DOMAIN pipe'[s][w], Fresh(s, w, i)'
       PROVE  \/ i \in DOMAIN pipe[s][w] /\ Fresh(s, w, i) /\ Updating(s)
              \/ i \notin DOMAIN pipe[s][w] /\ m.op = "update" /\ m \in Posted(s)
  <2>1. CASE i \in DOMAIN pipe[s][w]
    BY <1>2, <1>4, <1>10, <2>1 DEF Fresh, At, Updating
  <2>2. CASE i \notin DOMAIN pipe[s][w]
    <3>1. m.op = "update"
      BY <1>4, <1>10, <2>2 DEF Fresh, At
    <3>2. QED BY <1>7, <2>2, <3>1 DEF Live
  <2>3. QED BY <2>1, <2>2
<1>11. One(s)'
  <2>1. \A n, o \in Posted(s)' : n = o
    BY <1>1, <1>9 DEF One
  <2>2. Posted(s)' # {} => ~Serving(s)' /\ ~Updating(s)'
    <3>1. ASSUME Posted(s)' # {} PROVE m \notin Posted(s) /\ ~Updating(s)
      BY <1>1, <1>9, <3>1 DEF One
    <3>2. QED BY <1>7, <1>8, <1>9, <1>10, <3>1 DEF Updating
  <2>3. Serving(s)' => ~Updating(s)'
    BY <1>7, <1>8, <1>9, <1>10 DEF Updating
  <2>4. ASSUME NEW w \in Worker, NEW i \in DOMAIN pipe'[s][w], NEW j \in DOMAIN pipe'[s][w],
               Fresh(s, w, i)', Fresh(s, w, j)'
        PROVE  i = j
    BY <1>1, <1>5, <1>9, <1>10, <2>4 DEF One
  <2>5. QED BY <2>1, <2>2, <2>3, <2>4 DEF One
<1>12. Asked(s)'
  <2>1. SUFFICES ASSUME ~Over PROVE Asked(s)'
    BY <1>2 DEF Asked, Over
  <2>2. \A n \in Posted(s)' : Matches(n) /\ th[s] \in {"posting", "err"}
    BY <1>1, <1>9, <2>1 DEF Asked
  <2>3. Serving(s)' => /\ busy'[s].m = m /\ Matches(m) /\ th[s] \in {"posting", "err"}
    BY <1>1, <1>7, <1>8, <1>9, <2>1 DEF Asked
  <2>4. ASSUME NEW w \in Worker, NEW i \in DOMAIN pipe'[s][w], Fresh(s, w, i)',
               NEW x, x = pipe'[s][w][i]
        PROVE  Matches(x) /\ th[s] \in {"posting", "nccl", "err"}
    <3>1. CASE i \in DOMAIN pipe[s][w]
      BY <1>1, <1>4, <1>10, <2>1, <2>4, <3>1 DEF Asked
    <3>2. CASE i \notin DOMAIN pipe[s][w]
      <4>1. m \in Posted(s) /\ x.op = m.op /\ x.b = m.b /\ x.v = m.v
        BY <1>4, <1>10, <2>4, <3>2
      <4>2. QED BY <1>1, <2>1, <4>1 DEF Asked, Matches
    <3>3. QED BY <3>1, <3>2
  <2>5. QED BY <1>2, <2>2, <2>3, <2>4 DEF Asked, Matches
<1>13. Connections(s)'
  <2>1. \A n \in net'[s] : n \in net[s] /\ n # m /\ n.conn # m.conn
    BY <1>1, <1>2 DEF Connections
  <2>2. Call(s)' => IsCall(m.op) /\ busy'[s].m = m /\ m.conn <= conn'[s]
    BY <1>1, <1>2, <1>3 DEF Types, HttpTypes
  <2>3. Op' = Op
    BY <1>2 DEF Op
  <2>4. ASSUME th'[s] = "posting", NEW n \in net'[s], n.conn = conn'[s]
        PROVE  n.op = Op' /\ n.epoch = epoch' /\ resp'[s] = None
    BY <1>1, <1>2, <1>3, <2>1, <2>3, <2>4 DEF Connections
  <2>5. ASSUME th'[s] = "posting", Call(s)', busy'[s].m.conn = conn'[s]
        PROVE  busy'[s].m.op = Op' /\ busy'[s].m.epoch = epoch' /\ resp'[s] = None
    BY <1>1, <1>2, <1>3, <2>2, <2>3, <2>5 DEF Connections
  <2>6. QED BY <1>1, <1>2, <2>1, <2>2, <2>4, <2>5 DEF Connections
<1>14. Answered(s)'
  <2>1. SUFFICES ASSUME phase \in Live, Responded(s)'
                 PROVE  /\ Posted(s)' = {} /\ ~Serving(s)'
                        /\ phase = "update" => resp'[s].ok
    BY <1>2 DEF Answered
  <2>2. CASE resp'[s] = resp[s]
    <3>1. Posted(s) = {} /\ (phase = "update" => resp[s].ok)
      BY <1>1, <1>2, <2>1, <2>2 DEF Answered, Responded
    <3>2. QED BY <1>7, <1>8, <1>9, <2>2, <3>1
  <2>3. CASE resp'[s] # resp[s]
    <3>1. ~IsCall(m.op) /\ th[s] = "posting" /\ conn[s] = m.conn /\ resp'[s].ok
      BY <1>3, <2>3
    <3>2. m.op \in Live
      BY <1>1, <2>1, <3>1 DEF Connections, Op, Live
    <3>3. QED BY <1>7, <1>9, <3>1, <3>2
  <2>4. QED BY <2>2, <2>3
<1>15. Stale(s)'
  <2>1. \A n \in net'[s] : n.op \in Live => n.epoch = epoch'
    BY <1>1, <1>2 DEF Stale
  <2>2. ASSUME NEW w \in Worker, NEW i \in DOMAIN pipe'[s][w],
               At(s, w, i, "update")', pipe'[s][w][i].epoch # epoch
        PROVE  comm[s][w] # epoch /\ \A j \in DOMAIN pipe'[s][w] : j < i => ~At(s, w, j, "init")'
    <3>1. i \in DOMAIN pipe[s][w] /\ pipe'[s][w][i] = pipe[s][w][i]
      BY <1>1, <1>4, <2>2 DEF At, Stale, Live
    <3>2. At(s, w, i, "update") /\ pipe[s][w][i].epoch # epoch
      BY <2>2, <3>1 DEF At
    <3>3. comm[s][w] # epoch /\ \A j \in DOMAIN pipe[s][w] : j < i => ~At(s, w, j, "init")
      BY <1>1, <3>1, <3>2 DEF Stale
    <3>4. ASSUME NEW j \in DOMAIN pipe'[s][w], j < i PROVE ~At(s, w, j, "init")'
      <4>1. j \in DOMAIN pipe[s][w] /\ pipe'[s][w][j] = pipe[s][w][j]
        BY <1>4, <1>5, <3>1, <3>4
      <4>2. QED BY <3>3, <3>4, <4>1 DEF At
    <3>5. QED BY <3>3, <3>4
  <2>3. QED BY <1>2, <2>1, <2>2 DEF Stale
<1>16. FirstTrainer(s)'
  <2>1. SUFFICES ASSUME crashes = 0 \/ phase = "down" PROVE FirstTrainer(s)'
    BY <1>2 DEF FirstTrainer
  <2>2. ASSUME NEW op, Pending(s, op)' PROVE Pending(s, op)
    <3>1. CASE \E n \in net'[s] : n.op = op
      BY <1>2, <3>1 DEF Pending
    <3>2. CASE \E w \in Worker : \E i \in DOMAIN pipe'[s][w] : At(s, w, i, op)'
      BY <1>4, <3>2 DEF Pending, At
    <3>3. QED BY <2>2, <3>1, <3>2 DEF Pending
  <2>3. Call(s)' => busy'[s].m.epoch = epoch'
    BY <1>1, <1>2, <1>3, <1>8 DEF Stale
  <2>4. /\ ~(Pending(s, "init")' /\ Pending(s, "update")')
        /\ phase' \in {"check", "preclose", "init"} => ~Pending(s, "update")'
        /\ phase' \in {"init", "done", "down"} \/ ~Pending(s, "init")'
        /\ phase' = "init" /\ th'[s] \in {"idle", "done"} => ~Pending(s, "init")'
    BY <1>1, <1>2, <2>1, <2>2 DEF FirstTrainer
  <2>5. \A n, o \in net[s] : n.op = "init" /\ o.op = "init" => n = o
    BY <1>1, <2>1 DEF FirstTrainer
  <2>6. ASSUME phase = "init", th[s] = "nccl" \/ Responded(s)', NEW n \in net'[s]
        PROVE  n.op # "init"
    <3>1. CASE th[s] = "nccl" \/ Responded(s)
      BY <1>1, <1>2, <2>1, <2>6, <3>1 DEF FirstTrainer
    <3>2. CASE Responded(s)' /\ ~Responded(s)
      <4>1. th[s] = "posting" /\ conn[s] = m.conn
        BY <1>2, <1>3, <3>2 DEF Responded
      <4>2. m.op = "init"
        BY <1>1, <2>6, <4>1 DEF Connections, Op
      <4>3. QED BY <1>2, <2>5, <4>2
    <3>3. QED BY <2>6, <3>1, <3>2
  <2>7. ASSUME NEW n \in net'[s], n.op = "init", NEW w \in Worker, NEW i \in DOMAIN pipe'[s][w]
        PROVE  ~At(s, w, i, "init")'
    <3>1. m.op # "init" /\ n \in net[s]
      BY <1>2, <2>5, <2>7
    <3>2. ASSUME At(s, w, i, "init")' PROVE At(s, w, i, "init") /\ i \in DOMAIN pipe[s][w]
      BY <1>4, <2>7, <3>1, <3>2 DEF At
    <3>3. QED BY <1>1, <2>1, <2>7, <3>1, <3>2 DEF FirstTrainer
  <2>8. ASSUME NEW w \in Worker, NEW i \in DOMAIN pipe'[s][w], NEW j \in DOMAIN pipe'[s][w],
               At(s, w, i, "init")', At(s, w, j, "init")'
        PROVE  i = j
    <3>1. CASE m.op = "init"
      <4>1. \A k \in DOMAIN pipe[s][w] : ~At(s, w, k, "init")
        BY <1>1, <2>1, <3>1 DEF FirstTrainer
      <4>2. i \notin DOMAIN pipe[s][w] /\ j \notin DOMAIN pipe[s][w]
        BY <1>6, <2>8, <4>1 DEF At
      <4>3. QED BY <1>5, <4>2
    <3>2. CASE m.op # "init"
      <4>1. /\ i \in DOMAIN pipe[s][w] /\ At(s, w, i, "init")
            /\ j \in DOMAIN pipe[s][w] /\ At(s, w, j, "init")
        BY <1>4, <2>8, <3>2 DEF At
      <4>2. QED BY <1>1, <2>1, <4>1 DEF FirstTrainer
    <3>3. QED BY <3>1, <3>2
  <2>9. QED BY <1>2, <2>3, <2>4, <2>5, <2>6, <2>7, <2>8 DEF FirstTrainer
<1>17. \A w \in Worker : Received(s, w)'
  BY <1>1, <1>2, <1>6 DEF Requests, Received, Receiving, At
<1>18. QED BY <1>11, <1>12, <1>13, <1>14, <1>15, <1>16, <1>17 DEF Requests

-----------------------------------------------------------------------------
(* The requests, step by step: the workers.                                 *)

(* A worker that has taken a command.                                       *)
LEMMA FewerTakes ==
  ASSUME Types, NEW s \in Server, NEW w \in Worker, Takes(s, w),
         UNCHANGED <<epoch, net, conn, busy>>,
         \A u \in Worker : u # w => data'[s][u] = data[s][u]
  PROVE  Fewer(s)
<1> DEFINE sh == [u \in Worker |-> IF u = w THEN 1 ELSE 0]
<1>1. ASSUME NEW u \in Worker, NEW i \in DOMAIN pipe'[s][u]
      PROVE  /\ i \in Nat /\ i >= 1 /\ i + sh[u] \in DOMAIN pipe[s][u]
             /\ pipe'[s][u][i] = pipe[s][u][i + sh[u]]
             /\ Fresh(s, u, i)' => Fresh(s, u, i + sh[u])
  <2>1. pipe[s][u] \in Seq(Cmd)
    BY DEF Types, PipeTypes
  <2>2. CASE u = w
    <3>1. sh[u] = 1 /\ pipe[s][u] # << >> /\ pipe'[s][u] = Tail(pipe[s][u])
      BY <2>2 DEF Takes
    <3>2. /\ i \in Nat /\ i >= 1 /\ i + 1 \in DOMAIN pipe[s][u]
          /\ pipe'[s][u][i] = pipe[s][u][i + 1]
      BY <1>1, <2>1, <3>1, TailFacts
    <3>3. i + 1 # 1
      BY <3>2
    <3>4. Fresh(s, u, i)' => Fresh(s, u, i + 1)
      BY <3>2, <3>3 DEF Fresh, At
    <3>5. QED BY <3>1, <3>2, <3>4
  <2>3. CASE u # w
    <3>1. sh[u] = 0 /\ pipe'[s][u] = pipe[s][u] /\ data'[s][u] = data[s][u]
      BY <2>3 DEF Takes
    <3>2. i \in Nat /\ i >= 1 /\ i + 0 = i
      BY <1>1, <2>1, <3>1
    <3>3. Fresh(s, u, i)' => Fresh(s, u, i)
      BY <3>1 DEF Fresh, At
    <3>4. QED BY <1>1, <3>1, <3>2, <3>3
  <2>4. QED BY <2>2, <2>3
<1>2. sh \in [Worker -> {0, 1}] /\ Shift(s, sh)
  BY <1>1 DEF Shift
<1>3. QED BY <1>2 DEF Fewer, Call

(* What a worker's step does to the data it has received and its weights.   *)
LEMMA WorkStep ==
  ASSUME Types, NEW s \in Server, NEW w \in Worker, Work(s, w), ~WorkerReady(s, w)
  PROVE  /\ UNCHANGED <<phase, bucket, ver, epoch, crashes, th, net, conn, resp, busy>>
         /\ \A u \in Worker : u # w => data'[s][u] = data[s][u] /\ loaded'[s][u] = loaded[s][u]
         /\ \A u \in Worker : comm'[s][u] \in {comm[s][u], 0}
         /\ data'[s][w] = None
         /\ \/ loaded'[s][w] = loaded[s][w] /\ (data[s][w] = None \/ "load" \in MayRaise)
            \/ /\ data[s][w] # None
               /\ \A b \in Bucket : loaded'[s][w][b] =
                    IF b = pipe[s][w][1].b THEN data[s][w] ELSE loaded[s][w][b]
<1>1. UNCHANGED <<phase, bucket, ver, epoch, crashes, th, net, conn, resp, busy>>
  BY DEF Work, WorkerReady, Infer, ResetPrefixCache, CloseCommunicator, LoadWeights, Raise,
     clientVars, httpVars
<1>2. CASE LoadWeights(s, w)
  <2>1. data' = [data EXCEPT ![s][w] = None] /\ UNCHANGED comm /\ data[s][w] # None
    BY <1>2 DEF LoadWeights
  <2>2. data'[s][w] = None /\ \A u \in Worker : u # w => data'[s][u] = data[s][u]
    BY <2>1 DEF Types, WorkerTypes
  <2>3. pipe[s][w] \in Seq(Cmd)
    BY DEF Types, PipeTypes
  <2>4. CASE loaded' = loaded /\ "load" \in MayRaise
    BY <1>1, <2>1, <2>2, <2>4
  <2>5. CASE loaded' = [loaded EXCEPT ![s][w][Head(pipe[s][w]).b] = data[s][w]]
    <3> DEFINE x == [loaded[s][w] EXCEPT ![Head(pipe[s][w]).b] = data[s][w]]
               y == [loaded[s] EXCEPT ![w] = x]
    <3>1. DOMAIN loaded = Server /\ DOMAIN loaded[s] = Worker /\ DOMAIN loaded[s][w] = Bucket
      BY DEF Types, WorkerTypes
    <3>2. loaded' = [loaded EXCEPT ![s] = y]
      BY <2>5
    <3>3. loaded'[s] = y
      BY <3>1, <3>2
    <3>4. y[w] = x /\ \A u \in Worker : u # w => y[u] = loaded[s][u]
      BY <3>1
    <3>5. Head(pipe[s][w]) = pipe[s][w][1]
      BY <2>3
    <3>6. \A b \in Bucket : x[b] = IF b = pipe[s][w][1].b THEN data[s][w] ELSE loaded[s][w][b]
      BY <3>1, <3>5
    <3> HIDE DEF x, y
    <3>7. loaded'[s][w] = x /\ \A u \in Worker : u # w => loaded'[s][u] = loaded[s][u]
      BY <3>3, <3>4
    <3>8. QED BY <1>1, <2>1, <2>2, <3>6, <3>7
  <2>6. QED BY <1>2, <2>4, <2>5 DEF LoadWeights
<1>3. CASE ~LoadWeights(s, w)
  <2>1. UNCHANGED <<data, loaded>> /\ data[s][w] = None
    BY <1>3 DEF Work, Infer, ResetPrefixCache, CloseCommunicator, Raise, Executing, workerVars
  <2>2. comm' = comm \/ comm' = [comm EXCEPT ![s][w] = 0]
    BY <1>3 DEF Work, Infer, ResetPrefixCache, CloseCommunicator, Raise, workerVars
  <2>3. \A u \in Worker : comm'[s][u] \in {comm[s][u], 0}
    BY <2>2 DEF Types, WorkerTypes
  <2>4. QED BY <1>1, <2>1, <2>3
<1>4. QED BY <1>2, <1>3

LEMMA RequestsWork ==
  ASSUME SInv, NEW s \in Server, NEW w \in Worker, Work(s, w) PROVE Requests(s)'
<1>1. /\ Types /\ Requests(s) /\ One(s) /\ Asked(s) /\ Connections(s) /\ Answered(s)
      /\ Stale(s) /\ FirstTrainer(s) /\ \A u \in Worker : Received(s, u)
  BY DEF SInv, Requests
<1>2. CASE WorkerReady(s, w)
  <2>1. Same(s)
    BY <1>2 DEF WorkerReady, Same, clientVars, httpVars
  <2>2. QED BY <1>1, <2>1, RequestsFrame
<1>3. CASE ~WorkerReady(s, w)
  <2>1. /\ UNCHANGED <<phase, bucket, ver, epoch, crashes, th, net, conn, resp, busy>>
        /\ \A u \in Worker : u # w => data'[s][u] = data[s][u] /\ loaded'[s][u] = loaded[s][u]
        /\ \A u \in Worker : comm'[s][u] \in {comm[s][u], 0}
        /\ data'[s][w] = None
        /\ \/ loaded'[s][w] = loaded[s][w]
           \/ /\ data[s][w] # None
              /\ \A b \in Bucket : loaded'[s][w][b] =
                   IF b = pipe[s][w][1].b THEN data[s][w] ELSE loaded[s][w][b]
    BY <1>1, <1>3, WorkStep
  <2>2. Takes(s, w)
    BY <1>1, <1>3, TypesWork DEF Received
  <2>3. Fewer(s)
    BY <1>1, <2>1, <2>2, FewerTakes
  <2>4. One(s)' /\ Asked(s)' /\ Connections(s)' /\ Answered(s)' /\ FirstTrainer(s)'
    BY <1>1, <2>1, <2>3, FewerOne, FewerAsked, FewerConnections, FewerAnswered, FewerFirst
       DEF Responded
  <2>5. Stale(s)'
    BY <1>1, <2>1, <2>3, FewerStale DEF Types, ClientTypes
  <2>6. Received(s, w)'
    BY <1>1, <2>1 DEF Received, Receiving
  <2>7. ASSUME NEW u \in Worker, u # w PROVE Received(s, u)'
    <3>1. pipe'[s][u] = pipe[s][u]
      BY <2>2, <2>7 DEF Takes
    <3>2. QED BY <1>1, <2>1, <2>7, <3>1 DEF Received, Receiving, At
  <2>8. QED BY <2>4, <2>5, <2>6, <2>7 DEF Requests
<1>4. QED BY <1>2, <1>3

LEMMA RequestsRendezvous ==
  ASSUME SInv, NEW s \in Server, Rendezvous(s) PROVE Requests(s)'
<1>1. /\ Types /\ Requests(s) /\ One(s) /\ Asked(s) /\ Connections(s) /\ Answered(s)
      /\ Stale(s) /\ FirstTrainer(s) /\ \A u \in Worker : Received(s, u)
  BY DEF SInv, Requests
<1>2. /\ UNCHANGED <<phase, bucket, ver, epoch, crashes, net, conn, resp, busy, loaded, data>>
      /\ phase = "init" /\ th[s] = "nccl" /\ th'[s] = "done"
      /\ \A w \in Worker : /\ comm'[s][w] = epoch /\ pipe'[s][w] = Tail(pipe[s][w])
                           /\ pipe[s][w] # << >> /\ Head(pipe[s][w]).op = "init"
                           /\ data[s][w] = None
  BY <1>1 DEF Rendezvous, Executing, httpVars, Types, ClientTypes, PipeTypes, WorkerTypes
<1>3. ASSUME NEW w \in Worker
      PROVE  /\ At(s, w, 1, "init") /\ 1 \in DOMAIN pipe[s][w]
             /\ \A i \in DOMAIN pipe'[s][w] : /\ i \in Nat /\ i >= 1 /\ i + 1 \in DOMAIN pipe[s][w]
                                              /\ pipe'[s][w][i] = pipe[s][w][i + 1]
  <2>1. pipe[s][w] \in Seq(Cmd)
    BY <1>1 DEF Types, PipeTypes
  <2>2. pipe[s][w] # << >> /\ pipe'[s][w] = Tail(pipe[s][w]) /\ Head(pipe[s][w]).op = "init"
    BY <1>2
  <2>3. 1 \in DOMAIN pipe[s][w] /\ pipe[s][w][1].op = "init"
    BY <2>1, <2>2, TailFacts
  <2>4. \A i \in DOMAIN pipe'[s][w] : /\ i \in Nat /\ i >= 1 /\ i + 1 \in DOMAIN pipe[s][w]
                                      /\ pipe'[s][w][i] = pipe[s][w][i + 1]
    BY <2>1, <2>2, TailFacts
  <2>5. QED BY <2>3, <2>4 DEF At
<1>4. Fewer(s)
  <2> DEFINE sh == [w \in Worker |-> 1]
  <2>1. ASSUME NEW w \in Worker, NEW i \in DOMAIN pipe'[s][w]
        PROVE  /\ i \in Nat /\ i >= 1 /\ i + sh[w] \in DOMAIN pipe[s][w]
               /\ pipe'[s][w][i] = pipe[s][w][i + sh[w]]
               /\ Fresh(s, w, i)' => Fresh(s, w, i + sh[w])
    <3>1. sh[w] = 1 /\ i + 1 # 1
      BY <1>3
    <3>2. QED BY <1>2, <1>3, <3>1 DEF Fresh, At
  <2>2. sh \in [Worker -> {0, 1}] /\ Shift(s, sh)
    BY <2>1 DEF Shift
  <2>3. QED BY <1>2, <2>2 DEF Fewer, Call
<1>5. One(s)' /\ Connections(s)' /\ Answered(s)'
  BY <1>1, <1>2, <1>4, FewerOne, FewerConnections DEF Answered, Responded
<1>6. Asked(s)'
  <2>1. Posted(s) = {} /\ ~Serving(s)
    BY <1>1, <1>2, Quiet DEF Over
  <2>2. QED BY <1>1, <1>2, <1>4, <2>1, FewerFacts, FewerAsked
<1>7. Stale(s)'
  <2>1. ASSUME NEW w \in Worker, NEW i \in DOMAIN pipe'[s][w], At(s, w, i, "update")',
               pipe'[s][w][i].epoch # epoch
        PROVE  FALSE
    <3>1. At(s, w, i + 1, "update") /\ pipe[s][w][i + 1].epoch # epoch /\ 1 < i + 1
      BY <1>3, <2>1 DEF At
    <3>2. QED BY <1>1, <1>3, <3>1 DEF Stale
  <2>2. QED BY <1>1, <1>2, <2>1 DEF Stale
<1>8. FirstTrainer(s)'
  <2>1. ASSUME crashes = 0, Pending(s, "init")' PROVE FALSE
    <3>1. \A m \in net[s] : m.op # "init"
      BY <1>1, <1>2, <2>1 DEF FirstTrainer
    <3>2. PICK w \in Worker : \E i \in DOMAIN pipe'[s][w] : At(s, w, i, "init")'
      BY <1>2, <2>1, <3>1 DEF Pending
    <3>3. PICK i \in DOMAIN pipe'[s][w] : At(s, w, i, "init")'
      BY <3>2
    <3>4. At(s, w, i + 1, "init") /\ i + 1 \in DOMAIN pipe[s][w] /\ i + 1 # 1
      BY <1>3, <3>3 DEF At
    <3>5. QED BY <1>1, <1>3, <2>1, <3>4 DEF FirstTrainer
  <2>2. QED BY <1>1, <1>2, <1>4, <2>1, FewerFirst
<1>9. \A w \in Worker : Received(s, w)'
  BY <1>1, <1>2 DEF Received, Receiving
<1>10. QED BY <1>5, <1>6, <1>7, <1>8, <1>9 DEF Requests

(* The workers that take part in a broadcast all execute the update of the  *)
(* bucket the client sends.                                                 *)
LEMMA BroadcastStep ==
  ASSUME SInv, NEW s \in Server, Broadcast(s)
  PROVE  /\ UNCHANGED <<phase, bucket, ver, epoch, crashes, net, conn, resp, busy, pipe, loaded, comm>>
         /\ phase = "update" /\ th[s] = "nccl" /\ th'[s] = "done"
         /\ \A w \in Worker : /\ data'[s][w] = [b |-> bucket, v |-> ver] /\ data'[s][w] # None
                              /\ data[s][w] = None /\ Fresh(s, w, 1) /\ 1 \in DOMAIN pipe[s][w]
                              /\ pipe[s][w][1].b = bucket /\ pipe[s][w][1].v = ver
<1>1. Types /\ Asked(s) /\ Stale(s)
  BY DEF SInv, Requests
<1>2. /\ UNCHANGED <<phase, bucket, ver, epoch, crashes, net, conn, resp, busy, pipe, loaded, comm>>
      /\ phase = "update" /\ th[s] = "nccl" /\ th'[s] = "done"
      /\ \A w \in Worker : data'[s][w] = [b |-> bucket, v |-> ver]
      /\ \A w \in Worker : data[s][w] = None /\ comm[s][w] = epoch
                           /\ pipe[s][w] # << >> /\ Head(pipe[s][w]).op = "update"
  BY <1>1 DEF Broadcast, Executing, httpVars, serverVars, Types, ClientTypes, WorkerTypes
<1>3. ASSUME NEW w \in Worker
      PROVE  Fresh(s, w, 1) /\ pipe[s][w][1].b = bucket /\ pipe[s][w][1].v = ver
             /\ 1 \in DOMAIN pipe[s][w]
  <2>1. pipe[s][w] \in Seq(Cmd)
    BY <1>1 DEF Types, PipeTypes
  <2>2. 1 \in DOMAIN pipe[s][w] /\ At(s, w, 1, "update")
    BY <1>2, <2>1, TailFacts DEF At
  <2>3. pipe[s][w][1].epoch = epoch
    BY <1>1, <1>2, <2>2 DEF Stale
  <2>4. Fresh(s, w, 1)
    BY <1>2, <2>2, <2>3 DEF Fresh
  <2>5. QED BY <1>1, <1>2, <2>2, <2>4 DEF Asked, Over, Matches
<1>4. QED BY <1>2, <1>3, Something

LEMMA RequestsBroadcast ==
  ASSUME SInv, NEW s \in Server, Broadcast(s) PROVE Requests(s)'
<1>1. /\ Types /\ Requests(s) /\ One(s) /\ Asked(s) /\ Connections(s) /\ Answered(s)
      /\ Stale(s) /\ FirstTrainer(s) /\ \A u \in Worker : Received(s, u)
  BY DEF SInv, Requests
<1>2. /\ UNCHANGED <<phase, bucket, ver, epoch, crashes, net, conn, resp, busy, pipe, loaded, comm>>
      /\ phase = "update" /\ th[s] = "nccl" /\ th'[s] = "done"
      /\ \A w \in Worker : /\ data'[s][w] = [b |-> bucket, v |-> ver] /\ data'[s][w] # None
                           /\ data[s][w] = None /\ Fresh(s, w, 1) /\ 1 \in DOMAIN pipe[s][w]
                           /\ pipe[s][w][1].b = bucket /\ pipe[s][w][1].v = ver
  BY BroadcastStep
<1>3. Fewer(s)
  BY <1>1, <1>2, FewerStill DEF Call
<1>4. One(s)' /\ Connections(s)' /\ Answered(s)' /\ FirstTrainer(s)'
  BY <1>1, <1>2, <1>3, FewerOne, FewerConnections, FewerFirst DEF Answered, Responded
<1>5. Asked(s)'
  <2>1. Updating(s)
    BY <1>2, Sizes DEF Updating
  <2>2. Posted(s)' = {} /\ ~Serving(s)'
    BY <1>1, <1>3, <2>1, FewerFacts DEF One
  <2>3. ~Updating(s)'
    <3>1. ASSUME NEW w \in Worker, NEW i \in DOMAIN pipe'[s][w], Fresh(s, w, i)' PROVE FALSE
      <4>1. Fresh(s, w, i) /\ i # 1
        BY <1>2, <3>1 DEF Fresh, At
      <4>2. QED BY <1>1, <1>2, <4>1 DEF One
    <3>2. QED BY <3>1 DEF Updating
  <2>4. QED BY <1>1, <1>2, <1>3, <2>2, <2>3, FewerAsked
<1>6. Stale(s)'
  BY <1>1, <1>2, <1>3, FewerStale DEF Types, ClientTypes
<1>7. \A w \in Worker : Received(s, w)'
  BY <1>1, <1>2 DEF Received, Receiving, At, Fresh
<1>8. QED BY <1>4, <1>5, <1>6, <1>7 DEF Requests

-----------------------------------------------------------------------------
(* The invariant holds at the start, and every step keeps it.               *)

(* The steps that concern one server.                                       *)
Local(s) ==
  \/ Post(s) \/ Response(s) \/ NoResponse(s) \/ NoRendezvous(s) \/ Rendezvous(s) \/ Broadcast(s)
  \/ ServerUp(s) \/ Collect(s) \/ (\E m \in net[s] : Handle(s, m))
  \/ \E w \in Worker : Work(s, w)

LEMMA Elsewhere ==
  ASSUME Types, NEW s \in Server, Local(s), NEW t \in Server, t # s
  PROVE  Same(t)
<1>1. /\ DOMAIN th = Server /\ DOMAIN net = Server /\ DOMAIN conn = Server /\ DOMAIN resp = Server
      /\ DOMAIN busy = Server /\ pipe \in [Server -> [Worker -> Seq(Cmd)]]
      /\ data \in [Server -> [Worker -> {None} \cup [b : Bucket, v : Nat]]]
      /\ comm \in [Server -> [Worker -> Nat]]
      /\ loaded \in [Server -> [Worker -> [Bucket -> [b : Bucket, v : Nat]]]]
  BY DEF Types, ClientTypes, HttpTypes, ServerTypes, PipeTypes, WorkerTypes
<1>2. CASE Post(s)
  BY <1>1, <1>2 DEF Post, Same, serverVars, workerVars
<1>3. CASE Response(s) \/ NoResponse(s) \/ NoRendezvous(s)
  BY <1>1, <1>3 DEF Response, NoResponse, NoRendezvous, AttemptFailed, Same, httpVars,
     serverVars, workerVars
<1>4. CASE Rendezvous(s) \/ Broadcast(s)
  BY <1>1, <1>4 DEF Rendezvous, Broadcast, Same, httpVars, serverVars
<1>5. CASE ServerUp(s)
  BY <1>1, <1>5 DEF ServerUp, Same, clientVars, httpVars, workerVars
<1>6. CASE Collect(s)
  BY <1>1, <1>6 DEF Collect, Respond, Same, clientVars, workerVars
<1>7. ASSUME NEW m \in net[s], Handle(s, m)
      PROVE  Same(t)
  BY <1>1, <1>7 DEF Handle, Respond, Same, clientVars, workerVars
<1>8. ASSUME NEW w \in Worker, Work(s, w)
      PROVE  Same(t)
  <2>1. UNCHANGED <<clientVars, httpVars, up, busy, crashes>>
    BY <1>8 DEF Work, WorkerReady, Infer, ResetPrefixCache, CloseCommunicator, LoadWeights, Raise
  <2>2. pipe'[t] = pipe[t]
    BY <1>1, <1>8 DEF Work, WorkerReady, Infer, ResetPrefixCache, CloseCommunicator, LoadWeights,
       Raise, NextCommand
  <2>3. data'[t] = data[t] /\ comm'[t] = comm[t]
    BY <1>1, <1>8 DEF Work, WorkerReady, Infer, ResetPrefixCache, CloseCommunicator, LoadWeights,
       Raise, workerVars
  <2>4. loaded'[t] = loaded[t]
    BY <1>1, <1>8 DEF Work, WorkerReady, Infer, ResetPrefixCache, CloseCommunicator, LoadWeights,
       Raise, workerVars
  <2>5. QED BY <2>1, <2>2, <2>3, <2>4 DEF Same, clientVars, httpVars
<1>9. QED BY <1>2, <1>3, <1>4, <1>5, <1>6, <1>7, <1>8 DEF Local

LEMMA InitSInv == Init => SInv
<1> SUFFICES ASSUME Init PROVE SInv
  OBVIOUS
<1>1. ClientTypes /\ HttpTypes /\ ServerTypes
  BY Sizes DEF Init, ClientTypes, HttpTypes, ServerTypes, Phase, Call
<1>2. PipeTypes
  BY DEF Init, PipeTypes
<1>3. WorkerTypes
  BY DEF Init, WorkerTypes
<1>4. ASSUME NEW s \in Server PROVE Requests(s)
  <2>1. /\ net[s] = {} /\ ~Call(s) /\ th[s] = "idle" /\ epoch = 1 /\ phase = "check" /\ crashes = 0
        /\ \A w \in Worker : pipe[s][w] = << >> /\ data[s][w] = None
                             /\ \A b \in Bucket : loaded[s][w][b].b = b
    BY DEF Init, Call
  <2>2. Posted(s) = {} /\ ~Serving(s)
    BY <2>1 DEF Posted, Serving
  <2>3. /\ \A w \in Worker : DOMAIN pipe[s][w] = {}
        /\ \A op : ~Pending(s, op)
    BY <2>1 DEF Pending
  <2>4. One(s) /\ Asked(s)
    BY <2>2, <2>3 DEF One, Asked, Updating
  <2>5. Connections(s) /\ Answered(s) /\ Stale(s)
    BY <2>1, <2>3 DEF Connections, Answered, Responded, Stale
  <2>6. FirstTrainer(s)
    BY <2>1, <2>3 DEF FirstTrainer, Responded
  <2>7. QED BY <2>1, <2>4, <2>5, <2>6 DEF Requests, Received, Receiving
<1>5. crashes <= 1 /\ Idle
  BY DEF Init, Idle
<1>6. QED BY <1>1, <1>2, <1>3, <1>4, <1>5 DEF SInv, Types

(* A step is the client's, a fault, or concerns one server.                 *)
LEMMA Steps ==
  ASSUME [Next]_vars
  PROVE  \/ UNCHANGED vars \/ CheckServer \/ Join \/ Crash \/ Restart
         \/ \E s \in Server : Local(s)
BY DEF Next, Client, Serve, Fault, Terminated, Local

LEMMA NextSInv ==
  ASSUME SInv, [Next]_vars, NoUpdateRetry, MaxCrashes <= 1 PROVE SInv'
<1>1. Types /\ crashes <= 1 /\ Idle /\ \A s \in Server : Requests(s)
  BY DEF SInv
<1>2. CASE UNCHANGED vars
  <2>1. ASSUME NEW s \in Server PROVE Requests(s)'
    BY <1>1, <1>2, RequestsFrame DEF Same, vars, clientVars, httpVars, serverVars, workerVars
  <2>2. Types'
    BY <1>1, <1>2 DEF Types, ClientTypes, HttpTypes, ServerTypes, PipeTypes, WorkerTypes, Call,
       vars, clientVars, httpVars, serverVars, workerVars
  <2>3. crashes' <= 1 /\ Idle'
    BY <1>1, <1>2 DEF Idle, vars, clientVars
  <2>4. QED BY <2>1, <2>2, <2>3 DEF SInv
<1>3. CASE CheckServer
  <2>1. crashes' <= 1 /\ Idle'
    BY <1>1, <1>3 DEF CheckServer, Idle
  <2>2. QED BY <1>1, <1>3, <2>1, TypesClient, RequestsCheckServer DEF SInv
<1>4. CASE Join
  <2>1. phase' # "down"
    BY <1>1, <1>4, JoinPhase, SyncConstants DEF Server
  <2>2. crashes' <= 1 /\ Idle'
    BY <1>1, <1>4, <2>1 DEF Join, Idle
  <2>3. QED BY <1>1, <1>4, <2>2, TypesClient, RequestsJoin DEF SInv
<1>5. CASE Crash
  <2>1. crashes' = 1
    BY <1>5, RequestsCrash, SyncConstants DEF Server
  <2>2. crashes' <= 1 /\ Idle'
    BY <1>5, <2>1 DEF Crash, Idle
  <2>3. QED BY <1>1, <1>5, <2>2, TypesClient, RequestsCrash DEF SInv
<1>6. CASE Restart
  <2>1. crashes' <= 1 /\ Idle'
    BY <1>1, <1>6 DEF Restart, Idle
  <2>2. QED BY <1>1, <1>6, <2>1, TypesClient, RequestsRestart DEF SInv
<1>7. ASSUME NEW s \in Server, Local(s) PROVE SInv'
  <2>1. ASSUME NEW t \in Server, t # s PROVE Requests(t)'
    BY <1>1, <1>7, <2>1, Elsewhere, RequestsFrame
  <2>2. Types' /\ Requests(s)'
    <3>1. CASE Post(s)
      BY <1>1, <3>1, TypesPost, RequestsPost
    <3>2. CASE Response(s) \/ NoResponse(s) \/ NoRendezvous(s)
      BY <1>1, <3>2, TypesClient, RequestsResponse
    <3>3. CASE Rendezvous(s)
      BY <1>1, <3>3, TypesJoint, RequestsRendezvous
    <3>4. CASE Broadcast(s)
      BY <1>1, <3>4, TypesJoint, RequestsBroadcast
    <3>5. CASE ServerUp(s)
      BY <1>1, <3>5, TypesServe, RequestsServerUp
    <3>6. CASE Collect(s)
      BY <1>1, <3>6, TypesServe, RequestsCollect
    <3>7. CASE \E m \in net[s] : Handle(s, m)
      BY <1>1, <3>7, TypesHandle, RequestsHandle
    <3>8. CASE \E w \in Worker : Work(s, w)
      BY <1>1, <3>8, TypesWork, RequestsWork DEF Requests, Received
    <3>9. QED BY <1>7, <3>1, <3>2, <3>3, <3>4, <3>5, <3>6, <3>7, <3>8 DEF Local
  <2>3. UNCHANGED <<phase, crashes>>
    BY <1>7 DEF Local, Post, Response, NoResponse, NoRendezvous, Rendezvous, Broadcast,
       ServerUp, Collect, Handle, Work, WorkerReady, Infer, ResetPrefixCache, CloseCommunicator,
       LoadWeights, Raise, clientVars
  <2>4. Idle'
    <3>1. CASE phase \notin {"check", "down", "done"}
      BY <2>3, <3>1 DEF Idle
    <3>2. CASE phase \in {"check", "down", "done"}
      <4>1. th[s] = "idle"
        BY <1>1, <3>2 DEF Idle
      <4>2. th' = th
        BY <1>7, <3>2, <4>1 DEF Local, Post, Response, NoResponse, NoRendezvous, Rendezvous, Broadcast,
           ServerUp, Collect, Handle, Work, WorkerReady, Infer, ResetPrefixCache, CloseCommunicator,
           LoadWeights, Raise, clientVars
      <4>3. QED BY <1>1, <2>3, <4>2 DEF Idle
    <3>3. QED BY <3>1, <3>2
  <2>5. QED BY <1>1, <2>1, <2>2, <2>3, <2>4 DEF SInv
<1>8. QED BY <1>2, <1>3, <1>4, <1>5, <1>6, <1>7, Steps

(* A bucket of the model only ever receives its own tensors, in any number  *)
(* of synchronisations, although the workers of a server take part in a     *)
(* broadcast whatever their command names, requests and answers are lost,   *)
(* any method may raise, and one trainer may be killed at any point: an     *)
(* update that a worker has not executed yet is the one the client sends.   *)
(* The hypotheses are needed: an update that is posted a second time, or    *)
(* the commands two dead trainers leave behind, can mix the buckets.        *)
THEOREM BucketsKeptApart ==
  ASSUME NoUpdateRetry, MaxCrashes <= 1
  PROVE  Spec => []BucketIntegrity
<1>1. SInv => BucketIntegrity
  BY DEF SInv, Requests, Received, BucketIntegrity
<1>2. SInv /\ [Next]_vars => SInv'
  BY NextSInv
<1>3. QED BY <1>1, <1>2, InitSInv, PTL DEF Spec

-----------------------------------------------------------------------------
(* The buckets that have been sent are loaded, or about to be.              *)

LEMMA JoinSync ==
  ASSUME Types, Join, NEW s \in Server
  PROVE  \/ phase' \notin {"update", "reset", "infer"}
         \/ phase' = "update" /\ bucket' = 1
         \/ phase = "update" /\ phase' = "update" /\ ver' = ver /\ bucket' = bucket + 1
         \/ phase = "update" /\ phase' = "reset" /\ ver' = ver /\ bucket >= NumBuckets
         \/ phase = "reset" /\ phase' = "infer" /\ ver' = ver
<1>1. phase \in {"preclose", "init", "update", "reset", "infer", "close"}
  BY DEF Join, Types, ClientTypes, Phase
<1>2. CASE ~Advance
  BY <1>2 DEF Join
<1>3. CASE Advance
  <2>1. CASE phase = "update"
    <3>1. bucket \in Nat /\ NumBuckets \in Nat
      BY SyncConstants DEF Types, ClientTypes, Bucket
    <3>2. phase' = AfterBucket[1] /\ bucket' = AfterBucket[2] /\ ver' = ver
      BY <1>3, <2>1 DEF Advance
    <3>3. QED BY <2>1, <3>1, <3>2 DEF AfterBucket
  <2>2. CASE phase \in {"preclose", "close", "reset"}
    BY <1>3, <2>2 DEF Advance
  <2>3. CASE phase = "init"
    BY <1>3, <2>3 DEF Advance
  <2>4. CASE phase = "infer"
    BY <1>3, <2>4 DEF Advance
  <2>5. QED BY <1>1, <2>1, <2>2, <2>3, <2>4
<1>4. QED BY <1>2, <1>3

LEMMA LoadedFrame ==
  ASSUME NEW s \in Server, NEW w \in Worker, Loaded(s, w), UNCHANGED ver,
         loaded'[s][w] = loaded[s][w], data'[s][w] = data[s][w],
         \A b \in Bucket : Sent(s, b)' => Sent(s, b)
  PROVE  Loaded(s, w)'
BY DEF Loaded

LEMMA LoadedJoin ==
  ASSUME SInv, Join, NEW s \in Server, NEW w \in Worker, Loaded(s, w) PROVE Loaded(s, w)'
<1>1. UNCHANGED <<loaded, data>> /\ th'[s] = "idle"
  BY DEF Join, workerVars
<1>2. Types
  BY DEF SInv
<1>3. bucket \in Nat /\ NumBuckets \in Nat
  BY <1>2, SyncConstants DEF Types, ClientTypes, Bucket
<1>4. ASSUME NEW b \in Bucket, Sent(s, b)' PROVE Sent(s, b) /\ ver' = ver
  <2>1. b \in Nat /\ b >= 1 /\ b <= NumBuckets
    BY SyncConstants DEF Bucket
  <2>2. phase' = "update" => b < bucket'
    BY <1>1, <1>4 DEF Sent
  <2>3. CASE phase' = "update" /\ bucket' = 1
    BY <2>1, <2>2, <2>3
  <2>4. CASE phase = "update" /\ phase' = "update" /\ ver' = ver /\ bucket' = bucket + 1
    <3>1. b < bucket \/ b = bucket
      BY <1>3, <2>1, <2>2, <2>4
    <3>2. th[s] = "done"
      BY <1>2, <2>4, JoinPhase
    <3>3. QED BY <2>4, <3>1, <3>2 DEF Sent
  <2>5. CASE phase = "update" /\ phase' = "reset" /\ ver' = ver /\ bucket >= NumBuckets
    <3>1. b < bucket \/ b = bucket
      BY <1>3, <2>1, <2>5
    <3>2. th[s] = "done"
      BY <1>2, <2>5, JoinPhase
    <3>3. QED BY <2>5, <3>1, <3>2 DEF Sent
  <2>6. CASE phase = "reset" /\ phase' = "infer" /\ ver' = ver
    BY <2>6 DEF Sent
  <2>7. QED BY <1>2, <1>4, <2>3, <2>4, <2>5, <2>6, JoinSync DEF Sent
<1>5. QED BY <1>1, <1>4 DEF Loaded

LEMMA LoadedBroadcast ==
  ASSUME SInv, NEW s \in Server, Broadcast(s), NEW w \in Worker, Loaded(s, w) PROVE Loaded(s, w)'
<1>1. /\ UNCHANGED <<phase, bucket, ver, loaded>> /\ phase = "update"
      /\ data'[s][w] = [b |-> bucket, v |-> ver] /\ data[s][w] = None
  BY BroadcastStep
<1>2. ASSUME NEW b \in Bucket, b < bucket PROVE loaded[s][w][b] = [b |-> b, v |-> ver]
  <2>1. Sent(s, b)
    BY <1>1, <1>2 DEF Sent
  <2>2. QED BY <1>1, <2>1, Something DEF Loaded
<1>3. ASSUME NEW b \in Bucket, Sent(s, b)' PROVE b < bucket \/ b = bucket
  BY <1>1, <1>3 DEF Sent
<1>4. data'[s][w].v = ver
  BY <1>1
<1>5. QED BY <1>1, <1>2, <1>3, <1>4 DEF Loaded

LEMMA LoadedWork ==
  ASSUME SInv, NEW s \in Server, NEW w \in Worker, NEW u \in Worker, Work(s, w), Loaded(s, u),
         "load" \notin MayRaise
  PROVE  Loaded(s, u)'
<1>1. Types /\ Received(s, w)
  BY DEF SInv, Requests
<1>2. CASE WorkerReady(s, w)
  BY <1>2, LoadedFrame DEF WorkerReady, clientVars, Sent
<1>3. CASE ~WorkerReady(s, w)
  <2>1. /\ UNCHANGED <<phase, bucket, ver, th>>
        /\ u # w => data'[s][u] = data[s][u] /\ loaded'[s][u] = loaded[s][u]
        /\ data'[s][w] = None
        /\ \/ loaded'[s][w] = loaded[s][w] /\ data[s][w] = None
           \/ /\ data[s][w] # None
              /\ \A b \in Bucket : loaded'[s][w][b] =
                   IF b = pipe[s][w][1].b THEN data[s][w] ELSE loaded[s][w][b]
    BY <1>1, <1>3, WorkStep
  <2>2. \A b \in Bucket : Sent(s, b)' <=> Sent(s, b)
    BY <2>1 DEF Sent
  <2>3. CASE u # w \/ data[s][w] = None
    BY <2>1, <2>2, <2>3, LoadedFrame
  <2>4. CASE u = w /\ data[s][w] # None
    <3>1. data[s][w] \in [b : Bucket, v : Nat] /\ data[s][w].b = pipe[s][w][1].b
      BY <1>1, <2>4 DEF Types, WorkerTypes, Received
    <3>2. ASSUME NEW b \in Bucket, Sent(s, b) PROVE loaded'[s][w][b] = [b |-> b, v |-> ver]
      <4>1. data[s][w].v = ver
        BY <2>4, <3>2 DEF Loaded
      <4>2. CASE b = pipe[s][w][1].b
        BY <2>1, <2>4, <3>1, <4>1, <4>2
      <4>3. CASE b # pipe[s][w][1].b
        <5>1. data[s][w] # [b |-> b, v |-> ver]
          BY <3>1, <4>3
        <5>2. loaded[s][w][b] = [b |-> b, v |-> ver]
          BY <2>4, <3>2, <5>1 DEF Loaded
        <5>3. QED BY <2>1, <2>4, <4>3, <5>2
      <4>4. QED BY <4>2, <4>3
    <3>3. QED BY <2>1, <2>2, <2>4, <3>2 DEF Loaded
  <2>5. QED BY <2>3, <2>4
<1>4. QED BY <1>2, <1>3

LEMMA NextLInv ==
  ASSUME SInv, LInv, [Next]_vars, "load" \notin MayRaise PROVE LInv'
<1>1. Types
  BY DEF SInv
<1>2. ASSUME NEW s \in Server, NEW w \in Worker PROVE Loaded(s, w)'
  <2>1. Loaded(s, w)
    BY DEF LInv
  <2>2. CASE UNCHANGED vars
    BY <2>1, <2>2, LoadedFrame DEF vars, clientVars, workerVars, Sent
  <2>3. CASE CheckServer \/ Crash \/ Restart
    BY <2>3 DEF CheckServer, Crash, Restart, Loaded, Sent
  <2>4. CASE Join
    BY <2>1, <2>4, LoadedJoin
  <2>5. ASSUME NEW t \in Server, Local(t) PROVE Loaded(s, w)'
    <3>1. CASE t # s
      <4>1. Same(s)
        BY <1>1, <2>5, <3>1, Elsewhere
      <4>2. QED BY <2>1, <4>1, LoadedFrame DEF Same, Sent
    <3>2. CASE t = s /\ ~Broadcast(s) /\ \A u \in Worker : ~Work(s, u)
      <4>1. UNCHANGED <<phase, bucket, ver, data, loaded>>
        BY <2>5, <3>2 DEF Local, Post, Response, NoResponse, NoRendezvous, Rendezvous, ServerUp,
           Collect, Handle, clientVars, workerVars
      <4>2. DOMAIN th = Server
        BY <1>1 DEF Types, ClientTypes
      <4>3. phase = "update" /\ th'[s] = "done" => th[s] = "done"
        BY <2>5, <3>2, <4>2 DEF Local, Post, Response, NoResponse, NoRendezvous, Rendezvous, ServerUp,
           Collect, Handle, AttemptFailed, Op, clientVars
      <4>4. \A b \in Bucket : Sent(s, b)' => Sent(s, b)
        BY <4>1, <4>3 DEF Sent
      <4>5. QED BY <2>1, <4>1, <4>4, LoadedFrame
    <3>3. CASE t = s /\ Broadcast(s)
      BY <2>1, <3>3, LoadedBroadcast
    <3>4. CASE t = s /\ \E u \in Worker : Work(s, u)
      BY <2>1, <3>4, LoadedWork
    <3>5. QED BY <3>1, <3>2, <3>3, <3>4
  <2>6. QED BY <2>2, <2>3, <2>4, <2>5, Steps
<1>3. QED BY <1>2 DEF LInv

(* The rollouts of every round run, on every worker of every server, on all *)
(* the buckets of the last synchronisation, although the workers load them  *)
(* after the client has gone on and acknowledge nothing: a worker executes  *)
(* the commands of its pipe in order, and the client posts the rollout only *)
(* when every server has received every bucket.  A load_weights that raises *)
(* is not reported to the client, so the theorem excludes it.               *)
THEOREM RolloutsOnLatestWeights ==
  ASSUME NoUpdateRetry, MaxCrashes <= 1, "load" \notin MayRaise
  PROVE  Spec => []RolloutWeights
<1>1. Init => LInv
  BY DEF Init, LInv, Loaded, Sent
<1>2. ASSUME SInv, LInv, NEW s \in Server, NEW w \in Worker, Rolling(s, w)
      PROVE  Version(s, w) = ver
  <2>1. phase = "infer" /\ data[s][w] = None
    BY <1>2 DEF Rolling, Executing
  <2>2. \A b \in Bucket : loaded[s][w][b] = [b |-> b, v |-> ver]
    <3>1. ASSUME NEW b \in Bucket PROVE loaded[s][w][b] = [b |-> b, v |-> ver]
      <4>1. data[s][w] # [b |-> b, v |-> ver]
        BY <2>1, Something
      <4>2. Sent(s, b) /\ Loaded(s, w)
        BY <1>2, <2>1 DEF LInv, Sent
      <4>3. QED BY <4>1, <4>2 DEF Loaded
    <3>2. QED BY <3>1
  <2>3. loaded[s][w][1].v = ver
    <3>1. 1 \in Bucket
      BY Sizes
    <3>2. loaded[s][w][1] = [b |-> 1, v |-> ver]
      BY <2>2, <3>1
    <3>3. QED BY <3>2
  <2>4. QED BY <2>2, <2>3 DEF Version
<1>3. SInv /\ LInv => RolloutWeights
  BY <1>2 DEF RolloutWeights
<1>4. SInv /\ [Next]_vars => SInv'
  BY NextSInv
<1>5. SInv /\ LInv /\ [Next]_vars => LInv'
  BY NextLInv
<1>6. QED BY <1>1, <1>3, <1>4, <1>5, InitSInv, PTL DEF Spec

-----------------------------------------------------------------------------
(* The calls and their replies.                                             *)

LEMMA SingleReply == \A e : Single(Append(<< >>, e))
<1>1. ASSUME NEW e PROVE Append(<< >>, e) # << >> /\ Tail(Append(<< >>, e)) = << >>
  <2>1. Append(<< >>, e) = <<e>>
    OBVIOUS
  <2>2. <<e>> # << >> /\ Tail(<<e>>) = << >>
    OBVIOUS
  <2>3. QED BY <2>1, <2>2
<1>2. QED BY <1>1 DEF Single

LEMMA TablesStep ==
  ASSUME Types, Tables, NEW s \in Server, Local(s)
  PROVE  /\ Tables'
         /\ \A t \in Server : t # s => /\ cache'[t] = cache[t] /\ reply'[t] = reply[t]
                                       /\ up'[t] = up[t] /\ ready'[t] = ready[t]
<1>1. DOMAIN up = Server /\ DOMAIN ready = Server
  BY DEF Types, ServerTypes, WorkerTypes
<1>2. CASE Post(s) \/ Response(s) \/ NoResponse(s) \/ NoRendezvous(s) \/ Rendezvous(s) \/ Broadcast(s)
  BY <1>2 DEF Post, Response, NoResponse, NoRendezvous, Rendezvous, Broadcast, serverVars, workerVars,
     Tables
<1>3. CASE ServerUp(s)
  BY <1>1, <1>3 DEF ServerUp, workerVars, Tables
<1>4. CASE Collect(s)
  <2>1. UNCHANGED <<up, workerVars>> /\ reply' = [reply EXCEPT ![s][busy[s].next] = Tail(@)]
    BY <1>4 DEF Collect
  <2>2. QED BY <2>1 DEF workerVars, Tables
<1>5. CASE \E m \in net[s] : Handle(s, m)
  BY <1>5 DEF Handle, workerVars, Tables
<1>6. ASSUME NEW w \in Worker, Work(s, w)
      PROVE  /\ Tables'
             /\ \A t \in Server : t # s => /\ cache'[t] = cache[t] /\ reply'[t] = reply[t]
                                           /\ up'[t] = up[t] /\ ready'[t] = ready[t]
  <2>1. UNCHANGED up
    BY <1>6 DEF Work, WorkerReady, Infer, ResetPrefixCache, CloseCommunicator, LoadWeights, Raise
  <2>2. UNCHANGED reply \/ \E e : reply' = [reply EXCEPT ![s][w] = Append(@, e)]
    BY <1>6 DEF Work, WorkerReady, Infer, ResetPrefixCache, CloseCommunicator, LoadWeights, Raise
  <2>3. UNCHANGED cache \/ \E c : cache' = [cache EXCEPT ![s][w] = c]
    BY <1>6 DEF Work, WorkerReady, Infer, ResetPrefixCache, CloseCommunicator, LoadWeights, Raise,
       workerVars
  <2>4. UNCHANGED ready \/ ready' = [ready EXCEPT ![s][w] = TRUE]
    BY <1>6 DEF Work, WorkerReady, Infer, ResetPrefixCache, CloseCommunicator, LoadWeights, Raise,
       workerVars
  <2>5. QED BY <1>1, <2>1, <2>2, <2>3, <2>4 DEF Tables
<1>7. QED BY <1>2, <1>3, <1>4, <1>5, <1>6 DEF Local

LEMMA CallsFrame ==
  ASSUME NEW s \in Server, Calls(s), up'[s] = up[s], ready'[s] = ready[s], reply'[s] = reply[s],
         busy'[s] = busy[s], pipe'[s] = pipe[s]
  PROVE  Calls(s)'
BY DEF Calls, Orderly, Call

LEMMA CallsServerUp ==
  ASSUME Types, Tables, NEW s \in Server, Calls(s), ServerUp(s) PROVE Calls(s)'
<1>1. /\ UNCHANGED <<busy, pipe, ready>> /\ up'[s]
      /\ \A w \in Worker : reply[s][w] # << >> /\ reply'[s][w] = Tail(reply[s][w])
      /\ ~up[s]
  BY DEF ServerUp, workerVars, Types, ServerTypes, Tables
<1>2. \A w \in Worker : ready[s][w] /\ reply'[s][w] = << >> /\ pipe[s][w] = << >>
  BY <1>1 DEF Calls, Orderly, Single
<1>3. QED BY <1>1, <1>2 DEF Calls, Orderly, Call

LEMMA CallsHandle ==
  ASSUME Types, NEW s \in Server, Calls(s), NEW m \in net[s], Handle(s, m) PROVE Calls(s)'
<1>1. UNCHANGED <<up, reply, ready>> /\ up[s]
  BY DEF Handle, workerVars
<1>2. ~Call(s) /\ \A w \in Worker : /\ ready[s][w] /\ reply[s][w] = << >>
                                    /\ \A i \in DOMAIN pipe[s][w] : ~IsCall(pipe[s][w][i].op)
  BY <1>1, HandleStep DEF Calls, Orderly
<1>3. ASSUME NEW w \in Worker, NEW i \in DOMAIN pipe'[s][w], IsCall(pipe'[s][w][i].op)
      PROVE  IsCall(m.op) /\ pipe'[s][w][i].op = m.op /\ i \notin DOMAIN pipe[s][w]
  BY <1>2, <1>3, HandleStep
<1>4. \A w \in Worker : \A i, j \in DOMAIN pipe'[s][w] :
        i \notin DOMAIN pipe[s][w] /\ j \notin DOMAIN pipe[s][w] => i = j
  BY HandleStep
<1>5. IsCall(m.op) => Call(s)' /\ busy'[s].m = m /\ busy'[s].next = 1
  <2>1. SUFFICES ASSUME IsCall(m.op) PROVE Call(s)' /\ busy'[s].m = m /\ busy'[s].next = 1
    OBVIOUS
  <2>2. busy' = [busy EXCEPT ![s] = [m |-> m, next |-> 1, out |-> << >>, bad |-> FALSE]]
    BY <2>1 DEF Handle
  <2>3. busy'[s].next = 1
    BY <2>2 DEF Types, ServerTypes
  <2>4. QED BY <2>1, <2>3, HandleStep
<1>6. \A w \in Worker : 1 <= w
  BY DEF Worker
<1>7. QED BY <1>1, <1>2, <1>3, <1>4, <1>5, <1>6 DEF Calls, Orderly

(* The last reply is collected when no worker has the call any more.        *)
LEMMA CollectCalls ==
  ASSUME Types, Tables, NEW s \in Server, Calls(s), Collect(s)
  PROVE  /\ Calls(s)'
         /\ ~Call(s)' => \A w \in Worker : ~HasCall(s, w)
<1>1. UNCHANGED <<up, pipe, ready>> /\ busy[s] # None /\ Call(s)
  BY DEF Collect, workerVars, Call
<1>2. PICK w \in Worker : w = busy[s].next
  BY <1>1 DEF Types, ServerTypes, Call
<1>3. /\ reply[s][w] # << >> /\ reply'[s][w] = Tail(reply[s][w])
      /\ \A u \in Worker : u # w => reply'[s][u] = reply[s][u]
  BY <1>2 DEF Collect, Tables
<1>4. up[s]
  BY <1>1 DEF Calls, Orderly
<1>5. reply'[s][w] = << >>
  BY <1>2, <1>3, <1>4 DEF Calls, Orderly, Single
<1>6. ASSUME NEW u \in Worker, HasCall(s, u) \/ reply'[s][u] # << >>
      PROVE  busy[s].next <= u /\ u # w
  BY <1>2, <1>3, <1>4, <1>5, <1>6 DEF Calls, Orderly, HasCall
<1>7. /\ DOMAIN busy = Server /\ w \in Nat /\ NumWorkers \in Nat
      /\ \A u \in Worker : u \in Nat /\ u <= NumWorkers
  BY SyncConstants DEF Types, ServerTypes, Worker
<1>8. CASE busy[s].next < NumWorkers
  <2>1. PICK got, bad : busy' = [busy EXCEPT ![s] =
           [busy[s] EXCEPT !.next = busy[s].next + 1, !.out = got, !.bad = bad]]
    BY <1>8 DEF Collect
  <2>2. PICK call : call = busy'[s]
    OBVIOUS
  <2>3. call = [busy[s] EXCEPT !.next = busy[s].next + 1, !.out = got, !.bad = bad]
    BY <1>7, <2>1, <2>2
  <2>4. Call(s)' /\ busy'[s].m = busy[s].m /\ busy'[s].next = w + 1
    <3>1. busy'[s] # None
      <4>1. DOMAIN call = DOMAIN busy[s]
        BY <2>3
      <4>2. "m" \in DOMAIN busy[s]
        BY <1>1 DEF Types, ServerTypes
      <4>3. QED BY <2>2, <4>1, <4>2 DEF None
    <3>2. QED BY <1>2, <2>2, <2>3, <3>1 DEF Call
  <2>5. \A u \in Worker : HasCall(s, u) \/ reply'[s][u] # << >> => busy'[s].next <= u
    BY <1>2, <1>6, <1>7, <2>4
  <2>6. QED BY <1>1, <1>3, <1>4, <1>5, <2>4, <2>5 DEF Calls, Orderly, HasCall
<1>9. CASE ~(busy[s].next < NumWorkers)
  <2>1. busy' = [busy EXCEPT ![s] = None]
    BY <1>9 DEF Collect
  <2>2. ~Call(s)'
    BY <1>7, <2>1 DEF Call
  <2>3. \A u \in Worker : ~HasCall(s, u) /\ reply'[s][u] = << >>
    BY <1>2, <1>6, <1>7, <1>9
  <2>4. QED BY <1>1, <1>4, <2>2, <2>3 DEF Calls, Orderly, HasCall
<1>10. QED BY <1>8, <1>9

(* A worker replies to the call it takes from its pipe, and to nothing else. *)
LEMMA WorkReply ==
  ASSUME Types, Tables, NEW s \in Server, NEW w \in Worker, Receiving(s, w), Work(s, w),
         ~WorkerReady(s, w)
  PROVE  /\ UNCHANGED <<up, ready, busy>> /\ pipe[s][w] # << >>
         /\ \A u \in Worker : u # w => reply'[s][u] = reply[s][u] /\ cache'[s][u] = cache[s][u]
         /\ IF IsCall(pipe[s][w][1].op)
              THEN /\ \E e : reply'[s][w] = Append(reply[s][w], e)
                   /\ \/ pipe[s][w][1].op = "reset" /\ cache'[s][w] = 0
                      \/ pipe[s][w][1].op \in MayRaise /\ cache'[s][w] = cache[s][w]
                      \/ pipe[s][w][1].op = "infer"
              ELSE reply'[s][w] = reply[s][w] /\ cache'[s][w] = cache[s][w]
<1>1. UNCHANGED <<up, busy, ready>>
  BY DEF Work, WorkerReady, Infer, ResetPrefixCache, CloseCommunicator, LoadWeights, Raise, workerVars
<1>2. pipe[s][w] \in Seq(Cmd)
  BY DEF Types, PipeTypes
<1>3. pipe[s][w] # << >>
  BY <1>2, HasCommand
<1>4. Head(pipe[s][w]) = pipe[s][w][1]
  BY <1>2, <1>3, TailFacts
<1>5. CASE Infer(s, w)
  <2>1. /\ pipe[s][w][1].op = "infer"
        /\ \E e : reply' = [reply EXCEPT ![s][w] = Append(@, e)]
        /\ \E c : cache' = [cache EXCEPT ![s][w] = c]
    BY <1>4, <1>5 DEF Infer, Executing
  <2>2. PICK e, c : /\ reply' = [reply EXCEPT ![s][w] = Append(@, e)]
                    /\ cache' = [cache EXCEPT ![s][w] = c]
    BY <2>1
  <2>3. /\ reply'[s][w] = Append(reply[s][w], e)
        /\ \A u \in Worker : u # w => reply'[s][u] = reply[s][u] /\ cache'[s][u] = cache[s][u]
    BY <2>2 DEF Tables
  <2>4. QED BY <1>1, <1>3, <2>1, <2>3 DEF IsCall
<1>6. CASE ResetPrefixCache(s, w)
  <2>1. /\ pipe[s][w][1].op = "reset"
        /\ \E e : reply' = [reply EXCEPT ![s][w] = Append(@, e)]
        /\ cache' = [cache EXCEPT ![s][w] = 0]
    BY <1>4, <1>6 DEF ResetPrefixCache, Executing
  <2>2. PICK e : reply' = [reply EXCEPT ![s][w] = Append(@, e)]
    BY <2>1
  <2>3. /\ reply'[s][w] = Append(reply[s][w], e) /\ cache'[s][w] = 0
        /\ \A u \in Worker : u # w => reply'[s][u] = reply[s][u] /\ cache'[s][u] = cache[s][u]
    BY <2>1, <2>2 DEF Tables
  <2>4. QED BY <1>1, <1>3, <2>1, <2>3 DEF IsCall
<1>7. CASE CloseCommunicator(s, w)
  BY <1>1, <1>3, <1>4, <1>7 DEF CloseCommunicator, Executing, IsCall
<1>8. CASE LoadWeights(s, w)
  BY <1>1, <1>3, <1>8 DEF LoadWeights, Receiving, At, IsCall
<1>9. CASE Raise(s, w)
  <2>1. PICK op : /\ Executing(s, w, op)
                  /\ reply' = IF IsCall(op)
                                THEN [reply EXCEPT ![s][w] = Append(@, Lost)] ELSE reply
                  /\ IsCall(op) => op \in MayRaise
                  /\ UNCHANGED cache
    BY <1>9 DEF Raise, IsCall, workerVars
  <2>2. pipe[s][w][1].op = op
    BY <1>4, <2>1 DEF Executing
  <2>3. QED BY <1>1, <1>3, <2>1, <2>2 DEF Tables
<1>10. QED BY <1>5, <1>6, <1>7, <1>8, <1>9 DEF Work

LEMMA CallsWork ==
  ASSUME Types, Tables, NEW s \in Server, NEW w \in Worker, Receiving(s, w), Calls(s), Work(s, w)
  PROVE  Calls(s)'
<1>1. CASE WorkerReady(s, w)
  <2>1. UNCHANGED <<up, busy, pipe>> /\ ~ready[s][w]
    BY <1>1 DEF WorkerReady
  <2>2. ~up[s] /\ reply[s][w] = << >>
    BY <2>1 DEF Calls, Orderly
  <2>3. /\ ready'[s][w] /\ \A u \in Worker : u # w => ready'[s][u] = ready[s][u]
        /\ reply'[s][w] = Append(<< >>, <<0>>)
        /\ \A u \in Worker : u # w => reply'[s][u] = reply[s][u]
    BY <1>1, <2>2 DEF WorkerReady, Types, WorkerTypes, Tables
  <2>4. Single(reply'[s][w])
    BY <2>3, SingleReply
  <2>5. QED BY <2>1, <2>2, <2>3, <2>4 DEF Calls, Orderly, Call
<1>2. CASE ~WorkerReady(s, w)
  <2>1. /\ UNCHANGED <<up, ready, busy>> /\ pipe[s][w] # << >>
        /\ \A u \in Worker : u # w => reply'[s][u] = reply[s][u]
        /\ IF IsCall(pipe[s][w][1].op)
             THEN \E e : reply'[s][w] = Append(reply[s][w], e)
             ELSE reply'[s][w] = reply[s][w]
    BY <1>2, WorkReply
  <2>2. Takes(s, w)
    BY <1>2, TypesWork
  <2>3. up[s] /\ (Call(s)' <=> Call(s))
    BY <2>1 DEF Calls, Orderly, Call
  <2>4. pipe[s][w] \in Seq(Cmd) /\ pipe'[s][w] = Tail(pipe[s][w])
    BY <2>2 DEF Types, PipeTypes, Takes
  <2>5. /\ 1 \in DOMAIN pipe[s][w]
        /\ \A i \in DOMAIN pipe'[s][w] : /\ i \in Nat /\ i >= 1 /\ i + 1 \in DOMAIN pipe[s][w]
                                         /\ pipe'[s][w][i] = pipe[s][w][i + 1]
    BY <2>1, <2>4, TailFacts
  <2>6. ASSUME NEW u \in Worker, u # w PROVE Orderly(s, u)'
    <3>1. /\ pipe'[s][u] = pipe[s][u] /\ reply'[s][u] = reply[s][u]
          /\ busy'[s] = busy[s] /\ ready'[s][u] = ready[s][u]
      BY <2>1, <2>2, <2>6 DEF Takes
    <3>2. Orderly(s, u)
      BY <2>3 DEF Calls
    <3>3. QED BY <3>1, <3>2 DEF Orderly, Call
  <2>7. CASE IsCall(pipe[s][w][1].op)
    <3>1. Call(s) /\ busy[s].next <= w /\ reply[s][w] = << >>
      BY <2>3, <2>5, <2>7 DEF Calls, Orderly
    <3>2. Single(reply'[s][w])
      BY <2>1, <2>7, <3>1, SingleReply
    <3>3. ASSUME NEW i \in DOMAIN pipe'[s][w] PROVE ~IsCall(pipe'[s][w][i].op)
      <4>1. i + 1 # 1 /\ i + 1 \in DOMAIN pipe[s][w]
        BY <2>5
      <4>2. ~IsCall(pipe[s][w][i + 1].op)
        BY <2>3, <2>5, <2>7, <4>1 DEF Calls, Orderly
      <4>3. QED BY <2>5, <4>2
    <3>4. Orderly(s, w)'
      BY <2>1, <2>3, <3>1, <3>2, <3>3 DEF Calls, Orderly
    <3>5. QED BY <2>1, <2>3, <2>6, <3>4 DEF Calls
  <2>8. CASE ~IsCall(pipe[s][w][1].op)
    <3>1. ASSUME NEW i \in DOMAIN pipe'[s][w], IsCall(pipe'[s][w][i].op)
          PROVE  /\ Call(s) /\ busy[s].next <= w /\ pipe'[s][w][i].op = busy[s].m.op
                 /\ reply[s][w] = << >>
                 /\ \A j \in DOMAIN pipe'[s][w] : IsCall(pipe'[s][w][j].op) => j = i
      <4>1. i + 1 \in DOMAIN pipe[s][w] /\ pipe'[s][w][i] = pipe[s][w][i + 1]
        BY <2>5
      <4>2. /\ Call(s) /\ busy[s].next <= w /\ pipe'[s][w][i].op = busy[s].m.op
            /\ reply[s][w] = << >>
            /\ \A j \in DOMAIN pipe[s][w] : IsCall(pipe[s][w][j].op) => j = i + 1
        BY <2>3, <3>1, <4>1 DEF Calls, Orderly
      <4>3. ASSUME NEW j \in DOMAIN pipe'[s][w], IsCall(pipe'[s][w][j].op) PROVE j = i
        <5>1. j + 1 = i + 1 /\ i \in Nat /\ j \in Nat
          BY <2>5, <4>2, <4>3
        <5>2. QED BY <5>1
      <4>4. QED BY <4>2, <4>3
    <3>2. Orderly(s, w)'
      <4>1. reply'[s][w] = reply[s][w] /\ busy'[s] = busy[s] /\ ready'[s][w] = ready[s][w]
        BY <2>1, <2>8
      <4>2. /\ ready[s][w]
            /\ reply[s][w] # << >> => Call(s) /\ busy[s].next <= w /\ Single(reply[s][w])
        BY <2>3 DEF Calls, Orderly
      <4>3. QED BY <2>3, <3>1, <4>1, <4>2 DEF Orderly
    <3>3. QED BY <2>1, <2>3, <2>6, <3>2 DEF Calls
  <2>9. QED BY <2>7, <2>8
<1>3. QED BY <1>1, <1>2

LEMMA CallsRendezvous ==
  ASSUME Types, NEW s \in Server, Calls(s), Rendezvous(s) PROVE Calls(s)'
<1>1. /\ UNCHANGED <<up, ready, busy, reply>>
      /\ \A w \in Worker : /\ pipe'[s][w] = Tail(pipe[s][w]) /\ pipe[s][w] # << >>
                           /\ pipe[s][w] \in Seq(Cmd)
  BY DEF Rendezvous, Executing, Types, PipeTypes
<1>2. up[s]
  BY <1>1, Sizes DEF Calls, Orderly
<1>3. ASSUME NEW w \in Worker, NEW i \in DOMAIN pipe'[s][w]
      PROVE  i \in Nat /\ i + 1 \in DOMAIN pipe[s][w] /\ pipe'[s][w][i] = pipe[s][w][i + 1]
  <2>1. pipe'[s][w] = Tail(pipe[s][w]) /\ pipe[s][w] # << >> /\ pipe[s][w] \in Seq(Cmd)
    BY <1>1
  <2>2. QED BY <1>3, <2>1, TailFacts
<1>4. ASSUME NEW w \in Worker, NEW i \in DOMAIN pipe'[s][w], IsCall(pipe'[s][w][i].op)
      PROVE  /\ Call(s) /\ busy[s].next <= w /\ pipe'[s][w][i].op = busy[s].m.op
             /\ reply[s][w] = << >>
             /\ \A j \in DOMAIN pipe'[s][w] : IsCall(pipe'[s][w][j].op) => j = i
  <2>1. /\ Call(s) /\ busy[s].next <= w /\ pipe'[s][w][i].op = busy[s].m.op
        /\ reply[s][w] = << >>
        /\ \A j \in DOMAIN pipe[s][w] : IsCall(pipe[s][w][j].op) => j = i + 1
    BY <1>2, <1>3, <1>4 DEF Calls, Orderly
  <2>2. ASSUME NEW j \in DOMAIN pipe'[s][w], IsCall(pipe'[s][w][j].op) PROVE j = i
    <3>1. j + 1 = i + 1 /\ i \in Nat /\ j \in Nat
      BY <1>3, <2>1, <2>2
    <3>2. QED BY <3>1
  <2>3. QED BY <2>1, <2>2
<1>5. QED BY <1>1, <1>2, <1>4 DEF Calls, Orderly, Call

-----------------------------------------------------------------------------
(* No call of a dead trainer is served after the rendezvous.                *)

LEMMA NoOldCallLocal ==
  ASSUME SInv, NEW s \in Server, NoOldCall(s), Local(s) PROVE NoOldCall(s)'
<1>1. /\ Types /\ Requests(s) /\ Stale(s) /\ UNCHANGED <<phase, epoch>>
  BY DEF SInv, Requests, Local, Post, Response, NoResponse, NoRendezvous, Rendezvous, Broadcast,
     ServerUp, Collect, Handle, Work, WorkerReady, Infer, ResetPrefixCache, CloseCommunicator,
     LoadWeights, Raise, clientVars
<1>2. DOMAIN th = Server /\ DOMAIN resp = Server
  BY <1>1 DEF Types, ClientTypes, HttpTypes
<1>3. CASE Post(s) \/ Response(s) \/ NoResponse(s) \/ NoRendezvous(s) \/ Rendezvous(s) \/ Broadcast(s)
  <2>1. UNCHANGED busy
    BY <1>3 DEF Post, Response, NoResponse, NoRendezvous, Rendezvous, Broadcast, serverVars
  <2>2. phase = "init" /\ (th'[s] \in {"nccl", "done"} \/ Responded(s)') =>
          th[s] \in {"nccl", "done"} \/ Responded(s)
    BY <1>2, <1>3 DEF Post, Response, NoResponse, NoRendezvous, Rendezvous, Broadcast, Responded,
       AttemptFailed
  <2>3. QED BY <1>1, <2>1, <2>2 DEF NoOldCall, Call
<1>4. CASE ServerUp(s) \/ \E w \in Worker : Work(s, w)
  <2>1. UNCHANGED <<busy, th, resp>>
    BY <1>4 DEF ServerUp, Work, WorkerReady, Infer, ResetPrefixCache, CloseCommunicator,
       LoadWeights, Raise, clientVars, httpVars
  <2>2. QED BY <1>1, <2>1 DEF NoOldCall, Call, Responded
<1>5. CASE Collect(s)
  <2>1. UNCHANGED th
    BY <1>5 DEF Collect, clientVars
  <2>2. QED BY <1>1, <1>5, <2>1, CollectStep DEF NoOldCall, Responded
<1>6. ASSUME NEW m \in net[s], Handle(s, m) PROVE NoOldCall(s)'
  <2>1. CASE IsCall(m.op)
    <3>1. busy'[s].m = m
      BY <1>1, <1>6, <2>1, HandleStep
    <3>2. m.epoch = epoch
      BY <1>1, <2>1 DEF Stale, Live, IsCall
    <3>3. QED BY <1>1, <3>1, <3>2 DEF NoOldCall
  <2>2. CASE ~IsCall(m.op)
    BY <1>1, <1>6, <2>2, HandleStep DEF NoOldCall, Call
  <2>3. QED BY <2>1, <2>2
<1>7. QED BY <1>3, <1>4, <1>5, <1>6 DEF Local

LEMMA NoOldCallJoin ==
  ASSUME SInv, Join, NEW s \in Server, NoOldCall(s) PROVE NoOldCall(s)'
<1>1. UNCHANGED <<epoch, busy, resp>> /\ th'[s] = "idle"
  BY DEF Join, httpVars, serverVars
<1>2. Types
  BY DEF SInv
<1>3. phase' \in Live => phase \in Live \/ (phase = "init" /\ th[s] = "done")
  BY <1>2, JoinPhase DEF Live
<1>4. QED BY <1>1, <1>3 DEF NoOldCall, Call, Responded

-----------------------------------------------------------------------------
(* The prefix cache.                                                        *)

LEMMA ResetFrame ==
  ASSUME NEW s \in Server, NEW w \in Worker, Reset(s, w), UNCHANGED <<phase, epoch>>,
         th'[s] = th[s], resp'[s] = resp[s], net'[s] = net[s], busy'[s] = busy[s],
         pipe'[s] = pipe[s], cache'[s] = cache[s]
  PROVE  Reset(s, w)'
BY DEF Reset, Serving, HasCall, Responded, Posted, Call

(* The call that a worker has is of the operation at hand.                  *)
LEMMA CallAtHand ==
  ASSUME SInv, NEW s \in Server, NEW w \in Worker, Calls(s), NoOldCall(s), HasCall(s, w),
         phase \in {"reset", "infer"}
  PROVE  /\ Serving(s) /\ busy[s].m.op = phase
         /\ \A i \in DOMAIN pipe[s][w] : IsCall(pipe[s][w][i].op) => pipe[s][w][i].op = phase
         /\ Posted(s) = {} /\ th[s] \in {"posting", "err"}
<1>1. up[s] /\ Call(s)
  BY DEF Calls, Orderly, HasCall
<1>2. Serving(s)
  BY <1>1 DEF NoOldCall, Live, Serving
<1>3. One(s) /\ Asked(s) /\ ~Over
  BY DEF SInv, Requests, Over
<1>4. QED BY <1>1, <1>2, <1>3 DEF Calls, Orderly, One, Asked, Matches

LEMMA ResetClient ==
  ASSUME SInv, NEW s \in Server, NEW w \in Worker, Reset(s, w),
         Post(s) \/ Response(s) \/ NoResponse(s) \/ NoRendezvous(s) \/ Rendezvous(s) \/ Broadcast(s)
  PROVE  Reset(s, w)'
<1>1. Types /\ UNCHANGED <<phase, epoch, cache, busy>>
  BY DEF SInv, Post, Response, NoResponse, NoRendezvous, Rendezvous, Broadcast, serverVars, workerVars
<1>2. CASE phase \notin {"reset", "infer"}
  BY <1>1, <1>2 DEF Reset
<1>3. CASE phase \in {"reset", "infer"}
  <2>1. Post(s) \/ Response(s) \/ NoResponse(s)
    BY <1>3 DEF NoRendezvous, Rendezvous, Broadcast
  <2>2. UNCHANGED pipe
    BY <2>1 DEF Post, Response, NoResponse, serverVars
  <2>3. (Serving(s)' <=> Serving(s)) /\ (HasCall(s, w)' <=> HasCall(s, w))
    BY <1>1, <2>2 DEF Serving, Call, HasCall
  <2>4. DOMAIN th = Server /\ DOMAIN resp = Server /\ DOMAIN net = Server
    BY <1>1 DEF Types, ClientTypes, HttpTypes
  <2>5. CASE Post(s)
    <3>1. th[s] = "idle" /\ th'[s] = "posting" /\ resp'[s] = None
      BY <2>4, <2>5 DEF Post
    <3>2. QED BY <1>1, <2>3, <3>1 DEF Reset, Responded
  <2>6. CASE Response(s) \/ NoResponse(s)
    <3>1. ~(attempt[s] < RetryLimit)
      <4>1. attempt[s] \in Nat /\ attempt[s] >= 1
        BY <1>1 DEF Types, ClientTypes
      <4>2. RetryLimit = 1
        BY <1>3 DEF RetryLimit, Op
      <4>3. QED BY <4>1, <4>2
    <3>2. \/ th'[s] = "err"
          \/ th'[s] = "done" /\ Responded(s)
      BY <1>3, <2>4, <2>6, <3>1 DEF Response, NoResponse, AttemptFailed, Op, Responded
    <3>3. Posted(s)' \subseteq Posted(s)
      BY <1>1, <2>4, <2>6 DEF Response, NoResponse, httpVars, Posted
    <3>4. QED BY <1>1, <2>3, <3>2, <3>3 DEF Reset, Responded
  <2>7. QED BY <2>1, <2>5, <2>6
<1>4. QED BY <1>2, <1>3

LEMMA ResetJoin ==
  ASSUME SInv, Join, NEW s \in Server, NEW w \in Worker, Reset(s, w) PROVE Reset(s, w)'
<1>1. UNCHANGED <<epoch, cache, busy, net, resp, pipe>> /\ th'[s] = "idle"
  BY DEF Join, httpVars, serverVars, workerVars
<1>2. Types /\ Asked(s)
  BY DEF SInv, Requests
<1>3. CASE phase' = "reset"
  <2>1. phase = "update" /\ th[s] = "done"
    BY <1>2, <1>3, JoinPhase
  <2>2. ~Serving(s)
    BY <1>2, <2>1, Quiet DEF Over
  <2>3. QED BY <1>1, <1>3, <2>2 DEF Reset, Serving, Call, Responded
<1>4. CASE phase' = "infer"
  <2>1. phase = "reset" /\ th[s] = "done"
    BY <1>2, <1>4, JoinPhase
  <2>2. QED BY <1>1, <1>4, <2>1 DEF Reset
<1>5. QED BY <1>3, <1>4 DEF Reset

LEMMA ResetHandle ==
  ASSUME SInv, NEW s \in Server, NEW w \in Worker, Reset(s, w), NEW m \in net[s], Handle(s, m)
  PROVE  Reset(s, w)'
<1>1. /\ Types /\ Stale(s) /\ Connections(s)
      /\ UNCHANGED <<phase, epoch, cache, th, conn>> /\ ~Call(s) /\ net'[s] = net[s] \ {m}
  BY HandleStep DEF SInv, Requests, Handle, workerVars
<1>2. Serving(s)' => IsCall(m.op) /\ m \in Posted(s)
  BY <1>1, HandleStep DEF Serving, Call, Posted, Stale, Live, IsCall
<1>3. IsCall(m.op) => HasCall(s, w)'
  <2>1. SUFFICES ASSUME IsCall(m.op) PROVE HasCall(s, w)'
    OBVIOUS
  <2>2. pipe[s][w] \in Seq(Cmd) /\ m \in Message
    BY <1>1 DEF Types, PipeTypes, HttpTypes
  <2>3. PICK e \in Cmd : e = Command(m, w) /\ e.op = m.op
    BY <2>2, CommandLemma
  <2>4. pipe'[s][w] = Append(pipe[s][w], e)
    BY <1>1, <2>3 DEF Handle, Types, PipeTypes
  <2>5. \E i \in DOMAIN pipe'[s][w] : pipe'[s][w][i] = e
    BY <2>2, <2>4, AppendFacts
  <2>6. QED BY <2>1, <2>3, <2>5 DEF HasCall
<1>4. Posted(s)' \subseteq Posted(s)
  BY <1>1 DEF Posted
<1>5. CASE phase = "reset"
  <2>1. Responded(s)' => Responded(s)
    <3>1. ASSUME Responded(s)', ~Responded(s) PROVE FALSE
      <4>1. ~IsCall(m.op) /\ th[s] = "posting" /\ conn[s] = m.conn
        BY <1>1, <3>1, HandleStep DEF Responded
      <4>2. m.op = "reset"
        BY <1>1, <1>5, <4>1 DEF Connections, Op
      <4>3. QED BY <4>1, <4>2 DEF IsCall
    <3>2. QED BY <3>1
  <2>2. QED BY <1>1, <1>2, <1>3, <1>5, <2>1 DEF Reset
<1>6. CASE phase = "infer"
  BY <1>1, <1>2, <1>4, <1>6 DEF Reset
<1>7. QED BY <1>1, <1>5, <1>6 DEF Reset

LEMMA ResetCollect ==
  ASSUME SInv, Tables, NEW s \in Server, NEW w \in Worker, Reset(s, w), Calls(s), Collect(s)
  PROVE  Reset(s, w)'
<1>1. /\ Types /\ Connections(s) /\ UNCHANGED <<phase, epoch, cache, th, conn, net, pipe>>
  BY DEF SInv, Requests, Collect, clientVars, workerVars
<1>2. (Serving(s)' => Serving(s)) /\ (HasCall(s, w)' <=> HasCall(s, w)) /\ Posted(s)' = Posted(s)
  BY <1>1, CollectStep DEF Serving, HasCall, Posted
<1>3. phase = "reset" /\ Responded(s)' /\ ~Responded(s) => Serving(s) /\ ~HasCall(s, w)
  <2>1. SUFFICES ASSUME Responded(s)', ~Responded(s) PROVE Serving(s) /\ ~HasCall(s, w)
    OBVIOUS
  <2>2. Call(s) /\ ~Call(s)' /\ th[s] = "posting" /\ conn[s] = busy[s].m.conn
    BY <1>1, <2>1, CollectStep DEF Responded
  <2>3. QED BY <1>1, <2>2, CollectCalls DEF Connections, Serving
<1>4. QED BY <1>1, <1>2, <1>3 DEF Reset

LEMMA ResetWork ==
  ASSUME SInv, Tables, NEW s \in Server, NEW w \in Worker, NEW u \in Worker, Work(s, u),
         Reset(s, w), Calls(s), NoOldCall(s), "reset" \notin MayRaise
  PROVE  Reset(s, w)'
<1>1. /\ Types /\ Received(s, u) /\ UNCHANGED <<phase, epoch, th, resp, net, busy>>
  BY DEF SInv, Requests, Work, WorkerReady, Infer, ResetPrefixCache, CloseCommunicator,
     LoadWeights, Raise, clientVars, httpVars
<1>2. CASE WorkerReady(s, u)
  BY <1>1, <1>2, ResetFrame DEF WorkerReady
<1>3. CASE ~WorkerReady(s, u)
  <2>1. /\ pipe[s][u] # << >> /\ up[s]
        /\ \A x \in Worker : x # u => cache'[s][x] = cache[s][x]
        /\ IF IsCall(pipe[s][u][1].op)
             THEN \/ pipe[s][u][1].op = "reset" /\ cache'[s][u] = 0
                  \/ pipe[s][u][1].op \in MayRaise /\ cache'[s][u] = cache[s][u]
                  \/ pipe[s][u][1].op = "infer"
             ELSE cache'[s][u] = cache[s][u]
    BY <1>1, <1>3, WorkReply DEF Calls, Received
  <2>2. Takes(s, u)
    BY <1>1, <1>3, TypesWork DEF Received
  <2>3. (Serving(s)' <=> Serving(s)) /\ (Responded(s)' <=> Responded(s)) /\ Posted(s)' = Posted(s)
    BY <1>1 DEF Serving, Call, Responded, Posted
  <2>4. CASE w # u
    BY <1>1, <2>1, <2>2, <2>3, <2>4 DEF Takes, Reset, HasCall
  <2>5. CASE w = u
    <3>1. pipe[s][w] \in Seq(Cmd) /\ pipe'[s][w] = Tail(pipe[s][w]) /\ pipe[s][w] # << >>
      BY <1>1, <2>2, <2>5 DEF Types, PipeTypes, Takes
    <3>2. /\ 1 \in DOMAIN pipe[s][w]
          /\ \A i \in DOMAIN pipe'[s][w] : /\ i \in Nat /\ i >= 1 /\ i + 1 \in DOMAIN pipe[s][w]
                                           /\ pipe'[s][w][i] = pipe[s][w][i + 1]
      BY <3>1, TailFacts
    <3>3. CASE IsCall(pipe[s][w][1].op)
      <4>1. HasCall(s, w)
        BY <3>2, <3>3 DEF HasCall
      <4>2. ~HasCall(s, w)'
        <5>1. ASSUME NEW i \in DOMAIN pipe'[s][w], IsCall(pipe'[s][w][i].op) PROVE FALSE
          <6>1. i + 1 # 1 /\ i + 1 \in DOMAIN pipe[s][w] /\ IsCall(pipe[s][w][i + 1].op)
            BY <3>2, <5>1
          <6>2. QED BY <2>1, <3>2, <3>3, <6>1 DEF Calls, Orderly
        <5>2. QED BY <5>1 DEF HasCall
      <4>3. CASE phase = "reset"
        <5>1. pipe[s][w][1].op = "reset"
          BY <3>2, <3>3, <4>1, <4>3, CallAtHand
        <5>2. cache'[s][w] = 0
          BY <2>1, <2>5, <3>3, <5>1
        <5>3. QED BY <1>1, <4>3, <5>2 DEF Reset
      <4>4. CASE phase = "infer"
        <5>1. Posted(s) = {} /\ th[s] # "idle"
          BY <4>1, <4>4, CallAtHand
        <5>2. QED BY <1>1, <2>3, <4>2, <4>4, <5>1 DEF Reset
      <4>5. QED BY <1>1, <4>3, <4>4 DEF Reset
    <3>4. CASE ~IsCall(pipe[s][w][1].op)
      <4>1. cache'[s][w] = cache[s][w]
        BY <2>1, <2>5, <3>4
      <4>2. HasCall(s, w)' <=> HasCall(s, w)
        <5>1. HasCall(s, w)' => HasCall(s, w)
          BY <3>2 DEF HasCall
        <5>2. ASSUME NEW i \in DOMAIN pipe[s][w], IsCall(pipe[s][w][i].op)
              PROVE  HasCall(s, w)'
          <6>1. i # 1
            BY <3>4, <5>2
          <6>2. PICK j \in DOMAIN Tail(pipe[s][w]) : Tail(pipe[s][w])[j] = pipe[s][w][i]
            BY <3>1, <6>1, TailRest
          <6>3. QED BY <3>1, <5>2, <6>2 DEF HasCall
        <5>3. QED BY <5>1, <5>2 DEF HasCall
      <4>3. QED BY <1>1, <2>3, <4>1, <4>2 DEF Reset
    <3>5. QED BY <3>3, <3>4
  <2>6. QED BY <2>4, <2>5
<1>4. QED BY <1>2, <1>3

LEMMA NextCInv ==
  ASSUME SInv, CInv, [Next]_vars, "reset" \notin MayRaise PROVE CInv'
<1>1. /\ Types /\ Tables /\ \A s \in Server, w \in Worker : Received(s, w) /\ Reset(s, w)
      /\ \A s \in Server : Calls(s) /\ NoOldCall(s)
  BY DEF SInv, CInv, Requests
<1>2. CASE UNCHANGED vars
  <2>1. UNCHANGED <<clientVars, httpVars, serverVars, workerVars>>
    BY <1>2 DEF vars
  <2>2. ASSUME NEW s \in Server PROVE Calls(s)' /\ NoOldCall(s)'
    BY <1>1, <2>1, CallsFrame DEF NoOldCall, Call, Responded, clientVars, httpVars, serverVars, workerVars
  <2>3. ASSUME NEW s \in Server, NEW w \in Worker PROVE Reset(s, w)'
    BY <1>1, <2>1, ResetFrame DEF clientVars, httpVars, serverVars, workerVars
  <2>4. Tables'
    BY <1>1, <2>1 DEF Tables, serverVars, workerVars
  <2>5. QED BY <2>2, <2>3, <2>4 DEF CInv
<1>3. CASE CheckServer \/ Join \/ Crash \/ Restart
  <2>1. UNCHANGED <<up, ready, reply, busy, pipe, cache>>
    BY <1>3 DEF CheckServer, Join, Crash, Restart, serverVars, workerVars
  <2>2. \A s \in Server : Calls(s)'
    BY <1>1, <2>1, CallsFrame
  <2>3. CASE CheckServer \/ Crash \/ Restart
    BY <1>1, <2>1, <2>2, <2>3 DEF CheckServer, Crash, Restart, CInv, NoOldCall, Reset, Live, Tables
  <2>4. CASE Join
    BY <1>1, <2>1, <2>2, <2>4, NoOldCallJoin, ResetJoin DEF CInv, Tables
  <2>5. QED BY <1>3, <2>3, <2>4
<1>4. ASSUME NEW s \in Server, Local(s) PROVE CInv'
  <2>1. ASSUME NEW t \in Server, t # s
        PROVE  Calls(t)' /\ NoOldCall(t)' /\ \A w \in Worker : Reset(t, w)'
    <3>1. /\ Same(t) /\ cache'[t] = cache[t] /\ reply'[t] = reply[t] /\ up'[t] = up[t]
          /\ ready'[t] = ready[t]
      BY <1>1, <1>4, <2>1, Elsewhere, TablesStep
    <3>2. Calls(t)'
      BY <1>1, <3>1, CallsFrame DEF Same
    <3>3. NoOldCall(t)'
      BY <1>1, <3>1 DEF Same, NoOldCall, Call, Responded
    <3>4. ASSUME NEW w \in Worker PROVE Reset(t, w)'
      BY <1>1, <3>1, ResetFrame DEF Same
    <3>5. QED BY <3>2, <3>3, <3>4
  <2>2. NoOldCall(s)' /\ Tables'
    BY <1>1, <1>4, NoOldCallLocal, TablesStep
  <2>3. CASE Post(s) \/ Response(s) \/ NoResponse(s) \/ NoRendezvous(s) \/ Broadcast(s) \/ Rendezvous(s)
    <3>1. Calls(s)'
      <4>1. CASE Rendezvous(s)
        BY <1>1, <4>1, CallsRendezvous
      <4>2. CASE ~Rendezvous(s)
        <5>1. UNCHANGED <<up, ready, reply, busy, pipe>>
          BY <2>3, <4>2 DEF Post, Response, NoResponse, NoRendezvous, Broadcast, serverVars, workerVars
        <5>2. QED BY <1>1, <5>1, CallsFrame
      <4>3. QED BY <4>1, <4>2
    <3>2. \A w \in Worker : Reset(s, w)'
      BY <1>1, <2>3, ResetClient
    <3>3. QED BY <2>1, <2>2, <3>1, <3>2 DEF CInv
  <2>4. CASE ServerUp(s)
    <3>1. Same(s) /\ UNCHANGED cache
      BY <2>4 DEF ServerUp, Same, clientVars, httpVars, workerVars
    <3>2. \A w \in Worker : Reset(s, w)'
      BY <1>1, <3>1, ResetFrame DEF Same
    <3>3. QED BY <1>1, <2>1, <2>2, <2>4, <3>2, CallsServerUp DEF CInv
  <2>5. CASE Collect(s)
    <3>1. \A w \in Worker : Reset(s, w)'
      BY <1>1, <2>5, ResetCollect
    <3>2. QED BY <1>1, <2>1, <2>2, <2>5, <3>1, CollectCalls DEF CInv
  <2>6. ASSUME NEW m \in net[s], Handle(s, m) PROVE CInv'
    <3>1. \A w \in Worker : Reset(s, w)'
      BY <1>1, <2>6, ResetHandle
    <3>2. QED BY <1>1, <2>1, <2>2, <2>6, <3>1, CallsHandle DEF CInv
  <2>7. ASSUME NEW u \in Worker, Work(s, u) PROVE CInv'
    <3>1. \A w \in Worker : Reset(s, w)'
      BY <1>1, <2>7, ResetWork
    <3>2. QED BY <1>1, <2>1, <2>2, <2>7, <3>1, CallsWork DEF CInv, Received
  <2>8. QED BY <1>4, <2>3, <2>4, <2>5, <2>6, <2>7 DEF Local
<1>5. QED BY <1>2, <1>3, <1>4, Steps

LEMMA InitCInv == Init => CInv
<1> SUFFICES ASSUME Init PROVE CInv
  OBVIOUS
<1>1. Tables
  BY DEF Init, Tables
<1>2. ASSUME NEW s \in Server PROVE Calls(s)
  BY DEF Init, Calls, Call
<1>3. \A s \in Server : NoOldCall(s) /\ \A w \in Worker : Reset(s, w)
  BY DEF Init, NoOldCall, Reset, Live
<1>4. QED BY <1>1, <1>2, <1>3 DEF CInv

(* A rollout never reuses a prefix cache computed with older weights: the   *)
(* reset is a call, which a server answers only when every worker has       *)
(* executed it, the rollout is posted after the answer, and a call that a   *)
(* killed trainer left behind is over before the next rendezvous.  A        *)
(* reset_prefix_cache that raises is answered with status 200 all the same, *)
(* so the theorem excludes it.                                              *)
THEOREM CacheIsReset ==
  ASSUME NoUpdateRetry, MaxCrashes <= 1, "reset" \notin MayRaise
  PROVE  Spec => []FreshPrefixCache
<1>1. ASSUME SInv, CInv, NEW s \in Server, NEW w \in Worker, Rolling(s, w)
      PROVE  cache[s][w] = 0
  <2>1. phase = "infer" /\ pipe[s][w] # << >> /\ Head(pipe[s][w]).op = "infer"
    BY <1>1 DEF Rolling, Executing
  <2>2. pipe[s][w] \in Seq(Cmd)
    BY <1>1 DEF SInv, Types, PipeTypes
  <2>3. 1 \in DOMAIN pipe[s][w] /\ IsCall(pipe[s][w][1].op)
    BY <2>1, <2>2, TailFacts DEF IsCall
  <2>4. HasCall(s, w)
    BY <2>3 DEF HasCall
  <2>5. Serving(s)
    BY <1>1, <2>1, <2>4, CallAtHand DEF CInv
  <2>6. QED BY <1>1, <2>1, <2>4, <2>5 DEF CInv, Reset
<1>2. SInv /\ CInv => FreshPrefixCache
  BY <1>1 DEF FreshPrefixCache
<1>3. SInv /\ [Next]_vars => SInv'
  BY NextSInv
<1>4. SInv /\ CInv /\ [Next]_vars => CInv'
  BY NextCInv
<1>5. QED BY <1>2, <1>3, <1>4, InitSInv, InitCInv, PTL DEF Spec

-----------------------------------------------------------------------------
(* How the requests are divided, and put together again.                    *)

LEMMA Least ==
  ASSUME NEW T, T \subseteq Nat, T # {}
  PROVE  \E n \in T : \A m \in T : n <= m
<1> DEFINE Lt == {ss \in Nat \X Nat : ss[1] < ss[2]}
<1>1. IsWellFoundedOn(Lt, Nat)
  BY NatLessThanWellFounded DEF OpToRel
<1>2. PICK n \in T : \A m \in T : ~(<<m, n>> \in Lt)
  <2> HIDE DEF Lt
  <2> QED BY <1>1, WFMin
<1>3. ASSUME NEW m \in T PROVE ~(m < n)
  <2>1. <<m, n>> \in Nat \X Nat
    BY <1>3
  <2>2. <<m, n>> \notin {ss \in Nat \X Nat : ss[1] < ss[2]}
    BY <1>2
  <2>3. QED BY <2>1, <2>2
<1>4. QED BY <1>3

(* The first n of a sequence, and those between two places.                 *)
Begin(q, n) == SubSeq(q, 1, n)
Between(q, a, b) == SubSeq(q, a + 1, b)

LEMMA BeginFacts ==
  ASSUME NEW q \in Seq(Nat), NEW a \in Nat, NEW b \in Nat, a <= b, b <= Len(q)
  PROVE  /\ Begin(q, a) \o Between(q, a, b) = Begin(q, b)
         /\ Begin(q, 0) = << >> /\ Begin(q, Len(q)) = q
         /\ Between(q, a, b) \in Seq(Nat)
         /\ Between(q, a, b) = << >> => Begin(q, a) = Begin(q, b)
<1>1. PICK n \in Nat : n = Len(q)
  BY LenProperties
<1>2. SubSeq(q, 1, a) \o SubSeq(q, a + 1, b) = SubSeq(q, 1, b)
  <2>1. 1 \in 1 .. Len(q) + 1 /\ a \in 1 - 1 .. Len(q) /\ b \in a .. Len(q)
    BY <1>1
  <2>2. QED BY <2>1, ConcatAdjacentSubSeq
<1>3. SubSeq(q, 1, 0) = << >>
  BY SubSeqEmpty
<1>4. SubSeq(q, 1, Len(q)) = q
  BY SubSeqFull
<1>5. /\ SubSeq(q, a + 1, b) \in Seq(Nat)
      /\ SubSeq(q, a + 1, b) = << >> => a = b
  <2>1. ASSUME NEW i \in a + 1 .. b PROVE q[i] \in Nat
    BY <1>1, ElementOfSeq
  <2>2. /\ SubSeq(q, a + 1, b) \in Seq(Nat)
        /\ Len(SubSeq(q, a + 1, b)) = IF a + 1 <= b THEN b - (a + 1) + 1 ELSE 0
    BY <2>1, SubSeqProperties
  <2>3. Len(<< >>) = 0
    OBVIOUS
  <2>4. SubSeq(q, a + 1, b) = << >> => ~(a + 1 <= b)
    BY <2>2, <2>3
  <2>5. QED BY <2>2, <2>4
<1>6. QED BY <1>2, <1>3, <1>4, <1>5 DEF Begin, Between

LEMMA DivMod ==
  ASSUME NEW x \in Nat, NEW d \in Nat \ {0}
  PROVE  \E q \in Nat, r \in Nat : q = x \div d /\ r = x % d /\ x = d * q + r /\ r < d
<1>1. x % d \in 0 .. d - 1
  OBVIOUS
<1>2. x \div d \in Nat
  OBVIOUS
<1>3. x = d * (x \div d) + (x % d)
  OBVIOUS
<1>4. x % d \in Nat /\ x % d < d
  BY <1>1
<1>5. QED BY <1>2, <1>3, <1>4

(* Where the chunk of worker n ends.                                        *)
Split(xs, n) == n * (Len(xs) \div NumWorkers) + MinOf(n, Len(xs) % NumWorkers)

LEMMA SplitFacts ==
  ASSUME NEW xs \in Seq(Nat)
  PROVE  /\ Split(xs, 0) = 0 /\ Split(xs, NumWorkers) = Len(xs)
         /\ \A w \in Worker : /\ Split(xs, w - 1) \in Nat /\ Split(xs, w) \in Nat
                              /\ Split(xs, w - 1) <= Split(xs, w) /\ Split(xs, w) <= Len(xs)
                              /\ WorkerChunk(xs, w) = Between(xs, Split(xs, w - 1), Split(xs, w))
<1>1. PICK n \in Nat : n = Len(xs)
  OBVIOUS
<1>2. NumWorkers \in Nat \ {0}
  BY SyncConstants
<1>3. PICK k \in Nat, r \in Nat : /\ k = Len(xs) \div NumWorkers /\ r = Len(xs) % NumWorkers
                                  /\ n = NumWorkers * k + r /\ r < NumWorkers
  BY <1>1, <1>2, DivMod
<1>4. \A i \in Nat : Split(xs, i) = i * k + MinOf(i, r)
  BY <1>3 DEF Split
<1>5. Split(xs, 0) = 0 /\ Split(xs, NumWorkers) = Len(xs)
  <2>1. MinOf(0, r) = 0 /\ MinOf(NumWorkers, r) = r /\ 0 * k = 0
    BY <1>2, <1>3 DEF MinOf
  <2>2. QED BY <1>1, <1>2, <1>3, <1>4, <2>1
<1>6. ASSUME NEW w \in Worker
      PROVE  /\ Split(xs, w - 1) \in Nat /\ Split(xs, w) \in Nat
             /\ Split(xs, w - 1) <= Split(xs, w) /\ Split(xs, w) <= Len(xs)
             /\ WorkerChunk(xs, w) = Between(xs, Split(xs, w - 1), Split(xs, w))
  <2>1. w \in Nat /\ w >= 1 /\ w <= NumWorkers /\ w - 1 \in Nat
    BY <1>2 DEF Worker
  <2>2. PICK a \in Nat, b \in Nat, c \in Nat : a = (w - 1) * k /\ b = w * k /\ c = NumWorkers * k
    BY <1>2, <2>1
  <2>3. b = a + k /\ b <= c
    <3>1. (w - 1) * k + k = w * k
      BY <2>1
    <3>2. w * k <= NumWorkers * k
      BY <1>2, <2>1
    <3>3. QED BY <2>2, <3>1, <3>2
  <2>4. /\ MinOf(w - 1, r) \in Nat /\ MinOf(w, r) \in Nat
        /\ MinOf(w - 1, r) <= MinOf(w, r) /\ MinOf(w, r) <= r
    BY <2>1 DEF MinOf
  <2>5. Split(xs, w - 1) = a + MinOf(w - 1, r) /\ Split(xs, w) = b + MinOf(w, r)
    BY <1>4, <2>1, <2>2
  <2>6. WorkerChunk(xs, w) = Between(xs, Split(xs, w - 1), Split(xs, w))
    BY DEF WorkerChunk, Between, Split
  <2>7. PICK i \in Nat, j \in Nat : i = MinOf(w - 1, r) /\ j = MinOf(w, r) /\ i <= j /\ j <= r
    BY <2>4
  <2>10. n = c + r
    BY <1>3, <2>2
  <2>8. a + i \in Nat /\ b + j \in Nat /\ a + i <= b + j /\ b + j <= n
    BY <2>3, <2>7, <2>10
  <2>9. QED BY <1>1, <2>5, <2>6, <2>7, <2>8
<1>7. QED BY <1>5, <1>6

(* ... and the requests up to the chunk of server s.                        *)
Dealt(s) ==
  LET last == s * ((NumRequests + NumServers - 1) \div NumServers)
  IN  IF last < NumRequests THEN last ELSE NumRequests

LEMMA RequestIs == Request \in Seq(Nat) /\ Len(Request) = NumRequests
BY SyncConstants DEF Request

LEMMA DealtFacts ==
  /\ Dealt(0) = 0 /\ Dealt(NumServers) = NumRequests
  /\ \A s \in Server : /\ Dealt(s - 1) \in Nat /\ Dealt(s) \in Nat
                       /\ Dealt(s - 1) <= Dealt(s) /\ Dealt(s) <= NumRequests
                       /\ ServerChunk(s) \in Seq(Nat)
                       /\ Begin(Request, Dealt(s - 1)) \o ServerChunk(s) = Begin(Request, Dealt(s))
<1>1. NumRequests \in Nat \ {0} /\ NumServers \in Nat \ {0}
  BY SyncConstants
<1>2. PICK d \in Nat : /\ d = (NumRequests + NumServers - 1) \div NumServers
                       /\ NumRequests <= NumServers * d /\ d # 0
  <2>1. PICK x \in Nat : x = NumRequests + NumServers - 1
    BY <1>1
  <2>2. PICK q \in Nat, r \in Nat : q = x \div NumServers /\ x = NumServers * q + r /\ r < NumServers
    BY <1>1, DivMod
  <2>3. NumRequests <= NumServers * q
    <3>1. PICK y \in Nat : y = NumServers * q
      BY <1>1
    <3>2. QED BY <1>1, <2>1, <2>2, <3>1
  <2>4. q # 0
    BY <1>1, <2>3
  <2>5. QED BY <2>1, <2>2, <2>3, <2>4
<1>3. \A s : Dealt(s) = IF s * d < NumRequests THEN s * d ELSE NumRequests
  BY <1>2 DEF Dealt
<1>4. Dealt(0) = 0 /\ Dealt(NumServers) = NumRequests
  <2>1. 0 * d = 0
    OBVIOUS
  <2>2. ~(NumServers * d < NumRequests)
    BY <1>1, <1>2
  <2>3. QED BY <1>1, <1>3, <2>1, <2>2
<1>5. ASSUME NEW s \in Server
      PROVE  /\ Dealt(s - 1) \in Nat /\ Dealt(s) \in Nat
             /\ Dealt(s - 1) <= Dealt(s) /\ Dealt(s) <= NumRequests
             /\ ServerChunk(s) \in Seq(Nat)
             /\ Begin(Request, Dealt(s - 1)) \o ServerChunk(s) = Begin(Request, Dealt(s))
  <2>1. s \in Nat /\ s >= 1 /\ s - 1 \in Nat
    BY <1>1 DEF Server
  <2>2. PICK a \in Nat, b \in Nat : a = (s - 1) * d /\ b = s * d /\ a <= b
    <3>1. (s - 1) * d \in Nat /\ s * d \in Nat /\ (s - 1) * d <= s * d
      BY <2>1
    <3>2. QED BY <3>1
  <2>3. /\ Dealt(s - 1) = IF a < NumRequests THEN a ELSE NumRequests
        /\ Dealt(s) = IF b < NumRequests THEN b ELSE NumRequests
    BY <1>3, <2>2
  <2>4. ServerChunk(s) = Between(Request, a, Dealt(s))
    BY <1>2, <2>2, <2>3 DEF ServerChunk, Between
  <2>5. /\ Dealt(s - 1) \in Nat /\ Dealt(s) \in Nat
        /\ Dealt(s - 1) <= Dealt(s) /\ Dealt(s) <= NumRequests
    BY <1>1, <2>2, <2>3
  <2>6. CASE a < NumRequests
    <3>1. Dealt(s - 1) = a
      BY <2>3, <2>6
    <3>2. a <= Dealt(s) /\ Dealt(s) <= Len(Request)
      BY <2>5, <3>1, RequestIs
    <3>3. /\ Begin(Request, a) \o Between(Request, a, Dealt(s)) = Begin(Request, Dealt(s))
          /\ Between(Request, a, Dealt(s)) \in Seq(Nat)
      <4>1. PICK e \in Nat, q \in Seq(Nat) : e = Dealt(s) /\ q = Request
        BY <2>5, RequestIs
      <4>2. a <= e /\ e <= Len(q)
        BY <3>2, <4>1
      <4>3. Begin(q, a) \o Between(q, a, e) = Begin(q, e)
        BY <4>2, BeginFacts
      <4>4. Between(q, a, e) \in Seq(Nat)
        BY <4>2, BeginFacts
      <4>5. QED BY <4>1, <4>3, <4>4
    <3>4. QED BY <2>4, <2>5, <3>1, <3>3
  <2>7. CASE ~(a < NumRequests)
    <3>1. Dealt(s - 1) = NumRequests /\ Dealt(s) = NumRequests
      BY <1>1, <2>2, <2>3, <2>7
    <3>2. ServerChunk(s) = << >>
      <4>1. a + 1 > NumRequests
        BY <1>1, <2>7
      <4>2. QED BY <1>1, <2>4, <3>1, <4>1, RequestIs DEF Between
    <3>3. Begin(Request, NumRequests) = Request
      BY <1>1, RequestIs, BeginFacts
    <3>4. QED BY <2>5, <3>1, <3>2, <3>3, RequestIs
  <2>8. QED BY <2>5, <2>6, <2>7
<1>6. QED BY <1>4, <1>5

(* The results of the servers, each the answers to its own chunk.           *)
LEMMA ResultsAre ==
  ASSUME \A s \in Server : out[s] = ServerChunk(s)
  PROVE  Results = Request
<1> DEFINE G == [s \in 0 .. NumServers |-> Begin(Request, Dealt(s))]
           Eq(f) == f = [s \in 0 .. NumServers |-> IF s = 0 THEN << >> ELSE f[s - 1] \o out[s]]
           f == CHOOSE g : Eq(g)
<1>1. NumServers \in Nat \ {0} /\ NumRequests \in Nat
  BY SyncConstants
<1>2. ASSUME NEW s \in 0 .. NumServers
      PROVE  Begin(Request, Dealt(s)) =
               IF s = 0 THEN << >> ELSE Begin(Request, Dealt(s - 1)) \o out[s]
  <2>1. CASE s = 0
    BY <1>1, <2>1, DealtFacts, BeginFacts, RequestIs
  <2>2. CASE s # 0
    <3>1. s \in Server
      BY <1>2, <2>2 DEF Server
    <3>2. QED BY <2>2, <3>1, DealtFacts
  <2>3. QED BY <2>1, <2>2
<1>3. Eq(G)
  <2>1. ASSUME NEW s \in 0 .. NumServers, s # 0 PROVE G[s - 1] = Begin(Request, Dealt(s - 1))
    BY <1>1, <2>1
  <2>2. QED BY <1>2, <2>1
<1>4. Eq(f)
  <2> HIDE DEF G, Eq
  <2>1. QED BY <1>3
<1> HIDE DEF f, G
<1>5. \A s \in 0 .. NumServers : f[s] = IF s = 0 THEN << >> ELSE f[s - 1] \o out[s]
  BY <1>4
<1>6. \A s \in 0 .. NumServers : f[s] = Begin(Request, Dealt(s))
  <2>1. SUFFICES ASSUME {s \in 0 .. NumServers : f[s] # Begin(Request, Dealt(s))} # {} PROVE FALSE
    OBVIOUS
  <2>2. PICK n \in {s \in 0 .. NumServers : f[s] # Begin(Request, Dealt(s))} :
          \A m \in {s \in 0 .. NumServers : f[s] # Begin(Request, Dealt(s))} : n <= m
    <3>1. {s \in 0 .. NumServers : f[s] # Begin(Request, Dealt(s))} \subseteq Nat
      OBVIOUS
    <3>2. QED BY <2>1, <3>1, Least
  <2>3. n \in 0 .. NumServers /\ f[n] # Begin(Request, Dealt(n))
    BY <2>2
  <2>4. n # 0
    BY <1>1, <1>2, <1>5, <2>3
  <2>5. n - 1 \in 0 .. NumServers /\ ~(n <= n - 1)
    BY <1>1, <2>3, <2>4
  <2>6. f[n - 1] = Begin(Request, Dealt(n - 1))
    BY <2>2, <2>5
  <2>7. QED BY <1>2, <1>5, <2>3, <2>4, <2>6
<1>7. f[NumServers] = Request
  <2>1. NumServers \in 0 .. NumServers
    BY <1>1
  <2>2. QED BY <1>1, <1>6, <2>1, DealtFacts, BeginFacts, RequestIs
<1>8. Results = f[NumServers]
  BY DEF Results, f
<1>9. QED BY <1>7, <1>8

-----------------------------------------------------------------------------
(* The invariant of the answers.  What the worker w of server s is sent:    *)
Part(s, w) ==
  IF WorkerChunk(ServerChunk(s), w) = << >> THEN Placeholder ELSE WorkerChunk(ServerChunk(s), w)

Sending(s) ==
  /\ \A m \in net[s] : m.xs = ServerChunk(s)
  /\ \A w \in Worker : \A i \in DOMAIN pipe[s][w] : pipe[s][w][i].xs = Part(s, w)
  /\ Call(s) => /\ busy[s].m.xs = ServerChunk(s) /\ busy[s].m.conn <= conn[s]
                /\ DOMAIN busy[s] = {"m", "next", "out", "bad"}

(* A response is that of a rollout, if the client waits for one.            *)
Own(s) == phase = "infer" /\ th[s] = "posting" =>
  /\ \A m \in net[s] : m.conn = conn[s] => m.op = "infer"
  /\ Call(s) /\ busy[s].m.conn = conn[s] => busy[s].m.op = "infer"

(* What the workers before the next one have answered.                      *)
Gathered(s, n) == Begin(ServerChunk(s), Split(ServerChunk(s), n))

Collected(s) == Call(s) /\ busy[s].m.op = "infer" =>
  /\ ~busy[s].bad => busy[s].out = Gathered(s, busy[s].next - 1)
  /\ \A w \in Worker : reply[s][w] # << >> => Head(reply[s][w]) \in {Lost, Part(s, w)}

Returned(s) == phase = "infer" =>
  /\ Responded(s) /\ resp[s].ok => resp[s].out = ServerChunk(s)
  /\ th[s] = "done" => out[s] = ServerChunk(s)

Ordered(s) ==
  /\ Calls(s) /\ \A w \in Worker : Receiving(s, w)
  /\ Sending(s) /\ Own(s) /\ Collected(s) /\ Returned(s)

AInv == Types /\ Tables /\ DOMAIN out = Server /\ \A s \in Server : Ordered(s)

LEMMA InitAInv == Init => AInv /\ AnswersInOrder
<1> SUFFICES ASSUME Init PROVE AInv /\ AnswersInOrder
  OBVIOUS
<1>1. Types /\ Tables /\ DOMAIN out = Server /\ AnswersInOrder
  BY InitSInv, InitCInv DEF SInv, CInv, Init, AnswersInOrder
<1>2. ASSUME NEW s \in Server PROVE Ordered(s)
  <2>1. Calls(s)
    BY <1>2, InitCInv DEF CInv
  <2>2. /\ phase = "check" /\ ~Call(s) /\ net[s] = {}
        /\ \A w \in Worker : pipe[s][w] = << >> /\ data[s][w] = None
    BY DEF Init, Call
  <2>3. QED BY <2>1, <2>2 DEF Ordered, Receiving, Sending, Own, Collected, Returned
<1>3. QED BY <1>1, <1>2 DEF AInv

(* Steps that change nothing of a server but that its client is idle.       *)
LEMMA OrderedIdle ==
  ASSUME NEW s \in Server, Ordered(s), phase' # "infer" \/ th'[s] = "idle",
         UNCHANGED <<net, conn, busy, pipe, data, up, ready, reply>>
  PROVE  Ordered(s)'
<1>1. Calls(s)'
  BY CallsFrame DEF Ordered
<1>2. /\ \A w \in Worker : Receiving(s, w)'
      /\ Sending(s)' /\ Own(s)' /\ Collected(s)' /\ Returned(s)'
  BY DEF Ordered, Receiving, At, Sending, Own, Collected, Gathered, Returned, Responded, Call
<1>3. QED BY <1>1, <1>2 DEF Ordered

(* ... and those of another server.                                         *)
LEMMA OrderedElsewhere ==
  ASSUME AInv, NEW s \in Server, Local(s), NEW t \in Server, t # s
  PROVE  Ordered(t)'
<1>1. Types /\ Tables /\ DOMAIN out = Server /\ Ordered(t)
  BY DEF AInv
<1>2. Same(t) /\ reply'[t] = reply[t] /\ up'[t] = up[t] /\ ready'[t] = ready[t]
  BY <1>1, Elsewhere, TablesStep
<1>3. out'[t] = out[t]
  <2>1. UNCHANGED out \/ \E x : out' = [out EXCEPT ![s] = x]
    BY DEF Local, Post, Response, NoResponse, NoRendezvous, Rendezvous, Broadcast, ServerUp,
       Collect, Handle, Work, WorkerReady, Infer, ResetPrefixCache, CloseCommunicator,
       LoadWeights, Raise, clientVars
  <2>2. QED BY <1>1, <2>1
<1>4. Calls(t)'
  BY <1>1, <1>2, CallsFrame DEF Same, Ordered
<1>5. /\ \A w \in Worker : Receiving(t, w)'
      /\ Sending(t)' /\ Own(t)' /\ Collected(t)' /\ Returned(t)'
  BY <1>1, <1>2, <1>3 DEF Same, Ordered, Receiving, At, Sending, Own, Collected, Gathered,
     Returned, Responded, Call
<1>6. QED BY <1>4, <1>5 DEF Ordered

LEMMA OrderedPost ==
  ASSUME AInv, NEW s \in Server, Post(s) PROVE Ordered(s)'
<1> DEFINE new == [conn |-> conn[s] + 1, op |-> Op, b |-> bucket, v |-> ver, epoch |-> epoch,
                   xs |-> ServerChunk(s)]
<1>1. Types /\ Ordered(s)
  BY DEF AInv
<1>2. /\ UNCHANGED <<phase, busy, pipe, data, up, ready, reply>>
      /\ th'[s] = "posting" /\ conn'[s] = conn[s] + 1 /\ resp'[s] = None
      /\ net'[s] = net[s] \cup {new}
  BY <1>1 DEF Post, serverVars, workerVars, Types, ClientTypes, HttpTypes
<1>3. PICK m : m = new
  OBVIOUS
<1>4. m.conn = conn[s] + 1 /\ m.op = Op /\ m.xs = ServerChunk(s) /\ net'[s] = net[s] \cup {m}
  BY <1>2, <1>3
<1>5. conn[s] \in Nat /\ \A n \in net[s] : n.conn <= conn[s] /\ n.conn \in Nat
  BY <1>1 DEF Types, HttpTypes, Message
<1>6. Call(s) => busy[s].m.conn <= conn[s] /\ busy[s].m.conn \in Nat
  BY <1>1 DEF Ordered, Sending, Types, ServerTypes, Message
<1>7. Call(s)' <=> Call(s)
  BY <1>2 DEF Call
<1>8. Sending(s)'
  <2>1. \A n \in net'[s] : n.xs = ServerChunk(s)
    BY <1>1, <1>4 DEF Ordered, Sending
  <2>2. Call(s) => busy[s].m.conn <= conn'[s]
    BY <1>2, <1>5, <1>6
  <2>3. QED BY <1>1, <1>2, <1>7, <2>1, <2>2 DEF Ordered, Sending
<1>9. Own(s)'
  <2>1. \A n \in net[s] : n.conn # conn'[s]
    BY <1>2, <1>5
  <2>2. Call(s) => busy[s].m.conn # conn'[s]
    BY <1>2, <1>5, <1>6
  <2>3. phase = "infer" => m.op = "infer"
    BY <1>4 DEF Op
  <2>4. QED BY <1>2, <1>4, <1>7, <2>1, <2>2, <2>3 DEF Own
<1>10. Collected(s)' /\ Returned(s)' /\ \A w \in Worker : Receiving(s, w)'
  BY <1>1, <1>2, <1>7 DEF Ordered, Collected, Gathered, Returned, Responded, Receiving, At
<1>11. Calls(s)'
  BY <1>1, <1>2, CallsFrame DEF Ordered
<1>12. QED BY <1>8, <1>9, <1>10, <1>11 DEF Ordered

LEMMA OrderedResponse ==
  ASSUME AInv, NEW s \in Server, Response(s) \/ NoResponse(s) \/ NoRendezvous(s)
  PROVE  Ordered(s)'
<1>1. Types /\ Ordered(s) /\ DOMAIN out = Server /\ DOMAIN th = Server
  BY DEF AInv, Types, ClientTypes
<1>2. /\ UNCHANGED <<phase, conn, busy, pipe, data, up, ready, reply>>
      /\ net'[s] \subseteq net[s]
  BY <1>1 DEF Types, HttpTypes, Response, NoResponse, NoRendezvous, httpVars, serverVars, workerVars
<1>3. \/ th'[s] \in {"idle", "err", "nccl"}
      \/ th'[s] = "done" /\ Responded(s) /\ resp[s].ok /\ out'[s] = resp[s].out
  <2>1. CASE Response(s) /\ resp[s].ok
    BY <1>1, <2>1 DEF Response, Responded
  <2>2. CASE AttemptFailed(s) \/ NoRendezvous(s)
    BY <1>1, <2>2 DEF AttemptFailed, NoRendezvous
  <2>3. QED BY <2>1, <2>2 DEF Response, NoResponse
<1>4. Calls(s)'
  BY <1>1, <1>2, CallsFrame DEF Ordered
<1>5. (Call(s)' <=> Call(s)) /\ th'[s] # "posting"
  BY <1>2, <1>3 DEF Call
<1>6. Own(s)' /\ Returned(s)'
  BY <1>1, <1>2, <1>3, <1>5 DEF Ordered, Own, Returned, Responded
<1>7. Sending(s)' /\ Collected(s)' /\ \A w \in Worker : Receiving(s, w)'
  BY <1>1, <1>2, <1>5 DEF Ordered, Sending, Collected, Gathered, Receiving, At
<1>8. QED BY <1>4, <1>6, <1>7 DEF Ordered

LEMMA OrderedServerUp ==
  ASSUME AInv, NEW s \in Server, ServerUp(s) PROVE Ordered(s)'
<1>1. Types /\ Tables /\ Ordered(s) /\ ~up[s]
  BY DEF AInv, ServerUp
<1>2. Calls(s)' /\ ~Call(s)
  BY <1>1, CallsServerUp DEF Ordered, Calls
<1>3. UNCHANGED <<phase, th, out, net, conn, resp, busy, pipe, data>>
  BY DEF ServerUp, clientVars, httpVars, workerVars
<1>4. QED BY <1>1, <1>2, <1>3 DEF Ordered, Sending, Own, Collected, Returned, Responded,
       Receiving, At, Call

LEMMA CommandPart ==
  ASSUME NEW s \in Server, NEW w \in Worker, NEW m, m.xs = ServerChunk(s)
  PROVE  Command(m, w).xs = Part(s, w)
BY DEF Command, Part

LEMMA OrderedHandle ==
  ASSUME AInv, NEW s \in Server, NEW m \in net[s], Handle(s, m) PROVE Ordered(s)'
<1>1. Types /\ Ordered(s) /\ Calls(s) /\ Sending(s) /\ m \in Message
  BY DEF AInv, Ordered, Types, HttpTypes
<1>2. Calls(s)' /\ ~Call(s) /\ UNCHANGED <<phase, th, conn, data, out, reply>>
  BY <1>1, CallsHandle DEF Handle, Call, clientVars, workerVars
<1>3. /\ net'[s] = net[s] \ {m}
      /\ IF IsCall(m.op)
           THEN Call(s)' /\ busy'[s].m = m /\ resp'[s] = resp[s]
           ELSE /\ busy'[s] = busy[s]
                /\ IF th[s] = "posting" /\ conn[s] = m.conn
                     THEN resp'[s] = Ok(<< >>) ELSE resp'[s] = resp[s]
      /\ \A w \in Worker : \A i \in DOMAIN pipe[s][w] :
           i \in DOMAIN pipe'[s][w] /\ pipe'[s][w][i] = pipe[s][w][i]
  BY <1>1, HandleStep
<1>4. \A w \in Worker : Receiving(s, w)'
  BY <1>1, <1>2, <1>3 DEF Ordered, Receiving, At
<1>5. ASSUME NEW w \in Worker, NEW i \in DOMAIN pipe'[s][w] PROVE pipe'[s][w][i].xs = Part(s, w)
  <2>1. pipe[s][w] \in Seq(Cmd) /\ pipe'[s][w] = Append(pipe[s][w], Command(m, w))
    BY <1>1 DEF Handle, Types, PipeTypes
  <2>2. PICK e \in Cmd : e = Command(m, w) /\ e.xs = Part(s, w)
    BY <1>1, CommandLemma, CommandPart DEF Sending
  <2>3. CASE i \in DOMAIN pipe[s][w]
    BY <1>1, <1>3, <2>3 DEF Sending
  <2>4. CASE i \notin DOMAIN pipe[s][w]
    BY <1>5, <2>1, <2>2, <2>4, AppendFacts
  <2>5. QED BY <2>3, <2>4
<1>6. IsCall(m.op) => busy'[s] = [m |-> m, next |-> 1, out |-> << >>, bad |-> FALSE]
  BY <1>1 DEF Handle, Types, ServerTypes
<1>7. Sending(s)'
  <2>1. m.conn <= conn[s] /\ m.xs = ServerChunk(s)
    BY <1>1 DEF Sending, Types, HttpTypes
  <2>2. Call(s)' => IsCall(m.op)
    BY <1>2, <1>3 DEF Call
  <2>3. Call(s)' => /\ busy'[s].m.xs = ServerChunk(s) /\ busy'[s].m.conn <= conn'[s]
                    /\ DOMAIN busy'[s] = {"m", "next", "out", "bad"}
    <3>1. SUFFICES ASSUME Call(s)' PROVE /\ busy'[s].m.xs = ServerChunk(s) /\ busy'[s].m.conn <= conn'[s]
                                         /\ DOMAIN busy'[s] = {"m", "next", "out", "bad"}
      OBVIOUS
    <3>2. busy'[s].m = m /\ DOMAIN busy'[s] = {"m", "next", "out", "bad"}
      BY <1>6, <2>2, <3>1
    <3>3. QED BY <1>2, <2>1, <3>2
  <2>4. \A n \in net'[s] : n.xs = ServerChunk(s)
    BY <1>1, <1>3 DEF Sending
  <2>5. QED BY <1>5, <2>3, <2>4 DEF Sending
<1>8. Own(s)'
  <2>1. Call(s)' => busy'[s].m = m
    BY <1>2, <1>3 DEF Call
  <2>2. QED BY <1>1, <1>2, <1>3, <2>1 DEF Ordered, Own
<1>9. Collected(s)'
  <2>1. SUFFICES ASSUME Call(s)' PROVE Collected(s)'
    BY DEF Collected
  <2>2. IsCall(m.op) /\ up[s]
    BY <1>2, <1>3, <2>1 DEF Call, Handle
  <2>3. \A w \in Worker : reply[s][w] = << >>
    BY <1>1, <1>2, <2>2 DEF Calls, Orderly
  <2>4. busy'[s].out = << >> /\ busy'[s].next - 1 = 0
    BY <1>6, <2>2
  <2>5. Gathered(s, 0) = << >>
    BY DealtFacts, SplitFacts, BeginFacts DEF Gathered
  <2>6. QED BY <1>2, <2>3, <2>4, <2>5 DEF Collected, Gathered
<1>10. Returned(s)'
  <2>1. phase = "infer" /\ th[s] = "posting" /\ m.conn = conn[s] => IsCall(m.op)
    BY <1>1 DEF Ordered, Own, IsCall
  <2>2. phase = "infer" /\ th[s] = "posting" => resp'[s] = resp[s]
    BY <1>3, <2>1
  <2>3. QED BY <1>1, <1>2, <2>2 DEF Ordered, Returned, Responded
<1>11. QED BY <1>2, <1>4, <1>7, <1>8, <1>9, <1>10 DEF Ordered

(* The answer of one worker more.                                           *)
LEMMA GatherOne ==
  ASSUME NEW s \in Server
  PROVE  /\ Gathered(s, NumWorkers) = ServerChunk(s)
         /\ \A w \in Worker :
              /\ Gathered(s, w - 1) \o WorkerChunk(ServerChunk(s), w) = Gathered(s, w)
              /\ WorkerChunk(ServerChunk(s), w) = << >> => Gathered(s, w - 1) = Gathered(s, w)
<1>1. PICK xs \in Seq(Nat) : xs = ServerChunk(s)
  BY DealtFacts
<1>2. \A n : Gathered(s, n) = Begin(xs, Split(xs, n))
  BY <1>1 DEF Gathered
<1>3. Gathered(s, NumWorkers) = xs
  <2>1. Len(xs) \in Nat /\ Len(xs) <= Len(xs)
    OBVIOUS
  <2>2. Begin(xs, Len(xs)) = xs
    BY <2>1, BeginFacts
  <2>3. QED BY <1>2, <2>2, SplitFacts
<1>4. ASSUME NEW w \in Worker
      PROVE  /\ Gathered(s, w - 1) \o WorkerChunk(xs, w) = Gathered(s, w)
             /\ WorkerChunk(xs, w) = << >> => Gathered(s, w - 1) = Gathered(s, w)
  <2>1. PICK a \in Nat, b \in Nat : /\ a = Split(xs, w - 1) /\ b = Split(xs, w)
                                    /\ a <= b /\ b <= Len(xs)
                                    /\ WorkerChunk(xs, w) = Between(xs, a, b)
    BY SplitFacts
  <2>2. a <= b /\ b <= Len(xs)
    BY <2>1
  <2>3. Begin(xs, a) \o Between(xs, a, b) = Begin(xs, b)
    BY <2>2, BeginFacts
  <2>4. Between(xs, a, b) = << >> => Begin(xs, a) = Begin(xs, b)
    BY <2>2, BeginFacts
  <2>5. Gathered(s, w - 1) = Begin(xs, a) /\ Gathered(s, w) = Begin(xs, b)
    BY <1>2, <2>1
  <2>6. QED BY <2>1, <2>3, <2>4, <2>5
<1>5. QED BY <1>1, <1>3, <1>4

(* What a step of collecting adds, and the response after the last one.     *)
Got(s) ==
  LET r == Head(reply[s][busy[s].next])
  IN  IF Dropped(busy[s].m, busy[s].next) \/ r = Lost THEN busy[s].out ELSE busy[s].out \o r

Bad(s) == busy[s].bad \/ Missing(busy[s].m, busy[s].next, Head(reply[s][busy[s].next]))

LEMMA CollectAnswers ==
  ASSUME Types, NEW s \in Server, Call(s), Sending(s), Collected(s), busy[s].m.op = "infer",
         reply[s][busy[s].next] # << >>, ~Bad(s)
  PROVE  Got(s) = Gathered(s, busy[s].next)
<1>1. PICK w \in Worker : w = busy[s].next
  BY DEF Types, ServerTypes
<1>2. busy[s].m.xs = ServerChunk(s) /\ ~busy[s].bad /\ busy[s].out = Gathered(s, w - 1)
  BY <1>1 DEF Sending, Collected, Bad
<1>3. PICK r : r = Head(reply[s][w])
  OBVIOUS
<1>4. Dropped(busy[s].m, w) <=> WorkerChunk(ServerChunk(s), w) = << >>
  BY <1>2 DEF Dropped
<1>5. CASE Dropped(busy[s].m, w)
  BY <1>1, <1>2, <1>4, <1>5, GatherOne DEF Got
<1>6. CASE ~Dropped(busy[s].m, w)
  <2>1. r # Lost
    BY <1>1, <1>3, <1>6 DEF Bad, Missing
  <2>2. r = WorkerChunk(ServerChunk(s), w)
    BY <1>1, <1>3, <1>4, <1>6, <2>1 DEF Collected, Part
  <2>3. Got(s) = busy[s].out \o r
    BY <1>1, <1>3, <1>6, <2>1 DEF Got
  <2>4. QED BY <1>1, <1>2, <2>2, <2>3, GatherOne
<1>7. QED BY <1>5, <1>6

LEMMA OrderedCollect ==
  ASSUME AInv, NEW s \in Server, Collect(s) PROVE Ordered(s)'
<1>1. Types /\ Tables /\ Ordered(s) /\ Calls(s) /\ Sending(s) /\ Collected(s) /\ Own(s) /\ Returned(s)
  BY DEF AInv, Ordered
<1>2. UNCHANGED <<phase, th, out, net, conn, pipe, data>> /\ Call(s)
  BY DEF Collect, clientVars, workerVars, Call
<1>3. Calls(s)'
  BY <1>1, CollectCalls
<1>4. PICK w \in Worker : w = busy[s].next
  BY <1>1, <1>2 DEF Types, ServerTypes
<1>5. /\ reply[s][w] # << >> /\ reply'[s][w] = Tail(reply[s][w])
      /\ \A u \in Worker : u # w => reply'[s][u] = reply[s][u]
  BY <1>1, <1>4 DEF Collect, Tables
<1>6. reply'[s][w] = << >>
  BY <1>1, <1>2, <1>5 DEF Calls, Orderly, Single
<1>7. /\ busy[s].m.op = "infer" /\ ~Bad(s) => Got(s) = Gathered(s, w)
  BY <1>1, <1>2, <1>4, <1>5, CollectAnswers
<1>8. DOMAIN busy = Server /\ DOMAIN resp = Server /\ DOMAIN busy[s] = {"m", "next", "out", "bad"}
  BY <1>1, <1>2 DEF Types, HttpTypes, ServerTypes, Sending
<1>9. CASE busy[s].next < NumWorkers
  <2>1. /\ busy' = [busy EXCEPT ![s] =
                      [busy[s] EXCEPT !.next = busy[s].next + 1, !.out = Got(s), !.bad = Bad(s)]]
        /\ UNCHANGED resp
    BY <1>9 DEF Collect, Got, Bad
  <2>2. PICK call : call = [busy[s] EXCEPT !.next = busy[s].next + 1, !.out = Got(s), !.bad = Bad(s)]
    OBVIOUS
  <2>3. busy'[s] = call
    BY <1>8, <2>1, <2>2
  <2>4. /\ call.m = busy[s].m /\ call.next = w + 1 /\ call.out = Got(s) /\ call.bad = Bad(s)
        /\ DOMAIN call = {"m", "next", "out", "bad"}
    BY <1>4, <1>8, <2>2
  <2>5. Sending(s)'
    BY <1>1, <1>2, <2>3, <2>4 DEF Sending
  <2>6. Own(s)' /\ Returned(s)'
    BY <1>1, <1>2, <2>1, <2>3, <2>4 DEF Own, Returned, Responded
  <2>7. call.next - 1 = w
    BY <1>4, <2>4 DEF Worker
  <2>8. busy[s].m.op = "infer" /\ ~Bad(s) => busy'[s].out = Gathered(s, busy'[s].next - 1)
    BY <1>7, <2>3, <2>4, <2>7
  <2>9. \A u \in Worker : reply'[s][u] # << >> => reply'[s][u] = reply[s][u]
    BY <1>5, <1>6
  <2>10. Collected(s)'
    BY <1>1, <1>2, <2>3, <2>4, <2>8, <2>9 DEF Collected, Gathered
  <2>11. QED BY <1>1, <1>2, <1>3, <2>5, <2>6, <2>10 DEF Ordered, Receiving, At
<1>10. CASE ~(busy[s].next < NumWorkers)
  <2>1. /\ busy' = [busy EXCEPT ![s] = None]
        /\ Respond(s, busy[s].m.conn, IF Bad(s) THEN Failed ELSE Ok(Got(s)))
    BY <1>10 DEF Collect, Got, Bad
  <2>2. ~Call(s)'
    BY <1>8, <2>1 DEF Call
  <2>3. resp'[s] = IF th[s] = "posting" /\ conn[s] = busy[s].m.conn
                     THEN IF Bad(s) THEN Failed ELSE Ok(Got(s)) ELSE resp[s]
    BY <1>8, <2>1 DEF Respond
  <2>4. w = NumWorkers
    BY <1>4, <1>10, SyncConstants DEF Worker
  <2>5. phase = "infer" /\ th[s] = "posting" /\ conn[s] = busy[s].m.conn /\ resp'[s].ok
          => resp'[s].out = ServerChunk(s)
    <3>1. SUFFICES ASSUME phase = "infer", th[s] = "posting", conn[s] = busy[s].m.conn, resp'[s].ok
                   PROVE  resp'[s].out = ServerChunk(s)
      OBVIOUS
    <3>2. busy[s].m.op = "infer"
      BY <1>1, <1>2, <3>1 DEF Own
    <3>3. ~Bad(s) /\ resp'[s] = Ok(Got(s))
      BY <2>3, <3>1 DEF Failed
    <3>4. Got(s) = ServerChunk(s)
      BY <1>7, <2>4, <3>2, <3>3, GatherOne
    <3>5. QED BY <3>3, <3>4 DEF Ok
  <2>6. Returned(s)'
    BY <1>1, <1>2, <2>3, <2>5 DEF Returned, Responded
  <2>7. QED BY <1>1, <1>2, <1>3, <2>2, <2>6 DEF Ordered, Receiving, At, Sending, Own, Collected
<1>11. QED BY <1>9, <1>10

(* A worker answers a rollout with its prompts, or with nothing.            *)
LEMMA InferReply ==
  ASSUME Types, Tables, NEW s \in Server, NEW w \in Worker, Receiving(s, w), Work(s, w),
         ~WorkerReady(s, w), pipe[s][w][1].op = "infer"
  PROVE  \E e \in {Lost, pipe[s][w][1].xs} : reply'[s][w] = Append(reply[s][w], e)
<1>1. pipe[s][w] \in Seq(Cmd) /\ pipe[s][w] # << >>
  BY HasCommand DEF Types, PipeTypes
<1>2. Head(pipe[s][w]) = pipe[s][w][1]
  BY <1>1, TailFacts
<1>3. \A op : Executing(s, w, op) => op = "infer"
  BY <1>2 DEF Executing
<1>4. CASE Infer(s, w)
  BY <1>2, <1>4 DEF Infer, Tables
<1>5. CASE Raise(s, w)
  <2>1. reply' = [reply EXCEPT ![s][w] = Append(@, Lost)]
    BY <1>3, <1>5 DEF Raise, IsCall
  <2>2. QED BY <2>1 DEF Tables
<1>6. CASE ResetPrefixCache(s, w) \/ CloseCommunicator(s, w)
  BY <1>3, <1>6 DEF ResetPrefixCache, CloseCommunicator
<1>7. CASE LoadWeights(s, w)
  BY <1>7 DEF LoadWeights, Receiving, At
<1>8. QED BY <1>4, <1>5, <1>6, <1>7 DEF Work

(* The pipe of a worker that takes its command.                             *)
LEMMA TailParts ==
  ASSUME Types, NEW s \in Server, NEW w \in Worker, Sending(s), pipe[s][w] # << >>,
         NEW i \in DOMAIN Tail(pipe[s][w])
  PROVE  Tail(pipe[s][w])[i].xs = Part(s, w)
<1>1. pipe[s][w] \in Seq(Cmd)
  BY DEF Types, PipeTypes
<1>2. i + 1 \in DOMAIN pipe[s][w] /\ Tail(pipe[s][w])[i] = pipe[s][w][i + 1]
  BY <1>1, TailFacts
<1>3. QED BY <1>2 DEF Sending

LEMMA OrderedWork ==
  ASSUME AInv, NEW s \in Server, NEW w \in Worker, Work(s, w) PROVE Ordered(s)'
<1>1. /\ Types /\ Tables /\ Ordered(s) /\ Calls(s) /\ Sending(s) /\ Own(s) /\ Collected(s)
      /\ Returned(s) /\ Receiving(s, w)
  BY DEF AInv, Ordered
<1>2. Calls(s)'
  BY <1>1, CallsWork
<1>3. UNCHANGED <<phase, th, out, net, conn, resp, busy>>
  BY DEF Work, WorkerReady, Infer, ResetPrefixCache, CloseCommunicator, LoadWeights, Raise,
     clientVars, httpVars
<1>4. (Call(s)' <=> Call(s)) /\ Own(s)' /\ Returned(s)'
  BY <1>1, <1>3 DEF Call, Own, Returned, Responded
<1>5. CASE WorkerReady(s, w)
  <2>1. UNCHANGED <<pipe, data>> /\ ~ready[s][w]
    BY <1>5 DEF WorkerReady
  <2>2. ~Call(s)
    BY <1>1, <2>1 DEF Calls, Orderly
  <2>3. QED BY <1>1, <1>2, <1>3, <1>4, <2>1, <2>2 DEF Ordered, Sending, Collected, Receiving, At
<1>6. CASE ~WorkerReady(s, w)
  <2>1. Takes(s, w)
    BY <1>1, <1>6, TypesWork
  <2>2. /\ data'[s][w] = None
        /\ \A u \in Worker : u # w => data'[s][u] = data[s][u] /\ pipe'[s][u] = pipe[s][u]
    BY <1>1, <1>6, <2>1, WorkStep DEF Takes
  <2>3. \A u \in Worker : Receiving(s, u)'
    <3>1. Receiving(s, w)'
      BY <2>2 DEF Receiving
    <3>2. ASSUME NEW u \in Worker, u # w PROVE Receiving(s, u)'
      BY <1>1, <2>2, <3>2 DEF Ordered, Receiving, At
    <3>3. QED BY <3>1, <3>2
  <2>4. Sending(s)'
    <3>1. \A i \in DOMAIN pipe'[s][w] : pipe'[s][w][i].xs = Part(s, w)
      BY <1>1, <2>1, TailParts DEF Takes
    <3>2. QED BY <1>1, <1>3, <1>4, <2>2, <3>1 DEF Sending
  <2>5. ASSUME Call(s), busy[s].m.op = "infer", NEW u \in Worker, reply'[s][u] # << >>
        PROVE  Head(reply'[s][u]) \in {Lost, Part(s, u)}
    <3>1. /\ up[s] /\ pipe[s][w] # << >> /\ pipe[s][w] \in Seq(Cmd) /\ 1 \in DOMAIN pipe[s][w]
      BY <1>1, <2>1, <2>5, TailFacts DEF Calls, Takes, Types, PipeTypes
    <3>2. /\ \A x \in Worker : x # w => reply'[s][x] = reply[s][x]
          /\ ~IsCall(pipe[s][w][1].op) => reply'[s][w] = reply[s][w]
      BY <1>1, <1>6, WorkReply
    <3>3. CASE reply'[s][u] = reply[s][u]
      BY <1>1, <2>5, <3>3 DEF Collected
    <3>4. CASE u = w /\ IsCall(pipe[s][w][1].op)
      <4>1. reply[s][w] = << >> /\ pipe[s][w][1].op = "infer"
        BY <1>1, <2>5, <3>1, <3>4 DEF Calls, Orderly
      <4>2. pipe[s][w][1].xs = Part(s, w)
        BY <1>1, <3>1 DEF Sending
      <4>3. PICK e \in {Lost, Part(s, w)} : reply'[s][w] = Append(<< >>, e)
        BY <1>1, <1>6, <4>1, <4>2, InferReply
      <4>4. Append(<< >>, e) = <<e>> /\ Head(<<e>>) = e
        OBVIOUS
      <4>5. QED BY <3>4, <4>3, <4>4
    <3>5. QED BY <3>2, <3>3, <3>4
  <2>6. Collected(s)'
    BY <1>1, <1>3, <1>4, <2>5 DEF Collected, Gathered
  <2>7. QED BY <1>2, <1>4, <2>3, <2>4, <2>6 DEF Ordered
<1>7. QED BY <1>5, <1>6

LEMMA OrderedRendezvous ==
  ASSUME AInv, NEW s \in Server, Rendezvous(s) PROVE Ordered(s)'
<1>1. Types /\ Ordered(s) /\ Calls(s) /\ Sending(s) /\ Collected(s) /\ DOMAIN th = Server
  BY DEF AInv, Ordered, Types, ClientTypes
<1>2. /\ UNCHANGED <<phase, net, conn, resp, busy, reply, data>> /\ phase = "init"
      /\ \A w \in Worker : /\ pipe[s][w] # << >> /\ data[s][w] = None
                           /\ pipe'[s][w] = Tail(pipe[s][w])
  BY <1>1 DEF Rendezvous, httpVars, Executing, Types, PipeTypes
<1>3. Calls(s)'
  BY <1>1, CallsRendezvous
<1>4. Sending(s)'
  <2>1. \A w \in Worker : \A i \in DOMAIN pipe'[s][w] : pipe'[s][w][i].xs = Part(s, w)
    BY <1>1, <1>2, TailParts
  <2>2. QED BY <1>1, <1>2, <2>1 DEF Sending, Call
<1>5. Own(s)' /\ Returned(s)' /\ Collected(s)' /\ \A w \in Worker : Receiving(s, w)'
  BY <1>1, <1>2 DEF Own, Returned, Collected, Gathered, Receiving, Call
<1>6. QED BY <1>3, <1>4, <1>5 DEF Ordered

LEMMA OrderedBroadcast ==
  ASSUME AInv, NEW s \in Server, Broadcast(s) PROVE Ordered(s)'
<1>1. Types /\ Ordered(s) /\ Sending(s) /\ Collected(s)
  BY DEF AInv, Ordered
<1>2. /\ UNCHANGED <<phase, net, conn, resp, busy, pipe, up, ready, reply>> /\ phase = "update"
      /\ \A w \in Worker : pipe[s][w] # << >> /\ Head(pipe[s][w]).op = "update"
  BY <1>1 DEF Broadcast, httpVars, serverVars, Executing
<1>3. Calls(s)'
  BY <1>1, <1>2, CallsFrame DEF Ordered
<1>4. ASSUME NEW w \in Worker PROVE Receiving(s, w)'
  <2>1. pipe[s][w] \in Seq(Cmd)
    BY <1>1 DEF Types, PipeTypes
  <2>2. At(s, w, 1, "update")
    BY <1>2, <2>1, TailFacts DEF At
  <2>3. QED BY <1>2, <2>2 DEF Receiving, At
<1>5. Own(s)' /\ Returned(s)' /\ Collected(s)' /\ Sending(s)'
  BY <1>1, <1>2 DEF Own, Returned, Collected, Gathered, Sending, Call
<1>6. QED BY <1>3, <1>4, <1>5 DEF Ordered

(* The trainer takes the results of a rollout when every server has         *)
(* answered.                                                                *)
LEMMA JoinAnswers ==
  ASSUME AInv, AnswersInOrder, Join PROVE AnswersInOrder'
<1>1. CASE \E s \in Server : th[s] = "err" /\ Op # "close"
  BY <1>1 DEF Join, AnswersInOrder
<1>2. CASE ~\E s \in Server : th[s] = "err" /\ Op # "close"
  <2>1. Advance
    BY <1>2 DEF Join
  <2>2. CASE phase = "infer"
    <3>1. \A s \in Server : th[s] = "done"
      BY <1>2, <2>2 DEF Join, AllFinished, Finished, Op
    <3>2. \A s \in Server : out[s] = ServerChunk(s)
      BY <2>2, <3>1 DEF AInv, Ordered, Returned
    <3>3. answer' = Results
      BY <2>1, <2>2 DEF Advance
    <3>4. QED BY <3>2, <3>3, ResultsAre DEF AnswersInOrder
  <2>3. CASE phase # "infer"
    <3>1. phase \in {"preclose", "init", "update", "reset", "close"}
      BY <2>3 DEF Join, AInv, Types, ClientTypes, Phase
    <3>2. UNCHANGED answer
      BY <2>1, <3>1 DEF Advance
    <3>3. QED BY <3>2 DEF AnswersInOrder
  <2>4. QED BY <2>2, <2>3
<1>3. QED BY <1>1, <1>2

LEMMA NextAInv ==
  ASSUME AInv, [Next]_vars PROVE AInv'
<1>1. Types /\ Tables /\ DOMAIN out = Server /\ \A s \in Server : Ordered(s)
  BY DEF AInv
<1>2. CASE UNCHANGED vars
  <2>1. UNCHANGED <<clientVars, httpVars, serverVars, workerVars, crashes>>
    BY <1>2 DEF vars
  <2>2. Types'
    BY <1>1, <2>1 DEF Types, ClientTypes, HttpTypes, ServerTypes, PipeTypes, WorkerTypes, Call,
       clientVars, httpVars, serverVars, workerVars
  <2>3. Tables' /\ DOMAIN out' = Server
    BY <1>1, <2>1 DEF Tables, clientVars, serverVars, workerVars
  <2>4. ASSUME NEW s \in Server PROVE Ordered(s)'
    <3>1. Calls(s)'
      BY <1>1, <2>1, CallsFrame DEF Ordered, serverVars, workerVars
    <3>2. QED BY <1>1, <2>1, <3>1 DEF Ordered, Receiving, At, Sending, Own, Collected, Gathered,
           Returned, Responded, Call, clientVars, httpVars, serverVars, workerVars
  <2>5. QED BY <2>2, <2>3, <2>4 DEF AInv
<1>3. CASE CheckServer \/ Join \/ Crash \/ Restart
  <2>1. UNCHANGED <<net, conn, busy, pipe, data, up, ready, reply, cache, out>>
    BY <1>3 DEF CheckServer, Join, Crash, Restart, httpVars, serverVars, workerVars
  <2>2. \A s \in Server : phase' # "infer" \/ th'[s] = "idle"
    BY <1>3 DEF CheckServer, Join, Crash, Restart
  <2>3. \A s \in Server : Ordered(s)'
    BY <1>1, <2>1, <2>2, OrderedIdle
  <2>4. Types'
    BY <1>1, <1>3, TypesClient
  <2>5. QED BY <1>1, <2>1, <2>3, <2>4 DEF AInv, Tables
<1>4. ASSUME NEW s \in Server, Local(s) PROVE AInv'
  <2>1. Types' /\ Ordered(s)'
    <3>1. CASE Post(s)
      BY <1>1, <3>1, TypesPost, OrderedPost
    <3>2. CASE Response(s) \/ NoResponse(s) \/ NoRendezvous(s)
      BY <1>1, <3>2, TypesClient, OrderedResponse
    <3>3. CASE Rendezvous(s)
      BY <1>1, <3>3, TypesJoint, OrderedRendezvous
    <3>4. CASE Broadcast(s)
      BY <1>1, <3>4, TypesJoint, OrderedBroadcast
    <3>5. CASE ServerUp(s)
      BY <1>1, <3>5, TypesServe, OrderedServerUp
    <3>6. CASE Collect(s)
      BY <1>1, <3>6, TypesServe, OrderedCollect
    <3>7. CASE \E m \in net[s] : Handle(s, m)
      BY <1>1, <3>7, TypesHandle, OrderedHandle
    <3>8. CASE \E w \in Worker : Work(s, w)
      BY <1>1, <3>8, TypesWork, OrderedWork DEF Ordered
    <3>9. QED BY <1>4, <3>1, <3>2, <3>3, <3>4, <3>5, <3>6, <3>7, <3>8 DEF Local
  <2>2. \A t \in Server : t # s => Ordered(t)'
    BY <1>4, OrderedElsewhere
  <2>3. Tables'
    BY <1>1, <1>4, TablesStep
  <2>4. DOMAIN out' = Server
    BY <1>1, <1>4 DEF Local, Post, Response, NoResponse, NoRendezvous, Rendezvous, Broadcast,
       ServerUp, Collect, Handle, Work, WorkerReady, Infer, ResetPrefixCache, CloseCommunicator,
       LoadWeights, Raise, clientVars
  <2>5. QED BY <2>1, <2>2, <2>3, <2>4 DEF AInv
<1>5. QED BY <1>2, <1>3, <1>4, Steps

LEMMA NextAnswers ==
  ASSUME AInv, AnswersInOrder, [Next]_vars PROVE AnswersInOrder'
<1>1. CASE Join
  BY <1>1, JoinAnswers
<1>2. CASE ~Join
  <2>1. UNCHANGED answer
    <3>1. CASE UNCHANGED vars
      BY <3>1 DEF vars, clientVars
    <3>2. CASE CheckServer \/ Crash \/ Restart
      BY <3>2 DEF CheckServer, Crash, Restart, clientVars
    <3>3. ASSUME NEW s \in Server, Local(s) PROVE UNCHANGED answer
      BY <3>3 DEF Local, Post, Response, NoResponse, NoRendezvous, Rendezvous, Broadcast,
         ServerUp, Collect, Handle, Work, WorkerReady, Infer, ResetPrefixCache, CloseCommunicator,
         LoadWeights, Raise, clientVars
    <3>4. QED BY <1>2, <3>1, <3>2, <3>3, Steps
  <2>2. QED BY <2>1 DEF AnswersInOrder
<1>3. QED BY <1>1, <1>2

(* The answers of a rollout come back in the order of its prompts, the      *)
(* placeholders of workers without prompts dropped: whatever is lost,       *)
(* retried, raised or killed, however often, a server collects the replies  *)
(* to the call it is serving, and a response that arrives is the one to the *)
(* request the client waits for.                                            *)
THEOREM AnswersComeInOrder == Spec => []AnswersInOrder
<1>1. AInv /\ AnswersInOrder /\ [Next]_vars => AInv' /\ AnswersInOrder'
  BY NextAInv, NextAnswers
<1>2. QED BY <1>1, InitAInv, PTL DEF Spec
=============================================================================
