------------------------- MODULE AsyncRolloutProofs -------------------------
(***************************************************************************)
(* Proofs about AsyncRollout, for any number of ranks, any schedule of     *)
(* generations, updates and evaluations, and with or without failures of   *)
(* the rollout requests; evaluation on start is off: loads and rollouts    *)
(* never meet, and the pipeline implements RolloutService; and, without    *)
(* failures, what each rank takes from its queue.  At the end, proofs about *)
(* MultiTurn: the turns a rank trains on and their log probabilities.      *)
(***************************************************************************)
EXTENDS AsyncRollout, MultiTurn, TLAPS, SequenceTheorems, WellFoundedInduction

-----------------------------------------------------------------------------
(* The inductive invariant.  It counts what the main rank has asked: the    *)
(* tasks of its executor and the results in its two queues.                 *)
Pending(k) == \A i \in DOMAIN tasks[Main] : tasks[Main][i].kind = k

Tasks == Len(tasks[Main])
Ready(k) == Len(queue[Main][k])

(* Outside evaluation: one train rollout is out or ready, two while the     *)
(* main rank waits for the older one; after an evaluation the last eval     *)
(* rollout may still be out, until training_step lets the rank go on.       *)
TrainShape ==
  /\ pc[Main] \in {"prefetch", "preload", "preloading", "preinfer"} =>
       tasks[Main] = << >> /\ Ready("train") = 0 /\ Ready("eval") <= 1
  /\ pc[Main] \in {"load", "loading"} => tasks[Main] = << >>
  /\ pc[Main] \in {"waitq", "load", "loading", "gather", "scatter", "compute"} =>
       Pending("train") /\ Ready("train") + Tasks <= 1 /\ Ready("eval") <= 1
  /\ pc[Main] = "get" =>
       Pending("train") /\ Ready("train") + Tasks <= 2 /\ Ready("eval") <= 1
  /\ pc[Main] = "step" =>
       \/ Pending("train") /\ Ready("train") + Tasks <= 1 /\ Ready("eval") <= 1
       \/ /\ Pending("eval") /\ Ready("eval") + Tasks <= 1
          /\ Ready("train") <= 1 /\ evalFlag[Main]
  /\ pc[Main] # "done" => step < MaxSteps
  /\ pc[Main] \notin {"evalwait", "evalend"}

(* In an evaluation: the train rollout has come in, and the eval rollouts   *)
(* follow the same discipline.                                              *)
EvalShape ==
  /\ pc[Main] = "evalwait" =>
       Pending("train") /\ Ready("train") + Tasks <= 1 /\ Ready("eval") <= 1
  /\ pc[Main] \in {"prefetch", "preload", "preloading", "preinfer"} =>
       tasks[Main] = << >> /\ Ready("train") <= 1 /\ Ready("eval") = 0
  /\ pc[Main] \in {"load", "loading"} => tasks[Main] = << >>
  /\ pc[Main] \in {"waitq", "load", "loading", "gather", "scatter", "evalend"} =>
       Pending("eval") /\ Ready("eval") + Tasks <= 1 /\ Ready("train") <= 1
  /\ pc[Main] = "get" =>
       Pending("eval") /\ Ready("eval") + Tasks <= 2 /\ Ready("train") <= 1
  /\ pc[Main] \notin {"step", "compute", "done"}

Shape ==
  /\ inEval[Main] = shouldEvaluate[Main]
  /\ running => tasks[Main] # << >>
  /\ ~inEval[Main] => TrainShape
  /\ inEval[Main] => EvalShape

IInv == TypeOK /\ Shape

-----------------------------------------------------------------------------
(* Lemmas about the queues and the tasks.                                   *)

(* Putting a result makes the queue of its kind, of that rank, one longer.  *)
LEMMA PutLemma ==
  ASSUME TypeOK, NEW r \in Rank, NEW res \in Result, Put(r, res)
  PROVE  /\ queue' \in [Rank -> [Kind -> Seq(Result)]]
         /\ \A k \in Kind :
              Ready(k)' = IF r = Main /\ k = res.kind THEN Ready(k) + 1 ELSE Ready(k)
<1>1. res.kind \in Kind
  BY DEF Result
<1>2. queue[r][res.kind] \in Seq(Result) /\ Main \in Rank
  BY <1>1, ConstantsAssumption DEF TypeOK
<1>3. Append(queue[r][res.kind], res) \in Seq(Result)
  BY <1>2
<1>4. queue' = [queue EXCEPT ![r] = [queue[r] EXCEPT ![res.kind] = Append(queue[r][res.kind], res)]]
  BY DEF Put
<1>5. queue' \in [Rank -> [Kind -> Seq(Result)]]
  BY <1>1, <1>3, <1>4 DEF TypeOK
<1>6. Len(Append(queue[r][res.kind], res)) = Len(queue[r][res.kind]) + 1
  BY <1>2
<1>7. ASSUME NEW k \in Kind
      PROVE  Ready(k)' = IF r = Main /\ k = res.kind THEN Ready(k) + 1 ELSE Ready(k)
  <2>1. queue'[Main][k] = IF r = Main /\ k = res.kind
                            THEN Append(queue[r][res.kind], res) ELSE queue[Main][k]
    BY <1>1, <1>2, <1>4 DEF TypeOK
  <2>2. QED BY <2>1, <1>6 DEF Ready
<1>8. QED BY <1>5, <1>7

(* A rollout returns a result of the kind it was asked for.                 *)
LEMMA RolloutLemma ==
  ASSUME TypeOK, NEW r \in Rank, NEW k \in Kind, NEW n \in Nat
  PROVE  Rollout(r, k, n) \in Result /\ Rollout(r, k, n).kind = k
BY DEF Rollout, Result, TypeOK, NoWeights

(* Lengths are naturals, and the kind in force is a kind.                   *)
LEMMA Lengths ==
  ASSUME TypeOK
  PROVE  /\ Main \in Rank
         /\ Tasks \in Nat /\ (Tasks = 0 <=> tasks[Main] = << >>)
         /\ \A k \in Kind : Ready(k) \in Nat /\ (Ready(k) = 0 <=> queue[Main][k] = << >>)
         /\ \A r \in Rank : Current(r) \in Kind
<1>1. Main \in Rank
  BY ConstantsAssumption
<1>2. tasks[Main] \in Seq(Task)
  BY <1>1 DEF TypeOK
<1>3. \A k \in Kind : queue[Main][k] \in Seq(Result)
  BY <1>1 DEF TypeOK
<1>4. QED BY <1>1, <1>2, <1>3 DEF Tasks, Ready, Current, Kind

(* The executor of the main rank finishes its oldest task.                  *)
LEMMA PopLemma ==
  ASSUME TypeOK, NEW r \in Rank, tasks[r] # << >>, tasks' = [tasks EXCEPT ![r] = Tail(@)]
  PROVE  /\ tasks' \in [Rank -> Seq(Task)]
         /\ Head(tasks[r]) \in Task
         /\ r = Main => Tasks' = Tasks - 1
         /\ r # Main => tasks'[Main] = tasks[Main]
         /\ \A k : Pending(k) => Pending(k)'
         /\ \A k : r = Main /\ Pending(k) => Head(tasks[r]).kind = k
<1>1. Main \in Rank /\ tasks[r] \in Seq(Task)
  BY ConstantsAssumption DEF TypeOK
<1>2. Tail(tasks[r]) \in Seq(Task) /\ Head(tasks[r]) \in Task
      /\ Len(Tail(tasks[r])) = Len(tasks[r]) - 1 /\ Len(tasks[r]) > 0
  BY <1>1
<1>3. tasks' \in [Rank -> Seq(Task)]
  BY <1>2 DEF TypeOK
<1>4. tasks'[Main] = IF r = Main THEN Tail(tasks[r]) ELSE tasks[Main]
  BY <1>1 DEF TypeOK
<1>5. ASSUME NEW k, Pending(k) PROVE Pending(k)'
  <2>1. CASE r # Main
    BY <2>1, <1>4, <1>5 DEF Pending
  <2>2. CASE r = Main
    <3>1. \A i \in 1 .. Len(tasks[Main]) - 1 : Tail(tasks[Main])[i] = tasks[Main][i + 1]
      BY <1>1, <2>2
    <3>2. DOMAIN tasks[Main] = 1 .. Len(tasks[Main])
          /\ DOMAIN Tail(tasks[Main]) = 1 .. Len(tasks[Main]) - 1
      BY <1>1, <1>2, <2>2
    <3>3. SUFFICES ASSUME NEW i \in 1 .. Len(tasks[Main]) - 1
                   PROVE  Tail(tasks[Main])[i].kind = k
      BY <1>4, <2>2, <3>2 DEF Pending
    <3>4. i + 1 \in 1 .. Len(tasks[Main])
      BY <1>1, <2>2
    <3>5. QED BY <3>1, <3>2, <3>4, <1>5 DEF Pending
  <2>3. QED BY <2>1, <2>2
<1>6. ASSUME NEW k, r = Main, Pending(k) PROVE Head(tasks[r]).kind = k
  <2>1. Head(tasks[r]) = tasks[r][1] /\ 1 \in DOMAIN tasks[r]
    BY <1>1, <1>2
  <2>2. QED BY <2>1, <1>6 DEF Pending
<1>7. QED BY <1>2, <1>3, <1>4, <1>5, <1>6 DEF Tasks

(* An empty executor has only tasks of any kind.                            *)
LEMMA EmptyPending == ASSUME tasks[Main] = << >>, NEW k PROVE Pending(k)
BY DEF Pending

-----------------------------------------------------------------------------
(* The invariant holds initially and each action preserves it.              *)

LEMMA InitIInv == Init => IInv
<1> SUFFICES ASSUME Init PROVE IInv
  OBVIOUS
<1>1. TypeOK
  <2>1. << >> \in Seq(Result) /\ << >> \in Seq(Task)
    OBVIOUS
  <2>2. \A S : \A e \in S : [r \in Rank |-> e] \in [Rank -> S] /\ [k \in Kind |-> e] \in [Kind -> S]
    OBVIOUS
  <2>3. [kind |-> "train", no |-> 0, ver |-> NoWeights] \in Result /\ NoWeights \in Int
    BY DEF Result, Kind, NoWeights
  <2>4. got \in [Rank -> Result] /\ served \in Int
    BY <2>2, <2>3, Zenon DEF Init
  <2>5. queue \in [Rank -> [Kind -> Seq(Result)]] /\ tasks \in [Rank -> Seq(Task)]
    BY <2>1, <2>2, Zenon DEF Init
  <2>6. "prefetch" \in PC /\ FALSE \in BOOLEAN /\ -1 \in Int /\ 0 \in Nat
    BY DEF PC
  <2>7. pc \in [Rank -> PC] /\ running \in BOOLEAN /\ lastLoaded \in [Rank -> Int]
    BY <2>2, <2>6, Zenon DEF Init
  <2>8. /\ shouldEvaluate \in [Rank -> BOOLEAN] /\ inEval \in [Rank -> BOOLEAN]
        /\ evalFlag \in [Rank -> BOOLEAN] /\ sent \in [Kind -> Nat]
    BY <2>2, <2>6, Zenon DEF Init
  <2>9. micro = 0 /\ step = 0 /\ resampled = 0 /\ evalLeft = EvalBatches
    BY Zenon DEF Init
  <2>10. micro \in Nat /\ step \in 0 .. MaxSteps /\ resampled \in 0 .. MaxResample
         /\ evalLeft \in 1 .. EvalBatches
    BY <2>9, ConstantsAssumption
  <2>11. QED BY <2>4, <2>5, <2>7, <2>8, <2>10, Zenon DEF TypeOK
<1>2. Shape
  <2>1. Ready("train") = 0 /\ Ready("eval") = 0 /\ tasks[Main] = << >>
    BY ConstantsAssumption DEF Init, Ready, Kind
  <2>2. /\ pc[Main] = "prefetch" /\ inEval[Main] = FALSE /\ shouldEvaluate[Main] = FALSE
        /\ running = FALSE /\ step = 0
    BY ConstantsAssumption DEF Init
  <2>3. TrainShape
    BY <2>1, <2>2, ConstantsAssumption DEF TrainShape
  <2>4. QED BY <2>2, <2>3 DEF Shape
<1>3. QED BY <1>1, <1>2 DEF IInv

(* A step that leaves tasks and queues alone and moves the main rank from   *)
(* one point to another needs to argue about the point only.                *)
LEMMA StepPrefetchGather == ASSUME IInv, PrefetchGather PROVE IInv'
<1> USE DEF IInv
<1>1. TypeOK'
  BY Lengths DEF TypeOK, PrefetchGather, trainerVars, clockVars, PC, AllAt
<1>2. Shape'
  <2>1. pc[Main] = "prefetch" /\ pc'[Main] \in {"preload", "preinfer"}
    BY Lengths DEF PrefetchGather, AllAt
  <2>2. QED BY <2>1, Lengths DEF PrefetchGather, trainerVars, clockVars, Shape, TrainShape, EvalShape,
                                 Pending, Ready, Tasks
<1>3. QED BY <1>1, <1>2

LEMMA StepPrefetchPut ==
  ASSUME IInv, ~EvalOnStart, NEW r \in Rank, PrefetchPut(r) PROVE IInv'
<1> USE DEF IInv
<1> DEFINE res == Rollout(r, Current(r), sent[Current(r)])
<1>1. res \in Result /\ res.kind = Current(r) /\ Put(r, res) /\ Current(r) \in Kind
  <2>1. Current(r) \in Kind /\ sent[Current(r)] \in Nat
    BY Lengths DEF TypeOK
  <2>2. QED BY <2>1, RolloutLemma DEF PrefetchPut
<1>2. /\ queue' \in [Rank -> [Kind -> Seq(Result)]]
      /\ \A k \in Kind : Ready(k)' = IF r = Main /\ k = Current(r) THEN Ready(k) + 1 ELSE Ready(k)
  BY <1>1, PutLemma
<1>3. UNCHANGED inEval
  BY DEF PrefetchPut
<1>4. TypeOK'
  BY <1>2, <1>3 DEF TypeOK, PrefetchPut, clockVars, Goto, FastInfer, PC
<1>5. Shape'
  <2>1. CASE r # Main
    <3>1. pc'[Main] = pc[Main]
      BY <2>1, Lengths DEF PrefetchPut, Goto, TypeOK
    <3>2. Ready("train")' = Ready("train") /\ Ready("eval")' = Ready("eval")
      BY <1>2, <2>1 DEF Kind
    <3>3. QED BY <1>3, <3>1, <3>2 DEF PrefetchPut, clockVars, Shape, TrainShape, EvalShape, Pending, Tasks
  <2>2. CASE r = Main
    <3>1. pc[Main] = "preinfer" /\ pc'[Main] = IF inEval[Main] THEN FastInfer(Main) ELSE "step"
      BY <2>2, Lengths DEF PrefetchPut, Goto, TypeOK
    <3>2. FastInfer(Main) \in {"waitq", "gather"}
      BY DEF FastInfer
    <3>3. \A k : Pending(k)' /\ tasks[Main] = << >> /\ Tasks' = 0
      BY <3>1, EmptyPending, Lengths DEF Shape, TrainShape, EvalShape, PrefetchPut, Pending, Tasks
    <3>4. CASE inEval[Main]
      <4>1. Ready("eval")' = 1 /\ Ready("train")' = Ready("train") /\ Ready("train") <= 1
        BY <1>2, <2>2, <3>1, <3>4 DEF Shape, EvalShape, Current, Kind
      <4>2. /\ inEval'[Main] = TRUE /\ shouldEvaluate'[Main] = TRUE /\ running' = running
            /\ pc'[Main] \in {"waitq", "gather"}
        BY <1>3, <3>1, <3>2, <3>4, Lengths DEF PrefetchPut, Shape, TypeOK
      <4>3. EvalShape'
        BY <3>3, <4>1, <4>2 DEF EvalShape
      <4>4. running = FALSE
        BY <3>3 DEF Shape, TypeOK
      <4>5. QED BY <4>2, <4>3, <4>4 DEF Shape
    <3>5. CASE ~inEval[Main]
      <4>1. Ready("train")' = 1 /\ Ready("eval")' = Ready("eval") /\ Ready("eval") <= 1
        BY <1>2, <2>2, <3>1, <3>5 DEF Shape, TrainShape, Current, Kind
      <4>2. QED BY <1>3, <3>1, <3>3, <3>5, <4>1, Lengths
                DEF PrefetchPut, clockVars, Shape, TrainShape, Kind
    <3>6. QED BY <3>4, <3>5
  <2>3. QED BY <2>1, <2>2
<1>6. QED BY <1>4, <1>5

LEMMA StepWaitQueue == ASSUME IInv, NEW r \in Rank, WaitQueue(r) PROVE IInv'
<1> USE DEF IInv
<1>1. TypeOK'
  BY DEF TypeOK, WaitQueue, Goto, trainerVars, clockVars, PC
<1>2. Shape'
  <2>1. pc'[Main] = IF r = Main THEN "load" ELSE pc[Main]
    BY Lengths DEF WaitQueue, Goto, TypeOK
  <2>2. CASE r # Main
    BY <2>1, <2>2 DEF WaitQueue, trainerVars, clockVars, Shape, TrainShape, EvalShape, Pending, Ready, Tasks
  <2>3. CASE r = Main
    <3>1. pc[Main] = "waitq" /\ pc'[Main] = "load" /\ Ready(Current(Main)) >= 1
      BY <2>1, <2>3, Lengths DEF WaitQueue, Ready
    <3>2. tasks[Main] = << >>
      BY <3>1, Lengths DEF Shape, TrainShape, EvalShape, Current, Kind
    <3>3. QED BY <3>1, <3>2 DEF WaitQueue, trainerVars, clockVars, Shape, TrainShape, EvalShape,
                                Pending, Ready, Tasks
  <2>4. QED BY <2>2, <2>3
<1>3. QED BY <1>1, <1>2

LEMMA StepLoadBegin == ASSUME IInv, LoadBegin PROVE IInv'
<1> USE DEF IInv
<1>1. TypeOK'
  BY DEF TypeOK, LoadBegin, trainerVars, clockVars, PC
<1>2. Shape'
  <2>1. \/ pc[Main] = "load" /\ pc'[Main] = "loading"
        \/ pc[Main] = "preload" /\ pc'[Main] = "preloading"
    BY Lengths DEF LoadBegin, AllAt
  <2>2. UNCHANGED <<inEval, shouldEvaluate, evalFlag, tasks, queue, running, step>>
    BY DEF LoadBegin, trainerVars, clockVars
  <2>3. CASE inEval[Main]
    BY <2>1, <2>2, <2>3 DEF Shape, EvalShape, Pending, Ready, Tasks
  <2>4. CASE ~inEval[Main]
    BY <2>1, <2>2, <2>4 DEF Shape, TrainShape, Pending, Ready, Tasks
  <2>5. QED BY <2>3, <2>4
<1>3. QED BY <1>1, <1>2

LEMMA StepLoadEnd == ASSUME IInv, LoadEnd PROVE IInv'
<1> USE DEF IInv
<1>1. TypeOK'
  <2>1. step \in Int /\ Main \in Rank
    BY Lengths, ConstantsAssumption DEF TypeOK
  <2>2. pc' \in [Rank -> PC]
    BY <2>1 DEF TypeOK, LoadEnd, Goto, PC
  <2>3. lastLoaded' \in [Rank -> Int] /\ served' \in Int
    BY <2>1 DEF TypeOK, LoadEnd
  <2>4. QED BY <2>2, <2>3 DEF TypeOK, LoadEnd, trainerVars, clockVars
<1>2. Shape'
  <2>1. \/ pc[Main] = "loading" /\ pc'[Main] = "gather"
        \/ pc[Main] = "preloading" /\ pc'[Main] = "preinfer"
    BY Lengths DEF LoadEnd, Goto, TypeOK
  <2>2. QED BY <2>1 DEF LoadEnd, trainerVars, clockVars, Shape, TrainShape, EvalShape, Pending, Ready, Tasks
<1>3. QED BY <1>1, <1>2

LEMMA StepSubmit == ASSUME IInv, Submit PROVE IInv'
<1> USE DEF IInv
<1> DEFINE task(r) == [kind |-> Current(r), no |-> sent'[Current(Main)]]
<1>1. sent' \in [Kind -> Nat] /\ \A r \in Rank : task(r) \in Task
  <2>1. sent' = [sent EXCEPT ![Current(Main)] = sent[Current(Main)] + 1] /\ sent \in [Kind -> Nat]
    BY DEF TypeOK, Submit
  <2>2. Current(Main) \in Kind /\ \A r \in Rank : Current(r) \in Kind
    BY Lengths
  <2>3. sent' \in [Kind -> Nat]
    BY <2>1, <2>2
  <2>4. QED BY <2>2, <2>3, Lengths DEF Task
<1>2. tasks' = [r \in Rank |-> Append(tasks[r], task(r))]
  BY DEF Submit
<1>3. tasks' \in [Rank -> Seq(Task)]
  <2>1. \A r \in Rank : Append(tasks[r], task(r)) \in Seq(Task)
    BY <1>1 DEF TypeOK
  <2>2. QED BY <1>2, <2>1
<1>4. TypeOK'
  BY <1>1, <1>3 DEF TypeOK, Submit, AllGoto, trainerVars, clockVars, PC
<1>5. Shape'
  <2>1. pc[Main] = "gather" /\ pc'[Main] = "get"
    BY Lengths DEF Submit, AllAt, AllGoto
  <2>2. tasks'[Main] = Append(tasks[Main], task(Main)) /\ tasks[Main] \in Seq(Task)
    BY <1>2, Lengths DEF TypeOK
  <2>3. Tasks' = Tasks + 1 /\ tasks'[Main] # << >>
    <3>1. task(Main) \in Task
      BY <1>1, Lengths
    <3>2. Len(Append(tasks[Main], task(Main))) = Len(tasks[Main]) + 1 /\ Len(tasks[Main]) \in Nat
      BY <2>2, <3>1
    <3>3. Len(<< >>) = 0
      OBVIOUS
    <3>4. QED BY <2>2, <3>2, <3>3 DEF Tasks
  <2>4. \A k : Pending(k) /\ k = Current(Main) => Pending(k)'
    <3>1. SUFFICES ASSUME Pending(Current(Main)), NEW i \in DOMAIN tasks'[Main]
                   PROVE  tasks'[Main][i].kind = Current(Main)
      BY DEF Pending
    <3>2. i \in 1 .. Len(tasks[Main]) + 1
      BY <1>1, <2>2, <3>1, Lengths
    <3>3. CASE i = Len(tasks[Main]) + 1
      BY <1>1, <2>2, <3>3, Lengths DEF Task
    <3>4. CASE i # Len(tasks[Main]) + 1
      <4>1. i \in DOMAIN tasks[Main] /\ tasks'[Main][i] = tasks[Main][i]
        BY <1>1, <2>2, <3>2, <3>4, Lengths
      <4>2. QED BY <3>1, <4>1 DEF Pending
    <3>5. QED BY <3>3, <3>4
  <2>5. /\ UNCHANGED <<inEval, shouldEvaluate, evalFlag, queue, running, step>>
        /\ Ready("train")' = Ready("train") /\ Ready("eval")' = Ready("eval")
    BY DEF Submit, trainerVars, clockVars, Ready
  <2>6. QED BY <2>1, <2>3, <2>4, <2>5, Lengths DEF Shape, TrainShape, EvalShape, Current, Kind
<1>6. QED BY <1>4, <1>5

LEMMA StepTake == ASSUME IInv, NEW r \in Rank, Take(r) PROVE IInv'
<1> USE DEF IInv
<1> DEFINE q == queue[r][Current(r)]
<1>1. q \in Seq(Result) /\ q # << >> /\ Current(r) \in Kind
  BY Lengths DEF Take, TypeOK
<1>2. Head(q) \in Result /\ Tail(q) \in Seq(Result) /\ Len(Tail(q)) = Len(q) - 1
  BY <1>1
<1>3. queue' = [queue EXCEPT ![r] = [queue[r] EXCEPT ![Current(r)] = Tail(q)]]
      /\ got' = [got EXCEPT ![r] = Head(q)]
  BY DEF Take
<1>4. queue' \in [Rank -> [Kind -> Seq(Result)]] /\ got' \in [Rank -> Result]
  BY <1>1, <1>2, <1>3 DEF TypeOK
<1>5. TypeOK'
  BY <1>4 DEF TypeOK, Take, Goto, trainerVars, clockVars, PC
<1>6. Shape'
  <2>1. /\ UNCHANGED <<inEval, shouldEvaluate, evalFlag, tasks, running, step, Tasks>>
        /\ \A k : Pending(k)' = Pending(k)
    BY DEF Take, trainerVars, clockVars, Pending, Tasks
  <2>2. CASE r # Main
    <3>1. queue'[Main] = queue[Main] /\ pc'[Main] = pc[Main]
      BY <1>3, <2>2, Lengths DEF TypeOK, Take, Goto
    <3>2. QED BY <2>1, <3>1 DEF Shape, TrainShape, EvalShape, Ready
  <2>3. CASE r = Main
    <3>1. \A k \in Kind : queue'[Main][k] = IF k = Current(Main) THEN Tail(q) ELSE queue[Main][k]
      BY <1>1, <1>3, <2>3, Lengths DEF TypeOK
    <3>2. \A k \in Kind : Ready(k)' = IF k = Current(Main) THEN Ready(k) - 1 ELSE Ready(k)
      BY <1>2, <2>3, <3>1 DEF Ready
    <3>3. pc[Main] = "get" /\ pc'[Main] = "scatter"
      BY <2>3, Lengths DEF Take, Goto, TypeOK
    <3>4. QED BY <2>1, <3>2, <3>3, Lengths DEF Shape, TrainShape, EvalShape, Current, Kind
  <2>4. QED BY <2>2, <2>3
<1>7. QED BY <1>5, <1>6

LEMMA StepEmptyTask == ASSUME IInv, NEW r \in Rank, EmptyTask(r) PROVE IInv'
<1> USE DEF IInv
<1> DEFINE t == Head(tasks[r])
<1>1. r # Main /\ tasks[r] # << >> /\ tasks' = [tasks EXCEPT ![r] = Tail(@)]
  BY DEF EmptyTask
<1>2. tasks' \in [Rank -> Seq(Task)] /\ t \in Task /\ tasks'[Main] = tasks[Main]
  BY <1>1, PopLemma
<1>3. Rollout(r, t.kind, t.no) \in Result /\ Put(r, Rollout(r, t.kind, t.no))
  BY <1>2, RolloutLemma DEF EmptyTask, Task
<1>4. queue' \in [Rank -> [Kind -> Seq(Result)]] /\ \A k \in Kind : Ready(k)' = Ready(k)
  BY <1>1, <1>3, PutLemma
<1>5. TypeOK'
  BY <1>2, <1>4 DEF TypeOK, EmptyTask, trainerVars, clockVars
<1>6. Shape'
  <2>1. UNCHANGED <<pc, inEval, shouldEvaluate, evalFlag, running, step>>
    BY DEF EmptyTask, trainerVars, clockVars
  <2>2. Ready("train")' = Ready("train") /\ Ready("eval")' = Ready("eval")
    BY <1>4 DEF Kind
  <2>3. QED BY <1>2, <2>1, <2>2 DEF Shape, TrainShape, EvalShape, Pending, Tasks
<1>7. QED BY <1>5, <1>6

LEMMA StepRolloutBegin == ASSUME IInv, RolloutBegin PROVE IInv'
<1>1. UNCHANGED <<pc, inEval, shouldEvaluate, evalFlag, lastLoaded, queue, tasks, got, sent, served,
                  micro, step, resampled, evalLeft>> /\ running' = TRUE /\ tasks[Main] # << >>
  BY DEF RolloutBegin, trainerVars, clockVars
<1>2. TypeOK'
  BY <1>1 DEF IInv, TypeOK
<1>3. QED BY <1>1, <1>2 DEF IInv, Shape, TrainShape, EvalShape, Pending, Ready, Tasks

(* The main rank's oldest task leaves the executor; its result, if any, is  *)
(* put in the queue of the kind of the task: the count does not grow.       *)
LEMMA FinishShape ==
  ASSUME IInv, running, running' = FALSE,
         UNCHANGED <<pc, inEval, shouldEvaluate, evalFlag, step>>,
         Tasks' = Tasks - 1, \A k : Pending(k) => Pending(k)',
         \A k : Pending(k) => Head(tasks[Main]).kind = k,
         \/ \A k \in Kind : Ready(k)' = Ready(k)
         \/ \A k \in Kind : Ready(k)' = IF k = Head(tasks[Main]).kind THEN Ready(k) + 1 ELSE Ready(k)
  PROVE  Shape'
<1>1. TypeOK /\ Shape /\ tasks[Main] # << >>
  BY DEF IInv, Shape
<1>2. Tasks \in Nat /\ Tasks >= 1 /\ \A k \in Kind : Ready(k) \in Nat
  BY <1>1, Lengths
<1>3. ASSUME NEW k \in Kind, Pending(k)
      PROVE  /\ Pending(k)'
             /\ Ready(k)' + Tasks' <= Ready(k) + Tasks
             /\ \A j \in Kind : j # k => Ready(j)' = Ready(j)
  BY <1>2, <1>3
<1>4. CASE inEval[Main]
  BY <1>1, <1>2, <1>3, <1>4 DEF Shape, EvalShape, Kind
<1>5. CASE ~inEval[Main]
  BY <1>1, <1>2, <1>3, <1>5 DEF Shape, TrainShape, Kind
<1>6. QED BY <1>4, <1>5

LEMMA StepRolloutEnd == ASSUME IInv, RolloutEnd PROVE IInv'
<1> USE DEF IInv
<1> DEFINE t == Head(tasks[Main])
<1>1. /\ running /\ running' = FALSE /\ tasks[Main] # << >> /\ Main \in Rank
      /\ tasks' = [tasks EXCEPT ![Main] = Tail(@)]
  BY Lengths DEF RolloutEnd, Shape
<1>2. /\ tasks' \in [Rank -> Seq(Task)] /\ t \in Task /\ Tasks' = Tasks - 1
      /\ \A k : Pending(k) => Pending(k)' /\ t.kind = k
  BY <1>1, PopLemma
<1>3. /\ Rollout(Main, t.kind, t.no) \in Result /\ Put(Main, Rollout(Main, t.kind, t.no))
      /\ Rollout(Main, t.kind, t.no).kind = t.kind
  BY <1>1, <1>2, RolloutLemma DEF RolloutEnd, Task
<1>4. /\ queue' \in [Rank -> [Kind -> Seq(Result)]]
      /\ \A k \in Kind : Ready(k)' = IF k = t.kind THEN Ready(k) + 1 ELSE Ready(k)
  BY <1>1, <1>3, PutLemma
<1>5. TypeOK'
  BY <1>1, <1>2, <1>4 DEF TypeOK, RolloutEnd, trainerVars, clockVars
<1>6. Shape'
  BY <1>1, <1>2, <1>4, FinishShape DEF RolloutEnd, trainerVars, clockVars
<1>7. QED BY <1>5, <1>6

LEMMA StepRolloutFail == ASSUME IInv, RolloutFail PROVE IInv'
<1> USE DEF IInv
<1>1. /\ running /\ running' = FALSE /\ tasks[Main] # << >> /\ Main \in Rank
      /\ tasks' = [tasks EXCEPT ![Main] = Tail(@)]
  BY Lengths DEF RolloutFail, Shape
<1>2. /\ tasks' \in [Rank -> Seq(Task)] /\ Tasks' = Tasks - 1
      /\ \A k : Pending(k) => Pending(k)' /\ Head(tasks[Main]).kind = k
  BY <1>1, PopLemma
<1>3. TypeOK'
  BY <1>1, <1>2 DEF TypeOK, RolloutFail, trainerVars, clockVars
<1>4. \A k \in Kind : Ready(k)' = Ready(k)
  BY DEF RolloutFail, Ready
<1>5. Shape'
  BY <1>1, <1>2, <1>4, FinishShape DEF RolloutFail, trainerVars, clockVars
<1>6. QED BY <1>3, <1>5

LEMMA StepTrainingStep == ASSUME IInv, NEW r \in Rank, TrainingStep(r) PROVE IInv'
<1> USE DEF IInv
<1>1. TypeOK'
  BY DEF TypeOK, TrainingStep, Goto, FastInfer, trainerVars, clockVars, PC
<1>2. Shape'
  <2>1. UNCHANGED <<inEval, shouldEvaluate, evalFlag, tasks, queue, running, step>>
    BY DEF TrainingStep, trainerVars, clockVars
  <2>2. CASE r # Main
    <3>1. pc'[Main] = pc[Main]
      BY <2>2, Lengths DEF TrainingStep, Goto, TypeOK
    <3>2. QED BY <2>1, <3>1 DEF Shape, TrainShape, EvalShape, Pending, Ready, Tasks
  <2>3. CASE r = Main
    <3>1. pc[Main] = "step" /\ pc'[Main] \in {"waitq", "gather", "compute"}
          /\ (evalFlag[Main] => Ready("eval") # 0)
      BY <2>3, Lengths DEF TrainingStep, Goto, FastInfer, TypeOK, EvalRolloutDone, Kind
    <3>2. ~inEval[Main] /\ TrainShape
      BY <3>1 DEF Shape, EvalShape
    <3>3. Pending("train") /\ Ready("train") + Tasks <= 1 /\ Ready("eval") <= 1
      <4>1. CASE Pending("train") /\ Ready("train") + Tasks <= 1 /\ Ready("eval") <= 1
        BY <4>1
      <4>2. CASE /\ Pending("eval") /\ Ready("eval") + Tasks <= 1
                 /\ Ready("train") <= 1 /\ evalFlag[Main]
        <5>1. Tasks = 0 /\ Ready("eval") = 1
          BY <3>1, <4>2, Lengths DEF Kind
        <5>2. tasks[Main] = << >> /\ Ready("train") \in Nat
          BY <5>1, Lengths DEF Kind
        <5>3. Pending("train")
          BY <5>2, EmptyPending
        <5>4. QED BY <4>2, <5>1, <5>2, <5>3
      <4>3. QED BY <3>1, <3>2, <4>1, <4>2 DEF TrainShape
    <3>4. QED BY <2>1, <3>1, <3>2, <3>3 DEF Shape, TrainShape, Pending, Ready, Tasks
  <2>4. QED BY <2>2, <2>3
<1>3. QED BY <1>1, <1>2

(* The steps after gather_object(data_cache.results) move the main rank     *)
(* between points where it has the same rollouts out.                       *)
LEMMA StepAfterScatter ==
  ASSUME IInv, Resample \/ BatchReady \/ EvalBatch PROVE IInv'
<1> USE DEF IInv
<1>1. /\ pc[Main] = "scatter"
      /\ inEval[Main] => pc'[Main] \in {"evalend", "waitq", "gather"}
      /\ ~inEval[Main] => pc'[Main] \in {"compute", "waitq", "gather"}
  BY Lengths DEF Resample, BatchReady, EvalBatch, AllAt, AllGoto, FastInfer, TypeOK
<1>2. UNCHANGED <<inEval, shouldEvaluate, evalFlag, lastLoaded, queue, tasks, running,
                  got, sent, served, micro, step>>
  BY DEF Resample, BatchReady, EvalBatch, trainerVars
<1>3. pc' \in [Rank -> PC] /\ resampled' \in 0 .. MaxResample /\ evalLeft' \in 1 .. EvalBatches
  <2>1. CASE Resample
    BY <2>1, ConstantsAssumption DEF Resample, TypeOK, FastInfer, PC
  <2>2. CASE BatchReady
    BY <2>2, ConstantsAssumption DEF BatchReady, TypeOK, AllGoto, PC
  <2>3. CASE EvalBatch
    BY <2>3, ConstantsAssumption DEF EvalBatch, TypeOK, FastInfer, PC
  <2>4. QED BY <2>1, <2>2, <2>3
<1>4. TypeOK'
  BY <1>2, <1>3 DEF TypeOK
<1>5. Shape'
  <2>1. CASE inEval[Main]
    BY <1>1, <1>2, <2>1 DEF Shape, EvalShape, Pending, Ready, Tasks
  <2>2. CASE ~inEval[Main]
    BY <1>1, <1>2, <2>2 DEF Shape, TrainShape, Pending, Ready, Tasks
  <2>3. QED BY <2>1, <2>2
<1>6. QED BY <1>4, <1>5

LEMMA StepBackward == ASSUME IInv, Backward PROVE IInv'
<1> USE DEF IInv
<1> DEFINE update == (micro + 1) % MicroPerStep = 0
           evaluate == update /\ EvalSteps > 0 /\ (step + 1) % EvalSteps = 0
<1>1. pc[Main] = "compute" /\ ~inEval[Main] /\ TrainShape /\ step < MaxSteps
  BY Lengths DEF Backward, AllAt, Shape, EvalShape, TrainShape
<1>2. /\ step' = IF update THEN step + 1 ELSE step
      /\ shouldEvaluate' = [r \in Rank |-> evaluate]
      /\ inEval' = [r \in Rank |-> evaluate]
      /\ pc' = [r \in Rank |-> IF evaluate THEN "evalwait" ELSE NextStep']
      /\ micro' = micro + 1
      /\ UNCHANGED <<evalFlag, lastLoaded, queue, tasks, running, got, sent, served,
                     resampled, evalLeft>>
  BY DEF Backward, AllGoto
<1>3. step' \in 0 .. MaxSteps /\ evaluate \in BOOLEAN
  BY <1>1, <1>2, ConstantsAssumption DEF TypeOK
<1>4. NextStep' \in {"done", "step"} /\ (NextStep' = "step" => step' < MaxSteps)
  BY <1>3, ConstantsAssumption DEF NextStep
<1>5. TypeOK'
  <2>1. pc' \in [Rank -> PC]
    BY <1>2, <1>4 DEF PC
  <2>2. shouldEvaluate' \in [Rank -> BOOLEAN] /\ inEval' \in [Rank -> BOOLEAN] /\ micro' \in Nat
    BY <1>2, <1>3 DEF TypeOK
  <2>3. QED BY <1>2, <1>3, <2>1, <2>2 DEF TypeOK
<1>6. Shape'
  <2>1. inEval'[Main] = evaluate /\ shouldEvaluate'[Main] = evaluate
        /\ pc'[Main] = IF evaluate THEN "evalwait" ELSE NextStep'
    BY <1>2, Lengths
  <2>2. /\ Pending("train")' /\ Ready("train")' + Tasks' <= 1 /\ Ready("eval")' <= 1
        /\ running' => tasks'[Main] # << >>
    BY <1>1, <1>2 DEF Shape, TrainShape, Pending, Ready, Tasks
  <2>3. CASE evaluate
    BY <2>1, <2>2, <2>3 DEF Shape, EvalShape
  <2>4. CASE ~evaluate
    BY <1>4, <2>1, <2>2, <2>4 DEF Shape, TrainShape
  <2>5. QED BY <2>3, <2>4
<1>7. QED BY <1>5, <1>6

LEMMA StepEvalBegin == ASSUME IInv, NEW r \in Rank, EvalBegin(r) PROVE IInv'
<1> USE DEF IInv
<1>1. TypeOK'
  BY DEF TypeOK, EvalBegin, Goto, FastInfer, trainerVars, clockVars, PC
<1>2. Shape'
  <2>1. UNCHANGED <<inEval, shouldEvaluate, evalFlag, tasks, queue, running, step>>
    BY DEF EvalBegin, trainerVars, clockVars
  <2>2. CASE r # Main
    <3>1. pc'[Main] = pc[Main]
      BY <2>2, Lengths DEF EvalBegin, Goto, TypeOK
    <3>2. QED BY <2>1, <3>1 DEF Shape, TrainShape, EvalShape, Pending, Ready, Tasks
  <2>3. CASE r = Main
    <3>1. pc[Main] = "evalwait" /\ inEval[Main] /\ EvalShape /\ Current(Main) = "eval"
      BY <2>3 DEF EvalBegin, Shape, TrainShape, Current
    <3>2. /\ pc'[Main] \in {"prefetch", "waitq", "gather"}
          /\ pc'[Main] = "prefetch" => Ready("eval") = 0
          /\ Ready("train") # 0
      BY <2>3, <3>1, Lengths DEF EvalBegin, Goto, FastInfer, TypeOK, Kind
    <3>3. Tasks = 0 /\ tasks[Main] = << >> /\ Ready("train") <= 1 /\ Ready("eval") <= 1
      BY <3>1, <3>2, Lengths DEF EvalShape, Kind
    <3>4. Pending("eval") /\ Ready("eval") + Tasks <= 1
      BY <3>3, EmptyPending, Lengths DEF Kind
    <3>5. QED BY <2>1, <3>1, <3>2, <3>3, <3>4 DEF Shape, EvalShape, Pending, Ready, Tasks
  <2>4. QED BY <2>2, <2>3
<1>3. QED BY <1>1, <1>2

LEMMA StepEvalEnd == ASSUME IInv, NEW r \in Rank, EvalEnd(r) PROVE IInv'
<1> USE DEF IInv
<1>1. NextStep \in {"done", "step"} /\ (NextStep = "step" => step < MaxSteps)
  BY ConstantsAssumption DEF NextStep, TypeOK
<1>2. TypeOK'
  BY <1>1 DEF TypeOK, EvalEnd, Goto, clockVars, PC
<1>3. Shape'
  <2>1. UNCHANGED <<tasks, queue, running, step>>
    BY DEF EvalEnd, clockVars
  <2>2. CASE r # Main
    <3>1. /\ pc'[Main] = pc[Main] /\ inEval'[Main] = inEval[Main]
          /\ shouldEvaluate'[Main] = shouldEvaluate[Main] /\ evalFlag'[Main] = evalFlag[Main]
      BY <2>2, Lengths DEF EvalEnd, Goto, TypeOK
    <3>2. QED BY <2>1, <3>1 DEF Shape, TrainShape, EvalShape, Pending, Ready, Tasks
  <2>3. CASE r = Main
    <3>1. /\ pc[Main] = "evalend" /\ pc'[Main] = NextStep /\ inEval'[Main] = FALSE
          /\ shouldEvaluate'[Main] = FALSE /\ evalFlag'[Main] = TRUE
      BY <2>3, Lengths DEF EvalEnd, Goto, TypeOK
    <3>2. inEval[Main] /\ EvalShape
      BY <3>1 DEF Shape, TrainShape
    <3>3. QED BY <1>1, <2>1, <3>1, <3>2 DEF Shape, TrainShape, EvalShape, Pending, Ready, Tasks
  <2>4. QED BY <2>2, <2>3
<1>4. QED BY <1>2, <1>3

LEMMA StepStutter == ASSUME IInv, UNCHANGED vars PROVE IInv'
BY DEF IInv, TypeOK, Shape, TrainShape, EvalShape, Pending, Ready, Tasks, vars, trainerVars, clockVars

-----------------------------------------------------------------------------
(* The theorems.                                                            *)

LEMMA NextIInv == ASSUME ~EvalOnStart, IInv, [Next]_vars PROVE IInv'
<1>1. CASE \E r \in Rank : MainThread(r)
  BY <1>1, StepPrefetchPut, StepWaitQueue, StepTake, StepTrainingStep, StepEvalBegin, StepEvalEnd
     DEF MainThread
<1>2. CASE \E r \in Rank : Executor(r)
  BY <1>2, StepEmptyTask, StepRolloutBegin, StepRolloutEnd, StepRolloutFail DEF Executor
<1>3. CASE Collective
  BY <1>3, StepPrefetchGather, StepLoadBegin, StepSubmit, StepAfterScatter, StepBackward DEF Collective
<1>4. CASE LoadEnd
  BY <1>4, StepLoadEnd
<1>5. CASE Terminated \/ UNCHANGED vars
  BY <1>5, StepStutter DEF Terminated
<1>6. QED BY <1>1, <1>2, <1>3, <1>4, <1>5 DEF Next

(* The invariant holds in every reachable state of a run without            *)
(* evaluation on start.                                                     *)
THEOREM Invariance == ~EvalOnStart /\ Spec => []IInv
<1>1. SUFFICES ASSUME ~EvalOnStart PROVE Spec => []IInv
  OBVIOUS
<1>2. IInv /\ [Next]_vars => IInv'
  BY <1>1, NextIInv
<1>3. QED BY <1>2, InitIInv, PTL DEF Spec

(* Every variable keeps its type.                                           *)
THEOREM TypeCorrect == ~EvalOnStart /\ Spec => []TypeOK
<1>1. IInv => TypeOK
  BY DEF IInv
<1>2. QED BY <1>1, Invariance, PTL

(* The weights the server holds never change under a rollout, whatever the  *)
(* number of ranks and the schedule, even when rollouts fail.               *)
THEOREM WeightsStableUnderRollouts == ~EvalOnStart /\ Spec => []NoLoadDuringRollout
<1>1. IInv => NoLoadDuringRollout
  BY DEF IInv, Shape, TrainShape, EvalShape, NoLoadDuringRollout, Loading, InFlight
<1>2. QED BY <1>1, Invariance, PTL

(* The synchronous rollout of a prefetch and a rollout of the executor      *)
(* never overlap at the server.                                             *)
THEOREM RolloutsSerialised == ~EvalOnStart /\ Spec => []OneRolloutAtATime
<1>1. IInv => OneRolloutAtATime
  BY DEF IInv, Shape, TrainShape, EvalShape, OneRolloutAtATime, InFlight
<1>2. QED BY <1>1, Invariance, PTL

-----------------------------------------------------------------------------
(* The refinement: the pipeline implements RolloutService, step by step.    *)

(* The weights at the server are the last ones the main rank has loaded,    *)
(* and never newer than the trainer's; a load in preparation brings newer   *)
(* ones, since _fast_infer compares lastLoaded with the step before it.     *)
Weights ==
  /\ served = lastLoaded[Main] /\ served <= step
  /\ pc[Main] \in {"waitq", "load", "loading", "preload", "preloading"} => served # step

(* The refinement mapping, by name.                                         *)
OpenBar  == [i \in DOMAIN tasks[Main] |-> tasks[Main][i].kind]
ReadyBar == [k \in Kind |-> [i \in DOMAIN queue[Main][k] |-> queue[Main][k][i].ver]]
serviceVars == <<served, Loading, OpenBar, ReadyBar>>

(* Element by element, through a function.                                  *)
Through(f, s) == [i \in DOMAIN s |-> f[s[i]]]

(* What Through is on the sequences over S.                                 *)
IsImage(f, S, s) ==
  /\ Through(f, s) \in Seq({f[e] : e \in S}) /\ Len(Through(f, s)) = Len(s)
  /\ \A i \in 1 .. Len(s) : Through(f, s)[i] = f[s[i]]
  /\ Through(f, s) = << >> <=> s = << >>

KindOf == [t \in Task |-> t.kind]
VerOf == [res \in Result |-> res.ver]

-----------------------------------------------------------------------------
(* Lemmas about the mapping.                                                *)

LEMMA ThroughSeq == ASSUME NEW S, NEW f PROVE \A s \in Seq(S) : IsImage(f, S, s)
<1> TAKE s \in Seq(S)
<1>1. DOMAIN s = 1 .. Len(s) /\ Len(s) \in Nat /\ \A i \in 1 .. Len(s) : s[i] \in S
  OBVIOUS
<1>2. Through(f, s) = [i \in 1 .. Len(s) |-> f[s[i]]]
  BY <1>1 DEF Through
<1>3. Through(f, s) \in Seq({f[e] : e \in S}) /\ Len(Through(f, s)) = Len(s)
  BY <1>1, <1>2
<1>4. QED BY <1>1, <1>2, <1>3 DEF IsImage

(* The image of a longer sequence is the longer image ...                   *)
LEMMA ThroughAppend ==
  ASSUME NEW S, NEW f, NEW s \in Seq(S), NEW e \in S
  PROVE  Through(f, Append(s, e)) = Append(Through(f, s), f[e])
<1> DEFINE a == Through(f, Append(s, e))
           b == Append(Through(f, s), f[e])
<1>1. /\ Append(s, e) \in Seq(S) /\ Len(Append(s, e)) = Len(s) + 1 /\ Len(s) \in Nat
      /\ f[e] \in {f[y] : y \in S}
  OBVIOUS
<1>2. IsImage(f, S, s) /\ IsImage(f, S, Append(s, e))
  BY <1>1, ThroughSeq
<1>3. /\ a \in Seq({f[y] : y \in S}) /\ Len(a) = Len(s) + 1
      /\ \A i \in 1 .. Len(s) + 1 : a[i] = f[Append(s, e)[i]]
  BY <1>1, <1>2 DEF IsImage
<1>4. b \in Seq({f[y] : y \in S}) /\ Len(b) = Len(s) + 1
  BY <1>1, <1>2 DEF IsImage
<1>5. ASSUME NEW i \in 1 .. Len(s) + 1 PROVE a[i] = b[i]
  BY <1>1, <1>2, <1>3 DEF IsImage
<1>6. QED BY <1>3, <1>4, <1>5

(* ... and so are the head and the tail.                                    *)
LEMMA ThroughTail ==
  ASSUME NEW S, NEW f, NEW s \in Seq(S), s # << >>
  PROVE  /\ Through(f, Tail(s)) = Tail(Through(f, s))
         /\ Head(Through(f, s)) = f[Head(s)]
<1> DEFINE a == Through(f, Tail(s))
           b == Tail(Through(f, s))
<1>1. /\ Tail(s) \in Seq(S) /\ Len(Tail(s)) = Len(s) - 1 /\ Len(s) \in Nat \ {0}
      /\ \A i \in 1 .. Len(s) - 1 : Tail(s)[i] = s[i + 1]
  OBVIOUS
<1>2. IsImage(f, S, s) /\ IsImage(f, S, Tail(s))
  BY <1>1, ThroughSeq
<1>3. /\ a \in Seq({f[y] : y \in S}) /\ Len(a) = Len(s) - 1
      /\ \A i \in 1 .. Len(s) - 1 : a[i] = f[Tail(s)[i]]
  BY <1>1, <1>2 DEF IsImage
<1>4. /\ b \in Seq({f[y] : y \in S}) /\ Len(b) = Len(s) - 1
      /\ \A i \in 1 .. Len(s) - 1 : b[i] = Through(f, s)[i + 1]
  BY <1>1, <1>2 DEF IsImage
<1>5. \A i \in 1 .. Len(s) - 1 : a[i] = b[i]
  <2> TAKE i \in 1 .. Len(s) - 1
  <2>1. i + 1 \in 1 .. Len(s) /\ a[i] = f[s[i + 1]] /\ b[i] = Through(f, s)[i + 1]
    BY <1>1, <1>3, <1>4
  <2>2. QED BY <1>2, <2>1 DEF IsImage
<1>6. a = b
  BY <1>3, <1>4, <1>5
<1>7. Head(s) = s[1] /\ 1 \in 1 .. Len(s) /\ Through(f, s) # << >>
  BY <1>1, <1>2 DEF IsImage
<1>8. Through(f, s)[1] = f[Head(s)] /\ Head(Through(f, s)) = Through(f, s)[1]
  BY <1>2, <1>7 DEF IsImage
<1>9. QED BY <1>6, <1>8

(* The mapping, as images.                                                  *)
LEMMA KindsImage ==
  ASSUME NEW s \in Seq(Task)
  PROVE  [i \in DOMAIN s |-> s[i].kind] = Through(KindOf, s)
<1>1. \A i \in DOMAIN s : s[i] \in Task
  OBVIOUS
<1>2. QED BY <1>1 DEF Through, KindOf

LEMMA VersImage ==
  ASSUME NEW q, \A k \in Kind : q[k] \in Seq(Result)
  PROVE  [k \in Kind |-> [i \in DOMAIN q[k] |-> q[k][i].ver]] = [k \in Kind |-> Through(VerOf, q[k])]
<1>1. ASSUME NEW k \in Kind PROVE [i \in DOMAIN q[k] |-> q[k][i].ver] = Through(VerOf, q[k])
  <2>1. \A i \in DOMAIN q[k] : q[k][i] \in Result
    OBVIOUS
  <2>2. QED BY <2>1 DEF Through, VerOf
<1>2. QED BY <1>1, Zenon

LEMMA Mapping ==
  ASSUME TypeOK
  PROVE  /\ KindOf \in [Task -> Kind] /\ VerOf \in [Result -> Int]
         /\ tasks[Main] \in Seq(Task) /\ OpenBar = Through(KindOf, tasks[Main])
         /\ \A k \in Kind : queue[Main][k] \in Seq(Result)
         /\ ReadyBar = [k \in Kind |-> Through(VerOf, queue[Main][k])]
         /\ OpenBar = << >> <=> tasks[Main] = << >>
         /\ \A k \in Kind : ReadyBar[k] = << >> <=> queue[Main][k] = << >>
<1>1. KindOf \in [Task -> Kind] /\ VerOf \in [Result -> Int]
  BY DEF KindOf, VerOf, Task, Result
<1>2. tasks[Main] \in Seq(Task) /\ \A k \in Kind : queue[Main][k] \in Seq(Result)
  BY Lengths DEF TypeOK
<1>3. OpenBar = Through(KindOf, tasks[Main])
  BY <1>2, KindsImage DEF OpenBar
<1>5. ReadyBar = [k \in Kind |-> Through(VerOf, queue[Main][k])]
  BY <1>2, VersImage, Zenon DEF ReadyBar
<1>6. OpenBar = << >> <=> tasks[Main] = << >>
  <2>1. IsImage(KindOf, Task, tasks[Main])
    BY <1>2, ThroughSeq
  <2>2. QED BY <1>3, <2>1 DEF IsImage
<1>7. ASSUME NEW k \in Kind PROVE ReadyBar[k] = << >> <=> queue[Main][k] = << >>
  <2>1. ReadyBar[k] = Through(VerOf, queue[Main][k])
    BY <1>5
  <2>2. IsImage(VerOf, Result, queue[Main][k])
    BY <1>2, ThroughSeq
  <2>3. QED BY <2>1, <2>2 DEF IsImage
<1>8. QED BY <1>1, <1>2, <1>3, <1>5, <1>6, <1>7

(* A result put in a queue of the main rank appears as its weights.         *)
LEMMA PutReady ==
  ASSUME TypeOK, NEW res \in Result, Put(Main, res)
  PROVE  ReadyBar' = [ReadyBar EXCEPT ![res.kind] = Append(@, res.ver)]
<1>1. res.kind \in Kind /\ Main \in Rank /\ queue[Main][res.kind] \in Seq(Result)
  <2>1. res.kind \in Kind /\ Main \in Rank
    BY Lengths DEF Result
  <2>2. QED BY <2>1 DEF TypeOK
<1>2. \A k \in Kind : queue'[Main][k] = IF k = res.kind
                                         THEN Append(queue[Main][k], res) ELSE queue[Main][k]
  BY <1>1 DEF Put, TypeOK
<1>3. \A k \in Kind : queue[Main][k] \in Seq(Result)
  BY Mapping
<1>4. \A k \in Kind : queue'[Main][k] \in Seq(Result)
  <2>1. \A q \in Seq(Result) : Append(q, res) \in Seq(Result)
    OBVIOUS
  <2>2. QED BY <1>2, <1>3, <2>1
<1>5. ReadyBar' = [k \in Kind |-> Through(VerOf, queue'[Main][k])]
  BY <1>4, VersImage, Zenon DEF ReadyBar
<1>6. Through(VerOf, Append(queue[Main][res.kind], res))
        = Append(Through(VerOf, queue[Main][res.kind]), res.ver)
  BY <1>1, ThroughAppend DEF VerOf
<1>7. \A k \in Kind : ReadyBar'[k] = IF k = res.kind THEN Append(ReadyBar[k], res.ver) ELSE ReadyBar[k]
  <2>1. ReadyBar = [k \in Kind |-> Through(VerOf, queue[Main][k])]
    BY Mapping
  <2>2. QED BY <1>1, <1>2, <1>5, <1>6, <2>1
<1>8. QED BY <1>1, <1>5, <1>7 DEF ReadyBar

-----------------------------------------------------------------------------
(* The weights at the server.                                               *)

LEMMA InitWeights == Init => Weights
BY ConstantsAssumption DEF Init, Weights, NoWeights

(* Each action leaves the weights in step with the trainer.                 *)
LEMMA NextWeights ==
  ASSUME IInv, Weights, [Next]_vars PROVE Weights'
<1> USE DEF IInv
<1>0. Main \in Rank /\ step \in Nat /\ pc \in [Rank -> PC] /\ lastLoaded \in [Rank -> Int]
  BY Lengths, ConstantsAssumption DEF TypeOK
<1>1. ASSUME NEW r \in Rank, PrefetchPut(r) \/ TrainingStep(r) \/ EvalBegin(r) PROVE Weights'
  <2>1. UNCHANGED <<lastLoaded, served, step>>
    BY <1>1 DEF PrefetchPut, TrainingStep, EvalBegin, clockVars
  <2>2. \/ pc'[Main] = pc[Main]
        \/ pc'[Main] \in {FastInfer(Main), "step", "evalwait", "prefetch", "compute"}
    BY <1>0, <1>1 DEF PrefetchPut, TrainingStep, EvalBegin, Goto
  <2>3. QED BY <2>1, <2>2 DEF Weights, FastInfer
<1>2. ASSUME NEW r \in Rank, WaitQueue(r) PROVE Weights'
  BY <1>0, <1>2 DEF WaitQueue, Goto, clockVars, Weights
<1>3. ASSUME NEW r \in Rank, Take(r) \/ EvalEnd(r) PROVE Weights'
  BY <1>0, <1>3 DEF Take, EvalEnd, Goto, NextStep, clockVars, Weights
<1>4. ASSUME NEW r \in Rank, Executor(r) PROVE Weights'
  BY <1>4 DEF Executor, EmptyTask, RolloutBegin, RolloutEnd, RolloutFail, clockVars, Weights
<1>5. CASE PrefetchGather
  BY <1>0, <1>5 DEF PrefetchGather, clockVars, Weights
<1>6. CASE LoadBegin
  BY <1>0, <1>6 DEF LoadBegin, AllAt, clockVars, Weights
<1>7. CASE Submit
  BY <1>0, <1>7 DEF Submit, AllGoto, clockVars, Weights
<1>8. CASE Resample \/ BatchReady \/ EvalBatch
  <2>1. UNCHANGED <<lastLoaded, served, step>> /\ pc'[Main] \in {FastInfer(Main), "compute", "evalend"}
    BY <1>0, <1>8 DEF Resample, BatchReady, EvalBatch, AllGoto
  <2>2. QED BY <2>1 DEF Weights, FastInfer
<1>9. CASE Backward
  <2>1. UNCHANGED <<lastLoaded, served>> /\ step' \in {step, step + 1}
        /\ pc'[Main] \in {"evalwait", "done", "step"}
    BY <1>0, <1>9 DEF Backward, AllGoto, NextStep
  <2>2. QED BY <1>0, <2>1 DEF Weights, TypeOK
<1>10. CASE LoadEnd
  BY <1>0, <1>10 DEF LoadEnd, Goto, clockVars, Weights
<1>11. CASE Terminated \/ UNCHANGED vars
  BY <1>11 DEF Terminated, vars, clockVars, Weights
<1>12. QED
  BY <1>1, <1>2, <1>3, <1>4, <1>5, <1>6, <1>7, <1>8, <1>9, <1>10, <1>11
     DEF Next, MainThread, Collective

-----------------------------------------------------------------------------
(* Every step of the pipeline is a step of the service or a stutter.        *)

(* A step that leaves the executor and the queues of the main rank, the     *)
(* server and the main rank's loading alone is a stutter.                   *)
LEMMA Stutters ==
  ASSUME UNCHANGED <<served, Loading, tasks[Main], queue[Main]>>
  PROVE  UNCHANGED serviceVars
BY DEF serviceVars, OpenBar, ReadyBar

(* The steps of the service, said with the names of the mapping.            *)
LEMMA AskStep ==
  ASSUME NEW k \in Kind, ~Loading, Len(OpenBar) < 2, OpenBar' = Append(OpenBar, k),
         UNCHANGED <<served, Loading, ReadyBar>>
  PROVE  [Service!Next]_serviceVars
<1>1. Service!Ask(k)
  BY DEF Service!Ask, OpenBar, ReadyBar
<1>2. QED BY <1>1, Zenon DEF Service!Next

LEMMA AskFirstStep ==
  ASSUME NEW k \in Kind, ~Loading, OpenBar = << >>, ReadyBar[k] = << >>,
         ReadyBar' = [ReadyBar EXCEPT ![k] = <<served>>], UNCHANGED <<served, Loading, OpenBar>>
  PROVE  [Service!Next]_serviceVars
<1>1. Service!AskFirst(k)
  BY DEF Service!AskFirst, OpenBar, ReadyBar
<1>2. QED BY <1>1, Zenon DEF Service!Next

LEMMA AnswerStep ==
  ASSUME ~Loading, OpenBar # << >>, OpenBar' = Tail(OpenBar),
         ReadyBar' = [ReadyBar EXCEPT ![Head(OpenBar)] = Append(@, served)],
         UNCHANGED <<served, Loading>>
  PROVE  [Service!Next]_serviceVars
<1>1. Service!Answer
  BY DEF Service!Answer, OpenBar, ReadyBar
<1>2. QED BY <1>1, Zenon DEF Service!Next

LEMMA LoseStep ==
  ASSUME OpenBar # << >>, OpenBar' = Tail(OpenBar), UNCHANGED <<served, Loading, ReadyBar>>
  PROVE  [Service!Next]_serviceVars
<1>1. Service!Lose
  BY DEF Service!Lose, OpenBar, ReadyBar
<1>2. QED BY <1>1, Zenon DEF Service!Next

LEMMA DeliverStep ==
  ASSUME NEW k \in Kind, ReadyBar[k] # << >>, ReadyBar' = [ReadyBar EXCEPT ![k] = Tail(@)],
         UNCHANGED <<served, Loading, OpenBar>>
  PROVE  [Service!Next]_serviceVars
<1>1. Service!Deliver(k)
  BY DEF Service!Deliver, OpenBar, ReadyBar
<1>2. QED BY <1>1, Zenon DEF Service!Next

LEMMA LoadBeginStep ==
  ASSUME ~Loading, OpenBar = << >>, Loading' = TRUE, UNCHANGED <<served, OpenBar, ReadyBar>>
  PROVE  [Service!Next]_serviceVars
<1>1. Service!LoadBegin
  BY DEF Service!LoadBegin, OpenBar, ReadyBar
<1>2. QED BY <1>1, Zenon DEF Service!Next

LEMMA LoadEndStep ==
  ASSUME Loading, Loading' = FALSE, served' \in Nat, served' > served,
         UNCHANGED <<OpenBar, ReadyBar>>
  PROVE  [Service!Next]_serviceVars
<1>1. Service!LoadEnd
  BY DEF Service!LoadEnd, OpenBar, ReadyBar
<1>2. QED BY <1>1, Zenon DEF Service!Next

LEMMA MapPrefetchPut ==
  ASSUME IInv, NEW r \in Rank, PrefetchPut(r) PROVE [Service!Next]_serviceVars
<1> DEFINE res == Rollout(r, Current(r), sent[Current(r)])
<1>1. TypeOK /\ Shape /\ Main \in Rank /\ Current(r) \in Kind
  BY Lengths DEF IInv
<1>2. /\ UNCHANGED <<served, tasks>> /\ Put(r, res) /\ pc[r] = "preinfer"
      /\ res \in Result /\ res.kind = Current(r) /\ (r = Main => res.ver = served)
      /\ pc' = [pc EXCEPT ![r] = pc'[r]] /\ pc'[r] \in {"waitq", "gather", "step", "evalwait"}
  <2>1. sent[Current(r)] \in Nat
    BY <1>1 DEF TypeOK
  <2>2. res \in Result /\ res.kind = Current(r)
    BY <1>1, <2>1, RolloutLemma
  <2>3. r = Main => res.ver = served
    BY DEF Rollout
  <2>4. pc' = [pc EXCEPT ![r] = pc'[r]] /\ pc'[r] \in {"waitq", "gather", "step", "evalwait"}
    BY <1>1 DEF PrefetchPut, Goto, FastInfer, TypeOK
  <2>5. QED BY <2>2, <2>3, <2>4 DEF PrefetchPut
<1>3. CASE r # Main
  <2>1. pc'[Main] = pc[Main]
    BY <1>1, <1>2, <1>3 DEF TypeOK
  <2>2. queue'[Main] = queue[Main]
    BY <1>1, <1>2, <1>3 DEF Put, TypeOK
  <2>3. QED BY <1>2, <2>1, <2>2, Stutters DEF Loading
<1>4. CASE r = Main
  <2>1. ~Loading /\ ~Loading' /\ tasks[Main] = << >>
    BY <1>1, <1>2, <1>4 DEF Loading, Shape, TrainShape, EvalShape, TypeOK
  <2>2. queue[Main][res.kind] = << >>
    BY <1>1, <1>2, <1>4, Lengths DEF Shape, TrainShape, EvalShape, Current, Kind
  <2>3. ReadyBar' = [ReadyBar EXCEPT ![res.kind] = Append(@, served)]
    BY <1>1, <1>2, <1>4, PutReady
  <2>4. ReadyBar[res.kind] = << >> /\ OpenBar = << >>
    BY <1>1, <1>2, <2>1, <2>2, Mapping
  <2>5. ReadyBar' = [ReadyBar EXCEPT ![res.kind] = <<served>>]
    BY <2>3, <2>4
  <2>6. UNCHANGED <<served, Loading, OpenBar>> /\ res.kind \in Kind
    <3>1. Loading' = Loading
      BY <2>1 DEF Loading
    <3>2. QED BY <1>1, <1>2, <3>1 DEF OpenBar
  <2>7. QED BY <2>1, <2>4, <2>5, <2>6, AskFirstStep
<1>5. QED BY <1>3, <1>4

(* A submission asks for the kind in force: at most one rollout is open.    *)
LEMMA MapSubmit == ASSUME IInv, Submit PROVE [Service!Next]_serviceVars
<1> DEFINE task == [kind |-> Current(Main), no |-> sent'[Current(Main)]]
<1>1. TypeOK /\ Main \in Rank /\ Current(Main) \in Kind
  BY Lengths DEF IInv
<1>2. pc[Main] = "gather" /\ pc'[Main] = "get" /\ UNCHANGED <<queue, served>>
  BY <1>1 DEF Submit, AllAt, AllGoto
<1>3. Loading' = Loading /\ ~Loading
  BY <1>2 DEF Loading
<1>4. tasks'[Main] = Append(tasks[Main], task) /\ task \in Task
  <2>1. sent'[Current(Main)] \in Nat
    BY <1>1 DEF Submit, TypeOK
  <2>2. QED BY <1>1, <2>1 DEF Submit, Task
<1>5. OpenBar' = Append(OpenBar, Current(Main))
  <2>1. tasks[Main] \in Seq(Task) /\ OpenBar = Through(KindOf, tasks[Main])
    BY <1>1, Mapping
  <2>2. OpenBar' = Through(KindOf, tasks'[Main])
    <3>1. Append(tasks[Main], task) \in Seq(Task)
      BY <1>4, <2>1
    <3>2. QED BY <1>4, <3>1, KindsImage DEF OpenBar
  <2>3. Through(KindOf, Append(tasks[Main], task)) = Append(Through(KindOf, tasks[Main]), KindOf[task])
    BY <1>4, <2>1, ThroughAppend
  <2>4. KindOf[task] = Current(Main)
    BY <1>4 DEF KindOf
  <2>5. QED BY <1>4, <2>1, <2>2, <2>3, <2>4
<1>6. Len(OpenBar) < 2
  <2>1. Len(OpenBar) = Tasks
    <3>1. tasks[Main] \in Seq(Task) /\ OpenBar = Through(KindOf, tasks[Main])
      BY <1>1, Mapping
    <3>2. IsImage(KindOf, Task, tasks[Main])
      BY <3>1, ThroughSeq
    <3>3. QED BY <3>1, <3>2 DEF IsImage, Tasks
  <2>2. Tasks <= 1
    BY <1>1, <1>2, Lengths DEF IInv, Shape, TrainShape, EvalShape, Kind
  <2>3. QED BY <1>1, <2>1, <2>2, Lengths
<1>7. ReadyBar' = ReadyBar
  BY <1>2 DEF ReadyBar
<1>8. QED BY <1>1, <1>2, <1>3, <1>5, <1>6, <1>7, AskStep

(* A batch taken by the main rank is delivered.                             *)
LEMMA MapTake == ASSUME IInv, NEW r \in Rank, Take(r) PROVE [Service!Next]_serviceVars
<1>1. TypeOK /\ Main \in Rank /\ Current(r) \in Kind /\ UNCHANGED <<tasks, served>>
  BY Lengths DEF IInv, Take
<1>2. Loading' = Loading
  BY <1>1 DEF Take, Goto, Loading, TypeOK
<1>3. CASE r # Main
  <2>1. queue'[Main] = queue[Main]
    BY <1>1, <1>3 DEF Take, TypeOK
  <2>2. QED BY <1>1, <1>2, <2>1, Stutters
<1>4. CASE r = Main
  <2> DEFINE c == Current(Main)
             q == queue[Main][c]
  <2>1. q \in Seq(Result) /\ q # << >> /\ c \in Kind
    BY <1>1, <1>4 DEF Take, TypeOK
  <2>2. \A k \in Kind : queue'[Main][k] = IF k = c THEN Tail(q) ELSE queue[Main][k]
    BY <1>1, <1>4 DEF Take, TypeOK
  <2>3. ReadyBar = [k \in Kind |-> Through(VerOf, queue[Main][k])]
    BY <1>1, Mapping
  <2>4. ReadyBar' = [k \in Kind |-> Through(VerOf, queue'[Main][k])]
    <3>1. \A k \in Kind : queue'[Main][k] \in Seq(Result)
      <4>1. Tail(q) \in Seq(Result) /\ \A k \in Kind : queue[Main][k] \in Seq(Result)
        BY <1>1, <2>1 DEF TypeOK
      <4>2. QED BY <2>2, <4>1
    <3>2. QED BY <3>1, VersImage, Zenon DEF ReadyBar
  <2>5. Through(VerOf, Tail(q)) = Tail(Through(VerOf, q))
    BY <2>1, ThroughTail
  <2>6. ReadyBar' = [ReadyBar EXCEPT ![c] = Tail(@)]
    BY <2>1, <2>2, <2>3, <2>4, <2>5
  <2>7. ReadyBar[c] # << >> /\ OpenBar' = OpenBar
    BY <1>1, <2>1, Mapping DEF OpenBar
  <2>8. QED BY <1>1, <1>2, <2>1, <2>6, <2>7, DeliverStep
<1>5. QED BY <1>3, <1>4

(* A rollout of the executor ends: its answer, if any, is of the kind of    *)
(* the oldest open one, by the weights the server holds.                    *)
LEMMA MapRolloutEnd ==
  ASSUME IInv, RolloutEnd \/ RolloutFail PROVE [Service!Next]_serviceVars
<1> DEFINE t == Head(tasks[Main])
           res == Rollout(Main, t.kind, t.no)
<1>1. /\ TypeOK /\ Main \in Rank /\ UNCHANGED <<pc, served>> /\ tasks[Main] # << >>
      /\ tasks' = [tasks EXCEPT ![Main] = Tail(@)]
  BY Lengths DEF IInv, Shape, RolloutEnd, RolloutFail
<1>2. Loading' = Loading
  BY <1>1 DEF Loading
<1>3. tasks[Main] \in Seq(Task) /\ OpenBar = Through(KindOf, tasks[Main]) /\ OpenBar # << >>
  BY <1>1, Mapping
<1>4. t \in Task /\ tasks'[Main] = Tail(tasks[Main]) /\ tasks'[Main] \in Seq(Task)
  BY <1>1, <1>3 DEF TypeOK
<1>5. OpenBar' = Tail(OpenBar) /\ Head(OpenBar) = t.kind
  <2>1. OpenBar' = Through(KindOf, Tail(tasks[Main]))
    BY <1>4, KindsImage DEF OpenBar
  <2>2. KindOf[t] = t.kind
    BY <1>4 DEF KindOf
  <2>3. QED BY <1>1, <1>3, <2>1, <2>2, ThroughTail
<1>6. CASE RolloutFail
  <2>1. ReadyBar' = ReadyBar
    BY <1>6 DEF RolloutFail, ReadyBar
  <2>2. QED BY <1>1, <1>2, <1>3, <1>5, <2>1, LoseStep
<1>7. CASE RolloutEnd
  <2>1. ~Loading
    BY <1>1 DEF IInv, Shape, TrainShape, EvalShape, Loading
  <2>2. res \in Result /\ res.kind = t.kind /\ res.ver = served /\ Put(Main, res)
    BY <1>1, <1>4, <1>7, RolloutLemma DEF RolloutEnd, Task, Rollout
  <2>3. ReadyBar' = [ReadyBar EXCEPT ![Head(OpenBar)] = Append(@, served)]
    BY <1>1, <1>5, <2>2, PutReady
  <2>4. QED BY <1>1, <1>2, <1>3, <1>5, <2>1, <2>3, AnswerStep
<1>8. QED BY <1>6, <1>7

(* Weights are sent when no rollout is open ...                             *)
LEMMA MapLoadBegin == ASSUME IInv, LoadBegin PROVE [Service!Next]_serviceVars
<1>1. TypeOK /\ Main \in Rank /\ UNCHANGED <<served, tasks, queue>>
  BY Lengths DEF IInv, LoadBegin
<1>2. pc[Main] \in {"load", "preload"} /\ pc'[Main] \in {"loading", "preloading"}
  BY <1>1 DEF LoadBegin, AllAt
<1>3. ~Loading /\ Loading' = TRUE
  BY <1>2 DEF Loading
<1>4. OpenBar = << >>
  <2>1. tasks[Main] = << >>
    BY <1>2 DEF IInv, Shape, TrainShape, EvalShape
  <2>2. QED BY <1>1, <2>1, Mapping
<1>5. UNCHANGED <<OpenBar, ReadyBar>>
  BY <1>1 DEF OpenBar, ReadyBar
<1>6. QED BY <1>1, <1>3, <1>4, <1>5, LoadBeginStep

(* ... and are newer than those they replace.                               *)
LEMMA MapLoadEnd == ASSUME IInv, Weights, LoadEnd PROVE [Service!Next]_serviceVars
<1>1. TypeOK /\ Main \in Rank /\ UNCHANGED <<tasks, queue>> /\ served' = step
  BY Lengths DEF IInv, LoadEnd
<1>2. Loading /\ pc'[Main] \in {"gather", "preinfer"}
  BY <1>1 DEF LoadEnd, Loading, Goto, TypeOK
<1>3. Loading' = FALSE
  BY <1>2 DEF Loading
<1>4. served' \in Nat /\ served' > served
  BY <1>1, <1>2, ConstantsAssumption DEF Loading, Weights, TypeOK
<1>5. UNCHANGED <<OpenBar, ReadyBar>>
  BY <1>1 DEF OpenBar, ReadyBar
<1>6. QED BY <1>2, <1>3, <1>4, <1>5, LoadEndStep

(* Nothing else concerns the service.                                       *)
LEMMA MapStutters ==
  ASSUME IInv,
         \/ \E r \in Rank : \/ WaitQueue(r) \/ TrainingStep(r) \/ EvalBegin(r) \/ EvalEnd(r)
                            \/ EmptyTask(r) \/ RolloutBegin
         \/ PrefetchGather \/ Resample \/ BatchReady \/ EvalBatch \/ Backward
         \/ Terminated \/ UNCHANGED vars
  PROVE  [Service!Next]_serviceVars
<1>1. TypeOK /\ Main \in Rank
  BY Lengths DEF IInv
<1>2. ASSUME NEW r \in Rank,
             WaitQueue(r) \/ TrainingStep(r) \/ EvalBegin(r) \/ EvalEnd(r)
      PROVE  UNCHANGED <<served, Loading, tasks[Main], queue[Main]>>
  <2>1. UNCHANGED <<served, tasks, queue>>
    BY <1>2 DEF WaitQueue, TrainingStep, EvalBegin, EvalEnd
  <2>2. \/ pc'[Main] = pc[Main]
        \/ /\ pc[Main] \in {"waitq", "step", "evalwait", "evalend"}
           /\ pc'[Main] \in {"load", "waitq", "gather", "compute", "prefetch", "done", "step"}
    BY <1>1, <1>2 DEF WaitQueue, TrainingStep, EvalBegin, EvalEnd, Goto, FastInfer, NextStep, TypeOK
  <2>3. Loading' = Loading
    BY <2>2 DEF Loading
  <2>4. QED BY <2>1, <2>3
<1>3. ASSUME NEW r \in Rank, EmptyTask(r) \/ RolloutBegin
      PROVE  UNCHANGED <<served, Loading, tasks[Main], queue[Main]>>
  BY <1>1, <1>3 DEF EmptyTask, RolloutBegin, Put, Loading, TypeOK
<1>4. ASSUME PrefetchGather \/ Resample \/ BatchReady \/ EvalBatch \/ Backward
      PROVE  UNCHANGED <<served, Loading, tasks[Main], queue[Main]>>
  <2>1. UNCHANGED <<served, tasks, queue>>
    BY <1>4 DEF PrefetchGather, Resample, BatchReady, EvalBatch, Backward
  <2>2. /\ pc[Main] \in {"prefetch", "scatter", "compute"}
        /\ pc'[Main] \in {"preload", "preinfer", "waitq", "gather", "compute", "evalend",
                          "evalwait", "done", "step"}
    BY <1>1, <1>4 DEF PrefetchGather, Resample, BatchReady, EvalBatch, Backward, AllAt, AllGoto,
                      FastInfer, NextStep
  <2>3. Loading' = Loading
    BY <2>2 DEF Loading
  <2>4. QED BY <2>1, <2>3
<1>5. CASE Terminated \/ UNCHANGED vars
  BY <1>5, Stutters DEF Terminated, vars, Loading
<1>6. QED BY <1>2, <1>3, <1>4, <1>5, Stutters

LEMMA MapNext ==
  ASSUME IInv, Weights, [Next]_vars PROVE [Service!Next]_serviceVars
BY MapPrefetchPut, MapSubmit, MapTake, MapRolloutEnd, MapLoadBegin, MapLoadEnd, MapStutters
   DEF Next, MainThread, Executor, Collective

LEMMA MapInit == Init => Service!Init
<1> SUFFICES ASSUME Init PROVE Service!Init
  OBVIOUS
<1>1. Main \in Rank
  BY ConstantsAssumption
<1>2. tasks[Main] = << >> /\ \A k \in Kind : queue[Main][k] = << >>
  BY <1>1 DEF Init
<1>3. pc[Main] = "prefetch" /\ served = -1
  BY <1>1 DEF Init, NoWeights
<1>4. OpenBar = << >>
  BY <1>2 DEF OpenBar
<1>5. ReadyBar = [k \in Kind |-> << >>]
  <2>1. \A k \in Kind : [i \in DOMAIN queue[Main][k] |-> queue[Main][k][i].ver] = << >>
    BY <1>2
  <2>2. QED BY <2>1, Zenon DEF ReadyBar
<1>6. Loading = FALSE
  BY <1>3 DEF Loading
<1>7. QED BY <1>3, <1>4, <1>5, <1>6 DEF Service!Init, OpenBar, ReadyBar

(* What the pipeline promises the trainer about its rollouts (answered in   *)
(* order, each by the weights of one step, never under a load, delivered    *)
(* in order) holds of every run, failures of rollout requests included.     *)
THEOREM ImplementsService == ~EvalOnStart /\ Spec => ImplementsRolloutService
<1>1. SUFFICES ASSUME ~EvalOnStart PROVE Spec => ImplementsRolloutService
  OBVIOUS
<1>2. IInv /\ Weights /\ [Next]_vars => IInv' /\ Weights'
  BY <1>1, NextIInv, NextWeights
<1>3. IInv /\ Weights /\ [Next]_vars => [Service!Next]_<<served, Loading, OpenBar, ReadyBar>>
  BY MapNext DEF serviceVars
<1>4. QED
  BY <1>2, <1>3, InitIInv, InitWeights, MapInit, PTL
     DEF Spec, ImplementsRolloutService, Service!Spec, OpenBar, ReadyBar

-----------------------------------------------------------------------------
(* What every rank takes from its queue, in a run where no rollout request  *)
(* fails: the ranks take results of the same submission, the one before the *)
(* latest, and a train batch has the weights of the generation before.      *)
(* The inductive invariant, rank by rank.                                   *)

(* The executor of a rank never holds tasks of two kinds.                   *)
Only(r, k) == \A i \in DOMAIN tasks[r] : tasks[r][i].kind = k

(* The batches of a kind that a rank has out: in its executor or its queue. *)
InExecutor(r, k) == IF Only(r, k) THEN Len(tasks[r]) ELSE 0
Out(r, k) == Len(queue[r][k]) + InExecutor(r, k)

(* How many that is: two between a submission and the get that follows it,  *)
(* none before the first one is in, one otherwise.                          *)
Due(r, k) ==
  IF k = Current(r) /\ pc[r] = "get" THEN 2
  ELSE IF \/ k = Current(r) /\ pc[r] \in {"prefetch", "preload", "preloading", "preinfer"}
          \/ k = "eval" /\ sent[k] = 0
       THEN 0 ELSE 1

(* They are the latest ones sent, in the order they were sent.              *)
Lined(r, k) ==
  /\ Out(r, k) = Due(r, k)
  /\ \A i \in 1 .. Len(queue[r][k]) :
       queue[r][k][i].kind = k /\ queue[r][k][i].no = sent[k] - Out(r, k) + i
  /\ Only(r, k) => \A i \in 1 .. Len(tasks[r]) : tasks[r][i].no = sent[k] - Len(tasks[r]) + i

(* Where a rank may be, and what its executor may hold there.               *)
Place(r) ==
  /\ inEval[r] = shouldEvaluate[r]
  /\ IF inEval[r] THEN pc[r] \notin {"step", "compute", "done"}
                  ELSE pc[r] \notin {"evalwait", "evalend"}
  /\ inEval[r] /\ pc[r] \notin {"evalwait", "prefetch"} => sent["eval"] # 0
  /\ pc[r] \in {"prefetch", "preload", "preloading", "preinfer", "load", "loading"} => tasks[r] = << >>
  /\ pc[r] \in {"waitq", "gather", "get", "scatter"} => Only(r, Current(r))
  /\ pc[r] \in {"compute", "evalwait"} => Only(r, "train")
  /\ pc[r] = "evalend" => Only(r, "eval")
  /\ pc[r] \in {"step", "done"} =>
       Only(r, "train") \/ (Only(r, "eval") /\ evalFlag[r])

Taken(r) == pc[r] = "scatter" =>
  got[r].kind = Current(r) /\ got[r].no = sent[Current(r)] - 1

Delivery(r) == Place(r) /\ Taken(r) /\ \A k \in Kind : Lined(r, k)

(* Ranks leave an evaluation one by one, and the first of them get as far   *)
(* as the next joint step.                                                  *)
Together ==
  \A r, s \in Rank :
    /\ inEval[r] /\ ~inEval[s] =>
         pc[r] = "evalend" /\ pc[s] \in {"step", "waitq", "load", "gather", "compute", "done"}
    /\ pc[r] = "evalend" /\ inEval[s] => pc[s] = "evalend"

DInv == Together /\ \A r \in Rank : Delivery(r)

-----------------------------------------------------------------------------
(* Lemmas about one rank.                                                   *)

LEMMA RankTypes ==
  ASSUME TypeOK, NEW r \in Rank
  PROVE  /\ tasks[r] \in Seq(Task) /\ Len(tasks[r]) \in Nat
         /\ DOMAIN tasks[r] = 1 .. Len(tasks[r]) /\ (Len(tasks[r]) = 0 <=> tasks[r] = << >>)
         /\ \A k \in Kind : /\ queue[r][k] \in Seq(Result) /\ Len(queue[r][k]) \in Nat
                            /\ (Len(queue[r][k]) = 0 <=> queue[r][k] = << >>)
                            /\ sent[k] \in Nat
         /\ Current(r) \in Kind /\ Current(r) = (IF shouldEvaluate[r] THEN "eval" ELSE "train")
         /\ pc[r] \in PC /\ inEval[r] \in BOOLEAN /\ shouldEvaluate[r] \in BOOLEAN
<1>1. tasks[r] \in Seq(Task) /\ \A k \in Kind : queue[r][k] \in Seq(Result)
  BY DEF TypeOK
<1>2. /\ pc[r] \in PC /\ inEval[r] \in BOOLEAN /\ shouldEvaluate[r] \in BOOLEAN
      /\ \A k \in Kind : sent[k] \in Nat
  BY DEF TypeOK
<1>3. QED BY <1>1, <1>2 DEF Current, Kind

(* The executor's share of what is out.                                     *)
LEMMA InExecutorLemma ==
  ASSUME TypeOK, NEW r \in Rank, NEW k \in Kind
  PROVE  /\ InExecutor(r, k) \in Nat
         /\ Only(r, k) => InExecutor(r, k) = Len(tasks[r])
         /\ tasks[r] = << >> => Only(r, k) /\ InExecutor(r, k) = 0
         /\ \A j \in Kind : j # k /\ Only(r, j) => InExecutor(r, k) = 0
<1>1. tasks[r] \in Seq(Task) /\ Len(tasks[r]) \in Nat /\ DOMAIN tasks[r] = 1 .. Len(tasks[r])
  BY RankTypes
<1>2. tasks[r] = << >> => Only(r, k) /\ Len(tasks[r]) = 0
  BY <1>1 DEF Only
<1>3. ASSUME NEW j \in Kind, j # k, Only(r, j), Only(r, k) PROVE Len(tasks[r]) = 0
  <2>1. SUFFICES ASSUME Len(tasks[r]) # 0 PROVE FALSE
    OBVIOUS
  <2>2. 1 \in DOMAIN tasks[r]
    BY <1>1, <2>1
  <2>3. QED BY <1>3, <2>2 DEF Only
<1>4. QED BY <1>1, <1>2, <1>3 DEF InExecutor

(* The executor holds tasks of one kind.                                    *)
LEMMA OneKind ==
  ASSUME TypeOK, NEW r \in Rank, Place(r) PROVE \E k \in Kind : Only(r, k)
<1>1. "train" \in Kind /\ "eval" \in Kind /\ Current(r) \in Kind /\ pc[r] \in PC
  BY RankTypes DEF Kind
<1>2. QED BY <1>1, InExecutorLemma DEF Place, PC

(* Nothing changes for a rank.                                              *)
LEMMA DeliveryFrame ==
  ASSUME NEW r \in Rank, Delivery(r),
         pc'[r] = pc[r], inEval'[r] = inEval[r], shouldEvaluate'[r] = shouldEvaluate[r],
         evalFlag'[r] = evalFlag[r], queue'[r] = queue[r], tasks'[r] = tasks[r], got'[r] = got[r],
         sent' = sent
  PROVE  Delivery(r)'
<1>1. \A k : Only(r, k)' = Only(r, k)
  BY DEF Only
<1>2. Place(r)' /\ Taken(r)' /\ \A k \in Kind : Due(r, k)' = Due(r, k)
  BY <1>1 DEF Delivery, Place, Taken, Due, Current
<1>3. \A k \in Kind : Out(r, k)' = Out(r, k)
  BY <1>1 DEF Out, InExecutor
<1>4. ASSUME NEW k \in Kind PROVE Lined(r, k)'
  BY <1>1, <1>2, <1>3 DEF Delivery, Lined
<1>5. QED BY <1>2, <1>4 DEF Delivery

(* A rank moves on, with the same batches out.                              *)
LEMMA DeliveryMove ==
  ASSUME NEW r \in Rank, Delivery(r), queue'[r] = queue[r], tasks'[r] = tasks[r], sent' = sent,
         Place(r)', Taken(r)', \A k \in Kind : Due(r, k)' = Due(r, k)
  PROVE  Delivery(r)'
<1>1. \A k : Only(r, k)' = Only(r, k)
  BY DEF Only
<1>2. ASSUME NEW k \in Kind PROVE Out(r, k)' = Out(r, k)
  BY <1>1 DEF Out, InExecutor
<1>3. QED BY <1>1, <1>2 DEF Delivery, Lined

(* Sequences, element by element.                                           *)
LEMMA TailFacts ==
  ASSUME NEW S, NEW s \in Seq(S), s # << >>
  PROVE  /\ Tail(s) \in Seq(S) /\ Len(s) \in Nat /\ Len(s) >= 1 /\ Len(Tail(s)) = Len(s) - 1
         /\ DOMAIN s = 1 .. Len(s) /\ DOMAIN Tail(s) = 1 .. Len(s) - 1
         /\ \A i \in 1 .. Len(s) - 1 : Tail(s)[i] = s[i + 1] /\ i + 1 \in 1 .. Len(s)
         /\ Head(s) = s[1] /\ 1 \in 1 .. Len(s) /\ s[1] \in S
OBVIOUS

LEMMA AppendFacts ==
  ASSUME NEW S, NEW s \in Seq(S), NEW e \in S
  PROVE  /\ Append(s, e) \in Seq(S) /\ Len(s) \in Nat /\ Len(Append(s, e)) = Len(s) + 1
         /\ DOMAIN s = 1 .. Len(s) /\ DOMAIN Append(s, e) = 1 .. Len(s) + 1
         /\ \A i \in 1 .. Len(s) : Append(s, e)[i] = s[i] /\ i \in 1 .. Len(s) + 1
         /\ \A i \in 1 .. Len(s) + 1 : i # Len(s) + 1 => i \in 1 .. Len(s)
         /\ Append(s, e)[Len(s) + 1] = e /\ Append(s, e) # << >>
OBVIOUS

(* A task of a rank is done, its result goes to the queue of its kind.      *)
Finishes(r, res) ==
  /\ tasks[r] # << >> /\ tasks'[r] = Tail(tasks[r])
  /\ res.kind = Head(tasks[r]).kind /\ res.no = Head(tasks[r]).no
  /\ \A k \in Kind : queue'[r][k] = IF k = res.kind THEN Append(queue[r][k], res) ELSE queue[r][k]
  /\ pc'[r] = pc[r] /\ inEval'[r] = inEval[r] /\ shouldEvaluate'[r] = shouldEvaluate[r]
  /\ evalFlag'[r] = evalFlag[r] /\ got'[r] = got[r] /\ sent' = sent

LEMMA DeliveryFinish ==
  ASSUME TypeOK, NEW r \in Rank, Delivery(r), NEW res \in Result, Finishes(r, res)
  PROVE  Delivery(r)'
<1> DEFINE c == res.kind
           q == queue[r][c]
<1>1. c \in Kind /\ q \in Seq(Result) /\ tasks[r] \in Seq(Task)
  BY RankTypes DEF Result
<1>2. PICK n \in Nat : n = Len(tasks[r])
  BY RankTypes
<1>3. PICK l \in Nat : l = Len(q)
  BY <1>1, RankTypes
<1>4. PICK m \in Nat : m = sent[c] /\ m = sent'[c]
  BY <1>1, RankTypes DEF Finishes
<1>5. /\ n >= 1 /\ Len(tasks'[r]) = n - 1
      /\ DOMAIN tasks[r] = 1 .. n /\ DOMAIN tasks'[r] = 1 .. n - 1
      /\ \A i \in 1 .. n - 1 : tasks'[r][i] = tasks[r][i + 1] /\ i + 1 \in 1 .. n
      /\ res.no = tasks[r][1].no /\ c = tasks[r][1].kind /\ 1 \in 1 .. n
  <2>1. tasks[r] # << >> /\ tasks'[r] = Tail(tasks[r]) /\ c = Head(tasks[r]).kind
        /\ res.no = Head(tasks[r]).no
    BY DEF Finishes
  <2>2. /\ Len(Tail(tasks[r])) = Len(tasks[r]) - 1 /\ Len(tasks[r]) >= 1
        /\ DOMAIN tasks[r] = 1 .. Len(tasks[r]) /\ DOMAIN Tail(tasks[r]) = 1 .. Len(tasks[r]) - 1
        /\ \A i \in 1 .. Len(tasks[r]) - 1 :
              Tail(tasks[r])[i] = tasks[r][i + 1] /\ i + 1 \in 1 .. Len(tasks[r])
        /\ Head(tasks[r]) = tasks[r][1] /\ 1 \in 1 .. Len(tasks[r])
    BY <1>1, <2>1, TailFacts
  <2>3. QED BY <1>2, <2>1, <2>2
<1>6. /\ Len(queue'[r][c]) = l + 1 /\ queue'[r][c][l + 1] = res
      /\ \A i \in 1 .. l : queue'[r][c][i] = q[i]
  <2>1. queue'[r][c] = Append(q, res)
    BY <1>1 DEF Finishes
  <2>2. QED BY <1>1, <1>3, <2>1, AppendFacts
<1>7. \A k : Only(r, k) => Only(r, k)'
  <2>1. \A i \in DOMAIN tasks'[r] : i + 1 \in DOMAIN tasks[r] /\ tasks'[r][i] = tasks[r][i + 1]
    BY <1>5
  <2>2. QED BY <2>1 DEF Only
<1>8. Only(r, c) /\ \A k \in Kind \ {c} : ~Only(r, k)
  <2>1. PICK k \in Kind : Only(r, k)
    BY OneKind DEF Delivery
  <2>2. QED BY <1>5, <2>1 DEF Only
<1>9. Place(r)' /\ Taken(r)' /\ \A k \in Kind : Due(r, k)' = Due(r, k)
  BY <1>5, <1>7 DEF Delivery, Place, Taken, Current, Due, Finishes
<1>10. Lined(r, c)'
  <2>1. Out(r, c) = l + n
    BY <1>2, <1>3, <1>8 DEF Out, InExecutor
  <2>2. Out(r, c)' = l + n
    <3>1. InExecutor(r, c)' = n - 1
      BY <1>5, <1>7, <1>8 DEF InExecutor
    <3>2. QED BY <1>6, <3>1 DEF Out
  <2>3. /\ Out(r, c) = Due(r, c)
        /\ \A i \in 1 .. l : q[i].kind = c /\ q[i].no = m - (l + n) + i
        /\ \A i \in 1 .. n : tasks[r][i].no = m - n + i
    <3>1. /\ Out(r, c) = Due(r, c)
          /\ \A i \in 1 .. Len(q) : q[i].kind = c /\ q[i].no = sent[c] - Out(r, c) + i
          /\ \A i \in 1 .. Len(tasks[r]) : tasks[r][i].no = sent[c] - Len(tasks[r]) + i
      BY <1>1, <1>8 DEF Delivery, Lined
    <3>2. QED BY <1>2, <1>3, <1>4, <2>1, <3>1
  <2>4. ASSUME NEW i \in 1 .. l + 1
        PROVE  queue'[r][c][i].kind = c /\ queue'[r][c][i].no = m - (l + n) + i
    <3>1. CASE i = l + 1
      <4>1. queue'[r][c][i] = res /\ res.no = m - n + 1
        BY <1>5, <1>6, <2>3, <3>1
      <4>2. m - (l + n) + i = m - n + 1
        BY <3>1
      <4>3. QED BY <4>1, <4>2
    <3>2. CASE i # l + 1
      <4>1. i \in 1 .. l
        BY <3>2
      <4>2. QED BY <1>6, <2>3, <4>1
    <3>3. QED BY <3>1, <3>2
  <2>5. ASSUME NEW i \in 1 .. n - 1
        PROVE  tasks'[r][i].no = m - (n - 1) + i
    <3>1. tasks'[r][i].no = m - n + (i + 1)
      BY <1>5, <2>3
    <3>2. QED BY <3>1
  <2>6. QED BY <1>1, <1>4, <1>5, <1>6, <1>9, <2>1, <2>2, <2>3, <2>4, <2>5 DEF Lined
<1>11. ASSUME NEW k \in Kind, k # c PROVE Lined(r, k)'
  <2>1. InExecutor(r, k) = 0 /\ queue'[r][k] = queue[r][k] /\ sent' = sent
    BY <1>8, <1>11 DEF InExecutor, Finishes
  <2>2. Only(r, k)' => n - 1 = 0
    <3>1. ASSUME Only(r, k)', n - 1 # 0 PROVE FALSE
      <4>1. 1 \in 1 .. n - 1
        BY <1>5, <3>1
      <4>2. /\ 1 \in DOMAIN tasks'[r] /\ 1 + 1 \in DOMAIN tasks[r]
            /\ tasks'[r][1] = tasks[r][1 + 1]
        BY <1>5, <4>1
      <4>3. tasks[r][1 + 1].kind = c /\ tasks'[r][1].kind = k
        BY <1>8, <3>1, <4>2 DEF Only
      <4>4. QED BY <1>11, <4>2, <4>3
    <3>2. QED BY <3>1
  <2>3. InExecutor(r, k)' = 0
    BY <1>5, <2>2 DEF InExecutor
  <2>4. Out(r, k)' = Out(r, k)
    BY <2>1, <2>3 DEF Out
  <2>5. QED BY <1>5, <1>9, <2>1, <2>2, <2>4 DEF Delivery, Lined
<1>12. QED BY <1>9, <1>10, <1>11 DEF Delivery

-----------------------------------------------------------------------------
(* What each step of a rank does to the batches it has out.                 *)

(* One batch out, and in the queue: the executor has nothing to do.         *)
LEMMA Drained ==
  ASSUME TypeOK, NEW r \in Rank, NEW k \in Kind, Lined(r, k), Only(r, k), Due(r, k) \in {0, 1},
         queue[r][k] # << >>
  PROVE  tasks[r] = << >> /\ Due(r, k) = 1
<1>1. PICK n \in Nat : n = Len(tasks[r])
  BY RankTypes
<1>2. PICK l \in Nat : l = Len(queue[r][k]) /\ l # 0
  BY RankTypes
<1>3. PICK d \in {0, 1} : d = Due(r, k)
  OBVIOUS
<1>4. l + n = d
  BY <1>1, <1>2, <1>3 DEF Lined, Out, InExecutor
<1>5. n = 0 /\ d = 1
  BY <1>2, <1>4
<1>6. QED BY <1>1, <1>3, <1>5, RankTypes

(* The synchronous rollout of a prefetch is the first batch out.            *)
LEMMA DeliverPrefetchPut ==
  ASSUME TypeOK, ~EvalOnStart, NEW r \in Rank, Delivery(r), PrefetchPut(r)
  PROVE  Delivery(r)'
<1>0. PICK c \in Kind : c = Current(r)
  BY RankTypes
<1> DEFINE q == queue[r][c]
<1>1. /\ q \in Seq(Result) /\ c = (IF inEval[r] THEN "eval" ELSE "train")
      /\ pc[r] = "preinfer" /\ tasks[r] = << >>
  BY <1>0, RankTypes DEF Delivery, Place, PrefetchPut
<1>2. /\ pc'[r] \in {"waitq", "gather", "step"} /\ (pc'[r] = "step" <=> ~inEval[r])
      /\ inEval'[r] = inEval[r] /\ shouldEvaluate'[r] = shouldEvaluate[r]
      /\ tasks'[r] = tasks[r] /\ sent' = sent /\ Current(r)' = c
  BY <1>0 DEF PrefetchPut, Goto, FastInfer, TypeOK, Current
<1>3. PICK res \in Result :
        /\ res.kind = c /\ res.no = sent[c]
        /\ \A k \in Kind : queue'[r][k] = IF k = c THEN Append(q, res) ELSE queue[r][k]
  <2> DEFINE x == Rollout(r, c, sent[c])
  <2>1. sent[c] \in Nat
    BY RankTypes
  <2>2. x \in Result /\ x.kind = c /\ x.no = sent[c]
    BY <2>1, RolloutLemma DEF Rollout
  <2>3. Put(r, x)
    BY <1>0 DEF PrefetchPut
  <2>4. \A k \in Kind : queue'[r][k] = IF k = c THEN Append(q, x) ELSE queue[r][k]
    BY <2>2, <2>3 DEF Put, TypeOK
  <2>5. QED BY <2>2, <2>4
<1>4. \A k : Only(r, k) /\ Only(r, k)'
  BY <1>1, <1>2 DEF Only
<1>5. InExecutor(r, c) = 0 /\ \A k : InExecutor(r, k)' = InExecutor(r, k)
  <2>1. Len(tasks[r]) = 0
    BY <1>1
  <2>2. QED BY <1>2, <1>4, <2>1 DEF InExecutor
<1>6. q = << >>
  <2>1. Due(r, c) = 0
    BY <1>0, <1>1 DEF Due
  <2>2. PICK l \in Nat : l = Len(q)
    BY <1>1, RankTypes
  <2>3. l + 0 = 0
    BY <1>1, <1>5, <2>1, <2>2 DEF Delivery, Lined, Out
  <2>4. QED BY <1>1, <2>2, <2>3, RankTypes
<1>7. Lined(r, c)'
  <2>1. queue'[r][c] = <<res>>
    BY <1>1, <1>3, <1>6
  <2>2. PICK m \in Nat : m = sent[c] /\ m = sent'[c]
    BY <1>1, <1>2, RankTypes
  <2>3. Len(queue'[r][c]) = 1 /\ queue'[r][c][1] = res
    BY <2>1
  <2>4. Due(r, c)' = 1
    BY <1>0, <1>1, <1>2 DEF Due, Delivery, Place
  <2>5. Out(r, c)' = 1
    BY <1>5, <2>3 DEF Out
  <2>6. \A i \in 1 .. 1 : queue'[r][c][i].kind = c /\ queue'[r][c][i].no = m - 1 + i
    BY <1>3, <2>2, <2>3
  <2>7. Len(tasks'[r]) = 0
    BY <1>1, <1>2
  <2>8. \A i \in 1 .. Len(tasks'[r]) : tasks'[r][i].no = sent'[c] - Len(tasks'[r]) + i
    BY <2>7
  <2>9. QED BY <2>2, <2>3, <2>4, <2>5, <2>6, <2>8 DEF Lined
<1>8. ASSUME NEW k \in Kind, k # c PROVE Lined(r, k)'
  <2>1. queue'[r][k] = queue[r][k] /\ Out(r, k)' = Out(r, k)
    BY <1>3, <1>5, <1>8 DEF Out
  <2>2. Due(r, k)' = Due(r, k)
    BY <1>0, <1>1, <1>2, <1>8 DEF Due
  <2>3. QED BY <1>2, <1>4, <2>1, <2>2 DEF Delivery, Lined
<1>9. Place(r)' /\ Taken(r)'
  BY <1>1, <1>2, <1>4 DEF Delivery, Place, Taken
<1>10. QED BY <1>7, <1>8, <1>9 DEF Delivery

(* A rank takes the older of the two batches it has out.                    *)
LEMMA DeliverTake ==
  ASSUME TypeOK, NEW r \in Rank, Delivery(r), Take(r)
  PROVE  Delivery(r)'
<1>0. PICK c \in Kind : c = Current(r)
  BY RankTypes
<1> DEFINE q == queue[r][c]
<1>1. /\ q \in Seq(Result) /\ q # << >> /\ Only(r, c) /\ pc[r] = "get"
      /\ c = (IF inEval[r] THEN "eval" ELSE "train")
  BY <1>0, RankTypes DEF Take, Delivery, Place
<1>2. /\ pc'[r] = "scatter" /\ inEval'[r] = inEval[r] /\ shouldEvaluate'[r] = shouldEvaluate[r]
      /\ tasks'[r] = tasks[r] /\ sent' = sent /\ Current(r)' = c /\ got'[r] = Head(q)
      /\ \A k \in Kind : queue'[r][k] = IF k = c THEN Tail(q) ELSE queue[r][k]
  <2>1. pc'[r] = "scatter" /\ got'[r] = Head(q)
    BY <1>0 DEF Take, Goto, TypeOK
  <2>2. /\ inEval'[r] = inEval[r] /\ shouldEvaluate'[r] = shouldEvaluate[r]
        /\ tasks'[r] = tasks[r] /\ sent' = sent /\ Current(r)' = c
    BY <1>0 DEF Take, trainerVars, Current
  <2>3. \A k \in Kind : queue'[r][k] = IF k = c THEN Tail(q) ELSE queue[r][k]
    <3>1. queue' = [queue EXCEPT ![r] = [queue[r] EXCEPT ![c] = Tail(q)]]
      BY <1>0 DEF Take
    <3>2. QED BY <3>1 DEF TypeOK
  <2>4. QED BY <2>1, <2>2, <2>3
<1>3. PICK l \in Nat : l = Len(q) /\ l # 0
  BY <1>1, RankTypes
<1>4. PICK n \in Nat : n = Len(tasks[r])
  BY RankTypes
<1>5. PICK m \in Nat : m = sent[c] /\ m = sent'[c]
  BY <1>1, <1>2, RankTypes
<1>6. \A k : Only(r, k)' = Only(r, k) /\ InExecutor(r, k)' = InExecutor(r, k)
  BY <1>2 DEF Only, InExecutor
<1>7. Out(r, c) = 2 /\ l + n = 2
  <2>1. Due(r, c) = 2
    BY <1>0, <1>1 DEF Due
  <2>2. Out(r, c) = l + n
    BY <1>1, <1>3, <1>4 DEF Out, InExecutor
  <2>3. QED BY <1>1, <2>1, <2>2 DEF Delivery, Lined
<1>8. /\ \A i \in 1 .. l : q[i].kind = c /\ q[i].no = m - 2 + i
      /\ \A i \in 1 .. n : tasks[r][i].no = m - n + i
  <2>1. /\ \A i \in 1 .. Len(q) : q[i].kind = c /\ q[i].no = sent[c] - Out(r, c) + i
        /\ \A i \in 1 .. Len(tasks[r]) : tasks[r][i].no = sent[c] - Len(tasks[r]) + i
    BY <1>1 DEF Delivery, Lined
  <2>2. QED BY <1>3, <1>4, <1>5, <1>7, <2>1
<1>9. /\ Len(queue'[r][c]) = l - 1 /\ Head(q) = q[1]
      /\ \A i \in 1 .. l - 1 : queue'[r][c][i] = q[i + 1]
  <2>1. /\ Len(Tail(q)) = Len(q) - 1 /\ Head(q) = q[1]
        /\ \A i \in 1 .. Len(q) - 1 : Tail(q)[i] = q[i + 1]
    BY <1>1, TailFacts
  <2>2. queue'[r][c] = Tail(q)
    BY <1>2
  <2>3. QED BY <1>3, <2>1, <2>2
<1>10. Lined(r, c)'
  <2>1. Due(r, c)' = 1
    BY <1>0, <1>1, <1>2 DEF Due, Delivery, Place
  <2>2. InExecutor(r, c)' = n
    BY <1>1, <1>4, <1>6 DEF InExecutor
  <2>3. Out(r, c)' = 1
    <3>1. l - 1 + n = 1
      BY <1>7
    <3>2. QED BY <1>9, <2>2, <3>1 DEF Out
  <2>4. ASSUME NEW i \in 1 .. l - 1
        PROVE  queue'[r][c][i].kind = c /\ queue'[r][c][i].no = m - 1 + i
    <3>1. i + 1 \in 1 .. l /\ m - 2 + (i + 1) = m - 1 + i
      OBVIOUS
    <3>2. QED BY <1>8, <1>9, <3>1
  <2>5. QED BY <1>2, <1>4, <1>5, <1>8, <1>9, <2>1, <2>3, <2>4 DEF Lined
<1>11. ASSUME NEW k \in Kind, k # c PROVE Lined(r, k)'
  <2>1. queue'[r][k] = queue[r][k] /\ Out(r, k)' = Out(r, k)
    BY <1>2, <1>6, <1>11 DEF Out
  <2>2. Due(r, k)' = Due(r, k)
    BY <1>0, <1>1, <1>2, <1>11 DEF Due
  <2>3. QED BY <1>2, <1>6, <2>1, <2>2 DEF Delivery, Lined
<1>12. Taken(r)'
  <2>1. q[1].kind = c /\ q[1].no = m - 1
    <3>1. 1 \in 1 .. l /\ m - 2 + 1 = m - 1
      BY <1>3
    <3>2. QED BY <1>8, <3>1
  <2>2. QED BY <1>2, <1>5, <1>9, <2>1 DEF Taken
<1>13. Place(r)'
  BY <1>1, <1>2, <1>6 DEF Delivery, Place
<1>14. QED BY <1>10, <1>11, <1>12, <1>13 DEF Delivery

(* All ranks submit a batch of the kind in force.                           *)
LEMMA DeliverSubmit ==
  ASSUME TypeOK, NEW r \in Rank, Delivery(r), Submit, Current(r) = Current(Main)
  PROVE  Delivery(r)'
<1>0. PICK c \in Kind : c = Current(r)
  BY RankTypes
<1> DEFINE q == queue[r][c]
<1>1. /\ Only(r, c) /\ pc[r] = "gather" /\ tasks[r] \in Seq(Task)
      /\ c = (IF inEval[r] THEN "eval" ELSE "train")
  BY <1>0, RankTypes DEF Submit, AllAt, Delivery, Place
<1>2. /\ pc'[r] = "get" /\ inEval'[r] = inEval[r] /\ shouldEvaluate'[r] = shouldEvaluate[r]
      /\ evalFlag'[r] = evalFlag[r] /\ queue'[r] = queue[r] /\ Current(r)' = c
  BY <1>0 DEF Submit, AllGoto, trainerVars, Current
<1>3. \A k \in Kind : sent'[k] = IF k = c THEN sent[c] + 1 ELSE sent[k]
  BY <1>0 DEF Submit, TypeOK
<1>4. PICK m \in Nat : m = sent[c] /\ m + 1 = sent'[c]
  BY <1>0, <1>3, RankTypes
<1>5. PICK t \in Task : t.kind = c /\ t.no = m + 1 /\ tasks'[r] = Append(tasks[r], t)
  <2>1. [kind |-> c, no |-> m + 1] \in Task
    BY DEF Task
  <2>2. tasks'[r] = Append(tasks[r], [kind |-> c, no |-> m + 1])
    BY <1>0, <1>4 DEF Submit
  <2>3. QED BY <2>1, <2>2
<1>6. PICK n \in Nat : n = Len(tasks[r])
  BY RankTypes
<1>7. PICK l \in Nat : l = Len(q)
  BY RankTypes
<1>8. /\ Len(tasks'[r]) = n + 1 /\ tasks'[r][n + 1] = t
      /\ \A i \in 1 .. n : tasks'[r][i] = tasks[r][i] /\ i \in DOMAIN tasks[r]
      /\ DOMAIN tasks'[r] = 1 .. n + 1
      /\ \A i \in 1 .. n + 1 : i # n + 1 => i \in 1 .. n
  BY <1>1, <1>5, <1>6, AppendFacts
<1>9. Only(r, c)'
  <2>1. ASSUME NEW i \in 1 .. n + 1 PROVE tasks'[r][i].kind = c
    BY <1>1, <1>5, <1>8 DEF Only
  <2>2. QED BY <1>8, <2>1 DEF Only
<1>10. Due(r, c) = 1 /\ Due(r, c)' = 2
  BY <1>0, <1>1, <1>2 DEF Due, Delivery, Place
<1>11. Out(r, c) = l + n /\ l + n = 1
  <2>1. Out(r, c) = l + n
    BY <1>1, <1>6, <1>7 DEF Out, InExecutor
  <2>2. QED BY <1>10, <2>1 DEF Delivery, Lined
<1>12. /\ \A i \in 1 .. l : q[i].kind = c /\ q[i].no = m - 1 + i
       /\ \A i \in 1 .. n : tasks[r][i].no = m - n + i
  <2>1. /\ \A i \in 1 .. Len(q) : q[i].kind = c /\ q[i].no = sent[c] - Out(r, c) + i
        /\ \A i \in 1 .. Len(tasks[r]) : tasks[r][i].no = sent[c] - Len(tasks[r]) + i
    BY <1>1 DEF Delivery, Lined
  <2>2. QED BY <1>4, <1>6, <1>7, <1>11, <2>1
<1>13. Lined(r, c)'
  <2>1. Out(r, c)' = 2
    <3>1. InExecutor(r, c)' = n + 1
      BY <1>8, <1>9 DEF InExecutor
    <3>2. l + (n + 1) = 2
      BY <1>11
    <3>3. QED BY <1>2, <1>7, <3>1, <3>2 DEF Out
  <2>2. ASSUME NEW i \in 1 .. l
        PROVE  q[i].kind = c /\ q[i].no = (m + 1) - 2 + i
    <3>1. (m + 1) - 2 + i = m - 1 + i
      OBVIOUS
    <3>2. QED BY <1>12, <3>1
  <2>3. ASSUME NEW i \in 1 .. n + 1
        PROVE  tasks'[r][i].no = (m + 1) - (n + 1) + i
    <3>1. CASE i = n + 1
      <4>1. (m + 1) - (n + 1) + i = m + 1
        BY <3>1
      <4>2. QED BY <1>5, <1>8, <3>1, <4>1
    <3>2. CASE i # n + 1
      <4>1. i \in 1 .. n /\ (m + 1) - (n + 1) + i = m - n + i
        BY <3>2
      <4>2. tasks'[r][i].no = tasks[r][i].no /\ tasks[r][i].no = m - n + i
        BY <1>8, <1>12, <4>1
      <4>3. QED BY <4>1, <4>2
    <3>3. QED BY <3>1, <3>2
  <2>4. QED BY <1>2, <1>4, <1>7, <1>8, <1>10, <2>1, <2>2, <2>3 DEF Lined
<1>14. ASSUME NEW k \in Kind, k # c PROVE Lined(r, k)'
  <2>1. InExecutor(r, k) = 0
    BY <1>1, <1>14, InExecutorLemma
  <2>2. ~Only(r, k)'
    <3>1. n + 1 \in DOMAIN tasks'[r]
      BY <1>8
    <3>2. QED BY <1>5, <1>8, <1>14, <3>1 DEF Only
  <2>3. InExecutor(r, k)' = 0
    BY <2>2 DEF InExecutor
  <2>4. Out(r, k)' = Out(r, k)
    BY <1>2, <2>1, <2>3 DEF Out
  <2>5. Due(r, k)' = Due(r, k) /\ sent'[k] = sent[k]
    BY <1>0, <1>1, <1>2, <1>3, <1>14 DEF Due
  <2>6. QED BY <1>2, <2>2, <2>4, <2>5 DEF Delivery, Lined
<1>15. Taken(r)'
  BY <1>2 DEF Taken
<1>16. Place(r)'
  <2>1. sent["eval"] # 0 => sent'["eval"] # 0
    BY <1>3, <1>4, RankTypes DEF Kind
  <2>2. QED BY <1>1, <1>2, <1>9, <2>1 DEF Delivery, Place
<1>17. QED BY <1>13, <1>14, <1>15, <1>16 DEF Delivery

(* The first batch of a fresh iterator is gathered: it is not out yet.      *)
LEMMA DeliverPrefetchGather ==
  ASSUME TypeOK, NEW r \in Rank, Delivery(r), PrefetchGather, Current(r) = Current(Main)
  PROVE  Delivery(r)'
<1>0. PICK c \in Kind : c = Current(r)
  BY RankTypes
<1>1. /\ pc[r] = "prefetch" /\ tasks[r] = << >> /\ inEval[r] = shouldEvaluate[r]
      /\ c = (IF inEval[r] THEN "eval" ELSE "train")
  BY <1>0, RankTypes DEF PrefetchGather, AllAt, Delivery, Place
<1>2. /\ pc'[r] \in {"preload", "preinfer"} /\ inEval'[r] = inEval[r]
      /\ shouldEvaluate'[r] = shouldEvaluate[r] /\ queue'[r] = queue[r] /\ tasks'[r] = tasks[r]
      /\ Current(r)' = c
  BY <1>0 DEF PrefetchGather, trainerVars, Current
<1>3. \A k \in Kind : sent'[k] = IF k = c THEN sent[c] + 1 ELSE sent[k]
  BY <1>0 DEF PrefetchGather, TypeOK
<1>4. \A k : Only(r, k)' /\ Only(r, k) /\ InExecutor(r, k)' = InExecutor(r, k)
  BY <1>1, <1>2 DEF Only, InExecutor
<1>5. \A k \in Kind : Due(r, k)' = Due(r, k) /\ Out(r, k)' = Out(r, k)
  BY <1>0, <1>1, <1>2, <1>3, <1>4 DEF Due, Out
<1>6. Lined(r, c)'
  <2>1. Out(r, c) = 0
    BY <1>0, <1>1 DEF Due, Delivery, Lined
  <2>2. Len(queue[r][c]) = 0
    <3>1. PICK l \in Nat : l = Len(queue[r][c])
      BY RankTypes
    <3>2. InExecutor(r, c) = 0
      BY <1>1, InExecutorLemma
    <3>3. l + 0 = 0
      BY <2>1, <3>1, <3>2 DEF Out
    <3>4. QED BY <3>1, <3>3
  <2>3. Len(tasks[r]) = 0
    BY <1>1
  <2>4. QED BY <1>2, <1>5, <2>2, <2>3 DEF Delivery, Lined
<1>7. ASSUME NEW k \in Kind, k # c PROVE Lined(r, k)'
  BY <1>2, <1>3, <1>4, <1>5, <1>7 DEF Delivery, Lined
<1>8. Taken(r)'
  BY <1>2 DEF Taken
<1>9. Place(r)'
  <2>1. c = "eval" => sent'["eval"] # 0
    <3>1. PICK m \in Nat : m = sent[c]
      BY RankTypes
    <3>2. sent'[c] = m + 1
      BY <1>3, <3>1
    <3>3. QED BY <3>2
  <2>2. QED BY <1>1, <1>2, <1>4, <2>1 DEF Delivery, Place
<1>10. QED BY <1>6, <1>7, <1>8, <1>9 DEF Delivery

(* A rank on its own moves on with the batches it has out.                  *)
LEMMA DeliverMoves ==
  ASSUME TypeOK, NEW r \in Rank, Delivery(r),
         WaitQueue(r) \/ TrainingStep(r) \/ EvalBegin(r) \/ EvalEnd(r)
  PROVE  Delivery(r)'
<1>1. /\ queue'[r] = queue[r] /\ tasks'[r] = tasks[r] /\ sent' = sent /\ Place(r)
      /\ inEval[r] \in BOOLEAN /\ shouldEvaluate[r] = inEval[r]
      /\ \A k \in Kind : Lined(r, k)
      /\ \A k : Only(r, k)' = Only(r, k)
  BY RankTypes DEF WaitQueue, TrainingStep, EvalBegin, EvalEnd, Delivery, Place, Only
<1>2. tasks[r] = << >> => \A k : Only(r, k)
  BY DEF Only
<1>3. FastInfer(r) \in {"waitq", "gather"} /\ NextStep \in {"step", "done"}
  BY DEF FastInfer, NextStep
<1>4. ASSUME WaitQueue(r) \/ TrainingStep(r) \/ EvalBegin(r)
      PROVE  inEval'[r] = inEval[r] /\ shouldEvaluate'[r] = shouldEvaluate[r] /\ evalFlag'[r] = evalFlag[r]
             /\ Current(r)' = Current(r)
  BY <1>4 DEF WaitQueue, TrainingStep, EvalBegin, trainerVars, Current
<1>5. "train" \in Kind /\ "eval" \in Kind
  BY DEF Kind
<1>6. CASE WaitQueue(r)
  <2>1. pc[r] = "waitq" /\ pc'[r] = "load" /\ queue[r][Current(r)] # << >>
    BY <1>6 DEF WaitQueue, Goto, TypeOK
  <2>2. tasks[r] = << >>
    <3>1. Only(r, Current(r)) /\ Due(r, Current(r)) \in {0, 1}
      BY <1>1, <2>1 DEF Place, Due
    <3>2. QED BY <1>1, <2>1, <3>1, Drained, RankTypes
  <2>3. Place(r)'
    BY <1>1, <1>2, <1>4, <1>6, <2>1, <2>2 DEF Place
  <2>4. Taken(r)' /\ \A k \in Kind : Due(r, k)' = Due(r, k)
    BY <1>1, <1>4, <1>6, <2>1 DEF Taken, Due
  <2>5. QED BY <1>1, <2>3, <2>4, DeliveryMove
<1>7. CASE TrainingStep(r)
  <2>1. /\ pc[r] = "step" /\ pc'[r] \in {"waitq", "gather", "compute"}
        /\ evalFlag[r] => queue[r]["eval"] # << >>
    BY <1>3, <1>7 DEF TrainingStep, Goto, TypeOK, EvalRolloutDone
  <2>2. ~inEval[r] /\ Current(r) = "train"
    BY <1>1, <2>1 DEF Place, Current
  <2>3. Only(r, "train")
    <3>1. CASE Only(r, "train")
      BY <3>1
    <3>2. CASE Only(r, "eval") /\ evalFlag[r]
      <4>1. Due(r, "eval") \in {0, 1} /\ queue[r]["eval"] # << >>
        BY <2>1, <3>2 DEF Due
      <4>2. tasks[r] = << >>
        BY <1>1, <1>5, <3>2, <4>1, Drained
      <4>3. QED BY <1>2, <4>2
    <3>3. QED BY <1>1, <2>1, <3>1, <3>2 DEF Place
  <2>4. Place(r)'
    BY <1>1, <1>4, <1>7, <2>1, <2>2, <2>3 DEF Place
  <2>5. Taken(r)' /\ \A k \in Kind : Due(r, k)' = Due(r, k)
    BY <1>1, <1>4, <1>7, <2>1 DEF Taken, Due
  <2>6. QED BY <1>1, <2>4, <2>5, DeliveryMove
<1>8. CASE EvalBegin(r)
  <2>1. /\ pc[r] = "evalwait" /\ queue[r]["train"] # << >>
        /\ \/ pc'[r] = "prefetch" /\ queue[r][Current(r)] = << >>
           \/ pc'[r] \in {"waitq", "gather"} /\ queue[r][Current(r)] # << >>
    BY <1>3, <1>8 DEF EvalBegin, Goto, TypeOK
  <2>2. inEval[r] /\ Current(r) = "eval" /\ Only(r, "train")
    BY <1>1, <2>1 DEF Place, Current
  <2>3. tasks[r] = << >>
    <3>1. Due(r, "train") \in {0, 1}
      BY <2>1 DEF Due
    <3>2. QED BY <1>1, <1>5, <2>1, <2>2, <3>1, Drained
  <2>4. sent["eval"] # 0 <=> queue[r]["eval"] # << >>
    <3>1. Out(r, "eval") = IF sent["eval"] = 0 THEN 0 ELSE 1
      BY <1>1, <1>5, <2>1 DEF Due, Lined
    <3>2. InExecutor(r, "eval") = 0
      BY <1>5, <2>3, InExecutorLemma
    <3>3. PICK l \in Nat : l = Len(queue[r]["eval"])
      BY <1>5, RankTypes
    <3>4. l + 0 = IF sent["eval"] = 0 THEN 0 ELSE 1
      BY <3>1, <3>2, <3>3 DEF Out
    <3>5. l = 0 <=> sent["eval"] = 0
      BY <3>4
    <3>6. QED BY <1>5, <3>3, <3>5, RankTypes
  <2>5. Place(r)'
    BY <1>1, <1>2, <1>4, <1>8, <2>1, <2>2, <2>3, <2>4 DEF Place
  <2>6. Taken(r)' /\ \A k \in Kind : Due(r, k)' = Due(r, k)
    BY <1>1, <1>4, <1>8, <2>1, <2>2, <2>4 DEF Taken, Due
  <2>7. QED BY <1>1, <2>5, <2>6, DeliveryMove
<1>9. CASE EvalEnd(r)
  <2>1. /\ pc[r] = "evalend" /\ pc'[r] \in {"step", "done"} /\ evalFlag'[r] = TRUE
        /\ shouldEvaluate'[r] = FALSE /\ inEval'[r] = FALSE
    BY <1>3, <1>9 DEF EvalEnd, Goto, TypeOK
  <2>2. inEval[r] /\ Only(r, "eval") /\ sent["eval"] # 0
    BY <1>1, <2>1 DEF Place
  <2>3. Place(r)'
    BY <1>1, <2>1, <2>2 DEF Place
  <2>4. Taken(r)' /\ \A k \in Kind : Due(r, k)' = Due(r, k)
    BY <1>1, <2>1, <2>2 DEF Taken, Due
  <2>5. QED BY <1>1, <2>3, <2>4, DeliveryMove
<1>10. QED BY <1>6, <1>7, <1>8, <1>9

(* All ranks move on together.                                              *)
LEMMA DeliverJointMoves ==
  ASSUME TypeOK, Together, NEW r \in Rank, Delivery(r),
         LoadBegin \/ LoadEnd \/ Resample \/ BatchReady \/ EvalBatch \/ Backward
  PROVE  Delivery(r)'
<1>1. /\ queue'[r] = queue[r] /\ tasks'[r] = tasks[r] /\ sent' = sent /\ Place(r)
      /\ inEval[r] \in BOOLEAN /\ shouldEvaluate[r] = inEval[r] /\ Main \in Rank
      /\ \A k : Only(r, k)' = Only(r, k)
  BY RankTypes, Lengths
     DEF LoadBegin, LoadEnd, Resample, BatchReady, EvalBatch, Backward, Delivery, Place, Only
<1>2. FastInfer(r) \in {"waitq", "gather"} /\ NextStep' \in {"step", "done"}
  BY DEF FastInfer, NextStep
<1>3. ASSUME LoadBegin \/ LoadEnd \/ Resample \/ BatchReady \/ EvalBatch
      PROVE  inEval'[r] = inEval[r] /\ shouldEvaluate'[r] = shouldEvaluate[r] /\ evalFlag'[r] = evalFlag[r]
             /\ Current(r)' = Current(r)
  BY <1>3 DEF LoadBegin, LoadEnd, Resample, BatchReady, EvalBatch, trainerVars, Current
<1>4. CASE LoadBegin
  <2>1. \/ pc[r] = "load" /\ pc'[r] \in {"loading", "gather"}
        \/ pc[r] = "preload" /\ pc'[r] \in {"preloading", "preinfer"}
    BY <1>4 DEF LoadBegin, AllAt
  <2>2. tasks[r] = << >> /\ \A k : Only(r, k)
    BY <1>1, <2>1 DEF Place, Only
  <2>3. Place(r)' /\ Taken(r)'
    BY <1>1, <1>3, <1>4, <2>1, <2>2 DEF Place, Taken
  <2>4. \A k \in Kind : Due(r, k)' = Due(r, k)
    BY <1>1, <1>3, <1>4, <2>1 DEF Due
  <2>5. QED BY <1>1, <2>3, <2>4, DeliveryMove
<1>5. CASE LoadEnd
  <2>1. \/ pc'[r] = pc[r] /\ got'[r] = got[r]
        \/ pc[r] = "loading" /\ pc'[r] = "gather"
        \/ pc[r] = "preloading" /\ pc'[r] = "preinfer"
    BY <1>1, <1>5 DEF LoadEnd, Goto, TypeOK
  <2>2. pc[r] \in {"loading", "preloading"} => \A k : Only(r, k)
    BY <1>1 DEF Place, Only
  <2>3. Place(r)' /\ Taken(r)'
    BY <1>1, <1>3, <1>5, <2>1, <2>2 DEF Place, Taken, Delivery
  <2>4. \A k \in Kind : Due(r, k)' = Due(r, k)
    BY <1>1, <1>3, <1>5, <2>1 DEF Due
  <2>5. QED BY <1>1, <2>3, <2>4, DeliveryMove
<1>6. CASE Resample \/ BatchReady \/ EvalBatch
  <2>1. /\ pc[r] = "scatter"
        /\ inEval[r] = inEval[Main]
        /\ pc'[r] \in IF inEval[r] THEN {"waitq", "gather", "evalend"} ELSE {"waitq", "gather", "compute"}
    <3>1. inEval[r] = inEval[Main] /\ pc[r] = "scatter"
      BY <1>1, <1>6, RankTypes DEF Resample, BatchReady, EvalBatch, AllAt, Together
    <3>2. QED BY <1>1, <1>2, <1>6, <3>1 DEF Resample, BatchReady, EvalBatch, AllGoto
  <2>2. Only(r, Current(r)) /\ Current(r) = (IF inEval[r] THEN "eval" ELSE "train")
    BY <1>1, <2>1 DEF Place, Current
  <2>3. Place(r)' /\ Taken(r)'
    BY <1>1, <1>3, <1>6, <2>1, <2>2 DEF Place, Taken
  <2>4. \A k \in Kind : Due(r, k)' = Due(r, k)
    BY <1>1, <1>3, <1>6, <2>1, <2>2 DEF Due
  <2>5. QED BY <1>1, <2>3, <2>4, DeliveryMove
<1>7. CASE Backward
  <2>1. /\ pc[r] = "compute" /\ inEval'[r] = shouldEvaluate'[r]
        /\ pc'[r] \in IF inEval'[r] THEN {"evalwait"} ELSE {"step", "done"}
    BY <1>2, <1>7 DEF Backward, AllAt, AllGoto
  <2>2. ~inEval[r] /\ Only(r, "train")
    BY <1>1, <2>1 DEF Place
  <2>3. Place(r)' /\ Taken(r)'
    BY <1>1, <2>1, <2>2 DEF Place, Taken
  <2>4. \A k \in Kind : Due(r, k)' = Due(r, k)
    BY <1>1, <2>1, <2>2 DEF Due
  <2>5. QED BY <1>1, <2>3, <2>4, DeliveryMove
<1>8. QED BY <1>4, <1>5, <1>6, <1>7

-----------------------------------------------------------------------------
(* The ranks stay together.                                                 *)

(* A rank on its own goes nowhere an evaluating rank could not follow.      *)
LEMMA TogetherAlone ==
  ASSUME TypeOK, Together, NEW r \in Rank, ~EvalOnStart,
         PrefetchPut(r) \/ WaitQueue(r) \/ Take(r) \/ TrainingStep(r) \/ EvalBegin(r)
  PROVE  Together'
<1>1. /\ inEval' = inEval
      /\ \A s \in Rank : s # r => pc'[s] = pc[s]
      /\ pc[r] # "evalend" /\ pc'[r] # "evalend"
      /\ pc[r] \in {"step", "waitq", "load", "gather", "compute", "done"} =>
           pc'[r] \in {"waitq", "load", "gather", "compute"}
  BY DEF PrefetchPut, WaitQueue, Take, TrainingStep, EvalBegin, trainerVars, Goto, FastInfer, TypeOK
<1>2. SUFFICES ASSUME NEW a \in Rank, NEW b \in Rank
               PROVE  /\ inEval[a] /\ ~inEval[b] =>
                           /\ pc'[a] = "evalend"
                           /\ pc'[b] \in {"step", "waitq", "load", "gather", "compute", "done"}
                      /\ pc'[a] = "evalend" /\ inEval[b] => pc'[b] = "evalend"
  BY <1>1 DEF Together
<1>3. /\ inEval[a] /\ ~inEval[b] =>
           pc[a] = "evalend" /\ pc[b] \in {"step", "waitq", "load", "gather", "compute", "done"}
      /\ pc[a] = "evalend" /\ inEval[b] => pc[b] = "evalend"
  BY DEF Together
<1>4. QED BY <1>1, <1>3

LEMMA TogetherEvalEnd ==
  ASSUME TypeOK, Together, NEW r \in Rank, Place(r), EvalEnd(r)
  PROVE  Together'
<1>1. /\ inEval[r] /\ pc[r] = "evalend" /\ pc'[r] \in {"step", "done"} /\ inEval'[r] = FALSE
      /\ \A s \in Rank : s # r => pc'[s] = pc[s] /\ inEval'[s] = inEval[s]
  BY DEF EvalEnd, Place, Goto, NextStep, TypeOK
<1>2. SUFFICES ASSUME NEW a \in Rank, NEW b \in Rank
               PROVE  /\ inEval'[a] /\ ~inEval'[b] =>
                           /\ pc'[a] = "evalend"
                           /\ pc'[b] \in {"step", "waitq", "load", "gather", "compute", "done"}
                      /\ pc'[a] = "evalend" /\ inEval'[b] => pc'[b] = "evalend"
  BY DEF Together
<1>3. /\ inEval[a] /\ ~inEval[b] =>
           pc[a] = "evalend" /\ pc[b] \in {"step", "waitq", "load", "gather", "compute", "done"}
      /\ pc[a] = "evalend" /\ inEval[b] => pc[b] = "evalend"
      /\ pc[r] = "evalend" /\ inEval[a] => pc[a] = "evalend"
  BY DEF Together
<1>4. QED BY <1>1, <1>3

(* At a joint step other than the end of an evaluation all ranks are in     *)
(* evaluation or none is.                                                   *)
LEMMA SameMode ==
  ASSUME Together, NEW p, AllAt(p), p # "evalend", NEW r \in Rank, NEW s \in Rank, TypeOK
  PROVE  inEval[r] = inEval[s]
<1>1. inEval[r] \in BOOLEAN /\ inEval[s] \in BOOLEAN /\ pc[r] = p /\ pc[s] = p
  BY DEF TypeOK, AllAt
<1>2. QED BY <1>1 DEF Together

LEMMA TogetherJoint ==
  ASSUME TypeOK, Together,
         PrefetchGather \/ LoadBegin \/ Submit \/ Resample \/ BatchReady \/ EvalBatch \/ Backward
  PROVE  Together'
<1>1. CASE Backward
  <2>1. \A a, b \in Rank : inEval'[a] = inEval'[b] /\ pc'[a] # "evalend"
    BY <1>1 DEF Backward, AllGoto, NextStep
  <2>2. QED BY <2>1 DEF Together
<1>2. CASE PrefetchGather \/ LoadBegin \/ Submit \/ Resample \/ BatchReady \/ EvalBatch
  <2>1. inEval' = inEval
    BY <1>2 DEF PrefetchGather, LoadBegin, Submit, Resample, BatchReady, EvalBatch, trainerVars
  <2>2. \A a, b \in Rank : inEval[a] = inEval[b]
    <3>1. \E p \in {"prefetch", "load", "preload", "gather", "scatter"} : AllAt(p)
      BY <1>2 DEF PrefetchGather, LoadBegin, Submit, Resample, BatchReady, EvalBatch
    <3>2. QED BY <3>1, SameMode
  <2>3. \A a, b \in Rank : pc'[a] = "evalend" => pc'[b] = "evalend"
    BY <1>2 DEF PrefetchGather, LoadBegin, Submit, Resample, BatchReady, EvalBatch, AllGoto, FastInfer
  <2>4. QED BY <2>1, <2>2, <2>3 DEF Together
<1>3. QED BY <1>1, <1>2

LEMMA TogetherLoadEnd ==
  ASSUME TypeOK, Together, LoadEnd
  PROVE  Together'
<1>1. /\ Main \in Rank /\ inEval' = inEval /\ pc[Main] \in {"loading", "preloading"}
      /\ pc'[Main] \in {"gather", "preinfer"} /\ \A s \in Rank : s # Main => pc'[s] = pc[s]
  BY Lengths DEF LoadEnd, trainerVars, Goto, TypeOK
<1>2. SUFFICES ASSUME NEW a \in Rank, NEW b \in Rank
               PROVE  /\ inEval[a] /\ ~inEval[b] =>
                           /\ pc'[a] = "evalend"
                           /\ pc'[b] \in {"step", "waitq", "load", "gather", "compute", "done"}
                      /\ pc'[a] = "evalend" /\ inEval[b] => pc'[b] = "evalend"
  BY <1>1 DEF Together
<1>3. /\ inEval[a] /\ ~inEval[b] =>
           pc[a] = "evalend" /\ pc[b] \in {"step", "waitq", "load", "gather", "compute", "done"}
      /\ pc[a] = "evalend" /\ inEval[b] => pc[b] = "evalend"
  BY DEF Together
<1>4. QED BY <1>1, <1>3

-----------------------------------------------------------------------------
(* The invariant holds initially and every step preserves it.               *)

LEMMA InitDInv == Init => DInv
<1> SUFFICES ASSUME Init PROVE DInv
  OBVIOUS
<1>1. Together
  BY DEF Init, Together
<1>2. ASSUME NEW r \in Rank PROVE Delivery(r)
  <2>1. /\ tasks[r] = << >> /\ pc[r] = "prefetch" /\ inEval[r] = FALSE /\ shouldEvaluate[r] = FALSE
        /\ \A k \in Kind : queue[r][k] = << >> /\ sent[k] = 0
    BY DEF Init
  <2>2. Place(r) /\ Taken(r)
    BY <2>1 DEF Place, Taken
  <2>3. ASSUME NEW k \in Kind PROVE Lined(r, k)
    <3>1. Len(tasks[r]) = 0 /\ Len(queue[r][k]) = 0
      BY <2>1
    <3>2. InExecutor(r, k) = 0
      BY <3>1 DEF InExecutor
    <3>3. Out(r, k) = 0
      BY <3>1, <3>2 DEF Out
    <3>4. Due(r, k) = 0
      BY <2>1 DEF Due, Current, Kind
    <3>5. QED BY <3>1, <3>3, <3>4 DEF Lined
  <2>4. QED BY <2>2, <2>3 DEF Delivery
<1>3. QED BY <1>1, <1>2 DEF DInv

(* An executor that finishes its oldest task with a result.                 *)
LEMMA ExecutorFinishes ==
  ASSUME TypeOK, Shape, NEW r \in Rank, EmptyTask(r) \/ (r = Main /\ RolloutEnd)
  PROVE  \E res \in Result : Finishes(r, res)
<1> DEFINE t == Head(tasks[r])
           res == Rollout(r, t.kind, t.no)
<1>1. tasks[r] # << >>
  BY DEF EmptyTask, RolloutEnd, Shape
<1>2. /\ tasks' = [tasks EXCEPT ![r] = Tail(@)] /\ Put(r, res)
      /\ UNCHANGED <<pc, inEval, shouldEvaluate, evalFlag, got, sent>>
  BY DEF EmptyTask, RolloutEnd, trainerVars
<1>3. t \in Task
  BY <1>1, <1>2, PopLemma
<1>4. res \in Result /\ res.kind = t.kind /\ res.no = t.no
  BY <1>3, RolloutLemma DEF Task, Rollout
<1>5. tasks'[r] = Tail(tasks[r])
  BY <1>2 DEF TypeOK
<1>6. \A k \in Kind : queue'[r][k] = IF k = res.kind THEN Append(queue[r][k], res) ELSE queue[r][k]
  BY <1>2, <1>4 DEF Put, TypeOK, Result
<1>7. Finishes(r, res)
  BY <1>1, <1>2, <1>4, <1>5, <1>6 DEF Finishes
<1>8. QED BY <1>4, <1>7

(* What is of another rank does not change in a rank's own step.            *)
LEMMA OthersKeep ==
  ASSUME TypeOK, ~EvalOnStart, NEW r \in Rank, NEW s \in Rank, s # r, Delivery(s),
         MainThread(r) \/ Executor(r), ~MayFail
  PROVE  Delivery(s)'
<1>1. Main \in Rank
  BY Lengths
<1>2. /\ pc'[s] = pc[s] /\ inEval'[s] = inEval[s] /\ shouldEvaluate'[s] = shouldEvaluate[s]
      /\ evalFlag'[s] = evalFlag[s] /\ got'[s] = got[s] /\ sent' = sent
  BY <1>1 DEF MainThread, Executor, PrefetchPut, WaitQueue, Take, TrainingStep, EvalBegin, EvalEnd,
       EmptyTask, RolloutBegin, RolloutEnd, RolloutFail, Goto, trainerVars, TypeOK
<1>3. queue \in [Rank -> [Kind -> Seq(Result)]] /\ tasks \in [Rank -> Seq(Task)]
  BY DEF TypeOK
<1>4. queue'[s] = queue[s]
  <2>1. CASE PrefetchPut(r) \/ EmptyTask(r)
    BY <1>3, <2>1 DEF PrefetchPut, EmptyTask, Put
  <2>2. CASE Take(r)
    BY <1>3, <2>2 DEF Take
  <2>3. CASE r = Main /\ RolloutEnd
    BY <1>3, <2>3 DEF RolloutEnd, Put
  <2>4. CASE UNCHANGED queue
    BY <2>4
  <2>5. QED BY <2>1, <2>2, <2>3, <2>4 DEF MainThread, Executor, WaitQueue, TrainingStep, EvalBegin,
                 EvalEnd, RolloutBegin, RolloutFail
<1>5. tasks'[s] = tasks[s]
  <2>1. CASE EmptyTask(r)
    BY <1>3, <2>1 DEF EmptyTask
  <2>2. CASE r = Main /\ RolloutEnd
    BY <1>3, <2>2 DEF RolloutEnd
  <2>3. CASE UNCHANGED tasks
    BY <2>3
  <2>4. QED BY <2>1, <2>2, <2>3 DEF MainThread, Executor, PrefetchPut, WaitQueue, Take, TrainingStep,
                 EvalBegin, EvalEnd, RolloutBegin, RolloutFail
<1>6. QED BY <1>2, <1>4, <1>5, DeliveryFrame

LEMMA NextDInv ==
  ASSUME IInv, DInv, ~EvalOnStart, ~MayFail, [Next]_vars PROVE DInv'
<1> USE DEF IInv, DInv
<1>1. ASSUME NEW r \in Rank, MainThread(r) PROVE DInv'
  <2>1. Together'
    BY <1>1, TogetherAlone, TogetherEvalEnd DEF MainThread, Delivery
  <2>2. Delivery(r)'
    BY <1>1, DeliverPrefetchPut, DeliverTake, DeliverMoves DEF MainThread
  <2>3. \A s \in Rank : s # r => Delivery(s)'
    BY <1>1, OthersKeep
  <2>4. QED BY <2>1, <2>2, <2>3
<1>2. ASSUME NEW r \in Rank, Executor(r) PROVE DInv'
  <2>1. UNCHANGED <<pc, inEval, shouldEvaluate, evalFlag, got, sent>>
    BY <1>2 DEF Executor, EmptyTask, RolloutBegin, RolloutEnd, RolloutFail, trainerVars
  <2>2. Together'
    BY <2>1 DEF Together
  <2>3. Delivery(r)'
    <3>1. CASE EmptyTask(r) \/ (r = Main /\ RolloutEnd)
      BY <3>1, ExecutorFinishes, DeliveryFinish
    <3>2. CASE RolloutBegin
      BY <2>1, <3>2, DeliveryFrame DEF RolloutBegin
    <3>3. QED BY <1>2, <3>1, <3>2 DEF Executor, RolloutFail
  <2>4. \A s \in Rank : s # r => Delivery(s)'
    BY <1>2, OthersKeep
  <2>5. QED BY <2>2, <2>3, <2>4
<1>3. CASE Collective \/ LoadEnd
  <2>1. Together'
    BY <1>3, TogetherJoint, TogetherLoadEnd DEF Collective
  <2>2. ASSUME NEW r \in Rank PROVE Delivery(r)'
    <3>1. ASSUME Submit \/ PrefetchGather PROVE Current(r) = Current(Main)
      <4>1. inEval[r] = inEval[Main]
        BY <3>1, SameMode, Lengths DEF Submit, PrefetchGather
      <4>2. QED BY <4>1, Lengths DEF Delivery, Place, Current
    <3>2. CASE Submit
      BY <3>1, <3>2, DeliverSubmit
    <3>3. CASE PrefetchGather
      BY <3>1, <3>3, DeliverPrefetchGather
    <3>4. CASE LoadBegin \/ LoadEnd \/ Resample \/ BatchReady \/ EvalBatch \/ Backward
      BY <3>4, DeliverJointMoves
    <3>5. QED BY <1>3, <3>2, <3>3, <3>4 DEF Collective
  <2>3. QED BY <2>1, <2>2
<1>4. CASE Terminated \/ UNCHANGED vars
  <2>1. UNCHANGED vars
    BY <1>4 DEF Terminated
  <2>2. Together'
    BY <2>1 DEF vars, trainerVars, Together
  <2>3. \A r \in Rank : Delivery(r)'
    BY <2>1, DeliveryFrame DEF vars, trainerVars
  <2>4. QED BY <2>2, <2>3
<1>5. QED BY <1>1, <1>2, <1>3, <1>4 DEF Next

(* The invariant holds in every reachable state of a run in which no        *)
(* rollout fails.                                                           *)
THEOREM DeliveryInvariance == ~EvalOnStart /\ ~MayFail /\ Spec => []DInv
<1>1. SUFFICES ASSUME ~EvalOnStart, ~MayFail PROVE Spec => []DInv
  OBVIOUS
<1>2. IInv /\ [Next]_vars => IInv'
  BY <1>1, NextIInv
<1>3. IInv /\ DInv /\ [Next]_vars => DInv'
  BY <1>1, NextDInv
<1>4. QED BY <1>2, <1>3, InitIInv, InitDInv, PTL DEF Spec

(* The results that gather_object(data_cache.results) concatenates are      *)
(* those of one submission: however the ranks' executors and queues are     *)
(* interleaved, no rank is a batch ahead of another.                        *)
THEOREM ResultsOfOneSubmission == ~EvalOnStart /\ ~MayFail /\ Spec => []RanksAgree
<1>1. DInv => RanksAgree
  <2>1. SUFFICES ASSUME DInv, NEW r \in Rank, NEW s \in Rank, pc[r] = "scatter", pc[s] = "scatter"
                 PROVE  got[r].kind = got[s].kind /\ got[r].no = got[s].no
    BY DEF RanksAgree
  <2>2. inEval[r] <=> inEval[s]
    BY <2>1 DEF DInv, Together
  <2>3. Current(r) = Current(s)
    BY <2>1, <2>2 DEF DInv, Delivery, Place, Current
  <2>4. QED BY <2>1, <2>3 DEF DInv, Delivery, Taken
<1>2. QED BY <1>1, DeliveryInvariance, PTL

(* Every batch the trainer or the evaluation gets is of its own kind and    *)
(* the one submitted just before the latest: none is lost, repeated or      *)
(* taken from the other queue.                                              *)
THEOREM OneBatchBehind == ~EvalOnStart /\ ~MayFail /\ Spec => []OneBatchLag
<1>1. DInv => OneBatchLag
  BY DEF DInv, Delivery, Taken, OneBatchLag
<1>2. QED BY <1>1, DeliveryInvariance, PTL

-----------------------------------------------------------------------------
(* The weights of the train batches, on the main rank.                      *)

(* Optimizer step of the latest generation: of the one at hand when the     *)
(* micro-batch comes after it, of the previous one before.                  *)
Generated(m) == ((m \div GenerateEvery) * GenerateEvery) \div MicroPerStep
Before(m) == IF m = 0 THEN 0 ELSE Generated(m - 1)

Generating == ~inEval[Main] /\ pc[Main] \in {"waitq", "load", "loading", "gather", "get", "scatter"}

(* Weights of the i-th of the train batches that are out.                   *)
Newest ==
  IF Generating
    THEN IF pc[Main] \in {"get", "scatter"} \/ resampled > 0 THEN step ELSE Before(micro)
    ELSE IF pc[Main] = "compute" THEN Generated(micro) ELSE Before(micro)
Oldest == IF resampled > 0 THEN step ELSE Before(micro)

VerAt(i) == IF pc[Main] = "get" /\ i = 1 /\ ~inEval[Main] THEN Oldest ELSE Newest

(* The counters of the trainer and the weights of the server, by place.     *)
Clock ==
  /\ step = micro \div MicroPerStep
  /\ Generating => micro % GenerateEvery = 0
  /\ resampled > 0 => Generating
  /\ ~inEval[Main] /\ pc[Main] \in {"prefetch", "preload", "preloading", "preinfer"} => micro = 0
  /\ pc[Main] \in {"gather", "get", "scatter", "preinfer"} => served = step

(* A train batch that is out has the weights of its place in the line: a    *)
(* pending one has those that the server still holds.                       *)
Ages ==
  /\ \A i \in 1 .. Len(queue[Main]["train"]) : queue[Main]["train"][i].ver = VerAt(i)
  /\ Only(Main, "train") => \A i \in 1 .. Len(tasks[Main]) :
       served = VerAt(Len(queue[Main]["train"]) + i)
  /\ pc[Main] = "scatter" /\ ~inEval[Main] => got[Main].ver = Oldest

Aged == Clock /\ Ages

-----------------------------------------------------------------------------
(* Lemmas about division.                                                   *)

LEMMA DivMod ==
  ASSUME NEW m \in Nat, NEW d \in Nat, d >= 1
  PROVE  /\ m \div d \in Nat /\ m % d \in 0 .. d - 1
         /\ m = (m \div d) * d + (m % d)
<1>1. m \div d \in Int /\ m % d \in 0 .. d - 1
  OBVIOUS
<1>2. m = d * (m \div d) + (m % d)
  OBVIOUS
<1>3. m \div d >= 0
  OBVIOUS
<1>4. d * (m \div d) = (m \div d) * d
  BY <1>1
<1>5. QED BY <1>1, <1>2, <1>3, <1>4

LEMMA Quotient ==
  ASSUME NEW m \in Nat, NEW d \in Nat, d >= 1, NEW q \in Int, NEW r \in 0 .. d - 1, m = q * d + r
  PROVE  m \div d = q /\ m % d = r
<1>1. PICK p \in Nat, s \in 0 .. d - 1 : p = m \div d /\ s = m % d /\ m = p * d + s
  BY DivMod
<1>2. (p - q) * d = r - s /\ (q - p) * d = s - r
  BY <1>1
<1>3. ~(p - q >= 1)
  <2>1. SUFFICES ASSUME p - q >= 1 PROVE FALSE
    OBVIOUS
  <2>2. (p - q) * d >= d
    BY <2>1
  <2>3. QED BY <1>2, <2>2
<1>4. ~(q - p >= 1)
  <2>1. SUFFICES ASSUME q - p >= 1 PROVE FALSE
    OBVIOUS
  <2>2. (q - p) * d >= d
    BY <2>1
  <2>3. QED BY <1>2, <2>2
<1>5. p = q
  BY <1>3, <1>4
<1>6. QED BY <1>1, <1>2, <1>5

(* One more: the quotient goes up when the remainder comes round to 0.      *)
LEMMA Successor ==
  ASSUME NEW m \in Nat, NEW d \in Nat, d >= 1
  PROVE  (m + 1) \div d = IF (m + 1) % d = 0 THEN (m \div d) + 1 ELSE m \div d
<1>1. PICK q \in Nat, r \in 0 .. d - 1 : q = m \div d /\ m = q * d + r
  BY DivMod
<1>2. CASE r = d - 1
  <2>1. m + 1 = (q + 1) * d + 0
    BY <1>1, <1>2
  <2>2. (m + 1) \div d = q + 1 /\ (m + 1) % d = 0
    BY <2>1, Quotient
  <2>3. QED BY <1>1, <2>2
<1>3. CASE r # d - 1
  <2>1. m + 1 = q * d + (r + 1) /\ r + 1 \in 0 .. d - 1
    BY <1>1, <1>3
  <2>2. (m + 1) \div d = q /\ (m + 1) % d = r + 1
    BY <2>1, Quotient
  <2>3. QED BY <1>1, <2>2
<1>4. QED BY <1>2, <1>3

(* A generation takes place every GenerateEvery micro-batches.              *)
LEMMA Generations ==
  ASSUME NEW m \in Nat
  PROVE  /\ Before(m + 1) = Generated(m) /\ Before(0) = 0
         /\ m % GenerateEvery = 0 => Generated(m) = m \div MicroPerStep
         /\ m % GenerateEvery # 0 => Generated(m) = Before(m)
         /\ m % GenerateEvery = 0 =>
              Before(m) = (IF m < GenerateEvery THEN 0 ELSE m - GenerateEvery) \div MicroPerStep
<1>0. GenerateEvery \in Nat /\ GenerateEvery >= 1 /\ MicroPerStep \in Nat /\ MicroPerStep >= 1
  BY ConstantsAssumption
<1> DEFINE g == GenerateEvery
<1>1. PICK q \in Nat, r \in 0 .. g - 1 : q = m \div g /\ r = m % g /\ m = q * g + r
  BY <1>0, DivMod
<1>2. Before(m + 1) = Generated(m) /\ Before(0) = 0
  BY DEF Before
<1>3. ASSUME r = 0 PROVE Generated(m) = m \div MicroPerStep
  <2>1. q * g = m
    BY <1>0, <1>1, <1>3
  <2>2. QED BY <1>1, <2>1 DEF Generated
<1>4. ASSUME r # 0 PROVE Generated(m) = Before(m)
  <2>1. m # 0 /\ m - 1 \in Nat /\ m - 1 = q * g + (r - 1) /\ r - 1 \in 0 .. g - 1
    <3>1. q * g \in Nat
      BY <1>0
    <3>2. QED BY <1>0, <1>1, <1>4, <3>1
  <2>2. (m - 1) \div g = q
    BY <1>0, <2>1, Quotient
  <2>3. QED BY <1>1, <2>1, <2>2 DEF Before, Generated
<1>5. ASSUME r = 0
      PROVE  Before(m) = (IF m < g THEN 0 ELSE m - g) \div MicroPerStep
  <2>1. CASE m = 0
    <3>1. 0 = 0 * MicroPerStep + 0 /\ 0 \in 0 .. MicroPerStep - 1
      BY <1>0
    <3>2. 0 \div MicroPerStep = 0
      BY <1>0, <3>1, Quotient
    <3>3. QED BY <1>0, <2>1, <3>2 DEF Before
  <2>2. CASE m # 0
    <3>1. q >= 1
      BY <1>0, <1>1, <1>5, <2>2
    <3>2. m - 1 \in Nat /\ m - 1 = (q - 1) * g + (g - 1) /\ g - 1 \in 0 .. g - 1
      BY <1>0, <1>1, <1>5, <2>2
    <3>3. (m - 1) \div g = q - 1
      BY <1>0, <3>1, <3>2, Quotient
    <3>4. (q - 1) * g = m - g /\ m >= g
      <4>1. (q - 1) * g = q * g - g /\ (q - 1) * g >= 0
        BY <1>0, <3>1
      <4>2. QED BY <1>0, <1>1, <1>5, <4>1
    <3>5. QED BY <1>0, <2>2, <3>3, <3>4 DEF Before, Generated
  <2>3. QED BY <2>1, <2>2
<1>6. QED BY <1>1, <1>2, <1>3, <1>4, <1>5

-----------------------------------------------------------------------------
(* What each step of the main rank does to the ages of its train batches.   *)

LEMMA AgedTypes ==
  ASSUME TypeOK
  PROVE  /\ Main \in Rank /\ pc[Main] \in PC /\ inEval[Main] \in BOOLEAN
         /\ micro \in Nat /\ step \in Nat /\ resampled \in Nat /\ served \in Int
         /\ GenerateEvery \in Nat /\ GenerateEvery >= 1 /\ MicroPerStep \in Nat /\ MicroPerStep >= 1
BY ConstantsAssumption DEF TypeOK

(* Nothing changes for the main rank.                                       *)
LEMMA AgedFrame ==
  ASSUME Aged, pc'[Main] = pc[Main], inEval'[Main] = inEval[Main], queue'[Main] = queue[Main],
         tasks'[Main] = tasks[Main], got'[Main] = got[Main],
         UNCHANGED <<served, micro, step, resampled>>
  PROVE  Aged'
<1>1. Newest' = Newest /\ Oldest' = Oldest /\ (Generating' <=> Generating)
  BY DEF Newest, Oldest, Generating
<1>2. \A i : VerAt(i)' = VerAt(i)
  BY <1>1 DEF VerAt
<1>3. Clock'
  BY <1>1 DEF Aged, Clock, Generating
<1>4. Ages'
  BY <1>1, <1>2 DEF Aged, Ages, Only
<1>5. QED BY <1>3, <1>4 DEF Aged

(* The main rank moves on, with the same train batches out.                 *)
LEMMA AgesMove ==
  ASSUME Ages, queue'[Main]["train"] = queue[Main]["train"], tasks'[Main] = tasks[Main],
         served' = served \/ tasks[Main] = << >>, \A i : VerAt(i)' = VerAt(i),
         pc'[Main] = "scatter" => inEval'[Main]
  PROVE  Ages'
<1>1. Only(Main, "train")' = Only(Main, "train")
  BY DEF Only
<1>2. tasks[Main] = << >> => 1 .. Len(tasks[Main]) = {}
  OBVIOUS
<1>3. QED BY <1>1, <1>2 DEF Ages

(* The moves of the main rank alone, and LoadEnd.                           *)
LEMMA AgedMoves ==
  ASSUME TypeOK, Weights, Delivery(Main), Aged,
         WaitQueue(Main) \/ TrainingStep(Main) \/ EvalBegin(Main) \/ EvalEnd(Main) \/ LoadEnd
  PROVE  Aged'
<1> USE AgedTypes
<1>1. /\ queue' = queue /\ tasks' = tasks /\ UNCHANGED <<micro, step, resampled>>
      /\ lastLoaded' = (IF LoadEnd THEN [lastLoaded EXCEPT ![Main] = step] ELSE lastLoaded)
  BY DEF WaitQueue, TrainingStep, EvalBegin, EvalEnd, LoadEnd, clockVars
<1>2. CASE WaitQueue(Main)
  <2>1. pc[Main] = "waitq" /\ pc'[Main] = "load" /\ UNCHANGED <<inEval, served>>
    BY <1>2 DEF WaitQueue, Goto, TypeOK, trainerVars
  <2>2. \A i : VerAt(i)' = VerAt(i)
    BY <1>1, <2>1 DEF VerAt, Newest, Oldest, Generating
  <2>3. Clock'
    BY <1>1, <2>1 DEF Aged, Clock, Generating
  <2>4. QED BY <1>1, <2>1, <2>2, <2>3, AgesMove DEF Aged
<1>3. CASE TrainingStep(Main)
  <2>1. /\ pc[Main] = "step" /\ UNCHANGED <<inEval, served>> /\ ~inEval[Main]
        /\ pc'[Main] = IF micro % GenerateEvery = 0 THEN FastInfer(Main) ELSE "compute"
    BY <1>3 DEF TrainingStep, Goto, TypeOK, trainerVars, Delivery, Place
  <2>2. resampled = 0
    BY <2>1 DEF Aged, Clock, Generating
  <2>3. \A i : VerAt(i)' = VerAt(i)
    BY <1>1, <2>1, <2>2, Generations DEF VerAt, Newest, Oldest, Generating, FastInfer
  <2>4. Clock'
    BY <1>1, <2>1, <2>2 DEF Aged, Clock, Generating, FastInfer, Weights
  <2>5. QED BY <1>1, <2>1, <2>3, <2>4, AgesMove DEF Aged, FastInfer
<1>4. CASE EvalBegin(Main)
  <2>1. /\ pc[Main] = "evalwait" /\ UNCHANGED <<inEval, served>> /\ inEval[Main]
        /\ pc'[Main] \in {"prefetch", FastInfer(Main)}
    BY <1>4 DEF EvalBegin, Goto, TypeOK, trainerVars, Delivery, Place
  <2>2. \A i : VerAt(i)' = VerAt(i)
    BY <1>1, <2>1 DEF VerAt, Newest, Oldest, Generating, FastInfer
  <2>3. Clock'
    BY <1>1, <2>1 DEF Aged, Clock, Generating, FastInfer, Weights
  <2>4. QED BY <1>1, <2>1, <2>2, <2>3, AgesMove DEF Aged, FastInfer
<1>5. CASE EvalEnd(Main)
  <2>1. /\ pc[Main] = "evalend" /\ UNCHANGED served /\ inEval[Main] /\ ~inEval'[Main]
        /\ pc'[Main] \in {"step", "done"}
    BY <1>5 DEF EvalEnd, Goto, TypeOK, NextStep, Delivery, Place
  <2>2. \A i : VerAt(i)' = VerAt(i)
    BY <1>1, <2>1 DEF VerAt, Newest, Oldest, Generating
  <2>3. Clock'
    BY <1>1, <2>1 DEF Aged, Clock, Generating
  <2>4. QED BY <1>1, <2>1, <2>2, <2>3, AgesMove DEF Aged
<1>6. CASE LoadEnd
  <2>1. /\ UNCHANGED inEval /\ served' = step /\ tasks[Main] = << >>
        /\ \/ pc[Main] = "loading" /\ pc'[Main] = "gather"
           \/ pc[Main] = "preloading" /\ pc'[Main] = "preinfer"
    BY <1>6 DEF LoadEnd, Goto, TypeOK, trainerVars, Delivery, Place
  <2>2. \A i : VerAt(i)' = VerAt(i)
    BY <1>1, <2>1 DEF VerAt, Newest, Oldest, Generating
  <2>3. Clock'
    BY <1>1, <2>1 DEF Aged, Clock, Generating
  <2>4. QED BY <1>1, <2>1, <2>2, <2>3, AgesMove DEF Aged
<1>7. QED BY <1>2, <1>3, <1>4, <1>5, <1>6

(* The joint steps other than a submission.                                 *)
LEMMA AgedJointMoves ==
  ASSUME TypeOK, Weights, Delivery(Main), Aged,
         PrefetchGather \/ LoadBegin \/ Resample \/ BatchReady \/ EvalBatch \/ Backward
  PROVE  Aged'
<1> USE AgedTypes
<1>1. queue' = queue /\ tasks' = tasks /\ served' = served
  BY DEF PrefetchGather, LoadBegin, Resample, BatchReady, EvalBatch, Backward
<1>2. CASE PrefetchGather \/ LoadBegin
  <2>1. /\ UNCHANGED <<inEval, micro, step, resampled>>
        /\ \/ pc[Main] = "prefetch" /\ pc'[Main] = "preload"
           \/ pc[Main] = "prefetch" /\ pc'[Main] = "preinfer" /\ lastLoaded[Main] = step
           \/ pc[Main] = "load" /\ pc'[Main] = "loading"
           \/ pc[Main] = "preload" /\ pc'[Main] = "preloading"
    BY <1>2 DEF PrefetchGather, LoadBegin, AllAt, trainerVars, clockVars
  <2>2. \A i : VerAt(i)' = VerAt(i)
    BY <2>1 DEF VerAt, Newest, Oldest, Generating
  <2>3. Clock'
    BY <1>1, <2>1 DEF Aged, Clock, Generating, Weights
  <2>4. QED BY <1>1, <2>1, <2>2, <2>3, AgesMove DEF Aged
<1>3. CASE Resample
  <2>1. /\ pc[Main] = "scatter" /\ ~inEval[Main] /\ pc'[Main] = FastInfer(Main)
        /\ UNCHANGED <<inEval, micro, step>> /\ resampled' = resampled + 1
    BY <1>3 DEF Resample, AllAt, trainerVars
  <2>2. resampled' > 0
    BY <2>1
  <2>3. \A i : VerAt(i)' = VerAt(i)
    BY <2>1, <2>2 DEF VerAt, Newest, Oldest, Generating, FastInfer
  <2>4. Clock'
    BY <1>1, <2>1 DEF Aged, Clock, Generating, FastInfer, Weights
  <2>5. QED BY <1>1, <2>1, <2>3, <2>4, AgesMove DEF Aged, FastInfer
<1>4. CASE BatchReady
  <2>1. /\ pc[Main] = "scatter" /\ ~inEval[Main] /\ pc'[Main] = "compute"
        /\ UNCHANGED <<inEval, micro, step>> /\ resampled' = 0
    BY <1>4 DEF BatchReady, AllAt, AllGoto, trainerVars
  <2>2. step = Generated(micro)
    BY <2>1, Generations DEF Aged, Clock, Generating
  <2>3. \A i : VerAt(i)' = VerAt(i)
    BY <2>1, <2>2 DEF VerAt, Newest, Oldest, Generating, Generated
  <2>4. Clock'
    BY <1>1, <2>1 DEF Aged, Clock, Generating
  <2>5. QED BY <1>1, <2>1, <2>3, <2>4, AgesMove DEF Aged
<1>5. CASE EvalBatch
  <2>1. /\ pc[Main] = "scatter" /\ inEval[Main] /\ pc'[Main] \in {"evalend", FastInfer(Main)}
        /\ UNCHANGED <<inEval, micro, step, resampled>>
    BY <1>5 DEF EvalBatch, AllAt, trainerVars
  <2>2. \A i : VerAt(i)' = VerAt(i)
    BY <2>1 DEF VerAt, Newest, Oldest, Generating, FastInfer
  <2>3. Clock'
    BY <1>1, <2>1 DEF Aged, Clock, Generating, FastInfer, Weights
  <2>4. QED BY <1>1, <2>1, <2>2, <2>3, AgesMove DEF Aged, FastInfer
<1>6. CASE Backward
  <2>1. /\ pc[Main] = "compute" /\ pc'[Main] \in {"evalwait", "step", "done"} /\ ~inEval[Main]
        /\ micro' = micro + 1 /\ resampled' = resampled
        /\ step' = IF (micro + 1) % MicroPerStep = 0 THEN step + 1 ELSE step
    BY <1>6 DEF Backward, AllAt, AllGoto, NextStep, Delivery, Place
  <2>2. Before(micro') = Generated(micro)
    BY <2>1, Generations
  <2>3. step' = micro' \div MicroPerStep
    BY <2>1, Successor DEF Aged, Clock
  <2>4. resampled = 0
    BY <2>1 DEF Aged, Clock, Generating
  <2>5. \A i : VerAt(i)' = VerAt(i)
    BY <2>1, <2>2 DEF VerAt, Newest, Oldest, Generating, Before
  <2>6. Clock'
    BY <1>1, <2>1, <2>3, <2>4 DEF Aged, Clock, Generating
  <2>7. QED BY <1>1, <2>1, <2>5, <2>6, AgesMove DEF Aged
<1>7. QED BY <1>2, <1>3, <1>4, <1>5, <1>6

(* The train batches that are out, counted.                                 *)
LEMMA TrainOut ==
  ASSUME TypeOK, Delivery(Main), NEW l \in Nat, l = Len(queue[Main]["train"]),
         NEW n \in Nat, n = Len(tasks[Main])
  PROVE  Only(Main, "train") => l + n = Due(Main, "train")
BY AgedTypes DEF Delivery, Lined, Kind, Out, InExecutor

LEMMA AgedPrefetchPut ==
  ASSUME TypeOK, ~EvalOnStart, Weights, Delivery(Main), Aged, PrefetchPut(Main)
  PROVE  Aged'
<1> USE AgedTypes
<1>1. /\ pc[Main] = "preinfer" /\ UNCHANGED <<inEval, served, micro, step, resampled>>
      /\ pc'[Main] = (IF inEval[Main] THEN FastInfer(Main) ELSE "step")
      /\ tasks'[Main] = tasks[Main] /\ tasks[Main] = << >>
  BY DEF PrefetchPut, Goto, TypeOK, clockVars, Delivery, Place
<1>2. Clock'
  BY <1>1 DEF Aged, Clock, Generating, FastInfer, Weights
<1>3. CASE inEval[Main]
  <2>1. queue'[Main]["train"] = queue[Main]["train"]
    BY <1>3 DEF PrefetchPut, Put, Rollout, Current, TypeOK, Delivery, Place, Kind
  <2>2. \A i : VerAt(i)' = VerAt(i)
    BY <1>1, <1>3 DEF VerAt, Newest, Oldest, Generating, FastInfer
  <2>3. QED BY <1>1, <1>2, <1>3, <2>1, <2>2, AgesMove DEF Aged
<1>4. CASE ~inEval[Main]
  <2> DEFINE q == queue[Main]["train"]
  <2>1. PICK x \in Result : x.ver = served /\ queue'[Main]["train"] = Append(q, x)
    <3>1. Current(Main) = "train" /\ sent["train"] \in Nat /\ "train" \in Kind
      BY <1>4 DEF Current, Delivery, Place, TypeOK, Kind
    <3>2. /\ Rollout(Main, "train", sent["train"]) \in Result
          /\ Rollout(Main, "train", sent["train"]).ver = served
          /\ Rollout(Main, "train", sent["train"]).kind = "train"
      BY <3>1, RolloutLemma DEF Rollout
    <3>3. queue'[Main]["train"] = Append(q, Rollout(Main, "train", sent["train"]))
      BY <3>1, <3>2 DEF PrefetchPut, Put, TypeOK
    <3>4. QED BY <3>2, <3>3
  <2>2. q \in Seq(Result) /\ q = << >>
    <3>1. PICK l \in Nat, n \in Nat : l = Len(q) /\ n = Len(tasks[Main])
      BY RankTypes DEF Kind
    <3>2. l + n = 0
      <4>1. Only(Main, "train") /\ Due(Main, "train") = 0
        BY <1>1, <1>4 DEF Only, Due, Current, Delivery, Place
      <4>2. QED BY <3>1, <4>1, TrainOut
    <3>3. l = 0 /\ "train" \in Kind
      BY <3>2 DEF Kind
    <3>4. QED BY <3>1, <3>3, RankTypes
  <2>3. Len(queue'[Main]["train"]) = 1 /\ queue'[Main]["train"][1] = x
    BY <2>1, <2>2
  <2>4. served = 0
    <3>1. 0 \div MicroPerStep = 0
      BY Generations DEF Before, Generated
    <3>2. QED BY <1>1, <1>4, <3>1 DEF Aged, Clock
  <2>5. VerAt(1)' = 0
    BY <1>1, <1>4 DEF VerAt, Newest, Oldest, Generating, Before, Aged, Clock
  <2>6. 1 .. Len(tasks'[Main]) = {}
    BY <1>1
  <2>7. pc'[Main] # "scatter"
    BY <1>1, <1>4
  <2>8. Ages'
    BY <2>1, <2>3, <2>4, <2>5, <2>6, <2>7 DEF Ages
  <2>9. QED BY <1>2, <2>8 DEF Aged
<1>5. QED BY <1>3, <1>4

LEMMA AgedFinish ==
  ASSUME TypeOK, Delivery(Main), Aged, NEW res \in Result, Finishes(Main, res), res.ver = served,
         UNCHANGED <<served, micro, step, resampled>>
  PROVE  Aged'
<1> USE AgedTypes
<1> DEFINE q == queue[Main]["train"]
<1>1. /\ pc'[Main] = pc[Main] /\ inEval'[Main] = inEval[Main] /\ got'[Main] = got[Main]
      /\ tasks[Main] # << >> /\ tasks'[Main] = Tail(tasks[Main]) /\ res.kind = Head(tasks[Main]).kind
  BY DEF Finishes
<1>2. /\ \A i : VerAt(i)' = VerAt(i)
      /\ Oldest' = Oldest
  BY <1>1 DEF VerAt, Newest, Oldest, Generating
<1>3. Clock'
  BY <1>1 DEF Aged, Clock, Generating
<1>4. PICK n \in Nat, l \in Nat : n = Len(tasks[Main]) /\ l = Len(q)
  BY RankTypes DEF Kind
<1>5. tasks[Main] \in Seq(Task) /\ q \in Seq(Result)
  BY RankTypes DEF Kind
<1>6. /\ n >= 1 /\ Len(tasks'[Main]) = n - 1
      /\ DOMAIN tasks[Main] = 1 .. n /\ DOMAIN tasks'[Main] = 1 .. n - 1
      /\ \A i \in 1 .. n - 1 : tasks'[Main][i] = tasks[Main][i + 1] /\ i + 1 \in 1 .. n
      /\ res.kind = tasks[Main][1].kind /\ 1 \in 1 .. n
  BY <1>1, <1>4, <1>5, TailFacts
<1>7. CASE Only(Main, "train")
  <2>1. \A i \in 1 .. n : served = VerAt(l + i)
    BY <1>4, <1>7 DEF Aged, Ages
  <2>2. \A i \in 1 .. l : q[i].ver = VerAt(i)
    BY <1>4 DEF Aged, Ages
  <2>3. res.kind = "train"
    BY <1>6, <1>7 DEF Only
  <2>4. queue'[Main]["train"] = Append(q, res)
    BY <2>3 DEF Finishes, Kind
  <2>5. /\ Len(queue'[Main]["train"]) = l + 1 /\ queue'[Main]["train"][l + 1] = res
        /\ \A i \in 1 .. l : queue'[Main]["train"][i] = q[i]
    BY <1>4, <1>5, <2>4, AppendFacts
  <2>6. \A i \in 1 .. l + 1 : queue'[Main]["train"][i].ver = VerAt(i)
    <3>1. SUFFICES ASSUME NEW i \in 1 .. l + 1 PROVE queue'[Main]["train"][i].ver = VerAt(i)
      OBVIOUS
    <3>2. CASE i = l + 1
      BY <1>6, <2>1, <2>5, <3>2
    <3>3. CASE i # l + 1
      <4>1. i \in 1 .. l
        BY <3>3
      <4>2. QED BY <2>2, <2>5, <4>1
    <3>4. QED BY <3>2, <3>3
  <2>7. \A i \in 1 .. n - 1 : served = VerAt((l + 1) + i)
    <3>1. SUFFICES ASSUME NEW i \in 1 .. n - 1 PROVE served = VerAt((l + 1) + i)
      OBVIOUS
    <3>2. i + 1 \in 1 .. n /\ (l + 1) + i = l + (i + 1)
      OBVIOUS
    <3>3. QED BY <2>1, <3>2
  <2>8. Ages'
    BY <1>1, <1>2, <1>6, <2>5, <2>6, <2>7 DEF Aged, Ages
  <2>9. QED BY <1>3, <2>8 DEF Aged
<1>8. CASE ~Only(Main, "train")
  <2>1. Only(Main, "eval") /\ res.kind = "eval"
    BY <1>6, <1>8, OneKind DEF Delivery, Kind, Only
  <2>2. queue'[Main]["train"] = q
    BY <2>1 DEF Finishes, Kind
  <2>3. Only(Main, "train")' => 1 .. Len(tasks'[Main]) = {}
    <3>1. SUFFICES ASSUME Only(Main, "train")', n - 1 >= 1 PROVE FALSE
      BY <1>4, <1>6
    <3>2. 1 \in 1 .. n - 1 /\ 1 + 1 \in 1 .. n
      BY <3>1
    <3>3. tasks'[Main][1] = tasks[Main][1 + 1]
      BY <1>6, <3>2
    <3>4. tasks'[Main][1].kind = "train" /\ tasks[Main][1 + 1].kind = "eval"
      BY <1>6, <2>1, <3>1, <3>2 DEF Only
    <3>5. QED BY <3>3, <3>4
  <2>4. Ages'
    BY <1>1, <1>2, <2>2, <2>3 DEF Aged, Ages
  <2>5. QED BY <1>3, <2>4 DEF Aged
<1>9. QED BY <1>7, <1>8

LEMMA AgedTake ==
  ASSUME TypeOK, Delivery(Main), Aged, Take(Main)
  PROVE  Aged'
<1> USE AgedTypes
<1> DEFINE q == queue[Main]["train"]
<1>1. /\ pc[Main] = "get" /\ pc'[Main] = "scatter"
      /\ UNCHANGED <<inEval, tasks, served, micro, step, resampled>>
  BY DEF Take, Goto, TypeOK, trainerVars, clockVars
<1>2. Clock'
  BY <1>1 DEF Aged, Clock, Generating
<1>3. CASE inEval[Main]
  <2>1. Current(Main) = "eval"
    BY <1>3 DEF Current, Delivery, Place
  <2>2. queue'[Main]["train"] = q
    BY <2>1 DEF Take, TypeOK, Kind
  <2>3. \A i : VerAt(i)' = VerAt(i)
    BY <1>1, <1>3 DEF VerAt, Newest, Oldest, Generating
  <2>4. QED BY <1>1, <1>2, <1>3, <2>2, <2>3, AgesMove DEF Aged
<1>4. CASE ~inEval[Main]
  <2>1. Current(Main) = "train" /\ Only(Main, "train") /\ "train" \in Kind
    BY <1>1, <1>4 DEF Current, Delivery, Place, Kind
  <2>2. /\ q \in Seq(Result) /\ q # << >>
        /\ queue'[Main]["train"] = Tail(q) /\ got'[Main] = Head(q)
    BY <2>1, RankTypes DEF Take, TypeOK
  <2>3. PICK n \in Nat, l \in Nat : n = Len(tasks[Main]) /\ l = Len(q)
    BY RankTypes DEF Kind
  <2>4. /\ l >= 1 /\ Len(queue'[Main]["train"]) = l - 1
        /\ \A i \in 1 .. l - 1 : queue'[Main]["train"][i] = q[i + 1] /\ i + 1 \in 1 .. l
        /\ got'[Main] = q[1] /\ 1 \in 1 .. l
    BY <2>2, <2>3, TailFacts
  <2>5. /\ \A i : i # 1 => VerAt(i) = step
        /\ \A i : VerAt(i)' = step
        /\ VerAt(1) = Oldest /\ Oldest' = Oldest
    BY <1>1, <1>4 DEF VerAt, Newest, Oldest, Generating
  <2>6. \A i \in 1 .. l - 1 : queue'[Main]["train"][i].ver = VerAt(i)'
    <3>1. SUFFICES ASSUME NEW i \in 1 .. l - 1 PROVE queue'[Main]["train"][i].ver = VerAt(i)'
      OBVIOUS
    <3>2. i + 1 # 1 /\ i + 1 \in 1 .. l
      BY <2>4
    <3>3. q[i + 1].ver = VerAt(i + 1)
      BY <2>3, <3>2 DEF Aged, Ages
    <3>4. VerAt(i + 1) = step
      BY <2>5, <3>2
    <3>5. QED BY <2>4, <2>5, <3>3, <3>4
  <2>7. \A i \in 1 .. n : served = VerAt((l - 1) + i)'
    <3>1. SUFFICES ASSUME NEW i \in 1 .. n PROVE served = VerAt((l - 1) + i)'
      OBVIOUS
    <3>2. served = VerAt(l + i) /\ l + i # 1
      BY <2>1, <2>3, <2>4 DEF Aged, Ages
    <3>3. QED BY <2>5, <3>2
  <2>8. got'[Main].ver = Oldest'
    BY <2>3, <2>4, <2>5 DEF Aged, Ages
  <2>9. Ages'
    BY <1>1, <2>3, <2>4, <2>6, <2>7, <2>8 DEF Ages
  <2>10. QED BY <1>2, <2>9 DEF Aged
<1>5. QED BY <1>3, <1>4

LEMMA AgedSubmit ==
  ASSUME TypeOK, Delivery(Main), Aged, Submit
  PROVE  Aged'
<1> USE AgedTypes
<1> DEFINE q == queue[Main]["train"]
<1>1. /\ pc[Main] = "gather" /\ pc'[Main] = "get"
      /\ UNCHANGED <<inEval, queue, served, micro, step, resampled>>
  BY DEF Submit, AllAt, AllGoto, trainerVars, clockVars
<1>2. Clock'
  BY <1>1 DEF Aged, Clock, Generating
<1>3. PICK n \in Nat, l \in Nat : n = Len(tasks[Main]) /\ l = Len(q)
  BY RankTypes DEF Kind
<1>4. PICK x \in Task : x.kind = Current(Main) /\ tasks'[Main] = Append(tasks[Main], x)
  <2> DEFINE x == [kind |-> Current(Main), no |-> sent'[Current(Main)]]
  <2>1. PICK c \in Kind : c = Current(Main)
    BY RankTypes
  <2>2. sent'[c] \in Nat
    <3>1. sent[c] \in Nat /\ sent' = [sent EXCEPT ![c] = sent[c] + 1] /\ sent \in [Kind -> Nat]
      BY <2>1 DEF Submit, TypeOK
    <3>2. QED BY <2>1, <3>1
  <2>3. x \in Task
    BY <2>1, <2>2 DEF Task
  <2>4. QED BY <2>3 DEF Submit
<1>5. /\ tasks[Main] \in Seq(Task) /\ Len(tasks'[Main]) = n + 1
      /\ DOMAIN tasks'[Main] = 1 .. n + 1 /\ tasks'[Main][n + 1] = x
      /\ DOMAIN tasks[Main] = 1 .. n /\ \A i \in 1 .. n : tasks'[Main][i] = tasks[Main][i]
  BY <1>3, <1>4, RankTypes, AppendFacts
<1>6. CASE inEval[Main]
  <2>1. ~Only(Main, "train")'
    <3>1. n + 1 \in 1 .. n + 1 /\ x.kind = "eval"
      BY <1>4, <1>6 DEF Current, Delivery, Place
    <3>2. QED BY <1>5, <3>1 DEF Only
  <2>2. \A i : VerAt(i)' = VerAt(i)
    BY <1>1, <1>6 DEF VerAt, Newest, Oldest, Generating
  <2>3. Ages'
    BY <1>1, <2>1, <2>2 DEF Aged, Ages
  <2>4. QED BY <1>2, <2>3 DEF Aged
<1>7. CASE ~inEval[Main]
  <2>1. l + n = 1
    <3>1. Current(Main) = "train" /\ Only(Main, "train") /\ "train" \in Kind
      BY <1>1, <1>7 DEF Current, Delivery, Place, Kind
    <3>2. Due(Main, "train") = 1
      BY <1>1 DEF Due
    <3>3. QED BY <1>3, <3>1, <3>2, TrainOut
  <2>2. /\ VerAt(1) = Oldest /\ VerAt(1)' = Oldest
        /\ \A i : i # 1 => VerAt(i)' = step
    BY <1>1, <1>7 DEF VerAt, Newest, Oldest, Generating
  <2>3. served = step
    BY <1>1 DEF Aged, Clock
  <2>4. \A i \in 1 .. l : q[i].ver = VerAt(i)'
    <3>1. SUFFICES ASSUME NEW i \in 1 .. l PROVE q[i].ver = VerAt(i)'
      OBVIOUS
    <3>2. i = 1
      BY <2>1
    <3>3. QED BY <1>3, <2>2, <3>2 DEF Aged, Ages
  <2>5. \A i \in 1 .. n + 1 : served = VerAt(l + i)'
    <3>1. SUFFICES ASSUME NEW i \in 1 .. n + 1 PROVE served = VerAt(l + i)'
      OBVIOUS
    <3>2. CASE l + i # 1
      BY <2>2, <2>3, <3>2
    <3>3. CASE l + i = 1
      <4>1. i \in 1 .. n
        BY <2>1, <3>3
      <4>2. Only(Main, "train")
        BY <1>1, <1>7 DEF Current, Delivery, Place
      <4>3. served = VerAt(l + i)
        BY <1>3, <4>1, <4>2 DEF Aged, Ages
      <4>4. QED BY <2>2, <3>3, <4>3
    <3>4. QED BY <3>2, <3>3
  <2>6. Ages'
    BY <1>1, <1>3, <1>5, <2>4, <2>5 DEF Ages
  <2>7. QED BY <1>2, <2>6 DEF Aged
<1>8. QED BY <1>6, <1>7

-----------------------------------------------------------------------------
LEMMA InitAged == ASSUME Init PROVE Aged
<1>1. /\ pc[Main] = "prefetch" /\ ~inEval[Main] /\ tasks[Main] = << >>
      /\ queue[Main]["train"] = << >> /\ micro = 0 /\ step = 0 /\ resampled = 0
  BY ConstantsAssumption DEF Init, Kind
<1>2. 0 \div MicroPerStep = 0
  <2>1. MicroPerStep \in Nat /\ MicroPerStep >= 1
    BY ConstantsAssumption
  <2>2. 0 = 0 * MicroPerStep + 0 /\ 0 \in 0 .. MicroPerStep - 1
    BY <2>1
  <2>3. QED BY <2>1, <2>2, Quotient
<1>3. Clock
  BY <1>1, <1>2 DEF Clock, Generating
<1>4. 1 .. Len(tasks[Main]) = {} /\ 1 .. Len(queue[Main]["train"]) = {}
  BY <1>1
<1>5. Ages
  BY <1>1, <1>4 DEF Ages
<1>6. QED BY <1>3, <1>5 DEF Aged

(* A step of the main rank's executor.                                      *)
LEMMA AgedExecutor ==
  ASSUME TypeOK, Shape, Delivery(Main), Aged, RolloutBegin \/ RolloutEnd
  PROVE  Aged'
<1>1. CASE RolloutBegin
  BY <1>1, AgedFrame DEF RolloutBegin, trainerVars, clockVars
<1>2. CASE RolloutEnd
  <2> DEFINE t == Head(tasks[Main])
             res == Rollout(Main, t.kind, t.no)
  <2>0. tasks[Main] # << >> /\ Main \in Rank
    BY <1>2, Lengths DEF RolloutEnd, Shape
  <2>1. /\ tasks' = [tasks EXCEPT ![Main] = Tail(@)] /\ Put(Main, res)
        /\ UNCHANGED <<pc, inEval, shouldEvaluate, evalFlag, got, sent, served, micro, step, resampled>>
    BY <1>2 DEF RolloutEnd, trainerVars, clockVars
  <2>2. t \in Task
    BY <2>0, <2>1, PopLemma
  <2>3. res \in Result /\ res.kind = t.kind /\ res.no = t.no /\ res.ver = served
    BY <2>0, <2>2, RolloutLemma DEF Task, Rollout
  <2>4. tasks'[Main] = Tail(tasks[Main])
    BY <2>0, <2>1 DEF TypeOK
  <2>5. \A k \in Kind : queue'[Main][k] =
          IF k = res.kind THEN Append(queue[Main][k], res) ELSE queue[Main][k]
    BY <2>0, <2>1, <2>3 DEF Put, TypeOK, Result
  <2>6. Finishes(Main, res)
    BY <2>0, <2>1, <2>3, <2>4, <2>5 DEF Finishes
  <2>7. QED BY <2>1, <2>3, <2>6, AgedFinish
<1>3. QED BY <1>1, <1>2

(* What is of the main rank does not change in another rank's own step.     *)
LEMMA AgedOther ==
  ASSUME TypeOK, ~EvalOnStart, NEW r \in Rank, r # Main, Aged, MainThread(r) \/ Executor(r)
  PROVE  Aged'
<1>1. /\ Main \in Rank /\ pc \in [Rank -> PC] /\ inEval \in [Rank -> BOOLEAN]
      /\ queue \in [Rank -> [Kind -> Seq(Result)]] /\ tasks \in [Rank -> Seq(Task)]
      /\ got \in [Rank -> Result]
  BY Lengths DEF TypeOK
<1>2. /\ pc'[Main] = pc[Main] /\ inEval'[Main] = inEval[Main] /\ got'[Main] = got[Main]
      /\ UNCHANGED <<served, micro, step, resampled>>
  BY <1>1 DEF MainThread, Executor, PrefetchPut, WaitQueue, Take, TrainingStep, EvalBegin, EvalEnd,
       EmptyTask, Goto, trainerVars, clockVars
<1>3. queue'[Main] = queue[Main]
  <2>1. CASE PrefetchPut(r) \/ EmptyTask(r)
    BY <1>1, <2>1 DEF PrefetchPut, EmptyTask, Put
  <2>2. CASE Take(r)
    BY <1>1, <2>2 DEF Take
  <2>3. CASE UNCHANGED queue
    BY <2>3
  <2>4. QED BY <2>1, <2>2, <2>3 DEF MainThread, Executor, WaitQueue, TrainingStep, EvalBegin, EvalEnd
<1>4. tasks'[Main] = tasks[Main]
  <2>1. CASE EmptyTask(r)
    BY <1>1, <2>1 DEF EmptyTask
  <2>2. CASE UNCHANGED tasks
    BY <2>2
  <2>3. QED BY <2>1, <2>2 DEF MainThread, Executor, PrefetchPut, WaitQueue, Take, TrainingStep,
                 EvalBegin, EvalEnd
<1>5. QED BY <1>2, <1>3, <1>4, AgedFrame

LEMMA NextAged ==
  ASSUME IInv, Weights, DInv, Aged, ~EvalOnStart, ~MayFail, [Next]_vars PROVE Aged'
<1> USE DEF IInv
<1>1. Main \in Rank /\ Delivery(Main)
  BY Lengths DEF DInv
<1>2. ASSUME NEW r \in Rank, MainThread(r) \/ Executor(r) PROVE Aged'
  <2>1. CASE r # Main
    BY <1>2, <2>1, AgedOther
  <2>2. CASE r = Main
    <3>1. CASE MainThread(Main)
      BY <1>1, <3>1, AgedPrefetchPut, AgedTake, AgedMoves DEF MainThread
    <3>2. CASE Executor(Main)
      BY <1>1, <3>2, AgedExecutor DEF Executor, EmptyTask, RolloutFail
    <3>3. QED BY <1>2, <2>2, <3>1, <3>2
  <2>3. QED BY <2>1, <2>2
<1>3. CASE Collective
  BY <1>1, <1>3, AgedSubmit, AgedJointMoves DEF Collective
<1>4. CASE LoadEnd
  BY <1>1, <1>4, AgedMoves
<1>5. CASE UNCHANGED vars
  BY <1>5, AgedFrame DEF vars, trainerVars, clockVars
<1>6. QED BY <1>2, <1>3, <1>4, <1>5 DEF Next, Terminated

(* A train batch was generated with the weights of the previous generation, *)
(* or with the current ones when _dynamic_sampling asked for another batch, *)
(* whatever the schedules of generations, updates and evaluations are.      *)
THEOREM OneGenerationOld == ~EvalOnStart /\ ~MayFail /\ Spec => []TrainStaleness
<1>1. SUFFICES ASSUME ~EvalOnStart, ~MayFail PROVE Spec => []TrainStaleness
  OBVIOUS
<1>2. IInv /\ [Next]_vars => IInv'
  BY <1>1, NextIInv
<1>3. IInv /\ Weights /\ [Next]_vars => Weights'
  BY NextWeights
<1>4. IInv /\ DInv /\ [Next]_vars => DInv'
  BY <1>1, NextDInv
<1>5. IInv /\ Weights /\ DInv /\ Aged /\ [Next]_vars => Aged'
  BY <1>1, NextAged
<1>6. IInv /\ Aged => TrainStaleness
  <2>1. SUFFICES ASSUME IInv, Aged, pc[Main] = "scatter", ~inEval[Main]
                 PROVE  got[Main].ver =
                          IF resampled > 0 THEN step
                          ELSE (IF micro < GenerateEvery THEN 0 ELSE micro - GenerateEvery) \div MicroPerStep
    BY DEF TrainStaleness
  <2>2. got[Main].ver = Oldest /\ micro % GenerateEvery = 0
    BY <2>1 DEF Aged, Ages, Clock, Generating
  <2>3. micro \in Nat
    BY <2>1, AgedTypes DEF IInv
  <2>4. QED BY <2>2, <2>3, Generations DEF Oldest
<1>7. QED BY <1>2, <1>3, <1>4, <1>5, <1>6, InitIInv, InitWeights, InitDInv, InitAged, PTL DEF Spec

-----------------------------------------------------------------------------
(* Multi-turn rollouts (MultiTurn): the inductive invariant.                *)
Bit == {0, 1}

Token(q) == {q} \X Nat \X Nat
Spoken(q) == [role : {"user", "assistant", "dummy"}, content : Seq(Token(q))]
Conversation(q) ==
  [turn : Nat \ {0}, messages : Seq(Spoken(q)), ids : Seq(Seq(Token(q))), mask : Seq(Seq(Bit)),
   logps : Seq(Seq(Token(q))), last : Seq(Token(q)), over : BOOLEAN]

(* The mask of a turn selects the tokens that were sampled.                 *)
Selects(mask, ids) == Len(mask) = Len(ids) /\ \A k \in 1..Len(ids) : mask[k] = 1 <=> ids[k][3] # 0

OnlySampled(content) == \A k \in 1..Len(content) : content[k][3] # 0

(* The tokens of the turns are the contents of the last messages said.      *)
Aligned(said, ids, mask) ==
  /\ Len(mask) = Len(ids) /\ Len(ids) <= Len(said)
  /\ \A j \in 1..Len(ids) :
       Selects(mask[j], ids[j]) /\ ids[j] = said[Len(said) - Len(ids) + j].content
  /\ \A t \in 1..Len(said) - Len(ids) : OnlySampled(said[t].content)

(* The log probabilities of each turn are those of its sampled tokens.      *)
Fit(ids, mask, logps) ==
  Len(logps) = Len(ids) /\ \A j \in 1..Len(ids) : logps[j] = Chosen(ids[j], mask[j])

Ends(s, x) == Len(s) >= Len(x) /\ \A k \in 1..Len(x) : s[Len(s) - Len(x) + k] = x[k]

(* A conversation that goes on: the user spoke last, or what was said is    *)
(* to be continued.                                                         *)
Asked(a, c) ==
  /\ Last(c.messages).role = "user"
  /\ c.ids = << >> \/ (a.mode = "colocate" /\ a.scheduler \notin {"tips", "thinking"})

Extends(a, c) ==
  /\ Len(c.messages) > 1 /\ Last(c.messages).role = "dummy"
  /\ c.messages[Len(c.messages) - 1].role = "assistant"
  /\ c.ids # << >> /\ c.turn # 1 /\ a.scheduler \in {"tips", "tool"}

GoesOn(a, c) ==
  /\ Asked(a, c) \/ Extends(a, c)
  /\ IF a.logprobs THEN a.scheduler = "thinking" \/ Fit(c.ids, c.mask, c.logps) ELSE c.logps = << >>

IsOver(a, c) ==
  /\ c.ids # << >>
  /\ c.logps # << >> => Fit(c.ids, c.mask, c.logps)
  /\ IF a.logprobs THEN Ends(Chosen(c.ids[Len(c.ids)], c.mask[Len(c.ids)]), c.last)
                   ELSE c.logps = << >> /\ c.last = << >>

Sound(a, q, c) ==
  /\ c \in Conversation(q)
  /\ Aligned(Said(c.messages), c.ids, c.mask)
  /\ IF c.over THEN IsOver(a, c) ELSE GoesOn(a, c)

(* The sample i of rank r is as TurnsInPlace and LogprobsFit say.           *)
InPlace(q, s) ==
  /\ ~s.refused
  /\ \A t \in DOMAIN s.turns :
       /\ s.turns[t].ids = s.turns[t].text
       /\ \A k \in DOMAIN s.turns[t].ids :
            s.turns[t].ids[k][1] = q /\ (s.turns[t].mask[k] = 1 <=> s.turns[t].ids[k][3] # 0)

Stands(s) == Scattered(s) \in {<< >>, Trained(s)}

(* The answers a rank has still to process are to the last of its pending   *)
(* requests, which are not over.                                            *)
AnswersTo(r) ==
  LET ahead == Len(pending[r]) - Len(outputs[r])
  IN  /\ outputs[r] \in Seq(Seq(Request \X Nat \X Nat)) /\ ahead >= 0
      /\ \A k \in 1..Len(outputs[r]) :
           LET q == pending[r][ahead + k]
           IN  ~conv[q].over /\ \E n \in TurnTokens[q] : outputs[r][k] = Sampled(q, conv[q].turn, n)

Distinct(s) == \A i, j \in 1..Len(s) : s[i] = s[j] => i = j

Pendings(r) ==
  /\ pending[r] \in Seq({r} \X (1..Local)) /\ Distinct(pending[r])
  /\ \A i \in 1..Local : ~conv[<<r, i>>].over => \E j \in 1..Len(pending[r]) : pending[r][j] = <<r, i>>
  /\ args.mode = "server" => pending[r] = Own(r)

Placed(r) ==
  /\ at[r] \in IF args.mode = "server" THEN {"rollout", "wait", "encode", "done"}
                                      ELSE {"rollout", "gather", "process", "encode", "done"}
  /\ at[r] \in {"rollout", "gather"} => \A j \in 1..Len(pending[r]) : ~conv[pending[r][j]].over
  /\ at[r] = "gather" => Len(outputs[r]) = Len(pending[r])
  /\ at[r] \in {"gather", "process"} => AnswersTo(r)
  /\ at[r] \in {"encode", "done"} =>
       \A i \in 1..Local : Sound(args, <<r, i>>, results[r][i]) /\ results[r][i].over
  /\ at[r] = "done" => \A i \in 1..Local : InPlace(<<r, i>>, batch[r][i]) /\ Stands(batch[r][i])

TurnsShape ==
  /\ args \in Args
  /\ DOMAIN conv = Request
  /\ pending \in [Member -> Seq(Request)]
  /\ DOMAIN at = Member /\ DOMAIN outputs = Member
  /\ DOMAIN results = Member /\ DOMAIN batch = Member

TurnsInv ==
  /\ TurnsShape
  /\ \A q \in Request : Sound(args, q, conv[q])
  /\ \A r \in Member : Pendings(r) /\ Placed(r)
-----------------------------------------------------------------------------
(* Every set of naturals has a least one.                                   *)
LEMMA Least ==
  ASSUME NEW T, T \subseteq Nat, T # {}
  PROVE  \E n \in T : \A m \in T : n <= m
<1> DEFINE Lt == {ss \in Nat \X Nat : ss[1] < ss[2]}
<1>1. IsWellFoundedOn(Lt, Nat)
  BY NatLessThanWellFounded DEF OpToRel
<1>2. PICK n \in T : \A m \in T : ~(<<m, n>> \in Lt)
  <2> HIDE DEF Lt
  <2> QED BY <1>1, WFMin
<1>3. ASSUME NEW m \in T PROVE ~(m < n)
  <2>1. <<m, n>> \in Nat \X Nat
    BY <1>3
  <2>2. <<m, n>> \notin {ss \in Nat \X Nat : ss[1] < ss[2]}
    BY <1>2
  <2>3. QED BY <2>1, <2>2
<1>4. QED BY <1>3

(* Induction over the naturals, by sets.                                    *)
LEMMA Induction ==
  ASSUME NEW P, 0 \in P, \A n \in Nat : n \in P => n + 1 \in P
  PROVE  Nat \subseteq P
<1> SUFFICES ASSUME Nat \ P # {} PROVE FALSE
  OBVIOUS
<1>1. PICK n \in Nat \ P : \A m \in Nat \ P : n <= m
  BY Least
<1>2. n # 0 /\ n - 1 \in Nat /\ (n - 1) + 1 = n /\ ~(n <= n - 1)
  BY <1>1
<1>3. n - 1 \in P
  BY <1>1, <1>2
<1>4. QED BY <1>1, <1>2, <1>3

(* Induction up to n.                                                       *)
LEMMA UpTo ==
  ASSUME NEW n \in Nat, NEW P, 0 \in P, \A i \in Nat : i < n /\ i \in P => i + 1 \in P
  PROVE  0..n \subseteq P
<1> DEFINE Q == {i \in Nat : i <= n => i \in P}
<1>1. 0 \in Q
  OBVIOUS
<1>2. ASSUME NEW i \in Nat, i \in Q PROVE i + 1 \in Q
  <2>1. i + 1 <= n => i < n /\ i <= n
    OBVIOUS
  <2>2. QED BY <1>2, <2>1
<1> HIDE DEF Q
<1>3. Nat \subseteq Q
  BY <1>1, <1>2, Induction
<1>4. QED BY <1>3 DEF Q

(* A sequence of steps exists.                                              *)
Runs(f, n, first, grow) ==
  \A i \in 0..n : f[i] = IF i = 0 THEN first ELSE grow[<<f[i - 1], i>>]

(* What is defined by recursion exists: n steps from first.                 *)
LEMMA Iterates ==
  ASSUME NEW X, NEW first \in X, NEW n \in Nat, NEW grow \in [X \X (1..n) -> X]
  PROVE  \E f \in [0..n -> X] : Runs(f, n, first, grow)
<1> DEFINE Steps(f, m) == \A i \in 0..m : f[i] = IF i = 0 THEN first ELSE grow[<<f[i - 1], i>>]
           P == {m \in Nat : m <= n => \E f \in [0..m -> X] : Steps(f, m)}
<1>1. 0 \in P
  <2>1. [i \in 0..0 |-> first] \in [0..0 -> X] /\ Steps([i \in 0..0 |-> first], 0)
    OBVIOUS
  <2>2. QED BY <2>1
<1>2. ASSUME NEW m \in Nat, m \in P PROVE m + 1 \in P
  <2> SUFFICES ASSUME m + 1 <= n PROVE \E f \in [0..m + 1 -> X] : Steps(f, m + 1)
    OBVIOUS
  <2>1. PICK f \in [0..m -> X] : Steps(f, m)
    BY <1>2
  <2>2. PICK x \in X : x = grow[<<f[m], m + 1>>]
    OBVIOUS
  <2>3. PICK g : g = [i \in 0..m + 1 |-> IF i = m + 1 THEN x ELSE f[i]]
    OBVIOUS
  <2>4. g \in [0..m + 1 -> X]
    BY <2>3
  <2>5. ASSUME NEW i \in 0..m + 1 PROVE g[i] = IF i = 0 THEN first ELSE grow[<<g[i - 1], i>>]
    <3>1. CASE i = m + 1
      <4>1. i # 0 /\ i - 1 = m /\ m \in 0..m + 1 /\ m # m + 1 /\ i \in 0..m + 1
        BY <3>1
      <4>2. g[i] = x /\ g[m] = f[m]
        BY <2>3, <3>1, <4>1
      <4>3. QED BY <2>2, <3>1, <4>1, <4>2
    <3>2. CASE i # m + 1
      <4>1. i \in 0..m /\ (i # 0 => i - 1 \in 0..m)
        BY <3>2
      <4>2. g[i] = f[i] /\ (i # 0 => g[i - 1] = f[i - 1])
        BY <2>3, <4>1
      <4>3. QED BY <2>1, <4>1, <4>2
    <3>3. QED BY <3>1, <3>2
  <2>6. QED BY <2>4, <2>5
<1> HIDE DEF P
<1>3. n \in P
  BY <1>1, <1>2, Induction
<1>4. QED BY <1>3 DEF P, Runs

(* A function on 1..n is a sequence.                                        *)
LEMMA FunctionIsSeq ==
  ASSUME NEW T, NEW n \in Nat, NEW f \in [1..n -> T]
  PROVE  f \in Seq(T) /\ Len(f) = n /\ DOMAIN f = 1..n
<1>1. f \in Seq(T)
  BY SeqDef
<1>2. Len(f) \in Nat /\ DOMAIN f = 1..Len(f)
  BY <1>1, LenProperties
<1>3. 1..Len(f) = 1..n
  BY <1>2
<1>4. QED BY <1>1, <1>2, <1>3

(* The first m lists, joined.                                               *)
Joined(f, lists, o, m) ==
  /\ Len(f[m]) = o[m + 1]
  /\ \A i \in 1..m : \A t \in 1..Len(lists[i]) : f[m][o[i] + t] = lists[i][t]

Joins(f, n, lists) == f[0] = << >> /\ \A i \in 1..n : f[i] = f[i - 1] \o lists[i]

Follows(c, a, b, l, k) ==
  Len(c) = l + k /\ \A i \in 1..l + k : c[i] = IF i <= l THEN a[i] ELSE b[i - l]

(* The elements of two sequences joined.                                    *)
LEMMA Appended ==
  ASSUME NEW T, NEW a \in Seq(T), NEW b \in Seq(T), NEW l \in Nat, NEW k \in Nat,
         l = Len(a), k = Len(b)
  PROVE  a \o b \in Seq(T) /\ Follows(a \o b, a, b, l, k)
BY ConcatProperties DEF Follows

(* Where the second of two joined sequences is.                             *)
LEMMA Beyond ==
  ASSUME NEW l \in Nat, NEW k \in Nat, NEW t \in 1..k
  PROVE  l + t \in 1..l + k /\ ~(l + t <= l) /\ (l + t) - l = t
OBVIOUS

(* A part of the first of two joined sequences is in it.                    *)
LEMMA Within ==
  ASSUME NEW l \in Nat, NEW k \in Nat, NEW x \in Nat, NEW y \in Nat, NEW t \in 1..y, x + y <= l
  PROVE  x + t \in 1..l + k /\ x + t <= l
OBVIOUS

(* A sum is at least its first number.                                      *)
LEMMA AtMost ==
  ASSUME NEW x \in Nat, NEW y \in Nat, NEW z \in Nat, x <= y
  PROVE  x <= y + z
OBVIOUS

(* FlattenSeq appends one list after the other.                             *)
LEMMA JoinRuns ==
  ASSUME NEW T, NEW n \in Nat \ {0}, NEW lists \in [1..n -> Seq(T)]
  PROVE  \E f \in [0..n -> Seq(T)] : Joins(f, n, lists) /\ FlattenSeq(lists) = f[n]
<1> DEFINE X == Seq(T)
           grow == [p \in X \X (1..n) |-> p[1] \o lists[p[2]]]
           Flat(h) == h = [i \in 1..n |-> IF i = 1 THEN lists[i] ELSE h[i - 1] \o lists[i]]
           flat == CHOOSE h : Flat(h)
<1>1. << >> \in X
  OBVIOUS
<1>2. grow \in [X \X (1..n) -> X]
  <2>1. ASSUME NEW x \in X, NEW i \in 1..n PROVE x \o lists[i] \in X
    <3>1. lists[i] \in X
      OBVIOUS
    <3>2. QED BY <3>1, ConcatProperties
  <2> HIDE DEF X
  <2>2. QED BY <2>1
<1>3. PICK f \in [0..n -> X] : Runs(f, n, << >>, grow)
  <2> HIDE DEF grow, X
  <2> QED BY <1>1, <1>2, Iterates
<1> HIDE DEF X
<1>4. f[0] = << >> /\ \A i \in 1..n : f[i] = f[i - 1] \o lists[i]
  <2>1. f[0] = << >>
    <3> HIDE DEF grow
    <3>1. 0 \in 0..n
      OBVIOUS
    <3>2. QED BY <1>3, <3>1 DEF Runs
  <2>2. ASSUME NEW i \in 1..n PROVE f[i] = f[i - 1] \o lists[i]
    <3>1. i \in 0..n /\ i # 0 /\ i - 1 \in 0..n
      OBVIOUS
    <3>2. <<f[i - 1], i>> \in X \X (1..n)
      BY <1>3, <3>1
    <3>3. grow[<<f[i - 1], i>>] = f[i - 1] \o lists[i]
      BY <3>2
    <3> HIDE DEF grow
    <3>4. f[i] = grow[<<f[i - 1], i>>]
      BY <1>3, <3>1 DEF Runs
    <3>5. QED BY <3>3, <3>4
  <2>3. QED BY <2>1, <2>2
<1>5. f[1] = lists[1]
  <2>1. 1 \in 1..n /\ 1 - 1 = 0
    OBVIOUS
  <2>2. lists[1] \in Seq(T)
    BY <2>1
  <2>3. << >> \o lists[1] = lists[1]
    BY <2>2, ConcatEmptySeq
  <2>4. QED BY <1>4, <2>1, <2>3
<1>6. Flat(flat)
  <2>1. PICK g : g = [i \in 1..n |-> f[i]]
    OBVIOUS
  <2>2. \A i \in 1..n : g[i] = IF i = 1 THEN lists[i] ELSE g[i - 1] \o lists[i]
    <3>1. ASSUME NEW i \in 1..n, i # 1 PROVE g[i] = g[i - 1] \o lists[i]
      <4>1. i - 1 \in 1..n
        BY <3>1
      <4>2. QED BY <1>4, <2>1, <4>1
    <3>2. QED BY <1>5, <2>1, <3>1
  <2>3. Flat(g)
    BY <2>1, <2>2
  <2> HIDE DEF Flat
  <2>4. QED BY <2>3
<1>7. lists \in Seq(Seq(T)) /\ Len(lists) = n
  BY FunctionIsSeq
<1>8. FlattenSeq(lists) = flat[n]
  BY <1>7 DEF FlattenSeq
<1> HIDE DEF flat
<1> DEFINE P == {i \in Nat : i >= 1 /\ i <= n => flat[i] = f[i]}
<1>9. 0 \in P
  OBVIOUS
<1>10. ASSUME NEW i \in Nat, i < n, i \in P PROVE i + 1 \in P
  <2>1. i + 1 \in 1..n /\ (i + 1) - 1 = i
    BY <1>10
  <2>2. flat[i + 1] = IF i + 1 = 1 THEN lists[i + 1] ELSE flat[i] \o lists[i + 1]
    BY <1>6, <2>1
  <2>3. f[i + 1] = f[i] \o lists[i + 1]
    BY <1>4, <2>1
  <2>4. CASE i = 0
    BY <1>5, <2>2, <2>4
  <2>5. CASE i # 0
    <3>1. flat[i] = f[i]
      BY <1>10, <2>5
    <3>2. i + 1 # 1
      BY <2>5
    <3>3. flat[i + 1] = flat[i] \o lists[i + 1]
      BY <2>2, <3>2
    <3>4. flat[i + 1] = f[i + 1]
      BY <2>3, <3>1, <3>3
    <3>5. QED BY <3>4
  <2>6. QED BY <2>4, <2>5
<1> HIDE DEF P
<1>11. n \in P
  <2>1. 0..n \subseteq P
    BY <1>9, <1>10, UpTo
  <2>2. QED BY <2>1
<1>12. flat[n] = f[n]
  BY <1>11 DEF P
<1>13. QED BY <1>3, <1>4, <1>8, <1>12 DEF X, Joins

(* Where each list begins in the joined one.                                *)
Offsets(o, lists, n) == o[1] = 0 /\ \A i \in 1..n : o[i + 1] = o[i] + Len(lists[i])

IsJoin(all, lists, o, n) ==
  /\ Len(all) = o[n + 1]
  /\ \A i \in 1..n : \A t \in 1..Len(lists[i]) : all[o[i] + t] = lists[i][t]

(* The joined list has each list at the sum of the lengths before it.       *)
LEMMA JoinIs ==
  ASSUME NEW T, NEW n \in Nat \ {0}, NEW lists \in [1..n -> Seq(T)],
         NEW o \in [1..n + 1 -> Nat], Offsets(o, lists, n)
  PROVE  FlattenSeq(lists) \in Seq(T) /\ IsJoin(FlattenSeq(lists), lists, o, n)
<1>0. o[1] = 0 /\ \A i \in 1..n : o[i + 1] = o[i] + Len(lists[i])
  BY DEF Offsets
<1>1. PICK f \in [0..n -> Seq(T)] : Joins(f, n, lists) /\ FlattenSeq(lists) = f[n]
  BY JoinRuns
<1>2. \A i \in 1..n : Len(lists[i]) \in Nat
  BY LenProperties
<1>3. \A i, j \in 1..n + 1 : i <= j => o[i] <= o[j]
  <2> SUFFICES ASSUME NEW i \in 1..n + 1 PROVE \A j \in 1..n + 1 : i <= j => o[i] <= o[j]
    OBVIOUS
  <2> DEFINE Q == {k \in Nat : i + k <= n + 1 => o[i] <= o[i + k]}
  <2>1. 0 \in Q
    OBVIOUS
  <2>2. ASSUME NEW k \in Nat, k \in Q PROVE k + 1 \in Q
    <3> SUFFICES ASSUME i + (k + 1) <= n + 1 PROVE o[i] <= o[i + (k + 1)]
      OBVIOUS
    <3>1. i + k \in 1..n /\ i + k \in 1..n + 1 /\ i + (k + 1) = (i + k) + 1
      OBVIOUS
    <3>2. o[(i + k) + 1] = o[i + k] + Len(lists[i + k]) /\ Len(lists[i + k]) \in Nat /\ o[i + k] \in Nat
      BY <1>0, <1>2, <3>1
    <3>3. o[i] <= o[i + k] /\ o[i] \in Nat
      BY <2>2, <3>1
    <3>4. PICK x \in Nat, y \in Nat, z \in Nat :
            x = o[i] /\ y = o[i + k] /\ z = Len(lists[i + k]) /\ o[(i + k) + 1] = y + z /\ x <= y
      BY <3>2, <3>3
    <3>5. x <= y + z
      BY <3>4, AtMost
    <3>6. QED BY <3>1, <3>4, <3>5
  <2> HIDE DEF Q
  <2>3. ASSUME NEW j \in 1..n + 1, i <= j PROVE o[i] <= o[j]
    <3>1. j - i \in Nat /\ i + (j - i) = j
      BY <2>3
    <3>2. j - i \in Q
      BY <2>1, <2>2, <3>1, Induction
    <3>3. QED BY <3>1, <3>2 DEF Q
  <2>4. QED BY <2>3
<1> DEFINE P == {m \in Nat : m <= n => Joined(f, lists, o, m)}
<1>4. 0 \in P
  BY <1>0, <1>1 DEF Joined, Joins
<1>5. ASSUME NEW m \in Nat, m < n, m \in P PROVE m + 1 \in P
  <2>1. m + 1 \in 1..n /\ (m + 1) - 1 = m /\ m \in 0..n /\ m + 1 \in 0..n /\ m + 1 \in 1..n + 1
    BY <1>5
  <2>2. PICK l \in Nat, k \in Nat :
          l = Len(f[m]) /\ k = Len(lists[m + 1]) /\ l = o[m + 1] /\ o[(m + 1) + 1] = l + k
    <3>1. Joined(f, lists, o, m)
      BY <1>5
    <3>2. Len(f[m]) = o[m + 1] /\ o[m + 1] \in Nat
      BY <2>1, <3>1 DEF Joined
    <3>3. Len(lists[m + 1]) \in Nat /\ o[(m + 1) + 1] = o[m + 1] + Len(lists[m + 1])
      BY <1>0, <1>2, <2>1
    <3>4. QED BY <3>2, <3>3
  <2>3. f[m] \in Seq(T) /\ lists[m + 1] \in Seq(T) /\ f[m + 1] = f[m] \o lists[m + 1]
    BY <1>1, <2>1 DEF Joins
  <2>4. /\ Len(f[m + 1]) = l + k
        /\ \A i \in 1..l + k : f[m + 1][i] = IF i <= l THEN f[m][i] ELSE lists[m + 1][i - l]
    <3>1. PICK a \in Seq(T), b \in Seq(T) : a = f[m] /\ b = lists[m + 1]
      BY <2>3
    <3>2. l = Len(a) /\ k = Len(b) /\ l \in Nat /\ k \in Nat
      BY <2>2, <3>1
    <3>3. Follows(a \o b, a, b, l, k)
      BY <3>1, <3>2, Appended
    <3>4. f[m + 1] = a \o b
      BY <2>3, <3>1
    <3>5. QED BY <3>1, <3>3, <3>4 DEF Follows
  <2>5. ASSUME NEW i \in 1..m + 1, NEW t \in 1..Len(lists[i])
        PROVE  f[m + 1][o[i] + t] = lists[i][t]
    <3>1. CASE i = m + 1
      <4>0. t \in 1..k /\ o[i] = l
        BY <2>2, <3>1
      <4>1. l + t \in 1..l + k /\ ~(l + t <= l) /\ (l + t) - l = t
        BY <2>2, <4>0, Beyond
      <4>2. QED BY <2>4, <3>1, <4>0, <4>1
    <3>2. CASE i # m + 1
      <4>1. i \in 1..m /\ i \in 1..n /\ i + 1 \in 1..n + 1 /\ i + 1 <= m + 1 /\ i \in 1..n + 1
        BY <2>1, <3>2
      <4>2. o[i + 1] <= o[m + 1] /\ o[i + 1] = o[i] + Len(lists[i]) /\ Len(lists[i]) \in Nat /\ o[i] \in Nat
        BY <1>0, <1>2, <1>3, <2>1, <4>1
      <4>3. o[i] + t \in 1..l + k /\ o[i] + t <= l
        <5>1. PICK x \in Nat, y \in Nat : x = o[i] /\ y = Len(lists[i]) /\ t \in 1..y /\ x + y <= l
          BY <2>2, <4>2
        <5>2. x + t \in 1..l + k /\ x + t <= l
          BY <2>2, <5>1, Within
        <5>3. QED BY <5>1, <5>2
      <4>4. f[m][o[i] + t] = lists[i][t]
        <5>1. m <= n /\ m \in P
          BY <1>5
        <5>2. Joined(f, lists, o, m)
          BY <5>1
        <5> HIDE DEF P
        <5>3. QED BY <4>1, <5>2 DEF Joined
      <4>5. QED BY <2>4, <4>3, <4>4
    <3>3. QED BY <3>1, <3>2
  <2>6. Joined(f, lists, o, m + 1)
    BY <2>2, <2>4, <2>5 DEF Joined
  <2>7. QED BY <2>6
<1> HIDE DEF P
<1>6. n \in P
  <2>1. 0..n \subseteq P
    BY <1>4, <1>5, UpTo
  <2>2. QED BY <2>1
<1>7. Joined(f, lists, o, n)
  BY <1>6 DEF P
<1>8. f[n] \in Seq(T)
  BY <1>1
<1>9. QED BY <1>1, <1>7, <1>8 DEF Joined, IsJoin

-----------------------------------------------------------------------------
(* Induction over sequences, by sets.                                       *)
LEMMA SequencesGrow ==
  ASSUME NEW S, NEW P, << >> \in P, \A s \in Seq(S) : \A e \in S : s \in P => Append(s, e) \in P
  PROVE  Seq(S) \subseteq P
<1> DEFINE Q == {n \in Nat : \A s \in Seq(S) : Len(s) = n => s \in P}
<1>1. 0 \in Q
  <2>1. ASSUME NEW s \in Seq(S), Len(s) = 0 PROVE s = << >>
    BY <2>1, EmptySeq
  <2>2. QED BY <2>1
<1>2. ASSUME NEW n \in Nat, n \in Q PROVE n + 1 \in Q
  <2>1. ASSUME NEW s \in Seq(S), Len(s) = n + 1 PROVE s \in P
    <3>1. s # << >>
      BY <1>2, <2>1, EmptySeq
    <3>2. PICK t \in Seq(S), e \in S : s = Append(t, e)
      BY <3>1, SequenceEmptyOrAppend
    <3>3. Len(t) = n
      BY <2>1, <3>2, AppendProperties, LenProperties
    <3>4. t \in P
      BY <1>2, <3>3
    <3>5. QED BY <3>2, <3>4
  <2>2. QED BY <2>1
<1> HIDE DEF Q
<1>3. Nat \subseteq Q
  BY <1>1, <1>2, Induction
<1>4. ASSUME NEW s \in Seq(S) PROVE s \in P
  <2>1. Len(s) \in Nat
    BY LenProperties
  <2>2. Len(s) \in Q
    BY <1>3, <2>1
  <2>3. QED BY <2>2 DEF Q
<1>5. QED BY <1>4

Prefix(lists, m) == [q \in 1..m |-> lists[q]]

JoinsFirst(f, n, lists) ==
  Joins(f, n, lists) /\ \A m \in 0..n : FlattenSeq(Prefix(lists, m)) = f[m]

(* FlattenSeq of the first lists.                                           *)
LEMMA JoinPrefixes ==
  ASSUME NEW T, NEW n \in Nat \ {0}, NEW lists \in [1..n -> Seq(T)]
  PROVE  \E f \in [0..n -> Seq(T)] : JoinsFirst(f, n, lists)
<1>1. PICK f \in [0..n -> Seq(T)] : Joins(f, n, lists) /\ FlattenSeq(lists) = f[n]
  BY JoinRuns
<1>2. ASSUME NEW m \in 0..n PROVE FlattenSeq(Prefix(lists, m)) = f[m]
  <2>1. CASE m = 0
    <3>1. Prefix(lists, m) = << >>
      BY <2>1 DEF Prefix
    <3>2. FlattenSeq(<< >>) = << >>
      BY EmptySeq DEF FlattenSeq
    <3>3. QED BY <1>1, <2>1, <3>1, <3>2 DEF Joins
  <2>2. CASE m # 0
    <3>1. PICK ls : ls = Prefix(lists, m)
      OBVIOUS
    <3>2. m \in Nat \ {0} /\ ls \in [1..m -> Seq(T)] /\ \A i \in 1..m : ls[i] = lists[i]
      BY <2>2, <3>1 DEF Prefix
    <3>3. PICK g \in [0..m -> Seq(T)] : Joins(g, m, ls) /\ FlattenSeq(ls) = g[m]
      <4>1. m \in Nat \ {0} /\ ls \in [1..m -> Seq(T)]
        BY <3>2
      <4>2. \E g \in [0..m -> Seq(T)] : Joins(g, m, ls) /\ FlattenSeq(ls) = g[m]
        BY <4>1, JoinRuns
      <4>3. QED BY <4>2
    <3> DEFINE P == {i \in Nat : i <= m => g[i] = f[i]}
    <3>4. 0 \in P
      BY <1>1, <3>3 DEF Joins
    <3>5. ASSUME NEW i \in Nat, i < m, i \in P PROVE i + 1 \in P
      <4>1. i + 1 \in 1..m /\ i + 1 \in 1..n /\ (i + 1) - 1 = i
        BY <3>5
      <4>2. g[i + 1] = g[i] \o ls[i + 1] /\ f[i + 1] = f[i] \o lists[i + 1]
        BY <1>1, <3>3, <4>1 DEF Joins
      <4>3. g[i] = f[i]
        BY <3>5
      <4>4. g[i + 1] = f[i + 1]
        BY <3>2, <4>1, <4>2, <4>3
      <4>5. QED BY <4>4
    <3> HIDE DEF P
    <3>6. m \in P
      <4>1. 0..m \subseteq P
        BY <3>2, <3>4, <3>5, UpTo
      <4>2. QED BY <3>2, <4>1
    <3>7. QED BY <3>1, <3>2, <3>3, <3>6 DEF P
  <2>3. QED BY <2>1, <2>2
<1>3. QED BY <1>1, <1>2 DEF JoinsFirst

(* FlattenSeq, one list at a time.                                          *)
LEMMA FlattenOne ==
  ASSUME NEW T, NEW lists \in Seq(Seq(T)), NEW x \in Seq(T)
  PROVE  /\ FlattenSeq(<< >>) = << >>
         /\ FlattenSeq(lists) \in Seq(T)
         /\ FlattenSeq(Append(lists, x)) = FlattenSeq(lists) \o x
<1>1. FlattenSeq(<< >>) = << >>
  BY EmptySeq DEF FlattenSeq
<1>2. PICK n \in Nat : n = Len(lists) /\ lists \in [1..n -> Seq(T)]
  BY LenProperties
<1>3. PICK more \in Seq(Seq(T)) : more = Append(lists, x)
  BY AppendProperties
<1>4. PICK l \in Nat \ {0} : l = n + 1 /\ n \in 0..l /\ l \in 0..l /\ l \in 1..l /\ l - 1 = n
  OBVIOUS
<1>5. more \in [1..l -> Seq(T)] /\ more[l] = x /\ \A i \in 1..n : more[i] = lists[i]
  <2>1. Len(more) = l /\ more[l] = x /\ \A i \in 1..n : more[i] = lists[i]
    BY <1>2, <1>3, <1>4, AppendProperties
  <2>2. QED BY <2>1, LenProperties
<1>6. PICK f \in [0..l -> Seq(T)] : JoinsFirst(f, l, more)
  BY <1>5, JoinPrefixes
<1>7. Prefix(more, l) = more /\ Prefix(more, n) = lists
  BY <1>2, <1>4, <1>5 DEF Prefix
<1>8. FlattenSeq(more) = f[l] /\ FlattenSeq(lists) = f[n] /\ f[l] = f[n] \o x
  BY <1>4, <1>5, <1>6, <1>7 DEF Joins, JoinsFirst
<1>9. f[n] \in Seq(T)
  BY <1>4, <1>6
<1>10. QED BY <1>1, <1>3, <1>8, <1>9

(* FlattenSeq of two lists of lists.                                        *)
LEMMA FlattenJoined ==
  ASSUME NEW T, NEW a \in Seq(Seq(T)), NEW b \in Seq(Seq(T))
  PROVE  FlattenSeq(a \o b) = FlattenSeq(a) \o FlattenSeq(b)
<1> DEFINE P == {s \in Seq(Seq(T)) : FlattenSeq(a \o s) = FlattenSeq(a) \o FlattenSeq(s)}
<1>1. << >> \in P
  <2>1. a \o << >> = a /\ << >> \in Seq(Seq(T))
    BY ConcatEmptySeq, EmptySeq
  <2>2. FlattenSeq(a) \in Seq(T) /\ FlattenSeq(<< >>) = << >>
    BY EmptySeq, FlattenOne
  <2>3. FlattenSeq(a) \o << >> = FlattenSeq(a)
    BY <2>2, ConcatEmptySeq
  <2>4. QED BY <2>1, <2>2, <2>3
<1>2. ASSUME NEW s \in Seq(Seq(T)), NEW e \in Seq(T), s \in P PROVE Append(s, e) \in P
  <2>1. a \o Append(s, e) = Append(a \o s, e) /\ a \o s \in Seq(Seq(T)) /\ Append(s, e) \in Seq(Seq(T))
    <3>1. Append(s, e) = s \o <<e>> /\ <<e>> \in Seq(Seq(T)) /\ Append(s, e) \in Seq(Seq(T))
      BY AppendIsConcat, AppendProperties
    <3>2. a \o s \in Seq(Seq(T))
      BY ConcatProperties
    <3>3. Append(a \o s, e) = (a \o s) \o <<e>>
      BY <3>2, AppendIsConcat
    <3>4. (a \o s) \o <<e>> = a \o (s \o <<e>>)
      BY <3>1, ConcatAssociative
    <3>5. QED BY <3>1, <3>2, <3>3, <3>4
  <2>2. /\ FlattenSeq(Append(a \o s, e)) = FlattenSeq(a \o s) \o e
        /\ FlattenSeq(Append(s, e)) = FlattenSeq(s) \o e
    BY <2>1, FlattenOne
  <2>3. FlattenSeq(a) \in Seq(T) /\ FlattenSeq(s) \in Seq(T)
    BY FlattenOne
  <2>4. (FlattenSeq(a) \o FlattenSeq(s)) \o e = FlattenSeq(a) \o (FlattenSeq(s) \o e)
    BY <2>3, ConcatAssociative
  <2>5. FlattenSeq(a \o s) = FlattenSeq(a) \o FlattenSeq(s)
    BY <1>2
  <2>6. QED BY <2>1, <2>2, <2>4, <2>5
<1> HIDE DEF P
<1>3. Seq(Seq(T)) \subseteq P
  BY <1>1, <1>2, SequencesGrow
<1>4. QED BY <1>3 DEF P

-----------------------------------------------------------------------------
(* Kept of no elements, and of one element more.                            *)
LEMMA KeptNone == \A marks : Kept(<< >>, marks) = << >>
<1>1. FlattenSeq(<< >>) = << >>
  BY EmptySeq DEF FlattenSeq
<1>2. ASSUME NEW marks PROVE [k \in DOMAIN << >> |-> IF marks[k] THEN << << >>[k] >> ELSE << >>] = << >>
  OBVIOUS
<1>3. QED BY <1>1, <1>2 DEF Kept

LEMMA KeptOne ==
  ASSUME NEW T, NEW s \in Seq(T), NEW x \in T, NEW marks, NEW more,
         \A k \in 1..Len(s) : more[k] = marks[k]
  PROVE  /\ Kept(s, marks) \in Seq(T)
         /\ Kept(Append(s, x), more) =
              IF more[Len(s) + 1] THEN Append(Kept(s, marks), x) ELSE Kept(s, marks)
<1> DEFINE one(t, m) == [k \in DOMAIN t |-> IF m[k] THEN <<t[k]>> ELSE << >>]
<1>1. PICK n \in Nat : n = Len(s) /\ DOMAIN s = 1..n /\ s \in [1..n -> T]
  BY LenProperties
<1>2. PICK t \in Seq(T) : t = Append(s, x)
  BY AppendProperties
<1>3. DOMAIN t = 1..n + 1 /\ t[n + 1] = x /\ \A k \in 1..n : t[k] = s[k]
  BY <1>1, <1>2, AppendProperties, LenProperties
<1>4. \A e \in T : <<e>> \in Seq(T)
  OBVIOUS
<1>5. one(s, marks) \in Seq(Seq(T)) /\ Len(one(s, marks)) = n /\ DOMAIN one(s, marks) = 1..n
  <2>1. one(s, marks) \in [1..n -> Seq(T)]
    BY <1>1, <1>4, EmptySeq
  <2> HIDE DEF one
  <2>2. QED BY <2>1, FunctionIsSeq
<1>6. PICK y \in Seq(T) : y = IF more[n + 1] THEN <<x>> ELSE << >>
  BY <1>4, EmptySeq
<1>7. one(t, more) = Append(one(s, marks), y)
  <2>1. one(t, more) \in [1..n + 1 -> Seq(T)]
    <3>1. \A k \in 1..n + 1 : t[k] \in T
      BY <1>1, <1>3
    <3>2. QED BY <1>3, <1>4, <3>1, EmptySeq
  <2>2. one(t, more)[n + 1] = y /\ \A k \in 1..n : one(t, more)[k] = one(s, marks)[k]
    BY <1>1, <1>3, <1>6
  <2> HIDE DEF one
  <2>3. one(t, more) \in Seq(Seq(T)) /\ Len(one(t, more)) = n + 1
    BY <2>1, FunctionIsSeq
  <2>4. PICK z \in Seq(Seq(T)) : z = Append(one(s, marks), y)
    BY <1>5, AppendProperties
  <2>5. Len(z) = n + 1 /\ z[n + 1] = y /\ \A k \in 1..n : z[k] = one(s, marks)[k]
    BY <1>5, <2>4, AppendProperties
  <2>6. \A k \in 1..n + 1 : k \in 1..n \/ k = n + 1
    OBVIOUS
  <2>7. \A k \in 1..n + 1 : one(t, more)[k] = z[k]
    BY <2>2, <2>5, <2>6
  <2>8. QED BY <2>3, <2>4, <2>5, <2>7, SeqEqual
<1>8. Kept(s, marks) = FlattenSeq(one(s, marks)) /\ Kept(t, more) = FlattenSeq(one(t, more))
  BY DEF Kept
<1> HIDE DEF one
<1>9. /\ FlattenSeq(Append(one(s, marks), y)) = FlattenSeq(one(s, marks)) \o y
      /\ FlattenSeq(one(s, marks)) \in Seq(T)
  BY <1>5, FlattenOne
<1>10. PICK f \in Seq(T) : f = Kept(s, marks) /\ Kept(t, more) = f \o y
  BY <1>7, <1>8, <1>9
<1>11. f \o y = IF more[n + 1] THEN Append(f, x) ELSE f
  <2>1. f \o <<x>> = Append(f, x) /\ f \o << >> = f
    BY AppendIsConcat, ConcatEmptySeq
  <2>2. QED BY <1>6, <2>1
<1>12. QED BY <1>1, <1>2, <1>10, <1>11

(* What the mask chooses, one token at a time.                              *)
LEMMA ChosenOne ==
  ASSUME NEW T, NEW ids \in Seq(T), NEW x \in T, NEW mask \in Seq(Bit), NEW b \in Bit,
         Len(mask) = Len(ids)
  PROVE  /\ Chosen(<< >>, << >>) = << >> /\ Chosen(ids, mask) \in Seq(T)
         /\ Chosen(Append(ids, x), Append(mask, b)) =
              IF b = 1 THEN Append(Chosen(ids, mask), x) ELSE Chosen(ids, mask)
<1>1. Chosen(<< >>, << >>) = << >>
  BY KeptNone DEF Chosen
<1>2. PICK n \in Nat : n = Len(ids) /\ DOMAIN ids = 1..n
  BY LenProperties
<1>3. PICK i \in Seq(T), m \in Seq(Bit) : i = Append(ids, x) /\ m = Append(mask, b)
  BY AppendProperties
<1>4. DOMAIN i = 1..n + 1 /\ m[n + 1] = b /\ \A k \in 1..n : m[k] = mask[k]
  BY <1>2, <1>3, AppendProperties, LenProperties
<1>5. PICK marks : marks = [k \in DOMAIN ids |-> mask[k] = 1]
  OBVIOUS
<1>6. PICK more : more = [k \in DOMAIN i |-> m[k] = 1]
  OBVIOUS
<1>7. \A k \in 1..n : more[k] = marks[k]
  BY <1>2, <1>4, <1>5, <1>6
<1>8. more[n + 1] = (b = 1)
  BY <1>4, <1>6
<1>9. /\ Kept(ids, marks) \in Seq(T)
      /\ Kept(i, more) = IF more[n + 1] THEN Append(Kept(ids, marks), x) ELSE Kept(ids, marks)
  BY <1>2, <1>3, <1>7, KeptOne
<1>10. Chosen(ids, mask) = Kept(ids, marks) /\ Chosen(i, m) = Kept(i, more)
  BY <1>5, <1>6 DEF Chosen
<1>11. QED BY <1>1, <1>3, <1>8, <1>9, <1>10

(* What is chosen of a sequence is a sequence.                              *)
LEMMA ChosenTyped ==
  ASSUME NEW T, NEW ids \in Seq(T), NEW mask \in Seq(Bit), Len(mask) = Len(ids)
  PROVE  Chosen(ids, mask) \in Seq(T)
<1>1. CASE ids = << >>
  <2>1. Len(mask) = 0
    BY <1>1, EmptySeq
  <2>2. mask = << >>
    BY <2>1, EmptySeq
  <2>3. Chosen(ids, mask) = << >>
    BY <1>1, <2>2, KeptNone DEF Chosen
  <2>4. QED BY <2>3, EmptySeq
<1>2. CASE ids # << >>
  <2>1. PICK i \in Seq(T), x \in T : ids = Append(i, x)
    BY <1>2, SequenceEmptyOrAppend
  <2>2. 0 \in Bit
    BY DEF Bit
  <2>3. Chosen(ids, mask) \in Seq(T)
    BY <2>1, <2>2, ChosenOne
  <2>4. QED BY <2>3
<1>3. QED BY <1>1, <1>2

ChoosesBoth(ids, mask, more, marks) ==
  Chosen(ids \o more, mask \o marks) = Chosen(ids, mask) \o Chosen(more, marks)

(* What is chosen of two sequences joined: the second one an element        *)
(* longer, and any two.                                                     *)
LEMMA ChosenStep ==
  ASSUME NEW T, NEW ids \in Seq(T), NEW mask \in Seq(Bit), Len(mask) = Len(ids),
         NEW s \in Seq(T), NEW m \in Seq(Bit), Len(m) = Len(s), NEW e \in T, NEW b \in Bit,
         ChoosesBoth(ids, mask, s, m)
  PROVE  ChoosesBoth(ids, mask, Append(s, e), Append(m, b))
<1>1. ids \o Append(s, e) = Append(ids \o s, e) /\ ids \o s \in Seq(T)
  <2>1. <<e>> \in Seq(T) /\ ids \o s \in Seq(T)
    BY ConcatProperties
  <2>2. (ids \o s) \o <<e>> = ids \o (s \o <<e>>)
    BY <2>1, ConcatAssociative
  <2>3. QED BY <2>1, <2>2, AppendIsConcat
<1>2. mask \o Append(m, b) = Append(mask \o m, b) /\ mask \o m \in Seq(Bit)
  <2>1. <<b>> \in Seq(Bit) /\ mask \o m \in Seq(Bit)
    BY ConcatProperties
  <2>2. (mask \o m) \o <<b>> = mask \o (m \o <<b>>)
    BY <2>1, ConcatAssociative
  <2>3. QED BY <2>1, <2>2, AppendIsConcat
<1>3. Len(mask \o m) = Len(ids \o s)
  <2>1. Len(mask \o m) = Len(mask) + Len(m) /\ Len(ids \o s) = Len(ids) + Len(s)
    BY ConcatProperties
  <2>2. QED BY <2>1
<1>4. Chosen(ids \o s, mask \o m) = Chosen(ids, mask) \o Chosen(s, m)
  BY DEF ChoosesBoth
<1>5. PICK c \in Seq(T), d \in Seq(T) : c = Chosen(ids, mask) /\ d = Chosen(s, m)
  BY <1>3, ChosenTyped
<1>6. Chosen(Append(ids \o s, e), Append(mask \o m, b)) = IF b = 1 THEN Append(c \o d, e) ELSE c \o d
  <2>1. PICK i \in Seq(T), w \in Seq(Bit) : i = ids \o s /\ w = mask \o m
    BY <1>1, <1>2
  <2>2. Len(w) = Len(i) /\ Chosen(i, w) = c \o d
    BY <1>3, <1>4, <1>5, <2>1
  <2>3. Chosen(Append(i, e), Append(w, b)) = IF b = 1 THEN Append(Chosen(i, w), e) ELSE Chosen(i, w)
    <3>1. \A u \in Seq(T) : \A v \in Seq(Bit) : Len(v) = Len(u) =>
            Chosen(Append(u, e), Append(v, b)) = IF b = 1 THEN Append(Chosen(u, v), e) ELSE Chosen(u, v)
      BY ChosenOne
    <3>2. QED BY <2>2, <3>1
  <2>4. QED BY <2>1, <2>2, <2>3
<1>7. Chosen(Append(s, e), Append(m, b)) = IF b = 1 THEN Append(d, e) ELSE d
  BY <1>3, <1>5, ChosenOne
<1>8. Append(c \o d, e) = c \o Append(d, e)
  <2>1. <<e>> \in Seq(T) /\ c \o d \in Seq(T)
    BY ConcatProperties
  <2>2. (c \o d) \o <<e>> = c \o (d \o <<e>>)
    BY <2>1, ConcatAssociative
  <2>3. QED BY <2>1, <2>2, AppendIsConcat
<1>9. QED BY <1>1, <1>2, <1>5, <1>6, <1>7, <1>8 DEF ChoosesBoth

LEMMA ChosenJoined ==
  ASSUME NEW T, NEW ids \in Seq(T), NEW mask \in Seq(Bit), Len(mask) = Len(ids)
  PROVE  \A more \in Seq(T) : \A marks \in Seq(Bit) :
           Len(marks) = Len(more) => ChoosesBoth(ids, mask, more, marks)
<1> DEFINE P == {more \in Seq(T) : \A marks \in Seq(Bit) : Len(marks) = Len(more) =>
                   ChoosesBoth(ids, mask, more, marks)}
<1>1. << >> \in P
  <2>1. ASSUME NEW marks \in Seq(Bit), Len(marks) = Len(<< >>)
        PROVE  ChoosesBoth(ids, mask, << >>, marks)
    <3>1. marks = << >>
      BY <2>1, EmptySeq
    <3>2. ids \o << >> = ids /\ mask \o << >> = mask
      BY ConcatEmptySeq
    <3>3. Chosen(<< >>, << >>) = << >>
      BY KeptNone DEF Chosen
    <3>4. Chosen(ids, mask) \o << >> = Chosen(ids, mask)
      BY ChosenTyped, ConcatEmptySeq
    <3>5. QED BY <3>1, <3>2, <3>3, <3>4 DEF ChoosesBoth
  <2>2. << >> \in Seq(T)
    BY EmptySeq
  <2>3. QED BY <2>1, <2>2
<1>2. ASSUME NEW s \in Seq(T), NEW e \in T, s \in P PROVE Append(s, e) \in P
  <2>1. ASSUME NEW marks \in Seq(Bit), Len(marks) = Len(Append(s, e))
        PROVE  ChoosesBoth(ids, mask, Append(s, e), marks)
    <3>1. marks # << >>
      BY <2>1, AppendProperties, LenProperties, EmptySeq
    <3>2. PICK m \in Seq(Bit), b \in Bit : marks = Append(m, b)
      BY <3>1, SequenceEmptyOrAppend
    <3>3. Len(m) = Len(s)
      BY <2>1, <3>2, AppendProperties, LenProperties
    <3>4. ChoosesBoth(ids, mask, s, m)
      BY <1>2, <3>3
    <3> HIDE DEF P
    <3>5. ChoosesBoth(ids, mask, Append(s, e), Append(m, b))
      BY <3>3, <3>4, ChosenStep
    <3>6. QED BY <3>2, <3>5
  <2>2. Append(s, e) \in Seq(T)
    BY AppendProperties
  <2>3. QED BY <2>1, <2>2
<1> HIDE DEF P
<1>3. Seq(T) \subseteq P
  BY <1>1, <1>2, SequencesGrow
<1>4. QED BY <1>3 DEF P

(* The mask of a turn that is sampled: all ones, which choose everything.   *)
LEMMA OnesTyped ==
  ASSUME NEW T, NEW s \in Seq(T)
  PROVE  Ones(s) \in Seq(Bit) /\ Len(Ones(s)) = Len(s) /\ \A k \in 1..Len(s) : Ones(s)[k] = 1
<1>1. PICK n \in Nat : n = Len(s) /\ DOMAIN s = 1..n
  BY LenProperties
<1>2. Ones(s) \in [1..n -> Bit] /\ \A k \in 1..n : Ones(s)[k] = 1
  BY <1>1 DEF Ones, Bit
<1>3. Ones(s) \in Seq(Bit) /\ Len(Ones(s)) = n
  BY <1>2, FunctionIsSeq
<1>4. QED BY <1>1, <1>2, <1>3

LEMMA OnesOne ==
  ASSUME NEW T, NEW s \in Seq(T), NEW x \in T
  PROVE  Ones(Append(s, x)) = Append(Ones(s), 1)
<1>1. PICK t \in Seq(T) : t = Append(s, x) /\ Len(t) = Len(s) + 1
  BY AppendProperties
<1>2. Ones(t) \in Seq(Bit) /\ Len(Ones(t)) = Len(t) /\ \A k \in 1..Len(t) : Ones(t)[k] = 1
  BY OnesTyped
<1>3. Ones(s) \in Seq(Bit) /\ Len(Ones(s)) = Len(s) /\ \A k \in 1..Len(s) : Ones(s)[k] = 1
  BY OnesTyped
<1>4. PICK u \in Seq(Bit) : u = Append(Ones(s), 1)
  BY <1>3, AppendProperties DEF Bit
<1>5. Len(u) = Len(s) + 1 /\ u[Len(s) + 1] = 1 /\ \A k \in 1..Len(s) : u[k] = Ones(s)[k]
  BY <1>3, <1>4, AppendProperties DEF Bit
<1>6. \A k \in 1..Len(t) : u[k] = 1
  <2>1. PICK n \in Nat : n = Len(s)
    BY LenProperties
  <2>2. \A k \in 1..n + 1 : k \in 1..n \/ k = n + 1
    OBVIOUS
  <2>3. QED BY <1>1, <1>3, <1>5, <2>1, <2>2
<1>7. Ones(t) = u
  BY <1>1, <1>2, <1>5, <1>6, SeqEqual
<1>8. QED BY <1>1, <1>4, <1>7

LEMMA ChosenAll ==
  ASSUME NEW T, NEW s \in Seq(T)
  PROVE  Chosen(s, Ones(s)) = s
<1> DEFINE P == {t \in Seq(T) : Chosen(t, Ones(t)) = t}
<1>1. << >> \in P
  <2>1. Ones(<< >>) = << >>
    BY DEF Ones
  <2>2. QED BY <2>1, KeptNone, EmptySeq DEF Chosen
<1>2. ASSUME NEW t \in Seq(T), NEW e \in T, t \in P PROVE Append(t, e) \in P
  <2>1. Ones(Append(t, e)) = Append(Ones(t), 1)
    BY OnesOne
  <2>2. Ones(t) \in Seq(Bit) /\ Len(Ones(t)) = Len(t) /\ 1 \in Bit
    BY OnesTyped DEF Bit
  <2>3. Chosen(Append(t, e), Append(Ones(t), 1)) = Append(Chosen(t, Ones(t)), e)
    BY <2>2, ChosenOne
  <2>4. Append(t, e) \in Seq(T)
    BY AppendProperties
  <2>5. QED BY <1>2, <2>1, <2>3, <2>4
<1> HIDE DEF P
<1>3. Seq(T) \subseteq P
  BY <1>1, <1>2, SequencesGrow
<1>4. QED BY <1>3 DEF P

(* What was said, one message at a time.                                    *)
LEMMA SaidOne ==
  ASSUME NEW q, NEW messages \in Seq(Spoken(q)), NEW x \in Spoken(q)
  PROVE  /\ Said(<< >>) = << >> /\ Said(messages) \in Seq(Spoken(q))
         /\ Said(Append(messages, x)) =
              IF x.role = "assistant" THEN Append(Said(messages), x) ELSE Said(messages)
<1>1. Said(<< >>) = << >>
  BY KeptNone DEF Said
<1>2. PICK n \in Nat : n = Len(messages) /\ DOMAIN messages = 1..n
  BY LenProperties
<1>3. PICK m \in Seq(Spoken(q)) : m = Append(messages, x)
  BY AppendProperties
<1>4. DOMAIN m = 1..n + 1 /\ m[n + 1] = x /\ \A k \in 1..n : m[k] = messages[k]
  BY <1>2, <1>3, AppendProperties, LenProperties
<1>5. PICK marks : marks = [k \in DOMAIN messages |-> messages[k].role = "assistant"]
  OBVIOUS
<1>6. PICK more : more = [k \in DOMAIN m |-> m[k].role = "assistant"]
  OBVIOUS
<1>7. \A k \in 1..n : more[k] = marks[k]
  BY <1>2, <1>4, <1>5, <1>6
<1>8. more[n + 1] = (x.role = "assistant")
  BY <1>4, <1>6
<1>9. /\ Kept(messages, marks) \in Seq(Spoken(q))
      /\ Kept(m, more) = IF more[n + 1] THEN Append(Kept(messages, marks), x) ELSE Kept(messages, marks)
  BY <1>2, <1>3, <1>7, KeptOne
<1>10. Said(messages) = Kept(messages, marks) /\ Said(m) = Kept(m, more)
  BY <1>5, <1>6 DEF Said
<1>11. QED BY <1>1, <1>3, <1>8, <1>9, <1>10

(* The last of a sequence of sequences, extended.                           *)
LEMMA ExtendIs ==
  ASSUME NEW T, NEW s \in Seq(Seq(T)), NEW y \in Seq(T), NEW x \in Seq(T)
  PROVE  ExtendLast(Append(s, y), x) = Append(s, y \o x)
<1>1. PICK t \in Seq(Seq(T)) : t = Append(s, y)
  BY AppendProperties
<1>2. PICK n \in Nat : n = Len(s)
  BY LenProperties
<1>3. Len(t) = n + 1 /\ t[n + 1] = y /\ \A k \in 1..n : t[k] = s[k]
  BY <1>1, <1>2, AppendProperties
<1>4. PICK z \in Seq(T) : z = y \o x
  BY ConcatProperties
<1>5. PICK u : u = [t EXCEPT ![n + 1] = z]
  OBVIOUS
<1>6. u \in Seq(Seq(T)) /\ Len(u) = n + 1 /\ \A j \in 1..n + 1 : u[j] = IF j = n + 1 THEN z ELSE t[j]
  BY <1>3, <1>5, ExceptSeq
<1>7. PICK v \in Seq(Seq(T)) : v = Append(s, z)
  BY AppendProperties
<1>8. Len(v) = n + 1 /\ v[n + 1] = z /\ \A k \in 1..n : v[k] = s[k]
  BY <1>2, <1>7, AppendProperties
<1>9. \A j \in 1..n + 1 : j = n + 1 \/ (j \in 1..n /\ j # n + 1)
  OBVIOUS
<1>10. \A j \in 1..n + 1 : u[j] = v[j]
  BY <1>3, <1>6, <1>8, <1>9
<1>11. u = v
  BY <1>6, <1>8, <1>10, SeqEqual
<1>12. ExtendLast(t, x) = u
  BY <1>3, <1>4, <1>5 DEF ExtendLast
<1>13. QED BY <1>1, <1>4, <1>7, <1>11, <1>12

Longer(t, s, x, n) == Len(t) = n + 1 /\ t[n + 1] = x /\ \A k \in 1..n : t[k] = s[k]

(* The elements of Append, without Append.                                  *)
LEMMA LongerIs ==
  ASSUME NEW T, NEW s \in Seq(T), NEW x \in T, NEW n \in Nat, n = Len(s)
  PROVE  Append(s, x) \in Seq(T) /\ Longer(Append(s, x), s, x, n)
BY AppendProperties DEF Longer

(* The distance of two numbers is that of their successors.                 *)
LEMMA Apart ==
  ASSUME NEW n \in Nat, NEW k \in Nat, k <= n
  PROVE  \E a \in Nat : a = n - k /\ (n + 1) - (k + 1) = a /\ n = a + k
<1>1. n - k \in Nat /\ (n + 1) - (k + 1) = n - k /\ n = (n - k) + k
  OBVIOUS
<1>2. QED BY <1>1

(* A mask selects what was sampled: all of it, all but a text after it, and *)
(* turn by turn.                                                            *)
LEMMA SelectsOnes ==
  ASSUME NEW T, NEW ids \in Seq(T), OnlySampled(ids)
  PROVE  Selects(Ones(ids), ids)
BY OnesTyped DEF Selects, OnlySampled

LEMMA SelectsText ==
  ASSUME NEW T, NEW ids \in Seq(T), NEW mask \in Seq(Bit), Selects(mask, ids), NEW x \in T, x[3] = 0
  PROVE  Selects(Append(mask, 0), Append(ids, x))
<1>1. PICK n \in Nat : n = Len(ids) /\ n = Len(mask)
  BY LenProperties DEF Selects
<1>2. PICK i \in Seq(T), m \in Seq(Bit) : i = Append(ids, x) /\ m = Append(mask, 0)
  BY AppendProperties DEF Bit
<1>3. Len(i) = n + 1 /\ i[n + 1] = x /\ \A k \in 1..n : i[k] = ids[k]
  <2>1. Longer(i, ids, x, n)
    BY <1>1, <1>2, LongerIs
  <2>2. QED BY <2>1 DEF Longer
<1>4. Len(m) = n + 1 /\ m[n + 1] = 0 /\ \A k \in 1..n : m[k] = mask[k]
  <2>1. Longer(m, mask, 0, n)
    BY <1>1, <1>2, LongerIs DEF Bit
  <2>2. QED BY <2>1 DEF Longer
<1>5. ASSUME NEW k \in 1..n + 1 PROVE m[k] = 1 <=> i[k][3] # 0
  <2>1. k = n + 1 \/ k \in 1..n
    OBVIOUS
  <2>2. QED BY <1>1, <1>3, <1>4, <2>1 DEF Selects
<1>6. QED BY <1>2, <1>3, <1>4, <1>5 DEF Selects

LEMMA SelectsJoined ==
  ASSUME NEW T, NEW ids \in Seq(T), NEW mask \in Seq(Bit), Selects(mask, ids),
         NEW more \in Seq(T), NEW marks \in Seq(Bit), Selects(marks, more)
  PROVE  Selects(mask \o marks, ids \o more)
<1>1. PICK l \in Nat, h \in Nat : l = Len(ids) /\ l = Len(mask) /\ h = Len(more) /\ h = Len(marks)
  BY LenProperties DEF Selects
<1>2. PICK i \in Seq(T), m \in Seq(Bit) : i = ids \o more /\ m = mask \o marks
  BY ConcatProperties
<1>3. Follows(i, ids, more, l, h) /\ Follows(m, mask, marks, l, h)
  BY <1>1, <1>2, Appended
<1>4. ASSUME NEW k \in 1..l + h PROVE m[k] = 1 <=> i[k][3] # 0
  <2>1. CASE k <= l
    <3>1. k \in 1..l
      BY <2>1
    <3>2. i[k] = ids[k] /\ m[k] = mask[k]
      BY <1>3, <2>1 DEF Follows
    <3>3. QED BY <1>1, <3>1, <3>2 DEF Selects
  <2>2. CASE ~(k <= l)
    <3>1. k - l \in 1..h
      BY <2>2
    <3>2. i[k] = more[k - l] /\ m[k] = marks[k - l]
      BY <1>3, <2>2 DEF Follows
    <3>3. QED BY <1>1, <3>1, <3>2 DEF Selects
  <2>3. QED BY <2>1, <2>2
<1>5. QED BY <1>2, <1>3, <1>4 DEF Selects, Follows

(* A turn more is said, with its tokens.                                    *)
LEMMA AlignedNext ==
  ASSUME NEW q, NEW said \in Seq(Spoken(q)), NEW ids \in Seq(Seq(Token(q))), NEW mask \in Seq(Seq(Bit)),
         Aligned(said, ids, mask), NEW x \in Spoken(q), NEW w \in Seq(Bit), Selects(w, x.content)
  PROVE  Aligned(Append(said, x), Append(ids, x.content), Append(mask, w))
<1>1. PICK n \in Nat, k \in Nat : n = Len(said) /\ k = Len(ids) /\ k = Len(mask) /\ k <= n
  BY LenProperties DEF Aligned
<1>2. PICK s : s = Append(said, x)
  OBVIOUS
<1>3. PICK i : i = Append(ids, x.content)
  OBVIOUS
<1>4. PICK m : m = Append(mask, w)
  OBVIOUS
<1>5. Len(s) = n + 1 /\ s[n + 1] = x /\ \A t \in 1..n : s[t] = said[t]
  <2>1. Longer(s, said, x, n)
    BY <1>1, <1>2, LongerIs
  <2>2. QED BY <2>1 DEF Longer
<1>6. Len(i) = k + 1 /\ i[k + 1] = x.content /\ \A j \in 1..k : i[j] = ids[j]
  <2>1. x.content \in Seq(Token(q))
    BY DEF Spoken
  <2>2. Longer(i, ids, x.content, k)
    BY <1>1, <1>3, <2>1, LongerIs
  <2>3. QED BY <2>2 DEF Longer
<1>7. Len(m) = k + 1 /\ m[k + 1] = w /\ \A j \in 1..k : m[j] = mask[j]
  <2>1. Longer(m, mask, w, k)
    BY <1>1, <1>4, LongerIs
  <2>2. QED BY <2>1 DEF Longer
<1>8. PICK a \in Nat : a = n - k /\ (n + 1) - (k + 1) = a /\ n = a + k
  BY <1>1, Apart
<1>9. /\ \A j \in 1..k : Selects(mask[j], ids[j]) /\ ids[j] = said[a + j].content
      /\ \A t \in 1..a : OnlySampled(said[t].content)
  BY <1>1, <1>8 DEF Aligned
<1>10. ASSUME NEW j \in 1..k + 1 PROVE Selects(m[j], i[j]) /\ i[j] = s[a + j].content
  <2>1. CASE j = k + 1
    <3>1. a + j = n + 1
      BY <1>8, <2>1
    <3>2. QED BY <1>5, <1>6, <1>7, <2>1, <3>1
  <2>2. CASE j # k + 1
    <3>1. j \in 1..k /\ a + j \in 1..n
      BY <1>8, <2>2
    <3>2. QED BY <1>5, <1>6, <1>7, <1>9, <3>1
  <2>3. QED BY <2>1, <2>2
<1>11. ASSUME NEW t \in 1..a PROVE OnlySampled(s[t].content)
  <2>1. t \in 1..n
    BY <1>8
  <2>2. QED BY <1>5, <1>9, <2>1
<1>12. Aligned(s, i, m)
  <2>1. Len(m) = Len(i) /\ Len(i) <= Len(s) /\ Len(s) - Len(i) = a /\ Len(i) = k + 1
    BY <1>1, <1>5, <1>6, <1>7, <1>8
  <2>2. QED BY <1>10, <1>11, <2>1 DEF Aligned
<1>13. QED BY <1>2, <1>3, <1>4, <1>12

(* A message more is said, of which no tokens are kept.                     *)
LEMMA AlignedPlain ==
  ASSUME NEW q, NEW said \in Seq(Spoken(q)), Aligned(said, << >>, << >>),
         NEW x \in Spoken(q), OnlySampled(x.content)
  PROVE  Aligned(Append(said, x), << >>, << >>)
<1>1. PICK n \in Nat : n = Len(said)
  BY LenProperties
<1>2. PICK s : s = Append(said, x)
  OBVIOUS
<1>3. Len(s) = n + 1 /\ s[n + 1] = x /\ \A t \in 1..n : s[t] = said[t]
  <2>1. Longer(s, said, x, n)
    BY <1>1, <1>2, LongerIs
  <2>2. QED BY <2>1 DEF Longer
<1>4. Len(<< >>) = 0 /\ n - 0 = n /\ (n + 1) - 0 = n + 1
  OBVIOUS
<1>5. \A t \in 1..n : OnlySampled(said[t].content)
  BY <1>1, <1>4 DEF Aligned
<1>6. \A t \in 1..n + 1 : OnlySampled(s[t].content)
  <2>1. \A t \in 1..n + 1 : t \in 1..n \/ t = n + 1
    OBVIOUS
  <2>2. QED BY <1>3, <1>5, <2>1
<1>7. Aligned(s, << >>, << >>)
  <2>1. \A j \in 1..Len(<< >>) : FALSE
    BY <1>4
  <2>2. QED BY <1>3, <1>4, <1>6, <2>1 DEF Aligned
<1>8. QED BY <1>2, <1>7

(* The last turn is longer, with its tokens.                                *)
LEMMA AlignedMore ==
  ASSUME NEW q, NEW said \in Seq(Spoken(q)), NEW ids \in Seq(Seq(Token(q))), NEW mask \in Seq(Seq(Bit)),
         NEW y \in Spoken(q), NEW i \in Seq(Token(q)), NEW m \in Seq(Bit),
         Aligned(Append(said, y), Append(ids, i), Append(mask, m)),
         NEW more \in Seq(Token(q)), NEW w \in Seq(Bit), Selects(w, more),
         NEW z \in Spoken(q), z.content = y.content \o more
  PROVE  Aligned(Append(said, z), Append(ids, i \o more), Append(mask, m \o w))
<1>1. PICK n \in Nat, k \in Nat : n = Len(said) /\ k = Len(ids)
  BY LenProperties
<1>2. PICK s : s = Append(said, y)
  OBVIOUS
<1>3. PICK is : is = Append(ids, i)
  OBVIOUS
<1>4. PICK ms : ms = Append(mask, m)
  OBVIOUS
<1>5. Len(s) = n + 1 /\ s[n + 1] = y /\ \A t \in 1..n : s[t] = said[t]
  <2>1. Longer(s, said, y, n)
    BY <1>1, <1>2, LongerIs
  <2>2. QED BY <2>1 DEF Longer
<1>6. Len(is) = k + 1 /\ is[k + 1] = i /\ \A j \in 1..k : is[j] = ids[j]
  <2>1. Longer(is, ids, i, k)
    BY <1>1, <1>3, LongerIs
  <2>2. QED BY <2>1 DEF Longer
<1>7. Aligned(s, is, ms)
  BY <1>2, <1>3, <1>4
<1>8. Len(mask) = k
  <2>1. Len(ms) = k + 1 /\ Len(ms) = Len(mask) + 1 /\ Len(mask) \in Nat
    BY <1>4, <1>6, <1>7, AppendProperties, LenProperties DEF Aligned
  <2>2. QED BY <1>1, <2>1
<1>9. Len(ms) = k + 1 /\ ms[k + 1] = m /\ \A j \in 1..k : ms[j] = mask[j]
  <2>1. Longer(ms, mask, m, k)
    BY <1>4, <1>8, LongerIs
  <2>2. QED BY <2>1 DEF Longer
<1>10. PICK a \in Nat : a = n - k /\ (n + 1) - (k + 1) = a /\ n = a + k
  <2>1. k + 1 <= n + 1
    BY <1>5, <1>6, <1>7 DEF Aligned
  <2>2. k <= n
    BY <1>1, <2>1
  <2>3. QED BY <2>2, Apart
<1>11. /\ \A j \in 1..k + 1 : Selects(ms[j], is[j]) /\ is[j] = s[a + j].content
       /\ \A t \in 1..a : OnlySampled(s[t].content)
  BY <1>5, <1>6, <1>7, <1>10 DEF Aligned
<1>12. Selects(m, i) /\ i = y.content
  <2>1. k + 1 \in 1..k + 1 /\ a + (k + 1) = n + 1
    BY <1>10
  <2>2. QED BY <1>5, <1>6, <1>9, <1>11, <2>1
<1>13. PICK s2 : s2 = Append(said, z)
  OBVIOUS
<1>14. PICK i2 \in Seq(Token(q)) : i2 = i \o more
  BY ConcatProperties
<1>15. PICK m2 \in Seq(Bit) : m2 = m \o w
  BY ConcatProperties
<1>16. PICK is2 : is2 = Append(ids, i2)
  OBVIOUS
<1>17. PICK ms2 : ms2 = Append(mask, m2)
  OBVIOUS
<1>18. Len(s2) = n + 1 /\ s2[n + 1] = z /\ \A t \in 1..n : s2[t] = said[t]
  <2>1. Longer(s2, said, z, n)
    BY <1>1, <1>13, LongerIs
  <2>2. QED BY <2>1 DEF Longer
<1>19. Len(is2) = k + 1 /\ is2[k + 1] = i2 /\ \A j \in 1..k : is2[j] = ids[j]
  <2>1. Longer(is2, ids, i2, k)
    BY <1>1, <1>16, LongerIs
  <2>2. QED BY <2>1 DEF Longer
<1>20. Len(ms2) = k + 1 /\ ms2[k + 1] = m2 /\ \A j \in 1..k : ms2[j] = mask[j]
  <2>1. Longer(ms2, mask, m2, k)
    BY <1>8, <1>17, LongerIs
  <2>2. QED BY <2>1 DEF Longer
<1>21. Selects(m2, i2) /\ z.content = i2
  <2>1. Selects(m2, i2)
    BY <1>12, <1>14, <1>15, SelectsJoined
  <2>2. QED BY <1>12, <1>14, <2>1
<1>22. ASSUME NEW j \in 1..k + 1 PROVE Selects(ms2[j], is2[j]) /\ is2[j] = s2[a + j].content
  <2>1. CASE j = k + 1
    <3>1. a + j = n + 1
      BY <1>10, <2>1
    <3>2. QED BY <1>18, <1>19, <1>20, <1>21, <2>1, <3>1
  <2>2. CASE j # k + 1
    <3>1. j \in 1..k /\ a + j \in 1..n
      BY <1>10, <2>2
    <3>2. ms2[j] = ms[j] /\ is2[j] = is[j] /\ s2[a + j] = s[a + j]
      BY <1>5, <1>6, <1>9, <1>18, <1>19, <1>20, <3>1
    <3>3. Selects(ms[j], is[j]) /\ is[j] = s[a + j].content
      BY <1>11
    <3>4. QED BY <3>2, <3>3
  <2>3. QED BY <2>1, <2>2
<1>23. ASSUME NEW t \in 1..a PROVE OnlySampled(s2[t].content)
  <2>1. t \in 1..n
    BY <1>10
  <2>2. s2[t] = s[t]
    BY <1>5, <1>18, <2>1
  <2>3. QED BY <1>11, <2>2
<1>24. Aligned(s2, is2, ms2)
  <2>1. Len(ms2) = Len(is2) /\ Len(is2) <= Len(s2) /\ Len(s2) - Len(is2) = a /\ Len(is2) = k + 1
    <3>1. Len(ms2) = k + 1 /\ Len(is2) = k + 1 /\ Len(s2) = n + 1
      BY <1>18, <1>19, <1>20
    <3>2. k + 1 <= n + 1
      BY <1>10
    <3>3. QED BY <1>10, <3>1, <3>2
  <2>2. QED BY <1>22, <1>23, <2>1 DEF Aligned
<1>25. QED BY <1>13, <1>14, <1>15, <1>16, <1>17, <1>24

(* The log probabilities go with the turns.                                 *)
LEMMA FitNext ==
  ASSUME NEW T, NEW ids \in Seq(Seq(T)), NEW mask \in Seq(Seq(Bit)), NEW logps \in Seq(Seq(T)),
         Len(mask) = Len(ids), Fit(ids, mask, logps),
         NEW i \in Seq(T), NEW m \in Seq(Bit), NEW x \in Seq(T), x = Chosen(i, m)
  PROVE  Fit(Append(ids, i), Append(mask, m), Append(logps, x))
<1>1. PICK k \in Nat : k = Len(ids) /\ k = Len(mask) /\ k = Len(logps)
  BY LenProperties DEF Fit
<1>2. PICK is : is = Append(ids, i)
  OBVIOUS
<1>3. PICK ms : ms = Append(mask, m)
  OBVIOUS
<1>4. PICK ls : ls = Append(logps, x)
  OBVIOUS
<1>5. Len(is) = k + 1 /\ is[k + 1] = i /\ \A j \in 1..k : is[j] = ids[j]
  <2>1. Longer(is, ids, i, k)
    BY <1>1, <1>2, LongerIs
  <2>2. QED BY <2>1 DEF Longer
<1>6. Len(ms) = k + 1 /\ ms[k + 1] = m /\ \A j \in 1..k : ms[j] = mask[j]
  <2>1. Longer(ms, mask, m, k)
    BY <1>1, <1>3, LongerIs
  <2>2. QED BY <2>1 DEF Longer
<1>7. Len(ls) = k + 1 /\ ls[k + 1] = x /\ \A j \in 1..k : ls[j] = logps[j]
  <2>1. Longer(ls, logps, x, k)
    BY <1>1, <1>4, LongerIs
  <2>2. QED BY <2>1 DEF Longer
<1>8. ASSUME NEW j \in 1..k + 1 PROVE ls[j] = Chosen(is[j], ms[j])
  <2>1. CASE j = k + 1
    BY <1>5, <1>6, <1>7, <2>1
  <2>2. CASE j # k + 1
    <3>1. j \in 1..k
      BY <2>2
    <3>2. logps[j] = Chosen(ids[j], mask[j])
      BY <1>1, <3>1 DEF Fit
    <3>3. QED BY <1>5, <1>6, <1>7, <3>1, <3>2
  <2>3. QED BY <2>1, <2>2
<1>9. Fit(is, ms, ls)
  BY <1>5, <1>7, <1>8 DEF Fit
<1>10. QED BY <1>2, <1>3, <1>4, <1>9

(* The last turn and its log probabilities are longer.                      *)
LEMMA FitMore ==
  ASSUME NEW T, NEW ids \in Seq(Seq(T)), NEW mask \in Seq(Seq(Bit)), NEW logps \in Seq(Seq(T)),
         Len(mask) = Len(ids),
         NEW i \in Seq(T), NEW m \in Seq(Bit), Len(m) = Len(i), NEW l \in Seq(T),
         Fit(Append(ids, i), Append(mask, m), Append(logps, l)),
         NEW j \in Seq(T), NEW w \in Seq(Bit), Len(w) = Len(j), NEW x \in Seq(T), x = Chosen(j, w)
  PROVE  Fit(Append(ids, i \o j), Append(mask, m \o w), Append(logps, l \o x))
<1>1. PICK k \in Nat : k = Len(ids) /\ k = Len(mask)
  BY LenProperties
<1>2. PICK is : is = Append(ids, i)
  OBVIOUS
<1>3. PICK ms : ms = Append(mask, m)
  OBVIOUS
<1>4. PICK ls : ls = Append(logps, l)
  OBVIOUS
<1>5. Len(is) = k + 1 /\ is[k + 1] = i /\ \A h \in 1..k : is[h] = ids[h]
  <2>1. Longer(is, ids, i, k)
    BY <1>1, <1>2, LongerIs
  <2>2. QED BY <2>1 DEF Longer
<1>6. Len(ms) = k + 1 /\ ms[k + 1] = m /\ \A h \in 1..k : ms[h] = mask[h]
  <2>1. Longer(ms, mask, m, k)
    BY <1>1, <1>3, LongerIs
  <2>2. QED BY <2>1 DEF Longer
<1>7. Len(ls) = k + 1 /\ \A h \in 1..k + 1 : ls[h] = Chosen(is[h], ms[h])
  BY <1>2, <1>3, <1>4, <1>5 DEF Fit
<1>8. Len(logps) = k
  <2>1. Len(ls) = Len(logps) + 1 /\ Len(logps) \in Nat
    BY <1>4, AppendProperties, LenProperties
  <2>2. QED BY <1>7, <2>1
<1>9. ls[k + 1] = l /\ \A h \in 1..k : ls[h] = logps[h]
  BY <1>4, <1>8, AppendProperties
<1>10. Fit(ids, mask, logps)
  <2>1. ASSUME NEW h \in 1..k PROVE logps[h] = Chosen(ids[h], mask[h])
    <3>1. h \in 1..k + 1
      OBVIOUS
    <3>2. QED BY <1>5, <1>6, <1>7, <1>9, <3>1
  <2>2. QED BY <1>1, <1>8, <2>1 DEF Fit
<1>11. l = Chosen(i, m)
  <2>1. k + 1 \in 1..k + 1
    OBVIOUS
  <2>2. QED BY <1>5, <1>6, <1>7, <1>9, <2>1
<1>12. Chosen(i \o j, m \o w) = l \o x
  <2>1. ChoosesBoth(i, m, j, w)
    BY ChosenJoined
  <2>2. QED BY <1>11, <2>1 DEF ChoosesBoth
<1>13. PICK i2 \in Seq(T), m2 \in Seq(Bit), l2 \in Seq(T) : i2 = i \o j /\ m2 = m \o w /\ l2 = l \o x
  BY ConcatProperties
<1>14. l2 = Chosen(i2, m2)
  BY <1>12, <1>13
<1>15. Fit(Append(ids, i2), Append(mask, m2), Append(logps, l2))
  BY <1>10, <1>14, FitNext
<1>16. QED BY <1>13, <1>15

(* Front and Last of Append.                                                *)
LEMMA FrontIs ==
  ASSUME NEW S, NEW s \in Seq(S), NEW x \in S
  PROVE  Front(Append(s, x)) = s /\ Last(Append(s, x)) = x
<1>1. PICK n \in Nat : n = Len(s)
  BY LenProperties
<1>2. PICK t \in Seq(S) : t = Append(s, x)
  BY AppendProperties
<1>3. Longer(t, s, x, n)
  BY <1>1, <1>2, LongerIs
<1>4. Len(t) = n + 1 /\ t[n + 1] = x /\ \A k \in 1..n : t[k] = s[k]
  BY <1>3 DEF Longer
<1>5. Last(t) = x
  BY <1>4 DEF Last
<1>6. Front(t) = SubSeq(t, 1, n)
  <2>1. (n + 1) - 1 = n
    OBVIOUS
  <2>2. QED BY <1>4, <2>1 DEF Front
<1>7. PICK u : u = SubSeq(t, 1, n)
  OBVIOUS
<1>8. u \in Seq(S) /\ Len(u) = n /\ \A i \in 1..n : u[i] = t[i]
  <2>1. 1 \in Int /\ n \in Int /\ \A i \in 1..n : t[i] \in S
    BY <1>1, <1>4, ElementOfSeq
  <2>2. /\ u \in Seq(S) /\ Len(u) = IF 1 <= n THEN (n - 1) + 1 ELSE 0
        /\ \A i \in 1..(n - 1) + 1 : u[i] = t[(1 + i) - 1]
    BY <1>7, <2>1, SubSeqProperties
  <2>3. (n - 1) + 1 = n /\ \A i \in 1..n : (1 + i) - 1 = i
    OBVIOUS
  <2>4. QED BY <2>2, <2>3
<1>9. u = s
  BY <1>1, <1>4, <1>8, SeqEqual
<1>10. QED BY <1>2, <1>5, <1>6, <1>7, <1>9

(* Append with another last element.                                        *)
LEMMA LastReplaced ==
  ASSUME NEW S, NEW s \in Seq(S), NEW y \in S, NEW z \in S, NEW t, t = Append(s, y)
  PROVE  [t EXCEPT ![Len(t)] = z] = Append(s, z)
<1>1. PICK n \in Nat : n = Len(s)
  BY LenProperties
<1>2. t \in Seq(S) /\ Longer(t, s, y, n)
  BY <1>1, LongerIs
<1>3. Len(t) = n + 1 /\ t[n + 1] = y /\ \A k \in 1..n : t[k] = s[k]
  BY <1>2 DEF Longer
<1>4. PICK u : u = [t EXCEPT ![n + 1] = z]
  OBVIOUS
<1>5. u \in Seq(S) /\ Len(u) = n + 1 /\ \A j \in 1..n + 1 : u[j] = IF j = n + 1 THEN z ELSE t[j]
  <2>1. PICK l \in Nat : l = n + 1 /\ l = Len(t) /\ l \in 1..l
    BY <1>3
  <2>2. t \in [1..l -> S]
    BY <1>2, <2>1, LenProperties
  <2>3. u \in [1..l -> S] /\ \A j \in 1..l : u[j] = IF j = l THEN z ELSE t[j]
    BY <1>4, <2>1, <2>2
  <2>4. u \in Seq(S) /\ Len(u) = l
    BY <2>3, FunctionIsSeq
  <2>5. QED BY <2>1, <2>3, <2>4
<1>6. PICK w : w = Append(s, z)
  OBVIOUS
<1>7. w \in Seq(S) /\ Longer(w, s, z, n)
  BY <1>1, <1>6, LongerIs
<1>8. Len(w) = n + 1 /\ w[n + 1] = z /\ \A k \in 1..n : w[k] = s[k]
  BY <1>7 DEF Longer
<1>9. \A j \in 1..n + 1 : j = n + 1 \/ (j \in 1..n /\ j # n + 1)
  OBVIOUS
<1>10. \A j \in 1..n + 1 : u[j] = w[j]
  BY <1>3, <1>5, <1>8, <1>9
<1>11. u = w
  BY <1>5, <1>7, <1>8, <1>10, SeqEqual
<1>12. QED BY <1>3, <1>4, <1>6, <1>11

(* The last message with another content.                                   *)
IsReworded(t, g, y, v, z) ==
  z.role = y.role /\ z.content = v /\ [t EXCEPT ![Len(t)].content = v] = Append(g, z)

(* There is such a message.                                                 *)
LEMMA Reworded ==
  ASSUME NEW q, NEW g \in Seq(Spoken(q)), NEW y \in Spoken(q), NEW v \in Seq(Token(q)),
         NEW t, t = Append(g, y)
  PROVE  \E z \in Spoken(q) : IsReworded(t, g, y, v, z)
<1>1. PICK z : z = [y EXCEPT !.content = v]
  OBVIOUS
<1>2. z \in Spoken(q) /\ z.role = y.role /\ z.content = v
  BY <1>1 DEF Spoken
<1>3. t[Len(t)] = y
  BY FrontIs DEF Last
<1>4. [t EXCEPT ![Len(t)].content = v] = [t EXCEPT ![Len(t)] = z]
  BY <1>1, <1>3
<1>5. [t EXCEPT ![Len(t)] = z] = Append(g, z)
  BY <1>2, LastReplaced
<1>6. QED BY <1>2, <1>4, <1>5 DEF IsReworded

(* The response as it is heard: a new message after the user's, or more of  *)
(* the assistant's last one.                                                *)
HeardMore(messages, response, g, y, z) ==
  /\ y.role = "assistant" /\ Said(messages) = Append(Said(g), y)
  /\ z.role = "assistant" /\ z.content = y.content \o response
  /\ Heard(messages, response) = Append(g, z)

HeardNew(messages, response, z) ==
  z.role = "assistant" /\ z.content = response /\ Heard(messages, response) = Append(messages, z)

(* After the user, the response is a message of its own.                    *)
LEMMA HeardAfterUser ==
  ASSUME NEW q, NEW messages \in Seq(Spoken(q)), NEW response \in Seq(Token(q)),
         Last(messages).role = "user"
  PROVE  \E z \in Spoken(q) : HeardNew(messages, response, z)
<1>1. PICK z : z = Message("assistant", response)
  OBVIOUS
<1>2. z \in Spoken(q) /\ z.role = "assistant" /\ z.content = response
  BY <1>1 DEF Message, Spoken
<1>3. Heard(messages, response) = Append(messages, z)
  BY <1>1 DEF Heard
<1>4. QED BY <1>2, <1>3 DEF HeardNew

(* To be continued, it goes on with the last one of the assistant.          *)
LEMMA HeardToExtend ==
  ASSUME NEW q, NEW messages \in Seq(Spoken(q)), NEW response \in Seq(Token(q)),
         Len(messages) > 1, Last(messages).role = "dummy", messages[Len(messages) - 1].role = "assistant"
  PROVE  \E g \in Seq(Spoken(q)) : \E y \in Spoken(q) : \E z \in Spoken(q) :
           HeardMore(messages, response, g, y, z)
<1>1. messages # << >>
  BY EmptySeq
<1>2. PICK f \in Seq(Spoken(q)), x \in Spoken(q) : messages = Append(f, x)
  BY <1>1, SequenceEmptyOrAppend
<1>3. PICK n \in Nat : n = Len(f)
  BY LenProperties
<1>4. Len(messages) = n + 1 /\ \A k \in 1..n : messages[k] = f[k]
  <2>1. Longer(messages, f, x, n)
    BY <1>2, <1>3, LongerIs
  <2>2. QED BY <2>1 DEF Longer
<1>5. n \in 1..n /\ Len(messages) - 1 = n
  BY <1>4
<1>6. f[n].role = "assistant"
  BY <1>4, <1>5
<1>7. f # << >>
  BY <1>3, <1>5, EmptySeq
<1>8. PICK g \in Seq(Spoken(q)), y \in Spoken(q) : f = Append(g, y)
  BY <1>7, SequenceEmptyOrAppend
<1>9. Front(messages) = f /\ Last(messages) = x
  BY <1>2, FrontIs
<1>10. Last(f) = y /\ y.role = "assistant"
  <2>1. Last(f) = y
    BY <1>8, FrontIs
  <2>2. Last(f) = f[n]
    BY <1>3 DEF Last
  <2>3. QED BY <1>6, <2>1, <2>2
<1>11. PICK v \in Seq(Token(q)) : v = y.content \o response
  <2>1. y.content \in Seq(Token(q))
    BY DEF Spoken
  <2>2. QED BY <2>1, ConcatProperties
<1>12. PICK z \in Spoken(q) : IsReworded(f, g, y, v, z)
  BY <1>8, <1>11, Reworded
<1>13. Heard(messages, response) = [f EXCEPT ![Len(f)].content = v]
  <2>1. Heard(messages, response) = [f EXCEPT ![Len(f)].content = @ \o response]
    BY <1>9, <1>10 DEF Heard
  <2>2. f[Len(f)] = y
    BY <1>10 DEF Last
  <2>3. [f EXCEPT ![Len(f)].content = @ \o response] = [f EXCEPT ![Len(f)].content = v]
    BY <1>11, <2>2
  <2>4. QED BY <2>1, <2>3
<1>14. Said(messages) = Append(Said(g), y)
  <2>1. Said(messages) = Said(f)
    <3>1. x.role # "assistant"
      BY <1>9
    <3>2. QED BY <1>2, <3>1, SaidOne
  <2>2. Said(f) = Append(Said(g), y)
    BY <1>8, <1>10, SaidOne
  <2>3. QED BY <2>1, <2>2
<1>15. HeardMore(messages, response, g, y, z)
  BY <1>10, <1>11, <1>12, <1>13, <1>14 DEF HeardMore, IsReworded
<1>16. QED BY <1>15

(* PutTurn, of nothing and of a turn in each place.                         *)
LEMMA PutsNothing == \A place, s : PutTurn(place, s, << >>) = s
BY DEF PutTurn

LEMMA PutsTurn ==
  ASSUME NEW T, NEW x \in Seq(T), x # << >>, NEW s \in Seq(Seq(T)), NEW y \in Seq(T)
  PROVE  /\ PutTurn("first", s, x) = Append(<< >>, x)
         /\ PutTurn("next", s, x) = Append(s, x)
         /\ PutTurn("last", Append(s, y), x) = Append(s, y \o x)
<1>1. PutTurn("first", s, x) = <<x>>
  BY DEF PutTurn
<1>2. Append(<< >>, x) = <<x>>
  OBVIOUS
<1>3. PutTurn("next", s, x) = Append(s, x)
  BY DEF PutTurn
<1>4. PICK t : t = Append(s, y)
  OBVIOUS
<1>5. t # << >>
  BY <1>4, AppendProperties
<1>6. PutTurn("last", t, x) = ExtendLast(t, x)
  BY <1>5 DEF PutTurn
<1>7. QED BY <1>1, <1>2, <1>3, <1>4, <1>6, ExtendIs

(* The fields of a conversation that is over.                               *)
Became(q, f, messages, ids, mask, logps, last) ==
  /\ f \in Conversation(q)
  /\ f.messages = messages /\ f.ids = ids /\ f.mask = mask /\ f.last = last /\ f.over
  /\ f.logps = logps \/ f.logps = << >>

Answered(response) == IF args.logprobs THEN response ELSE << >>

(* These are the fields that Finished makes.                                *)
LEMMA FinishedIs ==
  ASSUME NEW q, NEW c \in Conversation(q), NEW response \in Seq(Token(q)),
         NEW messages \in Seq(Spoken(q)), messages = Heard(c.messages, response),
         NEW ids \in Seq(Seq(Token(q))), ids = PutTurn(LastPlace(c), c.ids, response),
         NEW mask \in Seq(Seq(Bit)), mask = PutTurn(LastPlace(c), c.mask, Ones(response)),
         NEW logps \in Seq(Seq(Token(q))), logps = PutTurn(LastPlace(c), c.logps, Answered(response))
  PROVE  Became(q, Finished(c, response), messages, ids, mask, logps, Answered(response))
<1>1. PICK lp \in Seq(Token(q)) : lp = Answered(response)
  BY EmptySeq DEF Answered
<1>2. PICK d : d = [c EXCEPT !.messages = messages, !.ids = ids, !.mask = mask, !.logps = logps,
                             !.last = lp, !.over = TRUE]
  OBVIOUS
<1>3. Finished(c, response) = [d EXCEPT !.logps = IF Complete(d) THEN @ ELSE << >>]
  BY <1>1, <1>2 DEF Finished, Answered
<1>4. /\ d \in Conversation(q) /\ d.messages = messages /\ d.ids = ids /\ d.mask = mask
      /\ d.logps = logps /\ d.last = lp /\ d.over = TRUE
  BY <1>2 DEF Conversation
<1>5. PICK l \in Seq(Seq(Token(q))) : l = (IF Complete(d) THEN logps ELSE << >>)
  BY EmptySeq
<1>6. l = logps \/ l = << >>
  BY <1>5
<1>7. Finished(c, response) = [d EXCEPT !.logps = l]
  BY <1>3, <1>4, <1>5
<1>8. PICK f : f = [d EXCEPT !.logps = l]
  OBVIOUS
<1>9. /\ f \in Conversation(q) /\ f.messages = messages /\ f.ids = ids /\ f.mask = mask
      /\ f.logps = l /\ f.last = lp /\ f.over = TRUE
  BY <1>4, <1>8 DEF Conversation
<1>10. QED BY <1>1, <1>6, <1>7, <1>8, <1>9 DEF Became

(* A conversation with such fields is sound.                                *)
LEMMA OverIsSound ==
  ASSUME NEW q, NEW a, NEW f, NEW messages, NEW ids \in Seq(Seq(Token(q))), NEW mask \in Seq(Seq(Bit)),
         NEW i \in Seq(Token(q)), NEW m \in Seq(Bit), NEW logps, NEW last,
         Became(q, f, messages, Append(ids, i), Append(mask, m), logps, last),
         Aligned(Said(messages), Append(ids, i), Append(mask, m)),
         IF a.logprobs THEN Fit(Append(ids, i), Append(mask, m), logps) /\ Ends(Chosen(i, m), last)
                       ELSE logps = << >> /\ last = << >>
  PROVE  Sound(a, q, f) /\ f.over
<1>1. PICK is : is = Append(ids, i)
  OBVIOUS
<1>2. PICK ms : ms = Append(mask, m)
  OBVIOUS
<1>3. is # << >>
  BY <1>1, AppendProperties
<1>4. /\ f \in Conversation(q) /\ f.messages = messages /\ f.ids = is /\ f.mask = ms
      /\ f.last = last /\ f.over
      /\ f.logps = logps \/ f.logps = << >>
  BY <1>1, <1>2 DEF Became
<1>5. Len(ms) = Len(is) /\ is[Len(is)] = i /\ ms[Len(ms)] = m
  <2>1. Last(is) = i /\ Last(ms) = m
    BY <1>1, <1>2, FrontIs
  <2>2. Len(ms) = Len(is)
    BY <1>1, <1>2 DEF Aligned
  <2>3. QED BY <2>1, <2>2 DEF Last
<1>6. f.logps # << >> => Fit(is, ms, f.logps)
  BY <1>1, <1>2, <1>4
<1>7. IsOver(a, f)
  BY <1>1, <1>2, <1>3, <1>4, <1>5, <1>6 DEF IsOver
<1>8. Aligned(Said(f.messages), f.ids, f.mask)
  BY <1>1, <1>2, <1>4
<1>9. QED BY <1>4, <1>7, <1>8 DEF Sound

(* What is joined ends with its second part, and all with itself.           *)
LEMMA EndsWith ==
  ASSUME NEW T, NEW s \in Seq(T), NEW x \in Seq(T)
  PROVE  Ends(s \o x, x) /\ Ends(x, x)
<1>1. PICK l \in Nat, k \in Nat : l = Len(s) /\ k = Len(x)
  BY LenProperties
<1>2. PICK t : t = s \o x
  OBVIOUS
<1>3. Follows(t, s, x, l, k)
  BY <1>1, <1>2, Appended
<1>4. \A j \in 1..k : l + j \in 1..l + k /\ ~(l + j <= l) /\ (l + j) - l = j
  BY Beyond
<1>5. \A j \in 1..k : t[l + j] = x[j]
  BY <1>3, <1>4 DEF Follows
<1>6. Len(t) = l + k /\ l + k >= k /\ (l + k) - k = l
  BY <1>3 DEF Follows
<1>7. Ends(t, x)
  BY <1>1, <1>5, <1>6 DEF Ends
<1>8. k >= k /\ \A j \in 1..k : (k - k) + j = j
  OBVIOUS
<1>9. Ends(x, x)
  BY <1>1, <1>8 DEF Ends
<1>10. QED BY <1>2, <1>7, <1>9

(* The mask of a turn has ones.                                             *)
LEMMA OnesNotEmpty ==
  ASSUME NEW T, NEW x \in Seq(T), x # << >>
  PROVE  Ones(x) \in Seq(Bit) /\ Ones(x) # << >> /\ Len(Ones(x)) = Len(x)
BY OnesTyped, EmptySeq

(* The last turn, after the user, to be continued, and in either case.      *)
LEMMA FinishedAfterUser ==
  ASSUME NEW q, NEW c, Sound(args, q, c), ~c.over, Asked(args, c), NEW response \in Seq(Token(q)),
         response # << >>, OnlySampled(response)
  PROVE  Sound(args, q, Finished(c, response)) /\ Finished(c, response).over
<1>1. /\ c \in Conversation(q) /\ Aligned(Said(c.messages), c.ids, c.mask) /\ GoesOn(args, c)
  BY DEF Sound
<1>2. /\ c.messages \in Seq(Spoken(q)) /\ c.ids \in Seq(Seq(Token(q))) /\ c.mask \in Seq(Seq(Bit))
      /\ c.logps \in Seq(Seq(Token(q)))
  BY <1>1 DEF Conversation
<1>3. PICK z \in Spoken(q) : HeardNew(c.messages, response, z)
  BY <1>2, HeardAfterUser DEF Asked
<1>4. PICK messages \in Seq(Spoken(q)) : messages = Append(c.messages, z)
  BY <1>2, AppendProperties
<1>5. PICK w \in Seq(Bit) : w = Ones(response) /\ w # << >> /\ Selects(w, response)
  BY OnesNotEmpty, SelectsOnes
<1>6. c.ids = << >> => c.mask = << >>
  <2>1. c.ids = << >> => Len(c.mask) = 0
    BY <1>1, EmptySeq DEF Aligned
  <2>2. QED BY <1>2, <2>1, EmptySeq
<1>7. LastPlace(c) = IF c.ids = << >> THEN "first" ELSE "next"
  BY DEF Asked, LastPlace, Continues
<1>8. PICK ids : ids = Append(c.ids, response)
  OBVIOUS
<1>9. PICK mask : mask = Append(c.mask, w)
  OBVIOUS
<1>10. ids = PutTurn(LastPlace(c), c.ids, response)
  BY <1>2, <1>7, <1>8, PutsTurn
<1>11. mask = PutTurn(LastPlace(c), c.mask, Ones(response))
  <2>1. /\ PutTurn("first", c.mask, w) = Append(<< >>, w)
        /\ PutTurn("next", c.mask, w) = Append(c.mask, w)
    BY <1>2, <1>5, PutsTurn
  <2>2. QED BY <1>5, <1>6, <1>7, <1>9, <2>1
<1>12. PICK before \in Seq(Seq(Token(q))) : before = IF c.ids = << >> THEN << >> ELSE c.logps
  BY <1>2, EmptySeq
<1>13. PICK logps \in Seq(Seq(Token(q))) : logps = IF args.logprobs THEN Append(before, response) ELSE << >>
  BY EmptySeq, AppendProperties
<1>14. logps = PutTurn(LastPlace(c), c.logps, Answered(response))
  <2>1. CASE args.logprobs
    <3>1. Answered(response) = response
      BY <2>1 DEF Answered
    <3>2. PutTurn(LastPlace(c), c.logps, response) = Append(before, response)
      <4>1. /\ PutTurn("first", c.logps, response) = Append(<< >>, response)
            /\ PutTurn("next", c.logps, response) = Append(c.logps, response)
        BY <1>2, PutsTurn
      <4>2. QED BY <1>7, <1>12, <4>1
    <3>3. QED BY <1>13, <2>1, <3>1, <3>2
  <2>2. CASE ~args.logprobs
    <3>1. Answered(response) = << >> /\ c.logps = << >>
      BY <1>1, <2>2 DEF Answered, GoesOn
    <3>2. QED BY <1>13, <2>2, <3>1, PutsNothing
  <2>3. QED BY <2>1, <2>2
<1>15. ids \in Seq(Seq(Token(q))) /\ mask \in Seq(Seq(Bit))
  BY <1>2, <1>5, <1>8, <1>9, AppendProperties
<1>16. Heard(c.messages, response) = messages /\ z.role = "assistant" /\ z.content = response
  BY <1>3, <1>4 DEF HeardNew
<1>17. Became(q, Finished(c, response), messages, ids, mask, logps, Answered(response))
  BY <1>1, <1>10, <1>11, <1>14, <1>15, <1>16, FinishedIs
<1>18. Aligned(Said(messages), ids, mask)
  <2>1. Said(messages) = Append(Said(c.messages), z)
    BY <1>2, <1>4, <1>16, SaidOne
  <2>2. Said(c.messages) \in Seq(Spoken(q))
    BY <1>2, <1>16, SaidOne
  <2>3. Aligned(Append(Said(c.messages), z), Append(c.ids, z.content), Append(c.mask, w))
    BY <1>1, <1>2, <1>5, <1>16, <2>2, AlignedNext
  <2>4. QED BY <1>8, <1>9, <1>16, <2>1, <2>3
<1>19. IF args.logprobs THEN Fit(ids, mask, logps) /\ Ends(Chosen(response, w), Answered(response))
                        ELSE logps = << >> /\ Answered(response) = << >>
  <2>1. CASE args.logprobs
    <3>1. Chosen(response, w) = response
      BY <1>5, ChosenAll
    <3>2. Answered(response) = response
      BY <2>1 DEF Answered
    <3>3. Ends(Chosen(response, w), Answered(response))
      BY <3>1, <3>2, EndsWith
    <3>4. Fit(c.ids, c.mask, before)
      <4>1. CASE c.ids = << >>
        <5>1. Fit(<< >>, << >>, << >>)
          BY EmptySeq DEF Fit
        <5>2. QED BY <1>6, <1>12, <4>1, <5>1
      <4>2. CASE c.ids # << >>
        <5>1. args.scheduler # "thinking"
          BY <4>2 DEF Asked
        <5>2. Fit(c.ids, c.mask, c.logps)
          BY <1>1, <2>1, <5>1 DEF GoesOn
        <5>3. QED BY <1>12, <4>2, <5>2
      <4>3. QED BY <4>1, <4>2
    <3>5. Len(c.mask) = Len(c.ids)
      BY <1>1 DEF Aligned
    <3>6. Fit(Append(c.ids, response), Append(c.mask, w), Append(before, response))
      BY <1>2, <3>1, <3>4, <3>5, FitNext
    <3>7. QED BY <1>8, <1>9, <1>13, <2>1, <3>3, <3>6
  <2>2. CASE ~args.logprobs
    BY <1>13, <2>2 DEF Answered
  <2>3. QED BY <2>1, <2>2
<1>20. QED BY <1>2, <1>8, <1>9, <1>17, <1>18, <1>19, OverIsSound

(* A conversation that is to be continued has turns, and log probabilities  *)
(* of them.                                                                 *)
IsAppended(s, T) == \E t \in Seq(T) : \E x \in T : s = Append(t, x)

(* So has one that Extends.                                                 *)
LEMMA HasTurns ==
  ASSUME NEW q, NEW c, Sound(args, q, c), ~c.over, Extends(args, c)
  PROVE  /\ IsAppended(c.ids, Seq(Token(q))) /\ IsAppended(c.mask, Seq(Bit))
         /\ args.logprobs => IsAppended(c.logps, Seq(Token(q)))
<1>1. /\ c \in Conversation(q) /\ Aligned(Said(c.messages), c.ids, c.mask) /\ GoesOn(args, c)
  BY DEF Sound
<1>2. /\ c.ids \in Seq(Seq(Token(q))) /\ c.mask \in Seq(Seq(Bit)) /\ c.logps \in Seq(Seq(Token(q)))
  BY <1>1 DEF Conversation
<1>3. c.ids # << >> /\ args.scheduler # "thinking"
  BY DEF Extends
<1>4. Len(c.ids) # 0 /\ Len(c.mask) = Len(c.ids)
  BY <1>1, <1>2, <1>3, EmptySeq DEF Aligned
<1>5. c.mask # << >>
  BY <1>4, EmptySeq
<1>6. args.logprobs => c.logps # << >>
  <2>1. args.logprobs => Len(c.logps) = Len(c.ids)
    BY <1>1, <1>3 DEF GoesOn, Fit
  <2>2. QED BY <1>4, <2>1, EmptySeq
<1>7. QED BY <1>2, <1>3, <1>5, <1>6, SequenceEmptyOrAppend DEF IsAppended

LEMMA FinishedToExtend ==
  ASSUME NEW q, NEW c, Sound(args, q, c), ~c.over, Extends(args, c), NEW response \in Seq(Token(q)),
         response # << >>, OnlySampled(response)
  PROVE  Sound(args, q, Finished(c, response)) /\ Finished(c, response).over
<1>1. /\ c \in Conversation(q) /\ Aligned(Said(c.messages), c.ids, c.mask) /\ GoesOn(args, c)
  BY DEF Sound
<1>2. /\ c.messages \in Seq(Spoken(q)) /\ c.ids \in Seq(Seq(Token(q))) /\ c.mask \in Seq(Seq(Bit))
      /\ c.logps \in Seq(Seq(Token(q)))
  BY <1>1 DEF Conversation
<1>3. PICK g \in Seq(Spoken(q)), y \in Spoken(q), z \in Spoken(q) : HeardMore(c.messages, response, g, y, z)
  BY <1>2, HeardToExtend DEF Extends
<1>4. PICK messages \in Seq(Spoken(q)) : messages = Append(g, z)
  BY AppendProperties
<1>5. PICK w \in Seq(Bit) : w = Ones(response) /\ w # << >> /\ Selects(w, response)
  BY OnesNotEmpty, SelectsOnes
<1>6. PICK turns \in Seq(Seq(Token(q))), i \in Seq(Token(q)) : c.ids = Append(turns, i)
  <2>1. IsAppended(c.ids, Seq(Token(q)))
    BY HasTurns
  <2>2. QED BY <2>1 DEF IsAppended
<1>7. PICK marks \in Seq(Seq(Bit)), m \in Seq(Bit) : c.mask = Append(marks, m)
  <2>1. IsAppended(c.mask, Seq(Bit))
    BY HasTurns
  <2>2. QED BY <2>1 DEF IsAppended
<1>8. LastPlace(c) = "last"
  BY DEF Extends, LastPlace, Continues
<1>9. PICK i2 \in Seq(Token(q)), m2 \in Seq(Bit) : i2 = i \o response /\ m2 = m \o w
  BY ConcatProperties
<1>10. PICK ids \in Seq(Seq(Token(q))), mask \in Seq(Seq(Bit)) :
         ids = Append(turns, i2) /\ mask = Append(marks, m2)
  BY AppendProperties
<1>11. ids = PutTurn(LastPlace(c), c.ids, response)
  BY <1>6, <1>8, <1>9, <1>10, PutsTurn
<1>12. mask = PutTurn(LastPlace(c), c.mask, Ones(response))
  <2>1. PutTurn("last", Append(marks, m), w) = Append(marks, m \o w)
    BY <1>5, PutsTurn, ZenonT(30)
  <2>2. QED BY <1>5, <1>7, <1>8, <1>9, <1>10, <2>1
<1>13. /\ y.role = "assistant" /\ Said(c.messages) = Append(Said(g), y)
       /\ z.role = "assistant" /\ z.content = y.content \o response
       /\ Heard(c.messages, response) = messages
  BY <1>3, <1>4 DEF HeardMore
<1>14. Said(g) \in Seq(Spoken(q)) /\ Said(messages) = Append(Said(g), z)
  BY <1>4, <1>13, SaidOne
<1>15. Aligned(Append(Said(g), y), Append(turns, i), Append(marks, m))
  BY <1>1, <1>6, <1>7, <1>13
<1>16. Aligned(Said(messages), ids, mask)
  <2>1. Aligned(Append(Said(g), z), Append(turns, i \o response), Append(marks, m \o w))
    BY <1>5, <1>13, <1>14, <1>15, AlignedMore
  <2>2. QED BY <1>9, <1>10, <1>14, <2>1
<1>17. Len(m) = Len(i) /\ Len(marks) = Len(turns)
  <2>1. PICK k \in Nat, h \in Nat : k = Len(turns) /\ h = Len(marks)
    BY LenProperties
  <2>2. Longer(c.ids, turns, i, k) /\ Longer(c.mask, marks, m, h)
    BY <1>6, <1>7, <2>1, LongerIs
  <2>3. Len(c.ids) = k + 1 /\ c.ids[k + 1] = i /\ Len(c.mask) = h + 1 /\ c.mask[h + 1] = m
    BY <2>2 DEF Longer
  <2>4. Len(c.mask) = Len(c.ids) /\ \A j \in 1..Len(c.ids) : Selects(c.mask[j], c.ids[j])
    BY <1>1 DEF Aligned
  <2>5. h = k /\ k + 1 \in 1..k + 1
    BY <2>3, <2>4
  <2>6. Selects(m, i)
    BY <2>3, <2>4, <2>5
  <2>7. QED BY <2>1, <2>5, <2>6 DEF Selects
<1>18. Len(w) = Len(response) /\ Chosen(response, w) = response
  BY <1>5, ChosenAll DEF Selects
<1>19. Chosen(i2, m2) = Chosen(i, m) \o response /\ Chosen(i, m) \in Seq(Token(q))
  <2>1. ChoosesBoth(i, m, response, w)
    BY <1>17, <1>18, ChosenJoined
  <2>2. QED BY <1>9, <1>17, <1>18, <2>1, ChosenTyped DEF ChoosesBoth
<1>20. PICK logps \in Seq(Seq(Token(q))) :
         /\ logps = PutTurn(LastPlace(c), c.logps, Answered(response))
         /\ IF args.logprobs THEN Fit(ids, mask, logps) ELSE logps = << >>
  <2>1. CASE args.logprobs
    <3>0. IsAppended(c.logps, Seq(Token(q)))
      BY <2>1, HasTurns
    <3>1. PICK before \in Seq(Seq(Token(q))), l \in Seq(Token(q)) : c.logps = Append(before, l)
      BY <3>0 DEF IsAppended
    <3>2. PICK l2 \in Seq(Token(q)) : l2 = l \o response
      BY ConcatProperties
    <3>3. PICK logps \in Seq(Seq(Token(q))) : logps = Append(before, l2)
      BY AppendProperties
    <3>4. PutTurn(LastPlace(c), c.logps, Answered(response)) = logps
      <4>1. Answered(response) = response
        BY <2>1 DEF Answered
      <4>2. PutTurn("last", Append(before, l), response) = Append(before, l \o response)
        BY PutsTurn
      <4>3. QED BY <1>8, <3>1, <3>2, <3>3, <4>1, <4>2
    <3>5. Fit(Append(turns, i), Append(marks, m), Append(before, l))
      <4>1. args.scheduler # "thinking"
        BY DEF Extends
      <4>2. Fit(c.ids, c.mask, c.logps)
        BY <1>1, <2>1, <4>1 DEF GoesOn
      <4>3. QED BY <1>6, <1>7, <3>1, <4>2
    <3>6. Fit(Append(turns, i \o response), Append(marks, m \o w), Append(before, l \o response))
      BY <1>17, <1>18, <3>5, FitMore
    <3>7. Fit(ids, mask, logps)
      BY <1>9, <1>10, <3>2, <3>3, <3>6
    <3>8. QED BY <2>1, <3>4, <3>7
  <2>2. CASE ~args.logprobs
    <3>1. Answered(response) = << >> /\ c.logps = << >>
      BY <1>1, <2>2 DEF Answered, GoesOn
    <3>2. PutTurn(LastPlace(c), c.logps, Answered(response)) = << >>
      BY <3>1, PutsNothing
    <3>3. << >> \in Seq(Seq(Token(q)))
      BY EmptySeq
    <3>4. QED BY <2>2, <3>2, <3>3
  <2>3. QED BY <2>1, <2>2
<1>21. Became(q, Finished(c, response), messages, ids, mask, logps, Answered(response))
  BY <1>1, <1>11, <1>12, <1>13, <1>20, FinishedIs
<1>22. IF args.logprobs THEN Fit(ids, mask, logps) /\ Ends(Chosen(i2, m2), Answered(response))
                        ELSE logps = << >> /\ Answered(response) = << >>
  <2>1. Ends(Chosen(i2, m2), response)
    BY <1>19, EndsWith
  <2>2. QED BY <1>20, <2>1 DEF Answered
<1>23. QED BY <1>10, <1>16, <1>21, <1>22, OverIsSound

LEMMA FinishedSound ==
  ASSUME NEW q, NEW c, Sound(args, q, c), ~c.over, NEW response \in Seq(Token(q)),
         response # << >>, OnlySampled(response)
  PROVE  Sound(args, q, Finished(c, response)) /\ Finished(c, response).over
<1>1. Asked(args, c) \/ Extends(args, c)
  BY DEF Sound, GoesOn
<1>2. QED BY <1>1, FinishedAfterUser, FinishedToExtend

(* The fields of a conversation that goes on.                               *)
Grew(q, c, f, messages, ids, mask, logps) ==
  /\ f \in Conversation(q)
  /\ f.messages = messages /\ f.ids = ids /\ f.mask = mask /\ f.logps = logps
  /\ f.over = c.over /\ f.turn = c.turn + 1

Another(f, c, messages, ids, mask, logps) ==
  f = [c EXCEPT !.messages = messages, !.ids = ids, !.mask = mask, !.logps = logps, !.turn = c.turn + 1]

(* A conversation with these fields is one.                                 *)
LEMMA GrewIs ==
  ASSUME NEW q, NEW c \in Conversation(q), NEW messages \in Seq(Spoken(q)),
         NEW ids \in Seq(Seq(Token(q))), NEW mask \in Seq(Seq(Bit)), NEW logps \in Seq(Seq(Token(q))),
         NEW f, Another(f, c, messages, ids, mask, logps)
  PROVE  Grew(q, c, f, messages, ids, mask, logps)
<1>1. c.turn + 1 \in Nat \ {0}
  BY DEF Conversation
<1>2. QED BY <1>1 DEF Conversation, Grew, Another

(* Append is not empty.                                                     *)
LEMMA AppendNotEmpty ==
  ASSUME NEW T, NEW s \in Seq(T), NEW x \in T
  PROVE  Append(s, x) # << >>
BY AppendProperties

(* NextTurn, with the fields it makes.                                      *)
LEMMA NextTurnIs ==
  ASSUME NEW c, NEW made, NEW messages, NEW ids, NEW mask, NEW logps, NEW lp,
         messages = Prepared(made.messages),
         lp = IF args.logprobs /\ made.logps # << >> THEN <<made.logps>> ELSE << >>,
         Added(c, c.ids, made.ids) = ids, Added(c, c.mask, made.mask) = mask,
         Added(c, c.logps, lp) = logps
  PROVE  Another(NextTurn(c, made), c, messages, ids, mask, logps)
<1>1. NextTurn(c, made) =
        [c EXCEPT !.messages = Prepared(made.messages), !.ids = Added(c, c.ids, made.ids),
                  !.mask = Added(c, c.mask, made.mask), !.logps = Added(c, c.logps, lp), !.turn = c.turn + 1]
  BY Zenon DEF NextTurn
<1>2. QED BY <1>1 DEF Another

(* NextTurn after the user: a turn is added.                                *)
LEMMA GrewAfterUser ==
  ASSUME NEW q, NEW c \in Conversation(q), Last(c.messages).role = "user",
         NEW made, NEW messages \in Seq(Spoken(q)), messages = Prepared(made.messages),
         NEW x \in Seq(Seq(Token(q))), x = made.ids, NEW w \in Seq(Seq(Bit)), w = made.mask,
         NEW l \in Seq(Token(q)), l = made.logps, l # << >>,
         NEW lp \in Seq(Seq(Token(q))), lp = IF args.logprobs THEN <<l>> ELSE << >>
  PROVE  Grew(q, c, NextTurn(c, made), messages, c.ids \o x, c.mask \o w, c.logps \o lp)
<1>1. /\ c.ids \in Seq(Seq(Token(q))) /\ c.mask \in Seq(Seq(Bit)) /\ c.logps \in Seq(Seq(Token(q)))
  BY DEF Conversation
<1>2. PICK ids \in Seq(Seq(Token(q))), mask \in Seq(Seq(Bit)), logps \in Seq(Seq(Token(q))) :
        ids = c.ids \o x /\ mask = c.mask \o w /\ logps = c.logps \o lp
  BY <1>1, ConcatProperties
<1>3. ~Continues(c.messages)
  BY DEF Continues
<1>4. lp = IF args.logprobs /\ made.logps # << >> THEN <<made.logps>> ELSE << >>
  OBVIOUS
<1>5. Another(NextTurn(c, made), c, messages, ids, mask, logps)
  <2>1. Added(c, c.ids, made.ids) = ids /\ Added(c, c.mask, made.mask) = mask /\ Added(c, c.logps, lp) = logps
    BY <1>2, <1>3 DEF Added
  <2>2. QED BY <1>4, <2>1, NextTurnIs
<1>6. QED BY <1>2, <1>5, GrewIs

(* NextTurn of one to be continued: the last turn is longer.                *)
LEMMA GrewToExtend ==
  ASSUME NEW q, NEW c \in Conversation(q), Last(c.messages).role = "dummy",
         NEW made, NEW messages \in Seq(Spoken(q)), messages = Prepared(made.messages),
         NEW turns \in Seq(Seq(Token(q))), NEW i \in Seq(Token(q)), c.ids = Append(turns, i),
         NEW marks \in Seq(Seq(Bit)), NEW m \in Seq(Bit), c.mask = Append(marks, m),
         NEW x \in Seq(Token(q)), made.ids = <<x>>, NEW w \in Seq(Bit), made.mask = <<w>>,
         NEW l \in Seq(Token(q)), l = made.logps, l # << >>,
         NEW before \in Seq(Seq(Token(q))), NEW h \in Seq(Token(q)), NEW logps,
         IF args.logprobs THEN c.logps = Append(before, h) /\ logps = Append(before, h \o l)
                          ELSE c.logps = << >> /\ logps = << >>
  PROVE  Grew(q, c, NextTurn(c, made), messages, Append(turns, i \o x), Append(marks, m \o w), logps)
<1>1. PICK i2 \in Seq(Token(q)), m2 \in Seq(Bit), h2 \in Seq(Token(q)) :
        i2 = i \o x /\ m2 = m \o w /\ h2 = h \o l
  BY ConcatProperties
<1>2. PICK ids \in Seq(Seq(Token(q))) : ids = Append(turns, i2)
  BY AppendProperties
<1>20. PICK mask \in Seq(Seq(Bit)) : mask = Append(marks, m2)
  BY AppendProperties
<1>3. ids = ExtendLast(c.ids, x) /\ mask = ExtendLast(c.mask, w)
  <2>1. ExtendLast(Append(turns, i), x) = Append(turns, i \o x)
    BY ExtendIs, ZenonT(30)
  <2>10. ids = ExtendLast(c.ids, x)
    BY <1>1, <1>2, <2>1
  <2>2. ExtendLast(Append(marks, m), w) = Append(marks, m \o w)
    BY ExtendIs, ZenonT(30)
  <2>20. mask = ExtendLast(c.mask, w)
    BY <1>1, <1>20, <2>2
  <2>3. QED BY <2>10, <2>20
<1>4. c.ids # << >> /\ c.mask # << >> /\ Continues(c.messages)
  <2>1. c.ids # << >>
    BY AppendNotEmpty
  <2>2. c.mask # << >>
    BY AppendNotEmpty
  <2>3. QED BY <2>1, <2>2 DEF Continues
<1>5. PICK lp : lp = IF args.logprobs /\ made.logps # << >> THEN <<made.logps>> ELSE << >>
  OBVIOUS
<1>6. logps = Added(c, c.logps, lp)
  <2>1. CASE args.logprobs
    <3>1. lp = <<l>> /\ lp # << >> /\ lp[1] = l
      BY <1>5, <2>1
    <3>2. c.logps # << >>
      BY <2>1, AppendNotEmpty
    <3>3. ExtendLast(c.logps, l) = Append(before, h \o l)
      <4>1. ExtendLast(Append(before, h), l) = Append(before, h \o l)
        BY ExtendIs, ZenonT(30)
      <4>2. QED BY <2>1, <4>1
    <3>4. QED BY <1>4, <2>1, <3>1, <3>2, <3>3 DEF Added
  <2>2. CASE ~args.logprobs
    <3>1. lp = << >> /\ c.logps = << >> /\ logps = << >>
      BY <1>5, <2>2
    <3>2. << >> \o << >> = << >>
      BY ConcatEmptySeq, EmptySeq
    <3>3. QED BY <3>1, <3>2 DEF Added
  <2>3. QED BY <2>1, <2>2
<1>7. logps \in Seq(Seq(Token(q)))
  <2>1. Append(before, h2) \in Seq(Seq(Token(q))) /\ << >> \in Seq(Seq(Token(q)))
    BY AppendProperties, EmptySeq
  <2>2. QED BY <1>1, <2>1
<1>8. made.ids # << >> /\ made.ids[1] = x /\ made.mask # << >> /\ made.mask[1] = w
  OBVIOUS
<1>9. Another(NextTurn(c, made), c, messages, ids, mask, logps)
  <2>1. Added(c, c.ids, made.ids) = ids /\ Added(c, c.mask, made.mask) = mask
    BY <1>3, <1>4, <1>8 DEF Added
  <2>2. QED BY <1>5, <1>6, <2>1, NextTurnIs
<1>10. Grew(q, c, NextTurn(c, made), messages, ids, mask, logps)
  BY <1>2, <1>20, <1>7, <1>9, GrewIs
<1>11. QED BY <1>1, <1>2, <1>20, <1>10

(* The messages of a conversation that is to be continued, or that asks.    *)
ToContinue(messages, g, z) ==
  /\ Said(messages) = Append(Said(g), z)
  /\ Len(messages) > 1 /\ Last(messages).role = "dummy" /\ messages[Len(messages) - 1].role = "assistant"

(* A message of the assistant, prepared for the next turn, is to be         *)
(* continued.                                                               *)
LEMMA ContinueIs ==
  ASSUME NEW q, NEW g \in Seq(Spoken(q)), NEW z \in Spoken(q), z.role = "assistant"
  PROVE  /\ Prepared(Append(g, z)) \in Seq(Spoken(q))
         /\ ToContinue(Prepared(Append(g, z)), g, z)
<1>1. PICK f \in Seq(Spoken(q)) : f = Append(g, z)
  BY AppendProperties
<1>2. PICK x \in Spoken(q) : x = Message("dummy", << >>) /\ x.role = "dummy"
  <2>1. << >> \in Seq(Token(q))
    BY EmptySeq
  <2>2. Message("dummy", << >>) \in Spoken(q) /\ Message("dummy", << >>).role = "dummy"
    BY <2>1 DEF Message, Spoken
  <2>3. QED BY <2>2
<1>3. Last(f) = z
  BY <1>1, FrontIs
<1>4. PICK messages \in Seq(Spoken(q)) : messages = Append(f, x)
  BY AppendProperties
<1>5. Prepared(f) = messages
  BY <1>2, <1>3, <1>4 DEF Prepared
<1>6. PICK n \in Nat : n = Len(g)
  BY LenProperties
<1>7. Len(f) = n + 1 /\ f[n + 1] = z
  <2>1. Longer(f, g, z, n)
    BY <1>1, <1>6, LongerIs
  <2>2. QED BY <2>1 DEF Longer
<1>8. PICK k \in Nat : k = n + 1 /\ k > 0 /\ k \in 1..k /\ (k + 1) - 1 = k /\ k + 1 > 1
  OBVIOUS
<1>9. Len(messages) = k + 1 /\ messages[k + 1] = x /\ messages[k] = z
  <2>1. Longer(messages, f, x, k)
    BY <1>4, <1>7, <1>8, LongerIs
  <2>2. QED BY <1>7, <1>8, <2>1 DEF Longer
<1>10. Said(messages) = Append(Said(g), z)
  <2>1. Said(f) = Append(Said(g), z)
    BY <1>1, SaidOne
  <2>2. Said(messages) = Said(f)
    <3>1. x.role # "assistant"
      BY <1>2
    <3>2. QED BY <1>4, <3>1, SaidOne
  <2>3. QED BY <2>1, <2>2
<1>11. Last(messages).role = "dummy" /\ messages[Len(messages) - 1].role = "assistant" /\ Len(messages) > 1
  BY <1>2, <1>8, <1>9 DEF Last
<1>12. ToContinue(messages, g, z)
  BY <1>10, <1>11 DEF ToContinue
<1>13. QED BY <1>1, <1>4, <1>5, <1>12

(* A conversation that is to be continued, and one in which the user asks,  *)
(* is sound.                                                                *)
LEMMA ContinuedIsSound ==
  ASSUME NEW q, NEW c \in Conversation(q), ~c.over, NEW f, NEW messages, NEW g, NEW z,
         NEW turns \in Seq(Seq(Token(q))), NEW i \in Seq(Token(q)), NEW mask, NEW logps,
         Grew(q, c, f, messages, Append(turns, i), mask, logps),
         ToContinue(messages, g, z), Aligned(Append(Said(g), z), Append(turns, i), mask),
         args.scheduler \in {"tips", "tool"},
         IF args.logprobs THEN Fit(Append(turns, i), mask, logps) ELSE logps = << >>
  PROVE  Sound(args, q, f) /\ ~f.over
<1>1. PICK ids : ids = Append(turns, i)
  OBVIOUS
<1>2. ids # << >>
  BY <1>1, AppendProperties
<1>3. /\ f \in Conversation(q) /\ f.messages = messages /\ f.ids = ids /\ f.mask = mask /\ f.logps = logps
      /\ ~f.over /\ f.turn = c.turn + 1
  BY <1>1 DEF Grew
<1>4. f.turn # 1
  <2>1. c.turn \in Nat \ {0}
    BY DEF Conversation
  <2>2. QED BY <1>3, <2>1
<1>5. Extends(args, f)
  BY <1>2, <1>3, <1>4 DEF Extends, ToContinue
<1>6. GoesOn(args, f)
  BY <1>1, <1>3, <1>5 DEF GoesOn
<1>7. Aligned(Said(f.messages), f.ids, f.mask)
  BY <1>1, <1>3 DEF ToContinue
<1>8. QED BY <1>3, <1>6, <1>7 DEF Sound

LEMMA AskedIsSound ==
  ASSUME NEW q, NEW c \in Conversation(q), ~c.over, NEW f, NEW messages, NEW ids, NEW mask, NEW logps,
         Grew(q, c, f, messages, ids, mask, logps),
         Last(messages).role = "user", Aligned(Said(messages), ids, mask),
         \/ args.scheduler = "thinking" /\ ids = << >>
         \/ args.scheduler = "turns" /\ args.mode = "colocate" /\ (args.logprobs => Fit(ids, mask, logps)),
         ~args.logprobs => logps = << >>
  PROVE  Sound(args, q, f) /\ ~f.over
<1>1. /\ f \in Conversation(q) /\ f.messages = messages /\ f.ids = ids /\ f.mask = mask /\ f.logps = logps
      /\ ~f.over
  BY DEF Grew
<1>2. Asked(args, f)
  BY <1>1 DEF Asked
<1>3. GoesOn(args, f)
  BY <1>1, <1>2 DEF GoesOn
<1>4. QED BY <1>1, <1>3 DEF Sound

(* A sequence of one element, and Append by it.                             *)
LEMMA OneIs ==
  ASSUME NEW T, NEW x \in T
  PROVE  <<x>> \in Seq(T) /\ Len(<<x>>) = 1 /\ <<x>>[1] = x
<1>1. PICK f : f = <<x>>
  OBVIOUS
<1>2. f \in [1..1 -> T] /\ f[1] = x
  BY <1>1
<1>3. QED BY <1>1, <1>2, FunctionIsSeq

LEMMA AppendOne ==
  ASSUME NEW T, NEW s \in Seq(T), NEW x \in T
  PROVE  s \o <<x>> = Append(s, x)
BY AppendIsConcat

AddsToLast(a, b, x) == Append(a \o b, x) = a \o Append(b, x)

(* Append goes to the last of what is joined.                               *)
LEMMA AppendJoined ==
  ASSUME NEW T, NEW a \in Seq(T), NEW b \in Seq(T), NEW x \in T
  PROVE  AddsToLast(a, b, x)
<1>1. PICK one \in Seq(T) : one = <<x>>
  BY OneIs
<1>2. PICK c \in Seq(T), d \in Seq(T) : c = a \o b /\ d = b \o one
  BY ConcatProperties
<1>3. Append(c, x) = c \o one /\ Append(b, x) = d
  BY <1>1, <1>2, AppendOne
<1>4. c \o one = a \o d
  BY <1>2, ConcatAssociative
<1>5. QED BY <1>2, <1>3, <1>4 DEF AddsToLast

(* The step of a turn that adds text to what is said.                       *)
TurnOf(made, g, z, x, w, l) ==
  /\ made.messages = Append(g, z) /\ z.role = "assistant"
  /\ made.ids = <<x>> /\ made.mask = <<w>> /\ made.logps = l

(* NextTurn is sound when the step added text to a turn: after the user,    *)
(* and to one to be continued.                                              *)
LEMMA TextAfterUser ==
  ASSUME NEW q, NEW c, Sound(args, q, c), ~c.over, Asked(args, c), args.scheduler \in {"tips", "tool"},
         NEW z \in Spoken(q), NEW x \in Seq(Token(q)), x = z.content, NEW w \in Seq(Bit), Selects(w, x),
         NEW l \in Seq(Token(q)), l # << >>, l = Chosen(x, w),
         NEW made, TurnOf(made, c.messages, z, x, w, l)
  PROVE  Sound(args, q, NextTurn(c, made)) /\ ~NextTurn(c, made).over
<1>1. /\ c \in Conversation(q) /\ Aligned(Said(c.messages), c.ids, c.mask) /\ GoesOn(args, c)
  BY DEF Sound
<1>2. /\ c.messages \in Seq(Spoken(q)) /\ c.ids \in Seq(Seq(Token(q))) /\ c.mask \in Seq(Seq(Bit))
      /\ c.logps \in Seq(Seq(Token(q)))
  BY <1>1 DEF Conversation
<1>3. /\ made.messages = Append(c.messages, z) /\ z.role = "assistant"
      /\ made.ids = <<x>> /\ made.mask = <<w>> /\ made.logps = l
  BY DEF TurnOf
<1>4. PICK messages \in Seq(Spoken(q)) :
        messages = Prepared(Append(c.messages, z)) /\ ToContinue(messages, c.messages, z)
  BY <1>2, <1>3, ContinueIs
<1>5. PICK xs \in Seq(Seq(Token(q))) : xs = <<x>>
  BY OneIs
<1>6. PICK ws \in Seq(Seq(Bit)) : ws = <<w>>
  BY OneIs
<1>7. PICK lp \in Seq(Seq(Token(q))) : lp = IF args.logprobs THEN <<l>> ELSE << >>
  <2>1. << >> \in Seq(Seq(Token(q))) /\ <<l>> \in Seq(Seq(Token(q)))
    BY EmptySeq, OneIs
  <2>2. QED BY <2>1
<1>8. PICK logps : logps = c.logps \o lp
  OBVIOUS
<1>9. c.ids \o xs = Append(c.ids, x)
  BY <1>2, <1>5, AppendOne
<1>10. c.mask \o ws = Append(c.mask, w)
  BY <1>2, <1>6, AppendOne
<1>11. Grew(q, c, NextTurn(c, made), messages, Append(c.ids, x), Append(c.mask, w), logps)
  <2>1. Last(c.messages).role = "user"
    BY DEF Asked
  <2>2. Grew(q, c, NextTurn(c, made), messages, c.ids \o xs, c.mask \o ws, c.logps \o lp)
    BY <1>1, <1>3, <1>4, <1>5, <1>6, <1>7, <2>1, GrewAfterUser
  <2>3. QED BY <1>8, <1>9, <1>10, <2>2
<1>12. Said(c.messages) \in Seq(Spoken(q))
  BY <1>2, <1>4, SaidOne
<1>13. Aligned(Append(Said(c.messages), z), Append(c.ids, x), Append(c.mask, w))
  <2>1. Aligned(Append(Said(c.messages), z), Append(c.ids, z.content), Append(c.mask, w))
    BY <1>1, <1>2, <1>12, AlignedNext
  <2>2. QED BY <2>1
<1>14. IF args.logprobs THEN Fit(Append(c.ids, x), Append(c.mask, w), logps) ELSE logps = << >>
  <2>1. CASE args.logprobs
    <3>1. lp = <<l>>
      BY <1>7, <2>1
    <3>2. logps = Append(c.logps, l)
      BY <1>2, <1>8, <3>1, AppendOne
    <3>3. Fit(c.ids, c.mask, c.logps) /\ Len(c.mask) = Len(c.ids)
      BY <1>1, <2>1 DEF GoesOn, Aligned
    <3>4. Fit(Append(c.ids, x), Append(c.mask, w), Append(c.logps, l))
      BY <1>2, <3>3, FitNext
    <3>5. QED BY <2>1, <3>2, <3>4
  <2>2. CASE ~args.logprobs
    <3>1. c.logps = << >> /\ lp = << >>
      BY <1>1, <1>7, <2>2 DEF GoesOn
    <3>2. logps = << >>
      BY <1>2, <1>8, <3>1, ConcatEmptySeq
    <3>3. QED BY <2>2, <3>2
  <2>3. QED BY <2>1, <2>2
<1>15. QED BY <1>1, <1>2, <1>4, <1>11, <1>13, <1>14, ContinuedIsSound

LEMMA TextToExtend ==
  ASSUME NEW q, NEW c, Sound(args, q, c), ~c.over, Extends(args, c),
         NEW g \in Seq(Spoken(q)), NEW y \in Spoken(q), Said(c.messages) = Append(Said(g), y),
         NEW z \in Spoken(q), NEW x \in Seq(Token(q)), z.content = y.content \o x,
         NEW w \in Seq(Bit), Selects(w, x),
         NEW l \in Seq(Token(q)), l # << >>, l = Chosen(x, w),
         NEW made, TurnOf(made, g, z, x, w, l)
  PROVE  Sound(args, q, NextTurn(c, made)) /\ ~NextTurn(c, made).over
<1>1. /\ c \in Conversation(q) /\ Aligned(Said(c.messages), c.ids, c.mask) /\ GoesOn(args, c)
  BY DEF Sound
<1>2. /\ c.messages \in Seq(Spoken(q)) /\ c.ids \in Seq(Seq(Token(q))) /\ c.mask \in Seq(Seq(Bit))
      /\ c.logps \in Seq(Seq(Token(q)))
  BY <1>1 DEF Conversation
<1>3. /\ made.messages = Append(g, z) /\ z.role = "assistant"
      /\ made.ids = <<x>> /\ made.mask = <<w>> /\ made.logps = l
  BY DEF TurnOf
<1>4. PICK messages \in Seq(Spoken(q)) : messages = Prepared(Append(g, z)) /\ ToContinue(messages, g, z)
  BY <1>3, ContinueIs
<1>5. PICK turns \in Seq(Seq(Token(q))), i \in Seq(Token(q)) : c.ids = Append(turns, i)
  <2>1. IsAppended(c.ids, Seq(Token(q)))
    BY HasTurns
  <2>2. QED BY <2>1 DEF IsAppended
<1>6. PICK marks \in Seq(Seq(Bit)), m \in Seq(Bit) : c.mask = Append(marks, m)
  BY HasTurns DEF IsAppended
<1>7. Len(m) = Len(i) /\ Len(marks) = Len(turns)
  <2>1. PICK k \in Nat, h \in Nat : k = Len(turns) /\ h = Len(marks)
    BY LenProperties
  <2>2. Longer(c.ids, turns, i, k) /\ Longer(c.mask, marks, m, h)
    BY <1>5, <1>6, <2>1, LongerIs
  <2>3. Len(c.ids) = k + 1 /\ c.ids[k + 1] = i /\ Len(c.mask) = h + 1 /\ c.mask[h + 1] = m
    BY <2>2 DEF Longer
  <2>4. Len(c.mask) = Len(c.ids) /\ \A j \in 1..Len(c.ids) : Selects(c.mask[j], c.ids[j])
    BY <1>1 DEF Aligned
  <2>5. h = k /\ k + 1 \in 1..k + 1
    BY <2>3, <2>4
  <2>6. Selects(m, i)
    BY <2>3, <2>4, <2>5
  <2>7. QED BY <2>1, <2>5, <2>6 DEF Selects
<1>8. PICK i2 \in Seq(Token(q)) : i2 = i \o x
  BY ConcatProperties
<1>9. PICK mask : mask = Append(marks, m \o w)
  OBVIOUS
<1>10. Said(g) \in Seq(Spoken(q))
  BY <1>3, SaidOne
<1>11. Aligned(Append(Said(g), z), Append(turns, i2), mask)
  <2>1. Aligned(Append(Said(g), y), Append(turns, i), Append(marks, m))
    BY <1>1, <1>5, <1>6
  <2>2. Aligned(Append(Said(g), z), Append(turns, i \o x), Append(marks, m \o w))
    BY <1>10, <2>1, AlignedMore
  <2>3. QED BY <1>8, <1>9, <2>2
<1>12. Last(c.messages).role = "dummy" /\ args.scheduler \in {"tips", "tool"}
  BY DEF Extends
<1>13. PICK logps :
         /\ Grew(q, c, NextTurn(c, made), messages, Append(turns, i2), mask, logps)
         /\ IF args.logprobs THEN Fit(Append(turns, i2), mask, logps) ELSE logps = << >>
  <2>1. CASE args.logprobs
    <3>0. IsAppended(c.logps, Seq(Token(q)))
      BY <2>1, HasTurns
    <3>1. PICK before \in Seq(Seq(Token(q))), h \in Seq(Token(q)) : c.logps = Append(before, h)
      BY <3>0 DEF IsAppended
    <3>2. PICK logps : logps = Append(before, h \o l)
      OBVIOUS
    <3>3. Grew(q, c, NextTurn(c, made), messages, Append(turns, i \o x), Append(marks, m \o w), logps)
      BY <1>1, <1>3, <1>4, <1>5, <1>6, <1>12, <2>1, <3>1, <3>2, GrewToExtend
    <3>4. Fit(Append(turns, i), Append(marks, m), Append(before, h))
      <4>1. Fit(c.ids, c.mask, c.logps)
        BY <1>1, <1>12, <2>1 DEF GoesOn
      <4>2. QED BY <1>5, <1>6, <3>1, <4>1
    <3>5. Fit(Append(turns, i \o x), Append(marks, m \o w), Append(before, h \o l))
      <4>1. Len(w) = Len(x)
        BY DEF Selects
      <4>2. QED BY <1>7, <3>4, <4>1, FitMore
    <3>6. QED BY <1>8, <1>9, <2>1, <3>2, <3>3, <3>5
  <2>2. CASE ~args.logprobs
    <3>1. c.logps = << >>
      BY <1>1, <2>2 DEF GoesOn
    <3>2. PICK before \in Seq(Seq(Token(q))), h \in Seq(Token(q)) : before = << >> /\ h = << >>
      BY EmptySeq
    <3>3. Grew(q, c, NextTurn(c, made), messages, Append(turns, i \o x), Append(marks, m \o w), << >>)
      BY <1>1, <1>3, <1>4, <1>5, <1>6, <1>12, <2>2, <3>1, <3>2, GrewToExtend
    <3>4. QED BY <1>8, <1>9, <2>2, <3>3
  <2>3. QED BY <2>1, <2>2
<1>14. QED BY <1>1, <1>4, <1>8, <1>11, <1>12, <1>13, ContinuedIsSound

(* What a turn of n tokens is.                                              *)
LEMMA SampledIs ==
  ASSUME NEW q, NEW t \in Nat, NEW n \in Nat \ {0}
  PROVE  /\ Sampled(q, t, n) \in Seq(Token(q)) /\ Sampled(q, t, n) # << >> /\ Len(Sampled(q, t, n)) = n
         /\ OnlySampled(Sampled(q, t, n))
<1>1. PICK f : f = Sampled(q, t, n)
  OBVIOUS
<1>2. f \in [1..n -> Token(q)] /\ \A k \in 1..n : f[k] = <<q, t, k>>
  BY <1>1 DEF Sampled, Token
<1>3. f \in Seq(Token(q)) /\ Len(f) = n
  BY <1>2, FunctionIsSeq
<1>4. f # << >>
  BY <1>3, EmptySeq
<1>5. \A k \in 1..n : f[k][3] # 0
  BY <1>2
<1>6. QED BY <1>1, <1>3, <1>4, <1>5 DEF OnlySampled

(* The text of the scheduler is no sampled token.                           *)
LEMMA TextIs ==
  ASSUME NEW q, NEW t \in Nat
  PROVE  Text(q, t) \in Token(q) /\ Text(q, t)[3] = 0
BY DEF Text, Token

(* The first tokens of a turn.                                              *)
LEMMA FirstOf ==
  ASSUME NEW T, NEW s \in Seq(T), OnlySampled(s), NEW k \in 1..Len(s)
  PROVE  SubSeq(s, 1, k) \in Seq(T) /\ SubSeq(s, 1, k) # << >> /\ OnlySampled(SubSeq(s, 1, k))
<1>1. PICK n \in Nat : n = Len(s)
  BY LenProperties
<1>2. PICK f : f = SubSeq(s, 1, k)
  OBVIOUS
<1>3. k \in Nat /\ k >= 1 /\ k <= n
  BY <1>1
<1>4. f \in Seq(T) /\ Len(f) = k /\ \A i \in 1..k : f[i] = s[i]
  <2>1. 1 \in Int /\ k \in Int /\ \A i \in 1..k : s[i] \in T
    BY <1>1, <1>3, ElementOfSeq
  <2>2. /\ f \in Seq(T) /\ Len(f) = IF 1 <= k THEN (k - 1) + 1 ELSE 0
        /\ \A i \in 1..(k - 1) + 1 : f[i] = s[(1 + i) - 1]
    BY <1>2, <2>1, SubSeqProperties
  <2>3. (k - 1) + 1 = k /\ \A i \in 1..k : (1 + i) - 1 = i
    BY <1>3
  <2>4. QED BY <1>3, <2>2, <2>3
<1>5. \A i \in 1..k : f[i][3] # 0
  <2>1. \A i \in 1..k : i \in 1..n
    BY <1>3
  <2>2. QED BY <1>1, <1>4, <2>1 DEF OnlySampled
<1>6. f # << >>
  BY <1>3, <1>4, EmptySeq
<1>7. QED BY <1>2, <1>4, <1>5, <1>6 DEF OnlySampled

(* Tokens with a text after them, and the mask that leaves it out.          *)
TextAdded(x, w, l) == Selects(w, x) /\ l = Chosen(x, w)

(* Sampled tokens with a text after them are such a turn.                   *)
LEMMA TextAddedIs ==
  ASSUME NEW T, NEW s \in Seq(T), OnlySampled(s), NEW e \in T, e[3] = 0
  PROVE  /\ Append(s, e) \in Seq(T) /\ Append(Ones(s), 0) \in Seq(Bit)
         /\ TextAdded(Append(s, e), Append(Ones(s), 0), s)
<1>1. Ones(s) \in Seq(Bit) /\ Len(Ones(s)) = Len(s) /\ Selects(Ones(s), s)
  BY OnesTyped, SelectsOnes
<1>2. 0 \in Bit /\ 0 # 1
  BY DEF Bit
<1>3. Append(s, e) \in Seq(T)
  BY AppendProperties
<1>4. Append(Ones(s), 0) \in Seq(Bit)
  BY <1>1, <1>2, AppendProperties
<1>5. Selects(Append(Ones(s), 0), Append(s, e))
  BY <1>1, SelectsText
<1>6. Chosen(Append(s, e), Append(Ones(s), 0)) = s
  BY <1>1, <1>2, ChosenOne, ChosenAll
<1>7. QED BY <1>3, <1>4, <1>5, <1>6 DEF TextAdded

(* The scheduler's step, one scheduler at a time.                           *)
StepOf(made, said, content, x, w, l) ==
  made = [messages |-> [said EXCEPT ![Len(said)].content = content],
          ids |-> <<x>>, mask |-> <<w>>, logps |-> l]

(* MathTips.                                                                *)
LEMMA SteppedTip ==
  ASSUME NEW c, NEW response, NEW kept, NEW text, args.scheduler = "tips", kept # << >>,
         NEW said, said = Heard(c.messages, response),
         NEW x, x = Append(kept, text), NEW w, w = Append(Ones(kept), 0),
         NEW made, made = Stepped(c, response, kept, text)
  PROVE  StepOf(made, said, x, x, w, kept)
BY DEF Stepped, TipsMask, StepOf

(* ToolCall.                                                                *)
LEMMA SteppedTool ==
  ASSUME NEW c, NEW response, NEW kept, NEW text, args.scheduler = "tool",
         NEW said, said = Heard(c.messages, response), NEW v, v = Append(Last(said).content, text),
         NEW x, x = Append(response, text), NEW w, w = Append(Ones(response), 0),
         NEW made, made = Stepped(c, response, kept, text)
  PROVE  StepOf(made, said, v, x, w, response)
BY DEF Stepped, StepOf

(* ThinkingModelTips.                                                       *)
LEMMA SteppedThinking ==
  ASSUME NEW c, NEW response, NEW kept, NEW text, args.scheduler = "thinking"
  PROVE  Stepped(c, response, kept, text) =
           [messages |-> Append(Heard(c.messages, response), Message("user", << >>)),
            ids |-> << >>, mask |-> << >>, logps |-> response]
BY DEF Stepped

(* A scheduler that returns the turn and answers as the user.               *)
LEMMA SteppedTurns ==
  ASSUME NEW c, NEW response, NEW kept, NEW text, args.scheduler = "turns"
  PROVE  Stepped(c, response, kept, text) =
           [messages |-> Append(Heard(c.messages, response), Message("user", << >>)),
            ids |-> <<response>>, mask |-> <<Ones(response)>>, logps |-> response]
BY DEF Stepped

(* Another turn after each of these steps is sound.                         *)
LEMMA TipSound ==
  ASSUME NEW q, NEW c, Sound(args, q, c), ~c.over, Asked(args, c), args.scheduler = "tips",
         NEW response \in Seq(Token(q)), NEW kept \in Seq(Token(q)), kept # << >>, OnlySampled(kept),
         NEW text \in Token(q), text[3] = 0, NEW made, made = Stepped(c, response, kept, text)
  PROVE  Sound(args, q, NextTurn(c, made)) /\ ~NextTurn(c, made).over
<1>1. c.messages \in Seq(Spoken(q)) /\ Last(c.messages).role = "user"
  BY DEF Sound, Conversation, Asked
<1>2. PICK y \in Spoken(q) : HeardNew(c.messages, response, y)
  BY <1>1, HeardAfterUser
<1>3. PICK said : said = Append(c.messages, y)
  OBVIOUS
<1>4. PICK x \in Seq(Token(q)), w \in Seq(Bit) :
        x = Append(kept, text) /\ w = Append(Ones(kept), 0) /\ TextAdded(x, w, kept)
  BY TextAddedIs
<1>5. PICK z \in Spoken(q) : IsReworded(said, c.messages, y, x, z)
  BY <1>1, <1>3, Reworded
<1>6. said = Heard(c.messages, response) /\ y.role = "assistant"
  BY <1>2, <1>3 DEF HeardNew
<1>7. StepOf(made, said, x, x, w, kept)
  BY <1>4, <1>6, SteppedTip
<1>8. TurnOf(made, c.messages, z, x, w, kept) /\ x = z.content
  BY <1>5, <1>6, <1>7 DEF IsReworded, TurnOf, StepOf
<1>9. QED BY <1>4, <1>8, TextAfterUser DEF TextAdded

LEMMA ToolSound ==
  ASSUME NEW q, NEW c, Sound(args, q, c), ~c.over, args.scheduler = "tool",
         NEW response \in Seq(Token(q)), response # << >>, OnlySampled(response), NEW kept,
         NEW text \in Token(q), text[3] = 0, NEW made, made = Stepped(c, response, kept, text)
  PROVE  Sound(args, q, NextTurn(c, made)) /\ ~NextTurn(c, made).over
<1>1. c.messages \in Seq(Spoken(q))
  BY DEF Sound, Conversation
<1>2. PICK x \in Seq(Token(q)), w \in Seq(Bit) :
        x = Append(response, text) /\ w = Append(Ones(response), 0) /\ TextAdded(x, w, response)
  BY TextAddedIs
<1>3. CASE Asked(args, c)
  <2>1. PICK y \in Spoken(q) : HeardNew(c.messages, response, y)
    BY <1>1, <1>3, HeardAfterUser DEF Asked
  <2>2. PICK said : said = Append(c.messages, y)
    OBVIOUS
  <2>3. said = Heard(c.messages, response) /\ y.role = "assistant" /\ y.content = response
    BY <2>1, <2>2 DEF HeardNew
  <2>4. Last(said) = y
    BY <1>1, <2>2, FrontIs
  <2>5. PICK z \in Spoken(q) : IsReworded(said, c.messages, y, x, z)
    BY <1>1, <2>2, Reworded
  <2>6. x = Append(Last(said).content, text)
    BY <1>2, <2>3, <2>4
  <2>7. StepOf(made, said, x, x, w, response)
    BY <1>2, <2>3, <2>6, SteppedTool
  <2>8. TurnOf(made, c.messages, z, x, w, response) /\ x = z.content
    BY <2>3, <2>5, <2>7 DEF IsReworded, TurnOf, StepOf
  <2>9. QED BY <1>2, <1>3, <2>8, TextAfterUser DEF TextAdded
<1>4. CASE Extends(args, c)
  <2>1. PICK g \in Seq(Spoken(q)), y \in Spoken(q), h \in Spoken(q) : HeardMore(c.messages, response, g, y, h)
    BY <1>1, <1>4, HeardToExtend DEF Extends
  <2>2. PICK said : said = Append(g, h)
    OBVIOUS
  <2>3. /\ said = Heard(c.messages, response) /\ h.role = "assistant" /\ h.content = y.content \o response
        /\ Said(c.messages) = Append(Said(g), y)
    BY <2>1, <2>2 DEF HeardMore
  <2>4. Last(said) = h
    BY <2>2, FrontIs
  <2>5. y.content \in Seq(Token(q))
    BY DEF Spoken
  <2>6. PICK v \in Seq(Token(q)) : v = y.content \o x
    BY <2>5, ConcatProperties
  <2>7. v = Append(Last(said).content, text)
    <3>1. PICK b \in Seq(Token(q)) : b = y.content
      BY <2>5
    <3>2. Append(b \o response, text) = b \o Append(response, text)
      <4>1. AddsToLast(b, response, text)
        BY <3>1, AppendJoined
      <4>2. QED BY <4>1 DEF AddsToLast
    <3>3. QED BY <1>2, <2>3, <2>4, <2>6, <3>1, <3>2
  <2>8. PICK z \in Spoken(q) : IsReworded(said, g, h, v, z)
    BY <2>2, Reworded
  <2>9. StepOf(made, said, v, x, w, response)
    BY <1>2, <2>3, <2>7, SteppedTool
  <2>10. TurnOf(made, g, z, x, w, response) /\ z.content = y.content \o x
    BY <2>3, <2>6, <2>8, <2>9 DEF IsReworded, TurnOf, StepOf
  <2>11. QED BY <1>2, <1>4, <2>3, <2>10, TextToExtend DEF TextAdded
<1>5. QED BY <1>3, <1>4 DEF Sound, GoesOn

(* The user answers.                                                        *)
UserAnswers(messages, said, z) ==
  /\ messages = Append(Append(said, z), Message("user", << >>))
  /\ Prepared(messages) = messages /\ Last(messages).role = "user"
  /\ Said(messages) = Append(Said(said), z)

(* There are such messages.                                                 *)
LEMMA UserAnswersIs ==
  ASSUME NEW q, NEW said \in Seq(Spoken(q)), NEW z \in Spoken(q), z.role = "assistant"
  PROVE  \E messages \in Seq(Spoken(q)) : UserAnswers(messages, said, z)
<1>1. PICK f \in Seq(Spoken(q)) : f = Append(said, z)
  BY AppendProperties
<1>2. PICK x \in Spoken(q) : x = Message("user", << >>) /\ x.role = "user"
  <2>1. << >> \in Seq(Token(q))
    BY EmptySeq
  <2>2. Message("user", << >>) \in Spoken(q) /\ Message("user", << >>).role = "user"
    BY <2>1 DEF Message, Spoken
  <2>3. QED BY <2>2
<1>3. PICK messages \in Seq(Spoken(q)) : messages = Append(f, x)
  BY AppendProperties
<1>4. Last(messages) = x
  BY <1>3, FrontIs
<1>5. Prepared(messages) = messages
  BY <1>2, <1>4 DEF Prepared
<1>6. Said(messages) = Said(f)
  <2>1. x.role # "assistant"
    BY <1>2
  <2>2. QED BY <1>3, <2>1, SaidOne
<1>7. Said(f) = Append(Said(said), z)
  BY <1>1, SaidOne
<1>8. UserAnswers(messages, said, z)
  BY <1>1, <1>2, <1>3, <1>4, <1>5, <1>6, <1>7 DEF UserAnswers
<1>9. QED BY <1>8

LEMMA ThinkingSound ==
  ASSUME NEW q, NEW c, Sound(args, q, c), ~c.over, args.scheduler = "thinking",
         NEW response \in Seq(Token(q)), response # << >>, OnlySampled(response), NEW kept, NEW text,
         NEW made, made = Stepped(c, response, kept, text)
  PROVE  Sound(args, q, NextTurn(c, made)) /\ ~NextTurn(c, made).over
<1>1. /\ c \in Conversation(q) /\ Aligned(Said(c.messages), c.ids, c.mask) /\ GoesOn(args, c)
  BY DEF Sound
<1>2. /\ c.messages \in Seq(Spoken(q)) /\ c.ids \in Seq(Seq(Token(q))) /\ c.mask \in Seq(Seq(Bit))
      /\ c.logps \in Seq(Seq(Token(q)))
  BY <1>1 DEF Conversation
<1>3. Last(c.messages).role = "user" /\ c.ids = << >>
  BY <1>1 DEF GoesOn, Asked, Extends
<1>4. c.mask = << >>
  BY <1>1, <1>2, <1>3, EmptySeq DEF Aligned
<1>5. PICK z \in Spoken(q) : HeardNew(c.messages, response, z)
  BY <1>2, <1>3, HeardAfterUser
<1>6. Heard(c.messages, response) = Append(c.messages, z) /\ z.role = "assistant" /\ z.content = response
  BY <1>5 DEF HeardNew
<1>7. PICK messages \in Seq(Spoken(q)) : UserAnswers(messages, c.messages, z)
  BY <1>2, <1>6, UserAnswersIs
<1>8. made.messages = messages /\ made.ids = << >> /\ made.mask = << >> /\ made.logps = response
  BY <1>6, <1>7, SteppedThinking DEF UserAnswers
<1>9. PICK lp \in Seq(Seq(Token(q))) : lp = IF args.logprobs THEN <<response>> ELSE << >>
  <2>1. << >> \in Seq(Seq(Token(q))) /\ <<response>> \in Seq(Seq(Token(q)))
    BY EmptySeq, OneIs
  <2>2. QED BY <2>1
<1>10. PICK none \in Seq(Seq(Token(q))), unmasked \in Seq(Seq(Bit)) : none = << >> /\ unmasked = << >>
  BY EmptySeq
<1>11. PICK logps : logps = c.logps \o lp
  OBVIOUS
<1>12. Grew(q, c, NextTurn(c, made), messages, << >>, << >>, logps)
  <2>1. Prepared(made.messages) = messages /\ none = made.ids /\ unmasked = made.mask
    BY <1>7, <1>8, <1>10 DEF UserAnswers
  <2>2. Grew(q, c, NextTurn(c, made), messages, c.ids \o none, c.mask \o unmasked, c.logps \o lp)
    BY <1>1, <1>3, <1>8, <1>9, <2>1, GrewAfterUser
  <2>3. c.ids \o none = << >> /\ c.mask \o unmasked = << >>
    BY <1>2, <1>3, <1>4, <1>10, ConcatEmptySeq
  <2>4. QED BY <1>11, <2>2, <2>3
<1>13. Aligned(Said(messages), << >>, << >>)
  <2>1. Said(c.messages) \in Seq(Spoken(q))
    BY <1>2, <1>5, SaidOne
  <2>2. Aligned(Append(Said(c.messages), z), << >>, << >>)
    BY <1>1, <1>3, <1>4, <1>6, <2>1, AlignedPlain
  <2>3. QED BY <1>7, <2>2 DEF UserAnswers
<1>14. ~args.logprobs => logps = << >>
  <2>1. ~args.logprobs => c.logps = << >> /\ lp = << >>
    BY <1>1, <1>9 DEF GoesOn
  <2>2. QED BY <1>2, <1>11, <2>1, ConcatEmptySeq
<1>15. QED BY <1>1, <1>7, <1>12, <1>13, <1>14, AskedIsSound DEF UserAnswers

LEMMA TurnsSound ==
  ASSUME NEW q, NEW c, Sound(args, q, c), ~c.over, args.scheduler = "turns", args.mode = "colocate",
         NEW response \in Seq(Token(q)), response # << >>, OnlySampled(response), NEW kept, NEW text,
         NEW made, made = Stepped(c, response, kept, text)
  PROVE  Sound(args, q, NextTurn(c, made)) /\ ~NextTurn(c, made).over
<1>1. /\ c \in Conversation(q) /\ Aligned(Said(c.messages), c.ids, c.mask) /\ GoesOn(args, c)
  BY DEF Sound
<1>2. /\ c.messages \in Seq(Spoken(q)) /\ c.ids \in Seq(Seq(Token(q))) /\ c.mask \in Seq(Seq(Bit))
      /\ c.logps \in Seq(Seq(Token(q)))
  BY <1>1 DEF Conversation
<1>3. Last(c.messages).role = "user"
  BY <1>1 DEF GoesOn, Asked, Extends
<1>4. PICK w \in Seq(Bit) : w = Ones(response) /\ Selects(w, response)
  BY OnesNotEmpty, SelectsOnes
<1>5. PICK z \in Spoken(q) : HeardNew(c.messages, response, z)
  BY <1>2, <1>3, HeardAfterUser
<1>6. Heard(c.messages, response) = Append(c.messages, z) /\ z.role = "assistant" /\ z.content = response
  BY <1>5 DEF HeardNew
<1>7. PICK messages \in Seq(Spoken(q)) : UserAnswers(messages, c.messages, z)
  BY <1>2, <1>6, UserAnswersIs
<1>8. made.messages = messages /\ made.ids = <<response>> /\ made.mask = <<w>> /\ made.logps = response
  BY <1>4, <1>6, <1>7, SteppedTurns DEF UserAnswers
<1>9. PICK lp \in Seq(Seq(Token(q))) : lp = IF args.logprobs THEN <<response>> ELSE << >>
  <2>1. << >> \in Seq(Seq(Token(q))) /\ <<response>> \in Seq(Seq(Token(q)))
    BY EmptySeq, OneIs
  <2>2. QED BY <2>1
<1>10. PICK xs \in Seq(Seq(Token(q))) : xs = <<response>>
  BY OneIs
<1>11. PICK ws \in Seq(Seq(Bit)) : ws = <<w>>
  BY OneIs
<1>12. PICK logps : logps = c.logps \o lp
  OBVIOUS
<1>13. c.ids \o xs = Append(c.ids, response)
  BY <1>2, <1>10, AppendOne
<1>14. c.mask \o ws = Append(c.mask, w)
  BY <1>2, <1>11, AppendOne
<1>15. Grew(q, c, NextTurn(c, made), messages, Append(c.ids, response), Append(c.mask, w), logps)
  <2>1. Prepared(made.messages) = messages /\ xs = made.ids /\ ws = made.mask
    BY <1>7, <1>8, <1>10, <1>11 DEF UserAnswers
  <2>2. Grew(q, c, NextTurn(c, made), messages, c.ids \o xs, c.mask \o ws, c.logps \o lp)
    BY <1>1, <1>3, <1>8, <1>9, <2>1, GrewAfterUser
  <2>3. QED BY <1>12, <1>13, <1>14, <2>2
<1>16. Aligned(Said(messages), Append(c.ids, response), Append(c.mask, w))
  <2>1. Said(c.messages) \in Seq(Spoken(q))
    BY <1>2, <1>5, SaidOne
  <2>2. Aligned(Append(Said(c.messages), z), Append(c.ids, z.content), Append(c.mask, w))
    BY <1>1, <1>2, <1>4, <1>6, <2>1, AlignedNext
  <2>3. QED BY <1>6, <1>7, <2>2 DEF UserAnswers
<1>17. IF args.logprobs THEN Fit(Append(c.ids, response), Append(c.mask, w), logps) ELSE logps = << >>
  <2>1. CASE args.logprobs
    <3>1. lp = <<response>>
      BY <1>9, <2>1
    <3>2. logps = Append(c.logps, response)
      BY <1>2, <1>12, <3>1, AppendOne
    <3>3. Fit(c.ids, c.mask, c.logps) /\ Len(c.mask) = Len(c.ids)
      BY <1>1, <2>1 DEF GoesOn, Aligned
    <3>4. Chosen(response, w) = response
      BY <1>4, ChosenAll
    <3>5. Fit(Append(c.ids, response), Append(c.mask, w), Append(c.logps, response))
      BY <1>2, <3>3, <3>4, FitNext
    <3>6. QED BY <2>1, <3>2, <3>5
  <2>2. CASE ~args.logprobs
    <3>1. c.logps = << >> /\ lp = << >>
      BY <1>1, <1>9, <2>2 DEF GoesOn
    <3>2. logps = << >>
      BY <1>2, <1>12, <3>1, ConcatEmptySeq
    <3>3. QED BY <2>2, <3>2
  <2>3. QED BY <2>1, <2>2
<1>18. QED BY <1>1, <1>7, <1>15, <1>16, <1>17, AskedIsSound DEF UserAnswers

(* The settings in which the code keeps tokens and messages together: not   *)
(* with a step that returns tokens without a mask, nor with one that        *)
(* returns a turn's tokens and answers as the user where run has no branch  *)
(* for a last turn of that kind (mode "server"); and a turn has a token, if *)
(* only the one that ends it.  TLC shows TurnsInPlace violated without any  *)
(* of the three.                                                            *)
Supported ==
  /\ \A a \in Args : a.scheduler # "unmasked" /\ (a.mode = "server" => a.scheduler # "turns")
  /\ \A q \in Request : 0 \notin TurnTokens[q]

(* A turn keeps a conversation sound, whatever the scheduler makes of it.   *)
LEMMA AfterTurnSound ==
  ASSUME Supported, args \in Args, NEW q \in Request, Sound(args, q, conv[q]), ~conv[q].over,
         NEW n \in TurnTokens[q], NEW f \in AfterTurn(q, Sampled(q, conv[q].turn, n))
  PROVE  Sound(args, q, f)
<1>1. PICK c : c = conv[q]
  OBVIOUS
<1>2. c \in Conversation(q) /\ c.turn \in Nat
  BY <1>1 DEF Sound, Conversation
<1>3. n \in Nat \ {0}
  BY MultiTurnConstants DEF Supported
<1>4. PICK response \in Seq(Token(q)) :
        response = Sampled(q, c.turn, n) /\ response # << >> /\ OnlySampled(response)
  BY <1>2, <1>3, SampledIs
<1>5. CASE f = Finished(c, response)
  BY <1>1, <1>4, <1>5, FinishedSound
<1>6. CASE f # Finished(c, response)
  <2>1. PICK k : /\ k \in IF args.scheduler = "tips" /\ response # << >> THEN DOMAIN response ELSE {Len(response)}
                 /\ f = NextTurn(c, Stepped(c, response, SubSeq(response, 1, k), Text(q, c.turn)))
                 /\ MayGoOn(c)
    BY <1>1, <1>4, <1>6 DEF AfterTurn
  <2>2. PICK text \in Token(q) : text = Text(q, c.turn) /\ text[3] = 0
    BY <1>2, TextIs
  <2>3. PICK kept : kept = SubSeq(response, 1, k)
    OBVIOUS
  <2>4. PICK made : made = Stepped(c, response, kept, text)
    OBVIOUS
  <2>5. f = NextTurn(c, made)
    BY <2>1, <2>2, <2>3, <2>4
  <2>6. CASE args.scheduler = "tips"
    <3>1. k \in 1..Len(response)
      BY <1>4, <2>1, <2>6, LenProperties
    <3>2. kept \in Seq(Token(q)) /\ kept # << >> /\ OnlySampled(kept)
      BY <1>4, <2>3, <3>1, FirstOf
    <3>3. Asked(args, c)
      <4>1. c.turn = 1
        BY <2>1, <2>6 DEF MayGoOn
      <4>2. ~Extends(args, c)
        BY <4>1 DEF Extends
      <4>3. QED BY <1>1, <4>2 DEF Sound, GoesOn
    <3>4. QED BY <1>1, <2>2, <2>4, <2>5, <2>6, <3>2, <3>3, TipSound
  <2>7. CASE args.scheduler = "tool"
    BY <1>1, <1>4, <2>2, <2>4, <2>5, <2>7, ToolSound
  <2>8. CASE args.scheduler = "thinking"
    BY <1>1, <1>4, <2>4, <2>5, <2>8, ThinkingSound
  <2>9. CASE args.scheduler = "turns"
    <3>1. args.mode = "colocate"
      BY <2>9, MultiTurnConstants DEF Supported
    <3>2. QED BY <1>1, <1>4, <2>4, <2>5, <2>9, <3>1, TurnsSound
  <2>10. args.scheduler \in {"tips", "tool", "thinking", "turns"}
    BY MultiTurnConstants DEF Supported, Schedulers
  <2>11. QED BY <2>6, <2>7, <2>8, <2>9, <2>10
<1>7. QED BY <1>5, <1>6

(* A sequence that ends with another one.                                   *)
LEMMA EndsIs ==
  ASSUME NEW T, NEW s \in Seq(T), NEW b \in Seq(T), Ends(s, b)
  PROVE  \E a \in Seq(T) : s = a \o b
<1>1. PICK k \in Nat, n \in Nat : k = Len(b) /\ n = Len(s)
  BY LenProperties
<1>2. PICK l \in Nat : n = l + k /\ l = n - k
  <2>1. n >= k
    BY <1>1 DEF Ends
  <2>2. n - k \in Nat /\ n = (n - k) + k
    BY <2>1
  <2>3. QED BY <2>2
<1>3. PICK a : a = [i \in 1..l |-> s[i]]
  OBVIOUS
<1>4. a \in Seq(T) /\ Len(a) = l
  <2>1. \A i \in 1..l : s[i] \in T
    <3>1. \A i \in 1..l : i \in 1..n
      BY <1>2
    <3>2. QED BY <1>1, <3>1, ElementOfSeq
  <2>2. a \in [1..l -> T]
    BY <1>3, <2>1
  <2>3. QED BY <2>2, FunctionIsSeq
<1>5. PICK c : c = a \o b
  OBVIOUS
<1>6. c \in Seq(T) /\ Follows(c, a, b, l, k)
  BY <1>1, <1>4, <1>5, Appended
<1>7. Len(c) = n /\ \A i \in 1..n : c[i] = IF i <= l THEN a[i] ELSE b[i - l]
  BY <1>2, <1>6 DEF Follows
<1>8. ASSUME NEW i \in 1..n PROVE c[i] = s[i]
  <2>1. CASE i <= l
    BY <1>3, <1>7, <2>1
  <2>2. CASE ~(i <= l)
    <3>1. i - l \in 1..k /\ l + (i - l) = i
      BY <1>2, <2>2
    <3>2. s[l + (i - l)] = b[i - l]
      BY <1>1, <1>2, <3>1 DEF Ends
    <3>3. QED BY <1>7, <2>2, <3>1, <3>2
  <2>3. QED BY <2>1, <2>2
<1>9. c = s
  BY <1>1, <1>6, <1>7, <1>8, SeqEqual
<1>10. QED BY <1>4, <1>5, <1>9

(* A sequence that ends with one as long is that one.                       *)
LEMMA EndsWhole ==
  ASSUME NEW T, NEW s \in Seq(T), NEW b \in Seq(T), Ends(s, b), Len(b) = Len(s)
  PROVE  s = b
<1>1. PICK n \in Nat : n = Len(s) /\ n = Len(b)
  BY LenProperties
<1>2. \A i \in 1..n : (n - n) + i = i
  OBVIOUS
<1>3. \A i \in 1..n : s[i] = b[i]
  BY <1>1, <1>2 DEF Ends
<1>4. QED BY <1>1, <1>3, SeqEqual

(* Lists that end with others, joined; and lists whose last one ends with a *)
(* sequence.                                                                *)
LEMMA EndsJoined ==
  ASSUME NEW T, NEW lists \in Seq(Seq(T)), NEW more \in Seq(Seq(T)), Ends(lists, more)
  PROVE  /\ FlattenSeq(lists) \in Seq(T) /\ FlattenSeq(more) \in Seq(T)
         /\ Ends(FlattenSeq(lists), FlattenSeq(more))
<1>1. PICK a \in Seq(Seq(T)) : lists = a \o more
  BY EndsIs
<1>2. PICK f \in Seq(T), g \in Seq(T) : f = FlattenSeq(a) /\ g = FlattenSeq(more)
  BY FlattenOne
<1>3. FlattenSeq(lists) = f \o g
  BY <1>1, <1>2, FlattenJoined
<1>4. f \o g \in Seq(T) /\ Ends(f \o g, g)
  BY ConcatProperties, EndsWith
<1>5. QED BY <1>2, <1>3, <1>4

LEMMA EndsLast ==
  ASSUME NEW T, NEW lists \in Seq(Seq(T)), NEW x \in Seq(T), NEW last \in Seq(T), Ends(x, last)
  PROVE  /\ FlattenSeq(Append(lists, x)) \in Seq(T)
         /\ Ends(FlattenSeq(Append(lists, x)), last)
<1>1. PICK b \in Seq(T) : x = b \o last
  BY EndsIs
<1>2. PICK f \in Seq(T) : f = FlattenSeq(lists)
  BY FlattenOne
<1>3. FlattenSeq(Append(lists, x)) = f \o x
  BY <1>2, FlattenOne
<1>4. PICK g \in Seq(T) : g = f \o b
  BY ConcatProperties
<1>5. f \o x = g \o last
  BY <1>1, <1>4, ConcatAssociative
<1>6. g \o last \in Seq(T) /\ Ends(g \o last, last)
  BY ConcatProperties, EndsWith
<1>7. QED BY <1>3, <1>5, <1>6

(* What is trained on in each message.                                      *)
ReplacedBy(c, q, turns, n, ahead) ==
  /\ n = Len(Said(c.messages)) /\ DOMAIN turns = 1..n /\ ahead \in Nat /\ n = ahead + Len(c.ids)
  /\ \A j \in 1..Len(c.ids) :
       /\ turns[ahead + j].ids = c.ids[j] /\ turns[ahead + j].mask = c.mask[j]
       /\ turns[ahead + j].text = c.ids[j]
  /\ \A t \in 1..ahead :
       /\ turns[t].ids = turns[t].text /\ turns[t].text \in Seq(Token(q)) /\ OnlySampled(turns[t].text)
       /\ turns[t].mask = Ones(turns[t].text)

(* replace_assistant_response_with_ids refuses nothing and replaces the     *)
(* last messages by their own tokens.                                       *)
LEMMA ReplacedIs ==
  ASSUME NEW q, NEW c \in Conversation(q), Aligned(Said(c.messages), c.ids, c.mask), c.ids # << >>
  PROVE  /\ ~Refused(c)
         /\ \E n \in Nat : \E ahead \in Nat : ReplacedBy(c, q, Replaced(c), n, ahead)
<1>1. /\ c.messages \in Seq(Spoken(q)) /\ c.ids \in Seq(Seq(Token(q))) /\ c.mask \in Seq(Seq(Bit))
  BY DEF Conversation
<1>2. PICK said \in Seq(Spoken(q)) : said = Said(c.messages)
  <2>1. c.messages = << >> \/ \E s \in Seq(Spoken(q)) : \E x \in Spoken(q) : c.messages = Append(s, x)
    BY <1>1, SequenceEmptyOrAppend
  <2>2. Said(<< >>) = << >> /\ << >> \in Seq(Spoken(q))
    BY KeptNone, EmptySeq DEF Said
  <2>3. CASE c.messages = << >>
    BY <2>2, <2>3
  <2>4. CASE c.messages # << >>
    <3>1. PICK s \in Seq(Spoken(q)), x \in Spoken(q) : c.messages = Append(s, x)
      BY <2>1, <2>4
    <3>2. Said(c.messages) \in Seq(Spoken(q))
      BY <1>1, <3>1, SaidOne
    <3>3. QED BY <3>2
  <2>5. QED BY <2>3, <2>4
<1>3. PICK n \in Nat, k \in Nat : n = Len(said) /\ k = Len(c.ids) /\ k = Len(c.mask) /\ k <= n
  BY <1>1, <1>2, LenProperties DEF Aligned
<1>4. PICK ahead \in Nat : ahead = n - k /\ n = ahead + k
  <2>1. n - k \in Nat /\ n = (n - k) + k
    BY <1>3
  <2>2. QED BY <2>1
<1>5. \A j \in 1..k : Selects(c.mask[j], c.ids[j]) /\ c.ids[j] = said[ahead + j].content
  BY <1>2, <1>3, <1>4 DEF Aligned
<1>6. \A t \in 1..ahead : OnlySampled(said[t].content)
  BY <1>2, <1>3, <1>4 DEF Aligned
<1>7. DOMAIN c.mask = 1..k /\ DOMAIN c.ids = 1..k /\ DOMAIN said = 1..n
  BY <1>1, <1>3, LenProperties
<1>8. ~Refused(c)
  <2>1. \A j \in 1..k : Len(c.mask[j]) = Len(c.ids[j])
    BY <1>5 DEF Selects
  <2>2. QED BY <1>7, <2>1 DEF Refused
<1>9. c.mask # << >>
  <2>1. k # 0
    BY <1>1, <1>3, EmptySeq
  <2>2. QED BY <1>3, <2>1, EmptySeq
<1>10. PICK turns : turns = Replaced(c)
  OBVIOUS
<1>11. turns = [t \in 1..n |->
         LET text == said[t].content
             ids == IF t > ahead THEN c.ids[t - ahead] ELSE text
         IN  [text |-> text, ids |-> ids,
              mask |-> IF t > ahead /\ c.mask # << >> THEN c.mask[t - ahead] ELSE Ones(ids)]]
  BY <1>2, <1>3, <1>4, <1>7, <1>10 DEF Replaced
<1>12. ASSUME NEW j \in 1..k
       PROVE  /\ turns[ahead + j].ids = c.ids[j] /\ turns[ahead + j].mask = c.mask[j]
              /\ turns[ahead + j].text = c.ids[j]
  <2>1. ahead + j \in 1..n /\ ahead + j > ahead /\ (ahead + j) - ahead = j
    BY <1>4
  <2>2. QED BY <1>5, <1>9, <1>11, <2>1
<1>13. ASSUME NEW t \in 1..ahead
       PROVE  /\ turns[t].ids = turns[t].text /\ turns[t].text \in Seq(Token(q)) /\ OnlySampled(turns[t].text)
              /\ turns[t].mask = Ones(turns[t].text)
  <2>1. t \in 1..n /\ ~(t > ahead)
    BY <1>4
  <2>2. /\ turns[t].text = said[t].content /\ turns[t].ids = said[t].content
        /\ turns[t].mask = Ones(said[t].content)
    BY <1>11, <2>1
  <2>3. said[t] \in Spoken(q)
    BY <1>3, <2>1, ElementOfSeq
  <2>4. said[t].content \in Seq(Token(q))
    BY <2>3 DEF Spoken
  <2>5. QED BY <1>6, <2>2, <2>4
<1>14. DOMAIN turns = 1..n
  BY <1>11
<1>15. ReplacedBy(c, q, turns, n, ahead)
  BY <1>2, <1>3, <1>4, <1>12, <1>13, <1>14 DEF ReplacedBy
<1>16. QED BY <1>8, <1>10, <1>15

(* What it returns is in place.                                             *)
LEMMA IsInPlace ==
  ASSUME NEW q, NEW c \in Conversation(q), Aligned(Said(c.messages), c.ids, c.mask),
         NEW n \in Nat, NEW ahead \in Nat, NEW s, ~s.refused, ReplacedBy(c, q, s.turns, n, ahead)
  PROVE  InPlace(q, s)
<1>1. PICK k \in Nat : k = Len(c.ids) /\ n = ahead + k /\ c.ids \in Seq(Seq(Token(q)))
  BY LenProperties DEF Conversation, ReplacedBy
<1>2. ASSUME NEW t \in 1..n
      PROVE  /\ s.turns[t].ids = s.turns[t].text /\ s.turns[t].ids \in Seq(Token(q))
             /\ Selects(s.turns[t].mask, s.turns[t].ids)
  <2>1. CASE t > ahead
    <3>1. PICK j \in 1..k : t = ahead + j
      <4>1. t - ahead \in 1..k /\ t = ahead + (t - ahead)
        BY <1>1, <2>1
      <4>2. QED BY <4>1
    <3>2. s.turns[t].ids = c.ids[j] /\ s.turns[t].mask = c.mask[j] /\ s.turns[t].text = c.ids[j]
      BY <1>1, <3>1 DEF ReplacedBy
    <3>3. c.ids[j] \in Seq(Token(q)) /\ Selects(c.mask[j], c.ids[j])
      BY <1>1, ElementOfSeq DEF Aligned
    <3>4. QED BY <3>2, <3>3
  <2>2. CASE ~(t > ahead)
    <3>1. t \in 1..ahead
      BY <2>2
    <3>2. /\ s.turns[t].ids = s.turns[t].text /\ s.turns[t].text \in Seq(Token(q))
          /\ OnlySampled(s.turns[t].text)
          /\ s.turns[t].mask = Ones(s.turns[t].text)
      BY <3>1 DEF ReplacedBy
    <3>3. QED BY <3>2, SelectsOnes
  <2>3. QED BY <2>1, <2>2
<1>3. ASSUME NEW t \in 1..n, NEW k2 \in DOMAIN s.turns[t].ids
      PROVE  s.turns[t].ids[k2][1] = q /\ (s.turns[t].mask[k2] = 1 <=> s.turns[t].ids[k2][3] # 0)
  <2>1. PICK ids \in Seq(Token(q)) : ids = s.turns[t].ids
    BY <1>2
  <2>2. k2 \in 1..Len(ids)
    BY <2>1, LenProperties
  <2>3. ids[k2] \in Token(q)
    BY <2>2, ElementOfSeq
  <2>4. ids[k2][1] = q
    BY <2>3 DEF Token
  <2>5. s.turns[t].mask[k2] = 1 <=> ids[k2][3] # 0
    BY <1>2, <2>1, <2>2 DEF Selects
  <2>6. QED BY <2>1, <2>4, <2>5
<1>4. DOMAIN s.turns = 1..n
  BY DEF ReplacedBy
<1>5. QED BY <1>2, <1>3, <1>4 DEF InPlace

(* What the loss is taken on ends with what the log probabilities are of.   *)
LEMMA StandsIf ==
  ASSUME NEW T, NEW s, s.logps \in Seq(T), Trained(s) \in Seq(T), Ends(Trained(s), s.logps)
  PROVE  Stands(s)
<1>1. Len(s.logps) = Len(Trained(s)) => s.logps = Trained(s)
  BY EndsWhole
<1>2. QED BY <1>1 DEF Stands, Scattered

(* The choices of all turns, those of the last ones and that of the last.   *)
ChosenTurns(s) == [t \in DOMAIN s.turns |-> Chosen(s.turns[t].ids, s.turns[t].mask)]

(* They are sequences, the last ones those of the tokens that were added    *)
(* up.                                                                      *)
LEMMA ChosenTurnsIs ==
  ASSUME NEW q, NEW c \in Conversation(q), Aligned(Said(c.messages), c.ids, c.mask),
         NEW n \in Nat, NEW ahead \in Nat, NEW s, ReplacedBy(c, q, s.turns, n, ahead)
  PROVE  /\ ChosenTurns(s) \in Seq(Seq(Token(q))) /\ Len(ChosenTurns(s)) = n
         /\ \A j \in 1..Len(c.ids) : ChosenTurns(s)[ahead + j] = Chosen(c.ids[j], c.mask[j])
<1>1. PICK k \in Nat :
        k = Len(c.ids) /\ n = ahead + k /\ c.ids \in Seq(Seq(Token(q))) /\ c.mask \in Seq(Seq(Bit))
  BY LenProperties DEF Conversation, ReplacedBy
<1>2. DOMAIN s.turns = 1..n
  BY DEF ReplacedBy
<1>3. PICK f : f = ChosenTurns(s)
  OBVIOUS
<1>4. f = [t \in 1..n |-> Chosen(s.turns[t].ids, s.turns[t].mask)]
  BY <1>2, <1>3 DEF ChosenTurns
<1>5. ASSUME NEW j \in 1..k
      PROVE  /\ ahead + j \in 1..n /\ f[ahead + j] = Chosen(c.ids[j], c.mask[j])
             /\ f[ahead + j] \in Seq(Token(q))
  <2>1. ahead + j \in 1..n
    BY <1>1
  <2>2. s.turns[ahead + j].ids = c.ids[j] /\ s.turns[ahead + j].mask = c.mask[j]
    BY <1>1 DEF ReplacedBy
  <2>3. f[ahead + j] = Chosen(c.ids[j], c.mask[j])
    BY <1>4, <2>1, <2>2
  <2>4. c.ids[j] \in Seq(Token(q)) /\ c.mask[j] \in Seq(Bit) /\ Len(c.mask[j]) = Len(c.ids[j])
    <3>1. Len(c.mask) = k /\ \A l \in 1..k : Selects(c.mask[l], c.ids[l])
      BY <1>1 DEF Aligned
    <3>2. QED BY <1>1, <3>1, ElementOfSeq DEF Selects
  <2>5. Chosen(c.ids[j], c.mask[j]) \in Seq(Token(q))
    BY <2>4, ChosenTyped
  <2>6. QED BY <2>1, <2>3, <2>5
<1>6. ASSUME NEW t \in 1..n PROVE f[t] \in Seq(Token(q))
  <2>1. CASE t > ahead
    <3>1. PICK j \in 1..k : t = ahead + j
      <4>1. t - ahead \in 1..k /\ t = ahead + (t - ahead)
        BY <1>1, <2>1
      <4>2. QED BY <4>1
    <3>2. QED BY <1>5, <3>1
  <2>2. CASE ~(t > ahead)
    <3>1. t \in 1..ahead
      BY <2>2
    <3>2. /\ s.turns[t].ids = s.turns[t].text /\ s.turns[t].text \in Seq(Token(q))
          /\ s.turns[t].mask = Ones(s.turns[t].text)
      BY <3>1 DEF ReplacedBy
    <3>3. Chosen(s.turns[t].text, Ones(s.turns[t].text)) = s.turns[t].text
      BY <3>2, ChosenAll
    <3>4. QED BY <1>4, <3>2, <3>3
  <2>3. QED BY <2>1, <2>2
<1>7. f \in [1..n -> Seq(Token(q))]
  BY <1>4, <1>6
<1>8. f \in Seq(Seq(Token(q))) /\ Len(f) = n
  BY <1>7, FunctionIsSeq
<1>9. QED BY <1>1, <1>3, <1>5, <1>8

(* The log probabilities stand on them, or are not used.                    *)
LEMMA ItStands ==
  ASSUME NEW q, NEW a, NEW c \in Conversation(q), Aligned(Said(c.messages), c.ids, c.mask), IsOver(a, c),
         NEW n \in Nat, NEW ahead \in Nat, NEW s, ReplacedBy(c, q, s.turns, n, ahead),
         s.logps = IF c.logps # << >> THEN FlattenSeq(c.logps) ELSE c.last
  PROVE  Stands(s)
<1>1. PICK f \in Seq(Seq(Token(q))) : f = ChosenTurns(s)
  BY ChosenTurnsIs
<1>2. Len(f) = n /\ \A j \in 1..Len(c.ids) : f[ahead + j] = Chosen(c.ids[j], c.mask[j])
  BY <1>1, ChosenTurnsIs
<1>3. Trained(s) = FlattenSeq(f)
  BY <1>1 DEF Trained, ChosenTurns
<1>4. PICK k \in Nat : k = Len(c.ids) /\ n = ahead + k /\ k \in 1..k
  <2>1. c.ids # << >> /\ c.ids \in Seq(Seq(Token(q)))
    BY DEF Conversation, IsOver
  <2>2. PICK k \in Nat : k = Len(c.ids) /\ k # 0
    BY <2>1, LenProperties, EmptySeq
  <2>3. n = ahead + k
    BY <2>2 DEF ReplacedBy
  <2>4. QED BY <2>2, <2>3
<1>5. n - k = ahead /\ n >= k
  BY <1>4
<1>6. CASE c.logps # << >>
  <2>1. PICK more \in Seq(Seq(Token(q))) : more = c.logps
    BY DEF Conversation
  <2>2. Len(more) = k /\ \A j \in 1..k : more[j] = Chosen(c.ids[j], c.mask[j])
    BY <1>4, <1>6, <2>1 DEF IsOver, Fit
  <2>3. Ends(f, more)
    BY <1>2, <1>4, <1>5, <2>2 DEF Ends
  <2>4. /\ FlattenSeq(f) \in Seq(Token(q)) /\ FlattenSeq(more) \in Seq(Token(q))
        /\ Ends(FlattenSeq(f), FlattenSeq(more))
    BY <2>3, EndsJoined
  <2>5. s.logps = FlattenSeq(more)
    BY <1>6, <2>1
  <2>6. QED BY <1>3, <2>4, <2>5, StandsIf
<1>7. CASE c.logps = << >>
  <2>1. s.logps = c.last /\ c.last \in Seq(Token(q))
    BY <1>7 DEF Conversation
  <2>2. CASE a.logprobs
    <3>1. f # << >>
      <4>1. n # 0
        BY <1>4
      <4>2. QED BY <1>2, <4>1, EmptySeq
    <3>2. PICK lists \in Seq(Seq(Token(q))), x \in Seq(Token(q)) : f = Append(lists, x)
      BY <3>1, SequenceEmptyOrAppend
    <3>3. x = Chosen(c.ids[k], c.mask[k])
      <4>1. Last(f) = x
        BY <3>2, FrontIs
      <4>2. Last(f) = f[ahead + k]
        BY <1>2, <1>4 DEF Last
      <4>3. QED BY <1>2, <1>4, <4>1, <4>2
    <3>4. Ends(x, c.last)
      BY <1>4, <2>2, <3>3 DEF IsOver
    <3>5. FlattenSeq(f) \in Seq(Token(q)) /\ Ends(FlattenSeq(f), c.last)
      BY <2>1, <3>2, <3>4, EndsLast
    <3>6. QED BY <1>3, <2>1, <3>5, StandsIf
  <2>3. CASE ~a.logprobs
    <3>1. s.logps = << >>
      BY <2>1, <2>3 DEF IsOver
    <3>2. QED BY <3>1 DEF Stands, Scattered
  <2>4. QED BY <2>2, <2>3
<1>8. QED BY <1>6, <1>7

(* A sample of a conversation that is over.                                 *)
LEMMA SampleIs ==
  ASSUME NEW a, NEW q, NEW c, Sound(a, q, c), c.over
  PROVE  InPlace(q, Sample(c)) /\ Stands(Sample(c))
<1>1. c \in Conversation(q) /\ Aligned(Said(c.messages), c.ids, c.mask) /\ IsOver(a, c)
  BY DEF Sound
<1>2. ~Refused(c) /\ \E n \in Nat : \E ahead \in Nat : ReplacedBy(c, q, Replaced(c), n, ahead)
  BY <1>1, ReplacedIs DEF IsOver
<1>3. PICK n \in Nat, ahead \in Nat : ReplacedBy(c, q, Replaced(c), n, ahead)
  BY <1>2
<1>4. PICK s : s = Sample(c)
  OBVIOUS
<1>5. ~s.refused /\ s.turns = Replaced(c) /\ s.logps = IF c.logps # << >> THEN FlattenSeq(c.logps) ELSE c.last
  BY <1>2, <1>4 DEF Sample
<1>6. InPlace(q, s)
  BY <1>1, <1>3, <1>5, IsInPlace
<1>7. Stands(s)
  BY <1>1, <1>3, <1>5, ItStands
<1>8. QED BY <1>4, <1>6, <1>7

(* The elements of s that are in G.                                         *)
MarksOf(s, G) == [k \in DOMAIN s |-> s[k] \in G]

KeepsThose(t, s, G) ==
  /\ \A j \in 1..Len(t) : t[j] \in G /\ \E k \in 1..Len(s) : s[k] = t[j]
  /\ \A k \in 1..Len(s) : s[k] \in G => \E j \in 1..Len(t) : t[j] = s[k]

KeepsAll(s, t, G) == KeepsThose(t, s, G) /\ (Distinct(s) => Distinct(t))

(* One element more.                                                        *)
LEMMA KeepsOneMore ==
  ASSUME NEW T, NEW G, NEW s \in Seq(T), NEW t \in Seq(T), NEW x \in T, NEW u, u = Append(s, x),
         KeepsAll(s, t, G),
         NEW v, v = IF x \in G THEN Append(t, x) ELSE t
  PROVE  KeepsAll(u, v, G)
<1>1. PICK n \in Nat, l \in Nat : n = Len(s) /\ l = Len(t)
  BY LenProperties
<1>2. Len(u) = n + 1 /\ u[n + 1] = x /\ \A k \in 1..n : u[k] = s[k]
  <2>1. Longer(u, s, x, n)
    BY <1>1, LongerIs
  <2>2. QED BY <2>1 DEF Longer
<1>3. /\ \A j \in 1..l : t[j] \in G /\ \E k \in 1..n : s[k] = t[j]
      /\ \A k \in 1..n : s[k] \in G => \E j \in 1..l : t[j] = s[k]
  BY <1>1 DEF KeepsThose, KeepsAll
<1>4. \A k \in 1..n : k \in 1..n + 1 /\ k # n + 1
  BY <1>1
<1>5. \A k \in 1..n + 1 : k \in 1..n \/ k = n + 1
  BY <1>1
<1>6. n + 1 \in 1..n + 1
  BY <1>1
<1>7. Distinct(u) => Distinct(t) /\ \A k \in 1..n : s[k] # x
  <2>1. Distinct(u) => Distinct(s)
    BY <1>1, <1>2, <1>4 DEF Distinct
  <2>2. Distinct(u) => \A k \in 1..n : s[k] # x
    BY <1>2, <1>4, <1>6 DEF Distinct
  <2>3. QED BY <2>1, <2>2 DEF KeepsAll
<1>8. CASE x \in G
  <2>1. Len(v) = l + 1 /\ v[l + 1] = x /\ \A k \in 1..l : v[k] = t[k]
    <3>1. Longer(v, t, x, l)
      BY <1>1, <1>8, LongerIs
    <3>2. QED BY <3>1 DEF Longer
  <2>2. \A k \in 1..l : k \in 1..l + 1
    BY <1>1
  <2>3. \A k \in 1..l + 1 : k \in 1..l \/ k = l + 1
    BY <1>1
  <2>4. l + 1 \in 1..l + 1
    BY <1>1
  <2>5. ASSUME NEW j \in 1..l + 1 PROVE v[j] \in G /\ \E k \in 1..n + 1 : u[k] = v[j]
    <3>1. CASE j = l + 1
      BY <1>2, <1>6, <1>8, <2>1, <3>1
    <3>2. CASE j \in 1..l
      <4>1. PICK k \in 1..n : s[k] = t[j]
        BY <1>3, <3>2
      <4>2. k \in 1..n + 1 /\ u[k] = v[j]
        BY <1>2, <1>4, <2>1, <3>2, <4>1
      <4>3. QED BY <1>3, <2>1, <3>2, <4>2
    <3>3. QED BY <2>3, <3>1, <3>2
  <2>6. ASSUME NEW k \in 1..n + 1, u[k] \in G PROVE \E j \in 1..l + 1 : v[j] = u[k]
    <3>1. CASE k = n + 1
      BY <1>2, <2>1, <2>4, <3>1
    <3>2. CASE k \in 1..n
      <4>1. PICK j \in 1..l : t[j] = s[k]
        BY <1>2, <1>3, <2>6, <3>2
      <4>2. j \in 1..l + 1 /\ v[j] = u[k]
        BY <1>2, <2>1, <2>2, <3>2, <4>1
      <4>3. QED BY <4>2
    <3>3. QED BY <1>5, <3>1, <3>2
  <2>7. ASSUME Distinct(u) PROVE Distinct(v)
    <3>1. ASSUME NEW i \in 1..l + 1, NEW j \in 1..l + 1, v[i] = v[j] PROVE i = j
      <4>1. \A k \in 1..l : v[k] # x
        BY <1>3, <1>7, <2>1, <2>7
      <4>2. CASE i = l + 1 \/ j = l + 1
        BY <2>1, <2>3, <3>1, <4>1, <4>2
      <4>3. CASE i \in 1..l /\ j \in 1..l
        BY <1>1, <1>7, <2>1, <2>7, <3>1, <4>3 DEF Distinct
      <4>4. QED BY <2>3, <4>2, <4>3
    <3>2. QED BY <2>1, <3>1 DEF Distinct
  <2>8. KeepsThose(v, u, G)
    <3>1. \A j \in 1..Len(v) : v[j] \in G /\ \E k \in 1..Len(u) : u[k] = v[j]
      BY <1>2, <2>1, <2>5
    <3>2. \A k \in 1..Len(u) : u[k] \in G => \E j \in 1..Len(v) : v[j] = u[k]
      BY <1>2, <2>1, <2>6
    <3>3. QED BY <3>1, <3>2 DEF KeepsThose
  <2>9. QED BY <2>7, <2>8 DEF KeepsAll
<1>9. CASE x \notin G
  <2>1. v = t
    BY <1>9
  <2>2. ASSUME NEW j \in 1..l PROVE \E k \in 1..n + 1 : u[k] = t[j]
    <3>1. PICK k \in 1..n : s[k] = t[j]
      BY <1>3
    <3>2. QED BY <1>2, <1>4, <3>1
  <2>3. ASSUME NEW k \in 1..n + 1, u[k] \in G PROVE \E j \in 1..l : t[j] = u[k]
    <3>1. k \in 1..n
      BY <1>2, <1>5, <1>9, <2>3
    <3>2. QED BY <1>2, <1>3, <2>3, <3>1
  <2>4. QED BY <1>1, <1>2, <1>3, <1>7, <2>1, <2>2, <2>3 DEF KeepsThose, KeepsAll
<1>10. QED BY <1>8, <1>9

(* Kept keeps the elements that are marked, each once.                      *)
LEMMA KeptIs ==
  ASSUME NEW T, NEW G, NEW s \in Seq(T)
  PROVE  Kept(s, MarksOf(s, G)) \in Seq(T) /\ KeepsAll(s, Kept(s, MarksOf(s, G)), G)
<1> DEFINE P == {u \in Seq(T) : /\ Kept(u, MarksOf(u, G)) \in Seq(T)
                                 /\ KeepsAll(u, Kept(u, MarksOf(u, G)), G)}
<1>1. << >> \in P
  <2>1. Kept(<< >>, MarksOf(<< >>, G)) = << >> /\ << >> \in Seq(T)
    BY KeptNone, EmptySeq
  <2>2. KeepsAll(<< >>, << >>, G)
    BY EmptySeq DEF KeepsThose, KeepsAll
  <2>3. QED BY <2>1, <2>2
<1>2. ASSUME NEW u \in Seq(T), NEW e \in T, u \in P PROVE Append(u, e) \in P
  <2>1. PICK n \in Nat : n = Len(u)
    BY LenProperties
  <2>2. PICK w : w = Append(u, e)
    OBVIOUS
  <2>3. w \in Seq(T) /\ Longer(w, u, e, n)
    BY <2>1, <2>2, LongerIs
  <2>4. Len(w) = n + 1 /\ w[n + 1] = e /\ \A k \in 1..n : w[k] = u[k]
    BY <2>3 DEF Longer
  <2>5. DOMAIN w = 1..n + 1 /\ DOMAIN u = 1..n
    BY <2>1, <2>3, <2>4, LenProperties
  <2>6. PICK more : more = MarksOf(w, G)
    OBVIOUS
  <2>7. PICK marks : marks = MarksOf(u, G)
    OBVIOUS
  <2>8. \A k \in 1..n : k \in 1..n + 1
    BY <2>1
  <2>9. n + 1 \in 1..n + 1
    BY <2>1
  <2>10. \A k \in 1..n : more[k] = marks[k]
    BY <2>4, <2>5, <2>6, <2>7, <2>8 DEF MarksOf
  <2>11. more[n + 1] = (e \in G)
    BY <2>4, <2>5, <2>6, <2>9 DEF MarksOf
  <2>12. PICK t \in Seq(T) : t = Kept(u, marks)
    BY <1>2, <2>7
  <2>13. PICK v : v = IF e \in G THEN Append(t, e) ELSE t
    OBVIOUS
  <2>14. Kept(w, more) = v
    <3>1. \A k \in 1..Len(u) : more[k] = marks[k]
      BY <2>1, <2>10
    <3>2. Kept(Append(u, e), more) = IF more[Len(u) + 1] THEN Append(Kept(u, marks), e) ELSE Kept(u, marks)
      BY <3>1, KeptOne
    <3>3. QED BY <2>1, <2>2, <2>11, <2>12, <2>13, <3>2
  <2>15. KeepsAll(u, t, G)
    BY <1>2, <2>7, <2>12
  <2>16. KeepsAll(w, v, G)
    <3> HIDE DEF P
    <3>1. QED BY <2>2, <2>13, <2>15, KeepsOneMore
  <2>17. v \in Seq(T)
    BY <2>13, AppendProperties
  <2>18. QED BY <2>2, <2>3, <2>6, <2>14, <2>16, <2>17
<1> HIDE DEF P
<1>3. Seq(T) \subseteq P
  BY <1>1, <1>2, SequencesGrow
<1>4. QED BY <1>3 DEF P

(* Joining more lists makes no shorter list.                                *)
LEMMA Grows ==
  ASSUME NEW T, NEW n \in Nat, NEW lists \in [1..n -> Seq(T)], NEW f \in [0..n -> Seq(T)], Joins(f, n, lists),
         NEW r \in 0..n
  PROVE  Len(f[r]) <= Len(f[n])
<1> DEFINE P == {i \in Nat : r <= i /\ i <= n => Len(f[r]) <= Len(f[i])}
<1>1. 0 \in P
  <2>1. r <= 0 => r = 0
    OBVIOUS
  <2>2. PICK k \in Nat : k = Len(f[0])
    BY LenProperties
  <2>3. k <= k
    OBVIOUS
  <2>4. QED BY <2>1, <2>2, <2>3
<1>2. ASSUME NEW i \in Nat, i < n, i \in P PROVE i + 1 \in P
  <2>1. i + 1 \in 1..n /\ (i + 1) - 1 = i /\ i \in 0..n /\ i + 1 \in 0..n
    BY <1>2
  <2>2. f[i + 1] = f[i] \o lists[i + 1]
    BY <2>1 DEF Joins
  <2>3. PICK a \in Nat, b \in Nat, c \in Nat, d \in Nat :
          a = Len(f[r]) /\ b = Len(f[i]) /\ c = Len(lists[i + 1]) /\ d = Len(f[i + 1])
    BY <2>1, LenProperties
  <2>4. d = b + c
    BY <2>1, <2>2, <2>3, ConcatProperties
  <2>5. CASE r <= i
    <3>1. a <= b
      BY <1>2, <2>1, <2>3, <2>5
    <3>2. a <= d
      BY <2>4, <3>1
    <3>3. QED BY <2>3, <3>2
  <2>6. CASE r = i + 1
    <3>1. a <= a
      OBVIOUS
    <3>2. QED BY <2>3, <2>6, <3>1
  <2>7. CASE ~(r <= i + 1)
    BY <2>7
  <2>8. r <= i \/ r = i + 1 \/ ~(r <= i + 1)
    OBVIOUS
  <2>9. QED BY <2>5, <2>6, <2>7, <2>8
<1> HIDE DEF P
<1>3. n \in P
  <2>1. 0..n \subseteq P
    BY <1>1, <1>2, UpTo
  <2>2. QED BY <2>1
<1>4. QED BY <1>3 DEF P

(* The part of a rank in the answers to all requests.                       *)
IsPart(p, all, answers, list) ==
  /\ Len(p) = Len(list)
  /\ \A k \in 1..Len(list) : \E i \in 1..Len(all) : all[i] = list[k] /\ p[k] = answers[i]

(* Each rank gets the answers to its own requests.                          *)
LEMMA PartIs ==
  ASSUME NEW T, NEW S, NEW lists \in [Member -> Seq(T)], NEW r \in Member,
         NEW answers \in [1..Len(AllOf(lists)) -> S]
  PROVE  /\ AllOf(lists) \in Seq(T) /\ Part(answers, lists, r) \in Seq(S)
         /\ IsPart(Part(answers, lists, r), AllOf(lists), answers, lists[r])
<1>1. PICK n \in Nat \ {0} : n = Ranks
  BY MultiTurnConstants
<1>2. lists \in [1..n -> Seq(T)] /\ r \in 1..n
  BY <1>1 DEF Member
<1>3. PICK f \in [0..n -> Seq(T)] : JoinsFirst(f, n, lists)
  BY <1>2, JoinPrefixes
<1>4. PICK all : all = AllOf(lists)
  OBVIOUS
<1>5. all = FlattenSeq(lists)
  <2>1. [i \in Member |-> lists[i]] = lists
    OBVIOUS
  <2>2. QED BY <1>4, <2>1 DEF AllOf
<1>6. PICK o : o = [i \in 1..n + 1 |-> Len(f[i - 1])]
  OBVIOUS
<1>7. o \in [1..n + 1 -> Nat] /\ Offsets(o, lists, n)
  <2>1. \A i \in 1..n + 1 : i - 1 \in 0..n
    OBVIOUS
  <2>2. o \in [1..n + 1 -> Nat]
    BY <1>6, <2>1, LenProperties
  <2>3. 1 \in 1..n + 1 /\ 1 - 1 = 0
    OBVIOUS
  <2>4. o[1] = 0
    BY <1>3, <1>6, <2>3, EmptySeq DEF JoinsFirst, Joins
  <2>5. ASSUME NEW i \in 1..n PROVE o[i + 1] = o[i] + Len(lists[i])
    <3>1. i + 1 \in 1..n + 1 /\ i \in 1..n + 1 /\ (i + 1) - 1 = i /\ i \in 0..n /\ i - 1 \in 0..n
      OBVIOUS
    <3>2. f[i] = f[i - 1] \o lists[i]
      BY <1>3 DEF JoinsFirst, Joins
    <3>3. Len(f[i]) = Len(f[i - 1]) + Len(lists[i])
      BY <1>2, <3>1, <3>2, ConcatProperties
    <3>4. QED BY <1>6, <3>1, <3>3
  <2>6. QED BY <2>2, <2>4, <2>5 DEF Offsets
<1>8. all \in Seq(T) /\ IsJoin(all, lists, o, n)
  BY <1>2, <1>5, <1>7, JoinIs
<1>9. PICK h \in Nat, k \in Nat, l \in Nat : h = o[r] /\ k = Len(lists[r]) /\ l = Len(all)
  <2>1. r \in 1..n + 1
    BY <1>2
  <2>2. QED BY <1>2, <1>7, <1>8, <2>1, LenProperties
<1>10. h + k <= l
  <2>1. r \in 0..n /\ r + 1 \in 1..n + 1 /\ (r + 1) - 1 = r /\ n + 1 \in 1..n + 1 /\ (n + 1) - 1 = n
    BY <1>2
  <2>2. Len(f[r]) <= Len(f[n])
    BY <1>2, <1>3, <2>1, Grows DEF JoinsFirst
  <2>3. o[r + 1] = Len(f[r]) /\ o[n + 1] = Len(f[n])
    BY <1>6, <2>1
  <2>4. o[r + 1] = h + k
    BY <1>2, <1>7, <1>9 DEF Offsets
  <2>5. o[n + 1] = l
    BY <1>8, <1>9 DEF IsJoin
  <2>6. QED BY <2>2, <2>3, <2>4, <2>5
<1>11. Len(FlattenSeq([q \in 1..(r - 1) |-> lists[q]])) = h
  <2>1. r - 1 \in 0..n /\ r \in 1..n + 1
    BY <1>2
  <2>2. FlattenSeq(Prefix(lists, r - 1)) = f[r - 1]
    BY <1>3, <2>1 DEF JoinsFirst
  <2>3. o[r] = Len(f[r - 1])
    BY <1>6, <2>1
  <2>4. QED BY <1>9, <2>2, <2>3 DEF Prefix
<1>12. PICK p : p = SubSeq(answers, h + 1, h + k)
  OBVIOUS
<1>13. p = Part(answers, lists, r)
  BY <1>9, <1>11, <1>12 DEF Part
<1>14. p \in Seq(S) /\ Len(p) = k /\ \A i \in 1..k : p[i] = answers[h + i]
  <2>1. h + 1 \in Int /\ h + k \in Int
    OBVIOUS
  <2>2. \A i \in h + 1..h + k : i \in 1..l
    BY <1>10
  <2>3. \A i \in h + 1..h + k : answers[i] \in S
    BY <1>4, <1>9, <2>2
  <2>4. /\ p \in Seq(S) /\ Len(p) = IF h + 1 <= h + k THEN ((h + k) - (h + 1)) + 1 ELSE 0
        /\ \A i \in 1..((h + k) - (h + 1)) + 1 : p[i] = answers[((h + 1) + i) - 1]
    BY <1>12, <2>1, <2>3, SubSeqProperties
  <2>5. ((h + k) - (h + 1)) + 1 = k /\ \A i \in 1..k : ((h + 1) + i) - 1 = h + i
    OBVIOUS
  <2>6. h + 1 <= h + k \/ k = 0
    OBVIOUS
  <2>7. QED BY <2>4, <2>5, <2>6
<1>15. ASSUME NEW i \in 1..k PROVE h + i \in 1..l /\ all[h + i] = lists[r][i] /\ p[i] = answers[h + i]
  <2>1. h + i \in 1..l
    BY <1>10
  <2>2. all[h + i] = lists[r][i]
    BY <1>2, <1>8, <1>9 DEF IsJoin
  <2>3. QED BY <1>14, <2>1, <2>2
<1>16. IsPart(p, all, answers, lists[r])
  BY <1>9, <1>14, <1>15 DEF IsPart
<1>17. QED BY <1>4, <1>8, <1>13, <1>14, <1>16

(* A conversation that has not begun is sound.                              *)
LEMMA FreshIs ==
  ASSUME args \in Args, NEW q
  PROVE  Sound(args, q, Fresh) /\ ~Fresh.over
<1>1. PICK x \in Spoken(q) : x = Message("user", << >>) /\ x.role = "user"
  <2>1. << >> \in Seq(Token(q))
    BY EmptySeq
  <2>2. Message("user", << >>) \in Spoken(q) /\ Message("user", << >>).role = "user"
    BY <2>1 DEF Message, Spoken
  <2>3. QED BY <2>2
<1>2. PICK none \in Seq(Spoken(q)) : none = << >>
  BY EmptySeq
<1>3. PICK messages \in Seq(Spoken(q)) : messages = <<x>>
  BY OneIs
<1>4. messages = Append(none, x)
  <2>1. none \o <<x>> = Append(none, x)
    BY AppendOne
  <2>2. none \o messages = messages
    BY <1>2, ConcatEmptySeq
  <2>3. QED BY <1>3, <2>1, <2>2
<1>5. Said(messages) = << >>
  <2>1. x.role # "assistant"
    BY <1>1
  <2>2. Said(messages) = Said(none)
    BY <1>4, <2>1, SaidOne
  <2>3. QED BY <1>2, <2>2, SaidOne
<1>6. Last(messages).role = "user"
  BY <1>1, <1>4, FrontIs
<1>7. PICK c : c = Fresh
  OBVIOUS
<1>8. /\ c.turn = 1 /\ c.messages = messages /\ c.ids = << >> /\ c.mask = << >> /\ c.logps = << >>
      /\ c.last = << >> /\ c.over = FALSE
  BY <1>1, <1>3, <1>7 DEF Fresh
<1>9. c \in Conversation(q)
  <2>1. /\ << >> \in Seq(Seq(Token(q))) /\ << >> \in Seq(Seq(Bit)) /\ << >> \in Seq(Token(q))
    BY EmptySeq
  <2>2. QED BY <1>1, <1>3, <1>7, <2>1 DEF Fresh, Conversation
<1>10. Aligned(Said(c.messages), c.ids, c.mask)
  <2>1. Aligned(<< >>, << >>, << >>)
    BY EmptySeq DEF Aligned
  <2>2. QED BY <1>5, <1>8, <2>1
<1>11. GoesOn(args, c)
  <2>1. Asked(args, c)
    BY <1>6, <1>8 DEF Asked
  <2>2. Fit(<< >>, << >>, << >>)
    BY EmptySeq DEF Fit
  <2>3. QED BY <1>8, <2>1, <2>2 DEF GoesOn
<1>12. QED BY <1>7, <1>8, <1>9, <1>10, <1>11 DEF Sound

(* The requests of a rank.                                                  *)
LEMMA OwnIs ==
  ASSUME NEW r \in Member
  PROVE  /\ Own(r) \in Seq({r} \X (1..Local)) /\ Len(Own(r)) = Local /\ Distinct(Own(r))
         /\ \A i \in 1..Local : Own(r)[i] = <<r, i>>
<1>1. Local \in Nat
  BY MultiTurnConstants
<1>2. PICK f : f = Own(r)
  OBVIOUS
<1>3. f \in [1..Local -> {r} \X (1..Local)] /\ \A i \in 1..Local : f[i] = <<r, i>>
  BY <1>2 DEF Own
<1>4. f \in Seq({r} \X (1..Local)) /\ Len(f) = Local
  BY <1>1, <1>3, FunctionIsSeq
<1>5. Distinct(f)
  BY <1>3, <1>4 DEF Distinct
<1>6. QED BY <1>2, <1>3, <1>4, <1>5

LEMMA OwnRequests ==
  ASSUME NEW r \in Member, NEW s \in Seq({r} \X (1..Local))
  PROVE  s \in Seq(Request)
<1>1. PICK l \in Nat : l = Len(s)
  BY LenProperties
<1>2. s \in [1..l -> {r} \X (1..Local)]
  BY <1>1, LenProperties
<1>3. s \in [1..l -> Request]
  BY <1>2 DEF Request
<1>4. QED BY <1>3, FunctionIsSeq

(* Initially.                                                               *)
LEMMA StartsSound ==
  ASSUME TurnsInit
  PROVE  TurnsInv
<1>1. TurnsShape
  <2>1. \A r \in Member : Own(r) \in Seq(Request)
    BY OwnIs, OwnRequests
  <2>2. pending \in [Member -> Seq(Request)]
    BY <2>1 DEF TurnsInit
  <2>3. QED BY <2>2 DEF TurnsInit, TurnsShape
<1>2. \A q \in Request : conv[q] = Fresh
  BY DEF TurnsInit
<1>3. ASSUME NEW q \in Request PROVE Sound(args, q, conv[q]) /\ ~conv[q].over
  BY <1>1, <1>2, FreshIs DEF TurnsShape
<1>4. ASSUME NEW r \in Member PROVE Pendings(r)
  <2>1. pending[r] = Own(r)
    BY DEF TurnsInit
  <2>2. QED BY <2>1, OwnIs DEF Pendings
<1>5. ASSUME NEW r \in Member PROVE Placed(r)
  <2>1. at[r] = "rollout"
    BY DEF TurnsInit
  <2>2. ASSUME NEW j \in 1..Len(pending[r]) PROVE ~conv[pending[r][j]].over
    <3>1. pending[r] \in Seq({r} \X (1..Local))
      BY <1>4 DEF Pendings
    <3>2. pending[r][j] \in {r} \X (1..Local)
      BY <3>1, ElementOfSeq
    <3>3. pending[r][j] \in Request
      BY <3>2 DEF Request
    <3>4. QED BY <1>3, <3>3
  <2>3. QED BY <2>1, <2>2 DEF Placed
<1>6. QED BY <1>1, <1>3, <1>4, <1>5 DEF TurnsInv

(* What is pending on a rank is its own.                                    *)
LEMMA PendingIsOwn ==
  ASSUME NEW r \in Member, Pendings(r), NEW j \in 1..Len(pending[r])
  PROVE  pending[r][j] \in Request /\ pending[r][j][1] = r
<1>1. pending[r] \in Seq({r} \X (1..Local))
  BY DEF Pendings
<1>2. pending[r][j] \in {r} \X (1..Local)
  BY <1>1, ElementOfSeq
<1>3. QED BY <1>2 DEF Request

(* What is of a rank stays, as its state and its conversations do.          *)
LEMMA PlacedSame ==
  ASSUME NEW r \in Member, Pendings(r), Placed(r),
         args' = args, at'[r] = at[r], pending'[r] = pending[r], outputs'[r] = outputs[r],
         results'[r] = results[r], batch'[r] = batch[r],
         \A j \in 1..Len(pending[r]) : conv'[pending[r][j]] = conv[pending[r][j]]
  PROVE  Placed(r)'
<1>1. AnswersTo(r) => AnswersTo(r)'
  <2> SUFFICES ASSUME AnswersTo(r) PROVE AnswersTo(r)'
    OBVIOUS
  <2>1. PICK n \in Nat, l \in Nat : n = Len(pending[r]) /\ l = Len(outputs[r])
    BY LenProperties DEF AnswersTo, Pendings
  <2>2. PICK a \in Nat : a = n - l /\ n = a + l
    <3>1. n - l >= 0
      BY <2>1 DEF AnswersTo
    <3>2. n - l \in Nat /\ n = (n - l) + l
      BY <3>1
    <3>3. QED BY <3>2
  <2>3. \A k \in 1..l : a + k \in 1..n
    BY <2>2
  <2>4. ASSUME NEW k \in 1..l
        PROVE  LET q == pending'[r][a + k]
               IN  ~conv'[q].over /\ \E m \in TurnTokens[q] : outputs'[r][k] = Sampled(q, conv'[q].turn, m)
    <3>1. conv'[pending[r][a + k]] = conv[pending[r][a + k]]
      BY <2>1, <2>3
    <3>2. LET q == pending[r][a + k]
          IN  ~conv[q].over /\ \E m \in TurnTokens[q] : outputs[r][k] = Sampled(q, conv[q].turn, m)
      BY <2>1, <2>2 DEF AnswersTo
    <3>3. QED BY <3>1, <3>2
  <2>5. outputs'[r] \in Seq(Seq(Request \X Nat \X Nat)) /\ a >= 0
    BY DEF AnswersTo
  <2>6. Len(pending'[r]) - Len(outputs'[r]) = a /\ Len(outputs'[r]) = l
    BY <2>1, <2>2
  <2>7. QED BY <2>4, <2>5, <2>6 DEF AnswersTo
<1>2. QED BY <1>1 DEF Placed

LEMMA PendingsSame ==
  ASSUME NEW r \in Member, Pendings(r), args' = args, pending'[r] = pending[r],
         \A i \in 1..Local : conv[<<r, i>>].over => conv'[<<r, i>>].over
  PROVE  Pendings(r)'
BY DEF Pendings

(* One conversation takes a turn.                                           *)
LEMMA HeardOne ==
  ASSUME TurnsInv, Supported, NEW q \in Request, ~conv[q].over, NEW n \in TurnTokens[q],
         NEW c \in AfterTurn(q, Sampled(q, conv[q].turn, n)), conv' = [conv EXCEPT ![q] = c],
         UNCHANGED <<args, pending>>
  PROVE  /\ DOMAIN conv' = Request /\ \A p \in Request : Sound(args, p, conv[p])'
         /\ \A r \in Member : Pendings(r)'
<1>1. DOMAIN conv = Request /\ args \in Args /\ \A p \in Request : Sound(args, p, conv[p])
  BY DEF TurnsInv, TurnsShape
<1>2. conv'[q] = c /\ \A p \in Request : p # q => conv'[p] = conv[p]
  BY <1>1
<1>3. Sound(args, q, c)
  BY <1>1, AfterTurnSound
<1>4. ASSUME NEW p \in Request PROVE Sound(args, p, conv[p])'
  BY <1>1, <1>2, <1>3
<1>5. ASSUME NEW r \in Member PROVE Pendings(r)'
  <2>1. \A i \in 1..Local : conv[<<r, i>>].over => conv'[<<r, i>>].over
    BY <1>2 DEF Request
  <2>2. Pendings(r)
    BY DEF TurnsInv
  <2>3. QED BY <2>1, <2>2, PendingsSame
<1>6. QED BY <1>1, <1>4, <1>5

(* A rank that gets its answers: as many as it has pending, to those.       *)
Arrived(p, r, n) ==
  /\ p \in Seq(Seq(Request \X Nat \X Nat)) /\ Len(p) = Len(pending[r])
  /\ \A k \in 1..Len(pending[r]) :
       p[k] = Sampled(pending[r][k], conv[pending[r][k]].turn, n[pending[r][k]])

(* The requests of all ranks.                                               *)
LEMMA AllOfPending ==
  ASSUME pending \in [Member -> Seq(Request)]
  PROVE  AllOf(pending) \in Seq(Request)
<1>1. PICK r : r \in Member
  BY MultiTurnConstants DEF Member
<1>2. PICK one : one = [k \in 1..Len(AllOf(pending)) |-> 1]
  OBVIOUS
<1>3. one \in [1..Len(AllOf(pending)) -> {1}]
  BY <1>2
<1>4. QED BY <1>1, <1>3, PartIs

(* They are the answers to what it has pending.                             *)
LEMMA AnswersArrive ==
  ASSUME NEW r \in Member, pending \in [Member -> Seq(Request)], \A q \in Request : conv[q].turn \in Nat,
         NEW n \in [Request -> Nat],
         NEW all, all = AllOf(pending),
         NEW answers, answers = [k \in DOMAIN all |-> Sampled(all[k], conv[all[k]].turn, n[all[k]])],
         NEW p, p = Part(answers, pending, r)
  PROVE  Arrived(p, r, n)
<1>1. all \in Seq(Request)
  BY AllOfPending
<1>2. DOMAIN all = 1..Len(all)
  BY <1>1, LenProperties
<1>3. ASSUME NEW k \in 1..Len(all) PROVE answers[k] \in Seq(Request \X Nat \X Nat)
  <2>1. PICK q \in Request, t \in Nat, m \in Nat : q = all[k] /\ t = conv[q].turn /\ m = n[q]
    BY <1>1, ElementOfSeq
  <2>2. answers[k] = Sampled(q, t, m)
    BY <1>2, <2>1
  <2>3. Sampled(q, t, m) \in [1..m -> Request \X Nat \X Nat]
    BY DEF Sampled
  <2>4. QED BY <2>2, <2>3, FunctionIsSeq
<1>4. answers \in [1..Len(AllOf(pending)) -> Seq(Request \X Nat \X Nat)]
  BY <1>2, <1>3
<1>5. p \in Seq(Seq(Request \X Nat \X Nat)) /\ IsPart(p, all, answers, pending[r])
  BY <1>4, PartIs
<1>6. ASSUME NEW k \in 1..Len(pending[r])
      PROVE  p[k] = Sampled(pending[r][k], conv[pending[r][k]].turn, n[pending[r][k]])
  <2>1. PICK i \in 1..Len(all) : all[i] = pending[r][k] /\ p[k] = answers[i]
    BY <1>5 DEF IsPart
  <2>2. answers[i] = Sampled(all[i], conv[all[i]].turn, n[all[i]])
    BY <1>2
  <2>3. QED BY <2>1, <2>2
<1>7. QED BY <1>5, <1>6 DEF IsPart, Arrived

(* Every action keeps the invariant.                                        *)
LEMMA RolloutRoundKeeps ==
  ASSUME TurnsInv, RolloutRound
  PROVE  TurnsInv'
<1>1. TurnsShape /\ (\A q \in Request : Sound(args, q, conv[q])) /\ \A r \in Member : Pendings(r) /\ Placed(r)
  BY DEF TurnsInv
<1>2. /\ args.mode = "colocate" /\ at' = [r \in Member |-> "gather"]
      /\ UNCHANGED <<args, pending, conv, results, batch>> /\ \A r \in Member : at[r] = "rollout"
  BY DEF RolloutRound
<1>3. PICK n \in [Request -> UNION {TurnTokens[q] : q \in Request}] :
        LET all == AllOf(pending)
            answers == [k \in DOMAIN all |-> Sampled(all[k], conv[all[k]].turn, n[all[k]])]
        IN  /\ \A q \in Request : n[q] \in TurnTokens[q]
            /\ outputs' = [r \in Member |-> Part(answers, pending, r)]
  BY DEF RolloutRound
<1>4. n \in [Request -> Nat] /\ \A q \in Request : n[q] \in TurnTokens[q]
  BY <1>3, MultiTurnConstants
<1>5. PICK all : all = AllOf(pending)
  OBVIOUS
<1>6. PICK answers : answers = [k \in DOMAIN all |-> Sampled(all[k], conv[all[k]].turn, n[all[k]])]
  OBVIOUS
<1>7. outputs' = [r \in Member |-> Part(answers, pending, r)]
  BY <1>3, <1>5, <1>6
<1>8. pending \in [Member -> Seq(Request)] /\ \A q \in Request : conv[q].turn \in Nat
  BY <1>1 DEF TurnsShape, Sound, Conversation
<1>10. TurnsShape'
  BY <1>1, <1>2, <1>7 DEF TurnsShape
<1>11. ASSUME NEW r \in Member PROVE Placed(r)'
  <2>1. PICK p : p = Part(answers, pending, r)
    OBVIOUS
  <2>2. outputs'[r] = p
    BY <1>7, <2>1
  <2>30. Arrived(p, r, n)
    BY <1>4, <1>5, <1>6, <1>8, <2>1, AnswersArrive
  <2>3. /\ p \in Seq(Seq(Request \X Nat \X Nat)) /\ Len(p) = Len(pending[r])
        /\ \A k \in 1..Len(pending[r]) :
             p[k] = Sampled(pending[r][k], conv[pending[r][k]].turn, n[pending[r][k]])
    BY <2>30 DEF Arrived
  <2>4. \A j \in 1..Len(pending[r]) : ~conv[pending[r][j]].over
    BY <1>1, <1>2 DEF Placed
  <2>5. PICK l \in Nat : l = Len(pending[r])
    BY <1>8, LenProperties
  <2>6. l - l = 0 /\ 0 >= 0 /\ \A k \in 1..l : 0 + k = k
    BY <2>5
  <2>7. AnswersTo(r)'
    <3>1. ASSUME NEW k \in 1..l
          PROVE  LET q == pending'[r][0 + k]
                 IN  ~conv'[q].over /\ \E m \in TurnTokens[q] : outputs'[r][k] = Sampled(q, conv'[q].turn, m)
      <4>1. PICK q : q = pending[r][k]
        OBVIOUS
      <4>2. q \in Request /\ ~conv[q].over
        BY <1>1, <2>4, <2>5, <4>1, PendingIsOwn
      <4>3. n[q] \in TurnTokens[q] /\ outputs'[r][k] = Sampled(q, conv[q].turn, n[q])
        BY <1>4, <2>2, <2>3, <2>5, <4>1, <4>2
      <4>4. pending'[r][0 + k] = q /\ conv' = conv
        BY <1>2, <2>6, <4>1
      <4>5. QED BY <4>2, <4>3, <4>4
    <3>2. outputs'[r] \in Seq(Seq(Request \X Nat \X Nat)) /\ Len(outputs'[r]) = l /\ Len(pending'[r]) = l
      BY <1>2, <2>2, <2>3, <2>5
    <3>3. Len(pending'[r]) - Len(outputs'[r]) = 0
      BY <2>6, <3>2
    <3>4. QED BY <2>6, <3>1, <3>2, <3>3 DEF AnswersTo
  <2>8. QED BY <1>2, <2>2, <2>3, <2>4, <2>7 DEF Placed
<1>12. \A r \in Member : Pendings(r)'
  BY <1>1, <1>2 DEF Pendings
<1>13. QED BY <1>1, <1>2, <1>10, <1>11, <1>12 DEF TurnsInv

LEMMA GatherKeeps ==
  ASSUME TurnsInv, Gather
  PROVE  TurnsInv'
<1>1. TurnsShape /\ (\A q \in Request : Sound(args, q, conv[q])) /\ \A r \in Member : Pendings(r) /\ Placed(r)
  BY DEF TurnsInv
<1>2. /\ at' = [r \in Member |-> IF AnyPending(r) THEN "process" ELSE "encode"]
      /\ results' = [r \in Member |-> IF AnyPending(r) THEN results[r]
                                      ELSE [i \in 1..Local |-> conv[<<r, i>>]]]
      /\ UNCHANGED <<args, pending, outputs, conv, batch>> /\ \A r \in Member : at[r] = "gather"
  BY DEF Gather
<1>3. TurnsShape'
  BY <1>1, <1>2 DEF TurnsShape
<1>4. \A r \in Member : Pendings(r)'
  BY <1>1, <1>2 DEF Pendings
<1>5. ASSUME NEW r \in Member PROVE Placed(r)'
  <2>1. args.mode # "server" /\ AnswersTo(r)
    BY <1>1, <1>2 DEF Placed
  <2>2. CASE AnyPending(r)
    <3>1. at'[r] = "process"
      BY <1>2, <2>2
    <3>2. AnswersTo(r)'
      BY <1>2, <2>1 DEF AnswersTo
    <3>3. QED BY <1>2, <2>1, <3>1, <3>2 DEF Placed
  <2>3. CASE ~AnyPending(r)
    <3>1. at'[r] = "encode" /\ results'[r] = [i \in 1..Local |-> conv[<<r, i>>]]
      BY <1>2, <2>3
    <3>2. pending[r] = << >>
      BY <2>3 DEF AnyPending
    <3>3. ASSUME NEW i \in 1..Local PROVE Sound(args, <<r, i>>, results'[r][i]) /\ results'[r][i].over
      <4>1. 1..Len(pending[r]) = {}
        BY <3>2, EmptySeq
      <4>2. conv[<<r, i>>].over
        BY <1>1, <4>1 DEF Pendings
      <4>3. <<r, i>> \in Request
        BY DEF Request
      <4>4. QED BY <1>1, <3>1, <4>2, <4>3
    <3>4. QED BY <1>2, <2>1, <3>1, <3>3 DEF Placed
  <2>4. QED BY <2>2, <2>3
<1>6. QED BY <1>1, <1>2, <1>3, <1>4, <1>5 DEF TurnsInv

(* How far the answers are behind the requests, and one less of them.       *)
LEMMA Advances ==
  ASSUME NEW n \in Nat, NEW l \in Nat, l # 0, n - l >= 0
  PROVE  \E a \in Nat : /\ a = n - l /\ n = a + l /\ a + 1 \in 1..n /\ 1 \in 1..l
                        /\ n - (l - 1) = a + 1 /\ a + 1 >= 0
<1>1. n - l \in Nat
  OBVIOUS
<1>2. PICK a \in Nat : a = n - l
  BY <1>1
<1>3. n = a + l /\ a + 1 >= 0 /\ n - (l - 1) = a + 1
  BY <1>2
<1>4. a + 1 \in 1..n /\ 1 \in 1..l
  BY <1>3
<1>5. QED BY <1>2, <1>3, <1>4

LEMMA Advanced ==
  ASSUME NEW a \in Nat, NEW l \in Nat, NEW k \in 1..l - 1
  PROVE  k + 1 \in 1..l /\ (a + 1) + k = a + (k + 1) /\ a + (k + 1) \in 1..a + l /\ a + (k + 1) # a + 1
OBVIOUS

LEMMA ProcessKeeps ==
  ASSUME TurnsInv, Supported, NEW r \in Member, Process(r)
  PROVE  TurnsInv'
<1>1. TurnsShape /\ (\A q \in Request : Sound(args, q, conv[q])) /\ \A p \in Member : Pendings(p) /\ Placed(p)
  BY DEF TurnsInv
<1>2. /\ at[r] = "process" /\ outputs[r] # << >> /\ outputs' = [outputs EXCEPT ![r] = Tail(outputs[r])]
      /\ UNCHANGED <<args, at, pending, results, batch>>
  BY DEF Process
<1>3. AnswersTo(r) /\ args.mode # "server"
  BY <1>1, <1>2 DEF Placed
<1>4. PICK n \in Nat, l \in Nat : n = Len(pending[r]) /\ l = Len(outputs[r]) /\ l # 0
  BY <1>2, <1>3, LenProperties, EmptySeq DEF TurnsInv, TurnsShape, AnswersTo
<1>5. PICK a \in Nat : /\ a = n - l /\ n = a + l /\ a + 1 \in 1..n /\ 1 \in 1..l
                       /\ n - (l - 1) = a + 1 /\ a + 1 >= 0
  <2>1. n - l >= 0
    BY <1>3, <1>4 DEF AnswersTo
  <2>2. QED BY <1>4, <2>1, Advances
<1>6. PICK q : q = pending[r][a + 1]
  OBVIOUS
<1>7. q \in Request /\ q[1] = r
  BY <1>1, <1>4, <1>5, <1>6, PendingIsOwn
<1>8. PICK m \in TurnTokens[q] : Head(outputs[r]) = Sampled(q, conv[q].turn, m) /\ ~conv[q].over
  <2>1. LET p == pending[r][a + 1]
        IN  ~conv[p].over /\ \E m \in TurnTokens[p] : outputs[r][1] = Sampled(p, conv[p].turn, m)
    BY <1>3, <1>4, <1>5 DEF AnswersTo
  <2>2. Head(outputs[r]) = outputs[r][1]
    BY <1>2, <1>3, HeadTailProperties DEF AnswersTo
  <2>3. QED BY <1>6, <2>1, <2>2
<1>9. PICK c \in AfterTurn(q, Sampled(q, conv[q].turn, m)) : conv' = [conv EXCEPT ![q] = c]
  <2>1. \E c \in AfterTurn(q, Head(outputs[r])) : conv' = [conv EXCEPT ![q] = c]
    BY <1>4, <1>5, <1>6 DEF Process
  <2>2. QED BY <1>8, <2>1
<1>10. /\ DOMAIN conv' = Request /\ \A p \in Request : Sound(args, p, conv[p])'
       /\ \A p \in Member : Pendings(p)'
  BY <1>2, <1>7, <1>8, <1>9, HeardOne
<1>11. \A p \in Request : p # q => conv'[p] = conv[p]
  BY <1>1, <1>7, <1>9 DEF TurnsShape
<1>12. TurnsShape'
  BY <1>1, <1>2, <1>10 DEF TurnsShape
<1>13. ASSUME NEW p \in Member, p # r PROVE Placed(p)'
  <2>1. \A j \in 1..Len(pending[p]) : conv'[pending[p][j]] = conv[pending[p][j]]
    <3>1. ASSUME NEW j \in 1..Len(pending[p]) PROVE conv'[pending[p][j]] = conv[pending[p][j]]
      <4>1. pending[p][j] \in Request /\ pending[p][j][1] = p
        BY <1>1, PendingIsOwn
      <4>2. pending[p][j] # q
        BY <1>7, <1>13, <4>1
      <4>3. QED BY <1>11, <4>1, <4>2
    <3>2. QED BY <3>1
  <2>2. outputs'[p] = outputs[p]
    BY <1>1, <1>2, <1>13 DEF TurnsShape
  <2>3. QED BY <1>1, <1>2, <2>1, <2>2, PlacedSame
<1>14. AnswersTo(r)'
  <2>1. PICK out : out = Tail(outputs[r])
    OBVIOUS
  <2>2. outputs'[r] = out
    BY <1>1, <1>2, <2>1 DEF TurnsShape
  <2>3. /\ out \in Seq(Seq(Request \X Nat \X Nat)) /\ Len(out) = l - 1
        /\ \A k \in 1..l - 1 : out[k] = outputs[r][k + 1]
    BY <1>2, <1>3, <1>4, <2>1, HeadTailProperties DEF AnswersTo
  <2>4. \A k \in 1..l - 1 : k + 1 \in 1..l /\ (a + 1) + k = a + (k + 1)
    BY Advanced
  <2>5. \A k \in 1..l - 1 : a + (k + 1) \in 1..n /\ a + (k + 1) # a + 1
    BY <1>5, Advanced
  <2>10. PICK b \in Nat : b = a + 1
    OBVIOUS
  <2>6. ASSUME NEW k \in 1..l - 1
        PROVE  LET p == pending'[r][b + k]
               IN  ~conv'[p].over /\ \E i \in TurnTokens[p] : outputs'[r][k] = Sampled(p, conv'[p].turn, i)
    <3>1. PICK p : p = pending[r][a + (k + 1)]
      OBVIOUS
    <3>2. p # q /\ p \in Request
      <4>1. p \in Request
        BY <1>1, <1>4, <2>5, <3>1, PendingIsOwn
      <4>2. Distinct(pending[r])
        BY <1>1 DEF Pendings
      <4>3. QED BY <1>4, <1>5, <1>6, <2>5, <3>1, <4>1, <4>2 DEF Distinct
    <3>3. conv'[p] = conv[p]
      BY <1>11, <3>2
    <3>4. ~conv[p].over /\ \E i \in TurnTokens[p] : outputs[r][k + 1] = Sampled(p, conv[p].turn, i)
      BY <1>3, <1>4, <1>5, <2>4, <3>1 DEF AnswersTo
    <3>5. outputs'[r][k] = outputs[r][k + 1] /\ pending'[r][b + k] = p
      BY <1>2, <2>2, <2>3, <2>4, <2>10, <3>1
    <3>6. QED BY <3>3, <3>4, <3>5
  <2>7. Len(pending'[r]) - Len(outputs'[r]) = b /\ Len(outputs'[r]) = l - 1
    BY <1>2, <1>4, <1>5, <2>2, <2>3, <2>10
  <2>8. outputs'[r] \in Seq(Seq(Request \X Nat \X Nat)) /\ b >= 0
    BY <2>2, <2>3, <2>10
  <2>9. QED BY <2>6, <2>7, <2>8 DEF AnswersTo
<1>15. Placed(r)'
  BY <1>2, <1>3, <1>14 DEF Placed
<1>16. \A p \in Member : Placed(p)'
  BY <1>13, <1>15
<1>17. QED BY <1>10, <1>12, <1>16 DEF TurnsInv

LEMMA EndTurnKeeps ==
  ASSUME TurnsInv, NEW r \in Member, EndTurn(r)
  PROVE  TurnsInv'
<1>1. TurnsShape /\ (\A q \in Request : Sound(args, q, conv[q])) /\ \A p \in Member : Pendings(p) /\ Placed(p)
  BY DEF TurnsInv
<1>2. /\ at[r] = "process" /\ at' = [at EXCEPT ![r] = "rollout"]
      /\ pending' = [pending EXCEPT
                       ![r] = Kept(pending[r], [k \in DOMAIN pending[r] |-> ~conv[pending[r][k]].over])]
      /\ UNCHANGED <<args, outputs, conv, results, batch>>
  BY DEF EndTurn
<1>3. args.mode # "server"
  BY <1>1, <1>2 DEF Placed
<1>4. PICK s \in Seq({r} \X (1..Local)) : s = pending[r] /\ Distinct(s)
  BY <1>1 DEF Pendings
<1>5. PICK G : G = {q \in Request : ~conv[q].over}
  OBVIOUS
<1>6. PICK t : t = Kept(s, MarksOf(s, G))
  OBVIOUS
<1>7. t \in Seq({r} \X (1..Local)) /\ KeepsAll(s, t, G)
  BY <1>6, KeptIs
<1>8. pending'[r] = t /\ \A p \in Member : p # r => pending'[p] = pending[p]
  <2>1. DOMAIN s = 1..Len(s)
    BY <1>4, LenProperties
  <2>2. \A k \in DOMAIN s : s[k] \in G <=> ~conv[s[k]].over
    <3>1. \A k \in DOMAIN s : s[k] \in Request
      BY <1>1, <1>4, <2>1, PendingIsOwn
    <3>2. QED BY <1>5, <3>1
  <2>3. \A k \in DOMAIN s : (s[k] \in G) = ~conv[s[k]].over
    BY <2>2
  <2>4. MarksOf(s, G) = [k \in DOMAIN s |-> ~conv[s[k]].over]
    BY <2>3 DEF MarksOf
  <2>5. QED BY <1>1, <1>2, <1>4, <1>6, <2>4 DEF TurnsShape
<1>9. TurnsShape'
  <2>1. t \in Seq(Request)
    BY <1>7, OwnRequests
  <2>2. pending' \in [Member -> Seq(Request)]
    BY <1>1, <1>2, <1>8, <2>1 DEF TurnsShape
  <2>3. QED BY <1>1, <1>2, <2>2 DEF TurnsShape
<1>10. /\ \A j \in 1..Len(t) : t[j] \in G
       /\ \A k \in 1..Len(s) : s[k] \in G => \E j \in 1..Len(t) : t[j] = s[k]
       /\ Distinct(t)
  BY <1>4, <1>7 DEF KeepsAll, KeepsThose
<1>11. Pendings(r)'
  <2>1. ASSUME NEW i \in 1..Local, ~conv[<<r, i>>].over PROVE \E j \in 1..Len(t) : t[j] = <<r, i>>
    <3>1. PICK k \in 1..Len(s) : s[k] = <<r, i>>
      BY <1>1, <1>4, <2>1 DEF Pendings
    <3>2. <<r, i>> \in G
      BY <1>5, <2>1 DEF Request
    <3>3. QED BY <1>10, <3>1, <3>2
  <2>2. QED BY <1>2, <1>3, <1>7, <1>8, <1>10, <2>1 DEF Pendings
<1>12. Placed(r)'
  <2>1. at'[r] = "rollout"
    BY <1>1, <1>2 DEF TurnsShape
  <2>2. \A j \in 1..Len(pending'[r]) : ~conv'[pending'[r][j]].over
    BY <1>2, <1>5, <1>8, <1>10
  <2>3. args' = args /\ args.mode # "server"
    BY <1>2, <1>3
  <2>4. QED BY <2>1, <2>2, <2>3 DEF Placed
<1>13. ASSUME NEW p \in Member, p # r PROVE Pendings(p)' /\ Placed(p)'
  <2>1. pending'[p] = pending[p] /\ at'[p] = at[p]
    BY <1>1, <1>2, <1>8, <1>13 DEF TurnsShape
  <2>2. Pendings(p)'
    BY <1>1, <1>2, <2>1, PendingsSame
  <2>3. Placed(p)'
    BY <1>1, <1>2, <2>1, PlacedSame
  <2>4. QED BY <2>2, <2>3
<1>14. QED BY <1>1, <1>2, <1>9, <1>11, <1>12, <1>13 DEF TurnsInv

LEMMA SendKeeps ==
  ASSUME TurnsInv, Send
  PROVE  TurnsInv'
<1>1. TurnsShape /\ (\A q \in Request : Sound(args, q, conv[q])) /\ \A p \in Member : Pendings(p) /\ Placed(p)
  BY DEF TurnsInv
<1>2. /\ args.mode = "server" /\ at' = [r \in Member |-> "wait"]
      /\ UNCHANGED <<args, pending, outputs, conv, results, batch>>
  BY DEF Send
<1>3. TurnsShape'
  BY <1>1, <1>2 DEF TurnsShape
<1>4. \A p \in Member : Pendings(p)'
  BY <1>1, <1>2 DEF Pendings
<1>5. \A p \in Member : Placed(p)'
  BY <1>2 DEF Placed
<1>6. QED BY <1>1, <1>2, <1>3, <1>4, <1>5 DEF TurnsInv

LEMMA RunKeeps ==
  ASSUME TurnsInv, Supported, NEW q \in Request, Run(q)
  PROVE  TurnsInv'
<1>1. TurnsShape /\ (\A p \in Request : Sound(args, p, conv[p])) /\ \A p \in Member : Pendings(p) /\ Placed(p)
  BY DEF TurnsInv
<1>2. /\ ~conv[q].over /\ UNCHANGED <<args, at, pending, outputs, results, batch>>
      /\ \A r \in Member : at[r] = "wait"
  BY DEF Run
<1>3. PICK n \in TurnTokens[q] :
        \E c \in AfterTurn(q, Sampled(q, conv[q].turn, n)) : conv' = [conv EXCEPT ![q] = c]
  BY DEF Run
<1>4. PICK c \in AfterTurn(q, Sampled(q, conv[q].turn, n)) : conv' = [conv EXCEPT ![q] = c]
  BY <1>3
<1>5. /\ DOMAIN conv' = Request /\ \A p \in Request : Sound(args, p, conv[p])'
      /\ \A p \in Member : Pendings(p)'
  BY <1>2, <1>4, HeardOne
<1>6. TurnsShape'
  BY <1>1, <1>2, <1>5 DEF TurnsShape
<1>7. \A p \in Member : Placed(p)'
  BY <1>1, <1>2 DEF Placed
<1>8. QED BY <1>5, <1>6, <1>7 DEF TurnsInv

LEMMA AnswerKeeps ==
  ASSUME TurnsInv, Answer
  PROVE  TurnsInv'
<1>1. TurnsShape /\ (\A q \in Request : Sound(args, q, conv[q])) /\ \A p \in Member : Pendings(p) /\ Placed(p)
  BY DEF TurnsInv
<1>2. /\ at' = [p \in Member |-> "encode"] /\ UNCHANGED <<args, pending, outputs, conv, batch>>
      /\ \A q \in Request : conv[q].over
      /\ \A r \in Member : at[r] = "wait"
  BY DEF Answer
<1>3. PICK all : all = AllOf(pending)
  OBVIOUS
<1>4. PICK answers : answers = [k \in DOMAIN all |-> conv[all[k]]]
  OBVIOUS
<1>5. results' = [r \in Member |-> Part(answers, pending, r)]
  BY <1>3, <1>4 DEF Answer
<1>6. TurnsShape'
  BY <1>1, <1>2, <1>5 DEF TurnsShape
<1>7. \A p \in Member : Pendings(p)'
  BY <1>1, <1>2 DEF Pendings
<1>8. pending \in [Member -> Seq(Request)] /\ all \in Seq(Request) /\ DOMAIN all = 1..Len(all)
  BY <1>1, <1>3, AllOfPending, LenProperties DEF TurnsShape
<1>9. ASSUME NEW r \in Member PROVE Placed(r)'
  <2>1. args.mode = "server" /\ args \in Args
    BY <1>1, <1>2 DEF Placed, TurnsShape
  <2>2. pending[r] = Own(r)
    BY <1>1, <2>1 DEF Pendings
  <2>3. Len(Own(r)) = Local /\ \A i \in 1..Local : Own(r)[i] = <<r, i>>
    BY OwnIs
  <2>4. PICK S : S = {conv[p] : p \in Request}
    OBVIOUS
  <2>5. answers \in [1..Len(AllOf(pending)) -> S]
    <3>1. \A k \in 1..Len(all) : all[k] \in Request
      BY <1>8, ElementOfSeq
    <3>2. QED BY <1>3, <1>4, <1>8, <2>4, <3>1
  <2>6. PICK p : p = Part(answers, pending, r)
    OBVIOUS
  <2>7. IsPart(p, all, answers, pending[r])
    BY <1>3, <1>8, <2>5, <2>6, PartIs
  <2>8. ASSUME NEW i \in 1..Local PROVE Sound(args, <<r, i>>, p[i]) /\ p[i].over
    <3>1. PICK k \in 1..Len(all) : all[k] = <<r, i>> /\ p[i] = answers[k]
      BY <2>2, <2>3, <2>7 DEF IsPart
    <3>2. p[i] = conv[<<r, i>>]
      BY <1>4, <1>8, <3>1
    <3>3. <<r, i>> \in Request
      BY DEF Request
    <3>4. QED BY <1>1, <1>2, <3>2, <3>3
  <2>9. at'[r] = "encode" /\ results'[r] = p /\ args' = args
    BY <1>2, <1>5, <2>6
  <2>10. QED BY <2>1, <2>8, <2>9 DEF Placed
<1>10. QED BY <1>1, <1>2, <1>6, <1>7, <1>9 DEF TurnsInv

LEMMA EncodeKeeps ==
  ASSUME TurnsInv, NEW r \in Member, Encode(r)
  PROVE  TurnsInv'
<1>1. TurnsShape /\ (\A q \in Request : Sound(args, q, conv[q])) /\ \A p \in Member : Pendings(p) /\ Placed(p)
  BY DEF TurnsInv
<1>2. /\ at[r] = "encode" /\ at' = [at EXCEPT ![r] = "done"]
      /\ batch' = [batch EXCEPT ![r] = [i \in 1..Local |-> Sample(results[r][i])]]
      /\ UNCHANGED <<args, pending, outputs, conv, results>>
  BY DEF Encode
<1>3. TurnsShape'
  BY <1>1, <1>2 DEF TurnsShape
<1>4. \A p \in Member : Pendings(p)'
  BY <1>1, <1>2 DEF Pendings
<1>5. Placed(r)'
  <2>1. \A i \in 1..Local : Sound(args, <<r, i>>, results[r][i]) /\ results[r][i].over
    BY <1>1, <1>2 DEF Placed
  <2>2. ASSUME NEW i \in 1..Local PROVE InPlace(<<r, i>>, batch'[r][i]) /\ Stands(batch'[r][i])
    <3>1. batch'[r][i] = Sample(results[r][i])
      BY <1>1, <1>2 DEF TurnsShape
    <3>2. QED BY <2>1, <3>1, SampleIs
  <2>3. at'[r] = "done"
    BY <1>1, <1>2 DEF TurnsShape
  <2>4. QED BY <1>2, <2>1, <2>2, <2>3 DEF Placed
<1>6. ASSUME NEW p \in Member, p # r PROVE Placed(p)'
  <2>1. at'[p] = at[p] /\ batch'[p] = batch[p]
    BY <1>1, <1>2, <1>6 DEF TurnsShape
  <2>2. QED BY <1>1, <1>2, <2>1, PlacedSame
<1>7. QED BY <1>1, <1>2, <1>3, <1>4, <1>5, <1>6 DEF TurnsInv

LEMMA TurnsStep ==
  ASSUME TurnsInv, Supported, [TurnsNext]_turnsVars
  PROVE  TurnsInv'
<1>1. CASE RolloutRound
  BY <1>1, RolloutRoundKeeps
<1>2. CASE Gather
  BY <1>2, GatherKeeps
<1>3. CASE Send
  BY <1>3, SendKeeps
<1>4. CASE Answer
  BY <1>4, AnswerKeeps
<1>5. ASSUME NEW r \in Member, Process(r) PROVE TurnsInv'
  BY <1>5, ProcessKeeps
<1>6. ASSUME NEW r \in Member, EndTurn(r) PROVE TurnsInv'
  BY <1>6, EndTurnKeeps
<1>7. ASSUME NEW r \in Member, Encode(r) PROVE TurnsInv'
  BY <1>7, EncodeKeeps
<1>8. ASSUME NEW q \in Request, Run(q) PROVE TurnsInv'
  BY <1>8, RunKeeps
<1>9. CASE UNCHANGED turnsVars
  <2>1. /\ args' = args /\ at' = at /\ pending' = pending /\ outputs' = outputs /\ conv' = conv
        /\ results' = results /\ batch' = batch
    BY <1>9 DEF turnsVars
  <2>2. \A r \in Member : Pendings(r)'
    BY <2>1 DEF TurnsInv, Pendings
  <2>3. \A r \in Member : Placed(r)'
    BY <2>1, PlacedSame DEF TurnsInv
  <2>4. TurnsShape'
    BY <2>1 DEF TurnsInv, TurnsShape
  <2>5. QED BY <2>1, <2>2, <2>3, <2>4 DEF TurnsInv
<1>10. CASE TurnsOver
  BY <1>9, <1>10 DEF TurnsOver
<1>11. QED
  BY <1>1, <1>2, <1>3, <1>4, <1>5, <1>6, <1>7, <1>8, <1>9, <1>10 DEF TurnsNext

(* The inductive invariant holds in every mode, with every scheduler that   *)
(* Supported allows, for any number of ranks, samples, turns and tokens:    *)
(* conversations stay sound, what a rank waits for is its own, and answers  *)
(* come to the conversations they are of.                                   *)
THEOREM TurnsInvariance ==
  ASSUME Supported
  PROVE  TurnsSpec => []TurnsInv
<1>1. TurnsInit => TurnsInv
  BY StartsSound
<1>2. TurnsInv /\ [TurnsNext]_turnsVars => TurnsInv'
  BY TurnsStep
<1>3. QED BY <1>1, <1>2, PTL DEF TurnsSpec

(* It implies both properties.                                              *)
LEMMA InvInPlace ==
  ASSUME TurnsInv
  PROVE  TurnsInPlace
<1>1. ASSUME NEW r \in Member, NEW i \in Samples(r) PROVE InPlace(<<r, i>>, batch[r][i])
  <2>1. at[r] = "done" /\ i \in 1..Local
    BY DEF Samples
  <2>2. QED BY <2>1 DEF TurnsInv, Placed
<1>2. QED BY <1>1 DEF TurnsInPlace, InPlace

LEMMA InvFits ==
  ASSUME TurnsInv
  PROVE  LogprobsFit
<1>1. ASSUME NEW r \in Member, NEW i \in Samples(r) PROVE Stands(batch[r][i])
  <2>1. at[r] = "done" /\ i \in 1..Local
    BY DEF Samples
  <2>2. QED BY <2>1 DEF TurnsInv, Placed
<1>2. QED BY <1>1 DEF LogprobsFit, Stands

(* What a rank trains on in the place of an assistant message is that       *)
(* message, token for token, with the loss on what was sampled              *)
(* (TurnsInPlace), after any number of turns.                               *)
THEOREM TurnsStayInPlace ==
  ASSUME Supported
  PROVE  TurnsSpec => []TurnsInPlace
<1>1. QED BY TurnsInvariance, InvInPlace, PTL

(* The rollout log probabilities that are used stand on the tokens they     *)
(* were computed for (LogprobsFit).                                         *)
THEOREM LogprobsStand ==
  ASSUME Supported
  PROVE  TurnsSpec => []LogprobsFit
<1>1. QED BY TurnsInvariance, InvFits, PTL
=============================================================================
