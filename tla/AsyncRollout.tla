---------------------------- MODULE AsyncRollout ----------------------------
(***************************************************************************)
(* The asynchronous rollout pipeline of the GRPO trainer                   *)
(* (args.async_generate, vllm_mode = server): every training rank owns a   *)
(* train queue, an eval queue and a one-thread executor; only the main     *)
(* rank talks to the vLLM server.  A generation submits the batch at hand  *)
(* to the executor and trains on the result of the previous one, and new   *)
(* weights are loaded into the server at the first generation of an        *)
(* optimizer step.                                                         *)
(*                                                                         *)
(* The collectives of torch.distributed (gather_object, the ZeRO-3 gather  *)
(* of the parameters, the gathers of the loss) are joint steps of all the  *)
(* ranks; what a rank does between two of them is a step of its own, and   *)
(* so is what its executor thread does.                                    *)
(***************************************************************************)
EXTENDS Integers, Sequences

CONSTANTS
  Rank,            \* the processes of the training job
  Main,            \* accelerator.is_main_process
  MicroPerStep,    \* args.gradient_accumulation_steps
  GenerateEvery,   \* steps_per_generation * sequence_parallel_size * num_iterations
  MaxSteps,        \* args.max_steps: bounds the run
  EvalSteps,       \* args.eval_steps; 0: eval_strategy = 'no'
  EvalBatches,     \* batches of one evaluation
  EvalOnStart,     \* args.eval_on_start
  MaxResample,     \* args.max_resample_times; 0: dynamic_sample is off
  MayFail          \* a rollout request may raise

ASSUME ConstantsAssumption ==
  /\ Main \in Rank
  /\ MicroPerStep \in Nat \ {0} /\ GenerateEvery \in Nat \ {0}
  /\ MaxSteps \in Nat \ {0} /\ EvalSteps \in Nat /\ EvalBatches \in Nat \ {0}
  /\ EvalOnStart \in BOOLEAN /\ MaxResample \in Nat /\ MayFail \in BOOLEAN

VARIABLES
  pc,              \* where the main thread of each rank is
  shouldEvaluate,  \* control.should_evaluate
  inEval,          \* inside evaluation_loop
  evalFlag,        \* trainer.eval_flag
  lastLoaded,      \* trainer._last_loaded_step
  queue,           \* trainer.train_queue and trainer.eval_queue
  tasks,           \* what the executor of each rank has not finished, the running task first
  running,         \* the executor thread of the main rank has its request at the server
  got,             \* the data_cache a rank has just taken from its queue
  sent,            \* number of batches sent to rollout, by kind
  served,          \* optimizer step of the weights the server holds
  micro,           \* trainer._step: micro-batches trained
  step,            \* state.global_step
  resampled,       \* resample_count of _dynamic_sampling
  evalLeft         \* batches left of this evaluation, or of the next one

trainerVars == <<shouldEvaluate, inEval, evalFlag>>
clockVars   == <<micro, step, resampled, evalLeft>>
vars == <<pc, trainerVars, lastLoaded, queue, tasks, running, got, sent, served, clockVars>>

Kind == {"train", "eval"}

NoWeights == -1    \* no optimizer step: a result that holds no completions

PC == {"prefetch", "preload", "preloading", "preinfer", "step", "evalwait", "waitq", "load",
       "loading", "gather", "get", "scatter", "compute", "evalend", "done"}

Task == [kind : Kind, no : Nat]
Result == [kind : Kind, no : Nat, ver : Int]

-----------------------------------------------------------------------------
(* RolloutTrainerMixin._queue: chosen by should_evaluate, when it is read. *)
Current(r) == IF shouldEvaluate[r] THEN "eval" ELSE "train"

AllAt(p) == \A r \in Rank : pc[r] = p

Goto(r, p) == pc' = [pc EXCEPT ![r] = p]
AllGoto(p) == pc' = [r \in Rank |-> p]

(* Variants of operators below, as a slip in the code would make them; the  *)
(* specification does not use them.                                         *)
FastInferLoadsOnce(r) == IF lastLoaded[r] = -1 THEN "waitq" ELSE "gather"
FastInferAlwaysLoads(r) == "waitq"
PutNewestFirst(r, res) == queue' = [queue EXCEPT ![r][res.kind] = <<res>> \o @]

(* The entry of _fast_infer: load the weights of a new optimizer step first. *)
FastInfer(r) == IF lastLoaded[r] # step THEN "waitq" ELSE "gather"

(* What a rollout returns: the ranks other than the main one get [] at once. *)
Rollout(r, kind, no) ==
  [kind |-> kind, no |-> no, ver |-> IF r = Main THEN served ELSE NoWeights]

Put(r, res) == queue' = [queue EXCEPT ![r][res.kind] = Append(@, res)]

(* Where training goes when a step, or the evaluation after it, is over. *)
NextStep == IF step = MaxSteps THEN "done" ELSE "step"

Init ==
  /\ pc = [r \in Rank |-> "prefetch"]
  /\ shouldEvaluate = [r \in Rank |-> FALSE]
  /\ inEval = [r \in Rank |-> FALSE]
  /\ evalFlag = [r \in Rank |-> FALSE]
  /\ lastLoaded = [r \in Rank |-> -1]
  /\ queue = [r \in Rank |-> [k \in Kind |-> << >>]]
  /\ tasks = [r \in Rank |-> << >>]
  /\ running = FALSE
  /\ got = [r \in Rank |-> [kind |-> "train", no |-> 0, ver |-> NoWeights]]
  /\ sent = [k \in Kind |-> 0]
  /\ served = NoWeights
  /\ micro = 0 /\ step = 0 /\ resampled = 0 /\ evalLeft = EvalBatches

-----------------------------------------------------------------------------
(* _prefetch: the first batch of a fresh iterator is gathered ...          *)
PrefetchGather ==
  /\ AllAt("prefetch")
  /\ pc' = [r \in Rank |-> IF lastLoaded[r] # step THEN "preload" ELSE "preinfer"]
  /\ sent' = [sent EXCEPT ![Current(Main)] = @ + 1]
  /\ UNCHANGED <<trainerVars, lastLoaded, queue, tasks, running, got, served, clockVars>>

(* ... and its rollout is run in the main thread, then put in the queue.   *)
(* on_train_begin goes on to training, evaluation_loop to its first batch. *)
PrefetchPut(r) ==
  /\ pc[r] = "preinfer"
  /\ Put(r, Rollout(r, Current(r), sent[Current(r)]))
  /\ IF inEval[r] \/ ~EvalOnStart
       THEN /\ Goto(r, IF inEval[r] THEN FastInfer(r) ELSE "step")
            /\ UNCHANGED inEval
       ELSE /\ Goto(r, "evalwait")
            /\ inEval' = [inEval EXCEPT ![r] = TRUE]
  /\ UNCHANGED <<shouldEvaluate, evalFlag, lastLoaded, tasks, running, got, sent, served, clockVars>>

(* _move_model_to_vllm: wait for the rollout in progress, unless the caller *)
(* is _prefetch (skip_async_check = True).                                  *)
WaitQueue(r) ==
  /\ pc[r] = "waitq"
  /\ queue[r][Current(r)] # << >>
  /\ Goto(r, "load")
  /\ UNCHANGED <<trainerVars, lastLoaded, queue, tasks, running, got, sent, served, clockVars>>

(* All ranks gather the parameters; the main rank alone sends them.         *)
LoadBegin ==
  \E load \in {"load", "preload"} :
    /\ AllAt(load)
    /\ LET sending == IF load = "load" THEN "loading" ELSE "preloading"
           after == IF load = "load" THEN "gather" ELSE "preinfer"
       IN  pc' = [r \in Rank |-> IF r = Main THEN sending ELSE after]
    /\ lastLoaded' = [r \in Rank |-> IF r = Main THEN lastLoaded[r] ELSE step]
    /\ UNCHANGED <<trainerVars, queue, tasks, running, got, sent, served, clockVars>>

(* The server holds the new weights, its prefix cache is reset.             *)
LoadEnd ==
  /\ pc[Main] \in {"loading", "preloading"}
  /\ Goto(Main, IF pc[Main] = "loading" THEN "gather" ELSE "preinfer")
  /\ lastLoaded' = [lastLoaded EXCEPT ![Main] = step]
  /\ served' = step
  /\ UNCHANGED <<trainerVars, queue, tasks, running, got, sent, clockVars>>

(* _fast_infer gathers the batch of all ranks; each rank submits it to its  *)
(* executor (async_generate_rollout reads the queue to answer to here).     *)
Submit ==
  /\ AllAt("gather")
  /\ AllGoto("get")
  /\ sent' = [sent EXCEPT ![Current(Main)] = @ + 1]
  /\ tasks' = [r \in Rank |->
                 Append(tasks[r], [kind |-> Current(r), no |-> sent'[Current(Main)]])]
  /\ UNCHANGED <<trainerVars, lastLoaded, queue, running, got, served, clockVars>>

(* data_cache = self._queue.get()                                           *)
Take(r) ==
  /\ pc[r] = "get"
  /\ queue[r][Current(r)] # << >>
  /\ got' = [got EXCEPT ![r] = Head(queue[r][Current(r)])]
  /\ queue' = [queue EXCEPT ![r][Current(r)] = Tail(@)]
  /\ Goto(r, "scatter")
  /\ UNCHANGED <<trainerVars, lastLoaded, tasks, running, sent, served, clockVars>>

-----------------------------------------------------------------------------
(* With a bug: an empty result is not put.                                  *)
EmptyTaskDropped(r) ==
  /\ r # Main
  /\ tasks[r] # << >>
  /\ tasks' = [tasks EXCEPT ![r] = Tail(@)]
  /\ UNCHANGED <<pc, trainerVars, lastLoaded, queue, running, got, sent, served, clockVars>>

(* The executor thread.  A rank other than the main one has nothing to ask. *)
EmptyTask(r) ==
  /\ r # Main
  /\ tasks[r] # << >>
  /\ Put(r, Rollout(r, Head(tasks[r]).kind, Head(tasks[r]).no))
  /\ tasks' = [tasks EXCEPT ![r] = Tail(@)]
  /\ UNCHANGED <<pc, trainerVars, lastLoaded, running, got, sent, served, clockVars>>

(* infer_task on the main rank: the request reaches the server ...          *)
RolloutBegin ==
  /\ tasks[Main] # << >>
  /\ ~running
  /\ running' = TRUE
  /\ UNCHANGED <<pc, trainerVars, lastLoaded, queue, tasks, got, sent, served, clockVars>>

(* ... and is answered: the done callback puts the result in the queue that *)
(* was current when the task was submitted.                                 *)
RolloutEnd ==
  /\ running
  /\ Put(Main, Rollout(Main, Head(tasks[Main]).kind, Head(tasks[Main]).no))
  /\ tasks' = [tasks EXCEPT ![Main] = Tail(@)]
  /\ running' = FALSE
  /\ UNCHANGED <<pc, trainerVars, lastLoaded, got, sent, served, clockVars>>

(* ... or it raises: the callback logs the error and puts nothing.          *)
RolloutFail ==
  /\ MayFail
  /\ running
  /\ tasks' = [tasks EXCEPT ![Main] = Tail(@)]
  /\ running' = FALSE
  /\ UNCHANGED <<pc, trainerVars, lastLoaded, queue, got, sent, served, clockVars>>

-----------------------------------------------------------------------------
(* Variants: training_step does not wait; every evaluation prefetches.      *)
EvalRolloutDoneAlways(r) == TRUE

EvalBeginPrefetches(r) ==
  /\ pc[r] = "evalwait"
  /\ queue[r]["train"] # << >>
  /\ Goto(r, "prefetch")
  /\ UNCHANGED <<trainerVars, lastLoaded, queue, tasks, running, got, sent, served, clockVars>>

(* training_step: wait for the eval rollout, then _prepare_inputs           *)
(* generates every GenerateEvery micro-batches.                             *)
EvalRolloutDone(r) == ~evalFlag[r] \/ queue[r]["eval"] # << >>

TrainingStep(r) ==
  /\ pc[r] = "step"
  /\ EvalRolloutDone(r)
  /\ Goto(r, IF micro % GenerateEvery = 0 THEN FastInfer(r) ELSE "compute")
  /\ UNCHANGED <<trainerVars, lastLoaded, queue, tasks, running, got, sent, served, clockVars>>

(* gather_object(data_cache.results) and what the caller does next:         *)
(* _dynamic_sampling wants another batch ...                                *)
Resample ==
  /\ AllAt("scatter") /\ ~inEval[Main]
  /\ resampled < MaxResample
  /\ resampled' = resampled + 1
  /\ pc' = [r \in Rank |-> FastInfer(r)]
  /\ UNCHANGED <<trainerVars, lastLoaded, queue, tasks, running, got, sent, served,
                 micro, step, evalLeft>>

(* ... or the batch is buffered and trained on ...                          *)
BatchReady ==
  /\ AllAt("scatter") /\ ~inEval[Main]
  /\ resampled' = 0
  /\ AllGoto("compute")
  /\ UNCHANGED <<trainerVars, lastLoaded, queue, tasks, running, got, sent, served,
                 micro, step, evalLeft>>

(* ... or it is scored, and the evaluation goes on to its next batch.       *)
EvalBatch ==
  /\ AllAt("scatter") /\ inEval[Main]
  /\ evalLeft' = IF evalLeft = 1 THEN EvalBatches ELSE evalLeft - 1
  /\ pc' = [r \in Rank |-> IF evalLeft = 1 THEN "evalend" ELSE FastInfer(r)]
  /\ UNCHANGED <<trainerVars, lastLoaded, queue, tasks, running, got, sent, served,
                 micro, step, resampled>>

(* Loss and backward of one micro-batch; the last of MicroPerStep of them   *)
(* updates the weights, and every EvalSteps updates there is an evaluation. *)
Backward ==
  /\ AllAt("compute")
  /\ micro' = micro + 1
  /\ LET update == (micro + 1) % MicroPerStep = 0
         evaluate == update /\ EvalSteps > 0 /\ (step + 1) % EvalSteps = 0
     IN  /\ step' = IF update THEN step + 1 ELSE step
         /\ shouldEvaluate' = [r \in Rank |-> evaluate]
         /\ inEval' = [r \in Rank |-> evaluate]
         /\ AllGoto(IF evaluate THEN "evalwait" ELSE NextStep')
  /\ UNCHANGED <<evalFlag, lastLoaded, queue, tasks, running, got, sent, served,
                 resampled, evalLeft>>

(* evaluation_loop waits for the train rollout; the first evaluation finds  *)
(* its queue empty and prefetches.                                          *)
EvalBegin(r) ==
  /\ pc[r] = "evalwait"
  /\ queue[r]["train"] # << >>
  /\ Goto(r, IF queue[r][Current(r)] = << >> THEN "prefetch" ELSE FastInfer(r))
  /\ UNCHANGED <<trainerVars, lastLoaded, queue, tasks, running, got, sent, served, clockVars>>

(* The end of evaluation_loop, then on_evaluate clears should_evaluate.     *)
EvalEnd(r) ==
  /\ pc[r] = "evalend"
  /\ evalFlag' = [evalFlag EXCEPT ![r] = TRUE]
  /\ shouldEvaluate' = [shouldEvaluate EXCEPT ![r] = FALSE]
  /\ inEval' = [inEval EXCEPT ![r] = FALSE]
  /\ Goto(r, NextStep)
  /\ UNCHANGED <<lastLoaded, queue, tasks, running, got, sent, served, clockVars>>

Terminated == AllAt("done") /\ UNCHANGED vars

-----------------------------------------------------------------------------
MainThread(r) ==
  \/ PrefetchPut(r) \/ WaitQueue(r) \/ Take(r)
  \/ TrainingStep(r) \/ EvalBegin(r) \/ EvalEnd(r)

Collective ==
  \/ PrefetchGather \/ LoadBegin \/ Submit
  \/ Resample \/ BatchReady \/ EvalBatch \/ Backward

Executor(r) == EmptyTask(r) \/ (r = Main /\ (RolloutBegin \/ RolloutEnd \/ RolloutFail))

Next ==
  \/ \E r \in Rank : MainThread(r) \/ Executor(r)
  \/ Collective
  \/ LoadEnd
  \/ Terminated

Spec == Init /\ [][Next]_vars

(* Every thread keeps running.  The choice of another resampling is left to *)
(* the rewards, but MaxResample bounds it.                                  *)
Fairness ==
  /\ \A r \in Rank : WF_vars(MainThread(r)) /\ WF_vars(Executor(r))
  /\ WF_vars(Collective) /\ WF_vars(LoadEnd)

FairSpec == Spec /\ Fairness

-----------------------------------------------------------------------------
TypeOK ==
  /\ pc \in [Rank -> PC]
  /\ shouldEvaluate \in [Rank -> BOOLEAN] /\ inEval \in [Rank -> BOOLEAN]
  /\ evalFlag \in [Rank -> BOOLEAN]
  /\ lastLoaded \in [Rank -> Int]
  /\ queue \in [Rank -> [Kind -> Seq(Result)]]
  /\ tasks \in [Rank -> Seq(Task)]
  /\ running \in BOOLEAN
  /\ got \in [Rank -> Result]
  /\ sent \in [Kind -> Nat]
  /\ served \in Int
  /\ micro \in Nat /\ step \in 0 .. MaxSteps /\ resampled \in 0 .. MaxResample
  /\ evalLeft \in 1 .. EvalBatches

(* The main rank is sending weights to the server.                          *)
Loading == pc[Main] \in {"loading", "preloading"}

(* The main rank has a rollout submitted that is not finished.              *)
InFlight == tasks[Main] # << >>

(* The weights of the server never change under a rollout: a load starts    *)
(* only when no rollout is running or waiting in the executor, whatever the *)
(* mode it was submitted in, although _wait_queue looks at one queue only.  *)
NoLoadDuringRollout == Loading => ~InFlight

(* The server never serves two batches of this job at once: the synchronous *)
(* rollout of _prefetch and the executor's exclude each other.              *)
OneRolloutAtATime == pc[Main] = "preinfer" => ~InFlight

(* gather_object(data_cache.results) concatenates the results of one and    *)
(* the same submission, although every rank takes it from a queue of its    *)
(* own that an executor of its own has filled.                              *)
RanksAgree ==
  \A r, s \in Rank : pc[r] = "scatter" /\ pc[s] = "scatter" =>
    got[r].kind = got[s].kind /\ got[r].no = got[s].no

(* The batch handed to the trainer or to the evaluation is of its own kind  *)
(* and the one submitted just before the latest: none is lost or repeated.  *)
OneBatchLag ==
  \A r \in Rank : pc[r] = "scatter" =>
    got[r].kind = Current(r) /\ got[r].no = sent[Current(r)] - 1

(* A train batch was generated with the weights of the previous generation, *)
(* or with the current ones when _dynamic_sampling asked for another batch: *)
(* evaluations in between make it neither older nor newer.                  *)
TrainStaleness ==
  pc[Main] = "scatter" /\ ~inEval[Main] =>
    got[Main].ver =
      IF resampled > 0 THEN step
      ELSE (IF micro < GenerateEvery THEN 0 ELSE micro - GenerateEvery) \div MicroPerStep

(* "Wait for the eval rollout to complete" (training_step): a rank that     *)
(* waits there has an eval rollout in its executor, so the wait ends.       *)
WaitsForRunningEval ==
  \A r \in Rank : pc[r] = "step" /\ ~EvalRolloutDone(r) =>
    \E i \in DOMAIN tasks[r] : tasks[r][i].kind = "eval"

(* "sampling uses the model from the previous update step" (the doc of      *)
(* async_generate), for the batches of an evaluation.                       *)
EvalOneUpdateOld ==
  pc[Main] = "scatter" /\ inEval[Main] => got[Main].ver >= step - 1

(* Every rank reaches max_steps: no rank waits for ever for a queue or for  *)
(* the other ranks.                                                         *)
TrainingEnds == <>AllAt("done")

(* The pipeline, seen from the main rank, implements RolloutService.        *)
Service == INSTANCE RolloutService WITH
  Kind    <- Kind,
  Limit   <- 2,
  weights <- served,
  loading <- Loading,
  open    <- [i \in DOMAIN tasks[Main] |-> tasks[Main][i].kind],
  ready   <- [k \in Kind |-> [i \in DOMAIN queue[Main][k] |-> queue[Main][k][i].ver]]

ImplementsRolloutService == Service!Spec
=============================================================================
