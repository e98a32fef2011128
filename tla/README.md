# Verification of the GRPO / OPD training stack

TLA+ models of the stateful core of this repository (an ms-swift derivative for
GRPO with self-distillation, SDPO): how rollouts are requested, generated and
trained on, how weights travel to the rollout servers, how the teacher of the
distillation follows the student, how completions are routed to that teacher and
what it is shown, how the turns of a dialogue become a training sample; and of the machinery
below them: how a generation batch is drawn, resampled and split, how a stream is packed and
dispatched, how activations are offloaded, how checkpoints are saved and resumed,
and how the transformers engine serves concurrent requests.  TLC checks the models on small instances;
TLAPS proves some of the properties for every value of the constants.

Paths below are relative to `src/swift/` unless they begin with `src/`.

## 1. Inventory

| Component | Where | State it keeps | Operations | What is hard |
|---|---|---|---|---|
| Async rollout pipeline | `rlhf_trainers/rollout_mixin.py` 50-79, 374-392, 909-957, 988-1038, 1416-1480; `rlhf_trainers/grpo_trainer.py` 588-634, 1297-1346, 2886-2903, 3000-3004 | on each rank: train and eval queue, a one-thread executor, `eval_flag`, `_last_loaded_step`; on the main rank the request in progress | prefetch, load weights, submit, take, train, resample, evaluate | three kinds of concurrency (ranks, executor threads, server), the queue chosen by a flag that changes meanwhile, polling loops |
| vLLM client | `rlhf_trainers/vllm_client.py` | sessions, NCCL communicators, one thread for each server in a call | check, init/close communicator, update (with retries), reset, infer | an HTTP request and an NCCL operation that must pair up; partial failure |
| Rollout server and workers | `pipelines/infer/rollout.py` | pipes to the data-parallel workers, their weights, communicator and prefix cache | handlers (calls, fire-and-forget), worker loop, lifespan | acknowledged before executed, one event loop, replies without identity |
| SDPO teacher | `rlhf_trainers/grpo_trainer.py` 172-569 | teacher weights, windows, EWMA, baseline, hits, refresh count, last step, all on each rank | EMA update, metric record, check, broadcast, copy, reset | collectives entered by local decisions; several micro-batches in a step |
| Sampling, advantages, buffering | `rlhf_trainers/grpo_trainer.py` 574-671, 911-941, 1100-1362, 1683-1695, 2386-2440, 3395-3434; `rollout_mixin.py` 966-1035, 1565-1627; `utils.py` 1406-1441 | dataloaders, each rank's resample iterator, the collected rounds, `_buffered_inputs`, `_step` | draw, replace what cannot be encoded, generate and score, resample, advantages, split, chunked loss | lists of samples, rewards and advantages that are gathered, filtered and cut separately and must stay in step |
| SDPO routing | `rlhf_trainers/grpo_trainer.py` 710-908, 1938-2026, 2101-2210, 2303-2390 | the `_sdpo_` fields of each sample; the hint images in `opsd_mask_dir`, shared by the ranks | route, choose a sibling's box as the hint, mask, draw, read back, distil | ranks that draw at the same time; a collective forward pass under a rank's own mask; groups and thresholds |
| Multi-turn rollout | `rlhf_trainers/rollout_mixin.py` 739-907, 988-1137; `rollout/multi_turn.py` 181-425, 428-524, 582-679; `utils.py` 658-741; `grpo_trainer.py` 1488-1495, 1561-1614 | per request: messages, turn, tokens, masks and log probabilities added up so far; per rank: the requests not finished | a lock-step loop over turns (colocate) or a coroutine per request (server), the scheduler's step, encoding | four lists added up separately and put together from the end; all ranks leave the loop together |
| Activation offload | `callbacks/activation_cpu_offload.py` 138-161, 225-432, 466-521, 575-581 | current group, offloaded groups, tensor states, buffers, copies; three device streams | push, pop, commit forward/backward | the host runs ahead of the streams; forward and backward share one counter |
| Transformers engine | `infer_engine/transformers_engine.py` 95-167, 257-316, 463-549; `infer_engine.py` 290-314 | request queue, task pool, worker thread, one asyncio queue per request | infer_async, pooling, batch, stream | the worker thread may die; None means two things; one batch, many requests |
| Packing, dispatch | `dataset/packing.py` 17-28, 116-204; `dataloader/dispatcher.py` | in/out queues, worker processes, the row held back; the iterator of rank 0 | encode, group, skip, scatter | answers in any order; only rank 0 knows the end |
| Checkpoint and resume | `trainers/mixin.py` 416-660, 1140-1252; `pipelines/train/sft.py` 242-273; `trainers/utils.py` 266-292; `callbacks/deepspeed_elastic.py`; `utils/shutdown_manager.py` | checkpoint directories, tracer file, trainer state, dataloader position, shutdown requests | save, skip, rotate, resume, graceful stop | persistence is asynchronous; a crash or a signal at any point |
| Everything else | models, templates, tuners, losses, metrics, optimizers, Megatron, Ray, sequence parallelism, UI, CLI, hub, rewards, scripts | numeric or external state | | out of scope: data transformation, numeric code, or glue around third-party frameworks |

How they interact: the trainer ranks run the HF `Trainer` loop in lock-step, tied
by the collectives of `torch.distributed`.  The main rank alone calls
`VLLMClient`, from its main thread (weights, prefix cache, prefetch) and from its
executor thread (rollouts).  The client talks HTTP and NCCL to the servers; a
server talks to its workers by pipes.  The teacher is touched only from the main
thread of each rank, inside `training_step` and the loss.

What makes each component correct:

* pipeline: no weights change under a rollout; ranks combine results of the same
  submission; a batch is exactly one generation old; nobody waits in vain;
* weight synchronisation: a bucket receives its own tensors; a rollout sees the
  complete last weights and no older cache; answers in order of the prompts;
* teacher: ranks enter the same collectives and hold the same teacher; a window
  never spans a refresh; limit and cooldown hold; one EMA blend per step;
* routing: what is distilled has a hint of its own prompt that is better than it;
  the teacher sees its own image, all of it; the ranks run the teacher together;
* multi-turn: each answer is trained on with its own tokens and mask, a log
  probability stands on its token, the ranks leave the rounds together;
* batches: a completion keeps its own reward and advantage, relative to its own
  prompt, and is trained on equally often as any other;
* packing: no sample lost or repeated, the same rows whatever the workers' order,
  the ranks leave together;
* offload: a backward reads what its forward saved; bounded memory; a pass leaves
  nothing behind;
* checkpoints: what can be resumed is complete; a resumed epoch misses and repeats
  nothing; the best model stays; a shutdown stops all ranks;
* engine: every request gets its own output, all of it, and always.

`PROJECT.json` lists the hazards of the code at their lines, with the properties
that would catch each one, and those no property covers yet.

## 2. Modules

### AsyncRollout (and RolloutService)

State ↔ code: `pc[r]` is where the main thread of rank `r` is; `queue[r]` its
`train_queue` and `eval_queue`; `tasks[r]` what its executor has not finished;
`running` is true while the executor thread of the main rank has its request at
the server.  `shouldEvaluate`, `evalFlag`, `lastLoaded` are the attributes of
those names; `inEval` says that the rank is inside `evaluation_loop`.
`served` names the server's weights by the optimizer step they come from, and a
batch is named by its kind and its number of submission.

Collectives (`gather_object`, the ZeRO-3 gather of a load, the gathers of the
loss) are joint steps of all ranks that have arrived there; everything between
two of them is a step of one rank or of one executor.  Evaluation and training
share `FastInfer`, `WaitQueue`, `LoadBegin`, `LoadEnd`, `Submit` and `Take`, as
they share `_fast_infer` in the code.  The HF `Trainer` loop (`Backward`,
`NextStep`, the callbacks that set and clear `should_evaluate`) is external,
modelled from how the trainer overrides it.

`RolloutService` is the abstract specification: rollouts are answered in the
order they were asked, each by the weights of one step, delivered in order within
their kind, and the weights change only, to newer ones, when none is open.
`AsyncRollout!Service` maps the pipeline onto it (weights ← `served`, open ←
`tasks[Main]`, ready ← the versions in `queue[Main]`, at most two open).

### WeightSync

One client (a thread per server), `NumServers` servers with a single event loop,
`NumWorkers` workers each.  `net[s]` holds requests on their way, `conn` and
`resp` the connection in use and its response, `pipe`/`reply` the two directions
of a pipe, `busy[s]` the call whose replies the handler is collecting: its
blocking `recv` stops the event loop.  `loaded[s][w][b]` is which tensors (bucket
and version) sit in the parameters of bucket `b`; `data` is what a worker has
received and not loaded.  `Broadcast` and `Rendezvous` are joint steps of the
client and all the workers of a server, as NCCL makes them.  The two modes of
`enable_flattened_weight_sync` differ in `RetryLimit`.

Faults: `MayLose` (a request or its answer is lost or late), `MayRaise` (methods
that may raise in a worker), `MaxCrashes` (the trainer is killed and restarted by
its launcher while the servers stay up).  A restart takes minutes: by then a
free event loop has handled what was left of the requests (`Restart`).

### TeacherRefresh

Every rank walks `training_step` (EMA) → fixed refresh → SDPO loss → metric
record → `all_reduce` → check → `broadcast` → copy → `barrier` → backward.  All
trackers are functions of the rank: agreement between ranks is a theorem about
the code, not an assumption of the model.  The metrics of a record are reduced to
the mean IoU (0 or 1) and one Boolean for all the guards; the means over windows
are computed exactly.  A weight is named by when the teacher's parameter was last
copied from the student and how many EMA blends it has seen since.

### SdpoRouting

The self-distillation loss on one generation batch.  `score` is what
`_sdpo_score_completion` and the reward functions give a completion: its IoU as
a level, whether its box is valid, its reward; `Init` takes every combination the
function can return.  `Routing` is `_prepare_sdpo_routing`, which the ranks do
each for itself: `Route` with its mean and its standard deviations, compared
exactly (the `1e-6` under the fraction is left out), `Best` the sibling
`max` finds, `Hint` the three hint sources.  `Masked` is `sdpo_sequence_mask`.

For each mini batch `AllReduce` decides whether there is anything to distil, and
each rank makes the rows of its teacher's batch, one sample after the other.
`Open`, `Save` and `Encode` are the three steps of one image on disk: opened for
writing, which empties it, written, and read back by the template.  Between them
the other ranks do theirs, in the same directory; `files` is that directory, and
`FileName` the name `sdpo_mask_processor` makes of the hint type and the
`sample_id` (or the `hash` of the path, which differs between processes).
Without `sample_id` all prompts are taken to be about one image.  `Forward` is
the teacher's forward pass, collective when its weights are partitioned, and
`Gather` the gather of the losses.  `taught` remembers what was distilled and
what the teacher was shown for it.

### MultiTurn

`conv[q]` is what `_colocate_multi_turn_infer` or `MultiTurnScheduler.run` keeps of
request `q`: its messages, the turn, `response_token_ids`, `response_loss_mask` and
`rollout_logprobs`; `pending` and `outputs` are `index_to_infer` and `outputs` of each
rank.  In mode "colocate" `RolloutRound` and `Gather` are joint steps (the `all_gather_object`
in `_colocate_rollout`, the `gather_object` of `has_local_data`), and `Process` takes one
output at a time; in mode "server" `Run(q)` is what one coroutine does between two awaits.
The two loops share `Heard`, `NextTurn` (with `Added` and `Prepared`) and `Complete`, as their code does line by line,
and differ in `LastPlace`: where the tokens of the last turn go.

A token is named by its request, its turn and its number in the turn, a token of the
scheduler's own text by the number 0; the text of a message is the sequence of its
tokens; a log probability is named by the token it was computed for.  So `Replaced`
(`replace_assistant_response_with_ids`) and `Scattered` (the log probabilities on
`completion_mask`) can be compared with what the model really said.  `Stepped` is the
`step` of each scheduler.  "tool" is `ToolCallScheduler` of
`src/examples/train/grpo/plugin/plugin.py` 1180-1212; "turns" and "unmasked" are schedulers a
user may write within the contract of `step` (`multi_turn.py` 358-378).  `check_finished` ends a
dialogue by its content at any turn, and always at `MaxTurns`.

### GrpoBatches

The sizes of a batch (`Ranks`, `Local`, `Group`, `MiniBatches`), and what
`GRPOConfig.check_num_generations` and the batch arguments require of them, are in
`GenerationBatch`, which `SdpoRouting` extends too: both are about the same batches,
and one proof module is about both.  Their `Init`, `Next`, `Spec`, ... therefore have
prefixes (`GrpoSpec`, `SdpoSpec`).

A sample is the prompt it holds (its source and number in the dataset); a
completion adds the request it answers, so resampled rounds are distinct;
a reward remembers the completion it was computed for.  `Draw` is
`_prepare_inputs` at the start of a generation, `ReplaceFailed`
`resample_encode_failed_inputs`, `Generate` the rollout with its scoring (with a
multi-turn server some requests return two turns, so the number of outputs no
longer is that of the requests), `Measure`, `TakeValid` and `GiveUp` the loop of
`_dynamic_sampling` and its two exits, `Prepare` the advantages and
`split_by_mini_batches`, `Train` one step over a mini batch, in chunks when a
rank has more than its share.  The ranks act together, because each of these ends
in a collective; only the iterators of replaced samples are a rank's own.  Of a
group's rewards only whether they vary is kept.  The samples that replace others
are taken to encode.

### Packing

The worker processes, `IterablePackingDataset.__iter__` in the iterator of rank 0
and `DataLoaderDispatcher.__iter__` on each rank.  The iterator is a generator:
it runs only when its rows have been consumed (`rows = << >>`).  A sample that is encoded
becomes an item, its number with its length, as `_fetch_data_out_queue` keeps it; one that is
not is `Failed`.  `Grouped` is the reference: the rows (`ExpectedRows`) one process would make
that encodes and groups interval after interval, and what it would hold back.
A batch is one row.  `binpacking` is external, modelled as it packs: longest
first, into the fullest row that has room.

### ActivationOffload

The host thread runs forward, commit, commit, backward (`phase`, `layer`) and
queues operations on three streams; each stream runs its operations in order and
at its own speed, and waits only where `wait_stream` put a wait.  `state`, `buf`,
`mapping`, `group`, `count` are the handler's attributes, by group (all tensors
of a group are treated alike).  `gpu`, `cpu` and `reloaded` say of which pass the
contents of a group's memory are, 0 for memory that was freed and given to others.

### FlashCheckpoint

One training run after another, each in a version directory of its own.  Between
steps the run reads shutdown requests, reduces them over the ranks, saves and
rotates; the DLRover agent (external) persists on its own and writes the tracer
file.  A crash may come at any point, and the agent may or may not survive it.  A
checkpoint is named by the sequence of batches its weights were trained on, which
is what lets a property speak of skipped or repeated data after a resume.

### InferWorker

Coroutines of one event loop (`client`, `inbox`, `got`) and the worker thread.
`queue` and `pool` are `_queue` and `_task_pool`, `batch` what `_infer` was given;
an output remembers whose it is, the adapter it was generated with and its number
in the stream.  `template.encode` may raise for some requests, and then answers
with an error, or raises in the thread when the engine is strict.

### The proof modules

`AsyncRolloutProofs`, `WeightSyncProofs`, `TeacherRefreshProofs`,
`FlashCheckpointProofs`, `ActivationOffloadProofs`, `PackingProofs` and
`InferWorkerProofs` prove theorems about the modules they are named for, and
`GrpoProofs` about `GrpoBatches` and `SdpoRouting`; see section 5.
`AsyncRolloutProofs` also has the theorems about `MultiTurn`.

Operators under a comment "With a bug" are variants, as a slip in the code would
make them; no specification uses them.

## 3. Runs

| Run | Instance | Shows |
|---|---|---|
| `async_train` | 3 ranks, 2 micro-batches per step, a generation per micro-batch, 4 steps, evaluation of 2 batches every 2 steps, one resampling | agreement of the ranks, order and age of every batch, the waits end, training ends |
| `async_failing` | 2 ranks, a generation every second step, evaluation after every step, rollouts may fail | no load under a rollout, refinement of `RolloutService` |
| `sync_reliable` | 2 servers × 2 workers, 2 buckets, 3 prompts, 2 rounds, no fault | answers of all servers in order, the run ends |
| `sync_faulty` | 1 server × 2 workers, unflattened, lost messages, raising updates and rollouts, one crash | under faults, a bucket gets its own tensors, a rollout sees complete weights and a fresh cache, answers in order |
| `teacher` | 2 ranks, all four modes, 2 micro-batches, 4 steps, window 2, cooldown 2, limit 2 | collectives match, equal teachers, fresh windows, one blend per step, refresh rate |
| `sdpo` | 2 ranks with a group of 3 completions each, 3 mini batches, 7 scores on one rank and 2 on the other, 14 argument combinations, an image size that may be missing | the completion's own image, a better hint, the same collectives |
| `flash` | 2 ranks, 4 steps of one epoch, a save in every step, limit 2, with and without the elastic callback, one interruption | the tracer names a complete checkpoint, an epoch's batches once each, the best model kept, prompt shutdown, training ends |
| `infer` | 3 plain requests and a stream, two of them possibly malformed, batches of 2, strict or not | own answers, complete streams, everyone answered |
| `offload` | 5 layers, 3 training passes | backward reads its own forward, handler reset |
| `grpo` | 2 ranks × 2 groups of 2, 2 mini batches, 2 iterations, 2 resamplings, 2 generations, plain, dynamic or multi-turn | own advantage, whole groups, varied groups, trained equally often |
| `packing` | 2 workers, 2 ranks, every dataset of up to 4 samples (long, short, too long for a row, not encodable), intervals of 2, with and without a skipped batch | nothing lost, the same batches whatever the order, all ranks end |
| `multi_turn` | 2 ranks × 2 samples, up to 3 turns, answers of 1 or 2 tokens, both modes, 4 schedulers, with and without log probabilities | each answer with its own tokens and mask, log probabilities on their tokens, all ranks end together |

Section 6 lists where the code disagrees with a property under other
constants.  `TypeOK` is proved for four modules (`AsyncRollout`, `TeacherRefresh`, `ActivationOffload`, `GrpoBatches`),
`TwoGroups` for one, and not repeated among the runs; in the others it documents the variables.

Why the bounds are enough.  *Ranks*: a rank other than the main one differs from
the main one only in having nothing to ask; two of them (`async_train`) is what
it takes for them to differ from each other.  *Steps*: the pipeline's state is
periodic in the evaluation interval; 4 steps with evaluations after 2 and 4 cover
training before, between and after evaluations.  *Prompts*: 3 prompts over 2 × 2
workers give one server two workers with prompts and the other one a placeholder.
*Buckets, rounds*: two of each give an older round and another bucket to
mix up.  *Windows*: 2 records and 2 micro-batches make a window end inside a step
and span two; a cooldown of 2 steps with a limit of 2 refreshes makes both bite.
*Groups*: 2 ranks with 2 groups each make a group and a rank's share different
things, and up to half of the outputs may be extra turns, which gives mini batches
that do not divide.  *Scores*: three completions give a group a best sibling, another good one and one
that is neither; IoU levels 0 to 3 lie below, at and above both thresholds, the
rewards make a mean that is met exactly, and a good box with a low reward or a
bad box with a high one are among them; the second rank has no more than what
makes its mask and its hints differ.  *Turns*: 3 turns give a first, a middle and a last one; answers of different lengths
make a token in the wrong place differ in number, too, and each rank has dialogues that
end in different rounds, so either may be the one without requests.
*Samples*: 4 samples over intervals of 2 give a full last
interval, an incomplete one and an empty one, and a row held back twice.
*Layers*: with 5 layers (4 groups offloaded) the window moves through a first, a
middle and a last group; 3 passes meet what the two before left behind.
*Versions*: a crash or preemption at every point of a run of 4 saves, a resumed
run that saves and rotates again; a second interruption meets the same states
with another version number.  *Requests*: with batches of 2, three requests of a
configuration leave a remainder that later requests join; a stream of its own
runs between them.

`TeacherRefresh` has no fairness either: that no rank waits in a collective for ever is
checked as absence of deadlock in `teacher`.  `CHECK_DEADLOCK FALSE` stands where the code really stops: a failed rollout
leaves its queue empty (`async_failing`), and a worker that raised in an update
leaves the client in NCCL (`sync_faulty`).  `SdpoRouting` has no fairness; its
end, and the stop of the job by a rank that raises, is the step `Terminated`.

## 4. Fairness

* `AsyncRollout!Fairness`: each main thread and each executor thread keeps
  running, a collective all ranks have entered completes, and a load ends.  A
  rollout that was begun ends (`RolloutEnd` or, with `MayFail`, `RolloutFail`).
  Resampling needs no fairness: `max_resample_times` bounds it.
* `WeightSync!Fairness`: the client, each event loop and each worker keep
  running.  Faults are never fair.
* `FlashCheckpoint!FairSpec`: the run goes on, the agent persists what it was
  given, the launcher restarts a run that died.  Crashes, signals and conversions
  are never fair.
* `InferWorker!FairSpec`: the worker thread and the event loop keep running; a
  stream ends, because generation stops at `max_new_tokens` (`MaxChunks`).
* `MultiTurn!TurnsFairness`: ranks and coroutines go on, and a collective all ranks have
  entered completes; `max_turns` bounds the turns.
* `Packing!Spec`: each worker process, the iterator of rank 0 and the training
  loop of each rank keep running.

No strong fairness is used: no action of the code is repeatedly enabled and
disabled while it waits.

## 5. What is proved

`AsyncRolloutProofs` proves, for every number of ranks, every accumulation,
generation and evaluation interval, every number of evaluation batches and
resamplings, and with or without failing rollouts, under the assumptions
`ConstantsAssumption` and `~EvalOnStart`:

* `TypeCorrect`: `Spec => []TypeOK`;
* `WeightsStableUnderRollouts`: `Spec => []NoLoadDuringRollout`;
* `RolloutsSerialised`: `Spec => []OneRolloutAtATime`;
* `ImplementsService`: `Spec => ImplementsRolloutService`, the refinement of
  `RolloutService` with `Service!Spec` for every length of run.

Neither safety property is inductive.  Whether a load may start is decided in
`_wait_queue`, which looks at one queue; that the executor is idle then follows
from where the outstanding rollout of *each* kind is.  The inductive invariant
`IInv == TypeOK /\ Shape` says it for the main rank at every point of its main
thread: `TrainShape` when it is outside an evaluation, `EvalShape` inside.  In
each, the outstanding rollout of a kind is either the only task of the executor
or the only entry of its queue; an evaluation begins only when the train rollout
is in its queue, a training step goes on only when the eval rollout is in its
queue, so the executor never holds rollouts of both kinds.  With `EvalOnStart`
the invariant is false, and so is `WaitsForRunningEval`: see section 6.

For the refinement, every action is shown to be one action of `RolloutService`
or to leave its variables alone.  `Submit` opens a rollout, the end of a rollout
(`RolloutEnd`, and the synchronous one of a prefetch) answers it, `Take` delivers,
`LoadEnd` serves new weights, and a failed rollout is the service's, too.  That no
rollout is open under a load is `IInv`; that the queues keep the order of the
answers is the mapping of the queues' contents, entry by entry.

The second half of the module goes on from there, with the additional assumption `~MayFail`
(a rollout that raises puts nothing in its queue, and from then on a get takes
the next one; section 6 has what TLC finds then):

* `DeliveryInvariance`: `Spec => []DInv`;
* `ResultsOfOneSubmission`: `Spec => []RanksAgree`;
* `OneBatchBehind`: `Spec => []OneBatchLag`;
* `OneGenerationOld`: `Spec => []TrainStaleness`.

`DInv` counts, for each rank and kind, the rollouts that are in its executor or
its queue (`Due`: two between a submission and the get after it, none before the
first one, one otherwise) and says that they are the latest ones submitted, in
order (`Lined`).  The counts alone are not inductive either: the ranks leave an
evaluation one by one, and `Together` says how far the first ones can get before
a collective holds them.  For `OneGenerationOld` the invariant also follows the
weights: which generation the outstanding train rollout was submitted in.

`WeightSyncProofs` proves, for every number of servers, workers, buckets and
rounds, with lost messages, with methods that raise and with one trainer that is
killed at any point:

* `BucketsKeptApart`: `NoUpdateRetry`, `MaxCrashes <= 1` prove `Spec => []BucketIntegrity`;
* `RolloutsOnLatestWeights`: with `"load" \notin MayRaise`, `Spec => []RolloutWeights`;
* `CacheIsReset`: with `"reset" \notin MayRaise`, `Spec => []FreshPrefixCache`.

`NoUpdateRetry` says that an update request is posted once: `RequestRetries = 1`, or the
unflattened mode, which does not retry, or no lost message.  Every hypothesis is
needed; section 6 has a run for each that is left out.  The protocol has no
acknowledgement: `update_flattened_params` answers before its workers have
received a tensor, and what a worker receives is whatever is broadcast next.  So
the invariant `SInv` has to follow one request through the network, the handler
and the pipes: `One` (of what the living trainer has asked of a server there is
one thing at a time), `Asked` (that is the request of the operation at hand), `Answered`
and `Connections` (a response is that of the request waited for), and, for the trainer
that was killed, `Stale` and `FirstTrainer` (its updates are still behind a
rendezvous that can no longer happen, or their communicator is gone).  `LInv` adds
that every bucket sent is loaded or just received; `CInv` that a server serves one
call, whose commands are the only ones of its kind in its workers' pipes.

* `AnswersComeInOrder`: `Spec => []AnswersInOrder`, with no hypothesis but the
  assumption on the constants, `SyncConstants`: for any number of prompts (fewer than
  servers or workers included), any number of killed trainers, with retries, and
  whatever is lost or raises.

Its invariant `AInv` leaves the updates out of account and follows the prompts:
`Sending` (a request and its commands carry the chunk of their server and worker,
or the placeholder), `Own` (while a rollout is waited for, what arrives on the
connection of the client is a rollout), `Collected` (the output of a call is the
answers of the workers before the next one, unless one of them was `Lost`) and `Returned`.  A call with a missing answer is answered with an error, so
`Join` either joins whole chunks or ends the run.  The rest is arithmetic: that the
chunks `divmod` deals to servers (in the client) and to workers (in the server) are
adjacent, empty ones included, and that a recursive concatenation of them gives the
request back (`DealtFacts`, `SplitFacts`).

`TeacherRefreshProofs` proves, for every number of ranks, micro-batches per step
and steps, every window, cooldown, interval and limit (negative ones included),
and every subset of the modes, under the assumption `TeacherConstants`:

* `TypeCorrect`: `Spec => []TypeOK`;
* `CollectivesAgree`: `Spec => []CollectivesMatch`;
* `OneTeacher`: `Spec => []TeachersAgree`;
* `WindowsFresh`: `Spec => []FreshWindow`;
* `BlendedOncePerStep`: `Spec => []OneBlendPerStep`;
* `RefreshesBounded`: `Spec => RefreshRate` (an action property);
* `RefreshIsComplete`: `~StudentStage3 /\ Spec => []RefreshCopiesStudent`.  The
  hypothesis is needed: section 6 has the ZeRO-3 student.

The ranks share no variable, so none of these is inductive.  The invariant `IInv`
adds what keeps them together:

* `Lockstep`: counter, last refresh and history are equal on all ranks.  They
  change only in joint steps, because `all_reduce` gives every rank one record and
  the counters move after the `barrier`.  (`hits` and `baseline` are not part of
  it: only the decision of the main rank is acted on.)
* `Stage`: between two collectives each rank is on its way to the same next one,
  or has arrived, and the guard that sent it there still holds, on every rank
  (`FixedDue`, `Monitors`, `Checks`: their operands do not change on the way,
  and `DecideAlike` makes them equal by `Lockstep`).
* `Clocked`: no tracker is ahead of `global_step`, and a rank that has left
  "start" has done the EMA update of this step.
* `Weights`: what the teacher holds, as a function of the last refresh, the clock
  and whether the EMA update of this step is still to come.

`Stage` gives `CollectivesMatch`; with `PastCooldown` it gives `FreshWindow` and
`RefreshRate`; `Weights` with `Lockstep` gives the other three.

`GrpoProofs` proves of `GrpoBatches`, for every number of ranks, samples,
generations, mini batches, iterations and resamplings, every mode and whatever
prompts fail to encode, under `BatchShape` and `BatchConstants`:

* `Invariance`: `GrpoSpec => []IInv`;
* `TypeCorrect`: `GrpoSpec => []GrpoTypeOK`;
* `AdvantagesAreOwn`: `GrpoSpec => []OwnAdvantage`;
* `GroupsAreWhole`: `GrpoSpec => []WholeGroups`;
* `GroupsVary`: `GrpoSpec => []VariedGroups`;
* `AllTrainedAlike`: `GrpoSpec => []TrainedAlike`.

The four properties are about the buffer, when everything has been shuffled into it,
so none is inductive.  `IInv` says of the lists, from the first on, what makes
the last come out right:

* `GenerationInv` is about the way to the advantages.  `Prompting`: the samples
  of the ranks, gathered, have one prompt in each group, unless some prompt was
  replaced.  `Scoring`: the ranks' samples are the parts (`EvenPart`) of the list the
  rewards were given to (`Matched`), no completion is there twice, all of this round
  (`OfRound`).  `FirstBatch` says the same of what `_dynamic_sampling` keeps to fall back
  on, `Collecting` of the valid samples (`Kept`: whole groups that vary, of rounds
  before this one, each sample with its own reward), and `ChosenBatch` of whichever of
  them was chosen.
* `TrainingInv` is about the buffers: `Buffered` says which completion is at each
  place of each mini batch of each rank (`Place`), and `Counting` that it has
  counted as often as its mini batch was used, `Many(step % GenerateEvery, m, MiniBatches)`
  times, the number that also says how many elements the `m`-th part has.

The lemmas behind it are about three operators.  `EvenPart`: the parts of a list of
any length follow each other without gap or overlap (`PartBounds`, `OnePart`), and
gathering them gives back the list (`AllOfParts`); this is why samples and rewards, which
travel by different ways, meet again.  `Among`: picking out what varies leaves whole
groups in their order (`AmongGroups`), because a group varies as one.  `Counted`: in
chunks of whatever number a completion is seen once (`CountedOnce`), because
`ChunkSize` leaves none over and the repeated last chunk of a short rank does not count.
`TypeCorrect` needs `Bounded` as well: a generation makes at most `MaxResample`
rounds, so batches drawn are bounded by a product.

It proves of `SdpoRouting`, for every number of ranks, every size of groups,
batches and mini batches, every threshold, score and argument, under
`BatchShape` and `SdpoConstants`:

* `CollectivesAgree`: `SdpoSpec => []SameCollective`;
* `ImagesAreOwn`: `Aligned /\ SdpoSpec => []OwnImage`, where `Aligned` says that a
  rank's samples are whole groups (`Local % Group = 0`);
* `HintsAreBetter`: `Aligned /\ Comparable /\ TrueBoxOnly /\ SdpoSpec => []BetterHint`,
  where `Comparable` says that IoUs are naturals, rewards integers and
  `TauGood > 0`, and `TrueBoxOnly` that target "gt" goes with hint source "gt".

The first needs only `LockStep`: the ranks leave the `all_reduce` all in the same
direction, because the *sum* of the masks decides, and between it and the forward
pass no rank can leave by another way than raising.  The second rests on two
facts about names.  `PromptsApart`: with whole groups no two ranks have a sample
of the same prompt; so (`FilesApart`) no two ranks ever have the same file open,
with `sample_id` because of the prompt in the name, and without because
the hash is a process's own.  `DrawingInv` then follows a rank through its image:
after `Save` the file shows exactly the hint of the sample at hand, and no step of
another rank touches it (`FileKept`) until `Encode` has read it.

`HintInv` adds that route and hint are what `Route` and `Hint` make of the scores
(`Routed`), and that scores and arguments stay as they were.  Why the hint is
better is then a matter of one group.  `WholeGroup`: an aligned rank's samples lie in
intervals of `Group`, all of one prompt (`Siblings`).  `BestIsGood`: `max` finds a
good sibling, because one is `Ahead` of the others (`AheadOrders`, `OneIsAhead`).
`GoodBeats`: a completion that is not good has no valid box or too small an IoU,
and then IoU decides, or it is below the mean of the group and a good one is not.
The last needs the sum of the rewards to be an integer, and so the fold that
computes it to have a value: `SumsExist` builds it for the subsets of each size,
`AddsToInt` shows that whatever satisfies its equation is an integer.  The three
hypotheses are needed: section 6 has a counterexample without each.

`FlashCheckpointProofs` proves, for every number of ranks, steps, versions and
interruptions:

* `ShutdownIsPrompt`: `Spec => []ShutdownPrompt`;
* `BestIsKept`: `Spec => BestKept` (an action property), for every limit;
* `TracerIsComplete` and `RestartsSucceed`: `SaveLimit # 1` proves `Spec =>
  []TracerComplete`, and that no restart finds the checkpoint of the run before gone;
* `BatchesOnceInOneEpoch`: `MaxSteps <= EpochSteps` proves `Spec => []EpochBatchesOnce`.

Both hypotheses are needed (section 6).  `Prompt` is the invariant for a shutdown:
a request is as old as the step, or one step older and then on its way to *all*
ranks (`Heard`).  `BInv` says that the weights and all checkpoints on the disk of
step `s` were trained on the batches `0..s-1` in order.  The rotation is harder:
`TracerComplete` holds because what the agent is still persisting is newer than
what the tracer names (`Latest`), and a rotation keeps the newest finished
checkpoint unless the best model takes its place, which with two or more places
it cannot.

`ActivationOffloadProofs` proves, for every number of layers and of passes, under
`OffloadConstants` and `TrainOnly` (no pass under `torch.no_grad`):

* `TypeOKHolds`: `Spec => []TypeOK`;
* `TwoGroupsHolds`: `Spec => []TwoGroups`;
* `HandlerResetHolds`: `Spec => []HandlerReset`;
* `BackwardReadsHolds`: `Spec => []BackwardReads`, about the streams.

For the host, the argument is that the host's place in a pass determines the handler's state:
`HostInv` says, for each phase and layer, what the counters, the states, the
buffers and the kept copies are (`BeforeForward`, `BeforeCommit`, `BeforeReload`,
`BeforePop`, and `Between` two passes).  It rests on one lemma about
`layer_window_map`: with one layer more than groups, the window of group `i` ends
at layer `i + 1` (`WindowIs`), so that each commit frees, offloads or reloads the
group next to the one at hand.

For the streams, nothing can be said of *when* an operation runs, so the invariant
is on the queues.  `Ordered(ops)` says of each queued operation which ones it
cannot overtake and which cannot overtake it: a copy out has the forward pass
before it and the reuse of the memory after it (`OutOK`), a copy in has its copy
out before it (`InOK`), a backward pass its copy in (`BwdOK`), where "cannot
overtake" means being behind a wait, directly (`Before`) or by way of the compute
stream (`Before2`).  `Frontier(ops)` is what makes the host's next step keep this:
the operations everything queued later is already known to follow.  `DeviceInv`
turns it into contents: a stream never passes a wait before what it waits for, so
the last operation that ran on a group's memory decides what it holds, and
`Ordered` says which that is when a backward pass reads.

`PackingProofs` proves, for every number of workers and ranks, every dataset,
interval and row length, strict or not, under `PackingConstants`:

* `NothingIsLost`: `Spec => []PackedOnce`,
* `BatchesAreTheSame`: `Spec => []SameBatches`.

For the first, `Once(list, S)` says that a list of rows has each sample of `S` in one
place of one row.  `binpacking` keeps it item by item (`OneMore`, `Places`, `Packs`), with
the length of a row as its fold defines it (`RowLengthGrows`); the row held back is
taken out of the list, joined with the answers of the next interval and packed
again (`OnceApart`, `EachJoined`, `OnceJoined`); so after `k` intervals the rows and what
is held back have the samples of these intervals once (`Held`, `HeldStep`), and after
the last, which is never full, nothing is held back (`AllPacked`).  That `FlattenSeq` of
them counts each once is `Flattened`.

For the second, `Putting` and `Fetching` follow an interval's samples: each is in one
place at a time (in a queue, with a worker, fetched), and where it was put decides
what its answer is; so when as many answers as samples are fetched, `res` is what one
process would have encoded, whatever the order (`AllFetched`, by cardinalities).
`Serving` counts the rows: `K` intervals are grouped, `c` of their rows are gone,
skipped, sent or in hand, and what is left continues them (`Remains`); a row once made
stays where it is (`RowsGrow`).

Both need what recursive functions compute (`Grouped`, `BinPacking`, the fold).  The
induction theorem of the library takes an operator, so the module proves the
instance for sets (`Induction`, from the well-foundedness of `<`) and, from it, that a
function defined by recursion on `0..n` exists (`Iterates`), and one on the subsets of
a finite set (`SubsetIterates`, `SubsetInduction`).  `BinPacking` recurses on the set of
places that are left, longest first, and not on a sorted sequence: `SortSeq` chooses a
permutation that sorts strictly, and there is none where two samples are as long as
each other, so nothing follows from its definition.

`InferWorkerProofs` proves, for any number of requests, configs and adapters, any
batch size and length of a stream, strict or not, and whatever fails to encode, under
`InferConstants`:

* `Invariance`: `Spec => []IInv`;
* `OwnAnswersHold`: `SameAdapter` proves `Spec => []OwnAnswers`;
* `StreamIsComplete`: `StreamsAlone` proves `Spec => []StreamComplete`.

`SameAdapter` says that the requests of one config are for one adapter; `StreamsAlone`
that two streams are never generated in one batch, because batches are of one request
or no two streams have equal configs.  Both are needed (section 6).  `IInv` says
where a request is: `Places` (in the queue, in one task of the pool, or in the
batch, and in no two of them), that a task has requests of its config only and the
adapter of one of them (`GoodTask`), and so has a batch; that a request has received
nothing before its batch (`Served`), and what it is sent is its own (`Types`, by
`Due`) and numbered upwards through what it has read and what it has not (`Rising`).
`Whole` is about streams: before each None in a queue, and where the next None will
be put, stands the last text.  What a batch delivers to whom is one predicate,
`Adds`, that each of the four delivering steps is shown to satisfy; behind it is
`ErrorsPutBack`: with an error for each request that could not be encoded put back
in ascending order, the `i`-th result is that of the `i`-th request.  That lemma,
like those about `Among` and `Tasks`, is about a recursive function, and is
proved from the sequence of its values (`Iterates`).

The last part of `AsyncRolloutProofs` is about `MultiTurn`: for any number of ranks and
samples, any `max_turns`, any lengths of turns and any set of settings that `Supported`
allows, under `MultiTurnConstants`:

* `TurnsInvariance`: `Supported` proves `TurnsSpec => []TurnsInv`;
* `TurnsStayInPlace`: `Supported` proves `TurnsSpec => []TurnsInPlace`;
* `LogprobsStand`: `Supported` proves `TurnsSpec => []LogprobsFit`.

`Supported` excludes the three settings for which section 6 has a counterexample: steps
that return tokens without a mask, steps that return a turn's tokens and answer as the
user in mode "server", and turns without any token (an engine's turn has at least the
token that ends it; only "tips" and "turns" need this, "tool" and "thinking" do not).

Both properties are about the end of a rollout and say nothing of its rounds.
`TurnsInv` says of every conversation, in every state, that it is `Sound`: it is
`Aligned` (the tokens and masks held are, from the last one backwards, those of the
assistant messages; the messages before them, whose tokens were never returned, have
no text of the scheduler), and what the last message is fits what will be done next:
the user asks (`Asked`), or the assistant is to be continued, and then tokens are held
(`Extends`).  Log probabilities are one list for each turn, on the tokens of which they
stand (`Fit`), except where the scheduler returns no tokens at all; when such a
conversation is over, the last list is a tail of what is trained on (`Ends`), so it is as long
only if it is the same.  A turn keeps a conversation sound (`AfterTurnSound`), by cases on
the scheduler and on whether the turn is the last.  The rest of `TurnsInv` is about the
ranks: each waits for its own requests, each of them once, and for every one that is not
over (`Pendings`); the outputs it has not heard yet are the answers to the last of what it waits
for (`AnswersTo`); at the end its results are those of its own requests (`Placed`).

Behind it are lemmas about `FlattenSeq` and `Kept`: that what a rank cuts out of the
answers to all ranks' requests is the answers to its own (`PartIs`), that flattening
goes on turn by turn, and that what is kept of two lists is kept of the one followed by
the other.  `FlattenSeq` is a fold; its values are those of a sequence of prefixes (`JoinRuns`),
about which induction can speak.

Every safety invariant of the runs is the conclusion of a theorem.  Only model-checked is
liveness (`TrainingEnds`, `RunEnds`, `AllAnswered`, `EpochEnds`, `RolloutEnds`), which
TLAPS cannot prove under fairness.

## 6. Known disagreements

The properties of the passing runs hold under the constants of section 3.  Each
row below is a change of constants under which TLC finds a property violated by
what the code does.

| Change | Violated | What happens |
|---|---|---|
| `Teacher.cfg` with `StudentStage3 = TRUE`, `Modes = {"fixed"}` and the invariant | `RefreshCopiesStudent` | parameters a ZeRO-3 student has partitioned are skipped, and the refresh is counted, although `grpo_trainer.py` 467 says "One-shot SDPO teacher refresh from the current student parameters" |
| `MultiTurn.cfg` with `Args` of mode "server", scheduler "turns" | `TurnsInPlace` | `MultiTurnScheduler.run` has no branch for a last turn that is no continuation, when earlier turns returned their tokens (the colocated loop has one): the last tokens are lost, and those of the turn before are put in their place |
| `MultiTurn.cfg` with `Args` of mode "colocate", scheduler "unmasked" | `TurnsInPlace` | `step` returns tokens without a mask, as its contract allows; the last turn adds a mask of its own, and `replace_assistant_response_with_ids` raises |
| `MultiTurn.cfg` with `Args` of mode "colocate", scheduler "turns" (or "tips", in either mode), `TurnTokens` with 0 | `TurnsInPlace` | with "turns" an empty last answer adds no turn: the tokens of the one before are put in its place; with "tips" an empty first answer returns no tokens: what is trained on in the place of the message lacks the tip |
| `GrpoBatches.cfg` with the invariant `OnePromptGroups` (and, to be quicker, `Generations = 1`, `Iterations = 1`, `Modes = {"plain"}`) | `OnePromptGroups` | the copies of a prompt that cannot be encoded are replaced one by one, by different prompts, although `grpo_trainer.py` 1017 assumes `num_generations` completions of each |
| `Sdpo.cfg` with `Group = 2` (a group is split over the ranks), `MiniBatches = 1` and this invariant only | `OwnImage` | both ranks draw the hint of the prompt they share into one file; one reads it while the other has emptied it |
| the same with `MiniBatches = 3` | `BetterHint` | what a rank takes for a group has completions of two prompts, and one gets the other's box as its hint |
| `Sdpo.cfg` with `Local = 2`, `Group = 4`, `MiniBatches = 2` | a route for every sample | no rank has a whole group: every completion stays "unknown", and with scope "failed" nothing is ever distilled, without a warning |
| `Sdpo.cfg` with `TauGood = 0`, `TauFail = 0` and this invariant only | `BetterHint` | a completion counts as good although its IoU is 0, because its image size is missing: its siblings get the true box under hint source "sibling" |
| `Sdpo.cfg` with `Args` of target "gt" and hint source "sibling" | `BetterHint` | with target "gt" the mask is replaced by ones: samples without a hint ("skip") are distilled all the same |
| `Sdpo.cfg` with `Args` of target "gt", `MiniBatches = 1` and `MaybeUnsized = {}` | no rank raises | the mask has a row for each failed completion, the cached student logits one for each of the mini batch: shapes that do not fit |
| `AsyncTrain.cfg` with `EvalOnStart = TRUE` and the invariant | `WaitsForRunningEval` | the first evaluation consumes the train prefetch; `training_step` then waits for an eval rollout nobody submitted |
| `AsyncTrain.cfg` with `GenerateEvery = 2` | `EvalOneUpdateOld` | the rollout an evaluation leaves in its queue is the first batch of the next one, several updates older than `args_mixin.py` 134 says |
| `AsyncTrain.cfg` with `MayFail = TRUE` (without `TrainingEnds`) | `RanksAgree`, `OneBatchLag` | a rollout that raises puts nothing in its queue: the next get takes the result of a later submission, for another batch than the one it is paired with |
| `SyncReliable.cfg` with one server, `Rounds = 1`, `MayLose = TRUE` and the invariant | `BucketIntegrity` | a retried `update_flattened_params` whose first attempt arrived leaves a second command, which receives the next bucket |
| `SyncFaulty.cfg` with `MaxCrashes = 2` and this invariant (and, to be quicker, `Rounds = 1`) | `BucketIntegrity` | of two killed trainers, one leaves an `init_communicator` that lets the rendezvous of the third succeed, the other an update command, which then receives the third's first broadcast |
| `SyncFaulty.cfg` with `MayRaise = {"reset"}` | `FreshPrefixCache` | a `reset_prefix_cache` that raises in a worker is answered with status 200: the rollout may reuse the older weights' cache |
| `SyncReliable.cfg` with one server, `MayRaise = {"load"}` and the invariant | `RolloutWeights` | an exception of `load_weights` is only logged: the rollout runs on mixed weights |
| `Teacher.cfg` with `Modes = {"metric_ewma"}`, `MicroPerStep = 3`, `CheckInterval = 2`, `LongWindow = 3`, `Cooldown = 0` | `ChecksApart` | the consecutive checks all come from one optimizer step |
| `Infer.cfg` with `AdapterOf <- TwoAdapters` | `OwnAnswers` | requests of one configuration for two adapters share a batch, generated with the adapter of the first |
| `Infer.cfg` with `Streaming = {"plain"}` | `StreamComplete` | a request with nothing to print in a step gets None, takes it for the end and loses the rest |
| `Infer.cfg`, `AllAnswered` without its premise `~strict` | `AllAnswered` | one malformed request ends the worker thread; later requests wait for ever |
| `Offload.cfg` with `Kinds = {"train", "nograd"}` | `HandlerReset` | a forward under `torch.no_grad` in train mode commits without a backward: the counters never return to zero |
| `Flash.cfg` with `SaveLimit = 1` | `TracerComplete` | the rotation deletes the newest finished checkpoint although the comment at `mixin.py` 436 excludes it |
| `Flash.cfg` with `EpochSteps = 2` | `EpochBatchesOnce` | a run resumed in a later epoch gets the order of the base seed |
| `Packing.cfg` with `Strict = TRUE` | `EpochEnds` | a worker that raises never answers; the iterator waits for ever |
| `Packing.cfg` with `PastEnd = TRUE` | `EpochEnds` | `_skip_batches` runs into the end on rank 0 alone; the others wait in the scatter |

(Some of these settings need `CHECK_DEADLOCK FALSE`, because the system stops
there.)

## 7. What is not modelled

* Parameter values, token identities, rewards, losses: weights are named by their step, a
  batch by its number, a metric by two values, an activation by its pass.
* `async_generate` with multi-turn rollouts, which `args_mixin.py` 135 excludes:
  `_server_rollout` would issue collectives from the executor thread.
* The SDPO loss with `opsd_hint_mode` "none" or "gt", which draw nothing or what
  "hint" draws, and on samples of `dynamic_num_samples` batches, for which routing
  is off.  The student's logits are those the policy loss has cached
  (`grpo_trainer.py` 2667): the second forward pass at line 1985 is left out.
* The adapter (LoRA) variants of a weight update: one command with the protocol
  of `update_flattened_params`.
* Deaths of workers, servers or packing processes other than by an exception:
  nothing in the code recovers from them.
* A failing `reset_prefix_cache`: its result is not looked at.
* A resumed teacher: its weights, windows and refresh count (`grpo_trainer.py` 172-193) are in
  no checkpoint, so a resumed run starts from the initial teacher and counts anew.
* Multi-turn: `GYMScheduler` and its environments; a token that `MathTipsScheduler` cuts in its
  middle (line 637 keeps the whole token, the text half of it); the `loss_scale` of turns
  without tokens (taken to be "default"), and that one sample whose log probabilities do not
  fit turns them off for its whole batch.
* Ordinary checkpoints, which are those of `transformers`; `PackingDataset` (it
  packs in advance) and `cyclic`; the numeric advantage estimators; two event
  loops calling one transformers engine.
* The components listed as `not_modelled` in `PROJECT.json`.  Most of the
  repository is of this kind, and this is why the models cover a small share of
  its lines: model definitions and registries (`model/`, `megatron/model/`),
  templates, dataset preprocessors, tuners, losses, arguments, command line and UI
  have no state between calls, or only tensors.  Translating them would be
  transcription of data transformations, about which there is nothing to check.

## 8. Plan

What is left:

1. `GYMScheduler.run` (`multi_turn.py` 682 ff.): environments that are closed on every way out.
2. `ThinkingModelTipsScheduler.run` in `MultiTurn`, with an output for each turn.
