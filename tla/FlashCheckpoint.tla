--------------------------- MODULE FlashCheckpoint ---------------------------
(***************************************************************************)
(* Saving, rotating and resuming with flash checkpoints, under crashes and *)
(* graceful shutdowns.  A save writes the small files of a checkpoint and  *)
(* hands the large ones to the agent of DLRover, which persists them later *)
(* and then writes the step into the tracer file dlrover_latest.txt; a     *)
(* save that comes before the agent has finished is skipped.  Every run    *)
(* writes into a version directory of its own and resumes from the one     *)
(* before.                                                                 *)
(*                                                                         *)
(* What a checkpoint contains is named by the data its weights were        *)
(* trained on: the sequence of batches, one for each step.                 *)
(***************************************************************************)
EXTENDS Integers, SequencesExt, FiniteSetsExt

CONSTANTS
  Rank,
  MaxSteps,      \* state.max_steps
  EpochSteps,    \* steps of an epoch
  SaveSteps,     \* args.save_steps; every save follows an evaluation
  SaveLimit,     \* args.save_total_limit, 0 for none
  MaxVersion,    \* bounds the restarts: the run in v<MaxVersion> is not disturbed
  ElasticModes   \* is the callback deepspeed_elastic in use?

ASSUME FlashConstants ==
  /\ Rank # {} /\ {MaxSteps, EpochSteps, SaveSteps} \subseteq Nat \ {0}
  /\ {SaveLimit, MaxVersion} \subseteq Nat /\ ElasticModes \subseteq BOOLEAN

VARIABLES
  elastic,
  ver,        \* the version directory of the run, args.output_dir
  pc, step,   \* where the run is, state.global_step
  loader,     \* the order (seed) of the train dataloader and its next batch
  trained,    \* the batches the weights were trained on
  bestStep, best,   \* state.best_global_step, state.best_model_checkpoint
  ckpt,       \* the checkpoint directories of each version, by step
  complete,   \* those with all their files
  tracer,     \* the tracer file of each version, 0 if there is none
  saving,     \* the step the agent is persisting, 0 if none
  ucp,        \* ucp.txt of each version: its universal checkpoint, 0 if none
  asked,      \* on each rank, the step in which shutdown_manager was asked, or NotAsked
  local,      \* what the rank gives to the all_reduce
  stopping,   \* _pending_stop
  stop        \* control.should_training_stop

model == <<step, loader, trained, bestStep, best>>
disk == <<ckpt, complete, tracer, saving, ucp>>
shutdown == <<asked, local, stopping, stop>>
vars == <<elastic, ver, pc, model, disk, shutdown>>

Version == 0..MaxVersion
Step == 1..MaxSteps
None == <<>>
NotAsked == -1

dirs(v) == {s \in Step : ckpt[v][s] # None}
Running == pc \notin {"down", "done", "failed"}
Everywhere(x) == [r \in Rank |-> x]
Goto(p) == pc' = p

Init ==
  /\ elastic \in ElasticModes
  /\ ver = 0 /\ pc = "train" /\ step = 0
  /\ loader = [seed |-> 0, next |-> 0] /\ trained = << >>
  /\ bestStep = 0 /\ best = None
  /\ ckpt = [v \in Version |-> [s \in Step |-> None]]
  /\ complete = [v \in Version |-> {}]
  /\ tracer = [v \in Version |-> 0] /\ ucp = [v \in Version |-> 0]
  /\ saving = 0
  /\ asked = Everywhere(NotAsked) /\ local = Everywhere("unread")
  /\ stopping = Everywhere(FALSE) /\ stop = Everywhere(FALSE)

-----------------------------------------------------------------------------
(* The i-th batch in the order of a seed: another seed, another order.      *)
BatchAt(seed, i) == (i + seed) % EpochSteps

(* One optimizer step of all ranks.  set_epoch gives the next epoch its     *)
(* order.                                                                   *)
TrainStep ==
  /\ pc = "train"
  /\ step' = step + 1
  /\ trained' = Append(trained, BatchAt(loader.seed, loader.next))
  /\ loader' = IF loader.next + 1 = EpochSteps
                 THEN [seed |-> step' \div EpochSteps, next |-> 0]
                 ELSE [loader EXCEPT !.next = @ + 1]
  /\ Goto("request")
  /\ UNCHANGED <<elastic, ver, bestStep, best, disk, shutdown>>

(* A signal reaches the handler of one rank, at any time.                   *)
Signal(r) ==
  /\ Running /\ ver < MaxVersion
  /\ asked[r] = NotAsked
  /\ asked' = [asked EXCEPT ![r] = step]
  /\ UNCHANGED <<elastic, ver, pc, model, disk, local, stopping, stop>>

(* GracefulExitCallback.on_step_end: every rank looks at its own request... *)
ReadRequest(r) ==
  /\ pc = "request" /\ local[r] = "unread"
  /\ local' = [local EXCEPT ![r] = IF asked[r] # NotAsked THEN "yes" ELSE "no"]
  /\ UNCHANGED <<elastic, ver, pc, model, disk, asked, stopping, stop>>

(* With a bug: no all_reduce.                                               *)
OwnRequest(r) == local[r] = "yes"

StopRequested(r) == \E q \in Rank : local[q] = "yes"

(* ... and the all_reduce with MAX makes it everybody's.                    *)
AllReduce ==
  /\ pc = "request" /\ \A r \in Rank : local[r] # "unread"
  /\ stopping' = [r \in Rank |-> stopping[r] \/ StopRequested(r)]
  /\ Goto(IF step % SaveSteps = 0 \/ step = MaxSteps \/ \E r \in Rank : StopRequested(r)
            THEN "save" ELSE "next")
  /\ local' = Everywhere("unread")
  /\ UNCHANGED <<elastic, ver, model, disk, asked, stop>>

-----------------------------------------------------------------------------
(* _save_flash_checkpoint, the files that are written at once.  The         *)
(* evaluation before may have found a new best model.                       *)
SaveFiles ==
  /\ pc = "save"
  /\ bestStep' \in {step} \cup ({bestStep} \ {0})
  /\ LET found == bestStep' = step \/ bestStep' \in dirs(ver)
     IN  best' = IF found THEN <<ver, bestStep'>> ELSE best
  /\ ckpt' = [ckpt EXCEPT ![ver][step] =
                [trained |-> trained, bestStep |-> bestStep', best |-> best']]
  /\ Goto("store")
  /\ UNCHANGED <<elastic, ver, step, loader, trained, complete, tracer, saving, ucp, shutdown>>

(* save_checkpoint_to_storage: skipped while the agent is busy, except that *)
(* the last one waits for it.  A skipped checkpoint is deleted.             *)
Store ==
  /\ pc = "store"
  /\ step = MaxSteps => saving = 0
  /\ IF saving = 0
       THEN saving' = step /\ UNCHANGED ckpt
       ELSE ckpt' = [ckpt EXCEPT ![ver][step] = None] /\ UNCHANGED saving
  /\ Goto("rotate")
  /\ UNCHANGED <<elastic, ver, model, complete, tracer, ucp, shutdown>>

(* The agent has written the files of a checkpoint, then the tracer file.   *)
Persisted(v) ==
  /\ complete' = [complete EXCEPT ![v] = @ \cup {saving}]
  /\ tracer' = [tracer EXCEPT ![v] = saving]

Persist ==
  /\ saving # 0 /\ Running
  /\ Persisted(ver)
  /\ saving' = 0
  /\ UNCHANGED <<elastic, ver, pc, model, ckpt, ucp, shutdown>>

Newest(s) == \A t \in dirs(ver) : t <= s

(* With a bug: the best checkpoint has no place of its own.                 *)
OldestFirst(t, s) == t > s

(* _sorted_checkpoints, oldest first, but the best one is put just before   *)
(* the newest: t comes after s.                                             *)
SortedAfter(t, s) ==
  /\ t # s
  /\ \/ Newest(t)
     \/ best = <<ver, t>> /\ ~Newest(s)
     \/ t > s /\ best # <<ver, s>>

(* With a bug: unfinished checkpoints count.                                *)
AllCheckpoints == dirs(ver)

ValidCheckpoints == {s \in dirs(ver) : s <= tracer[ver]}

Following(s) == {t \in ValidCheckpoints : SortedAfter(t, s)}

(* How many checkpoints a rotation keeps: one more, for the last one, if    *)
(* that is not the best.                                                    *)
KeptCheckpoints ==
  IF /\ SaveLimit = 1 /\ best # None
     /\ \E s \in ValidCheckpoints : Following(s) = {} /\ best # <<ver, s>>
    THEN 2 ELSE SaveLimit

Excess ==
  IF SaveLimit = 0 \/ Cardinality(ValidCheckpoints) <= SaveLimit THEN {}
  ELSE {s \in ValidCheckpoints : Cardinality(Following(s)) >= KeptCheckpoints}

(* _rotate_flash_checkpoints.                                               *)
Rotate ==
  /\ pc = "rotate"
  /\ ckpt' = [ckpt EXCEPT ![ver] = [s \in Step |-> IF s \in Excess THEN None ELSE @[s]]]
  /\ complete' = [complete EXCEPT ![ver] = @ \ Excess]
  /\ Goto("saved")
  /\ UNCHANGED <<elastic, ver, model, tracer, saving, ucp, shutdown>>

(* With a bug: a save that was skipped does not count.                      *)
StopIfStored(r) == stop[r] \/ (stopping[r] /\ step \in dirs(ver))

StopNow(r) == stop[r] \/ stopping[r]

(* GracefulExitCallback.on_save, called whether or not the save was skipped *)
OnSave ==
  /\ pc = "saved"
  /\ stop' = [r \in Rank |-> StopNow(r)]
  /\ stopping' = Everywhere(FALSE)
  /\ Goto("next")
  /\ UNCHANGED <<elastic, ver, model, disk, asked, local>>

TrainingOver == step = MaxSteps \/ \A r \in Rank : stop[r]

(* The loop goes on, or ends, on all ranks: if they disagree, those that go *)
(* on wait for the others for ever.                                         *)
NextStep ==
  /\ pc = "next"
  /\ \A r, q \in Rank : stop[r] = stop[q]
  /\ Goto(IF TrainingOver THEN "finish" ELSE "train")
  /\ UNCHANGED <<elastic, ver, model, disk, shutdown>>

(* SwiftSft.train: wait_latest_checkpoint.                                  *)
WaitLatest ==
  /\ pc = "finish" /\ saving = 0
  /\ Goto("done")
  /\ UNCHANGED <<elastic, ver, model, disk, shutdown>>

-----------------------------------------------------------------------------
(* The run is killed.  The agent may survive it, and finish what it began.  *)
Crash ==
  /\ Running /\ ver < MaxVersion
  /\ \/ UNCHANGED <<complete, tracer>>
     \/ saving # 0 /\ Persisted(ver)
  /\ saving' = 0
  /\ asked' = Everywhere(NotAsked) /\ local' = Everywhere("unread")
  /\ stopping' = Everywhere(FALSE) /\ stop' = Everywhere(FALSE)
  /\ Goto("down")
  /\ UNCHANGED <<elastic, ver, model, ckpt, ucp>>

Preempted == pc = "done" /\ step < MaxSteps

(* The checkpoint of the run that ended is converted for another number of  *)
(* ranks.                                                                   *)
Convert ==
  /\ elastic /\ (pc = "down" \/ Preempted)
  /\ tracer[ver] \in complete[ver]
  /\ ucp' = [ucp EXCEPT ![ver] = tracer[ver]]
  /\ ucp' # ucp
  /\ UNCHANGED <<elastic, ver, pc, model, ckpt, complete, tracer, saving, shutdown>>

(* get_resume_checkpoint: the step in the tracer file, unless that run had  *)
(* finished.                                                                *)
ResumeCheckpoint(v) == IF tracer[v] = MaxSteps THEN 0 ELSE tracer[v]

(* _get_resume_checkpoint; 0: from scratch.                                 *)
ResumeStep(v) ==
  IF elastic /\ (ResumeCheckpoint(v) = 0 \/ ResumeCheckpoint(v) # ucp[v])
    THEN ucp[v]
    ELSE ResumeCheckpoint(v)

(* With a bug: the resumed run does not skip what was trained on.           *)
LoaderFromStart(s) == [seed |-> s \div EpochSteps, next |-> 0]

(* skip_batches makes a new dataloader, whose order is that of the base     *)
(* seed.                                                                    *)
ResumedLoader(s) ==
  LET skip == s % EpochSteps
  IN  [seed |-> IF skip > 0 THEN 0 ELSE s \div EpochSteps, next |-> skip]

Restart ==
  /\ (pc = "down" \/ Preempted) /\ ver < MaxVersion
  /\ ver' = ver + 1
  /\ LET s == ResumeStep(ver)
     IN  IF tracer[ver] # 0 /\ tracer[ver] \notin dirs(ver)
           THEN Goto("failed") /\ UNCHANGED model
           ELSE /\ step' = s
                /\ loader' = ResumedLoader(s)
                /\ trained' = IF s = 0 THEN << >> ELSE ckpt[ver][s].trained
                /\ bestStep' = IF s = 0 THEN 0 ELSE ckpt[ver][s].bestStep
                /\ best' = IF s = 0 THEN None ELSE ckpt[ver][s].best
                /\ Goto(IF s = MaxSteps THEN "finish" ELSE "train")
  /\ asked' = Everywhere(NotAsked) /\ local' = Everywhere("unread")
  /\ stopping' = Everywhere(FALSE) /\ stop' = Everywhere(FALSE)
  /\ UNCHANGED <<elastic, disk>>

Terminated == pc = "done" /\ ~Preempted /\ UNCHANGED vars

Save == SaveFiles \/ Store \/ Rotate \/ OnSave
Loop == TrainStep \/ AllReduce \/ Save \/ NextStep \/ WaitLatest

Next ==
  \/ Loop \/ Persist \/ Crash \/ Convert \/ Restart \/ Terminated
  \/ \E r \in Rank : Signal(r) \/ ReadRequest(r)

Spec == Init /\ [][Next]_vars

(* The run, the agent and the launcher go on; faults and signals need not.  *)
FairSpec ==
  /\ Spec
  /\ WF_vars(Loop) /\ WF_vars(Persist) /\ WF_vars(Restart)
  /\ \A r \in Rank : WF_vars(ReadRequest(r))

-----------------------------------------------------------------------------
TypeOK ==
  /\ elastic \in BOOLEAN /\ ver \in Version
  /\ pc \in {"train", "request", "save", "store", "rotate", "saved", "next", "finish",
             "down", "done", "failed"}
  /\ step \in 0..MaxSteps
  /\ loader \in [seed : 0..MaxSteps, next : 0..EpochSteps - 1]
  /\ trained \in Seq(0..EpochSteps - 1) /\ Len(trained) = step
  /\ bestStep \in 0..MaxSteps /\ best \in {None} \cup Version \X Step
  /\ \A v \in Version : complete[v] \subseteq dirs(v)
  /\ tracer \in [Version -> 0..MaxSteps] /\ ucp \in [Version -> 0..MaxSteps]
  /\ saving \in 0..MaxSteps
  /\ asked \in [Rank -> NotAsked..MaxSteps]
  /\ {stopping, stop} \subseteq [Rank -> BOOLEAN]
  /\ local \in [Rank -> {"unread", "no", "yes"}]

(* The checkpoint the tracer file names, the only one a restart can use, is *)
(* there and complete: neither the skip of a save nor a rotation removes it *)
(* (_rotate_flash_checkpoints), and no crash leaves it half written.        *)
TracerComplete == \A v \in Version : tracer[v] # 0 => tracer[v] \in complete[v]

(* Whatever was interrupted, and wherever it was resumed, the weights are   *)
(* those of a run that saw each batch of an epoch once                      *)
(* (_patch_skip_first_batches, skip_batches).                               *)
EpochBatchesOnce ==
  \A i, j \in 1..step :
    i < j /\ (i - 1) \div EpochSteps = (j - 1) \div EpochSteps => trained[i] # trained[j]

(* A complete checkpoint is not deleted while it is the best model          *)
(* (_rotate_flash_checkpoints).                                             *)
BestKept ==
  [][(best # None /\ best' = best /\ best[2] \in complete[best[1]])
       => best[2] \in complete'[best[1]]]_vars

(* A shutdown request that reaches any one rank ends the run, on all ranks, *)
(* after the step it came in or the next (GracefulExitCallback).            *)
ShutdownPrompt == Running => \A r \in Rank : asked[r] # NotAsked => step <= asked[r] + 1

(* However it is interrupted, in the end the training has done all its      *)
(* steps: no restart fails, and no rank is left waiting for one that has    *)
(* stopped.                                                                 *)
TrainingEnds == <>[](pc = "done" /\ step = MaxSteps)
=============================================================================
