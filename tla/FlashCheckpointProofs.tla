------------------------ MODULE FlashCheckpointProofs ------------------------
(***************************************************************************)
(* What holds of a training run however often it is interrupted, for any   *)
(* number of ranks, steps and restarts: a shutdown request ends the run on *)
(* all ranks within a step, the weights of a run of one epoch are those of *)
(* a run that was never interrupted, and neither the checkpoint a restart  *)
(* resumes from nor that of the best model is ever deleted.                *)
(***************************************************************************)
EXTENDS FlashCheckpoint, FiniteSetTheorems, TLAPS

PC == {"train", "request", "save", "store", "rotate", "saved", "next", "finish",
       "down", "done", "failed"}

LEMMA Constants ==
  MaxSteps \in Nat /\ MaxSteps >= 1 /\ EpochSteps \in Nat /\ EpochSteps >= 1 /\ MaxVersion \in Nat
BY FlashConstants

-----------------------------------------------------------------------------
(* Shutdown requests.                                                       *)

ShutdownTypes ==
  /\ pc \in PC /\ ver \in Version /\ step \in Nat /\ saving \in Nat
  /\ tracer \in [Version -> Nat] /\ ucp \in [Version -> Nat]
  /\ asked \in [Rank -> Int] /\ local \in [Rank -> {"unread", "no", "yes"}]
  /\ stopping \in [Rank -> BOOLEAN] /\ stop \in [Rank -> BOOLEAN]

(* The requests are read at the end of a step only.                         *)
Unread == pc # "request" => local = Everywhere("unread")

(* A request that came in during the step before is on its way to all ranks. *)
Heard(r) ==
  \/ pc = "request" /\ local[r] # "no"
  \/ pc \in {"save", "store", "rotate", "saved"} /\ \A q \in Rank : stopping[q]
  \/ pc = "next" /\ \A q \in Rank : stop[q]
  \/ pc = "finish"

Prompt(r) == Running /\ asked[r] # NotAsked => step = asked[r] \/ (step = asked[r] + 1 /\ Heard(r))

SInv == ShutdownTypes /\ Unread /\ \A r \in Rank : Prompt(r)

LEMMA InitShutdown == Init => SInv
<1> SUFFICES ASSUME Init PROVE SInv
  OBVIOUS
<1>1. ShutdownTypes
  BY Constants DEF Init, ShutdownTypes, PC, Version, Everywhere, NotAsked
<1>2. Unread /\ \A r \in Rank : Prompt(r)
  BY DEF Init, Unread, Prompt, Everywhere
<1>3. QED BY <1>1, <1>2 DEF SInv

LEMMA TypesShutdown ==
  ASSUME ShutdownTypes, [Next]_vars PROVE ShutdownTypes'
<1>1. CASE UNCHANGED vars
  BY <1>1 DEF vars, model, disk, shutdown, ShutdownTypes
<1>2. CASE TrainStep
  BY <1>2 DEF TrainStep, disk, shutdown, ShutdownTypes, PC, Goto
<1>3. CASE AllReduce
  BY <1>3 DEF AllReduce, model, disk, ShutdownTypes, PC, Goto, StopRequested, Everywhere
<1>4. CASE SaveFiles \/ Store \/ Rotate
  BY <1>4 DEF SaveFiles, Store, Rotate, model, shutdown, ShutdownTypes, PC, Goto
<1>5. CASE OnSave
  BY <1>5 DEF OnSave, model, disk, ShutdownTypes, PC, Goto, StopNow, Everywhere
<1>6. CASE NextStep \/ WaitLatest
  BY <1>6 DEF NextStep, WaitLatest, model, disk, shutdown, ShutdownTypes, PC, Goto
<1>7. CASE Persist
  BY <1>7 DEF Persist, Persisted, model, shutdown, ShutdownTypes
<1>8. CASE Crash
  <2>1. tracer' = tracer \/ tracer' = [tracer EXCEPT ![ver] = saving]
    BY <1>8 DEF Crash, Persisted
  <2>2. tracer' \in [Version -> Nat]
    BY <2>1 DEF ShutdownTypes
  <2>3. QED BY <1>8, <2>2 DEF Crash, model, ShutdownTypes, PC, Goto, Everywhere, NotAsked
<1>9. CASE Convert
  BY <1>9 DEF Convert, model, shutdown, ShutdownTypes
<1>10. CASE Restart
  <2>1. ver' \in Version
    BY <1>10, Constants DEF Restart, ShutdownTypes, Version
  <2>2. ResumeStep(ver) \in Nat
    BY Constants DEF ResumeStep, ResumeCheckpoint, ShutdownTypes
  <2>3. step' \in Nat /\ pc' \in PC
    BY <1>10, <2>2 DEF Restart, model, ShutdownTypes, Goto, PC
  <2>4. QED BY <1>10, <2>1, <2>3 DEF Restart, disk, ShutdownTypes, Everywhere, NotAsked
<1>11. ASSUME NEW r \in Rank, Signal(r) \/ ReadRequest(r) PROVE ShutdownTypes'
  BY <1>11 DEF Signal, ReadRequest, model, disk, ShutdownTypes
<1>12. QED BY <1>1, <1>2, <1>3, <1>4, <1>5, <1>6, <1>7, <1>8, <1>9, <1>10, <1>11
          DEF Next, Loop, Save, Terminated

LEMMA NextShutdown ==
  ASSUME SInv, [Next]_vars PROVE SInv'
<1>1. ShutdownTypes /\ Unread /\ \A r \in Rank : Prompt(r)
  BY DEF SInv
<1>2. ShutdownTypes'
  BY <1>1, TypesShutdown
<1>3. SUFFICES Unread' /\ \A r \in Rank : Prompt(r)'
  BY <1>2 DEF SInv
<1>4. CASE UNCHANGED vars
  BY <1>1, <1>4 DEF vars, model, shutdown, Unread, Prompt, Heard, Running
<1>5. CASE TrainStep
  <2>1. /\ pc = "train" /\ pc' = "request" /\ step' = step + 1
        /\ UNCHANGED <<asked, local>> /\ local = Everywhere("unread")
    BY <1>1, <1>5 DEF TrainStep, Goto, shutdown, Unread
  <2>2. ASSUME NEW r \in Rank PROVE Prompt(r)'
    <3>1. asked[r] # NotAsked => step = asked[r]
      BY <1>1, <2>1 DEF Prompt, Running, Heard
    <3>2. local'[r] = "unread"
      BY <2>1 DEF Everywhere
    <3>3. QED BY <2>1, <3>1, <3>2 DEF Prompt, Heard
  <2>3. QED BY <2>1, <2>2 DEF Unread
<1>6. CASE AllReduce
  <2>1. /\ pc = "request" /\ pc' \in {"save", "next"} /\ UNCHANGED <<step, asked>>
        /\ \A r \in Rank : local[r] # "unread"
        /\ stopping' = [r \in Rank |-> stopping[r] \/ StopRequested(r)]
        /\ (\E r \in Rank : StopRequested(r)) => pc' = "save"
        /\ local' = Everywhere("unread")
    BY <1>6 DEF AllReduce, Goto, model
  <2>2. ASSUME NEW r \in Rank, Running', asked'[r] # NotAsked
        PROVE  step' = asked'[r] \/ (step' = asked'[r] + 1 /\ Heard(r)')
    <3>1. CASE step = asked[r]
      BY <2>1, <3>1
    <3>2. CASE step # asked[r]
      <4>1. step = asked[r] + 1 /\ local[r] # "no"
        BY <1>1, <2>1, <2>2, <3>2 DEF Prompt, Running, Heard
      <4>2. local[r] = "yes"
        BY <1>1, <2>1, <4>1 DEF ShutdownTypes
      <4>3. \A q \in Rank : StopRequested(q)
        BY <4>2 DEF StopRequested
      <4>4. pc' = "save" /\ \A q \in Rank : stopping'[q]
        BY <2>1, <4>3
      <4>5. QED BY <2>1, <4>1, <4>4 DEF Heard
    <3>3. QED BY <3>1, <3>2
  <2>3. QED BY <2>1, <2>2 DEF Unread, Prompt
<1>7. CASE SaveFiles \/ Store \/ Rotate
  <2>1. /\ pc \in {"save", "store", "rotate"} /\ pc' \in {"store", "rotate", "saved"}
        /\ UNCHANGED <<step, asked, local, stopping>>
    BY <1>7 DEF SaveFiles, Store, Rotate, Goto, model, shutdown
  <2>2. QED BY <1>1, <2>1 DEF Unread, Prompt, Heard, Running
<1>8. CASE OnSave
  <2>1. /\ pc = "saved" /\ pc' = "next" /\ UNCHANGED <<step, asked, local>>
        /\ stop' = [r \in Rank |-> StopNow(r)]
    BY <1>8 DEF OnSave, Goto, model
  <2>2. (\A q \in Rank : stopping[q]) => \A q \in Rank : stop'[q]
    BY <2>1 DEF StopNow
  <2>3. QED BY <1>1, <2>1, <2>2 DEF Unread, Prompt, Heard, Running
<1>9. CASE NextStep
  <2>1. /\ pc = "next" /\ pc' \in {"finish", "train"} /\ UNCHANGED <<step, asked, local>>
        /\ (\A q \in Rank : stop[q]) => pc' = "finish"
    BY <1>9 DEF NextStep, Goto, TrainingOver, model, shutdown
  <2>2. QED BY <1>1, <2>1 DEF Unread, Prompt, Heard, Running
<1>10. CASE WaitLatest
  BY <1>1, <1>10 DEF WaitLatest, Goto, shutdown, Unread, Prompt, Running
<1>11. CASE Persist \/ Convert
  BY <1>1, <1>11 DEF Persist, Convert, model, shutdown, Unread, Prompt, Heard, Running
<1>12. CASE Crash \/ Restart
  BY <1>1, <1>12 DEF Crash, Restart, Unread, Prompt, Everywhere
<1>13. ASSUME NEW r \in Rank, Signal(r) PROVE Unread' /\ \A q \in Rank : Prompt(q)'
  <2>1. /\ UNCHANGED <<pc, step, local, stopping, stop>> /\ asked' = [asked EXCEPT ![r] = step]
    BY <1>13 DEF Signal, model
  <2>2. asked'[r] = step /\ \A q \in Rank : q # r => asked'[q] = asked[q]
    BY <1>1, <2>1 DEF ShutdownTypes
  <2>3. ASSUME NEW q \in Rank PROVE Prompt(q)'
    BY <1>1, <2>1, <2>2 DEF Prompt, Heard, Running
  <2>4. QED BY <1>1, <2>1, <2>3 DEF Unread
<1>14. ASSUME NEW r \in Rank, ReadRequest(r) PROVE Unread' /\ \A q \in Rank : Prompt(q)'
  <2>1. /\ UNCHANGED <<pc, step, asked, stopping, stop>> /\ pc = "request"
        /\ local'[r] = IF asked[r] # NotAsked THEN "yes" ELSE "no"
        /\ \A q \in Rank : q # r => local'[q] = local[q]
    BY <1>1, <1>14 DEF ReadRequest, model, ShutdownTypes
  <2>2. ASSUME NEW q \in Rank PROVE Prompt(q)'
    BY <1>1, <2>1 DEF Prompt, Heard, Running
  <2>3. QED BY <2>1, <2>2 DEF Unread
<1>15. QED BY <1>4, <1>5, <1>6, <1>7, <1>8, <1>9, <1>10, <1>11, <1>12, <1>13, <1>14
          DEF Next, Loop, Save, Terminated

(* A shutdown request that reaches any one rank, at any point of a step,    *)
(* ends the run on all ranks after that step or the next: no rank trains    *)
(* past it, whether a save was skipped, and whichever ranks were asked      *)
(* (GracefulExitCallback.on_step_end, on_save).                             *)
THEOREM ShutdownIsPrompt == Spec => []ShutdownPrompt
<1>1. SInv => ShutdownPrompt
  <2>1. ASSUME SInv, Running, NEW r \in Rank, asked[r] # NotAsked PROVE step <= asked[r] + 1
    <3>1. step \in Nat /\ asked[r] \in Int /\ Prompt(r)
      BY <2>1 DEF SInv, ShutdownTypes
    <3>2. QED BY <2>1, <3>1 DEF Prompt
  <2>2. QED BY <2>1 DEF ShutdownPrompt
<1>2. SInv /\ [Next]_vars => SInv'
  BY NextShutdown
<1>3. QED BY <1>1, <1>2, InitShutdown, PTL DEF Spec

-----------------------------------------------------------------------------
(* The batches of a run of one epoch.                                       *)

InOrder(q, n) == q \in Seq(Nat) /\ Len(q) = n /\ \A i \in 1 .. n : q[i] = i - 1

Trained ==
  /\ step <= MaxSteps /\ (pc = "train" => step < MaxSteps)
  /\ step < MaxSteps => loader = [seed |-> 0, next |-> step]
  /\ InOrder(trained, step)

Checkpoints ==
  /\ DOMAIN ckpt = Version /\ \A v \in Version : DOMAIN ckpt[v] = Step
  /\ \A v \in Version, s \in Step : ckpt[v][s] # None => InOrder(ckpt[v][s].trained, s)

(* A run resumes from the checkpoint its predecessor's tracer names.        *)
Tracers ==
  /\ saving <= MaxSteps /\ \A v \in Version : tracer[v] <= MaxSteps
  /\ \A v \in Version : v > ver => ucp[v] = 0
  /\ ucp[ver] \in {0, tracer[ver]} /\ (Running => ucp[ver] = 0)

BInv == ShutdownTypes /\ Trained /\ Checkpoints /\ Tracers

LEMMA SmallQuotient ==
  ASSUME NEW n \in Nat, NEW d \in Nat, n < d PROVE n % d = n /\ n \div d = 0
OBVIOUS

LEMMA AppendInOrder ==
  ASSUME NEW q, NEW n \in Nat, InOrder(q, n) PROVE InOrder(Append(q, n), n + 1)
<1>1. q \in Seq(Nat) /\ Len(q) = n /\ \A i \in 1 .. n : q[i] = i - 1
  BY DEF InOrder
<1>2. /\ Append(q, n) \in Seq(Nat) /\ Len(Append(q, n)) = n + 1
      /\ Append(q, n)[n + 1] = n /\ \A i \in 1 .. n : Append(q, n)[i] = q[i]
  BY <1>1
<1>3. \A i \in 1 .. n + 1 : i \in 1 .. n \/ i = n + 1
  OBVIOUS
<1>4. (n + 1) - 1 = n
  OBVIOUS
<1>5. QED BY <1>1, <1>2, <1>3, <1>4 DEF InOrder

LEMMA InitBatches == Init => BInv
<1> SUFFICES ASSUME Init PROVE BInv
  OBVIOUS
<1>1. ShutdownTypes
  BY InitShutdown DEF SInv
<1>2. InOrder(<< >>, 0)
  BY DEF InOrder
<1>3. Trained
  BY <1>2, Constants DEF Init, Trained
<1>4. Checkpoints
  BY DEF Init, Checkpoints
<1>5. Tracers
  BY Constants DEF Init, Tracers, Version
<1>6. QED BY <1>1, <1>3, <1>4, <1>5 DEF BInv

(* What a restart finds.                                                    *)
LEMMA ResumeLemma ==
  ASSUME ShutdownTypes, Tracers, ~(tracer[ver] # 0 /\ tracer[ver] \notin dirs(ver)),
         NEW s, s = ResumeStep(ver)
  PROVE  s \in Nat /\ s <= MaxSteps /\ (s # 0 => s \in Step /\ ckpt[ver][s] # None)
<1>1. ucp[ver] \in {0, tracer[ver]} /\ tracer[ver] \in Nat /\ tracer[ver] <= MaxSteps
  BY DEF Tracers, ShutdownTypes
<1>2. s \in {0, tracer[ver]}
  BY <1>1 DEF ResumeStep, ResumeCheckpoint
<1>3. QED BY <1>1, <1>2, Constants DEF dirs

(* A run that is started again has the weights, and the next batch, of the  *)
(* one before.                                                              *)
LEMMA RestartBatches ==
  ASSUME BInv, Restart, MaxSteps <= EpochSteps PROVE Trained' /\ Checkpoints' /\ Tracers'
<1>1. ShutdownTypes /\ Trained /\ Checkpoints /\ Tracers
  BY DEF BInv
<1>2. /\ ver \in Version /\ ver' = ver + 1 /\ ver' \in Version /\ UNCHANGED disk
      /\ pc' \in {"failed", "train", "finish"}
  BY <1>1, Constants DEF Restart, ShutdownTypes, Version, Goto
<1>3. Checkpoints'
  BY <1>1, <1>2 DEF Checkpoints, disk
<1>4. Tracers'
  <2>1. \A v \in Version : v > ver + 1 => v > ver
    BY <1>2 DEF Version
  <2>2. ucp[ver'] = 0
    <3>1. ver' > ver
      BY <1>2 DEF Version
    <3>2. QED BY <1>1, <1>2, <3>1 DEF Tracers
  <2>3. QED BY <1>1, <1>2, <2>1, <2>2 DEF Tracers, disk
<1>5. PICK s : s = ResumeStep(ver)
  OBVIOUS
<1>6. CASE tracer[ver] # 0 /\ tracer[ver] \notin dirs(ver)
  <2>1. UNCHANGED model /\ pc' = "failed"
    BY <1>6 DEF Restart, Goto
  <2>2. QED BY <1>1, <1>3, <1>4, <2>1 DEF Trained, model
<1>7. CASE ~(tracer[ver] # 0 /\ tracer[ver] \notin dirs(ver))
  <2>1. s \in Nat /\ s <= MaxSteps
    BY <1>1, <1>5, <1>7, ResumeLemma
  <2>2. s # 0 => s \in Step /\ ckpt[ver][s] # None
    BY <1>1, <1>5, <1>7, ResumeLemma
  <2>3. /\ step' = s /\ loader' = ResumedLoader(s)
        /\ trained' = IF s = 0 THEN << >> ELSE ckpt[ver][s].trained
        /\ pc' = IF s = MaxSteps THEN "finish" ELSE "train"
    BY <1>5, <1>7 DEF Restart, Goto
  <2>4. InOrder(trained', s)
    <3>1. CASE s = 0
      BY <2>3, <3>1 DEF InOrder
    <3>2. CASE s # 0
      BY <1>1, <1>2, <2>2, <2>3, <3>2 DEF Checkpoints
    <3>3. QED BY <3>1, <3>2
  <2>5. ASSUME s < MaxSteps PROVE loader' = [seed |-> 0, next |-> s]
    <3>1. s < EpochSteps
      BY <2>1, <2>5, Constants
    <3>2. s % EpochSteps = s /\ s \div EpochSteps = 0
      BY <2>1, <3>1, Constants, SmallQuotient
    <3>3. QED BY <2>3, <3>2 DEF ResumedLoader
  <2>6. s # MaxSteps => s < MaxSteps
    BY <2>1, Constants
  <2>7. QED BY <1>3, <1>4, <2>1, <2>3, <2>4, <2>5, <2>6 DEF Trained
<1>8. QED BY <1>6, <1>7

LEMMA NextBatches ==
  ASSUME BInv, [Next]_vars, MaxSteps <= EpochSteps PROVE BInv'
<1>1. ShutdownTypes /\ Trained /\ Checkpoints /\ Tracers
  BY DEF BInv
<1>2. ShutdownTypes'
  BY <1>1, TypesShutdown
<1>3. CASE UNCHANGED vars
  BY <1>1, <1>2, <1>3 DEF vars, model, disk, BInv, Trained, Checkpoints, Tracers, Running
<1>4. CASE TrainStep
  <2>1. /\ pc = "train" /\ pc' = "request" /\ step' = step + 1
        /\ trained' = Append(trained, BatchAt(loader.seed, loader.next))
        /\ loader' = IF loader.next + 1 = EpochSteps
                       THEN [seed |-> step' \div EpochSteps, next |-> 0]
                       ELSE [loader EXCEPT !.next = @ + 1]
        /\ UNCHANGED <<ver, disk>>
    BY <1>4 DEF TrainStep, Goto
  <2>2. step \in Nat /\ step < MaxSteps /\ loader = [seed |-> 0, next |-> step]
    BY <1>1, <2>1 DEF ShutdownTypes, Trained
  <2>3. step < EpochSteps /\ step + 1 <= MaxSteps
    BY <2>2, Constants
  <2>4. BatchAt(loader.seed, loader.next) = step
    <3>1. loader.seed = 0 /\ loader.next = step /\ step + 0 = step
      BY <2>2
    <3>2. step % EpochSteps = step
      BY <2>2, <2>3, Constants, SmallQuotient
    <3>3. QED BY <3>1, <3>2 DEF BatchAt
  <2>5. InOrder(trained', step + 1)
    BY <1>1, <2>1, <2>2, <2>4, AppendInOrder DEF Trained
  <2>6. ASSUME step + 1 < MaxSteps PROVE loader' = [seed |-> 0, next |-> step + 1]
    <3>1. step + 1 # EpochSteps
      BY <2>2, <2>6, Constants
    <3>2. loader.next + 1 # EpochSteps
      BY <2>2, <3>1
    <3>3. loader' = [loader EXCEPT !.next = @ + 1]
      BY <2>1, <3>2
    <3>4. QED BY <2>2, <3>3
  <2>7. Trained'
    BY <2>1, <2>3, <2>5, <2>6 DEF Trained
  <2>8. Checkpoints' /\ Tracers'
    BY <1>1, <2>1 DEF Checkpoints, Tracers, disk, Running
  <2>9. QED BY <1>2, <2>7, <2>8 DEF BInv
<1>5. CASE SaveFiles
  <2> PICK x : x = [trained |-> trained, bestStep |-> bestStep', best |-> best']
    OBVIOUS
  <2>1. ckpt' = [ckpt EXCEPT ![ver][step] = x] /\ x.trained = trained
    <3>1. ckpt' = [ckpt EXCEPT ![ver][step] =
                [trained |-> trained, bestStep |-> bestStep', best |-> best']]
      BY <1>5 DEF SaveFiles
    <3>2. QED BY <3>1
  <2>2. /\ UNCHANGED <<ver, step, loader, trained, tracer, saving, ucp>>
        /\ pc' = "store" /\ pc = "save"
    BY <1>5 DEF SaveFiles, Goto
  <2>3. ver \in Version
    BY <1>1 DEF ShutdownTypes
  <2>4. \A v \in Version, s \in Step :
          ckpt'[v][s] = IF v = ver /\ s = step THEN x ELSE ckpt[v][s]
    BY <1>1, <2>1 DEF Checkpoints
  <2>5. DOMAIN ckpt' = Version /\ \A v \in Version : DOMAIN ckpt'[v] = Step
    BY <1>1, <2>1 DEF Checkpoints
  <2>6. Checkpoints'
    BY <1>1, <2>1, <2>4, <2>5 DEF Checkpoints, Trained
  <2>7. Trained' /\ Tracers'
    BY <1>1, <2>2 DEF Trained, Tracers, Running
  <2>8. QED BY <1>2, <2>6, <2>7 DEF BInv
<1>6. CASE Store \/ Rotate
  <2>1. /\ UNCHANGED <<ver, model, tracer, ucp>> /\ pc' \in {"rotate", "saved"}
        /\ pc \in {"store", "rotate"} /\ saving' \in {saving, step}
    BY <1>6 DEF Store, Rotate, Goto
  <2>2. /\ DOMAIN ckpt' = Version /\ \A v \in Version : DOMAIN ckpt'[v] = Step
        /\ \A v \in Version, s \in Step : ckpt'[v][s] \in {None, ckpt[v][s]}
    <3>1. CASE Store
      <4>1. ckpt' = ckpt \/ ckpt' = [ckpt EXCEPT ![ver][step] = None]
        BY <3>1 DEF Store
      <4>2. QED BY <1>1, <4>1 DEF Checkpoints
    <3>2. CASE Rotate
      <4>1. PICK d : ckpt' = [ckpt EXCEPT ![ver] = [s \in Step |-> IF s \in d THEN None ELSE @[s]]]
        BY <3>2 DEF Rotate
      <4>2. QED BY <1>1, <4>1 DEF Checkpoints
    <3>3. QED BY <1>6, <3>1, <3>2
  <2>3. Checkpoints'
    <3>1. ASSUME NEW v \in Version, NEW s \in Step, ckpt'[v][s] # None
          PROVE  InOrder(ckpt'[v][s].trained, s)
      <4>1. ckpt'[v][s] = ckpt[v][s]
        BY <2>2, <3>1
      <4>2. QED BY <1>1, <3>1, <4>1 DEF Checkpoints
    <3>2. QED BY <2>2, <3>1 DEF Checkpoints
  <2>4. Trained' /\ Tracers'
    BY <1>1, <2>1 DEF Trained, Tracers, Running, model
  <2>5. QED BY <1>2, <2>3, <2>4 DEF BInv
<1>7. CASE AllReduce \/ OnSave \/ WaitLatest \/ \E r \in Rank : Signal(r) \/ ReadRequest(r)
  <2>1. /\ UNCHANGED <<ver, model, disk>> /\ pc' \in {pc, "save", "next", "done"}
        /\ Running' => Running
    BY <1>7 DEF AllReduce, OnSave, WaitLatest, Signal, ReadRequest, Goto, Running
  <2>2. QED BY <1>1, <1>2, <2>1 DEF BInv, Trained, Checkpoints, Tracers, model, disk
<1>8. CASE NextStep
  <2>1. /\ UNCHANGED <<ver, model, disk>> /\ pc = "next" /\ pc' \in {"finish", "train"}
        /\ pc' = "train" => step # MaxSteps
    BY <1>8 DEF NextStep, TrainingOver, Goto
  <2>2. step # MaxSteps => step < MaxSteps
    BY <1>1, Constants DEF Trained, ShutdownTypes
  <2>3. QED BY <1>1, <1>2, <2>1, <2>2 DEF BInv, Trained, Checkpoints, Tracers, Running, model, disk
<1>9. CASE Persist \/ Crash
  <2>1. /\ UNCHANGED <<ver, model, ckpt, ucp>> /\ Running /\ pc' \in {pc, "down"} /\ saving' = 0
        /\ tracer' = tracer \/ tracer' = [tracer EXCEPT ![ver] = saving]
    BY <1>9 DEF Persist, Crash, Persisted, Goto
  <2>2. \A v \in Version : tracer'[v] <= MaxSteps
    BY <1>1, <2>1 DEF Tracers, ShutdownTypes
  <2>3. ucp[ver] = 0 /\ saving' <= MaxSteps
    BY <1>1, <2>1, Constants DEF Tracers
  <2>4. Tracers'
    BY <1>1, <2>1, <2>2, <2>3 DEF Tracers
  <2>5. Trained' /\ Checkpoints'
    BY <1>1, <2>1 DEF Trained, Checkpoints, model
  <2>6. QED BY <1>2, <2>4, <2>5 DEF BInv
<1>10. CASE Convert
  <2>1. /\ UNCHANGED <<ver, pc, model, ckpt, tracer, saving>> /\ ~Running
        /\ ucp' = [ucp EXCEPT ![ver] = tracer[ver]]
    BY <1>10 DEF Convert, Running, Preempted
  <2>2. ucp'[ver] = tracer[ver] /\ \A v \in Version : v > ver => ucp'[v] = ucp[v]
    BY <1>1, <2>1 DEF ShutdownTypes, Version
  <2>3. Tracers'
    BY <1>1, <2>1, <2>2 DEF Tracers, Running
  <2>4. Trained' /\ Checkpoints'
    BY <1>1, <2>1 DEF Trained, Checkpoints, model
  <2>5. QED BY <1>2, <2>3, <2>4 DEF BInv
<1>11. CASE Restart
  BY <1>2, <1>11, RestartBatches DEF BInv
<1>12. QED BY <1>3, <1>4, <1>5, <1>6, <1>7, <1>8, <1>9, <1>10, <1>11
          DEF Next, Loop, Save, Terminated

(* However often a run of one epoch is killed, preempted and started again, *)
(* with whatever checkpoints were skipped, finished or rotated in between,  *)
(* its weights were trained on each batch once: those of a checkpoint are   *)
(* the batches before its step, and the resumed run skips exactly them      *)
(* (_patch_skip_first_batches).  In a later epoch the resumed dataloader    *)
(* has the order of the base seed, so the theorem is about one epoch.       *)
THEOREM BatchesOnceInOneEpoch ==
  ASSUME MaxSteps <= EpochSteps PROVE Spec => []EpochBatchesOnce
<1>1. BInv => EpochBatchesOnce
  <2>1. ASSUME BInv, NEW i \in 1 .. step, NEW j \in 1 .. step, i < j PROVE trained[i] # trained[j]
    <3>1. step \in Nat /\ \A k \in 1 .. step : trained[k] = k - 1
      BY <2>1 DEF BInv, ShutdownTypes, Trained, InOrder
    <3>2. trained[i] = i - 1 /\ trained[j] = j - 1 /\ i \in Int /\ j \in Int
      BY <3>1
    <3>3. QED BY <2>1, <3>2
  <2>2. QED BY <2>1 DEF EpochBatchesOnce
<1>2. BInv /\ [Next]_vars => BInv'
  BY NextBatches
<1>3. QED BY <1>1, <1>2, InitBatches, PTL DEF Spec

-----------------------------------------------------------------------------
(* The checkpoints that are kept.                                           *)

Steps == step <= MaxSteps /\ (pc = "train" => step < MaxSteps)

Disk ==
  /\ DOMAIN complete = Version /\ DOMAIN ckpt = Version
  /\ \A v \in Version : DOMAIN ckpt[v] = Step /\ complete[v] \subseteq dirs(v)
  /\ \A v \in Version : v > ver => tracer[v] = 0 /\ complete[v] = {}

(* A run saves later steps than those it has saved, and what the agent is   *)
(* persisting is later than what it has finished.                           *)
Earlier(s) == s <= step /\ (pc \in {"request", "save", "store"} => s < step)

Latest ==
  /\ \A s \in complete[ver] : Earlier(s)
  /\ Earlier(tracer[ver]) /\ Earlier(saving)
  /\ saving # 0 => Running /\ saving \in dirs(ver) /\ tracer[ver] < saving
  /\ pc = "store" => step \in dirs(ver)

BestType(b) == b = None \/ \E v \in Version, s \in Step : b = <<v, s>>

Best ==
  /\ BestType(best)
  /\ \A v \in Version, s \in Step : ckpt[v][s] # None => BestType(ckpt[v][s].best)

KInv == ShutdownTypes /\ Tracers /\ Steps /\ Disk /\ Latest /\ Best

(* The tracer names a checkpoint that a restart can use.                    *)
TInv == KInv /\ TracerComplete

LEMMA AtMostOne ==
  ASSUME NEW S, NEW x, S \subseteq {x}
  PROVE  Cardinality(S) \in {0, 1} /\ (S = {} => Cardinality(S) = 0)
<1>1. S = {} \/ S = {x}
  OBVIOUS
<1>2. QED BY <1>1, FS_EmptySet, FS_Singleton

(* The best checkpoint has nothing but the newest after it, and that one is *)
(* the reason for keeping two.                                              *)
LEMMA BestStays ==
  ASSUME NEW s, best = <<ver, s>> PROVE s \notin Excess
<1> SUFFICES ASSUME s \in Excess PROVE FALSE
  OBVIOUS
<1>1. /\ SaveLimit # 0 /\ s \in ValidCheckpoints /\ s \in dirs(ver)
      /\ Cardinality(Following(s)) >= KeptCheckpoints
  BY DEF Excess, ValidCheckpoints
<1>2. dirs(ver) \subseteq Int /\ SaveLimit \in Nat
  BY FlashConstants, Constants DEF dirs, Step
<1>3. \A t \in Following(s) : Newest(t) /\ t # s /\ t \in ValidCheckpoints /\ t \in dirs(ver)
  BY DEF Following, SortedAfter, ValidCheckpoints
<1>4. \A t, u \in Following(s) : t = u
  BY <1>2, <1>3 DEF Newest
<1>5. CASE Following(s) = {}
  <2>1. Cardinality(Following(s)) = 0 /\ KeptCheckpoints \in {SaveLimit, 2}
    BY <1>5, AtMostOne DEF KeptCheckpoints
  <2>2. QED BY <1>1, <1>2, <2>1
<1>6. CASE Following(s) # {}
  <2>1. PICK n \in Following(s) : Following(s) \subseteq {n}
    BY <1>4, <1>6
  <2>2. Following(n) = {}
    BY <1>2, <1>3 DEF Following, SortedAfter, Newest, ValidCheckpoints
  <2>3. SaveLimit = 1 => KeptCheckpoints = 2
    <3>1. n \in ValidCheckpoints /\ n # s
      BY <1>3, <2>1
    <3>2. best # <<ver, n>>
      BY <3>1
    <3>3. best # None
      BY DEF None
    <3>4. QED BY <2>2, <3>1, <3>2, <3>3 DEF KeptCheckpoints
  <2>4. SaveLimit # 1 => KeptCheckpoints = SaveLimit
    BY DEF KeptCheckpoints
  <2>5. Cardinality(Following(s)) \in {0, 1}
    BY <2>1, AtMostOne
  <2>6. QED BY <1>1, <1>2, <2>3, <2>4, <2>5
<1>7. QED BY <1>5, <1>6

(* The last finished checkpoint has nothing but the best one after it.      *)
LEMMA LastStays ==
  ASSUME NEW s, s = tracer[ver], SaveLimit # 1 PROVE s \notin Excess
<1> SUFFICES ASSUME s \in Excess PROVE FALSE
  OBVIOUS
<1>1. /\ SaveLimit # 0 /\ s \in ValidCheckpoints /\ s \in dirs(ver)
      /\ Cardinality(Following(s)) >= SaveLimit
  BY DEF Excess, ValidCheckpoints, KeptCheckpoints
<1>2. dirs(ver) \subseteq Int /\ SaveLimit \in Nat
  BY FlashConstants, Constants DEF dirs, Step
<1>3. \A t \in Following(s) : t \in dirs(ver) /\ t <= s /\ t # s
  BY DEF Following, SortedAfter, ValidCheckpoints
<1>4. \A t \in Following(s) : best = <<ver, t>>
  BY <1>1, <1>2, <1>3 DEF Following, SortedAfter, Newest
<1>5. Following(s) \subseteq {best[2]}
  BY <1>4
<1>6. Cardinality(Following(s)) \in {0, 1}
  BY <1>5, AtMostOne
<1>7. QED BY <1>1, <1>2, <1>6

LEMMA InitKept == Init => TInv
<1> SUFFICES ASSUME Init PROVE TInv
  OBVIOUS
<1>1. ShutdownTypes
  BY InitShutdown DEF SInv
<1>2. Tracers /\ Steps
  BY Constants DEF Init, Tracers, Steps, Version
<1>3. Disk /\ Latest
  BY Constants DEF Init, Disk, Latest, Earlier, Version
<1>4. Best /\ TracerComplete
  BY DEF Init, Best, BestType, TracerComplete
<1>5. QED BY <1>1, <1>2, <1>3, <1>4 DEF TInv, KInv

LEMMA KeptFacts ==
  ASSUME KInv
  PROVE  /\ ver \in Version /\ step \in Nat /\ saving \in Nat /\ tracer[ver] \in Nat
         /\ tracer \in [Version -> Nat] /\ ucp \in [Version -> Nat]
         /\ MaxSteps \in Nat /\ \A v \in Version : dirs(v) \subseteq Step
BY Constants DEF KInv, ShutdownTypes, dirs

(* Steps that leave the disk alone.                                         *)
LEMMA KeptMoves ==
  ASSUME KInv, UNCHANGED <<ver, model, disk>>, pc' \in PC,
         pc' \in {"request", "save", "store"} => pc \in {"request", "save", "store"},
         pc' = "store" => pc = "store", Running' => Running, saving # 0 => Running',
         pc' = "train" => step < MaxSteps
  PROVE  Tracers' /\ Steps' /\ Disk' /\ Latest' /\ Best'
<1>1. Tracers' /\ Steps'
  BY DEF KInv, Tracers, Steps, model, disk
<1>2. Disk' /\ Best'
  BY DEF KInv, Disk, Best, BestType, model, disk, dirs
<1>3. Latest'
  BY DEF KInv, Latest, Earlier, model, disk, dirs
<1>4. QED BY <1>1, <1>2, <1>3

LEMMA KeptTrain ==
  ASSUME KInv, TrainStep PROVE Tracers' /\ Steps' /\ Disk' /\ Latest' /\ Best'
<1>1. /\ UNCHANGED <<ver, best, disk>> /\ pc = "train" /\ pc' = "request" /\ step' = step + 1
  BY DEF TrainStep, Goto
<1>2. Tracers' /\ Disk' /\ Best'
  BY <1>1 DEF KInv, Tracers, Disk, Best, BestType, disk, dirs, Running
<1>3. step \in Nat /\ MaxSteps \in Nat /\ step < MaxSteps
  BY <1>1, KeptFacts DEF KInv, Steps
<1>4. Steps'
  BY <1>1, <1>3 DEF Steps
<1>5. ASSUME NEW x \in Int, Earlier(x) PROVE x <= step + 1 /\ x < step + 1
  BY <1>3, <1>5 DEF Earlier
<1>6. complete[ver] \subseteq Int /\ tracer[ver] \in Int /\ saving \in Int
  BY KeptFacts DEF KInv, Disk, Step
<1>7. Latest'
  BY <1>1, <1>5, <1>6 DEF KInv, Latest, Earlier, disk, Running, dirs
<1>8. QED BY <1>2, <1>4, <1>7

LEMMA KeptSave ==
  ASSUME KInv, SaveFiles PROVE Tracers' /\ Steps' /\ Disk' /\ Latest' /\ Best'
<1> PICK x : x = [trained |-> trained, bestStep |-> bestStep', best |-> best']
  OBVIOUS
<1>1. /\ UNCHANGED <<ver, step, complete, tracer, saving, ucp>> /\ pc = "save" /\ pc' = "store"
      /\ ckpt' = [ckpt EXCEPT ![ver][step] = x]
  BY DEF SaveFiles, Goto
<1>2. step \in Step
  <2>1. saving < step /\ step <= MaxSteps
    BY <1>1 DEF KInv, Latest, Earlier, Steps
  <2>2. QED BY <2>1, KeptFacts DEF Step
<1>3. x # None /\ x.best = best'
  BY DEF None
<1>4. /\ DOMAIN ckpt' = Version /\ \A v \in Version : DOMAIN ckpt'[v] = Step
      /\ \A v \in Version, s \in Step :
            ckpt'[v][s] = IF v = ver /\ s = step THEN x ELSE ckpt[v][s]
  BY <1>1 DEF KInv, Disk
<1>5. \A v \in Version : dirs(v) \subseteq dirs(v)'
  BY <1>3, <1>4 DEF dirs
<1>6. step \in dirs(ver)'
  BY <1>1, <1>2, <1>3, <1>4, KeptFacts DEF dirs
<1>7. Tracers' /\ Steps'
  BY <1>1 DEF KInv, Tracers, Steps, Running
<1>8. Disk'
  BY <1>1, <1>4, <1>5 DEF KInv, Disk
<1>9. Latest'
  BY <1>1, <1>5, <1>6, KeptFacts DEF KInv, Latest, Earlier, Running
<1>10. BestType(best)'
  <2>1. bestStep' = step \/ bestStep' \in dirs(ver) => best' = <<ver, bestStep'>> /\ bestStep' \in Step
    BY <1>2, KeptFacts DEF SaveFiles
  <2>2. ~(bestStep' = step \/ bestStep' \in dirs(ver)) => best' = best
    BY DEF SaveFiles
  <2>3. QED BY <2>1, <2>2, KeptFacts DEF KInv, Best, BestType
<1>11. Best'
  BY <1>3, <1>4, <1>10 DEF KInv, Best, BestType
<1>12. QED BY <1>7, <1>8, <1>9, <1>11

(* A save that is skipped deletes nothing that was finished.                *)
LEMMA KeptStore ==
  ASSUME KInv, Store PROVE Tracers' /\ Steps' /\ Disk' /\ Latest' /\ Best'
<1>1. /\ UNCHANGED <<ver, step, best, complete, tracer, ucp>> /\ pc = "store" /\ pc' = "rotate"
  BY DEF Store, Goto, model
<1>2. \A s \in complete[ver] : s <= step /\ s < step
  BY <1>1 DEF KInv, Latest, Earlier
<1>3. tracer[ver] < step /\ saving < step /\ step <= MaxSteps
  BY <1>1 DEF KInv, Latest, Earlier, Steps
<1>4. CASE saving = 0
  <2>1. saving' = step /\ ckpt' = ckpt
    BY <1>4 DEF Store
  <2>2. Tracers' /\ Steps' /\ Disk' /\ Best'
    BY <1>1, <1>3, <2>1 DEF KInv, Tracers, Steps, Disk, Best, BestType, dirs, Running
  <2>3. Latest'
    BY <1>1, <1>2, <1>3, <2>1, KeptFacts DEF KInv, Latest, Earlier, dirs, Running
  <2>4. QED BY <2>2, <2>3
<1>5. CASE saving # 0
  <2>1. saving' = saving /\ ckpt' = [ckpt EXCEPT ![ver][step] = None]
    BY <1>5 DEF Store
  <2>2. /\ DOMAIN ckpt' = Version /\ \A v \in Version : DOMAIN ckpt'[v] = Step
        /\ \A v \in Version, s \in Step :
              ckpt'[v][s] = IF v = ver /\ s = step THEN None ELSE ckpt[v][s]
    BY <2>1 DEF KInv, Disk
  <2>3. \A v \in Version : \A s \in dirs(v) : v # ver \/ s # step => s \in dirs(v)'
    BY <2>2 DEF dirs
  <2>4. \A s \in complete[ver] : s # step
    BY <1>2, KeptFacts DEF KInv, Disk, Step
  <2>5. Disk'
    BY <1>1, <2>2, <2>3, <2>4 DEF KInv, Disk
  <2>6. Tracers' /\ Steps' /\ Best'
    BY <1>1, <2>1, <2>2 DEF KInv, Tracers, Steps, Best, BestType, Running
  <2>7. saving \in dirs(ver)' /\ saving # step
    BY <1>1, <1>3, <1>5, <2>3, KeptFacts DEF KInv, Latest
  <2>8. Latest'
    BY <1>1, <1>2, <1>3, <2>1, <2>7, KeptFacts DEF KInv, Latest, Earlier, Running
  <2>9. QED BY <2>5, <2>6, <2>8
<1>6. QED BY <1>4, <1>5

(* A rotation deletes nothing that is still being persisted.                *)
LEMMA KeptRotate ==
  ASSUME KInv, Rotate PROVE Tracers' /\ Steps' /\ Disk' /\ Latest' /\ Best'
<1>1. /\ UNCHANGED <<ver, step, best, tracer, saving, ucp>> /\ pc = "rotate" /\ pc' = "saved"
  BY DEF Rotate, Goto, model
<1> PICK d : d = Excess
  OBVIOUS
<1>2. /\ ckpt' = [ckpt EXCEPT ![ver] = [s \in Step |-> IF s \in d THEN None ELSE @[s]]]
      /\ complete' = [complete EXCEPT ![ver] = @ \ d]
  BY DEF Rotate
<1>3. /\ DOMAIN ckpt' = Version /\ \A v \in Version : DOMAIN ckpt'[v] = Step
      /\ \A v \in Version, s \in Step :
            ckpt'[v][s] = IF v = ver /\ s \in d THEN None ELSE ckpt[v][s]
  BY <1>2 DEF KInv, Disk
<1>4. /\ DOMAIN complete' = Version
      /\ \A v \in Version : complete'[v] = IF v = ver THEN complete[v] \ d ELSE complete[v]
  BY <1>2 DEF KInv, Disk
<1>5. \A v \in Version : \A s \in dirs(v) : v # ver \/ s \notin d => s \in dirs(v)'
  BY <1>3 DEF dirs
<1>6. Disk'
  BY <1>1, <1>3, <1>4, <1>5 DEF KInv, Disk
<1>7. Tracers' /\ Steps'
  BY <1>1 DEF KInv, Tracers, Steps, Running
<1>8. BestType(best)' /\ \A v \in Version, s \in Step : ckpt'[v][s] # None => ckpt'[v][s] = ckpt[v][s]
  BY <1>1, <1>3 DEF KInv, Best, BestType
<1>9. Best'
  BY <1>8 DEF KInv, Best, BestType
<1>10. saving # 0 => saving \in dirs(ver)'
  <2>1. \A s \in d : s <= tracer[ver]
    BY DEF Excess, ValidCheckpoints
  <2>2. saving # 0 => saving \notin d
    BY <2>1, KeptFacts DEF KInv, Latest
  <2>3. QED BY <1>1, <1>5, <2>2, KeptFacts DEF KInv, Latest
<1>11. Latest'
  BY <1>1, <1>4, <1>10, KeptFacts DEF KInv, Latest, Earlier, Running
<1>12. QED BY <1>6, <1>7, <1>9, <1>11

(* The agent finishes a checkpoint, or the run is killed.                   *)
LEMMA KeptPersist ==
  ASSUME KInv, Persist \/ Crash
  PROVE  /\ Tracers' /\ Steps' /\ Disk' /\ Latest' /\ Best'
         /\ TracerComplete => TracerComplete'
         /\ \A v \in Version : complete[v] \subseteq complete'[v]
<1>1. /\ UNCHANGED <<ver, model, ckpt, ucp>> /\ Running /\ saving' = 0 /\ pc' \in {pc, "down"}
      /\ \/ UNCHANGED <<complete, tracer>>
         \/ saving # 0 /\ Persisted(ver)
  BY DEF Persist, Crash, Goto
<1>2. UNCHANGED <<ver, step, best, ckpt, ucp>>
  BY <1>1 DEF model
<1>3. 0 <= step /\ (pc \in {"request", "save", "store"} => 0 < step)
  BY KeptFacts DEF KInv, Latest, Earlier
<1>4. Steps' /\ Best'
  BY <1>1, <1>2 DEF KInv, Steps, Best, BestType
<1>5. CASE UNCHANGED <<complete, tracer>>
  <2>1. Tracers' /\ Disk'
    BY <1>1, <1>2, <1>5, Constants DEF KInv, Tracers, Disk, dirs, Running
  <2>2. Latest'
    BY <1>1, <1>2, <1>3, <1>5 DEF KInv, Latest, Earlier, Running, dirs
  <2>3. QED BY <1>4, <1>5, <2>1, <2>2 DEF TracerComplete
<1>6. CASE saving # 0 /\ Persisted(ver)
  <2>1. /\ \A v \in Version :
              /\ complete'[v] = IF v = ver THEN complete[v] \cup {saving} ELSE complete[v]
              /\ tracer'[v] = IF v = ver THEN saving ELSE tracer[v]
        /\ DOMAIN complete' = Version
    BY <1>6, KeptFacts DEF KInv, Disk, Persisted
  <2>2. saving \in dirs(ver) /\ Earlier(saving) /\ saving <= MaxSteps
    BY <1>6 DEF KInv, Latest, Tracers
  <2>3. Tracers'
    BY <1>1, <1>2, <2>1, <2>2, Constants DEF KInv, Tracers
  <2>4. Disk'
    <3>1. \A v \in Version : v > ver => v # ver
      BY KeptFacts DEF Version
    <3>2. QED BY <1>2, <2>1, <2>2, <3>1 DEF KInv, Disk, dirs
  <2>5. Latest'
    BY <1>1, <1>2, <1>3, <2>1, <2>2, KeptFacts DEF KInv, Latest, Earlier, dirs
  <2>6. TracerComplete => TracerComplete'
    BY <2>1 DEF TracerComplete
  <2>7. QED BY <1>4, <2>1, <2>3, <2>4, <2>5, <2>6
<1>7. QED BY <1>1, <1>5, <1>6

LEMMA KeptConvert ==
  ASSUME KInv, Convert PROVE Tracers' /\ Steps' /\ Disk' /\ Latest' /\ Best'
<1>1. /\ UNCHANGED <<ver, pc, model, ckpt, complete, tracer, saving>> /\ ~Running
      /\ ucp' = [ucp EXCEPT ![ver] = tracer[ver]]
  BY DEF Convert, Running, Preempted
<1>2. ucp'[ver] = tracer[ver] /\ \A v \in Version : v > ver => ucp'[v] = ucp[v]
  BY <1>1, KeptFacts DEF Version
<1>3. Tracers'
  BY <1>1, <1>2 DEF KInv, Tracers, Running
<1>4. UNCHANGED <<step, best>>
  BY <1>1 DEF model
<1>5. Steps' /\ Disk'
  BY <1>1, <1>4 DEF KInv, Steps, Disk, dirs
<1>6. Latest'
  <2>1. Latest /\ saving = 0
    BY <1>1 DEF KInv, Latest
  <2>2. dirs(ver)' = dirs(ver)
    BY <1>1 DEF dirs
  <2>3. QED BY <1>1, <1>4, <2>1, <2>2 DEF Latest, Earlier
<1>7. Best'
  BY <1>1, <1>4 DEF KInv, Best, BestType
<1>8. QED BY <1>3, <1>5, <1>6, <1>7

LEMMA KeptRestart ==
  ASSUME KInv, Restart PROVE Tracers' /\ Steps' /\ Disk' /\ Latest' /\ Best'
<1>1. /\ ver' = ver + 1 /\ ver' \in Version /\ ver' > ver /\ UNCHANGED disk /\ ~Running
      /\ pc' \in {"failed", "train", "finish"}
  <2>1. ver' = ver + 1 /\ ver < MaxVersion /\ UNCHANGED disk /\ (pc = "down" \/ Preempted)
    BY DEF Restart
  <2>2. pc' \in {"failed", "train", "finish"}
    BY DEF Restart, Goto
  <2>3. QED BY <2>1, <2>2, KeptFacts, Constants DEF Version, Running, Preempted
<1>2. UNCHANGED <<ckpt, complete, tracer, saving, ucp>>
  BY <1>1 DEF disk
<1>3. tracer[ver'] = 0 /\ complete[ver'] = {} /\ ucp[ver'] = 0 /\ saving = 0
  BY <1>1 DEF KInv, Disk, Tracers, Latest
<1>4. \A v \in Version : v > ver' => v > ver
  BY <1>1, KeptFacts DEF Version
<1>5. Tracers' /\ Disk'
  BY <1>1, <1>2, <1>3, <1>4 DEF KInv, Tracers, Disk, dirs
<1>6. /\ step' \in Nat /\ step' <= MaxSteps /\ BestType(best)'
      /\ pc' = "train" => step' < MaxSteps
  <2>1. CASE tracer[ver] # 0 /\ tracer[ver] \notin dirs(ver)
    <3>1. UNCHANGED <<step, best>> /\ pc' = "failed"
      BY <2>1 DEF Restart, Goto, model
    <3>2. QED BY <3>1, KeptFacts DEF KInv, Steps, Best, BestType
  <2>2. CASE ~(tracer[ver] # 0 /\ tracer[ver] \notin dirs(ver))
    <3>1. PICK s : s = ResumeStep(ver)
      OBVIOUS
    <3>2. s \in Nat /\ s <= MaxSteps /\ (s # 0 => s \in Step /\ ckpt[ver][s] # None)
      BY <2>2, <3>1, ResumeLemma DEF KInv
    <3>3. /\ step' = s /\ best' = IF s = 0 THEN None ELSE ckpt[ver][s].best
          /\ pc' = IF s = MaxSteps THEN "finish" ELSE "train"
      BY <2>2, <3>1 DEF Restart, Goto
    <3>4. BestType(best)'
      BY <3>2, <3>3, KeptFacts DEF KInv, Best, BestType
    <3>5. QED BY <3>2, <3>3, <3>4, Constants
  <2>3. QED BY <2>1, <2>2
<1>7. Steps' /\ Best'
  BY <1>2, <1>6 DEF KInv, Steps, Best, BestType
<1>8. Latest'
  BY <1>1, <1>2, <1>3, <1>6 DEF KInv, Latest, Earlier
<1>9. QED BY <1>5, <1>7, <1>8

LEMMA NextKept ==
  ASSUME KInv, [Next]_vars PROVE KInv'
<1>1. ShutdownTypes' /\ pc' \in PC
  BY TypesShutdown DEF KInv, ShutdownTypes
<1>2. SUFFICES Tracers' /\ Steps' /\ Disk' /\ Latest' /\ Best'
  BY <1>1 DEF KInv
<1>3. saving # 0 => Running
  BY DEF KInv, Latest
<1>4. pc = "train" => step < MaxSteps
  BY DEF KInv, Steps
<1>5. CASE UNCHANGED vars \/ \E r \in Rank : Signal(r) \/ ReadRequest(r)
  <2>1. UNCHANGED <<ver, pc, model, disk>>
    BY <1>5 DEF vars, Signal, ReadRequest
  <2>2. QED BY <1>1, <1>3, <1>4, <2>1, KeptMoves DEF Running
<1>6. CASE AllReduce
  <2>1. UNCHANGED <<ver, model, disk>> /\ pc = "request" /\ pc' \in {"save", "next"}
    BY <1>6 DEF AllReduce, Goto
  <2>2. QED BY <1>1, <2>1, KeptMoves DEF Running
<1>7. CASE OnSave
  <2>1. UNCHANGED <<ver, model, disk>> /\ pc = "saved" /\ pc' = "next"
    BY <1>7 DEF OnSave, Goto
  <2>2. QED BY <1>1, <2>1, KeptMoves DEF Running
<1>8. CASE NextStep
  <2>1. /\ UNCHANGED <<ver, model, disk>> /\ pc = "next" /\ pc' \in {"finish", "train"}
        /\ pc' = "train" => step # MaxSteps
    BY <1>8 DEF NextStep, TrainingOver, Goto
  <2>2. step # MaxSteps => step < MaxSteps
    BY KeptFacts DEF KInv, Steps
  <2>3. QED BY <1>1, <2>1, <2>2, KeptMoves DEF Running
<1>9. CASE WaitLatest
  <2>1. UNCHANGED <<ver, model, disk>> /\ saving = 0 /\ pc = "finish" /\ pc' = "done"
    BY <1>9 DEF WaitLatest, Goto
  <2>2. QED BY <1>1, <2>1, KeptMoves DEF Running
<1>10. CASE TrainStep
  BY <1>10, KeptTrain
<1>11. CASE SaveFiles
  BY <1>11, KeptSave
<1>12. CASE Store
  BY <1>12, KeptStore
<1>13. CASE Rotate
  BY <1>13, KeptRotate
<1>14. CASE Persist \/ Crash
  BY <1>14, KeptPersist
<1>15. CASE Convert
  BY <1>15, KeptConvert
<1>16. CASE Restart
  BY <1>16, KeptRestart
<1>17. QED BY <1>5, <1>6, <1>7, <1>8, <1>9, <1>10, <1>11, <1>12, <1>13, <1>14, <1>15, <1>16
          DEF Next, Loop, Save, Terminated

(* Complete checkpoints are lost in a rotation only.                        *)
LEMMA CompleteGrows ==
  ASSUME KInv, [Next]_vars
  PROVE  \/ Rotate
         \/ UNCHANGED <<complete, tracer>>
         \/ /\ \A v \in Version : complete[v] \subseteq complete'[v]
            /\ TracerComplete => TracerComplete'
<1>1. CASE UNCHANGED vars
  BY <1>1 DEF vars, disk
<1>2. CASE Persist \/ Crash
  BY <1>2, KeptPersist
<1>3. CASE TrainStep \/ AllReduce \/ OnSave \/ NextStep \/ WaitLatest
  BY <1>3 DEF TrainStep, AllReduce, OnSave, NextStep, WaitLatest, disk
<1>4. CASE SaveFiles \/ Store
  BY <1>4 DEF SaveFiles, Store
<1>5. CASE Convert \/ Restart
  BY <1>5 DEF Convert, Restart, disk
<1>6. CASE \E r \in Rank : Signal(r) \/ ReadRequest(r)
  BY <1>6 DEF Signal, ReadRequest, disk
<1>7. QED BY <1>1, <1>2, <1>3, <1>4, <1>5, <1>6 DEF Next, Loop, Save, Terminated

LEMMA RotateComplete ==
  ASSUME KInv, Rotate, NEW v \in Version
  PROVE  /\ tracer' = tracer
         /\ complete'[v] = IF v = ver THEN complete[v] \ Excess ELSE complete[v]
<1>1. tracer' = tracer /\ complete' = [complete EXCEPT ![ver] = @ \ Excess]
  BY DEF Rotate
<1>2. QED BY <1>1 DEF KInv, Disk

LEMMA NextComplete ==
  ASSUME TInv, [Next]_vars, SaveLimit # 1 PROVE TInv'
<1>1. KInv /\ KInv'
  BY NextKept DEF TInv
<1>2. CASE Rotate
  <2>1. ASSUME NEW v \in Version, tracer'[v] # 0 PROVE tracer'[v] \in complete'[v]
    <3>1. PICK s : s = tracer[v]
      OBVIOUS
    <3>2. tracer'[v] = s /\ s \in complete[v]
      BY <1>1, <1>2, <2>1, <3>1, RotateComplete DEF TInv, TracerComplete
    <3>3. v = ver => s \notin Excess
      BY <3>1, LastStays
    <3>4. QED BY <1>1, <1>2, <3>2, <3>3, RotateComplete
  <2>2. QED BY <1>1, <2>1 DEF TInv, TracerComplete
<1>3. CASE ~Rotate
  BY <1>1, <1>3, CompleteGrows DEF TInv, TracerComplete
<1>4. QED BY <1>2, <1>3

(* The checkpoint the tracer file of a run names, which is the only one     *)
(* that a restart looks for, is there with all its files: it is written     *)
(* after them, a save that is skipped deletes a later one, and at most the  *)
(* best model can take its place in a rotation (save_checkpoint_to_storage, *)
(* _rotate_flash_checkpoints).  With room for one checkpoint only the best  *)
(* model may take the only place, so the theorem is about the other limits. *)
THEOREM TracerIsComplete ==
  ASSUME SaveLimit # 1 PROVE Spec => []TracerComplete
<1>1. TInv => TracerComplete
  BY DEF TInv
<1>2. TInv /\ [Next]_vars => TInv'
  BY NextComplete
<1>3. QED BY <1>1, <1>2, InitKept, PTL DEF Spec

RestartFound == pc # "failed"

(* No restart finds the checkpoint of the run before it gone                *)
(* (get_resume_checkpoint).                                                 *)
THEOREM RestartsSucceed ==
  ASSUME SaveLimit # 1 PROVE Spec => []RestartFound
<1>1. Init => TInv /\ RestartFound
  BY InitKept DEF Init, RestartFound
<1>2. ASSUME TInv, RestartFound, [Next]_vars PROVE TInv' /\ RestartFound'
  <2>1. TInv'
    BY <1>2, NextComplete
  <2>2. CASE Restart
    <3>1. tracer[ver] # 0 => tracer[ver] \in dirs(ver)
      BY <1>2, KeptFacts DEF TInv, TracerComplete, KInv, Disk
    <3>2. QED BY <2>1, <2>2, <3>1 DEF Restart, Goto, RestartFound
  <2>3. CASE ~Restart
    BY <1>2, <2>1, <2>3
       DEF Next, Loop, Save, Terminated, TrainStep, AllReduce, SaveFiles, Store, Rotate, OnSave,
           NextStep, WaitLatest, Persist, Crash, Convert, Signal, ReadRequest, Goto, vars, RestartFound
  <2>4. QED BY <2>2, <2>3
<1>3. TInv /\ RestartFound /\ [Next]_vars => (TInv /\ RestartFound)'
  BY <1>2
<1>4. QED BY <1>1, <1>3, PTL DEF Spec

(* Whatever the limit on the checkpoints, a rotation never deletes that of  *)
(* the best model: nothing but the newest comes after it, and if the limit  *)
(* is one, two are kept (_rotate_flash_checkpoints).                        *)
THEOREM BestIsKept == Spec => BestKept
<1>1. ASSUME KInv, [Next]_vars, best # None, best' = best, best[2] \in complete[best[1]]
      PROVE  best[2] \in complete'[best[1]]
  <2>1. PICK v \in Version, s \in Step : best = <<v, s>>
    BY <1>1 DEF KInv, Best, BestType
  <2>2. best[1] = v /\ best[2] = s
    BY <2>1
  <2>3. CASE Rotate
    <3>1. v = ver => s \notin Excess
      BY <2>1, BestStays
    <3>2. QED BY <1>1, <2>2, <2>3, <3>1, RotateComplete
  <2>4. CASE ~Rotate
    BY <1>1, <2>2, <2>4, CompleteGrows
  <2>5. QED BY <2>3, <2>4
<1>2. KInv /\ [Next]_vars
        => [(best # None /\ best' = best /\ best[2] \in complete[best[1]])
              => best[2] \in complete'[best[1]]]_vars
  BY <1>1
<1>3. Init => KInv
  BY InitKept DEF TInv
<1>4. KInv /\ [Next]_vars => KInv'
  BY NextKept
<1>5. QED BY <1>2, <1>3, <1>4, PTL DEF Spec, BestKept
=============================================================================
