--------------------------- MODULE TeacherRefresh ---------------------------
(***************************************************************************)
(* The life of the SDPO teacher in the GRPO trainer: blended with the      *)
(* student once per optimizer step (EMA), and overwritten by the student   *)
(* (refresh) at a fixed step or when the training metrics say so.  All of  *)
(* it runs once per micro-batch on every rank, and every rank decides for  *)
(* itself from its own trackers which collective of torch.distributed it   *)
(* enters next.                                                            *)
(*                                                                         *)
(* The weights of the student are named by the optimizer step they come    *)
(* from.  A record of the metrics keeps the mean IoU (0 or 1) and whether  *)
(* the guards hold with it: loss, failure rate and KL within their bounds  *)
(* and, in mode metric_ewma, the EWMA above its baseline.                  *)
(***************************************************************************)
EXTENDS Integers, Sequences, FiniteSets

CONSTANTS
  Rank, Main,
  Modes,           \* the values of sdpo_teacher_refresh_mode to explore
  MicroPerStep,    \* gradient_accumulation_steps
  MaxSteps,        \* optimizer steps of the run: bounds it
  RefreshStep,     \* sdpo_teacher_refresh_step
  Warmup, Window,  \* of mode metric
  ShortWindow, LongWindow, Consecutive,  \* of mode metric_ewma
  CheckInterval, MaxRefreshes, Cooldown,
  Ema,             \* opsd_ema_decay > 0
  StudentStage3    \* the student's parameters are partitioned (ZeRO-3)

ASSUME TeacherConstants ==
  /\ Main \in Rank
  /\ Modes \subseteq {"fixed", "metric", "metric_ewma", "off"}
  /\ {MicroPerStep, MaxSteps, Window, ShortWindow, LongWindow, Consecutive, CheckInterval} \subseteq Nat \ {0}
  /\ {Warmup, Cooldown} \subseteq Nat /\ {RefreshStep, MaxRefreshes} \subseteq Int
  /\ Ema \in BOOLEAN /\ StudentStage3 \in BOOLEAN

VARIABLES
  mode,            \* args.sdpo_teacher_refresh_mode
  pc,              \* where each rank is
  teacher,         \* on each rank, what its part of a parameter of the teacher holds
  lastEma,         \* _sdpo_teacher_last_ema_step
  count,           \* _sdpo_teacher_refresh_count
  lastRefresh,     \* _sdpo_teacher_last_refresh_step
  history,         \* _sdpo_refresh_metric_history or _sdpo_refresh_ewma_history
  baseline,        \* _sdpo_refresh_baseline or _sdpo_refresh_ewma_baseline
  hits,            \* the steps of the _sdpo_refresh_consecutive_hits
  decision,        \* should_refresh
  valid,           \* the rank's micro-batch carries routing metrics
  micro, step      \* micro-batches trained, state.global_step

trackers == <<lastRefresh, count, history, baseline, hits>>
clock == <<micro, step>>
vars == <<mode, pc, teacher, lastEma, trackers, decision, valid, clock>>

PC == {"start", "fixed", "loss", "update", "allreduce", "check", "broadcast", "copy",
       "barrier", "backward", "done"}

(* Points where a rank waits for all the others.                            *)
Collectives == {"loss", "allreduce", "broadcast", "barrier", "backward"}

(* Under ZeRO-3 the student keeps only its small parameters whole           *)
(* (stage3_param_persistence_threshold); a large one is a partition.        *)
Param == {"small", "large"}

AllAt(p) == \A r \in Rank : pc[r] = p
Goto(r, p) == pc' = [pc EXCEPT ![r] = p]
AllGoto(p) == pc' = [r \in Rank |-> p]

NoBaseline == [step |-> -1, iou |-> 0, of |-> 1]

Init ==
  /\ mode \in Modes
  /\ pc = [r \in Rank |-> "start"]
  /\ teacher = [r \in Rank |-> [p \in Param |-> [copied |-> 0, blends |-> 0]]]
  /\ lastEma = [r \in Rank |-> -1]
  /\ count = [r \in Rank |-> 0]
  /\ lastRefresh = [r \in Rank |-> -1]
  /\ history = [r \in Rank |-> << >>]
  /\ baseline = [r \in Rank |-> NoBaseline]
  /\ hits = [r \in Rank |-> << >>]
  /\ decision = [r \in Rank |-> FALSE]
  /\ valid = [r \in Rank |-> FALSE]
  /\ micro = 0 /\ step = 0

-----------------------------------------------------------------------------
(* The parameters whose shape agrees between teacher and student.           *)
SameShape(p) == p = "small" \/ ~StudentStage3

(* max_refreshes: 0 is read as 1, a negative number as no limit.            *)
LimitReached(r) ==
  /\ MaxRefreshes >= 0
  /\ count[r] >= (IF MaxRefreshes = 0 THEN 1 ELSE MaxRefreshes)

(* With a bug: the cooldown is forgotten.                                   *)
CooldownIgnored(r) == FALSE

InCooldown(r) ==
  /\ Cooldown > 0 /\ lastRefresh[r] >= 0
  /\ step - lastRefresh[r] < Cooldown

(* With a bug: the EMA update runs in every micro-batch.                    *)
EmaEveryMicroBatch(r) == Ema /\ step > 0

EmaDue(r) == Ema /\ step > 0 /\ step # lastEma[r]

(* training_step begins with _ema_update_sdpo_teacher.                      *)
TrainingStep(r) ==
  /\ pc[r] = "start"
  /\ IF EmaDue(r)
       THEN /\ teacher' = [teacher EXCEPT ![r] = [p \in Param |->
                 IF SameShape(p) THEN [teacher[r][p] EXCEPT !.blends = @ + 1] ELSE teacher[r][p]]]
            /\ lastEma' = [lastEma EXCEPT ![r] = step]
       ELSE UNCHANGED <<teacher, lastEma>>
  /\ Goto(r, "fixed")
  /\ UNCHANGED <<mode, trackers, decision, valid, clock>>

(* _maybe_refresh_sdpo_teacher: RefreshStep 0 means "never", like -1.       *)
MaybeRefreshFixed(r) ==
  /\ pc[r] = "fixed"
  /\ Goto(r, IF mode = "fixed" /\ ~LimitReached(r) /\ RefreshStep > 0 /\ step >= RefreshStep
               THEN "copy" ELSE "loss")
  /\ UNCHANGED <<mode, teacher, lastEma, trackers, decision, valid, clock>>

(* The SDPO loss is gathered; a rank may find no routing metrics in its     *)
(* micro-batch.                                                             *)
SdpoLoss ==
  /\ AllAt("loss")
  /\ AllGoto("update")
  /\ valid' \in [Rank -> BOOLEAN]
  /\ UNCHANGED <<mode, teacher, lastEma, trackers, decision, clock>>

(* With a bug: a rank without routing metrics returns early.                *)
SkipsWhenInvalid(r) ==
  mode \in {"metric", "metric_ewma"} /\ ~LimitReached(r) /\ ~InCooldown(r) /\ valid[r]

(* _update_sdpo_refresh_metrics goes on to the all_reduce ...               *)
Monitors(r) == mode \in {"metric", "metric_ewma"} /\ ~LimitReached(r) /\ ~InCooldown(r)

UpdateMetrics(r) ==
  /\ pc[r] = "update"
  /\ Goto(r, IF Monitors(r) THEN "allreduce" ELSE "backward")
  /\ UNCHANGED <<mode, teacher, lastEma, trackers, decision, valid, clock>>

Record == [step : {step}, iou : 0 .. 1, ok : BOOLEAN]

HistoryLimit == IF mode = "metric_ewma" THEN LongWindow ELSE Window

(* deque(maxlen = HistoryLimit).append                                      *)
Remember(xs, x) ==
  IF Len(xs) < HistoryLimit THEN Append(xs, x) ELSE Append(Tail(xs), x)

(* ... which averages the metrics of the ranks that have them.              *)
AllReduce ==
  /\ AllAt("allreduce")
  /\ IF \E r \in Rank : valid[r]
       THEN /\ \E rec \in Record : history' = [r \in Rank |-> Remember(history[r], rec)]
            /\ AllGoto("check")
       ELSE AllGoto("backward") /\ UNCHANGED history
  /\ UNCHANGED <<mode, teacher, lastEma, count, lastRefresh, baseline, hits, decision, valid, clock>>

-----------------------------------------------------------------------------
Least(a, b) == IF a < b THEN a ELSE b
Greatest(a, b) == IF a > b THEN a ELSE b

SumIou(xs) ==
  LET sum[i \in 0 .. Len(xs)] == IF i = 0 THEN 0 ELSE sum[i - 1] + xs[i].iou
  IN  sum[Len(xs)]

Newest(xs, n) == SubSeq(xs, Len(xs) - n + 1, Len(xs))

(* The mean IoU of xs exceeds that of ys.  (The least gain is positive and  *)
(* smaller than the least difference of two means.)                         *)
Gains(xs, sum, n) == SumIou(xs) * n > sum * Len(xs)

(* Has the history enough records for a check?                              *)
Enough(r) ==
  Len(history[r]) >= IF mode = "metric_ewma" THEN Greatest(ShortWindow, LongWindow)
                     ELSE IF Warmup > 0 THEN Least(Window, Warmup) ELSE Window

(* Is this a step of a check?  (Mode metric_ewma has no warmup.)            *)
CheckStep == (mode = "metric" => step >= Warmup) /\ step % CheckInterval = 0

Judged(r) ==
  LET h == history[r]
      guards == h[Len(h)].ok
  IN  IF mode = "metric"
        THEN guards /\ Gains(h, baseline[r].iou, baseline[r].of)
        ELSE /\ guards /\ baseline[r] # NoBaseline
             /\ Gains(Newest(h, ShortWindow), SumIou(Newest(h, LongWindow)), LongWindow)

(* A baseline is taken at the first opportunity: in mode metric from the    *)
(* window, at any step; in mode metric_ewma from the EWMA, at a check.      *)
TakeBaseline(r) ==
  IF baseline[r] = NoBaseline
    THEN baseline' = [baseline EXCEPT ![r] =
           [step |-> step, iou |-> SumIou(history[r]), of |-> Len(history[r])]]
    ELSE UNCHANGED baseline

(* consecutive_hits += 1, or = 0                                            *)
NewHits(r) == IF Judged(r) THEN Append(hits[r], step) ELSE << >>

(* _maybe_refresh_sdpo_teacher_by_metrics and ..._by_ewma_metrics.          *)
Check(r) ==
  /\ pc[r] = "check"
  /\ IF Enough(r) /\ (mode = "metric" \/ CheckStep)
       THEN TakeBaseline(r) ELSE UNCHANGED baseline
  /\ IF Enough(r) /\ CheckStep
       THEN /\ hits' = IF mode = "metric_ewma" THEN [hits EXCEPT ![r] = NewHits(r)] ELSE hits
            /\ decision' = [decision EXCEPT ![r] =
                 IF mode = "metric_ewma" THEN Len(NewHits(r)) >= Consecutive
                 ELSE baseline[r] # NoBaseline /\ Judged(r)]
            /\ Goto(r, "broadcast")
       ELSE Goto(r, "backward") /\ UNCHANGED <<hits, decision>>
  /\ UNCHANGED <<mode, teacher, lastEma, count, lastRefresh, history, valid, clock>>

(* The decision of the main rank is the one all the ranks act on.           *)
Broadcast ==
  /\ AllAt("broadcast")
  /\ AllGoto(IF decision[Main] THEN "copy" ELSE "backward")
  /\ UNCHANGED <<mode, teacher, lastEma, trackers, decision, valid, clock>>

-----------------------------------------------------------------------------
(* With a bug: only the main rank copies, whatever the partitioning.        *)
CopiedOnMain(r, p) == SameShape(p) /\ r = Main

Copied(r, p) == SameShape(p)

(* _refresh_sdpo_teacher_from_student: every parameter of the same name and *)
(* shape is copied, the others are skipped ...                              *)
Copy(r) ==
  /\ pc[r] = "copy"
  /\ teacher' = [teacher EXCEPT ![r] = [p \in Param |->
       IF Copied(r, p) THEN [copied |-> step, blends |-> 0] ELSE teacher[r][p]]]
  /\ Goto(r, "barrier")
  /\ UNCHANGED <<mode, lastEma, trackers, decision, valid, clock>>

(* With a bug: the histories survive a refresh.                             *)
HistoriesKept == UNCHANGED <<history, baseline>>

HistoriesCleared ==
  /\ history' = [r \in Rank |-> << >>]
  /\ baseline' = [r \in Rank |-> NoBaseline]

(* ... the ranks wait for each other, and the trackers start afresh.        *)
Barrier ==
  /\ AllAt("barrier")
  /\ count' = [r \in Rank |-> count[r] + 1]
  /\ lastRefresh' = [r \in Rank |-> step]
  /\ HistoriesCleared
  /\ hits' = [r \in Rank |-> << >>]
  /\ AllGoto(IF mode = "fixed" THEN "loss" ELSE "backward")
  /\ UNCHANGED <<mode, teacher, lastEma, decision, valid, clock>>

(* The gradients are reduced; the last micro-batch updates the student.     *)
Backward ==
  /\ AllAt("backward")
  /\ micro' = (micro + 1) % MicroPerStep
  /\ step' = IF micro' = 0 THEN step + 1 ELSE step
  /\ AllGoto(IF step' = MaxSteps THEN "done" ELSE "start")
  /\ decision' = [r \in Rank |-> FALSE]
  /\ UNCHANGED <<mode, teacher, lastEma, trackers, valid>>

Terminated == AllAt("done") /\ UNCHANGED vars

-----------------------------------------------------------------------------
RankStep(r) == TrainingStep(r) \/ MaybeRefreshFixed(r) \/ UpdateMetrics(r) \/ Check(r) \/ Copy(r)

Collective == SdpoLoss \/ AllReduce \/ Broadcast \/ Barrier \/ Backward

Next == Collective \/ Terminated \/ \E r \in Rank : RankStep(r)

Spec == Init /\ [][Next]_vars

-----------------------------------------------------------------------------
TypeOK ==
  /\ mode \in Modes /\ pc \in [Rank -> PC]
  /\ teacher \in [Rank -> [Param -> [copied : 0 .. MaxSteps, blends : 0 .. MaxSteps]]]
  /\ lastEma \in [Rank -> Int] /\ count \in [Rank -> Nat] /\ lastRefresh \in [Rank -> Int]
  /\ history \in [Rank -> Seq([step : 0 .. MaxSteps, iou : 0 .. 1, ok : BOOLEAN])]
  /\ \A r \in Rank : Len(history[r]) <= HistoryLimit
  /\ \A r \in Rank : baseline[r].step \in -1 .. MaxSteps
  /\ hits \in [Rank -> Seq(0 .. MaxSteps)]
  /\ decision \in [Rank -> BOOLEAN] /\ valid \in [Rank -> BOOLEAN]
  /\ micro \in 0 .. MicroPerStep - 1 /\ step \in 0 .. MaxSteps

(* No two ranks wait for each other in different collectives: each takes    *)
(* the early returns of the refresh code exactly when the others do,        *)
(* although each decides from trackers of its own and its own micro-batch.  *)
CollectivesMatch ==
  \A r, s \in Rank : pc[r] \in Collectives /\ pc[s] \in Collectives => pc[r] = pc[s]

(* The teacher is one model: once all the ranks are past a refresh or an    *)
(* EMA update, they hold parts of the same weights.                         *)
TeachersAgree == AllAt("backward") => \A r, s \in Rank : teacher[r] = teacher[s]

(* After a refresh the monitoring starts afresh: no check averages a record *)
(* of a student older than the last refresh, or of its cooldown, and the    *)
(* baseline it compares with is not older either.                           *)
FreshWindow ==
  \A r \in Rank : lastRefresh[r] >= 0 =>
    /\ \A i \in DOMAIN history[r] : history[r][i].step >= lastRefresh[r] + Cooldown
    /\ baseline[r] # NoBaseline => baseline[r].step >= lastRefresh[r] + Cooldown

RefreshesInBounds ==
  \A r \in Rank : count'[r] # count[r] =>
    /\ mode # "fixed" /\ lastRefresh[r] >= 0 => lastRefresh'[r] - lastRefresh[r] >= Cooldown
    /\ MaxRefreshes >= 0 => count'[r] <= Greatest(1, MaxRefreshes)

(* A refresh the metrics asked for comes at least Cooldown steps after the  *)
(* one before, and the limit holds in every mode (0 means 1).               *)
RefreshRate == [][RefreshesInBounds]_vars

(* With an EMA, the teacher is the student of its last refresh (or the      *)
(* initial teacher) blended with the student exactly once per optimizer     *)
(* step since, however many micro-batches a step has.                       *)
OneBlendPerStep ==
  Ema /\ AllAt("backward") => \A r \in Rank, p \in Param : SameShape(p) =>
    teacher[r][p].blends = step - teacher[r][p].copied

(* "One-shot SDPO teacher refresh from the current student parameters": when *)
(* the trainer counts a refresh, the whole teacher is the student of then.  *)
RefreshCopiesStudent ==
  \A r \in Rank : lastRefresh[r] >= 0 /\ pc[r] # "barrier" =>
    \A p \in Param : teacher[r][p].copied = lastRefresh[r]

(* "consecutive_checks": at least that many checks, CheckInterval steps     *)
(* apart from each other, agree before the EWMA mode refreshes the teacher. *)
ChecksApart ==
  \A r \in Rank, i, j \in 1 .. Consecutive :
    i < j /\ j <= Len(hits[r]) => hits[r][j] - hits[r][i] >= CheckInterval
=============================================================================
