------------------------ MODULE TeacherRefreshProofs ------------------------
(***************************************************************************)
(* Proofs about TeacherRefresh, for any number of ranks and any setting of *)
(* the refresh.  The ranks share no variable, so what keeps them together  *)
(* has to be said: their counters and histories are equal (Lockstep), and  *)
(* between two collectives they all have the same one ahead (Stage).       *)
(***************************************************************************)
EXTENDS TeacherRefresh, TLAPS

(* What _maybe_refresh_sdpo_teacher, and a check, decide.                   *)
FixedDue(r) == mode = "fixed" /\ ~LimitReached(r) /\ RefreshStep > 0 /\ step >= RefreshStep
Checks(r) == Enough(r) /\ CheckStep

Lockstep ==
  \A r, s \in Rank :
    count[r] = count[s] /\ lastRefresh[r] = lastRefresh[s] /\ history[r] = history[s]

BeforeFixedCopy == \A r \in Rank : pc[r] \in {"start", "fixed", "copy", "barrier"} /\ FixedDue(r)
BeforeLoss      == \A r \in Rank : pc[r] \in {"start", "fixed", "loss"} /\ ~FixedDue(r)
AtLoss          == AllAt("loss")
BeforeAllReduce == \A r \in Rank : pc[r] \in {"update", "allreduce"} /\ Monitors(r)
NotMonitoring   == \A r \in Rank : pc[r] \in {"update", "backward"} /\ ~Monitors(r)
BeforeBroadcast == \A r \in Rank : pc[r] \in {"check", "broadcast"} /\ Monitors(r) /\ Checks(r)
NotChecking     == \A r \in Rank : pc[r] \in {"check", "backward"} /\ Monitors(r) /\ ~Checks(r)
BeforeCopy      == \A r \in Rank : pc[r] \in {"copy", "barrier"} /\ Monitors(r)
AtBackward      == AllAt("backward")
AtEnd           == AllAt("done")

Stage ==
  \/ BeforeFixedCopy \/ BeforeLoss \/ AtLoss \/ BeforeAllReduce \/ NotMonitoring
  \/ BeforeBroadcast \/ NotChecking \/ BeforeCopy \/ AtBackward \/ AtEnd

(* No tracker is ahead of the clock, and the EMA update of a step is done   *)
(* once a rank has left "start".                                            *)
Clocked ==
  \A r \in Rank :
    /\ lastEma[r] <= step /\ lastRefresh[r] <= step
    /\ pc[r] # "done" => step < MaxSteps
    /\ pc[r] \notin {"start", "done"} => ~EmaDue(r)

CopiedAt(r) ==
  IF pc[r] = "barrier" THEN step ELSE IF lastRefresh[r] >= 0 THEN lastRefresh[r] ELSE 0

BlendsAt(r) ==
  IF ~Ema THEN 0 ELSE IF EmaDue(r) THEN step - CopiedAt(r) - 1 ELSE step - CopiedAt(r)

Weights ==
  \A r \in Rank, p \in Param :
    IF SameShape(p)
      THEN teacher[r][p].copied = CopiedAt(r) /\ teacher[r][p].blends = BlendsAt(r)
      ELSE teacher[r][p].copied = 0 /\ teacher[r][p].blends = 0

IInv ==
  /\ TypeOK
  /\ baseline = [r \in Rank |-> baseline[r]]
  /\ Lockstep
  /\ Stage
  /\ Clocked
  /\ FreshWindow
  /\ Weights

Records == [step : 0 .. MaxSteps, iou : 0 .. 1, ok : BOOLEAN]

-----------------------------------------------------------------------------
(* Ranks with equal counters and histories decide alike.                    *)
LEMMA DecideAlike ==
  ASSUME Lockstep, NEW r \in Rank, NEW s \in Rank
  PROVE  /\ FixedDue(r) <=> FixedDue(s)
         /\ Monitors(r) <=> Monitors(s)
         /\ Checks(r) <=> Checks(s)
<1>1. count[r] = count[s] /\ lastRefresh[r] = lastRefresh[s] /\ history[r] = history[s]
  BY DEF Lockstep
<1>2. LimitReached(r) <=> LimitReached(s)
  BY <1>1 DEF LimitReached
<1>3. InCooldown(r) <=> InCooldown(s)
  BY <1>1 DEF InCooldown
<1>4. Enough(r) <=> Enough(s)
  BY <1>1 DEF Enough
<1> QED
  BY <1>2, <1>3, <1>4 DEF FixedDue, Monitors, Checks

(* The assumption on the constants, one by one.                             *)
LEMMA ConstantTypes ==
  /\ Main \in Rank
  /\ MicroPerStep \in Nat \ {0} /\ MaxSteps \in Nat \ {0} /\ Consecutive \in Nat \ {0}
  /\ Window \in Nat \ {0} /\ LongWindow \in Nat \ {0}
  /\ Cooldown \in Nat /\ MaxRefreshes \in Int /\ RefreshStep \in Int
  /\ Modes \subseteq {"fixed", "metric", "metric_ewma", "off"}
BY TeacherConstants

(* A rank that monitors is past the cooldown of the last refresh.           *)
LEMMA PastCooldown ==
  ASSUME TypeOK, Clocked, NEW r \in Rank, Monitors(r), lastRefresh[r] >= 0
  PROVE  step >= lastRefresh[r] + Cooldown
<1>1. lastRefresh[r] \in Int /\ step \in Int /\ Cooldown \in Nat
  BY TeacherConstants DEF TypeOK
<1>2. lastRefresh[r] <= step
  BY DEF Clocked
<1> QED
  BY <1>1, <1>2 DEF Monitors, InCooldown

(* The history is a deque of at most HistoryLimit records.                  *)
LEMMA RememberType ==
  ASSUME NEW xs \in Seq(Records), NEW x \in Records, Len(xs) <= HistoryLimit, mode \in Modes
  PROVE  /\ Remember(xs, x) \in Seq(Records)
         /\ Len(Remember(xs, x)) <= HistoryLimit
         /\ \A i \in DOMAIN Remember(xs, x) :
              Remember(xs, x)[i] = x \/ \E j \in DOMAIN xs : Remember(xs, x)[i] = xs[j]
<1>1. HistoryLimit \in Nat \ {0}
  BY TeacherConstants DEF HistoryLimit
<1>2. CASE Len(xs) < HistoryLimit
  BY <1>1, <1>2 DEF Remember
<1>3. CASE ~(Len(xs) < HistoryLimit)
  <2>1. xs # << >> /\ Len(xs) = HistoryLimit
    BY <1>1, <1>3
  <2>2. Tail(xs) \in Seq(Records) /\ Len(Tail(xs)) = Len(xs) - 1
    BY <2>1
  <2>3. \A i \in 1 .. Len(Tail(xs)) : Tail(xs)[i] = xs[i + 1]
    BY <2>1, <2>2
  <2> QED
    BY <1>1, <1>3, <2>1, <2>2, <2>3 DEF Remember
<1> QED
  BY <1>2, <1>3

-----------------------------------------------------------------------------
LEMMA InitInv == Init => IInv
<1> SUFFICES ASSUME Init PROVE IInv
  OBVIOUS
<1> USE TeacherConstants DEF Init
<1>1. TypeOK
  <2>1. \A r \in Rank : history[r] = << >> /\ Len(history[r]) = 0 /\ 0 <= HistoryLimit
    BY DEF HistoryLimit
  <2>2. history \in [Rank -> Seq([step : 0 .. MaxSteps, iou : 0 .. 1, ok : BOOLEAN])]
    OBVIOUS
  <2>3. \A r \in Rank : baseline[r].step \in -1 .. MaxSteps
    BY DEF NoBaseline
  <2>4. teacher \in [Rank -> [Param -> [copied : 0 .. MaxSteps, blends : 0 .. MaxSteps]]]
    OBVIOUS
  <2> QED
    BY <2>1, <2>2, <2>3, <2>4 DEF TypeOK, PC
<1>2. baseline = [r \in Rank |-> baseline[r]]
  OBVIOUS
<1>3. Lockstep
  BY DEF Lockstep
<1>4. Stage
  BY DEF Stage, BeforeLoss, FixedDue
<1>5. Clocked
  BY DEF Clocked
<1>6. FreshWindow
  BY DEF FreshWindow
<1>7. Weights
  BY DEF Weights, CopiedAt, BlendsAt, EmaDue
<1> QED
  BY <1>1, <1>2, <1>3, <1>4, <1>5, <1>6, <1>7 DEF IInv

-----------------------------------------------------------------------------
(* What the decisions depend on.                                            *)
LEMMA SameDecisions ==
  ASSUME UNCHANGED <<mode, count, lastRefresh, step>>, NEW r \in Rank
  PROVE  /\ FixedDue(r)' <=> FixedDue(r)
         /\ Monitors(r)' <=> Monitors(r)
         /\ history' = history => (Checks(r)' <=> Checks(r))
         /\ HistoryLimit' = HistoryLimit
BY DEF FixedDue, Monitors, Checks, LimitReached, InCooldown, Enough, CheckStep, HistoryLimit

(* Ranks that move between points past "start" other than "barrier", while  *)
(* the teacher, the last refresh and the clock stay.                        *)
Midway == PC \ {"start", "barrier", "done"}

LEMMA SameWeights ==
  ASSUME IInv, pc' \in [Rank -> PC],
         \A s \in Rank : pc'[s] = pc[s] \/ (pc[s] \in Midway /\ pc'[s] \in Midway),
         UNCHANGED <<teacher, lastEma, lastRefresh, step>>
  PROVE  Clocked' /\ Weights'
<1> USE DEF IInv
<1>1. \A s \in Rank : EmaDue(s)' <=> EmaDue(s)
  BY DEF EmaDue
<1>2. Clocked'
  BY <1>1 DEF Clocked, Midway
<1>3. \A s \in Rank : CopiedAt(s)' = CopiedAt(s)
  BY DEF CopiedAt, Midway
<1>4. Weights'
  BY <1>1, <1>3 DEF Weights, BlendsAt, SameShape
<1> QED
  BY <1>2, <1>4

LEMMA TrainingStepInv ==
  ASSUME IInv, NEW r \in Rank, TrainingStep(r)
  PROVE  IInv'
<1> USE ConstantTypes DEF IInv
<1>0. TypeOK /\ pc[r] = "start" /\ pc' = [pc EXCEPT ![r] = "fixed"]
  BY DEF TrainingStep, Goto
<1>1. UNCHANGED <<mode, count, lastRefresh, history, baseline, hits, decision, valid, micro, step>>
  BY DEF TrainingStep, trackers, clock
<1>2. \A s \in Rank : CopiedAt(s)' = CopiedAt(s)
  BY <1>0, <1>1 DEF CopiedAt, TypeOK
<1>3. ~EmaDue(r)'
  BY <1>0, <1>1 DEF EmaDue, TrainingStep, TypeOK
<1>4. \A s \in Rank : s # r => (EmaDue(s)' <=> EmaDue(s))
  BY <1>0, <1>1 DEF EmaDue, TrainingStep, TypeOK
<1>5. \A p \in Param : CopiedAt(r) \in Int /\ teacher[r][p] \in [copied : 0 .. MaxSteps, blends : 0 .. MaxSteps]
  BY <1>0 DEF CopiedAt, TypeOK
<1>e. EmaDue(r) => Ema
  BY DEF EmaDue
<1>t. teacher' = IF EmaDue(r)
                   THEN [teacher EXCEPT ![r] = [p \in Param |->
                          IF SameShape(p) THEN [teacher[r][p] EXCEPT !.blends = @ + 1] ELSE teacher[r][p]]]
                   ELSE teacher
  <2>1. CASE EmaDue(r)
    BY <2>1 DEF TrainingStep
  <2>2. CASE ~EmaDue(r)
    BY <2>2 DEF TrainingStep
  <2> QED
    BY <2>1, <2>2
<1>l. lastEma' = IF EmaDue(r) THEN [lastEma EXCEPT ![r] = step] ELSE lastEma
  <2>1. CASE EmaDue(r)
    BY <2>1 DEF TrainingStep
  <2>2. CASE ~EmaDue(r)
    BY <2>2 DEF TrainingStep
  <2> QED
    BY <2>1, <2>2
<1>6. teacher' \in [Rank -> [Param -> [copied : 0 .. MaxSteps, blends : 0 .. MaxSteps]]]
  <2>1. CASE ~EmaDue(r)
    BY <2>1, <1>0, <1>t DEF TypeOK
  <2>2. CASE EmaDue(r)
    <3>1. \A p \in Param : SameShape(p) => teacher[r][p].blends + 1 \in 0 .. MaxSteps
      <4> SUFFICES ASSUME NEW p \in Param, SameShape(p) PROVE teacher[r][p].blends + 1 \in 0 .. MaxSteps
        OBVIOUS
      <4>1. teacher[r][p].copied = CopiedAt(r) /\ teacher[r][p].blends = step - CopiedAt(r) - 1
        BY <2>2, <1>e DEF Weights, BlendsAt
      <4>2. /\ teacher[r][p].copied \in 0 .. MaxSteps /\ teacher[r][p].blends \in 0 .. MaxSteps
            /\ step \in 0 .. MaxSteps
        BY <1>5, <1>0 DEF TypeOK
      <4> QED
        BY <4>1, <4>2
    <3>2. [p \in Param |-> IF SameShape(p) THEN [teacher[r][p] EXCEPT !.blends = @ + 1] ELSE teacher[r][p]]
            \in [Param -> [copied : 0 .. MaxSteps, blends : 0 .. MaxSteps]]
      BY <3>1, <1>5
    <3> QED
      BY <2>2, <3>2, <1>0, <1>t DEF TypeOK
  <2> QED
    BY <2>1, <2>2
<1>7. TypeOK'
  <2>1. pc' \in [Rank -> PC]
    BY <1>0 DEF TypeOK, PC
  <2>2. lastEma' \in [Rank -> Int]
    <3>1. lastEma \in [Rank -> Int] /\ step \in Int
      BY <1>0 DEF TypeOK
    <3>2. [lastEma EXCEPT ![r] = step] \in [Rank -> Int]
      BY <3>1
    <3> QED
      BY <1>l, <3>1, <3>2
  <2>3. HistoryLimit' = HistoryLimit
    BY <1>1 DEF HistoryLimit
  <2> QED
    BY <1>0, <1>1, <1>6, <2>1, <2>2, <2>3 DEF TypeOK
<1>8. Lockstep'
  BY <1>1 DEF Lockstep
<1>9. Stage'
  <2>1. BeforeFixedCopy \/ BeforeLoss
    BY <1>0 DEF Stage, BeforeFixedCopy, BeforeLoss, AtLoss, BeforeAllReduce, NotMonitoring,
      BeforeBroadcast, NotChecking, BeforeCopy, AtBackward, AtEnd, AllAt
  <2>2. \A s \in Rank : FixedDue(s)' <=> FixedDue(s)
    BY <1>1, SameDecisions
  <2>3. CASE BeforeFixedCopy
    BY <2>2, <2>3, <1>0 DEF BeforeFixedCopy, Stage, TypeOK
  <2>4. CASE BeforeLoss
    BY <2>2, <2>4, <1>0 DEF BeforeLoss, Stage, TypeOK
  <2> QED
    BY <2>1, <2>3, <2>4
<1>10. Clocked'
  <2> SUFFICES ASSUME NEW s \in Rank
               PROVE  /\ lastEma'[s] <= step /\ lastRefresh[s] <= step
                      /\ pc'[s] # "done" => step < MaxSteps
                      /\ pc'[s] \notin {"start", "done"} => ~EmaDue(s)'
    BY <1>1 DEF Clocked
  <2>1. (lastRefresh[s] <= step /\ step < MaxSteps) \/ s # r
    BY <1>0 DEF Clocked
  <2>2. CASE s = r
    BY <2>1, <2>2, <1>0, <1>3, <1>l DEF Clocked, TypeOK
  <2>3. CASE s # r
    BY <2>3, <1>0, <1>4, <1>l DEF Clocked, TypeOK
  <2> QED
    BY <2>2, <2>3
<1>11. FreshWindow'
  BY <1>1 DEF FreshWindow
<1>12. Weights'
  <2> SUFFICES ASSUME NEW s \in Rank, NEW p \in Param
               PROVE  IF SameShape(p)
                        THEN teacher'[s][p].copied = CopiedAt(s)' /\ teacher'[s][p].blends = BlendsAt(s)'
                        ELSE teacher'[s][p].copied = 0 /\ teacher'[s][p].blends = 0
    BY DEF Weights, SameShape
  <2>1. CASE s # r \/ ~EmaDue(r)
    <3>1. teacher'[s][p] = teacher[s][p]
      BY <2>1, <1>0, <1>t DEF TypeOK
    <3>2. EmaDue(s)' <=> EmaDue(s)
      BY <2>1, <1>3, <1>4
    <3> QED
      BY <3>1, <3>2, <1>1, <1>2 DEF Weights, BlendsAt
  <2>2. CASE s = r /\ EmaDue(r)
    <3>1. teacher'[r][p] = IF SameShape(p) THEN [teacher[r][p] EXCEPT !.blends = @ + 1] ELSE teacher[r][p]
      BY <2>2, <1>0, <1>t DEF TypeOK
    <3>2. CASE SameShape(p)
      <4>1. teacher'[r][p].copied = teacher[r][p].copied /\ teacher'[r][p].blends = teacher[r][p].blends + 1
        BY <3>1, <3>2, <1>5
      <4>2. teacher[r][p].copied = CopiedAt(r) /\ teacher[r][p].blends = step - CopiedAt(r) - 1
        BY <2>2, <3>2, <1>e DEF Weights, BlendsAt
      <4>3. BlendsAt(r)' = step - CopiedAt(r)
        BY <2>2, <1>1, <1>2, <1>3, <1>e DEF BlendsAt
      <4>4. CopiedAt(r) \in Int /\ step \in Int
        BY <1>5, <1>0 DEF TypeOK
      <4> QED
        BY <4>1, <4>2, <4>3, <4>4, <1>2, <2>2, <3>2
    <3>3. CASE ~SameShape(p)
      BY <3>1, <3>3, <2>2 DEF Weights
    <3> QED
      BY <3>2, <3>3
  <2> QED
    BY <2>1, <2>2
<1>13. baseline' = [s \in Rank |-> baseline'[s]]
  BY <1>1
<1> QED
  BY <1>7, <1>8, <1>9, <1>10, <1>11, <1>12, <1>13

LEMMA MaybeRefreshFixedInv ==
  ASSUME IInv, NEW r \in Rank, MaybeRefreshFixed(r)
  PROVE  IInv'
<1> USE DEF IInv
<1>1. UNCHANGED <<mode, teacher, lastEma, count, lastRefresh, history, baseline, hits, decision, valid, micro, step>>
  BY DEF MaybeRefreshFixed, trackers, clock
<1>2. pc[r] = "fixed" /\ pc' = [pc EXCEPT ![r] = IF FixedDue(r) THEN "copy" ELSE "loss"]
  BY DEF MaybeRefreshFixed, Goto, FixedDue
<1>3. TypeOK
  OBVIOUS
<1>4. pc' \in [Rank -> PC]
  BY <1>2, <1>3 DEF TypeOK, PC
<1>5. \A s \in Rank : FixedDue(s)' <=> FixedDue(s)
  BY <1>1, SameDecisions
<1>6. TypeOK'
  BY <1>1, <1>3, <1>4, SameDecisions DEF TypeOK, HistoryLimit
<1>7. Clocked' /\ Weights'
  BY <1>1, <1>2, <1>3, <1>4, SameWeights DEF Midway, PC, TypeOK
<1>8. Stage'
  <2>1. BeforeFixedCopy \/ BeforeLoss
    BY <1>2 DEF Stage, BeforeFixedCopy, BeforeLoss, AtLoss, BeforeAllReduce, NotMonitoring,
      BeforeBroadcast, NotChecking, BeforeCopy, AtBackward, AtEnd, AllAt
  <2>2. CASE BeforeFixedCopy
    BY <2>2, <1>2, <1>3, <1>5 DEF BeforeFixedCopy, Stage, TypeOK
  <2>3. CASE BeforeLoss
    BY <2>3, <1>2, <1>3, <1>5 DEF BeforeLoss, Stage, TypeOK
  <2> QED
    BY <2>1, <2>2, <2>3
<1>9. Lockstep' /\ FreshWindow' /\ baseline' = [s \in Rank |-> baseline'[s]]
  BY <1>1 DEF Lockstep, FreshWindow
<1> QED
  BY <1>6, <1>7, <1>8, <1>9

LEMMA SdpoLossInv ==
  ASSUME IInv, SdpoLoss
  PROVE  IInv'
<1> USE DEF IInv
<1>1. UNCHANGED <<mode, teacher, lastEma, count, lastRefresh, history, baseline, hits, decision, micro, step>>
  BY DEF SdpoLoss, trackers, clock
<1>2. AllAt("loss") /\ pc' = [s \in Rank |-> "update"] /\ valid' \in [Rank -> BOOLEAN]
  BY DEF SdpoLoss, AllGoto
<1>3. pc' \in [Rank -> PC]
  BY <1>2 DEF PC
<1>4. TypeOK'
  BY <1>1, <1>2, <1>3, SameDecisions DEF TypeOK, HistoryLimit
<1>5. Clocked' /\ Weights'
  BY <1>1, <1>2, <1>3, SameWeights DEF Midway, PC, AllAt
<1>6. Stage'
  <2>1. \A s \in Rank : Monitors(s)' <=> Monitors(Main)
    BY <1>1, DecideAlike, SameDecisions, ConstantTypes
  <2>2. CASE Monitors(Main)
    BY <2>1, <2>2, <1>2 DEF Stage, BeforeAllReduce
  <2>3. CASE ~Monitors(Main)
    BY <2>1, <2>3, <1>2 DEF Stage, NotMonitoring
  <2> QED
    BY <2>2, <2>3
<1>7. Lockstep' /\ FreshWindow' /\ baseline' = [s \in Rank |-> baseline'[s]]
  BY <1>1 DEF Lockstep, FreshWindow
<1> QED
  BY <1>4, <1>5, <1>6, <1>7

LEMMA UpdateMetricsInv ==
  ASSUME IInv, NEW r \in Rank, UpdateMetrics(r)
  PROVE  IInv'
<1> USE DEF IInv
<1>1. UNCHANGED <<mode, teacher, lastEma, count, lastRefresh, history, baseline, hits, decision, valid, micro, step>>
  BY DEF UpdateMetrics, trackers, clock
<1>2. pc[r] = "update" /\ pc' = [pc EXCEPT ![r] = IF Monitors(r) THEN "allreduce" ELSE "backward"]
  BY DEF UpdateMetrics, Goto
<1>3. TypeOK
  OBVIOUS
<1>4. pc' \in [Rank -> PC]
  BY <1>2, <1>3 DEF TypeOK, PC
<1>5. \A s \in Rank : Monitors(s)' <=> Monitors(s)
  BY <1>1, SameDecisions
<1>6. TypeOK'
  BY <1>1, <1>3, <1>4, SameDecisions DEF TypeOK, HistoryLimit
<1>7. Clocked' /\ Weights'
  BY <1>1, <1>2, <1>3, <1>4, SameWeights DEF Midway, PC, TypeOK
<1>8. Stage'
  <2>1. BeforeAllReduce \/ NotMonitoring
    BY <1>2 DEF Stage, BeforeFixedCopy, BeforeLoss, AtLoss, BeforeAllReduce, NotMonitoring,
      BeforeBroadcast, NotChecking, BeforeCopy, AtBackward, AtEnd, AllAt
  <2>2. CASE BeforeAllReduce
    BY <2>2, <1>2, <1>3, <1>5 DEF BeforeAllReduce, Stage, TypeOK
  <2>3. CASE NotMonitoring
    BY <2>3, <1>2, <1>3, <1>5 DEF NotMonitoring, Stage, TypeOK
  <2> QED
    BY <2>1, <2>2, <2>3
<1>9. Lockstep' /\ FreshWindow' /\ baseline' = [s \in Rank |-> baseline'[s]]
  BY <1>1 DEF Lockstep, FreshWindow
<1> QED
  BY <1>6, <1>7, <1>8, <1>9

LEMMA AllReduceInv ==
  ASSUME IInv, AllReduce
  PROVE  IInv'
<1> USE ConstantTypes DEF IInv
<1>1. UNCHANGED <<mode, teacher, lastEma, count, lastRefresh, baseline, hits, decision, valid, micro, step>>
  BY DEF AllReduce, clock
<1>2. AllAt("allreduce") /\ TypeOK
  BY DEF AllReduce
<1>3. baseline' = [s \in Rank |-> baseline'[s]]
  BY <1>1
<1>4. \A s \in Rank : Monitors(s)' /\ Monitors(s)
  <2>1. BeforeAllReduce
    BY <1>2 DEF Stage, BeforeFixedCopy, BeforeLoss, AtLoss, BeforeAllReduce, NotMonitoring,
      BeforeBroadcast, NotChecking, BeforeCopy, AtBackward, AtEnd, AllAt
  <2> QED
    BY <2>1, <1>1, SameDecisions DEF BeforeAllReduce
<1>5. CASE AllGoto("backward") /\ UNCHANGED history
  <2>1. pc' = [s \in Rank |-> "backward"] /\ pc' \in [Rank -> PC]
    BY <1>5 DEF AllGoto, PC
  <2>2. TypeOK'
    BY <1>1, <1>2, <1>5, <2>1, SameDecisions DEF TypeOK, HistoryLimit
  <2>3. Clocked' /\ Weights'
    BY <1>1, <1>2, <2>1, SameWeights DEF Midway, PC, AllAt
  <2>4. Stage'
    BY <2>1 DEF Stage, AtBackward, AllAt
  <2>5. Lockstep' /\ FreshWindow'
    BY <1>1, <1>5 DEF Lockstep, FreshWindow
  <2> QED
    BY <1>3, <2>2, <2>3, <2>4, <2>5
<1>6. CASE AllGoto("check") /\ \E rec \in Record : history' = [s \in Rank |-> Remember(history[s], rec)]
  <2>0. PICK rec \in Record : history' = [s \in Rank |-> Remember(history[s], rec)]
    BY <1>6
  <2>1. pc' = [s \in Rank |-> "check"] /\ pc' \in [Rank -> PC]
    BY <1>6 DEF AllGoto, PC
  <2>2. rec \in Records /\ rec.step = step /\ mode \in Modes
    BY <1>2 DEF Record, Records, TypeOK
  <2>3. \A s \in Rank : history[s] \in Seq(Records) /\ Len(history[s]) <= HistoryLimit
    BY <1>2 DEF TypeOK, Records
  <2>4. \A s \in Rank :
          /\ history'[s] \in Seq(Records) /\ Len(history'[s]) <= HistoryLimit
          /\ \A i \in DOMAIN history'[s] :
               history'[s][i] = rec \/ \E j \in DOMAIN history[s] : history'[s][i] = history[s][j]
    BY <2>0, <2>2, <2>3, RememberType
  <2>5. history' \in [Rank -> Seq([step : 0 .. MaxSteps, iou : 0 .. 1, ok : BOOLEAN])]
    BY <2>0, <2>4 DEF Records
  <2>6. TypeOK'
    BY <1>1, <1>2, <2>1, <2>4, <2>5, SameDecisions DEF TypeOK, HistoryLimit
  <2>7. Clocked' /\ Weights'
    BY <1>1, <1>2, <2>1, SameWeights DEF Midway, PC, AllAt
  <2>8. Lockstep'
    BY <1>1, <2>0 DEF Lockstep
  <2>9. Stage'
    <3>1. \A s \in Rank : Checks(s)' <=> Checks(Main)'
      BY <2>8 DEF Lockstep, Checks, Enough
    <3>2. CASE Checks(Main)'
      BY <3>1, <3>2, <2>1, <1>4 DEF Stage, BeforeBroadcast
    <3>3. CASE ~Checks(Main)'
      BY <3>1, <3>3, <2>1, <1>4 DEF Stage, NotChecking
    <3> QED
      BY <3>2, <3>3
  <2>10. FreshWindow'
    <3> SUFFICES ASSUME NEW s \in Rank, lastRefresh[s] >= 0
                 PROVE  /\ \A i \in DOMAIN history'[s] : history'[s][i].step >= lastRefresh[s] + Cooldown
                        /\ baseline[s] # NoBaseline => baseline[s].step >= lastRefresh[s] + Cooldown
      BY <1>1 DEF FreshWindow
    <3>1. step >= lastRefresh[s] + Cooldown
      BY <1>2, <1>4, PastCooldown
    <3> QED
      BY <3>1, <2>2, <2>4 DEF FreshWindow
  <2> QED
    BY <1>3, <2>6, <2>7, <2>8, <2>9, <2>10
<1> QED
  BY <1>5, <1>6 DEF AllReduce

LEMMA CheckInv ==
  ASSUME IInv, NEW r \in Rank, Check(r)
  PROVE  IInv'
<1> USE ConstantTypes DEF IInv
<1>1. UNCHANGED <<mode, teacher, lastEma, count, lastRefresh, history, valid, micro, step>>
  BY DEF Check, clock
<1>2. TypeOK /\ pc[r] = "check" /\ step \in 0 .. MaxSteps /\ MaxSteps \in Nat
  BY DEF Check, TypeOK
<1>3. pc' = [pc EXCEPT ![r] = IF Checks(r) THEN "broadcast" ELSE "backward"]
  BY DEF Check, Goto, Checks
<1>4. pc' \in [Rank -> PC]
  BY <1>2, <1>3 DEF TypeOK, PC
<1>5. hits' \in [Rank -> Seq(0 .. MaxSteps)]
  <2>1. NewHits(r) \in Seq(0 .. MaxSteps)
    <3>1. hits[r] \in Seq(0 .. MaxSteps)
      BY <1>2 DEF TypeOK
    <3>2. Append(hits[r], step) \in Seq(0 .. MaxSteps) /\ << >> \in Seq(0 .. MaxSteps)
      BY <3>1, <1>2
    <3> QED
      BY <3>2 DEF NewHits
  <2>2. hits' = hits \/ hits' = [hits EXCEPT ![r] = NewHits(r)]
    BY DEF Check
  <2> QED
    BY <1>2, <2>1, <2>2 DEF TypeOK
<1>6. decision' \in [Rank -> BOOLEAN]
  <2> DEFINE fires == IF mode = "metric_ewma" THEN Len(NewHits(r)) >= Consecutive
                      ELSE baseline[r] # NoBaseline /\ Judged(r)
  <2>1. decision' = decision \/ decision' = [decision EXCEPT ![r] = fires]
    BY DEF Check
  <2>2. fires \in BOOLEAN
    <3>1. (Len(NewHits(r)) >= Consecutive) \in BOOLEAN
      OBVIOUS
    <3>2. (baseline[r] # NoBaseline /\ Judged(r)) \in BOOLEAN
      OBVIOUS
    <3>3. CASE mode = "metric_ewma"
      BY <3>1, <3>3
    <3>4. CASE mode # "metric_ewma"
      BY <3>2, <3>4
    <3> QED
      BY <3>3, <3>4
  <2> HIDE DEF fires
  <2> QED
    BY <1>2, <2>1, <2>2 DEF TypeOK
<1>7. /\ baseline' = [s \in Rank |-> baseline'[s]]
      /\ \A s \in Rank : baseline'[s] = baseline[s] \/ baseline'[s].step = step
  <2>1. \/ baseline' = baseline
        \/ baseline' = [baseline EXCEPT ![r] = [step |-> step, iou |-> SumIou(history[r]), of |-> Len(history[r])]]
    BY DEF Check, TakeBaseline
  <2> QED
    BY <2>1
<1>8. TypeOK'
  <2>1. \A s \in Rank : baseline'[s].step \in -1 .. MaxSteps
    <3> SUFFICES ASSUME NEW s \in Rank PROVE baseline'[s].step \in -1 .. MaxSteps
      OBVIOUS
    <3>1. baseline[s].step \in -1 .. MaxSteps
      BY <1>2 DEF TypeOK
    <3>2. CASE baseline'[s] = baseline[s]
      BY <3>1, <3>2
    <3>3. CASE baseline'[s].step = step
      BY <3>3, <1>2
    <3> QED
      BY <1>7, <3>2, <3>3
  <2>2. HistoryLimit' = HistoryLimit
    BY <1>1, SameDecisions
  <2> QED
    BY <1>1, <1>2, <1>4, <1>5, <1>6, <2>1, <2>2 DEF TypeOK
<1>9. Clocked' /\ Weights'
  BY <1>1, <1>2, <1>3, <1>4, SameWeights DEF Midway, PC, TypeOK
<1>10. BeforeBroadcast \/ NotChecking
  BY <1>2 DEF Stage, BeforeFixedCopy, BeforeLoss, AtLoss, BeforeAllReduce, NotMonitoring,
    BeforeBroadcast, NotChecking, BeforeCopy, AtBackward, AtEnd, AllAt
<1>11. \A s \in Rank : (Monitors(s)' <=> Monitors(s)) /\ (Checks(s)' <=> Checks(s))
  BY <1>1, SameDecisions
<1>12. Stage'
  <2>1. CASE BeforeBroadcast
    BY <2>1, <1>2, <1>3, <1>11 DEF BeforeBroadcast, Stage, TypeOK
  <2>2. CASE NotChecking
    BY <2>2, <1>2, <1>3, <1>11 DEF NotChecking, Stage, TypeOK
  <2> QED
    BY <2>1, <2>2, <1>10
<1>13. Lockstep'
  BY <1>1 DEF Lockstep
<1>14. FreshWindow'
  <2> SUFFICES ASSUME NEW s \in Rank, lastRefresh[s] >= 0
               PROVE  /\ \A i \in DOMAIN history[s] : history[s][i].step >= lastRefresh[s] + Cooldown
                      /\ baseline'[s] # NoBaseline => baseline'[s].step >= lastRefresh[s] + Cooldown
    BY <1>1 DEF FreshWindow
  <2>1. step >= lastRefresh[s] + Cooldown
    BY <1>2, <1>10, PastCooldown DEF BeforeBroadcast, NotChecking
  <2> QED
    BY <2>1, <1>7 DEF FreshWindow
<1> QED
  BY <1>7, <1>8, <1>9, <1>12, <1>13, <1>14

LEMMA BroadcastInv ==
  ASSUME IInv, Broadcast
  PROVE  IInv'
<1> USE ConstantTypes DEF IInv
<1>1. UNCHANGED <<mode, teacher, lastEma, count, lastRefresh, history, baseline, hits, decision, valid, micro, step>>
  BY DEF Broadcast, trackers, clock
<1>2. TypeOK /\ AllAt("broadcast")
  BY DEF Broadcast
<1>3. pc' = [s \in Rank |-> "copy"] \/ pc' = [s \in Rank |-> "backward"]
  BY DEF Broadcast, AllGoto
<1>4. pc' \in [Rank -> PC]
  BY <1>3 DEF PC
<1>5. TypeOK'
  BY <1>1, <1>2, <1>4, SameDecisions DEF TypeOK, HistoryLimit
<1>6. Clocked' /\ Weights'
  BY <1>1, <1>2, <1>3, <1>4, SameWeights DEF Midway, PC, AllAt
<1>7. Stage'
  <2>1. BeforeBroadcast
    BY <1>2 DEF Stage, BeforeFixedCopy, BeforeLoss, AtLoss, BeforeAllReduce, NotMonitoring,
      BeforeBroadcast, NotChecking, BeforeCopy, AtBackward, AtEnd, AllAt
  <2>2. \A s \in Rank : Monitors(s)'
    BY <2>1, <1>1, SameDecisions DEF BeforeBroadcast
  <2>3. CASE pc' = [s \in Rank |-> "copy"]
    BY <2>2, <2>3 DEF Stage, BeforeCopy
  <2>4. CASE pc' = [s \in Rank |-> "backward"]
    BY <2>4 DEF Stage, AtBackward, AllAt
  <2> QED
    BY <1>3, <2>3, <2>4
<1>8. Lockstep' /\ FreshWindow' /\ baseline' = [s \in Rank |-> baseline'[s]]
  BY <1>1 DEF Lockstep, FreshWindow
<1> QED
  BY <1>5, <1>6, <1>7, <1>8

LEMMA CopyInv ==
  ASSUME IInv, NEW r \in Rank, Copy(r)
  PROVE  IInv'
<1> USE ConstantTypes DEF IInv
<1>1. UNCHANGED <<mode, lastEma, count, lastRefresh, history, baseline, hits, decision, valid, micro, step>>
  BY DEF Copy, trackers, clock
<1>2. TypeOK /\ pc[r] = "copy" /\ pc' = [pc EXCEPT ![r] = "barrier"]
  BY DEF Copy, Goto
<1>3. teacher' = [teacher EXCEPT ![r] = [p \in Param |->
                    IF SameShape(p) THEN [copied |-> step, blends |-> 0] ELSE teacher[r][p]]]
  BY DEF Copy, Copied
<1>4. pc' \in [Rank -> PC]
  BY <1>2 DEF TypeOK, PC
<1>5. teacher' \in [Rank -> [Param -> [copied : 0 .. MaxSteps, blends : 0 .. MaxSteps]]]
  <2>1. [copied |-> step, blends |-> 0] \in [copied : 0 .. MaxSteps, blends : 0 .. MaxSteps]
    BY <1>2 DEF TypeOK
  <2>2. \A p \in Param : teacher[r][p] \in [copied : 0 .. MaxSteps, blends : 0 .. MaxSteps]
    BY <1>2 DEF TypeOK
  <2>3. [p \in Param |-> IF SameShape(p) THEN [copied |-> step, blends |-> 0] ELSE teacher[r][p]]
          \in [Param -> [copied : 0 .. MaxSteps, blends : 0 .. MaxSteps]]
    BY <2>1, <2>2
  <2> QED
    BY <1>2, <1>3, <2>3 DEF TypeOK
<1>6. HistoryLimit' = HistoryLimit
  BY <1>1, SameDecisions
<1>7. TypeOK'
  BY <1>1, <1>2, <1>4, <1>5, <1>6 DEF TypeOK
<1>8. \A s \in Rank : EmaDue(s)' <=> EmaDue(s)
  BY <1>1 DEF EmaDue
<1>9. ~EmaDue(r)
  BY <1>2 DEF Clocked
<1>10. Clocked'
  BY <1>1, <1>2, <1>8 DEF Clocked, TypeOK
<1>11. Weights'
  <2> SUFFICES ASSUME NEW s \in Rank, NEW p \in Param
               PROVE  IF SameShape(p)
                        THEN teacher'[s][p].copied = CopiedAt(s)' /\ teacher'[s][p].blends = BlendsAt(s)'
                        ELSE teacher'[s][p].copied = 0 /\ teacher'[s][p].blends = 0
    BY DEF Weights, SameShape
  <2>1. CASE s # r
    <3>1. teacher'[s] = teacher[s] /\ CopiedAt(s)' = CopiedAt(s)
      BY <2>1, <1>1, <1>2, <1>3 DEF TypeOK, CopiedAt
    <3> QED
      BY <3>1, <1>1, <1>8 DEF Weights, BlendsAt
  <2>2. CASE s = r
    <3>1. CopiedAt(r)' = step /\ step \in Int
      BY <1>1, <1>2 DEF CopiedAt, TypeOK
    <3>2. BlendsAt(r)' = 0
      BY <3>1, <1>1, <1>8, <1>9 DEF BlendsAt
    <3>3. teacher'[r][p] = IF SameShape(p) THEN [copied |-> step, blends |-> 0] ELSE teacher[r][p]
      BY <1>2, <1>3 DEF TypeOK
    <3> QED
      BY <2>2, <3>1, <3>2, <3>3 DEF Weights
  <2> QED
    BY <2>1, <2>2
<1>12. BeforeFixedCopy \/ BeforeCopy
  BY <1>2 DEF Stage, BeforeFixedCopy, BeforeLoss, AtLoss, BeforeAllReduce, NotMonitoring,
    BeforeBroadcast, NotChecking, BeforeCopy, AtBackward, AtEnd, AllAt
<1>13. \A s \in Rank : (FixedDue(s)' <=> FixedDue(s)) /\ (Monitors(s)' <=> Monitors(s))
  BY <1>1, SameDecisions
<1>14. Stage'
  <2>1. CASE BeforeFixedCopy
    BY <2>1, <1>2, <1>13 DEF BeforeFixedCopy, Stage, TypeOK
  <2>2. CASE BeforeCopy
    BY <2>2, <1>2, <1>13 DEF BeforeCopy, Stage, TypeOK
  <2> QED
    BY <1>12, <2>1, <2>2
<1>15. Lockstep' /\ FreshWindow' /\ baseline' = [s \in Rank |-> baseline'[s]]
  BY <1>1 DEF Lockstep, FreshWindow
<1> QED
  BY <1>7, <1>10, <1>11, <1>14, <1>15

LEMMA BarrierInv ==
  ASSUME IInv, Barrier
  PROVE  IInv'
<1> USE ConstantTypes DEF IInv
<1>1. UNCHANGED <<mode, teacher, lastEma, decision, valid, micro, step>>
  BY DEF Barrier, clock
<1>2. /\ TypeOK /\ AllAt("barrier")
      /\ count' = [r \in Rank |-> count[r] + 1]
      /\ lastRefresh' = [r \in Rank |-> step]
      /\ history' = [r \in Rank |-> << >>] /\ baseline' = [r \in Rank |-> NoBaseline]
      /\ hits' = [r \in Rank |-> << >>]
  BY DEF Barrier, HistoriesCleared
<1>3. pc' = [r \in Rank |-> IF mode = "fixed" THEN "loss" ELSE "backward"]
  BY DEF Barrier, AllGoto
<1>4. pc' \in [Rank -> PC]
  BY <1>3 DEF PC
<1>5. HistoryLimit' \in Nat
  BY <1>1 DEF HistoryLimit
<1>6. TypeOK'
  <2>1. count' \in [Rank -> Nat] /\ lastRefresh' \in [Rank -> Int]
    <3>1. count \in [Rank -> Nat]
      BY <1>2 DEF TypeOK
    <3>2. step \in Int
      BY <1>2 DEF TypeOK
    <3> QED
      BY <1>2, <3>1, <3>2
  <2>2. history' \in [Rank -> Seq([step : 0 .. MaxSteps, iou : 0 .. 1, ok : BOOLEAN])]
    BY <1>2
  <2>3. \A r \in Rank : Len(history'[r]) <= HistoryLimit'
    BY <1>2, <1>5
  <2>4. \A r \in Rank : baseline'[r].step \in -1 .. MaxSteps
    BY <1>2 DEF NoBaseline
  <2>5. hits' \in [Rank -> Seq(0 .. MaxSteps)]
    BY <1>2
  <2> QED
    BY <1>1, <1>2, <1>4, <2>1, <2>2, <2>3, <2>4, <2>5 DEF TypeOK
<1>7. \A r \in Rank : EmaDue(r)' <=> EmaDue(r)
  BY <1>1 DEF EmaDue
<1>8. step \in Int /\ step >= 0
  BY <1>2 DEF TypeOK
<1>9. Clocked'
  BY <1>1, <1>2, <1>3, <1>7, <1>8 DEF Clocked, AllAt
<1>10. \A r \in Rank : CopiedAt(r)' = CopiedAt(r)
  BY <1>1, <1>2, <1>3, <1>8 DEF CopiedAt, AllAt
<1>11. Weights'
  BY <1>1, <1>7, <1>10 DEF Weights, BlendsAt, SameShape
<1>12. Stage'
  BY <1>3 DEF Stage, AtLoss, AtBackward, AllAt
<1>13. Lockstep'
  BY <1>2 DEF Lockstep
<1>14. FreshWindow'
  BY <1>2 DEF FreshWindow
<1>15. baseline' = [r \in Rank |-> baseline'[r]]
  BY <1>2
<1> QED
  BY <1>6, <1>9, <1>11, <1>12, <1>13, <1>14, <1>15

LEMMA BackwardInv ==
  ASSUME IInv, Backward
  PROVE  IInv'
<1> USE ConstantTypes DEF IInv
<1>1. UNCHANGED <<mode, teacher, lastEma, count, lastRefresh, history, baseline, hits, valid>>
  BY DEF Backward, trackers
<1>2. TypeOK /\ AllAt("backward")
  BY DEF Backward
<1>3. /\ micro' = (micro + 1) % MicroPerStep
      /\ step' = IF micro' = 0 THEN step + 1 ELSE step
      /\ pc' = [r \in Rank |-> IF step' = MaxSteps THEN "done" ELSE "start"]
      /\ decision' = [r \in Rank |-> FALSE]
  BY DEF Backward, AllGoto
<1>4. step \in Nat /\ step < MaxSteps /\ step' \in 0 .. MaxSteps
  <2>1. step \in Nat
    BY <1>2 DEF TypeOK
  <2>2. step < MaxSteps
    BY <1>2 DEF Clocked, AllAt
  <2> QED
    BY <2>1, <2>2, <1>3
<1>5. TypeOK'
  <2>1. pc' \in [Rank -> PC] /\ decision' \in [Rank -> BOOLEAN]
    BY <1>3 DEF PC
  <2>2. micro' \in 0 .. MicroPerStep - 1
    <3>1. micro + 1 \in Int /\ MicroPerStep \in Nat \ {0}
      BY <1>2 DEF TypeOK
    <3> QED
      BY <1>3, <3>1
  <2>3. HistoryLimit' = HistoryLimit
    BY <1>1 DEF HistoryLimit
  <2> QED
    BY <1>1, <1>2, <1>4, <2>1, <2>2, <2>3 DEF TypeOK
<1>6. \A r \in Rank : ~EmaDue(r) /\ lastEma[r] \in Int /\ lastEma[r] <= step /\ lastRefresh[r] <= step
  BY <1>2 DEF Clocked, AllAt, TypeOK
<1>7. Clocked'
  <2>1. step' >= step /\ (step' # MaxSteps => step' < MaxSteps)
    BY <1>3, <1>4
  <2>2. \A r \in Rank : lastEma[r] <= step' /\ lastRefresh[r] <= step'
    <3>1. \A r \in Rank : lastRefresh[r] \in Int
      BY <1>2 DEF TypeOK
    <3>2. step \in Int /\ step' \in Int
      BY <1>4
    <3> QED
      BY <2>1, <3>1, <3>2, <1>6
  <2>3. \A r \in Rank : pc'[r] = IF step' = MaxSteps THEN "done" ELSE "start"
    BY <1>3
  <2> QED
    BY <1>1, <2>1, <2>2, <2>3 DEF Clocked
<1>8. \A r \in Rank : CopiedAt(r)' = CopiedAt(r) /\ CopiedAt(r) \in Int
  BY <1>1, <1>2, <1>3, <1>4 DEF CopiedAt, AllAt, TypeOK
<1>9. \A r \in Rank : BlendsAt(r)' = BlendsAt(r)
  <2> SUFFICES ASSUME NEW r \in Rank PROVE BlendsAt(r)' = BlendsAt(r)
    OBVIOUS
  <2>1. CASE ~Ema
    BY <2>1 DEF BlendsAt
  <2>2. CASE Ema /\ step' = step
    <3>1. ~EmaDue(r)'
      BY <2>2, <1>1, <1>6 DEF EmaDue
    <3> QED
      BY <2>2, <3>1, <1>6, <1>8 DEF BlendsAt
  <2>3. CASE Ema /\ step' = step + 1
    <3>1. EmaDue(r)'
      BY <2>3, <1>1, <1>4, <1>6 DEF EmaDue
    <3> QED
      BY <2>3, <3>1, <1>4, <1>6, <1>8 DEF BlendsAt
  <2> QED
    BY <2>1, <2>2, <2>3, <1>3
<1>10. Weights'
  BY <1>1, <1>8, <1>9 DEF Weights, SameShape
<1>11. Lockstep'
  BY <1>1 DEF Lockstep
<1>12. Stage'
  <2>1. CASE step' = MaxSteps
    BY <2>1, <1>3 DEF Stage, AtEnd, AllAt
  <2>2. CASE step' # MaxSteps
    <3>1. \A r \in Rank : FixedDue(r)' <=> FixedDue(Main)'
      BY <1>11 DEF Lockstep, FixedDue, LimitReached
    <3>2. CASE FixedDue(Main)'
      BY <2>2, <3>1, <3>2, <1>3 DEF Stage, BeforeFixedCopy
    <3>3. CASE ~FixedDue(Main)'
      BY <2>2, <3>1, <3>3, <1>3 DEF Stage, BeforeLoss
    <3> QED
      BY <3>2, <3>3
  <2> QED
    BY <2>1, <2>2
<1>13. FreshWindow' /\ baseline' = [r \in Rank |-> baseline'[r]]
  BY <1>1 DEF FreshWindow
<1> QED
  BY <1>5, <1>7, <1>10, <1>11, <1>12, <1>13

-----------------------------------------------------------------------------
(* A step that changes nothing keeps the invariant.                         *)
LEMMA StutterInv ==
  ASSUME IInv, UNCHANGED vars
  PROVE  IInv'
<1> USE DEF IInv
<1>1. UNCHANGED <<mode, pc, teacher, lastEma, count, lastRefresh, history, baseline, hits,
                  decision, valid, micro, step>>
  BY DEF vars, trackers, clock
<1>2. TypeOK'
  BY <1>1, SameDecisions DEF TypeOK, HistoryLimit
<1>3. Lockstep' /\ FreshWindow' /\ baseline' = [s \in Rank |-> baseline'[s]]
  BY <1>1 DEF Lockstep, FreshWindow
<1>4. Clocked' /\ Weights'
  BY <1>1, <1>2, SameWeights DEF TypeOK
<1>5. \A s \in Rank : /\ FixedDue(s)' <=> FixedDue(s)
                      /\ Monitors(s)' <=> Monitors(s)
                      /\ Checks(s)' <=> Checks(s)
  BY <1>1, SameDecisions
<1>6. Stage'
  BY <1>1, <1>5 DEF Stage, BeforeFixedCopy, BeforeLoss, AtLoss, BeforeAllReduce, NotMonitoring,
    BeforeBroadcast, NotChecking, BeforeCopy, AtBackward, AtEnd, AllAt
<1> QED
  BY <1>2, <1>3, <1>4, <1>6

(* Every step keeps the invariant.                                          *)
LEMMA NextInv == IInv /\ [Next]_vars => IInv'
<1> SUFFICES ASSUME IInv, [Next]_vars PROVE IInv'
  OBVIOUS
<1>1. CASE Collective
  BY <1>1, SdpoLossInv, AllReduceInv, BroadcastInv, BarrierInv, BackwardInv DEF Collective
<1>2. ASSUME NEW r \in Rank, RankStep(r) PROVE IInv'
  BY <1>2, TrainingStepInv, MaybeRefreshFixedInv, UpdateMetricsInv, CheckInv, CopyInv DEF RankStep
<1>3. CASE Terminated \/ UNCHANGED vars
  BY <1>3, StutterInv DEF Terminated
<1> QED
  BY <1>1, <1>2, <1>3 DEF Next

(* The invariant holds in every reachable state: the ranks stay in step and *)
(* the teacher is what the trackers and the clock say of it.                *)
THEOREM Invariance == Spec => []IInv
<1> QED BY InitInv, NextInv, PTL DEF Spec

(* Every variable keeps its type; the deque of the history its length.      *)
THEOREM TypeCorrect == Spec => []TypeOK
<1>1. IInv => TypeOK
  BY DEF IInv
<1> QED BY <1>1, Invariance, PTL

(* Whatever the ranks find in their micro-batches, no two of them wait in   *)
(* different collectives of torch.distributed.                              *)
THEOREM CollectivesAgree == Spec => []CollectivesMatch
<1>1. Stage => CollectivesMatch
  BY DEF CollectivesMatch, Collectives, Stage, BeforeFixedCopy, BeforeLoss, AtLoss, BeforeAllReduce,
    NotMonitoring, BeforeBroadcast, NotChecking, BeforeCopy, AtBackward, AtEnd, AllAt
<1>2. IInv => Stage
  BY DEF IInv
<1> QED BY <1>1, <1>2, Invariance, PTL

(* The ranks reach the backward pass with the same teacher, copied and      *)
(* blended by each of them alone.                                           *)
THEOREM OneTeacher == Spec => []TeachersAgree
<1>1. IInv => TeachersAgree
  <2> SUFFICES ASSUME IInv, AllAt("backward"), NEW r \in Rank, NEW s \in Rank
               PROVE  teacher[r] = teacher[s]
    BY DEF TeachersAgree
  <2>1. ~EmaDue(r) /\ ~EmaDue(s)
    BY DEF IInv, Clocked, AllAt
  <2>2. CopiedAt(r) = CopiedAt(s)
    BY DEF IInv, Lockstep, AllAt, CopiedAt
  <2>3. BlendsAt(r) = BlendsAt(s)
    BY <2>1, <2>2 DEF BlendsAt
  <2>4. /\ teacher[r] \in [Param -> [copied : 0 .. MaxSteps, blends : 0 .. MaxSteps]]
        /\ teacher[s] \in [Param -> [copied : 0 .. MaxSteps, blends : 0 .. MaxSteps]]
    BY DEF IInv, TypeOK
  <2>5. \A p \in Param : /\ teacher[r][p].copied = teacher[s][p].copied
                         /\ teacher[r][p].blends = teacher[s][p].blends
    BY <2>2, <2>3 DEF IInv, Weights
  <2>6. \A p \in Param : teacher[r][p] = teacher[s][p]
    BY <2>4, <2>5
  <2> QED
    BY <2>4, <2>6
<1> QED BY <1>1, Invariance, PTL

(* No check averages a record, or compares with a baseline, of before the   *)
(* last refresh or of its cooldown.                                         *)
THEOREM WindowsFresh == Spec => []FreshWindow
<1>1. IInv => FreshWindow
  BY DEF IInv
<1> QED BY <1>1, Invariance, PTL

(* Since its last refresh, the teacher was blended once per optimizer step, *)
(* with any number of micro-batches in a step.                              *)
THEOREM BlendedOncePerStep == Spec => []OneBlendPerStep
<1>1. IInv => OneBlendPerStep
  <2> SUFFICES ASSUME IInv, Ema, AllAt("backward"), NEW r \in Rank, NEW p \in Param, SameShape(p)
               PROVE  teacher[r][p].blends = step - teacher[r][p].copied
    BY DEF OneBlendPerStep
  <2>1. ~EmaDue(r)
    BY DEF IInv, Clocked, AllAt
  <2> QED
    BY <2>1 DEF IInv, Weights, BlendsAt
<1> QED BY <1>1, Invariance, PTL

(* A refresh makes the whole teacher the student of that step, as long as   *)
(* the parameters of the student are not partitioned.                       *)
THEOREM RefreshIsComplete == ~StudentStage3 /\ Spec => []RefreshCopiesStudent
<1> SUFFICES ASSUME ~StudentStage3 PROVE Spec => []RefreshCopiesStudent
  OBVIOUS
<1>1. IInv => RefreshCopiesStudent
  BY DEF IInv, Weights, SameShape, CopiedAt, RefreshCopiesStudent
<1> QED BY <1>1, Invariance, PTL

(* A counted refresh is within the limit and, when metrics asked for it,    *)
(* past the cooldown of the one before.                                     *)
THEOREM RefreshesBounded == Spec => RefreshRate
<1>1. IInv /\ [Next]_vars => [RefreshesInBounds]_vars
  <2> SUFFICES ASSUME IInv, Next, NEW r \in Rank, count'[r] # count[r]
               PROVE  /\ mode # "fixed" /\ lastRefresh[r] >= 0 => lastRefresh'[r] - lastRefresh[r] >= Cooldown
                      /\ MaxRefreshes >= 0 => count'[r] <= Greatest(1, MaxRefreshes)
    BY DEF RefreshesInBounds
  <2>1. Barrier
    BY DEF Next, Collective, Terminated, RankStep, TrainingStep, MaybeRefreshFixed, SdpoLoss, UpdateMetrics,
      AllReduce, Check, Broadcast, Copy, Backward, trackers, vars
  <2>2. TypeOK /\ Clocked
    BY DEF IInv
  <2>3. count'[r] = count[r] + 1 /\ lastRefresh'[r] = step /\ pc[r] = "barrier"
    BY <2>1 DEF Barrier, AllAt
  <2>4. BeforeFixedCopy \/ BeforeCopy
    BY <2>3 DEF IInv, Stage, BeforeFixedCopy, BeforeLoss, AtLoss, BeforeAllReduce, NotMonitoring,
      BeforeBroadcast, NotChecking, BeforeCopy, AtBackward, AtEnd, AllAt
  <2>5. FixedDue(r) \/ Monitors(r)
    BY <2>4 DEF BeforeFixedCopy, BeforeCopy
  <2>6. ~LimitReached(r)
    BY <2>5 DEF FixedDue, Monitors
  <2>7. MaxRefreshes >= 0 => count'[r] <= Greatest(1, MaxRefreshes)
    <3>1. count[r] \in Nat /\ MaxRefreshes \in Int
      BY <2>2, ConstantTypes DEF TypeOK
    <3> QED
      BY <2>3, <2>6, <3>1 DEF LimitReached, Greatest
  <2>8. mode # "fixed" /\ lastRefresh[r] >= 0 => lastRefresh'[r] - lastRefresh[r] >= Cooldown
    <3> SUFFICES ASSUME mode # "fixed", lastRefresh[r] >= 0
                 PROVE  lastRefresh'[r] - lastRefresh[r] >= Cooldown
      OBVIOUS
    <3>1. Monitors(r)
      BY <2>5 DEF FixedDue
    <3>2. step >= lastRefresh[r] + Cooldown
      BY <2>2, <3>1, PastCooldown
    <3>3. step \in Int /\ lastRefresh[r] \in Int /\ Cooldown \in Int
      BY <2>2, ConstantTypes DEF TypeOK
    <3> QED
      BY <2>3, <3>2, <3>3
  <2> QED
    BY <2>7, <2>8
<1> QED BY <1>1, Invariance, PTL DEF Spec, RefreshRate
=============================================================================
