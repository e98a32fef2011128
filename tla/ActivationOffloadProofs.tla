----------------------- MODULE ActivationOffloadProofs ----------------------
(***************************************************************************)
(* For every number of layers and of training passes: the host side of the *)
(* offload handler never fails, keeps the activations of at most two       *)
(* groups on the device, and is as it was after every pass; the argument   *)
(* is that where the host is in a pass determines all of the handler's     *)
(* state.  And every backward kernel reads what the forward of its layer   *)
(* wrote in the same pass, however far the streams lag behind: the         *)
(* argument is on the queues, as what the host has queued already decides  *)
(* what every operation will find when its stream gets to it.              *)
(***************************************************************************)
EXTENDS ActivationOffload, TLAPS, FiniteSetTheorems

(* The handler when the host is between passes, about to run a layer        *)
(* forward, past it and about to commit, about to commit the backward of a  *)
(* layer, and past that commit.                                             *)
Between ==
  /\ group = 0 /\ count = 0 /\ mapping = {}
  /\ \A g \in Groups : state[g] = "none" /\ buf[g] = "none" /\ tags[g] = -1

BeforeForward ==
  /\ group = layer /\ count = (IF layer = 0 THEN 0 ELSE layer - 1)
  /\ mapping = 0..layer - 1
  /\ \A g \in Groups :
       /\ state[g] = IF g < layer THEN "cpu" ELSE "none"
       /\ buf[g] = IF g < layer - 1 THEN "freed" ELSE IF g = layer - 1 THEN "gpu" ELSE "none"
       /\ tags[g] = IF g < layer THEN g ELSE -1

BeforeCommit ==
  /\ group = layer /\ count = (IF layer = 0 THEN 0 ELSE layer - 1)
  /\ mapping = 0..layer - 1
  /\ \A g \in Groups :
       /\ state[g] = IF g < layer THEN "cpu" ELSE IF g = layer THEN "gpu" ELSE "none"
       /\ buf[g] = IF g < layer - 1 THEN "freed"
                   ELSE IF g <= layer /\ g < Offloaded THEN "gpu" ELSE "none"
       /\ tags[g] = IF g <= layer THEN g ELSE -1

BeforeReload ==
  /\ group = layer + 1 /\ count = (IF layer = 0 THEN 1 ELSE layer)
  /\ mapping = 0..layer - 1
  /\ \A g \in Groups :
       /\ state[g] = IF g < layer THEN "cpu" ELSE IF g = layer THEN "gpu" ELSE "none"
       /\ buf[g] = IF g <= layer /\ g < Offloaded THEN "freed" ELSE "none"
       /\ tags[g] = IF g <= layer THEN g ELSE -1

BeforePop ==
  /\ group = layer
  /\ count = (IF layer = 0 THEN 0 ELSE IF layer = 1 THEN 1 ELSE layer - 1)
  /\ mapping = 0..layer - 2
  /\ \A g \in Groups :
       /\ state[g] = IF g < layer - 1 THEN "cpu" ELSE IF g <= layer THEN "gpu" ELSE "none"
       /\ buf[g] = IF g <= layer /\ g < Offloaded THEN "freed" ELSE "none"
       /\ tags[g] = IF g <= layer THEN g ELSE -1

HostInv ==
  /\ kind = "train" /\ failed = FALSE
  /\ phase \in {"idle", "forward", "commit", "backward", "pop"}
  /\ layer \in 0..Offloaded
  /\ state \in [Groups -> {"none", "gpu", "cpu"}]
  /\ buf \in [Groups -> {"none", "gpu", "freed"}]
  /\ tags \in [Groups -> Groups \cup {-1}]
  /\ phase = "idle" => Between
  /\ phase = "forward" => BeforeForward
  /\ phase = "commit" => BeforeCommit
  /\ phase = "backward" => BeforeReload
  /\ phase = "pop" => BeforePop

TrainOnly == Kinds \subseteq {"train"}

-----------------------------------------------------------------------------
(* One layer more than groups: the window of group i ends at layer i + 1.   *)
LEMMA OneMore ==
  /\ Layers \in Nat /\ Layers >= 3 /\ Offloaded \in Nat /\ Offloaded >= 2
  /\ Layers = Offloaded + 1
BY OffloadConstants DEF Offloaded

LEMMA DivideOneMore ==
  ASSUME NEW n \in Nat, n >= 2
  PROVE  (n + 1) \div n = 1 /\ (n + 1) % n = 1
OBVIOUS

LEMMA WindowIs ==
  ASSUME NEW i \in 0..Offloaded - 1
  PROVE  Window(i) = i + 1
<1>1. Layers \div Offloaded = 1 /\ Layers % Offloaded = 1
  BY OneMore, DivideOneMore
<1>2. i \in Int
  BY OneMore
<1> QED
  BY <1>1, <1>2, OneMore DEF Window, Spread

LEMMA InWindowIs ==
  ASSUME NEW i \in Int, NEW g \in Int
  PROVE  InWindow(i, g) <=> (i \in 0..Offloaded - 1 /\ g = i + 1)
BY WindowIs DEF InWindow

-----------------------------------------------------------------------------
LEMMA InitHost == TrainOnly /\ Init => HostInv
BY OneMore DEF TrainOnly, Init, HostInv, Between, Groups

LEMMA StartHost ==
  ASSUME TrainOnly, HostInv, StartPass
  PROVE  HostInv'
<1>1. layer' = 0 /\ phase' = "forward" /\ kind' = "train"
  BY DEF TrainOnly, StartPass
<1>2. UNCHANGED <<group, count, mapping, state, buf, tags, failed>>
  BY DEF StartPass, handler
<1>3. Between
  BY DEF HostInv, StartPass
<1>4. BeforeForward'
  BY <1>1, <1>2, <1>3, OneMore DEF Between, BeforeForward, Groups
<1> QED
  BY <1>1, <1>2, <1>4, OneMore DEF HostInv

LEMMA ForwardHost ==
  ASSUME HostInv, Forward
  PROVE  HostInv'
<1>1. phase = "forward" /\ BeforeForward /\ kind = "train" /\ layer \in 0..Offloaded
  BY DEF HostInv, Forward
<1>2. group \in Groups /\ state[group] = "none"
  BY <1>1, OneMore DEF BeforeForward, Groups
<1>3. /\ state' = [state EXCEPT ![group] = "gpu"]
      /\ buf' = IF group < Offloaded THEN [buf EXCEPT ![group] = "gpu"] ELSE buf
      /\ tags' = [tags EXCEPT ![layer] = group]
      /\ phase' = "commit"
      /\ UNCHANGED <<kind, layer, failed, group, count, mapping>>
  BY <1>1, <1>2 DEF Forward
<1>4. BeforeCommit'
  BY <1>1, <1>3, OneMore DEF HostInv, BeforeForward, BeforeCommit, Groups
<1> QED
  BY <1>1, <1>2, <1>3, <1>4, OneMore DEF HostInv

(* What a commit of the forward does to the handler, where it succeeds.     *)
LEMMA CommitForwardHost ==
  ASSUME HostInv, CommitForward
  PROVE  HostInv'
<1>1. phase = "commit" /\ BeforeCommit /\ kind = "train" /\ layer \in 0..Offloaded
  BY DEF HostInv, CommitForward
<1> DEFINE frees == InWindow(count, group)
           next == count + 1 < Offloaded
           offloads == {g \in Groups : (group = 0 /\ g = 0) \/ (frees /\ next /\ g = count + 1)}
<1>2. group \in 0..Offloaded /\ count \in 0..Offloaded - 1 /\ (frees <=> layer >= 1)
  BY <1>1, InWindowIs, OneMore DEF BeforeCommit
<1>3. offloads = IF layer < Offloaded THEN {layer} ELSE {}
  BY <1>1, <1>2, OneMore DEF BeforeCommit, Groups
<1>4. \A g \in offloads : state[g] = "gpu"
  <2> HIDE DEF offloads
  <2> QED
    BY <1>1, <1>3, OneMore DEF BeforeCommit, Groups
<1>5. ~(count \notin 0..Offloaded - 1 \/ \E g \in offloads : state[g] = "cpu")
  BY <1>2, <1>4
<1>6. /\ state' = [g \in Groups |-> IF g \in offloads /\ state[g] = "gpu" THEN "cpu" ELSE state[g]]
      /\ mapping' = mapping \cup offloads
      /\ buf' = IF frees /\ buf[count] = "gpu" THEN [buf EXCEPT ![count] = "freed"] ELSE buf
      /\ count' = IF frees THEN count + 1 ELSE count
      /\ group' = group + 1
      /\ layer' = IF layer + 1 < Layers THEN layer + 1 ELSE layer
      /\ phase' = IF layer + 1 < Layers THEN "forward"
                  ELSE IF kind = "nograd" THEN "idle" ELSE "backward"
      /\ UNCHANGED <<pass, kind, tags, failed>>
  BY <1>5 DEF CommitForward, Mapped
<1> HIDE DEF frees, next, offloads
<1>7. CASE layer < Offloaded
  <2>1. phase' = "forward" /\ layer' = layer + 1 /\ kind' = "train" /\ failed' = FALSE
    BY <1>1, <1>6, <1>7, OneMore DEF HostInv
  <2>2. group' = layer' /\ count' = layer' - 1 /\ mapping' = 0..layer' - 1
    BY <1>1, <1>2, <1>3, <1>6, <1>7, <2>1, OneMore DEF BeforeCommit
  <2>3. \A g \in Groups : state'[g] = IF g < layer' THEN "cpu" ELSE "none"
    BY <1>1, <1>3, <1>4, <1>6, <1>7, <2>1, OneMore DEF BeforeCommit, Groups
  <2>4. \A g \in Groups : buf'[g] = IF g < layer' - 1 THEN "freed"
                                    ELSE IF g = layer' - 1 THEN "gpu" ELSE "none"
    BY <1>1, <1>2, <1>6, <1>7, <2>1, OneMore DEF HostInv, BeforeCommit, Groups
  <2>5. BeforeForward'
    BY <1>1, <1>6, <1>7, <2>1, <2>2, <2>3, <2>4, OneMore DEF BeforeCommit, BeforeForward, Groups
  <2> QED
    BY <1>1, <1>2, <1>6, <1>7, <2>1, <2>5, OneMore DEF HostInv, Groups
<1>8. CASE layer = Offloaded
  <2>1. phase' = "backward" /\ layer' = layer /\ kind' = "train" /\ failed' = FALSE
    BY <1>1, <1>6, <1>8, OneMore DEF HostInv
  <2>2. state' = state /\ mapping' = mapping /\ count' = Offloaded /\ group' = layer + 1
    BY <1>1, <1>2, <1>3, <1>6, <1>8, OneMore DEF HostInv, BeforeCommit
  <2>3. \A g \in Groups : buf'[g] = IF g <= layer /\ g < Offloaded THEN "freed" ELSE "none"
    BY <1>1, <1>2, <1>6, <1>8, OneMore DEF HostInv, BeforeCommit, Groups
  <2>4. BeforeReload'
    BY <1>1, <1>6, <1>8, <2>1, <2>2, <2>3, OneMore DEF BeforeCommit, BeforeReload, Groups
  <2> QED
    BY <1>1, <1>2, <1>6, <1>8, <2>1, <2>2, <2>4, OneMore DEF HostInv, Groups
<1> QED
  BY <1>1, <1>7, <1>8, OneMore

LEMMA CommitBackwardHost ==
  ASSUME HostInv, CommitBackward
  PROVE  HostInv'
<1>1. phase = "backward" /\ BeforeReload /\ kind = "train" /\ layer \in 0..Offloaded
  BY DEF HostInv, CommitBackward
<1> DEFINE reloads == InWindow(count - 1, group - 1)
<1>2. /\ group - 1 = layer /\ count - 1 \in 0..Offloaded - 1
      /\ reloads <=> layer >= 1
  BY <1>1, InWindowIs, OneMore DEF BeforeReload
<1>3. ~(group - 1 < 0 \/ count - 1 \notin 0..Offloaded - 1 \/ (reloads /\ count - 1 \notin mapping))
  BY <1>1, <1>2, OneMore DEF BeforeReload
<1>4. /\ group' = group - 1
      /\ state' = IF reloads /\ state[count - 1] = "cpu"
                    THEN [state EXCEPT ![count - 1] = "gpu"] ELSE state
      /\ mapping' = IF reloads THEN mapping \ {count - 1} ELSE mapping
      /\ count' = IF group - 1 = 0 THEN 0 ELSE IF reloads /\ count > 1 THEN count - 1 ELSE count
      /\ phase' = "pop"
      /\ UNCHANGED <<kind, layer, tags, failed, buf>>
  BY <1>3 DEF CommitBackward, CountDown
<1> HIDE DEF reloads
<1>5. \A g \in Groups : state'[g] = IF g < layer - 1 THEN "cpu" ELSE IF g <= layer THEN "gpu" ELSE "none"
  BY <1>1, <1>2, <1>4, OneMore DEF HostInv, BeforeReload, Groups
<1>6. mapping' = 0..layer - 2
  <2>1. CASE layer = 0
    BY <1>1, <1>2, <1>4, <2>1 DEF BeforeReload
  <2>2. CASE layer >= 1
    <3>1. mapping' = (0..layer - 1) \ {layer - 1}
      BY <1>1, <1>2, <1>4, <2>2, OneMore DEF BeforeReload
    <3> QED
      BY <1>1, <2>2, <3>1, OneMore
  <2> QED
    BY <1>1, <2>1, <2>2, OneMore
<1>7. group' = layer /\ count' = (IF layer = 0 THEN 0 ELSE IF layer = 1 THEN 1 ELSE layer - 1)
  BY <1>1, <1>2, <1>4, OneMore DEF BeforeReload
<1>8. BeforePop'
  <2>1. \A g \in Groups : /\ buf'[g] = IF g <= layer /\ g < Offloaded THEN "freed" ELSE "none"
                         /\ tags'[g] = IF g <= layer THEN g ELSE -1
    BY <1>1, <1>4 DEF BeforeReload
  <2> QED
    BY <1>4, <1>5, <1>6, <1>7, <2>1 DEF BeforePop
<1> QED
  BY <1>1, <1>2, <1>4, <1>8, OneMore DEF HostInv, Groups

LEMMA BackwardHost ==
  ASSUME HostInv, Backward
  PROVE  HostInv'
<1>1. phase = "pop" /\ BeforePop /\ kind = "train" /\ layer \in 0..Offloaded
  BY DEF HostInv, Backward
<1>2. tags[layer] = layer /\ state[layer] = "gpu" /\ layer \in Groups
  BY <1>1, OneMore DEF BeforePop, Groups
<1>3. /\ state' = [state EXCEPT ![layer] = "none"]
      /\ buf' = [buf EXCEPT ![layer] = "none"]
      /\ tags' = [tags EXCEPT ![layer] = -1]
      /\ layer' = IF layer = 0 THEN 0 ELSE layer - 1
      /\ phase' = IF layer = 0 THEN "idle" ELSE "backward"
      /\ UNCHANGED <<kind, failed, group, count, mapping>>
  BY <1>2 DEF Backward
<1>4. CASE layer = 0
  <2>1. Between'
    BY <1>1, <1>2, <1>3, <1>4, OneMore DEF HostInv, BeforePop, Between, Groups
  <2> QED
    BY <1>1, <1>2, <1>3, <1>4, <2>1, OneMore DEF HostInv
<1>5. CASE layer # 0
  <2>1. BeforeReload'
    BY <1>1, <1>2, <1>3, <1>5, OneMore DEF HostInv, BeforePop, BeforeReload, Groups
  <2> QED
    BY <1>1, <1>2, <1>3, <1>5, <2>1, OneMore DEF HostInv
<1> QED
  BY <1>4, <1>5

(* The streams of the device touch none of the host's state.                *)
LEMMA DeviceHost ==
  ASSUME HostInv, Device \/ Terminated \/ UNCHANGED vars
  PROVE  HostInv'
<1>1. UNCHANGED <<kind, phase, layer, tags, group, count, state, buf, mapping, failed>>
  BY DEF Device, Waited, ForwardKernel, Reuse, CopyOutRuns, CopyInRuns, BackwardKernel,
         Ran, Terminated, vars, host, handler
<1> QED
  BY <1>1 DEF HostInv, Between, BeforeForward, BeforeCommit, BeforeReload, BeforePop

LEMMA NextHost == TrainOnly /\ HostInv /\ [Next]_vars => HostInv'
BY StartHost, ForwardHost, CommitForwardHost, CommitBackwardHost, BackwardHost, DeviceHost
   DEF Next, Host

LEMMA HostAlways == ASSUME TrainOnly PROVE Spec => []HostInv
<1>1. Init => HostInv
  BY InitHost
<1>2. HostInv /\ [Next]_vars => HostInv'
  BY NextHost
<1> QED
  BY <1>1, <1>2, PTL DEF Spec

-----------------------------------------------------------------------------
LEMMA HostReset == HostInv => HandlerReset
BY DEF HostInv, Between, HandlerReset

LEMMA PairSize == ASSUME NEW a, NEW b PROVE IsFiniteSet({a, b}) /\ Cardinality({a, b}) <= 2
<1>1. IsFiniteSet({a}) /\ Cardinality({a}) = 1
  BY FS_Singleton
<1>2. {a, b} = {a} \cup {b}
  OBVIOUS
<1> QED
  BY <1>1, <1>2, FS_AddElement

LEMMA HostTwoGroups == HostInv => TwoGroups
<1> SUFFICES ASSUME HostInv PROVE Cardinality(OnGpu) <= 2
  BY DEF TwoGroups
<1>1. OnGpu \subseteq {layer - 1, layer}
  BY OneMore DEF HostInv, OnGpu, Between, BeforeForward, BeforeCommit, BeforeReload, BeforePop, Groups
<1>2. IsFiniteSet({layer - 1, layer}) /\ Cardinality({layer - 1, layer}) <= 2
  BY PairSize
<1>3. Cardinality(OnGpu) <= Cardinality({layer - 1, layer})
  BY <1>1, <1>2, FS_Subset
<1>4. Cardinality(OnGpu) \in Nat /\ Cardinality({layer - 1, layer}) \in Nat
  BY <1>1, <1>2, FS_Subset, FS_CardinalityType
<1> QED
  BY <1>2, <1>3, <1>4

(* The handler of activation_cpu_offload.py never fails an assertion or a   *)
(* lookup in a run of training passes, whatever the number of layers, and   *)
(* every pass leaves it as it was.                                          *)
THEOREM HandlerResetHolds == ASSUME TrainOnly PROVE Spec => []HandlerReset
BY HostAlways, HostReset, PTL

(* The host never holds the activations of more than two groups, whatever   *)
(* the number of layers (enable_activation_offloading).                     *)
THEOREM TwoGroupsHolds == ASSUME TrainOnly PROVE Spec => []TwoGroups
BY HostAlways, HostTwoGroups, PTL

(* The handler's tables agree in every state of such a run.                 *)
LEMMA HostType == HostInv => TypeOK
<1> SUFFICES ASSUME HostInv PROVE TypeOK
  OBVIOUS
<1>1. group \in 0..Layers /\ count \in 0..Offloaded
  BY OneMore DEF HostInv, Between, BeforeForward, BeforeCommit, BeforeReload, BeforePop
<1>2. ASSUME NEW g \in Groups
      PROVE  /\ state[g] = "cpu" => g \in mapping
             /\ state[g] # "none" => tags[g] = g
             /\ buf[g] = "freed" => g < count \/ state[g] = "gpu"
  BY OneMore DEF HostInv, Between, BeforeForward, BeforeCommit, BeforeReload, BeforePop, Groups
<1> QED
  BY <1>1, <1>2 DEF HostInv, TypeOK

THEOREM TypeOKHolds == ASSUME TrainOnly PROVE Spec => []TypeOK
BY HostAlways, HostType, PTL

-----------------------------------------------------------------------------
(* The queues.  Every operation on a group follows, through the waits, the  *)
(* operation whose result it uses, and what would spoil that result follows *)
(* it (Ordered).  Frontier is what makes each step of the host keep this:   *)
(* which operations all later ones are already known to follow, and which   *)
(* was the last on a group.  As a stream never passes a wait before what it *)
(* waits for (Waits), the memories hold at any time what the last operation *)
(* that ran left there (GpuValue, CpuValue, ReloadedValue).                 *)
Queued == [op : {"fwd", "reuse", "bwd", "out", "in"}, group : Groups, pass : Nat]
            \cup [op : {"wait"}, on : Streams, upTo : Nat]
Queues == [Streams -> Seq(Queued)]

Is(q, s, i, op, g) == i \in 1 .. Len(q[s]) /\ q[s][i].op = op /\ q[s][i].group = g
At(q, s, i, op, g, p) == Is(q, s, i, op, g) /\ q[s][i].pass = p
Touches(q, j, g) == Is(q, "compute", j, "fwd", g) \/ Is(q, "compute", j, "reuse", g)
Clobbers(q, j, g) == \E h \in Groups : Is(q, "h2d", j, "in", h) /\ (h = g \/ h + 1 < g)

(* The k-th operation of stream s waits for the i-th of stream t.           *)
Awaits(q, s, k, t, i) ==
  k \in 1 .. Len(q[s]) /\ q[s][k].op = "wait" /\ q[s][k].on = t /\ q[s][k].upTo >= i

(* Stream s cannot run its j-th operation before stream t has run its i-th, *)
(* because it waits for it, or for a wait of the compute stream for it.     *)
Before(q, t, i, s, j) == \E k \in Nat : k < j /\ Awaits(q, s, k, t, i)
Before2(q, t, i, s, j) ==
  \E w \in Nat : Awaits(q, "compute", w, t, i) /\ Before(q, "compute", w, s, j)

(* ... and so for all that is queued from now on.                           *)
Covered(q, t, i, s) == \E k \in Nat : Awaits(q, s, k, t, i)
Covered2(q, t, i, s) ==
  \E w \in Nat : Awaits(q, "compute", w, t, i) /\ Covered(q, "compute", w, s)

OutOK(q, i, g, p) ==
  \E f \in Nat :
    /\ At(q, "compute", f, "fwd", g, p) /\ Before(q, "compute", f, "d2h", i)
    /\ \A j \in Nat : Touches(q, j, g) => j <= f \/ Before(q, "d2h", i, "compute", j)

InOK(q, i, g, p) ==
  \E o \in Nat :
    /\ At(q, "d2h", o, "out", g, p) /\ Before2(q, "d2h", o, "h2d", i)
    /\ \A j \in Nat : Is(q, "d2h", j, "out", g) => j <= o \/ Before2(q, "h2d", i, "d2h", j)

BwdOK(q, b, g, p) ==
  \E i \in Nat :
    /\ At(q, "h2d", i, "in", g, p) /\ Before(q, "h2d", i, "compute", b)
    /\ \A j \in Nat : Clobbers(q, j, g) => j <= i \/ Before(q, "compute", b, "h2d", j)

(* The last layer is not offloaded.                                         *)
TopOK(q, b, g, p) ==
  \E f \in Nat :
    /\ At(q, "compute", f, "fwd", g, p) /\ f < b
    /\ \A j \in Nat : Touches(q, j, g) => j <= f \/ j > b

Outs(q) == \A i, p \in Nat, g \in Groups : At(q, "d2h", i, "out", g, p) => OutOK(q, i, g, p)
Ins(q) == \A i, p \in Nat, g \in Groups : At(q, "h2d", i, "in", g, p) => InOK(q, i, g, p)
Bwds(q) == \A b, p \in Nat, g \in Groups :
  At(q, "compute", b, "bwd", g, p) => IF g < Offloaded THEN BwdOK(q, b, g, p) ELSE TopOK(q, b, g, p)

Ordered(q) == q \in Queues /\ Outs(q) /\ Ins(q) /\ Bwds(q)

(* The last operations the host has queued for a group.                     *)
LastForward(q, g) ==
  \E f \in Nat : At(q, "compute", f, "fwd", g, pass) /\ \A j \in Nat : Touches(q, j, g) => j <= f
LastOut(q, g) ==
  \E o \in Nat : At(q, "d2h", o, "out", g, pass) /\ \A j \in Nat : Is(q, "d2h", j, "out", g) => j <= o
LastIn(q, g) ==
  \E i \in Nat : At(q, "h2d", i, "in", g, pass)
                   /\ \A j \in Nat, h \in Groups : Is(q, "h2d", j, "in", h) => j <= i
Reloaded(q, g) ==
  \E i \in Nat : /\ At(q, "h2d", i, "in", g, pass) /\ Covered(q, "h2d", i, "compute")
                 /\ \A j \in Nat : Clobbers(q, j, g) => j <= i

(* What is left for the compute stream to wait for, and what the next       *)
(* operations of the host rely on.                                          *)
OutsCovered(q) ==
  \A i \in Nat, g \in Groups : Is(q, "d2h", i, "out", g) =>
    Covered(q, "d2h", i, "compute") \/ (phase \in {"forward", "commit"} /\ g = layer - 1)
InsCovered(q) ==
  \A i \in Nat, g \in Groups : Is(q, "h2d", i, "in", g) =>
    \/ Covered(q, "h2d", i, "compute")
    \/ phase = "backward" /\ g = layer
    \/ phase = "pop" /\ g = layer - 1

Frontier(q) ==
  /\ OutsCovered(q) /\ InsCovered(q)
  /\ phase = "commit" => LastForward(q, layer)
  /\ phase \in {"backward", "pop"} /\ layer = Offloaded => LastForward(q, Offloaded)
  /\ \A g \in Groups :
       (phase \in {"forward", "commit", "backward"} /\ g < layer) \/ (phase = "pop" /\ g < layer - 1)
         => LastOut(q, g)
  /\ phase = "backward" /\ layer < Offloaded => LastIn(q, layer)
  /\ phase = "pop" /\ layer < Offloaded => Reloaded(q, layer)
  /\ phase = "pop" /\ layer >= 1 => LastIn(q, layer - 1)

(* What the streams have done.                                              *)
Waits ==
  \A s, t \in Streams, k, i \in Nat : Awaits(ops, s, k, t, i) /\ k <= done[s] => done[t] >= i

GpuValue ==
  \A g \in Groups, f, p \in Nat :
    /\ At(ops, "compute", f, "fwd", g, p) /\ f <= done["compute"]
    /\ \A j \in Nat : Touches(ops, j, g) => j <= f \/ j > done["compute"]
    => gpu[g] = p

CpuValue ==
  \A g \in Groups, o, p \in Nat :
    /\ At(ops, "d2h", o, "out", g, p) /\ o <= done["d2h"]
    /\ \A j \in Nat : Is(ops, "d2h", j, "out", g) => j <= o \/ j > done["d2h"]
    => cpu[g] = p

ReloadedValue ==
  \A g \in Groups, i, p \in Nat :
    /\ At(ops, "h2d", i, "in", g, p) /\ i <= done["h2d"]
    /\ \A j \in Nat : Clobbers(ops, j, g) => j <= i \/ j > done["h2d"]
    => reloaded[g] = p

DeviceTypes ==
  /\ pass \in Nat /\ done \in [Streams -> Nat] /\ \A s \in Streams : done[s] <= Len(ops[s])
  /\ gpu \in [Groups -> Nat] /\ cpu \in [Groups -> Nat] /\ reloaded \in [Groups -> Nat]

DeviceInv ==
  /\ DeviceTypes /\ Waits /\ GpuValue /\ CpuValue /\ ReloadedValue /\ BackwardReads
ReadInv == HostInv /\ Ordered(ops) /\ Frontier(ops) /\ DeviceInv

-----------------------------------------------------------------------------
(* One more operation in a queue.                                           *)
Appended(q, s, x) == [q EXCEPT ![s] = Append(@, x)]

LEMMA StreamsAre == Streams = {"compute", "d2h", "h2d"}
BY DEF Streams

LEMMA AppendedTypes ==
  ASSUME NEW q \in Queues, NEW s \in Streams, NEW x \in Queued, NEW r, r = Appended(q, s, x)
  PROVE  /\ r \in Queues
         /\ \A t \in Streams : /\ Len(q[t]) \in Nat
                               /\ Len(r[t]) = IF t = s THEN Len(q[s]) + 1 ELSE Len(q[t])
                               /\ \A i \in 1 .. Len(q[t]) : r[t][i] = q[t][i]
         /\ r[s][Len(q[s]) + 1] = x
<1>1. \A t \in Streams : q[t] \in Seq(Queued) /\ Len(q[t]) \in Nat
  BY DEF Queues
<1>2. r[s] = Append(q[s], x) /\ \A t \in Streams : t # s => r[t] = q[t]
  BY DEF Appended, Queues
<1>3. Append(q[s], x) \in Seq(Queued)
  BY <1>1
<1>4. r \in Queues
  BY <1>3 DEF Appended, Queues
<1>5. /\ Len(Append(q[s], x)) = Len(q[s]) + 1
      /\ Append(q[s], x)[Len(q[s]) + 1] = x
      /\ \A i \in 1 .. Len(q[s]) : Append(q[s], x)[i] = q[s][i]
  BY <1>1
<1>6. QED BY <1>1, <1>2, <1>4, <1>5

LEMMA AppendedIs ==
  ASSUME NEW q \in Queues, NEW s \in Streams, NEW x \in Queued, NEW r, r = Appended(q, s, x)
  PROVE  /\ \A t \in Streams : \A i, op, g :
              Is(r, t, i, op, g) <=>
                Is(q, t, i, op, g) \/ (t = s /\ i = Len(q[s]) + 1 /\ x.op = op /\ x.group = g)
         /\ \A t \in Streams : \A i, op, g, p :
              At(r, t, i, op, g, p) <=>
                \/ At(q, t, i, op, g, p)
                \/ t = s /\ i = Len(q[s]) + 1 /\ x.op = op /\ x.group = g /\ x.pass = p
         /\ \A t, u \in Streams : \A k, i :
              Awaits(r, t, k, u, i) <=>
                \/ Awaits(q, t, k, u, i)
                \/ t = s /\ k = Len(q[s]) + 1 /\ x.op = "wait" /\ x.on = u /\ x.upTo >= i
<1>1. /\ \A t \in Streams : /\ Len(q[t]) \in Nat
                            /\ Len(r[t]) = IF t = s THEN Len(q[s]) + 1 ELSE Len(q[t])
                            /\ \A i \in 1 .. Len(q[t]) : r[t][i] = q[t][i]
      /\ r[s][Len(q[s]) + 1] = x
  BY AppendedTypes
<1>2. ASSUME NEW t \in Streams, NEW i
      PROVE  i \in 1 .. Len(r[t]) <=> i \in 1 .. Len(q[t]) \/ (t = s /\ i = Len(q[s]) + 1)
  BY <1>1
<1>3. PICK m : m = Len(q[s]) + 1
  OBVIOUS
<1>4. ASSUME NEW t \in Streams, NEW i, i \in 1 .. Len(q[t])
      PROVE  r[t][i] = q[t][i] /\ i \in 1 .. Len(r[t]) /\ ~(t = s /\ i = m)
  <2>1. r[t][i] = q[t][i] /\ i \in 1 .. Len(r[t])
    BY <1>1, <1>2, <1>4
  <2>2. ASSUME t = s, i = m PROVE FALSE
    BY <1>1, <1>3, <1>4, <2>2
  <2>3. QED BY <2>1, <2>2
<1>5. r[s][m] = x /\ m \in 1 .. Len(r[s]) /\ m \notin 1 .. Len(q[s])
  BY <1>1, <1>2, <1>3, <1>4
<1>6. \A t \in Streams : \A i : i \in 1 .. Len(r[t]) => i \in 1 .. Len(q[t]) \/ (t = s /\ i = m)
  BY <1>2, <1>3
<1>7. ASSUME NEW t \in Streams, NEW i, NEW op, NEW g
      PROVE  Is(r, t, i, op, g) <=>
                Is(q, t, i, op, g) \/ (t = s /\ i = m /\ x.op = op /\ x.group = g)
  <2>1. CASE i \in 1 .. Len(q[t])
    BY <1>4, <2>1 DEF Is
  <2>2. CASE t = s /\ i = m
    BY <1>5, <2>2 DEF Is
  <2>3. CASE i \notin 1 .. Len(q[t]) /\ ~(t = s /\ i = m)
    BY <1>6, <2>3 DEF Is
  <2>4. QED BY <2>1, <2>2, <2>3
<1>8. ASSUME NEW t \in Streams, NEW i, NEW op, NEW g, NEW p
      PROVE  At(r, t, i, op, g, p) <=>
                \/ At(q, t, i, op, g, p)
                \/ t = s /\ i = m /\ x.op = op /\ x.group = g /\ x.pass = p
  <2>1. CASE i \in 1 .. Len(q[t])
    BY <1>4, <2>1 DEF Is, At
  <2>2. CASE t = s /\ i = m
    BY <1>5, <2>2 DEF Is, At
  <2>3. CASE i \notin 1 .. Len(q[t]) /\ ~(t = s /\ i = m)
    BY <1>6, <2>3 DEF Is, At
  <2>4. QED BY <2>1, <2>2, <2>3
<1>9. ASSUME NEW t \in Streams, NEW u \in Streams, NEW k, NEW i
      PROVE  Awaits(r, t, k, u, i) <=>
                \/ Awaits(q, t, k, u, i)
                \/ t = s /\ k = m /\ x.op = "wait" /\ x.on = u /\ x.upTo >= i
  <2>1. CASE k \in 1 .. Len(q[t])
    BY <1>4, <2>1 DEF Awaits
  <2>2. CASE t = s /\ k = m
    BY <1>5, <2>2 DEF Awaits
  <2>3. CASE k \notin 1 .. Len(q[t]) /\ ~(t = s /\ k = m)
    BY <1>6, <2>3 DEF Awaits
  <2>4. QED BY <2>1, <2>2, <2>3
<1>10. QED BY <1>3, <1>7, <1>8, <1>9

(* What was ordered stays so.                                               *)
LEMMA AppendedBefore ==
  ASSUME NEW q \in Queues, NEW s \in Streams, NEW x \in Queued, NEW r, r = Appended(q, s, x),
         NEW t \in Streams, NEW u \in Streams, NEW i
  PROVE  /\ \A j : Before(q, t, i, u, j) => Before(r, t, i, u, j)
         /\ \A j : Before2(q, t, i, u, j) => Before2(r, t, i, u, j)
         /\ Covered(q, t, i, u) => Covered(r, t, i, u)
         /\ Covered(q, t, i, s) => Before(r, t, i, s, Len(q[s]) + 1)
         /\ Covered2(q, t, i, u) => Covered2(r, t, i, u)
         /\ Covered2(q, t, i, s) => Before2(r, t, i, s, Len(q[s]) + 1)
<1>1. "compute" \in Streams
  BY DEF Streams
<1>2. \A a, b \in Streams : \A k, l : Awaits(q, a, k, b, l) => Awaits(r, a, k, b, l)
  BY AppendedIs
<1>3. \A a, b \in Streams : \A j, l : Before(q, a, l, b, j) => Before(r, a, l, b, j)
  BY <1>2 DEF Before
<1>4. \A j : Before2(q, t, i, u, j) => Before2(r, t, i, u, j)
  BY <1>1, <1>2, <1>3 DEF Before2
<1>5. Covered(q, t, i, u) => Covered(r, t, i, u)
  BY <1>2 DEF Covered
<1>6. PICK n \in Nat : n = Len(q[s])
  BY AppendedTypes
<1>7. \A a \in Streams : \A l : Covered(q, a, l, s) => Before(r, a, l, s, n + 1)
  <2>1. ASSUME NEW a \in Streams, NEW l, NEW k \in Nat, Awaits(q, s, k, a, l)
        PROVE  Before(r, a, l, s, n + 1)
    <3>1. k < n + 1
      BY <1>6, <2>1 DEF Awaits
    <3>2. QED BY <1>2, <2>1, <3>1 DEF Before
  <2>2. QED BY <2>1 DEF Covered
<1>8. Covered2(q, t, i, s) => Before2(r, t, i, s, n + 1)
  BY <1>1, <1>2, <1>7 DEF Covered2, Before2
<1>9. Covered2(q, t, i, u) => Covered2(r, t, i, u)
  BY <1>1, <1>2 DEF Covered2, Covered
<1>10. QED BY <1>3, <1>4, <1>5, <1>6, <1>7, <1>8, <1>9

(* An operation may be queued once what it relies on, and what relies on    *)
(* what it spoils, comes before it.                                         *)
SafeTouch(q, g) ==
  \A i \in Nat : Is(q, "d2h", i, "out", g) => Covered(q, "d2h", i, "compute")

SafeOut(q, g, p) ==
  /\ \E f \in Nat : /\ At(q, "compute", f, "fwd", g, p) /\ Covered(q, "compute", f, "d2h")
                    /\ \A j \in Nat : Touches(q, j, g) => j <= f
  /\ \A i \in Nat : Is(q, "h2d", i, "in", g) => Covered2(q, "h2d", i, "d2h")

SafeIn(q, g, p) ==
  /\ \E o \in Nat : /\ At(q, "d2h", o, "out", g, p) /\ Covered2(q, "d2h", o, "h2d")
                    /\ \A j \in Nat : Is(q, "d2h", j, "out", g) => j <= o
  /\ \A b \in Nat, h \in Groups : Is(q, "compute", b, "bwd", h) => Covered(q, "compute", b, "h2d")

SafeBwd(q, g, p) ==
  IF g < Offloaded
    THEN \E i \in Nat : /\ At(q, "h2d", i, "in", g, p) /\ Covered(q, "h2d", i, "compute")
                        /\ \A j \in Nat : Clobbers(q, j, g) => j <= i
    ELSE \E f \in Nat : /\ At(q, "compute", f, "fwd", g, p)
                        /\ \A j \in Nat : Touches(q, j, g) => j <= f

Safe(q, s, x) ==
  /\ s = "compute" /\ x.op \in {"fwd", "reuse"} => SafeTouch(q, x.group)
  /\ s = "d2h" /\ x.op = "out" => SafeOut(q, x.group, x.pass)
  /\ s = "h2d" /\ x.op = "in" => SafeIn(q, x.group, x.pass)
  /\ s = "compute" /\ x.op = "bwd" => SafeBwd(q, x.group, x.pass)

LEMMA OutsKept ==
  ASSUME NEW q, Ordered(q), NEW s \in Streams, NEW x \in Queued, Safe(q, s, x),
         NEW r, r = Appended(q, s, x)
  PROVE  Outs(r)
<1>1. q \in Queues /\ Outs(q) /\ "compute" \in Streams /\ "d2h" \in Streams
  BY DEF Ordered, Streams
<1>2. PICK n \in Nat : n = Len(q[s])
  BY <1>1, AppendedTypes
<1>3. SUFFICES ASSUME NEW i \in Nat, NEW p \in Nat, NEW g \in Groups, At(r, "d2h", i, "out", g, p)
               PROVE  OutOK(r, i, g, p)
  BY DEF Outs
<1>4. \A j \in Nat : Touches(r, j, g) =>
         \/ Touches(q, j, g)
         \/ s = "compute" /\ j = n + 1 /\ x.op \in {"fwd", "reuse"} /\ x.group = g
  BY <1>1, <1>2, AppendedIs DEF Touches
<1>5. CASE At(q, "d2h", i, "out", g, p)
  <2>1. PICK f \in Nat :
          /\ At(q, "compute", f, "fwd", g, p) /\ Before(q, "compute", f, "d2h", i)
          /\ \A j \in Nat : Touches(q, j, g) => j <= f \/ Before(q, "d2h", i, "compute", j)
    BY <1>1, <1>5 DEF Outs, OutOK
  <2>2. At(r, "compute", f, "fwd", g, p) /\ Before(r, "compute", f, "d2h", i)
    BY <1>1, <2>1, AppendedIs, AppendedBefore
  <2>3. ASSUME NEW j \in Nat, Touches(r, j, g) PROVE j <= f \/ Before(r, "d2h", i, "compute", j)
    <3>1. CASE Touches(q, j, g)
      BY <1>1, <2>1, <3>1, AppendedBefore
    <3>2. CASE s = "compute" /\ j = n + 1 /\ x.op \in {"fwd", "reuse"} /\ x.group = g
      <4>1. Covered(q, "d2h", i, s)
        BY <1>5, <3>2 DEF Safe, SafeTouch, At
      <4>2. QED BY <1>1, <1>2, <3>2, <4>1, AppendedBefore
    <3>3. QED BY <1>4, <2>3, <3>1, <3>2
  <2>4. QED BY <2>2, <2>3 DEF OutOK
<1>6. CASE s = "d2h" /\ i = n + 1 /\ x.op = "out" /\ x.group = g /\ x.pass = p
  <2>1. PICK f \in Nat :
          /\ At(q, "compute", f, "fwd", g, p) /\ Covered(q, "compute", f, "d2h")
          /\ \A j \in Nat : Touches(q, j, g) => j <= f
    BY <1>6 DEF Safe, SafeOut
  <2>2. At(r, "compute", f, "fwd", g, p)
    BY <1>1, <2>1, AppendedIs
  <2>3. Before(r, "compute", f, "d2h", i)
    BY <1>1, <1>2, <1>6, <2>1, AppendedBefore
  <2>4. \A j \in Nat : Touches(r, j, g) => j <= f
    BY <1>4, <1>6, <2>1
  <2>5. QED BY <2>2, <2>3, <2>4 DEF OutOK
<1>7. QED BY <1>1, <1>2, <1>3, <1>5, <1>6, AppendedIs

LEMMA InsKept ==
  ASSUME NEW q, Ordered(q), NEW s \in Streams, NEW x \in Queued, Safe(q, s, x),
         NEW r, r = Appended(q, s, x)
  PROVE  Ins(r)
<1>1. q \in Queues /\ Ins(q) /\ "h2d" \in Streams /\ "d2h" \in Streams
  BY DEF Ordered, Streams
<1>2. PICK n \in Nat : n = Len(q[s])
  BY <1>1, AppendedTypes
<1>3. SUFFICES ASSUME NEW i \in Nat, NEW p \in Nat, NEW g \in Groups, At(r, "h2d", i, "in", g, p)
               PROVE  InOK(r, i, g, p)
  BY DEF Ins
<1>4. \A j \in Nat : Is(r, "d2h", j, "out", g) =>
         Is(q, "d2h", j, "out", g) \/ (s = "d2h" /\ j = n + 1 /\ x.op = "out" /\ x.group = g)
  BY <1>1, <1>2, AppendedIs
<1>5. CASE At(q, "h2d", i, "in", g, p)
  <2>1. PICK o \in Nat :
          /\ At(q, "d2h", o, "out", g, p) /\ Before2(q, "d2h", o, "h2d", i)
          /\ \A j \in Nat : Is(q, "d2h", j, "out", g) => j <= o \/ Before2(q, "h2d", i, "d2h", j)
    BY <1>1, <1>5 DEF Ins, InOK
  <2>2. At(r, "d2h", o, "out", g, p) /\ Before2(r, "d2h", o, "h2d", i)
    BY <1>1, <2>1, AppendedIs, AppendedBefore
  <2>3. ASSUME NEW j \in Nat, Is(r, "d2h", j, "out", g)
        PROVE  j <= o \/ Before2(r, "h2d", i, "d2h", j)
    <3>1. CASE Is(q, "d2h", j, "out", g)
      BY <1>1, <2>1, <3>1, AppendedBefore
    <3>2. CASE s = "d2h" /\ j = n + 1 /\ x.op = "out" /\ x.group = g
      <4>1. Covered2(q, "h2d", i, s)
        BY <1>5, <3>2 DEF Safe, SafeOut, At
      <4>2. QED BY <1>1, <1>2, <3>2, <4>1, AppendedBefore
    <3>3. QED BY <1>4, <2>3, <3>1, <3>2
  <2>4. QED BY <2>2, <2>3 DEF InOK
<1>6. CASE s = "h2d" /\ i = n + 1 /\ x.op = "in" /\ x.group = g /\ x.pass = p
  <2>1. PICK o \in Nat :
          /\ At(q, "d2h", o, "out", g, p) /\ Covered2(q, "d2h", o, "h2d")
          /\ \A j \in Nat : Is(q, "d2h", j, "out", g) => j <= o
    BY <1>6 DEF Safe, SafeIn
  <2>2. At(r, "d2h", o, "out", g, p)
    BY <1>1, <2>1, AppendedIs
  <2>3. Before2(r, "d2h", o, "h2d", i)
    BY <1>1, <1>2, <1>6, <2>1, AppendedBefore
  <2>4. \A j \in Nat : Is(r, "d2h", j, "out", g) => j <= o
    BY <1>4, <1>6, <2>1
  <2>5. QED BY <2>2, <2>3, <2>4 DEF InOK
<1>7. QED BY <1>1, <1>2, <1>3, <1>5, <1>6, AppendedIs

LEMMA BwdsKept ==
  ASSUME NEW q, Ordered(q), NEW s \in Streams, NEW x \in Queued, Safe(q, s, x),
         NEW r, r = Appended(q, s, x)
  PROVE  Bwds(r)
<1>1. q \in Queues /\ Bwds(q) /\ "h2d" \in Streams /\ "compute" \in Streams
  BY DEF Ordered, Streams
<1>2. PICK n \in Nat : n = Len(q[s])
  BY <1>1, AppendedTypes
<1>3. SUFFICES ASSUME NEW b \in Nat, NEW p \in Nat, NEW g \in Groups,
                      At(r, "compute", b, "bwd", g, p)
               PROVE  IF g < Offloaded THEN BwdOK(r, b, g, p) ELSE TopOK(r, b, g, p)
  BY DEF Bwds
<1>4. \A j \in Nat : Clobbers(r, j, g) => Clobbers(q, j, g) \/ (s = "h2d" /\ j = n + 1 /\ x.op = "in")
  BY <1>1, <1>2, AppendedIs DEF Clobbers
<1>5. \A j \in Nat : Touches(r, j, g) =>
         \/ Touches(q, j, g)
         \/ s = "compute" /\ j = n + 1 /\ x.op \in {"fwd", "reuse"} /\ x.group = g
  BY <1>1, <1>2, AppendedIs DEF Touches
<1>6. CASE At(q, "compute", b, "bwd", g, p)
  <2>1. CASE g < Offloaded
    <3>1. PICK i \in Nat :
            /\ At(q, "h2d", i, "in", g, p) /\ Before(q, "h2d", i, "compute", b)
            /\ \A j \in Nat : Clobbers(q, j, g) => j <= i \/ Before(q, "compute", b, "h2d", j)
      BY <1>1, <1>6, <2>1 DEF Bwds, BwdOK
    <3>2. At(r, "h2d", i, "in", g, p) /\ Before(r, "h2d", i, "compute", b)
      BY <1>1, <3>1, AppendedIs, AppendedBefore
    <3>3. ASSUME NEW j \in Nat, Clobbers(r, j, g)
          PROVE  j <= i \/ Before(r, "compute", b, "h2d", j)
      <4>1. CASE Clobbers(q, j, g)
        BY <1>1, <3>1, <4>1, AppendedBefore
      <4>2. CASE s = "h2d" /\ j = n + 1 /\ x.op = "in"
        <5>1. Covered(q, "compute", b, s)
          BY <1>6, <4>2 DEF Safe, SafeIn, At
        <5>2. QED BY <1>1, <1>2, <4>2, <5>1, AppendedBefore
      <4>3. QED BY <1>4, <3>3, <4>1, <4>2
    <3>4. QED BY <2>1, <3>2, <3>3 DEF BwdOK
  <2>2. CASE ~(g < Offloaded)
    <3>1. PICK f \in Nat :
            /\ At(q, "compute", f, "fwd", g, p) /\ f < b
            /\ \A j \in Nat : Touches(q, j, g) => j <= f \/ j > b
      BY <1>1, <1>6, <2>2 DEF Bwds, TopOK
    <3>2. At(r, "compute", f, "fwd", g, p)
      BY <1>1, <3>1, AppendedIs
    <3>3. s = "compute" => n + 1 > b
      BY <1>2, <1>6 DEF At, Is
    <3>4. \A j \in Nat : Touches(r, j, g) => j <= f \/ j > b
      BY <1>5, <3>1, <3>3
    <3>5. QED BY <2>2, <3>1, <3>2, <3>4 DEF TopOK
  <2>3. QED BY <2>1, <2>2
<1>7. CASE s = "compute" /\ b = n + 1 /\ x.op = "bwd" /\ x.group = g /\ x.pass = p
  <2>1. SafeBwd(q, g, p)
    BY <1>7 DEF Safe
  <2>2. CASE g < Offloaded
    <3>1. PICK i \in Nat : /\ At(q, "h2d", i, "in", g, p) /\ Covered(q, "h2d", i, "compute")
                           /\ \A j \in Nat : Clobbers(q, j, g) => j <= i
      BY <2>1, <2>2 DEF SafeBwd
    <3>2. At(r, "h2d", i, "in", g, p)
      BY <1>1, <3>1, AppendedIs
    <3>3. Before(r, "h2d", i, "compute", b)
      BY <1>1, <1>2, <1>7, <3>1, AppendedBefore
    <3>4. \A j \in Nat : Clobbers(r, j, g) => j <= i
      BY <1>4, <1>7, <3>1
    <3>5. QED BY <2>2, <3>2, <3>3, <3>4 DEF BwdOK
  <2>3. CASE ~(g < Offloaded)
    <3>1. PICK f \in Nat : /\ At(q, "compute", f, "fwd", g, p)
                           /\ \A j \in Nat : Touches(q, j, g) => j <= f
      BY <2>1, <2>3 DEF SafeBwd
    <3>2. f < b
      BY <1>2, <1>7, <3>1 DEF At, Is
    <3>3. At(r, "compute", f, "fwd", g, p)
      BY <1>1, <3>1, AppendedIs
    <3>4. \A j \in Nat : Touches(r, j, g) => j <= f
      BY <1>5, <1>7, <3>1
    <3>5. QED BY <2>3, <3>2, <3>3, <3>4 DEF TopOK
  <2>4. QED BY <2>2, <2>3
<1>8. QED BY <1>1, <1>2, <1>3, <1>6, <1>7, AppendedIs

LEMMA OrderedKept ==
  ASSUME NEW q, Ordered(q), NEW s \in Streams, NEW x \in Queued, Safe(q, s, x)
  PROVE  Ordered(Appended(q, s, x))
<1>1. Appended(q, s, x) \in Queues
  BY AppendedTypes DEF Ordered
<1>2. QED BY <1>1, OutsKept, InsKept, BwdsKept DEF Ordered

-----------------------------------------------------------------------------
(* The streams run.                                                         *)
LEMMA BeforeDone ==
  ASSUME DeviceTypes, Waits, NEW s \in Streams, NEW t \in Streams, NEW i \in Nat, NEW j \in Nat,
         j <= done[s] + 1
  PROVE  /\ Before(ops, t, i, s, j) => done[t] >= i
         /\ Before2(ops, t, i, s, j) => done[t] >= i
<1>1. PICK n \in Nat : n = done[s]
  BY DEF DeviceTypes
<1>2. ASSUME NEW u \in Streams, NEW l \in Nat, Before(ops, u, l, s, j) PROVE done[u] >= l
  <2>1. PICK k \in Nat : k < j /\ Awaits(ops, s, k, u, l)
    BY <1>2 DEF Before
  <2>2. k <= n
    BY <1>1, <2>1
  <2>3. QED BY <1>1, <2>1, <2>2 DEF Waits
<1>3. ASSUME Before2(ops, t, i, s, j) PROVE done[t] >= i
  <2>1. "compute" \in Streams
    BY DEF Streams
  <2>2. PICK w \in Nat : Awaits(ops, "compute", w, t, i) /\ Before(ops, "compute", w, s, j)
    BY <1>3 DEF Before2
  <2>3. w <= done["compute"]
    <3>1. done["compute"] \in Nat
      BY <2>1 DEF DeviceTypes
    <3>2. QED BY <1>2, <2>1, <2>2, <3>1
  <2>4. QED BY <2>1, <2>2, <2>3 DEF Waits
<1>4. QED BY <1>2, <1>3

(* The operation a stream runs.                                             *)
LEMMA Running ==
  ASSUME ReadInv, NEW s \in Streams, NEW op, Ready(s, op), Ran(s)
  PROVE  /\ UNCHANGED <<host, handler, ops>>
         /\ \E i \in Nat \ {0} :
              /\ done[s] = i - 1 /\ done'[s] = i /\ i \in 1 .. Len(ops[s])
              /\ ops[s][i] \in Queued /\ ops[s][i].op = op
         /\ \A t \in Streams : t # s => done'[t] = done[t]
         /\ done' \in [Streams -> Nat] /\ \A t \in Streams : done'[t] <= Len(ops[t])
<1>1. DeviceTypes /\ ops \in Queues
  BY DEF ReadInv, DeviceInv, Ordered
<1>2. UNCHANGED <<host, handler, ops>> /\ done' = [done EXCEPT ![s] = done[s] + 1]
  BY DEF Ran
<1>3. PICK n \in Nat : n = done[s]
  BY <1>1 DEF DeviceTypes
<1>4. ops[s] \in Seq(Queued)
  BY <1>1 DEF Queues
<1>5. PICK m \in Nat : m = Len(ops[s])
  BY <1>4
<1>6. n < m /\ ops[s][n + 1].op = op
  BY <1>3, <1>5 DEF Ready
<1>7. ops[s][n + 1] \in Queued
  BY <1>4, <1>5, <1>6
<1>8. done'[s] = n + 1 /\ \A t \in Streams : t # s => done'[t] = done[t]
  BY <1>1, <1>2, <1>3 DEF DeviceTypes
<1>9. done' \in [Streams -> Nat]
  BY <1>1, <1>2, <1>3 DEF DeviceTypes
<1>10. \A t \in Streams : done'[t] <= Len(ops[t])
  <2>1. n + 1 <= m
    BY <1>3, <1>5, <1>6
  <2>2. done'[s] <= Len(ops[s])
    BY <1>5, <1>8, <2>1
  <2>3. QED BY <1>1, <1>8, <2>2 DEF DeviceTypes
<1>11. n + 1 \in Nat \ {0} /\ done[s] = (n + 1) - 1 /\ n + 1 \in 1 .. Len(ops[s])
  BY <1>3, <1>5, <1>6
<1>12. QED BY <1>2, <1>6, <1>7, <1>8, <1>9, <1>10, <1>11

(* What all steps of the streams keep.                                      *)
LEMMA RunKeeps ==
  ASSUME ReadInv, NEW s \in Streams, NEW op, Ready(s, op), Ran(s),
         op = "wait" => done[ops[s][done[s] + 1].on] >= ops[s][done[s] + 1].upTo
  PROVE  /\ Ordered(ops)' /\ Frontier(ops)' /\ Waits'
         /\ (s # "compute" \/ op \notin {"fwd", "reuse"}) /\ gpu' = gpu => GpuValue'
         /\ (s # "d2h" \/ op # "out") /\ cpu' = cpu => CpuValue'
         /\ (s # "h2d" \/ op # "in") /\ reloaded' = reloaded => ReloadedValue'
<1>1. UNCHANGED <<pass, phase, layer, ops>>
  BY Running DEF host
<1>2. Ordered(ops)'
  BY <1>1 DEF ReadInv, Ordered, Outs, Ins, Bwds
<1>3. Frontier(ops)'
  BY <1>1 DEF ReadInv, Frontier, OutsCovered, InsCovered, LastForward, LastOut, LastIn, Reloaded
<1>4. PICK i \in Nat \ {0} :
        /\ done[s] = i - 1 /\ done'[s] = i /\ i \in 1 .. Len(ops[s])
        /\ ops[s][i] \in Queued /\ ops[s][i].op = op
  BY Running
<1>5. \A t \in Streams : t # s => done'[t] = done[t]
  BY Running
<1>6. \A t \in Streams : done[t] \in Nat /\ done'[t] \in Nat /\ done[t] <= done'[t]
  <2>1. \A t \in Streams : done[t] \in Nat /\ done'[t] \in Nat
    BY Running DEF ReadInv, DeviceInv, DeviceTypes
  <2>2. i - 1 <= i
    BY <1>4
  <2>3. QED BY <1>4, <1>5, <2>1, <2>2
<1>7. \A t \in Streams, j \in Nat : j <= done'[t] => j <= done[t] \/ (t = s /\ j = i)
  BY <1>4, <1>5
<1>8. Waits'
  <2>1. ASSUME NEW t \in Streams, NEW u \in Streams, NEW k \in Nat, NEW j \in Nat,
               Awaits(ops, t, k, u, j), k <= done'[t]
        PROVE  done'[u] >= j
    <3>1. CASE k <= done[t]
      <4>1. done[u] >= j
        BY <2>1, <3>1 DEF ReadInv, DeviceInv, Waits
      <4>2. QED BY <1>6, <4>1
    <3>2. CASE t = s /\ k = i
      <4>1. op = "wait" /\ ops[s][i].on = u /\ ops[s][i].upTo >= j
        BY <1>4, <2>1, <3>2 DEF Awaits
      <4>2. done[s] + 1 = i
        BY <1>4
      <4>3. PICK m : m = ops[s][i].upTo
        OBVIOUS
      <4>4. done[u] >= m /\ m >= j
        BY <4>1, <4>2, <4>3
      <4>5. m \in Nat
        BY <1>4, <4>1, <4>3 DEF Queued
      <4>6. QED BY <1>6, <4>4, <4>5
    <3>3. QED BY <1>7, <2>1, <3>1, <3>2
  <2>2. QED BY <1>1, <2>1 DEF Waits
<1>9. ASSUME s # "compute" \/ op \notin {"fwd", "reuse"}, gpu' = gpu PROVE GpuValue'
  <2>1. "compute" \in Streams
    BY DEF Streams
  <2>2. ASSUME NEW g, NEW j \in Nat, Touches(ops, j, g), j <= done'["compute"]
        PROVE  j <= done["compute"]
    <3>1. ~("compute" = s /\ j = i)
      BY <1>4, <1>9, <2>2 DEF Touches, Is
    <3>2. QED BY <1>7, <2>1, <2>2, <3>1
  <2>3. ASSUME NEW g \in Groups, NEW f \in Nat, NEW p \in Nat,
               At(ops, "compute", f, "fwd", g, p), f <= done'["compute"],
               \A j \in Nat : Touches(ops, j, g) => j <= f \/ j > done'["compute"]
        PROVE  gpu[g] = p
    <3>1. f <= done["compute"]
      BY <2>2, <2>3 DEF Touches, At
    <3>2. \A j \in Nat : Touches(ops, j, g) => j <= f \/ j > done["compute"]
      BY <1>6, <2>1, <2>3
    <3>3. QED BY <2>3, <3>1, <3>2 DEF ReadInv, DeviceInv, GpuValue
  <2>4. QED BY <1>1, <1>9, <2>3 DEF GpuValue
<1>10. ASSUME s # "d2h" \/ op # "out", cpu' = cpu PROVE CpuValue'
  <2>1. "d2h" \in Streams
    BY DEF Streams
  <2>2. ASSUME NEW g, NEW j \in Nat, Is(ops, "d2h", j, "out", g), j <= done'["d2h"]
        PROVE  j <= done["d2h"]
    <3>1. ~("d2h" = s /\ j = i)
      BY <1>4, <1>10, <2>2 DEF Is
    <3>2. QED BY <1>7, <2>1, <2>2, <3>1
  <2>3. ASSUME NEW g \in Groups, NEW o \in Nat, NEW p \in Nat,
               At(ops, "d2h", o, "out", g, p), o <= done'["d2h"],
               \A j \in Nat : Is(ops, "d2h", j, "out", g) => j <= o \/ j > done'["d2h"]
        PROVE  cpu[g] = p
    <3>1. o <= done["d2h"]
      BY <2>2, <2>3 DEF At
    <3>2. \A j \in Nat : Is(ops, "d2h", j, "out", g) => j <= o \/ j > done["d2h"]
      BY <1>6, <2>1, <2>3
    <3>3. QED BY <2>3, <3>1, <3>2 DEF ReadInv, DeviceInv, CpuValue
  <2>4. QED BY <1>1, <1>10, <2>3 DEF CpuValue
<1>11. ASSUME s # "h2d" \/ op # "in", reloaded' = reloaded PROVE ReloadedValue'
  <2>1. "h2d" \in Streams
    BY DEF Streams
  <2>2. ASSUME NEW h, NEW j \in Nat, Is(ops, "h2d", j, "in", h), j <= done'["h2d"]
        PROVE  j <= done["h2d"]
    <3>1. ~("h2d" = s /\ j = i)
      BY <1>4, <1>11, <2>2 DEF Is
    <3>2. QED BY <1>7, <2>1, <2>2, <3>1
  <2>3. ASSUME NEW g \in Groups, NEW l \in Nat, NEW p \in Nat,
               At(ops, "h2d", l, "in", g, p), l <= done'["h2d"],
               \A j \in Nat : Clobbers(ops, j, g) => j <= l \/ j > done'["h2d"]
        PROVE  reloaded[g] = p
    <3>1. l <= done["h2d"]
      BY <2>2, <2>3 DEF At
    <3>2. \A j \in Nat : Clobbers(ops, j, g) => j <= l \/ j > done["h2d"]
      BY <1>6, <2>1, <2>3
    <3>3. QED BY <2>3, <3>1, <3>2 DEF ReadInv, DeviceInv, ReloadedValue
  <2>4. QED BY <1>1, <1>11, <2>3 DEF ReloadedValue
<1>12. QED BY <1>2, <1>3, <1>8, <1>9, <1>10, <1>11

(* The operation a stream runs finds what it relies on.                     *)
LEMMA CopyOutReads ==
  ASSUME ReadInv, NEW i \in Nat, NEW g \in Groups, NEW p \in Nat, i = done["d2h"] + 1,
         At(ops, "d2h", i, "out", g, p)
  PROVE  gpu[g] = p
<1>1. DeviceTypes /\ Waits /\ Outs(ops) /\ GpuValue /\ "d2h" \in Streams /\ "compute" \in Streams
  BY DEF ReadInv, DeviceInv, Ordered, Streams
<1>2. PICK f \in Nat :
        /\ At(ops, "compute", f, "fwd", g, p) /\ Before(ops, "compute", f, "d2h", i)
        /\ \A j \in Nat : Touches(ops, j, g) => j <= f \/ Before(ops, "d2h", i, "compute", j)
  BY <1>1 DEF Outs, OutOK
<1>3. PICK c \in Nat, d \in Nat : c = done["compute"] /\ d = done["d2h"] /\ i = d + 1
  BY <1>1 DEF DeviceTypes
<1>4. f <= c
  BY <1>1, <1>2, <1>3, BeforeDone
<1>5. ASSUME NEW j \in Nat, Before(ops, "d2h", i, "compute", j) PROVE j > c
  <2>1. ~(d >= i)
    BY <1>3
  <2>2. ~(j <= done["compute"] + 1)
    BY <1>1, <1>3, <1>5, <2>1, BeforeDone
  <2>3. QED BY <1>3, <2>2
<1>6. \A j \in Nat : Touches(ops, j, g) => j <= f \/ j > c
  BY <1>2, <1>5
<1>7. QED BY <1>1, <1>2, <1>3, <1>4, <1>6 DEF GpuValue

LEMMA CopyInReads ==
  ASSUME ReadInv, NEW i \in Nat, NEW g \in Groups, NEW p \in Nat, i = done["h2d"] + 1,
         At(ops, "h2d", i, "in", g, p)
  PROVE  cpu[g] = p
<1>1. /\ DeviceTypes /\ Waits /\ Ins(ops) /\ CpuValue
      /\ "h2d" \in Streams /\ "d2h" \in Streams
  BY DEF ReadInv, DeviceInv, Ordered, Streams
<1>2. PICK o \in Nat :
        /\ At(ops, "d2h", o, "out", g, p) /\ Before2(ops, "d2h", o, "h2d", i)
        /\ \A j \in Nat : Is(ops, "d2h", j, "out", g) => j <= o \/ Before2(ops, "h2d", i, "d2h", j)
  BY <1>1 DEF Ins, InOK
<1>3. PICK h \in Nat, d \in Nat : h = done["h2d"] /\ d = done["d2h"] /\ i = h + 1
  BY <1>1 DEF DeviceTypes
<1>4. o <= d
  BY <1>1, <1>2, <1>3, BeforeDone
<1>5. ASSUME NEW j \in Nat, Before2(ops, "h2d", i, "d2h", j) PROVE j > d
  <2>1. ~(h >= i)
    BY <1>3
  <2>2. ~(j <= done["d2h"] + 1)
    BY <1>1, <1>3, <1>5, <2>1, BeforeDone
  <2>3. QED BY <1>3, <2>2
<1>6. \A j \in Nat : Is(ops, "d2h", j, "out", g) => j <= o \/ j > d
  BY <1>2, <1>5
<1>7. QED BY <1>1, <1>2, <1>3, <1>4, <1>6 DEF CpuValue

LEMMA BackwardGets ==
  ASSUME ReadInv, NEW b \in Nat, NEW g \in Groups, NEW p \in Nat, b = done["compute"] + 1,
         At(ops, "compute", b, "bwd", g, p)
  PROVE  (IF g < Offloaded THEN reloaded[g] ELSE gpu[g]) = p
<1>1. /\ DeviceTypes /\ Waits /\ Bwds(ops) /\ ReloadedValue /\ GpuValue
      /\ "h2d" \in Streams /\ "compute" \in Streams
  BY DEF ReadInv, DeviceInv, Ordered, Streams
<1>2. PICK c \in Nat, h \in Nat : c = done["compute"] /\ h = done["h2d"] /\ b = c + 1
  BY <1>1 DEF DeviceTypes
<1>3. CASE g < Offloaded
  <2>1. PICK i \in Nat :
          /\ At(ops, "h2d", i, "in", g, p) /\ Before(ops, "h2d", i, "compute", b)
          /\ \A j \in Nat : Clobbers(ops, j, g) => j <= i \/ Before(ops, "compute", b, "h2d", j)
    BY <1>1, <1>3 DEF Bwds, BwdOK
  <2>2. i <= h
    BY <1>1, <1>2, <2>1, BeforeDone
  <2>3. ASSUME NEW j \in Nat, Before(ops, "compute", b, "h2d", j) PROVE j > h
    <3>1. ~(c >= b)
      BY <1>2
    <3>2. ~(j <= done["h2d"] + 1)
      BY <1>1, <1>2, <2>3, <3>1, BeforeDone
    <3>3. QED BY <1>2, <3>2
  <2>4. \A j \in Nat : Clobbers(ops, j, g) => j <= i \/ j > h
    BY <2>1, <2>3
  <2>5. QED BY <1>1, <1>2, <1>3, <2>1, <2>2, <2>4 DEF ReloadedValue
<1>4. CASE ~(g < Offloaded)
  <2>1. PICK f \in Nat :
          /\ At(ops, "compute", f, "fwd", g, p) /\ f < b
          /\ \A j \in Nat : Touches(ops, j, g) => j <= f \/ j > b
    BY <1>1, <1>4 DEF Bwds, TopOK
  <2>2. f <= c /\ \A j \in Nat : j > b => j > c
    BY <1>2, <2>1
  <2>3. QED BY <1>1, <1>2, <1>4, <2>1, <2>2 DEF GpuValue
<1>5. QED BY <1>3, <1>4

(* One step of a stream.                                                    *)
LEMMA WaitedReads ==
  ASSUME ReadInv, NEW s \in Streams, Waited(s)
  PROVE  Ordered(ops)' /\ Frontier(ops)' /\ DeviceInv'
<1>1. /\ Ready(s, "wait") /\ Ran(s) /\ UNCHANGED <<gpu, cpu, reloaded, read>>
      /\ done[ops[s][done[s] + 1].on] >= ops[s][done[s] + 1].upTo
  BY DEF Waited
<1>2. /\ Ordered(ops)' /\ Frontier(ops)' /\ Waits' /\ GpuValue' /\ CpuValue' /\ ReloadedValue'
  BY <1>1, RunKeeps
<1>3. DeviceTypes' /\ BackwardReads'
  BY <1>1, Running DEF ReadInv, DeviceInv, DeviceTypes, host, BackwardReads
<1>4. QED BY <1>2, <1>3 DEF DeviceInv

LEMMA KernelReads ==
  ASSUME ReadInv, ForwardKernel \/ Reuse
  PROVE  Ordered(ops)' /\ Frontier(ops)' /\ DeviceInv'
<1>1. "compute" \in Streams
  BY DEF Streams
<1>2. PICK o : o = ops["compute"][done["compute"] + 1]
  OBVIOUS
<1>3. PICK op \in {"fwd", "reuse"} :
        /\ Ready("compute", op) /\ Ran("compute") /\ UNCHANGED <<cpu, reloaded, read>>
        /\ op = "fwd" => gpu' = IF o.group \in Groups THEN [gpu EXCEPT ![o.group] = o.pass] ELSE gpu
        /\ op = "reuse" => gpu' = [gpu EXCEPT ![o.group] = 0]
  BY <1>2 DEF ForwardKernel, Reuse
<1>4. Ordered(ops)' /\ Frontier(ops)' /\ Waits' /\ CpuValue' /\ ReloadedValue'
  BY <1>1, <1>3, RunKeeps
<1>5. PICK i \in Nat \ {0} :
        /\ done["compute"] = i - 1 /\ done'["compute"] = i /\ i \in 1 .. Len(ops["compute"])
        /\ ops["compute"][i] \in Queued /\ ops["compute"][i].op = op
  BY <1>1, <1>3, Running
<1>6. o = ops["compute"][i]
  BY <1>2, <1>5
<1>7. o.op = op /\ o.group \in Groups /\ o.pass \in Nat
  BY <1>3, <1>5, <1>6 DEF Queued
<1>8. UNCHANGED <<pass, ops>>
  BY <1>1, <1>3, Running DEF host
<1>9. gpu \in [Groups -> Nat] /\ gpu' \in [Groups -> Nat]
  <2>1. gpu \in [Groups -> Nat]
    BY DEF ReadInv, DeviceInv, DeviceTypes
  <2>2. CASE op = "fwd"
    BY <1>3, <1>7, <2>1, <2>2
  <2>3. CASE op = "reuse"
    BY <1>3, <1>7, <2>1, <2>3
  <2>4. QED BY <1>3, <2>2, <2>3
<1>10. DeviceTypes' /\ BackwardReads'
  BY <1>1, <1>3, <1>9, Running DEF ReadInv, DeviceInv, DeviceTypes, host, BackwardReads
<1>11. ASSUME NEW g \in Groups, NEW f \in Nat, NEW p \in Nat,
              At(ops, "compute", f, "fwd", g, p), f <= i,
              \A j \in Nat : Touches(ops, j, g) => j <= f \/ j > i
       PROVE  gpu'[g] = p
  <2>1. CASE o.group = g
    <3>1. Touches(ops, i, g)
      BY <1>3, <1>5, <1>6, <1>7, <2>1 DEF Touches, Is
    <3>2. f = i
      BY <1>11, <3>1
    <3>3. op = "fwd" /\ o.pass = p
      BY <1>6, <1>7, <1>11, <3>2 DEF At, Is
    <3>4. QED BY <1>3, <1>7, <1>9, <2>1, <3>3
  <2>2. CASE o.group # g
    <3>1. gpu'[g] = gpu[g]
      BY <1>3, <1>7, <1>9, <2>2
    <3>2. ~Touches(ops, i, g) /\ f # i
      BY <1>6, <1>11, <2>2 DEF Touches, Is, At
    <3>3. f <= done["compute"]
      BY <1>5, <1>11, <3>2
    <3>4. \A j \in Nat : Touches(ops, j, g) => j <= f \/ j > done["compute"]
      BY <1>5, <1>11
    <3>5. QED BY <1>11, <3>1, <3>3, <3>4 DEF ReadInv, DeviceInv, GpuValue
  <2>3. QED BY <2>1, <2>2
<1>12. GpuValue'
  BY <1>5, <1>8, <1>11 DEF GpuValue
<1>13. QED BY <1>4, <1>10, <1>12 DEF DeviceInv

LEMMA CopyOutRunsReads ==
  ASSUME ReadInv, CopyOutRuns
  PROVE  Ordered(ops)' /\ Frontier(ops)' /\ DeviceInv'
<1>1. "d2h" \in Streams
  BY DEF Streams
<1>2. PICK o : o = ops["d2h"][done["d2h"] + 1]
  OBVIOUS
<1>3. /\ Ready("d2h", "out") /\ Ran("d2h") /\ UNCHANGED <<gpu, reloaded, read>>
      /\ cpu' = [cpu EXCEPT ![o.group] = gpu[o.group]]
  BY <1>2 DEF CopyOutRuns
<1>4. Ordered(ops)' /\ Frontier(ops)' /\ Waits' /\ GpuValue' /\ ReloadedValue'
  BY <1>1, <1>3, RunKeeps
<1>5. PICK i \in Nat \ {0} :
        /\ done["d2h"] = i - 1 /\ done'["d2h"] = i /\ i \in 1 .. Len(ops["d2h"])
        /\ ops["d2h"][i] \in Queued /\ ops["d2h"][i].op = "out"
  BY <1>1, <1>3, Running
<1>6. o = ops["d2h"][i] /\ i = done["d2h"] + 1
  BY <1>2, <1>5
<1>7. o.op = "out" /\ o.group \in Groups /\ o.pass \in Nat
  BY <1>5, <1>6 DEF Queued
<1>8. gpu[o.group] = o.pass
  <2>1. At(ops, "d2h", i, "out", o.group, o.pass)
    BY <1>5, <1>6, <1>7 DEF At, Is
  <2>2. QED BY <1>6, <1>7, <2>1, CopyOutReads
<1>9. UNCHANGED <<pass, ops>>
  BY <1>1, <1>3, Running DEF host
<1>10. cpu \in [Groups -> Nat] /\ cpu' \in [Groups -> Nat]
  BY <1>3, <1>7, <1>8 DEF ReadInv, DeviceInv, DeviceTypes
<1>11. DeviceTypes' /\ BackwardReads'
  BY <1>1, <1>3, <1>10, Running DEF ReadInv, DeviceInv, DeviceTypes, host, BackwardReads
<1>12. ASSUME NEW g \in Groups, NEW f \in Nat, NEW p \in Nat,
              At(ops, "d2h", f, "out", g, p), f <= i,
              \A j \in Nat : Is(ops, "d2h", j, "out", g) => j <= f \/ j > i
       PROVE  cpu'[g] = p
  <2>1. CASE o.group = g
    <3>1. f = i
      BY <1>5, <1>6, <1>7, <1>12, <2>1 DEF Is
    <3>2. o.pass = p
      BY <1>6, <1>12, <3>1 DEF At
    <3>3. QED BY <1>3, <1>7, <1>8, <1>10, <2>1, <3>2
  <2>2. CASE o.group # g
    <3>1. cpu'[g] = cpu[g]
      BY <1>3, <1>7, <1>10, <2>2
    <3>2. f # i
      BY <1>6, <1>12, <2>2 DEF Is, At
    <3>3. f <= done["d2h"]
      BY <1>5, <1>12, <3>2
    <3>4. \A j \in Nat : Is(ops, "d2h", j, "out", g) => j <= f \/ j > done["d2h"]
      BY <1>5, <1>12
    <3>5. QED BY <1>12, <3>1, <3>3, <3>4 DEF ReadInv, DeviceInv, CpuValue
  <2>3. QED BY <2>1, <2>2
<1>13. CpuValue'
  BY <1>5, <1>9, <1>12 DEF CpuValue
<1>14. QED BY <1>4, <1>11, <1>13 DEF DeviceInv

LEMMA CopyInRunsReads ==
  ASSUME ReadInv, CopyInRuns
  PROVE  Ordered(ops)' /\ Frontier(ops)' /\ DeviceInv'
<1>1. "h2d" \in Streams
  BY DEF Streams
<1>2. PICK o : o = ops["h2d"][done["h2d"] + 1]
  OBVIOUS
<1>3. /\ Ready("h2d", "in") /\ Ran("h2d") /\ UNCHANGED <<gpu, cpu, read>>
      /\ reloaded' = [h \in Groups |-> IF h = o.group THEN cpu[o.group]
                                       ELSE IF h > o.group + 1 THEN 0 ELSE reloaded[h]]
  BY <1>2 DEF CopyInRuns
<1>4. Ordered(ops)' /\ Frontier(ops)' /\ Waits' /\ GpuValue' /\ CpuValue'
  BY <1>1, <1>3, RunKeeps
<1>5. PICK i \in Nat \ {0} :
        /\ done["h2d"] = i - 1 /\ done'["h2d"] = i /\ i \in 1 .. Len(ops["h2d"])
        /\ ops["h2d"][i] \in Queued /\ ops["h2d"][i].op = "in"
  BY <1>1, <1>3, Running
<1>6. o = ops["h2d"][i] /\ i = done["h2d"] + 1
  BY <1>2, <1>5
<1>7. o.op = "in" /\ o.group \in Groups /\ o.pass \in Nat
  BY <1>5, <1>6 DEF Queued
<1>8. cpu[o.group] = o.pass
  <2>1. At(ops, "h2d", i, "in", o.group, o.pass)
    BY <1>5, <1>6, <1>7 DEF At, Is
  <2>2. QED BY <1>6, <1>7, <2>1, CopyInReads
<1>9. UNCHANGED <<pass, ops>>
  BY <1>1, <1>3, Running DEF host
<1>10. reloaded' \in [Groups -> Nat]
  BY <1>3, <1>7, <1>8 DEF ReadInv, DeviceInv, DeviceTypes
<1>11. DeviceTypes' /\ BackwardReads'
  BY <1>1, <1>3, <1>10, Running DEF ReadInv, DeviceInv, DeviceTypes, host, BackwardReads
<1>12. Groups \subseteq Int
  BY OneMore DEF Groups
<1>13. ASSUME NEW g \in Groups, NEW f \in Nat, NEW p \in Nat,
              At(ops, "h2d", f, "in", g, p), f <= i,
              \A j \in Nat : Clobbers(ops, j, g) => j <= f \/ j > i
       PROVE  reloaded'[g] = p
  <2>1. CASE Clobbers(ops, i, g)
    <3>1. f = i
      BY <1>13, <2>1
    <3>2. o.group = g /\ o.pass = p
      BY <1>6, <1>13, <3>1 DEF At, Is
    <3>3. QED BY <1>3, <1>8, <3>2
  <2>2. CASE ~Clobbers(ops, i, g)
    <3>1. ~(o.group = g \/ o.group + 1 < g)
      BY <1>5, <1>6, <1>7, <2>2 DEF Clobbers, Is
    <3>2. reloaded'[g] = reloaded[g]
      BY <1>3, <1>7, <1>12, <3>1
    <3>3. f # i
      BY <1>6, <1>13, <3>1 DEF Is, At
    <3>4. f <= done["h2d"]
      BY <1>5, <1>13, <3>3
    <3>5. \A j \in Nat : Clobbers(ops, j, g) => j <= f \/ j > done["h2d"]
      BY <1>5, <1>13
    <3>6. QED BY <1>13, <3>2, <3>4, <3>5 DEF ReadInv, DeviceInv, ReloadedValue
  <2>3. QED BY <2>1, <2>2
<1>14. ReloadedValue'
  BY <1>5, <1>9, <1>13 DEF ReloadedValue
<1>15. QED BY <1>4, <1>11, <1>14 DEF DeviceInv

LEMMA BackwardKernelReads ==
  ASSUME ReadInv, BackwardKernel
  PROVE  Ordered(ops)' /\ Frontier(ops)' /\ DeviceInv'
<1>1. "compute" \in Streams
  BY DEF Streams
<1>2. PICK o : o = ops["compute"][done["compute"] + 1]
  OBVIOUS
<1>3. /\ Ready("compute", "bwd") /\ Ran("compute") /\ UNCHANGED <<gpu, cpu, reloaded>>
      /\ read' = [value |-> IF o.group < Offloaded THEN reloaded[o.group] ELSE gpu[o.group],
                  pass |-> o.pass]
  BY <1>2 DEF BackwardKernel
<1>4. /\ Ordered(ops)' /\ Frontier(ops)' /\ Waits' /\ GpuValue' /\ CpuValue' /\ ReloadedValue'
  BY <1>1, <1>3, RunKeeps
<1>5. PICK i \in Nat \ {0} :
        /\ done["compute"] = i - 1 /\ done'["compute"] = i /\ i \in 1 .. Len(ops["compute"])
        /\ ops["compute"][i] \in Queued /\ ops["compute"][i].op = "bwd"
  BY <1>1, <1>3, Running
<1>6. o = ops["compute"][i] /\ i = done["compute"] + 1
  BY <1>2, <1>5
<1>7. o.op = "bwd" /\ o.group \in Groups /\ o.pass \in Nat
  BY <1>5, <1>6 DEF Queued
<1>8. (IF o.group < Offloaded THEN reloaded[o.group] ELSE gpu[o.group]) = o.pass
  <2>1. At(ops, "compute", i, "bwd", o.group, o.pass)
    BY <1>5, <1>6, <1>7 DEF At, Is
  <2>2. QED BY <1>6, <1>7, <2>1, BackwardGets
<1>9. BackwardReads'
  BY <1>3, <1>8 DEF BackwardReads
<1>10. DeviceTypes'
  BY <1>1, <1>3, Running DEF ReadInv, DeviceInv, DeviceTypes, host
<1>11. QED BY <1>4, <1>9, <1>10 DEF DeviceInv

-----------------------------------------------------------------------------
(* The host queues.                                                         *)
Grows(q, r) ==
  \A t \in Streams : Len(q[t]) <= Len(r[t]) /\ \A i \in 1 .. Len(q[t]) : r[t][i] = q[t][i]

SameOps(q, r) ==
  \A t \in Streams : \A i, op, g, p : op # "wait" =>
    (Is(r, t, i, op, g) <=> Is(q, t, i, op, g)) /\ (At(r, t, i, op, g, p) <=> At(q, t, i, op, g, p))

StaysCovered(q, r) ==
  \A t, u \in Streams : \A i : Covered(q, t, i, u) => Covered(r, t, i, u)

StaysCovered2(q, r) ==
  \A t, u \in Streams : \A i : Covered2(q, t, i, u) => Covered2(r, t, i, u)

LEMMA AppendedGrows ==
  ASSUME NEW q \in Queues, NEW s \in Streams, NEW x \in Queued, NEW r, r = Appended(q, s, x)
  PROVE  Grows(q, r) /\ StaysCovered(q, r) /\ StaysCovered2(q, r)
<1>1. StaysCovered(q, r) /\ StaysCovered2(q, r)
  BY AppendedBefore DEF StaysCovered, StaysCovered2
<1>2. ASSUME NEW t \in Streams PROVE Len(q[t]) <= Len(r[t])
  <2>1. PICK n \in Nat : n = Len(q[t])
    BY AppendedTypes
  <2>2. CASE t = s
    <3>1. Len(r[t]) = n + 1
      BY <2>1, <2>2, AppendedTypes
    <3>2. QED BY <2>1, <3>1
  <2>3. CASE t # s
    <3>1. Len(r[t]) = n
      BY <2>1, <2>3, AppendedTypes
    <3>2. QED BY <2>1, <3>1
  <2>4. QED BY <2>2, <2>3
<1>3. QED BY <1>1, <1>2, AppendedTypes DEF Grows

LEMMA GrowsTwice ==
  ASSUME NEW q \in Queues, NEW r \in Queues, NEW u \in Queues, Grows(q, r), Grows(r, u)
  PROVE  Grows(q, u)
<1>1. ASSUME NEW t \in Streams
      PROVE  Len(q[t]) <= Len(u[t]) /\ \A i \in 1 .. Len(q[t]) : u[t][i] = q[t][i]
  <2>1. PICK a \in Nat, b \in Nat, c \in Nat : a = Len(q[t]) /\ b = Len(r[t]) /\ c = Len(u[t])
    <3>1. q[t] \in Seq(Queued) /\ r[t] \in Seq(Queued) /\ u[t] \in Seq(Queued)
      BY DEF Queues
    <3>2. QED BY <3>1
  <2>2. a <= b /\ b <= c
    BY <2>1 DEF Grows
  <2>3. \A i \in 1 .. a : i \in 1 .. b
    BY <2>2
  <2>4. QED BY <2>1, <2>2, <2>3 DEF Grows
<1>2. QED BY <1>1 DEF Grows

(* A wait.                                                                  *)
LEMMA WaitQueued ==
  ASSUME NEW q, Ordered(q), NEW s \in Streams, NEW t \in Streams, NEW r, r = WaitStream(q, s, t)
  PROVE  /\ Ordered(r) /\ Grows(q, r) /\ SameOps(q, r) /\ StaysCovered(q, r) /\ StaysCovered2(q, r)
         /\ \A i \in 1 .. Len(q[t]) : Covered(r, t, i, s)
         /\ \A u \in Streams : \A i : t = "compute" /\ Covered(q, u, i, t) => Covered2(r, u, i, s)
<1>1. q \in Queues
  BY DEF Ordered
<1>2. PICK x : x = Wait(q, t)
  OBVIOUS
<1>3. PICK n \in Nat : n = Len(q[t])
  BY <1>1, AppendedTypes DEF Queues
<1>4. x = [op |-> "wait", on |-> t, upTo |-> n]
  BY <1>2, <1>3 DEF Wait
<1>5. x \in Queued /\ x.op = "wait" /\ x.on = t /\ x.upTo = n
  BY <1>4 DEF Queued
<1>6. r = Appended(q, s, x)
  BY <1>2 DEF WaitStream, Appended
<1>7. Safe(q, s, x)
  BY <1>5 DEF Safe
<1>8. Ordered(r)
  BY <1>5, <1>6, <1>7, OrderedKept
<1>9. SameOps(q, r)
  BY <1>1, <1>5, <1>6, AppendedIs DEF SameOps
<1>10. ASSUME NEW i \in 1 .. Len(q[t]) PROVE Covered(r, t, i, s)
  <2>1. PICK m \in Nat : m = Len(q[s])
    BY <1>1, <1>5, <1>6, AppendedTypes
  <2>2. x.upTo >= i
    BY <1>3, <1>5, <1>10
  <2>3. Awaits(r, s, m + 1, t, i)
    BY <1>1, <1>5, <1>6, <2>1, <2>2, AppendedIs
  <2>4. QED BY <2>1, <2>3 DEF Covered
<1>11. ASSUME NEW u \in Streams, NEW i, t = "compute", Covered(q, u, i, t) PROVE Covered2(r, u, i, s)
  <2>1. PICK w \in Nat : Awaits(q, "compute", w, u, i)
    BY <1>11 DEF Covered
  <2>2. Covered(r, "compute", w, s)
    BY <1>10, <1>11, <2>1 DEF Awaits
  <2>3. Awaits(r, "compute", w, u, i)
    BY <1>1, <1>5, <1>6, <1>11, <2>1, AppendedIs
  <2>4. QED BY <2>2, <2>3 DEF Covered2
<1>12. QED BY <1>1, <1>5, <1>6, <1>8, <1>9, <1>10, <1>11, AppendedGrows

(* Two waits, as they surround a copy.                                      *)
LEMMA BothWaysQueued ==
  ASSUME NEW q, Ordered(q), NEW s \in Streams, s # "compute", NEW r, r = BothWays(q, s)
  PROVE  /\ Ordered(r) /\ Grows(q, r) /\ SameOps(q, r) /\ StaysCovered(q, r)
         /\ \A i \in 1 .. Len(q["compute"]) : Covered(r, "compute", i, s)
         /\ \A i \in 1 .. Len(q[s]) : Covered(r, s, i, "compute")
         /\ \A t \in Streams : \A i : Covered(q, t, i, "compute") => Covered2(r, t, i, s)
<1>1. "compute" \in Streams /\ q \in Queues
  BY DEF Streams, Ordered
<1>2. PICK a : a = WaitStream(q, s, "compute")
  OBVIOUS
<1>3. /\ Ordered(a) /\ Grows(q, a) /\ SameOps(q, a) /\ StaysCovered(q, a)
      /\ \A i \in 1 .. Len(q["compute"]) : Covered(a, "compute", i, s)
  BY <1>1, <1>2, WaitQueued
<1>4. r = WaitStream(a, "compute", s)
  BY <1>2 DEF BothWays, OneWay
<1>5. /\ Ordered(r) /\ Grows(a, r) /\ SameOps(a, r) /\ StaysCovered(a, r) /\ StaysCovered2(a, r)
      /\ \A i \in 1 .. Len(a[s]) : Covered(r, s, i, "compute")
  BY <1>1, <1>3, <1>4, WaitQueued
<1>6. Grows(q, r)
  BY <1>3, <1>5, GrowsTwice DEF Ordered
<1>7. SameOps(q, r)
  BY <1>3, <1>5 DEF SameOps
<1>8. StaysCovered(q, r)
  BY <1>3, <1>5 DEF StaysCovered
<1>9. \A i \in 1 .. Len(q["compute"]) : Covered(r, "compute", i, s)
  BY <1>1, <1>3, <1>5 DEF StaysCovered
<1>10. \A i \in 1 .. Len(q[s]) : Covered(r, s, i, "compute")
  <2>1. PICK m \in Nat, n \in Nat : m = Len(q[s]) /\ n = Len(a[s])
    <3>1. q[s] \in Seq(Queued) /\ a[s] \in Seq(Queued)
      BY <1>3 DEF Ordered, Queues
    <3>2. QED BY <3>1
  <2>2. m <= n
    BY <1>3, <2>1 DEF Grows
  <2>3. QED BY <1>5, <2>1, <2>2
<1>11. \A t \in Streams : \A i : Covered(q, t, i, "compute") => Covered2(r, t, i, s)
  <2>1. \A t \in Streams : \A i : Covered(q, t, i, "compute") => Covered2(a, t, i, s)
    BY <1>1, <1>2, WaitQueued
  <2>2. QED BY <1>5, <2>1 DEF StaysCovered2
<1>12. QED BY <1>5, <1>6, <1>7, <1>8, <1>9, <1>10, <1>11

(* An operation on a group.                                                 *)
AddsOp(q, r, s, op, g) ==
  /\ \E n \in Nat :
       /\ At(r, s, n + 1, op, g, pass) /\ \A j : \A o, h : Is(q, s, j, o, h) => j <= n
       /\ \A t \in Streams : \A i, o, h :
            Is(r, t, i, o, h) <=> Is(q, t, i, o, h) \/ (t = s /\ i = n + 1 /\ o = op /\ h = g)
  /\ \A t \in Streams : \A i, o, h, p : At(q, t, i, o, h, p) => At(r, t, i, o, h, p)

LEMMA OpQueued ==
  ASSUME NEW q, Ordered(q), NEW s \in Streams, NEW op \in {"fwd", "reuse", "bwd", "out", "in"},
         NEW g \in Groups, pass \in Nat, Safe(q, s, Op(op, g)), NEW r, r = Appended(q, s, Op(op, g))
  PROVE  Ordered(r) /\ Grows(q, r) /\ StaysCovered(q, r) /\ StaysCovered2(q, r) /\ AddsOp(q, r, s, op, g)
<1>1. q \in Queues
  BY DEF Ordered
<1>2. PICK x : x = Op(op, g)
  OBVIOUS
<1>3. x.op = op /\ x.group = g /\ x.pass = pass /\ x \in Queued
  BY <1>2 DEF Op, Queued
<1>4. Ordered(r) /\ Grows(q, r) /\ StaysCovered(q, r) /\ StaysCovered2(q, r)
  BY <1>1, <1>2, <1>3, OrderedKept, AppendedGrows
<1>5. PICK n \in Nat : n = Len(q[s])
  BY <1>1, <1>2, <1>3, AppendedTypes
<1>6. At(r, s, n + 1, op, g, pass)
  BY <1>1, <1>2, <1>3, <1>5, AppendedIs
<1>7. \A t \in Streams : \A i, o, h :
        Is(r, t, i, o, h) <=> Is(q, t, i, o, h) \/ (t = s /\ i = n + 1 /\ o = op /\ h = g)
  BY <1>1, <1>2, <1>3, <1>5, AppendedIs
<1>8. \A t \in Streams : \A i, o, h, p : At(q, t, i, o, h, p) => At(r, t, i, o, h, p)
  BY <1>1, <1>2, <1>3, AppendedIs
<1>9. \A j : \A o, h : Is(q, s, j, o, h) => j <= n
  BY <1>5 DEF Is
<1>10. QED BY <1>4, <1>5, <1>6, <1>7, <1>8, <1>9 DEF AddsOp

LEMMA HostKeepsDevice ==
  ASSUME ReadInv, Ordered(ops'), Grows(ops, ops'), UNCHANGED device, pass' \in Nat
  PROVE  DeviceInv'
<1>1. UNCHANGED <<done, gpu, cpu, reloaded, read>>
  BY DEF device
<1>2. DeviceTypes /\ Waits /\ GpuValue /\ CpuValue /\ ReloadedValue /\ BackwardReads
  BY DEF ReadInv, DeviceInv
<1>3. ASSUME NEW t \in Streams
      PROVE  /\ done[t] \in Nat /\ done[t] <= Len(ops'[t])
             /\ \A i \in Nat : i <= done[t] /\ i \in 1 .. Len(ops'[t])
                                 => i \in 1 .. Len(ops[t]) /\ ops'[t][i] = ops[t][i]
             /\ \A i \in 1 .. Len(ops[t]) : i \in 1 .. Len(ops'[t]) /\ ops'[t][i] = ops[t][i]
  <2>1. ops[t] \in Seq(Queued) /\ ops'[t] \in Seq(Queued)
    BY DEF ReadInv, Ordered, Queues
  <2>2. PICK m \in Nat, n \in Nat : m = Len(ops[t]) /\ n = Len(ops'[t])
    BY <2>1
  <2>3. PICK d \in Nat : d = done[t] /\ d <= m
    BY <1>2, <2>2 DEF DeviceTypes
  <2>4. m <= n /\ \A i \in 1 .. m : ops'[t][i] = ops[t][i]
    BY <2>2 DEF Grows
  <2>5. d <= n
    BY <2>3, <2>4
  <2>6. \A i \in Nat : i <= d /\ i \in 1 .. n => i \in 1 .. m
    BY <2>3
  <2>7. \A i \in 1 .. m : i \in 1 .. n
    BY <2>4
  <2>8. QED BY <2>2, <2>3, <2>4, <2>5, <2>6, <2>7
<1>4. DeviceTypes'
  BY <1>1, <1>2, <1>3 DEF DeviceTypes
<1>5. \A t \in Streams, i \in Nat : \A op, g, p :
        At(ops', t, i, op, g, p) /\ i <= done[t] => At(ops, t, i, op, g, p)
  BY <1>3 DEF At, Is
<1>6. \A t \in Streams, i \in Nat : \A op, g : Is(ops, t, i, op, g) => Is(ops', t, i, op, g)
  BY <1>3 DEF Is
<1>7. "compute" \in Streams /\ "d2h" \in Streams /\ "h2d" \in Streams
  BY DEF Streams
<1>8. Waits'
  <2>1. \A s, t \in Streams, k, i \in Nat :
          Awaits(ops', s, k, t, i) /\ k <= done[s] => Awaits(ops, s, k, t, i)
    BY <1>3 DEF Awaits
  <2>2. QED BY <1>1, <1>2, <2>1 DEF Waits
<1>9. GpuValue'
  <2>1. \A j \in Nat, g \in Groups : Touches(ops, j, g) => Touches(ops', j, g)
    BY <1>6, <1>7 DEF Touches
  <2>2. QED BY <1>1, <1>2, <1>5, <1>7, <2>1 DEF GpuValue
<1>10. CpuValue'
  BY <1>1, <1>2, <1>5, <1>6, <1>7 DEF CpuValue
<1>11. ReloadedValue'
  <2>1. \A j \in Nat, g \in Groups : Clobbers(ops, j, g) => Clobbers(ops', j, g)
    BY <1>6, <1>7 DEF Clobbers
  <2>2. QED BY <1>1, <1>2, <1>5, <1>7, <2>1 DEF ReloadedValue
<1>12. QED BY <1>1, <1>2, <1>4, <1>8, <1>9, <1>10, <1>11 DEF DeviceInv, BackwardReads

LEMMA StartReads ==
  ASSUME ReadInv, StartPass PROVE Ordered(ops)' /\ Frontier(ops)' /\ DeviceInv'
<1>1. /\ ops' = ops /\ UNCHANGED device /\ pass' = pass + 1
      /\ phase = "idle" /\ phase' = "forward" /\ layer' = 0
  BY DEF StartPass
<1>2. Ordered(ops')
  BY <1>1 DEF ReadInv
<1>3. Grows(ops, ops')
  <2>1. \A t \in Streams : ops[t] \in Seq(Queued)
    BY DEF ReadInv, Ordered, Queues
  <2>2. \A t \in Streams : Len(ops[t]) \in Nat
    BY <2>1
  <2>3. QED BY <1>1, <2>2 DEF Grows
<1>4. pass' \in Nat
  BY <1>1 DEF ReadInv, DeviceInv, DeviceTypes
<1>5. Frontier(ops)'
  <2>1. OutsCovered(ops)' /\ InsCovered(ops)'
    BY <1>1 DEF ReadInv, Frontier, OutsCovered, InsCovered
  <2>2. \A g \in Groups : ~(g < layer')
    BY <1>1, OneMore DEF Groups
  <2>3. QED BY <1>1, <2>1, <2>2 DEF Frontier
<1>6. QED BY <1>1, <1>2, <1>3, <1>4, <1>5, HostKeepsDevice

LEMMA ForwardReads ==
  ASSUME ReadInv, Forward PROVE Ordered(ops)' /\ Frontier(ops)' /\ DeviceInv'
<1>1. /\ phase = "forward" /\ BeforeForward /\ kind = "train" /\ layer \in 0..Offloaded
      /\ Ordered(ops) /\ Frontier(ops) /\ pass \in Nat
  BY DEF ReadInv, HostInv, Forward, DeviceInv, DeviceTypes
<1>2. layer \in Groups /\ layer \in Int /\ group = layer /\ state[group] = "none"
  BY <1>1, OneMore DEF BeforeForward, Groups
<1>3. /\ ops' = [ops EXCEPT !["compute"] = Append(@, Op("fwd", layer))]
      /\ phase' = "commit" /\ UNCHANGED <<pass, layer, device>>
  BY <1>1, <1>2 DEF Forward
<1>4. ops' = Appended(ops, "compute", Op("fwd", layer)) /\ Streams = {"compute", "d2h", "h2d"}
  BY <1>3 DEF Appended, Streams
<1>5. Safe(ops, "compute", Op("fwd", layer))
  <2>1. SafeTouch(ops, layer)
    BY <1>1, <1>2 DEF Frontier, OutsCovered, SafeTouch
  <2>2. QED BY <2>1 DEF Safe, Op
<1>6. PICK r : r = ops'
  OBVIOUS
<1>7. Ordered(r) /\ Grows(ops, r) /\ StaysCovered(ops, r) /\ AddsOp(ops, r, "compute", "fwd", layer)
  <2>1. "compute" \in Streams /\ "fwd" \in {"fwd", "reuse", "bwd", "out", "in"}
    BY <1>4
  <2>2. QED BY <1>1, <1>2, <1>4, <1>5, <1>6, <2>1, OpQueued
<1>8. PICK n \in Nat :
        /\ At(r, "compute", n + 1, "fwd", layer, pass)
        /\ \A j : \A o, h : Is(ops, "compute", j, o, h) => j <= n
        /\ \A t \in Streams : \A i, o, h :
             Is(r, t, i, o, h) <=>
               Is(ops, t, i, o, h) \/ (t = "compute" /\ i = n + 1 /\ o = "fwd" /\ h = layer)
  BY <1>7 DEF AddsOp
<1>9. LastForward(r, layer)
  <2>1. ASSUME NEW j \in Nat, Touches(r, j, layer) PROVE j <= n + 1
    BY <1>4, <1>8, <2>1 DEF Touches
  <2>2. n + 1 \in Nat
    OBVIOUS
  <2>3. QED BY <1>8, <2>1, <2>2 DEF LastForward
<1>10. LastForward(ops, layer)'
  BY <1>3, <1>6, <1>9 DEF LastForward
<1>11. OutsCovered(ops)' /\ InsCovered(ops)'
  BY <1>1, <1>3, <1>4, <1>6, <1>7, <1>8 DEF Frontier, OutsCovered, InsCovered, StaysCovered
<1>12. ASSUME NEW g \in Groups, g < layer PROVE LastOut(ops, g)'
  <2>1. PICK o \in Nat : /\ At(ops, "d2h", o, "out", g, pass)
                         /\ \A j \in Nat : Is(ops, "d2h", j, "out", g) => j <= o
    BY <1>1, <1>12 DEF Frontier, LastOut
  <2>2. At(r, "d2h", o, "out", g, pass)
    BY <1>4, <1>7, <2>1 DEF AddsOp
  <2>3. \A j \in Nat : Is(r, "d2h", j, "out", g) => j <= o
    BY <1>4, <1>8, <2>1
  <2>4. QED BY <1>3, <1>6, <2>2, <2>3 DEF LastOut
<1>13. Frontier(ops)'
  BY <1>3, <1>10, <1>11, <1>12 DEF Frontier
<1>14. QED BY <1>1, <1>3, <1>6, <1>7, <1>13, HostKeepsDevice

(* What a commit of the forward queues.                                     *)
LEMMA CommitForwardQueues ==
  ASSUME HostInv, CommitForward
  PROVE  /\ UNCHANGED <<pass, device>> /\ phase = "commit" /\ layer \in 0..Offloaded
         /\ phase' = IF layer < Offloaded THEN "forward" ELSE "backward"
         /\ layer' = IF layer < Offloaded THEN layer + 1 ELSE layer
         /\ layer = 0 =>
              ops' = Appended(WaitStream(ops, "d2h", "compute"), "d2h", Op("out", 0))
         /\ layer > 0 =>
              \E c : /\ c = Appended(BothWays(ops, "d2h"), "compute", Op("reuse", layer - 1))
                     /\ ops' = IF layer < Offloaded THEN Appended(c, "d2h", Op("out", layer)) ELSE c
<1>1. phase = "commit" /\ BeforeCommit /\ kind = "train" /\ layer \in 0..Offloaded
  BY DEF HostInv, CommitForward
<1> DEFINE frees == InWindow(count, group)
           next == count + 1 < Offloaded
           offloads == {g \in Groups : (group = 0 /\ g = 0) \/ (frees /\ next /\ g = count + 1)}
           q1 == IF group = 0 THEN CopyOut(WaitStream(ops, "d2h", "compute"), 0) ELSE ops
           q2 == IF frees THEN Free(BothWays(q1, "d2h"), count) ELSE q1
           q3 == IF frees /\ next THEN CopyOut(q2, count + 1) ELSE q2
<1>2. group = layer /\ count \in 0..Offloaded - 1 /\ (frees <=> layer >= 1)
  BY <1>1, InWindowIs, OneMore DEF BeforeCommit
<1>3. offloads = IF layer < Offloaded THEN {layer} ELSE {}
  BY <1>1, <1>2, OneMore DEF BeforeCommit, Groups
<1>4. \A g \in offloads : state[g] = "gpu"
  <2> HIDE DEF offloads
  <2> QED
    BY <1>1, <1>3, OneMore DEF BeforeCommit, Groups
<1>5. ~(count \notin 0..Offloaded - 1 \/ \E g \in offloads : state[g] = "cpu")
  BY <1>2, <1>4
<1>6. /\ ops' = q3
      /\ layer' = IF layer + 1 < Layers THEN layer + 1 ELSE layer
      /\ phase' = IF layer + 1 < Layers THEN "forward"
                  ELSE IF kind = "nograd" THEN "idle" ELSE "backward"
      /\ UNCHANGED <<pass, device>>
  BY <1>5 DEF CommitForward
<1> HIDE DEF frees, next, offloads
<1>7. layer + 1 < Layers <=> layer < Offloaded
  BY <1>1, OneMore
<1>8. CASE layer = 0
  <2>1. ~frees /\ state[0] = "gpu"
    BY <1>1, <1>2, <1>8, OneMore DEF BeforeCommit, Groups
  <2>2. ops' = CopyOut(WaitStream(ops, "d2h", "compute"), 0)
    BY <1>2, <1>6, <1>8, <2>1
  <2>3. ops' = Appended(WaitStream(ops, "d2h", "compute"), "d2h", Op("out", 0))
    BY <2>1, <2>2 DEF CopyOut, Appended
  <2>4. QED BY <1>1, <1>6, <1>7, <1>8, <2>3
<1>9. CASE layer > 0
  <2>1. frees /\ group # 0 /\ count = layer - 1 /\ (next <=> layer < Offloaded) /\ count + 1 = layer
    BY <1>1, <1>2, <1>9, OneMore DEF BeforeCommit, next
  <2>2. state[count] = "cpu" /\ buf[count] = "gpu" /\ state[layer] = "gpu"
    BY <1>1, <1>9, <2>1, OneMore DEF BeforeCommit, Groups
  <2>3. PICK c : c = Appended(BothWays(ops, "d2h"), "compute", Op("reuse", layer - 1))
    OBVIOUS
  <2>4. q2 = Free(BothWays(ops, "d2h"), count)
    BY <2>1
  <2>5. q2 = c
    BY <2>1, <2>2, <2>3, <2>4 DEF Free, Appended
  <2>6. ops' = IF next THEN CopyOut(c, layer) ELSE c
    BY <1>6, <2>1, <2>5
  <2>7. CopyOut(c, layer) = Appended(c, "d2h", Op("out", layer))
    BY <2>2 DEF CopyOut, Appended
  <2>8. QED BY <1>1, <1>6, <1>7, <1>9, <2>1, <2>3, <2>6, <2>7
<1>10. QED BY <1>1, <1>8, <1>9, OneMore

LEMMA ReadFacts ==
  ASSUME ReadInv
  PROVE  /\ Ordered(ops) /\ Frontier(ops) /\ pass \in Nat
         /\ "compute" \in Streams /\ "d2h" \in Streams /\ "h2d" \in Streams
         /\ Offloaded \in Groups /\ Groups = 0..Layers /\ Offloaded \in Nat /\ Layers = Offloaded + 1
         /\ layer \in 0..Offloaded /\ layer \in Groups
BY OneMore DEF ReadInv, HostInv, DeviceInv, DeviceTypes, Streams, Groups

(* The first commit of a pass.                                              *)
LEMMA FirstCommitReads ==
  ASSUME ReadInv, CommitForward, layer = 0
  PROVE  Ordered(ops)' /\ Frontier(ops)' /\ DeviceInv'
<1>1. /\ UNCHANGED <<pass, device>> /\ phase = "commit" /\ phase' = "forward" /\ layer' = 1
      /\ ops' = Appended(WaitStream(ops, "d2h", "compute"), "d2h", Op("out", 0))
  BY CommitForwardQueues, OneMore DEF ReadInv
<1>2. PICK a : a = WaitStream(ops, "d2h", "compute")
  OBVIOUS
<1>3. PICK r : r = ops' /\ r = Appended(a, "d2h", Op("out", 0))
  BY <1>1, <1>2
<1>4. /\ Ordered(a) /\ Grows(ops, a) /\ SameOps(ops, a) /\ StaysCovered(ops, a)
      /\ \A i \in 1 .. Len(ops["compute"]) : Covered(a, "compute", i, "d2h")
      /\ \A u \in Streams : \A i : Covered(ops, u, i, "compute") => Covered2(a, u, i, "d2h")
  BY <1>2, ReadFacts, WaitQueued
<1>5. 0 \in Groups /\ \A g \in Groups : g \in Int /\ g # -1
  BY ReadFacts
<1>6. ASSUME NEW i \in Nat, NEW g \in Groups, Is(ops, "h2d", i, "in", g) \/ Is(ops, "d2h", i, "out", g)
      PROVE  /\ Is(ops, "h2d", i, "in", g) => Covered(ops, "h2d", i, "compute")
             /\ Is(ops, "d2h", i, "out", g) => Covered(ops, "d2h", i, "compute")
  BY <1>1, <1>5, <1>6, ReadFacts DEF Frontier, OutsCovered, InsCovered
<1>7. SafeOut(a, 0, pass)
  <2>1. PICK f \in Nat : /\ At(ops, "compute", f, "fwd", 0, pass)
                         /\ \A j \in Nat : Touches(ops, j, 0) => j <= f
    BY <1>1, ReadFacts DEF Frontier, LastForward
  <2>2. At(a, "compute", f, "fwd", 0, pass) /\ Covered(a, "compute", f, "d2h")
    <3>1. f \in 1 .. Len(ops["compute"])
      BY <2>1 DEF At, Is
    <3>2. At(a, "compute", f, "fwd", 0, pass)
      BY <1>4, <2>1, ReadFacts DEF SameOps
    <3>3. QED BY <1>4, <3>1, <3>2
  <2>3. \A j \in Nat : Touches(a, j, 0) => j <= f
    BY <1>4, <2>1, ReadFacts DEF SameOps, Touches
  <2>4. \A i \in Nat : Is(a, "h2d", i, "in", 0) => Covered2(a, "h2d", i, "d2h")
    BY <1>4, <1>5, <1>6, ReadFacts DEF SameOps
  <2>5. QED BY <2>2, <2>3, <2>4 DEF SafeOut
<1>8. Safe(a, "d2h", Op("out", 0))
  BY <1>7 DEF Safe, Op
<1>9. Ordered(r) /\ Grows(a, r) /\ StaysCovered(a, r) /\ AddsOp(a, r, "d2h", "out", 0)
  BY <1>3, <1>4, <1>5, <1>8, ReadFacts, OpQueued
<1>10. Grows(ops, r)
  BY <1>4, <1>9, ReadFacts, GrowsTwice DEF Ordered
<1>11. PICK n \in Nat :
        /\ At(r, "d2h", n + 1, "out", 0, pass)
        /\ \A j : \A o, h : Is(a, "d2h", j, o, h) => j <= n
        /\ \A t \in Streams : \A i, o, h :
             Is(r, t, i, o, h) <=>
               Is(a, t, i, o, h) \/ (t = "d2h" /\ i = n + 1 /\ o = "out" /\ h = 0)
  BY <1>9 DEF AddsOp
<1>12. OutsCovered(ops)'
  <2>1. ASSUME NEW i \in Nat, NEW g \in Groups, Is(r, "d2h", i, "out", g)
        PROVE  Covered(r, "d2h", i, "compute") \/ g = 0
    <3>1. CASE Is(ops, "d2h", i, "out", g)
      <4>1. Covered(ops, "d2h", i, "compute")
        BY <1>6, <3>1
      <4>2. Covered(a, "d2h", i, "compute")
        BY <1>4, <4>1, ReadFacts DEF StaysCovered
      <4>3. QED BY <1>9, <4>2, ReadFacts DEF StaysCovered
    <3>2. CASE ~Is(ops, "d2h", i, "out", g)
      <4>1. ~Is(a, "d2h", i, "out", g)
        BY <1>4, <3>2, ReadFacts DEF SameOps
      <4>2. QED BY <1>11, <2>1, <4>1, ReadFacts
    <3>3. QED BY <3>1, <3>2
  <2>2. QED BY <1>1, <1>3, <2>1 DEF OutsCovered
<1>13. InsCovered(ops)'
  <2>1. ASSUME NEW i \in Nat, NEW g \in Groups, Is(r, "h2d", i, "in", g)
        PROVE  Covered(r, "h2d", i, "compute")
    <3>1. Is(ops, "h2d", i, "in", g)
      BY <1>4, <1>11, <2>1, ReadFacts DEF SameOps
    <3>2. QED BY <1>4, <1>6, <1>9, <3>1, ReadFacts DEF StaysCovered
  <2>2. QED BY <1>3, <2>1 DEF InsCovered
<1>14. LastOut(r, 0)
  <2>1. n + 1 \in Nat /\ \A j \in Nat : Is(r, "d2h", j, "out", 0) => j <= n + 1
    BY <1>11, ReadFacts
  <2>2. QED BY <1>11, <2>1 DEF LastOut
<1>15. LastOut(ops, 0)'
  BY <1>1, <1>3, <1>14 DEF LastOut
<1>16. \A g \in Groups : g < 1 => g = 0
  BY ReadFacts
<1>17. Frontier(ops)'
  BY <1>1, <1>12, <1>13, <1>15, <1>16 DEF Frontier
<1>18. QED BY <1>1, <1>3, <1>9, <1>10, <1>17, ReadFacts, HostKeepsDevice

(* The later ones free the group before.                                    *)
LEMMA FreeQueued ==
  ASSUME ReadInv, phase = "commit", layer > 0,
         NEW c, c = Appended(BothWays(ops, "d2h"), "compute", Op("reuse", layer - 1))
  PROVE  /\ Ordered(c) /\ Grows(ops, c) /\ StaysCovered(ops, c)
         /\ \A i \in 1 .. Len(ops["compute"]) : Covered(c, "compute", i, "d2h")
         /\ \A i \in 1 .. Len(ops["d2h"]) : Covered(c, "d2h", i, "compute")
         /\ \A t \in Streams : \A i : Covered(ops, t, i, "compute") => Covered2(c, t, i, "d2h")
         /\ \A t \in Streams : \A i, o, h : o \notin {"wait", "reuse"} =>
              (Is(c, t, i, o, h) <=> Is(ops, t, i, o, h))
         /\ \A t \in Streams : \A i, o, h, p : o # "wait" /\ At(ops, t, i, o, h, p) => At(c, t, i, o, h, p)
         /\ \A j : \A g : g # layer - 1 /\ Touches(c, j, g) => Touches(ops, j, g)
<1>1. PICK b : b = BothWays(ops, "d2h")
  OBVIOUS
<1>2. /\ Ordered(b) /\ Grows(ops, b) /\ SameOps(ops, b) /\ StaysCovered(ops, b)
      /\ \A i \in 1 .. Len(ops["compute"]) : Covered(b, "compute", i, "d2h")
      /\ \A i \in 1 .. Len(ops["d2h"]) : Covered(b, "d2h", i, "compute")
      /\ \A t \in Streams : \A i : Covered(ops, t, i, "compute") => Covered2(b, t, i, "d2h")
  BY <1>1, ReadFacts, BothWaysQueued
<1>3. PICK g \in Groups : g = layer - 1
  BY ReadFacts
<1>4. SafeTouch(b, g)
  <2>1. ASSUME NEW i \in Nat, Is(b, "d2h", i, "out", g) PROVE Covered(b, "d2h", i, "compute")
    <3>1. Is(ops, "d2h", i, "out", g)
      BY <1>2, <2>1, ReadFacts DEF SameOps
    <3>2. i \in 1 .. Len(ops["d2h"])
      BY <3>1 DEF Is
    <3>3. QED BY <1>2, <3>2
  <2>2. QED BY <2>1 DEF SafeTouch
<1>5. Safe(b, "compute", Op("reuse", g))
  BY <1>4 DEF Safe, Op
<1>6. /\ Ordered(c) /\ Grows(b, c) /\ StaysCovered(b, c) /\ StaysCovered2(b, c)
      /\ AddsOp(b, c, "compute", "reuse", g)
  BY <1>1, <1>2, <1>3, <1>5, ReadFacts, OpQueued
<1>7. Grows(ops, c)
  BY <1>2, <1>6, ReadFacts, GrowsTwice DEF Ordered
<1>8. StaysCovered(ops, c)
  BY <1>2, <1>6 DEF StaysCovered
<1>9. /\ \A i \in 1 .. Len(ops["compute"]) : Covered(c, "compute", i, "d2h")
      /\ \A i \in 1 .. Len(ops["d2h"]) : Covered(c, "d2h", i, "compute")
      /\ \A t \in Streams : \A i : Covered(ops, t, i, "compute") => Covered2(c, t, i, "d2h")
  <2>1. \A i \in 1 .. Len(ops["compute"]) : Covered(c, "compute", i, "d2h")
    BY <1>2, <1>6, ReadFacts DEF StaysCovered
  <2>2. \A i \in 1 .. Len(ops["d2h"]) : Covered(c, "d2h", i, "compute")
    BY <1>2, <1>6, ReadFacts DEF StaysCovered
  <2>3. \A t \in Streams : \A i : Covered(ops, t, i, "compute") => Covered2(c, t, i, "d2h")
    BY <1>2, <1>6, ReadFacts DEF StaysCovered2
  <2>4. QED BY <2>1, <2>2, <2>3
<1>10. PICK n \in Nat :
        \A t \in Streams : \A i, o, h :
             Is(c, t, i, o, h) <=>
               Is(b, t, i, o, h) \/ (t = "compute" /\ i = n + 1 /\ o = "reuse" /\ h = g)
  BY <1>6 DEF AddsOp
<1>11. \A t \in Streams : \A i, o, h : o \notin {"wait", "reuse"} =>
              (Is(c, t, i, o, h) <=> Is(ops, t, i, o, h))
  BY <1>2, <1>10 DEF SameOps
<1>12. \A t \in Streams : \A i, o, h, p : o # "wait" /\ At(ops, t, i, o, h, p) => At(c, t, i, o, h, p)
  BY <1>2, <1>6 DEF SameOps, AddsOp
<1>13. \A j : \A h : h # layer - 1 /\ Touches(c, j, h) => Touches(ops, j, h)
  BY <1>2, <1>3, <1>10, ReadFacts DEF SameOps, Touches
<1>14. QED BY <1>6, <1>7, <1>8, <1>9, <1>11, <1>12, <1>13

LEMMA MiddleCommitReads ==
  ASSUME ReadInv, CommitForward, layer > 0, layer < Offloaded
  PROVE  Ordered(ops)' /\ Frontier(ops)' /\ DeviceInv'
<1>1. PICK c : /\ c = Appended(BothWays(ops, "d2h"), "compute", Op("reuse", layer - 1))
               /\ ops' = Appended(c, "d2h", Op("out", layer))
  BY CommitForwardQueues DEF ReadInv
<1>2. UNCHANGED <<pass, device>> /\ phase = "commit" /\ phase' = "forward" /\ layer' = layer + 1
  BY CommitForwardQueues DEF ReadInv
<1>3. /\ Ordered(c) /\ Grows(ops, c) /\ StaysCovered(ops, c)
      /\ \A i \in 1 .. Len(ops["compute"]) : Covered(c, "compute", i, "d2h")
      /\ \A i \in 1 .. Len(ops["d2h"]) : Covered(c, "d2h", i, "compute")
      /\ \A t \in Streams : \A i : Covered(ops, t, i, "compute") => Covered2(c, t, i, "d2h")
      /\ \A t \in Streams : \A i, o, h : o \notin {"wait", "reuse"} =>
           (Is(c, t, i, o, h) <=> Is(ops, t, i, o, h))
      /\ \A t \in Streams : \A i, o, h, p : o # "wait" /\ At(ops, t, i, o, h, p) => At(c, t, i, o, h, p)
      /\ \A j : \A g : g # layer - 1 /\ Touches(c, j, g) => Touches(ops, j, g)
  BY <1>1, <1>2, FreeQueued
<1>4. PICK r : r = ops' /\ r = Appended(c, "d2h", Op("out", layer))
  BY <1>1
<1>5. \A i \in Nat, g \in Groups : Is(ops, "h2d", i, "in", g) => Covered(ops, "h2d", i, "compute")
  BY <1>2, ReadFacts DEF Frontier, InsCovered
<1>6. SafeOut(c, layer, pass)
  <2>1. PICK f \in Nat : /\ At(ops, "compute", f, "fwd", layer, pass)
                         /\ \A j \in Nat : Touches(ops, j, layer) => j <= f
    BY <1>2, ReadFacts DEF Frontier, LastForward
  <2>2. At(c, "compute", f, "fwd", layer, pass) /\ Covered(c, "compute", f, "d2h")
    <3>1. f \in 1 .. Len(ops["compute"])
      BY <2>1 DEF At, Is
    <3>2. At(c, "compute", f, "fwd", layer, pass)
      BY <1>3, <2>1, ReadFacts
    <3>3. QED BY <1>3, <3>1, <3>2
  <2>3. layer # layer - 1
    BY ReadFacts
  <2>4. \A j \in Nat : Touches(c, j, layer) => j <= f
    BY <1>3, <2>1, <2>3
  <2>5. \A i \in Nat : Is(c, "h2d", i, "in", layer) => Covered2(c, "h2d", i, "d2h")
    BY <1>3, <1>5, ReadFacts
  <2>6. QED BY <2>2, <2>4, <2>5 DEF SafeOut
<1>7. Safe(c, "d2h", Op("out", layer))
  BY <1>6 DEF Safe, Op
<1>8. Ordered(r) /\ Grows(c, r) /\ StaysCovered(c, r) /\ AddsOp(c, r, "d2h", "out", layer)
  BY <1>3, <1>4, <1>7, ReadFacts, OpQueued
<1>9. Grows(ops, r)
  BY <1>3, <1>8, ReadFacts, GrowsTwice DEF Ordered
<1>10. PICK n \in Nat :
        /\ At(r, "d2h", n + 1, "out", layer, pass)
        /\ \A j : \A o, h : Is(c, "d2h", j, o, h) => j <= n
        /\ \A t \in Streams : \A i, o, h :
             Is(r, t, i, o, h) <=>
               Is(c, t, i, o, h) \/ (t = "d2h" /\ i = n + 1 /\ o = "out" /\ h = layer)
  BY <1>8 DEF AddsOp
<1>11. OutsCovered(ops)'
  <2>1. ASSUME NEW i \in Nat, NEW g \in Groups, Is(r, "d2h", i, "out", g)
        PROVE  Covered(r, "d2h", i, "compute") \/ g = layer
    <3>1. CASE Is(ops, "d2h", i, "out", g)
      <4>1. i \in 1 .. Len(ops["d2h"])
        BY <3>1 DEF Is
      <4>2. QED BY <1>3, <1>8, <4>1, ReadFacts DEF StaysCovered
    <3>2. CASE ~Is(ops, "d2h", i, "out", g)
      BY <1>3, <1>10, <2>1, <3>2, ReadFacts
    <3>3. QED BY <3>1, <3>2
  <2>2. layer' - 1 = layer
    BY <1>2, ReadFacts
  <2>3. QED BY <1>2, <1>4, <2>1, <2>2 DEF OutsCovered
<1>12. InsCovered(ops)'
  <2>1. ASSUME NEW i \in Nat, NEW g \in Groups, Is(r, "h2d", i, "in", g)
        PROVE  Covered(r, "h2d", i, "compute")
    <3>1. Is(ops, "h2d", i, "in", g)
      BY <1>3, <1>10, <2>1, ReadFacts
    <3>2. QED BY <1>3, <1>5, <1>8, <3>1, ReadFacts DEF StaysCovered
  <2>2. QED BY <1>4, <2>1 DEF InsCovered
<1>13. LastOut(r, layer)
  <2>1. n + 1 \in Nat /\ \A j \in Nat : Is(r, "d2h", j, "out", layer) => j <= n + 1
    BY <1>10, ReadFacts
  <2>2. QED BY <1>10, <2>1 DEF LastOut
<1>14. ASSUME NEW g \in Groups, g < layer PROVE LastOut(r, g)
  <2>1. PICK o \in Nat : /\ At(ops, "d2h", o, "out", g, pass)
                         /\ \A j \in Nat : Is(ops, "d2h", j, "out", g) => j <= o
    BY <1>2, <1>14, ReadFacts DEF Frontier, LastOut
  <2>2. At(r, "d2h", o, "out", g, pass)
    BY <1>3, <1>8, <2>1, ReadFacts DEF AddsOp
  <2>3. g # layer
    BY <1>14, ReadFacts
  <2>4. \A j \in Nat : Is(r, "d2h", j, "out", g) => j <= o
    BY <1>3, <1>10, <2>1, <2>3, ReadFacts
  <2>5. QED BY <2>2, <2>4 DEF LastOut
<1>15. \A g \in Groups : g < layer' => LastOut(ops, g)'
  <2>1. \A g \in Groups : g < layer' => g < layer \/ g = layer
    BY <1>2, ReadFacts
  <2>2. \A g \in Groups : LastOut(r, g) => LastOut(ops, g)'
    BY <1>2, <1>4 DEF LastOut
  <2>3. QED BY <1>13, <1>14, <2>1, <2>2
<1>16. Frontier(ops)'
  BY <1>2, <1>11, <1>12, <1>15 DEF Frontier
<1>17. QED BY <1>2, <1>4, <1>8, <1>9, <1>16, ReadFacts, HostKeepsDevice

LEMMA LastCommitReads ==
  ASSUME ReadInv, CommitForward, layer = Offloaded
  PROVE  Ordered(ops)' /\ Frontier(ops)' /\ DeviceInv'
<1>1. ops' = Appended(BothWays(ops, "d2h"), "compute", Op("reuse", layer - 1))
  BY CommitForwardQueues, OneMore DEF ReadInv
<1>2. UNCHANGED <<pass, device>> /\ phase = "commit" /\ phase' = "backward" /\ layer' = layer
  BY CommitForwardQueues, OneMore DEF ReadInv
<1>3. PICK c : c = ops'
  OBVIOUS
<1>4. layer > 0
  BY OneMore
<1>5. /\ Ordered(c) /\ Grows(ops, c) /\ StaysCovered(ops, c)
      /\ \A i \in 1 .. Len(ops["d2h"]) : Covered(c, "d2h", i, "compute")
      /\ \A t \in Streams : \A i, o, h : o \notin {"wait", "reuse"} =>
           (Is(c, t, i, o, h) <=> Is(ops, t, i, o, h))
      /\ \A t \in Streams : \A i, o, h, p : o # "wait" /\ At(ops, t, i, o, h, p) => At(c, t, i, o, h, p)
      /\ \A j : \A g : g # layer - 1 /\ Touches(c, j, g) => Touches(ops, j, g)
  BY <1>1, <1>2, <1>3, <1>4, FreeQueued
<1>6. OutsCovered(ops)'
  <2>1. ASSUME NEW i \in Nat, NEW g \in Groups, Is(c, "d2h", i, "out", g)
        PROVE  Covered(c, "d2h", i, "compute")
    <3>1. Is(ops, "d2h", i, "out", g)
      BY <1>5, <2>1, ReadFacts
    <3>2. i \in 1 .. Len(ops["d2h"])
      BY <3>1 DEF Is
    <3>3. QED BY <1>5, <3>2
  <2>2. QED BY <1>3, <2>1 DEF OutsCovered
<1>7. InsCovered(ops)'
  <2>1. ASSUME NEW i \in Nat, NEW g \in Groups, Is(c, "h2d", i, "in", g)
        PROVE  Covered(c, "h2d", i, "compute")
    <3>1. Is(ops, "h2d", i, "in", g)
      BY <1>5, <2>1, ReadFacts
    <3>2. Covered(ops, "h2d", i, "compute")
      BY <1>2, <3>1, ReadFacts DEF Frontier, InsCovered
    <3>3. QED BY <1>5, <3>2, ReadFacts DEF StaysCovered
  <2>2. QED BY <1>3, <2>1 DEF InsCovered
<1>8. LastForward(ops, Offloaded)'
  <2>1. PICK f \in Nat : /\ At(ops, "compute", f, "fwd", layer, pass)
                         /\ \A j \in Nat : Touches(ops, j, layer) => j <= f
    BY <1>2, ReadFacts DEF Frontier, LastForward
  <2>2. layer # layer - 1
    BY ReadFacts
  <2>3. At(c, "compute", f, "fwd", layer, pass)
    BY <1>5, <2>1, ReadFacts
  <2>4. \A j \in Nat : Touches(c, j, layer) => j <= f
    BY <1>5, <2>1, <2>2
  <2>5. QED BY <1>2, <1>3, <2>3, <2>4 DEF LastForward
<1>9. ASSUME NEW g \in Groups, g < layer PROVE LastOut(ops, g)'
  <2>1. PICK o \in Nat : /\ At(ops, "d2h", o, "out", g, pass)
                         /\ \A j \in Nat : Is(ops, "d2h", j, "out", g) => j <= o
    BY <1>2, <1>9, ReadFacts DEF Frontier, LastOut
  <2>2. At(c, "d2h", o, "out", g, pass)
    BY <1>5, <2>1, ReadFacts
  <2>3. \A j \in Nat : Is(c, "d2h", j, "out", g) => j <= o
    BY <1>5, <2>1, ReadFacts
  <2>4. QED BY <1>2, <1>3, <2>2, <2>3 DEF LastOut
<1>10. ~(layer' < Offloaded)
  BY <1>2, ReadFacts
<1>11. Frontier(ops)'
  BY <1>2, <1>6, <1>7, <1>8, <1>9, <1>10 DEF Frontier
<1>12. QED BY <1>2, <1>3, <1>5, <1>11, ReadFacts, HostKeepsDevice

(* What a commit of the backward queues.                                    *)
LEMMA CommitBackwardQueues ==
  ASSUME HostInv, CommitBackward
  PROVE  /\ UNCHANGED <<pass, layer, device>> /\ phase = "backward" /\ phase' = "pop"
         /\ layer = 0 => ops' = WaitStream(ops, "compute", "h2d")
         /\ layer > 0 => ops' = Appended(BothWays(ops, "h2d"), "h2d", Op("in", layer - 1))
<1>1. phase = "backward" /\ BeforeReload /\ layer \in 0..Offloaded
  BY DEF HostInv, CommitBackward
<1> DEFINE reloads == InWindow(count - 1, group - 1)
           q1 == IF reloads THEN CopyIn(BothWays(ops, "h2d"), count - 1) ELSE ops
<1>2. /\ group - 1 = layer /\ count - 1 \in 0..Offloaded - 1
      /\ reloads <=> layer >= 1
  BY <1>1, InWindowIs, OneMore DEF BeforeReload
<1>3. ~(group - 1 < 0 \/ count - 1 \notin 0..Offloaded - 1 \/ (reloads /\ count - 1 \notin mapping))
  BY <1>1, <1>2, OneMore DEF BeforeReload
<1>4. /\ ops' = IF group - 1 = 0 THEN WaitStream(q1, "compute", "h2d") ELSE q1
      /\ phase' = "pop" /\ UNCHANGED <<pass, layer, device>>
  BY <1>3 DEF CommitBackward
<1> HIDE DEF reloads
<1>5. CASE layer = 0
  BY <1>1, <1>2, <1>4, <1>5
<1>6. CASE layer > 0
  <2>1. reloads /\ count - 1 = layer - 1 /\ state[layer - 1] = "cpu"
    BY <1>1, <1>2, <1>6, OneMore DEF BeforeReload, Groups
  <2>2. ops' = CopyIn(BothWays(ops, "h2d"), layer - 1)
    BY <1>1, <1>2, <1>4, <1>6, <2>1
  <2>3. ops' = Appended(BothWays(ops, "h2d"), "h2d", Op("in", layer - 1))
    BY <2>1, <2>2 DEF CopyIn, Appended
  <2>4. QED BY <1>1, <1>4, <1>6, <2>3
<1>7. QED BY <1>1, <1>5, <1>6, OneMore

(* The commit of the first layer waits for the last copy to the device.     *)
LEMMA LastReloadReads ==
  ASSUME ReadInv, CommitBackward, layer = 0
  PROVE  Ordered(ops)' /\ Frontier(ops)' /\ DeviceInv'
<1>1. /\ UNCHANGED <<pass, layer, device>> /\ phase = "backward" /\ phase' = "pop"
      /\ ops' = WaitStream(ops, "compute", "h2d")
  BY CommitBackwardQueues DEF ReadInv
<1>2. PICK r : r = ops'
  OBVIOUS
<1>3. /\ Ordered(r) /\ Grows(ops, r) /\ SameOps(ops, r) /\ StaysCovered(ops, r)
      /\ \A i \in 1 .. Len(ops["h2d"]) : Covered(r, "h2d", i, "compute")
  BY <1>1, <1>2, ReadFacts, WaitQueued
<1>4. OutsCovered(ops)'
  <2>1. ASSUME NEW i \in Nat, NEW g \in Groups, Is(r, "d2h", i, "out", g)
        PROVE  Covered(r, "d2h", i, "compute")
    <3>1. Is(ops, "d2h", i, "out", g)
      BY <1>3, <2>1, ReadFacts DEF SameOps
    <3>2. Covered(ops, "d2h", i, "compute")
      BY <1>1, <3>1, ReadFacts DEF Frontier, OutsCovered
    <3>3. QED BY <1>3, <3>2, ReadFacts DEF StaysCovered
  <2>2. QED BY <1>2, <2>1 DEF OutsCovered
<1>5. InsCovered(ops)'
  <2>1. ASSUME NEW i \in Nat, NEW g \in Groups, Is(r, "h2d", i, "in", g)
        PROVE  Covered(r, "h2d", i, "compute")
    <3>1. Is(ops, "h2d", i, "in", g)
      BY <1>3, <2>1, ReadFacts DEF SameOps
    <3>2. i \in 1 .. Len(ops["h2d"])
      BY <3>1 DEF Is
    <3>3. QED BY <1>3, <3>2
  <2>2. QED BY <1>2, <2>1 DEF InsCovered
<1>6. Reloaded(r, 0)
  <2>1. 0 < Offloaded
    BY OneMore
  <2>2. LastIn(ops, 0)
    BY <1>1, <2>1, ReadFacts DEF Frontier
  <2>3. PICK i \in Nat : /\ At(ops, "h2d", i, "in", 0, pass)
                         /\ \A j \in Nat, h \in Groups : Is(ops, "h2d", j, "in", h) => j <= i
    BY <2>2 DEF LastIn
  <2>4. At(r, "h2d", i, "in", 0, pass)
    BY <1>3, <2>3, ReadFacts DEF SameOps
  <2>5. i \in 1 .. Len(ops["h2d"])
    BY <2>3 DEF At, Is
  <2>6. \A j \in Nat : Clobbers(r, j, 0) => j <= i
    BY <1>3, <2>3, ReadFacts DEF SameOps, Clobbers
  <2>7. QED BY <1>3, <2>4, <2>5, <2>6 DEF Reloaded
<1>7. Reloaded(ops, 0)'
  BY <1>1, <1>2, <1>6 DEF Reloaded
<1>8. layer' = 0 /\ 0 # Offloaded /\ (\A g \in Groups : ~(g < -1)) /\ ~(0 >= 1)
  BY <1>1, OneMore DEF Groups
<1>9. Frontier(ops)'
  BY <1>1, <1>4, <1>5, <1>7, <1>8 DEF Frontier
<1>10. QED BY <1>1, <1>2, <1>3, <1>9, ReadFacts, HostKeepsDevice

(* The others queue the copy of the group below.                            *)
LEMMA ReloadReads ==
  ASSUME ReadInv, CommitBackward, layer > 0
  PROVE  Ordered(ops)' /\ Frontier(ops)' /\ DeviceInv'
<1>1. /\ UNCHANGED <<pass, layer, device>> /\ phase = "backward" /\ phase' = "pop"
      /\ ops' = Appended(BothWays(ops, "h2d"), "h2d", Op("in", layer - 1))
  BY CommitBackwardQueues DEF ReadInv
<1>2. PICK b : b = BothWays(ops, "h2d")
  OBVIOUS
<1>3. PICK g \in Groups : g = layer - 1
  BY ReadFacts
<1>4. PICK c : c = ops' /\ c = Appended(b, "h2d", Op("in", g))
  BY <1>1, <1>2, <1>3
<1>5. /\ Ordered(b) /\ Grows(ops, b) /\ SameOps(ops, b) /\ StaysCovered(ops, b)
      /\ \A i \in 1 .. Len(ops["compute"]) : Covered(b, "compute", i, "h2d")
      /\ \A i \in 1 .. Len(ops["h2d"]) : Covered(b, "h2d", i, "compute")
      /\ \A t \in Streams : \A i : Covered(ops, t, i, "compute") => Covered2(b, t, i, "h2d")
  BY <1>2, ReadFacts, BothWaysQueued
<1>6. \A i \in Nat, h \in Groups : Is(ops, "d2h", i, "out", h) => Covered(ops, "d2h", i, "compute")
  BY <1>1, ReadFacts DEF Frontier, OutsCovered
<1>7. SafeIn(b, g, pass)
  <2>1. PICK o \in Nat : /\ At(ops, "d2h", o, "out", g, pass)
                         /\ \A j \in Nat : Is(ops, "d2h", j, "out", g) => j <= o
    <3>1. g < layer
      BY <1>3, ReadFacts
    <3>2. LastOut(ops, g)
      BY <1>1, <3>1, ReadFacts DEF Frontier
    <3>3. QED BY <3>2 DEF LastOut
  <2>2. At(b, "d2h", o, "out", g, pass)
    BY <1>5, <2>1, ReadFacts DEF SameOps
  <2>3. Covered(ops, "d2h", o, "compute")
    BY <1>6, <2>1 DEF At
  <2>4. Covered2(b, "d2h", o, "h2d")
    BY <1>5, <2>3, ReadFacts
  <2>5. \A j \in Nat : Is(b, "d2h", j, "out", g) => j <= o
    BY <1>5, <2>1, ReadFacts DEF SameOps
  <2>6. ASSUME NEW k \in Nat, NEW h \in Groups, Is(b, "compute", k, "bwd", h)
        PROVE  Covered(b, "compute", k, "h2d")
    <3>1. Is(ops, "compute", k, "bwd", h)
      BY <1>5, <2>6, ReadFacts DEF SameOps
    <3>2. k \in 1 .. Len(ops["compute"])
      BY <3>1 DEF Is
    <3>3. QED BY <1>5, <3>2
  <2>7. QED BY <2>2, <2>4, <2>5, <2>6 DEF SafeIn
<1>8. Safe(b, "h2d", Op("in", g))
  BY <1>7 DEF Safe, Op
<1>9. Ordered(c) /\ Grows(b, c) /\ StaysCovered(b, c) /\ AddsOp(b, c, "h2d", "in", g)
  BY <1>4, <1>5, <1>8, ReadFacts, OpQueued
<1>10. Grows(ops, c)
  BY <1>5, <1>9, ReadFacts, GrowsTwice DEF Ordered
<1>11. PICK n \in Nat :
        /\ At(c, "h2d", n + 1, "in", g, pass)
        /\ \A j : \A o, h : Is(b, "h2d", j, o, h) => j <= n
        /\ \A t \in Streams : \A i, o, h :
             Is(c, t, i, o, h) <=>
               Is(b, t, i, o, h) \/ (t = "h2d" /\ i = n + 1 /\ o = "in" /\ h = g)
  BY <1>9 DEF AddsOp
<1>12. \A t \in Streams : \A i, o, h : o \notin {"wait", "in"} => (Is(c, t, i, o, h) <=> Is(ops, t, i, o, h))
  BY <1>5, <1>11 DEF SameOps
<1>13. \A t \in Streams : \A i, o, h, p : o # "wait" /\ At(ops, t, i, o, h, p) => At(c, t, i, o, h, p)
  BY <1>5, <1>9 DEF SameOps, AddsOp
<1>14. \A i : \A h : Is(c, "h2d", i, "in", h) => Is(ops, "h2d", i, "in", h) \/ (i = n + 1 /\ h = g)
  BY <1>5, <1>11, ReadFacts DEF SameOps
<1>15. \A i \in 1 .. Len(ops["h2d"]) : Covered(c, "h2d", i, "compute")
  BY <1>5, <1>9, ReadFacts DEF StaysCovered
<1>16. OutsCovered(ops)'
  <2>1. ASSUME NEW i \in Nat, NEW h \in Groups, Is(c, "d2h", i, "out", h)
        PROVE  Covered(c, "d2h", i, "compute")
    <3>1. Is(ops, "d2h", i, "out", h)
      BY <1>12, <2>1, ReadFacts
    <3>2. Covered(b, "d2h", i, "compute")
      BY <1>5, <1>6, <3>1, ReadFacts DEF StaysCovered
    <3>3. QED BY <1>9, <3>2, ReadFacts DEF StaysCovered
  <2>2. QED BY <1>4, <2>1 DEF OutsCovered
<1>17. InsCovered(ops)'
  <2>1. ASSUME NEW i \in Nat, NEW h \in Groups, Is(c, "h2d", i, "in", h)
        PROVE  Covered(c, "h2d", i, "compute") \/ h = layer - 1
    <3>1. CASE Is(ops, "h2d", i, "in", h)
      <4>1. i \in 1 .. Len(ops["h2d"])
        BY <3>1 DEF Is
      <4>2. QED BY <1>15, <4>1
    <3>2. CASE h = g
      BY <1>3, <3>2
    <3>3. QED BY <1>14, <2>1, <3>1, <3>2
  <2>2. QED BY <1>1, <1>4, <2>1 DEF InsCovered
<1>18. ASSUME layer = Offloaded PROVE LastForward(ops, Offloaded)'
  <2>1. PICK f \in Nat : /\ At(ops, "compute", f, "fwd", Offloaded, pass)
                         /\ \A j \in Nat : Touches(ops, j, Offloaded) => j <= f
    BY <1>1, <1>18, ReadFacts DEF Frontier, LastForward
  <2>2. At(c, "compute", f, "fwd", Offloaded, pass)
    BY <1>13, <2>1, ReadFacts
  <2>3. \A j \in Nat : Touches(c, j, Offloaded) => j <= f
    BY <1>12, <2>1, ReadFacts DEF Touches
  <2>4. QED BY <1>1, <1>4, <2>2, <2>3 DEF LastForward
<1>19. ASSUME NEW h \in Groups, h < layer - 1 PROVE LastOut(ops, h)'
  <2>1. h < layer
    BY <1>19, ReadFacts
  <2>2. LastOut(ops, h)
    BY <1>1, <2>1, ReadFacts DEF Frontier
  <2>3. PICK o \in Nat : /\ At(ops, "d2h", o, "out", h, pass)
                         /\ \A j \in Nat : Is(ops, "d2h", j, "out", h) => j <= o
    BY <2>2 DEF LastOut
  <2>4. At(c, "d2h", o, "out", h, pass)
    BY <1>13, <2>3, ReadFacts
  <2>5. \A j \in Nat : Is(c, "d2h", j, "out", h) => j <= o
    BY <1>12, <2>3, ReadFacts
  <2>6. QED BY <1>1, <1>4, <2>4, <2>5 DEF LastOut
<1>20. ASSUME layer < Offloaded PROVE Reloaded(ops, layer)'
  <2>1. LastIn(ops, layer)
    BY <1>1, <1>20, ReadFacts DEF Frontier
  <2>2. PICK i \in Nat : /\ At(ops, "h2d", i, "in", layer, pass)
                         /\ \A j \in Nat, h \in Groups : Is(ops, "h2d", j, "in", h) => j <= i
    BY <2>1 DEF LastIn
  <2>3. At(c, "h2d", i, "in", layer, pass)
    BY <1>13, <2>2, ReadFacts
  <2>4. i \in 1 .. Len(ops["h2d"])
    BY <2>2 DEF At, Is
  <2>5. ASSUME NEW j \in Nat, Clobbers(c, j, layer) PROVE j <= i
    <3>1. PICK h \in Groups : Is(c, "h2d", j, "in", h) /\ (h = layer \/ h + 1 < layer)
      BY <2>5 DEF Clobbers
    <3>2. h # g
      BY <1>3, <3>1, ReadFacts
    <3>3. Is(ops, "h2d", j, "in", h)
      BY <1>14, <3>1, <3>2
    <3>4. QED BY <2>2, <3>3
  <2>6. Reloaded(c, layer)
    BY <1>15, <2>3, <2>4, <2>5 DEF Reloaded
  <2>7. QED BY <1>1, <1>4, <2>6 DEF Reloaded
<1>21. LastIn(ops, layer - 1)'
  <2>1. ASSUME NEW j \in Nat, NEW h \in Groups, Is(c, "h2d", j, "in", h) PROVE j <= n + 1
    BY <1>11, <2>1, ReadFacts
  <2>2. n + 1 \in Nat
    OBVIOUS
  <2>3. LastIn(c, g)
    BY <1>11, <2>1, <2>2 DEF LastIn
  <2>4. QED BY <1>1, <1>3, <1>4, <2>3 DEF LastIn
<1>22. Frontier(ops)'
  BY <1>1, <1>16, <1>17, <1>18, <1>19, <1>20, <1>21 DEF Frontier
<1>23. QED BY <1>1, <1>4, <1>9, <1>10, <1>22, ReadFacts, HostKeepsDevice

(* The backward of a layer.                                                 *)
LEMMA BackwardQueues ==
  ASSUME ReadInv, Backward, phase = "pop"
  PROVE  Safe(ops, "compute", Op("bwd", layer))
<1>1. CASE layer < Offloaded
  <2>1. Reloaded(ops, layer)
    BY <1>1, ReadFacts DEF Frontier
  <2>2. SafeBwd(ops, layer, pass)
    BY <1>1, <2>1 DEF SafeBwd, Reloaded
  <2>3. QED BY <2>2 DEF Safe, Op
<1>2. CASE layer = Offloaded
  <2>1. LastForward(ops, Offloaded)
    BY <1>2, ReadFacts DEF Frontier
  <2>2. ~(layer < Offloaded)
    BY <1>2, ReadFacts
  <2>3. SafeBwd(ops, layer, pass)
    BY <1>2, <2>1, <2>2 DEF SafeBwd, LastForward
  <2>4. QED BY <2>3 DEF Safe, Op
<1>3. QED BY <1>1, <1>2, ReadFacts

LEMMA BackwardKeepsReads ==
  ASSUME ReadInv, Backward PROVE Ordered(ops)' /\ Frontier(ops)' /\ DeviceInv'
<1>1. phase = "pop" /\ tags[layer] = layer /\ state[layer] = "gpu"
  <2>1. phase = "pop" /\ BeforePop
    BY DEF ReadInv, HostInv, Backward
  <2>2. layer \in Groups /\ layer <= layer /\ ~(layer < layer - 1)
    BY ReadFacts
  <2>3. QED BY <2>1, <2>2 DEF BeforePop
<1>2. /\ layer' = IF layer = 0 THEN 0 ELSE layer - 1
      /\ phase' = IF layer = 0 THEN "idle" ELSE "backward"
      /\ ops' = [ops EXCEPT !["compute"] = Append(@, Op("bwd", layer))]
      /\ UNCHANGED <<pass, device>>
  BY <1>1 DEF Backward
<1>3. PICK c : c = ops' /\ c = Appended(ops, "compute", Op("bwd", layer))
  BY <1>2 DEF Appended
<1>4. Safe(ops, "compute", Op("bwd", layer))
  BY <1>1, BackwardQueues
<1>5. /\ Ordered(c) /\ Grows(ops, c) /\ StaysCovered(ops, c)
      /\ AddsOp(ops, c, "compute", "bwd", layer)
  BY <1>3, <1>4, ReadFacts, OpQueued
<1>6. PICK n \in Nat :
        \A t \in Streams : \A i, o, h :
          Is(c, t, i, o, h) <=>
            Is(ops, t, i, o, h) \/ (t = "compute" /\ i = n + 1 /\ o = "bwd" /\ h = layer)
  BY <1>5 DEF AddsOp
<1>7. \A t \in Streams : \A i, o, h : o # "bwd" => (Is(c, t, i, o, h) <=> Is(ops, t, i, o, h))
  BY <1>6
<1>8. \A t \in Streams : \A i, o, h, p : At(ops, t, i, o, h, p) => At(c, t, i, o, h, p)
  BY <1>5 DEF AddsOp
<1>9. OutsCovered(ops)'
  <2>1. ASSUME NEW i \in Nat, NEW g \in Groups, Is(c, "d2h", i, "out", g)
        PROVE  Covered(c, "d2h", i, "compute")
    <3>1. Is(ops, "d2h", i, "out", g)
      BY <1>7, <2>1, ReadFacts
    <3>2. Covered(ops, "d2h", i, "compute")
      BY <1>1, <3>1, ReadFacts DEF Frontier, OutsCovered
    <3>3. QED BY <1>5, <3>2, ReadFacts DEF StaysCovered
  <2>2. QED BY <1>3, <2>1 DEF OutsCovered
<1>10. InsCovered(ops)'
  <2>1. ASSUME NEW i \in Nat, NEW g \in Groups, Is(c, "h2d", i, "in", g)
        PROVE  Covered(c, "h2d", i, "compute") \/ (phase' = "backward" /\ g = layer')
    <3>1. Is(ops, "h2d", i, "in", g)
      BY <1>7, <2>1, ReadFacts
    <3>2. CASE Covered(ops, "h2d", i, "compute")
      BY <1>5, <3>2, ReadFacts DEF StaysCovered
    <3>3. CASE ~Covered(ops, "h2d", i, "compute")
      <4>1. g = layer - 1
        BY <1>1, <3>1, <3>3, ReadFacts DEF Frontier, InsCovered
      <4>2. layer # 0
        BY <4>1, ReadFacts
      <4>3. QED BY <1>2, <4>1, <4>2
    <3>4. QED BY <3>2, <3>3
  <2>2. QED BY <1>3, <2>1 DEF InsCovered
<1>11. ASSUME NEW g \in Groups, g < layer - 1 PROVE LastOut(ops, g)'
  <2>1. LastOut(ops, g)
    BY <1>1, <1>11, ReadFacts DEF Frontier
  <2>2. PICK o \in Nat : /\ At(ops, "d2h", o, "out", g, pass)
                         /\ \A j \in Nat : Is(ops, "d2h", j, "out", g) => j <= o
    BY <2>1 DEF LastOut
  <2>3. At(c, "d2h", o, "out", g, pass)
    BY <1>8, <2>2, ReadFacts
  <2>4. \A j \in Nat : Is(c, "d2h", j, "out", g) => j <= o
    BY <1>7, <2>2, ReadFacts
  <2>5. QED BY <1>2, <1>3, <2>3, <2>4 DEF LastOut
<1>12. ASSUME layer >= 1, NEW g, g = layer - 1 PROVE LastIn(ops, g)'
  <2>1. LastIn(ops, g)
    BY <1>1, <1>12, ReadFacts DEF Frontier
  <2>2. PICK i \in Nat : /\ At(ops, "h2d", i, "in", g, pass)
                         /\ \A j \in Nat, h \in Groups : Is(ops, "h2d", j, "in", h) => j <= i
    BY <2>1 DEF LastIn
  <2>3. At(c, "h2d", i, "in", g, pass)
    BY <1>8, <2>2, ReadFacts
  <2>4. \A j \in Nat, h \in Groups : Is(c, "h2d", j, "in", h) => j <= i
    BY <1>7, <2>2, ReadFacts
  <2>5. QED BY <1>2, <1>3, <2>3, <2>4 DEF LastIn
<1>13. Frontier(ops)'
  <2>1. CASE layer = 0
    BY <1>2, <1>9, <1>10, <2>1 DEF Frontier
  <2>2. CASE layer # 0
    <3>1. layer >= 1 /\ layer - 1 # Offloaded
      BY <2>2, ReadFacts
    <3>2. PICK g : g = layer - 1
      OBVIOUS
    <3>3. layer' = g /\ phase' = "backward" /\ g # Offloaded
      BY <1>2, <2>2, <3>1, <3>2
    <3>4. LastIn(ops, g)'
      BY <1>12, <3>1, <3>2
    <3>5. LastIn(ops, layer)'
      BY <3>3, <3>4
    <3>6. \A h \in Groups : h < g => LastOut(ops, h)'
      BY <1>11, <3>2
    <3>7. QED BY <1>9, <1>10, <3>3, <3>5, <3>6 DEF Frontier
  <2>3. QED BY <2>1, <2>2
<1>14. QED BY <1>2, <1>3, <1>5, <1>13, ReadFacts, HostKeepsDevice

-----------------------------------------------------------------------------
LEMMA InitReads == TrainOnly /\ Init => ReadInv
<1> SUFFICES ASSUME TrainOnly, Init PROVE ReadInv
  OBVIOUS
<1>1. HostInv /\ phase = "idle"
  BY InitHost DEF Init
<1>2. /\ ops = [s \in Streams |-> << >>] /\ done = [s \in Streams |-> 0] /\ pass = 0
      /\ gpu = [g \in Groups |-> 0] /\ cpu = [g \in Groups |-> 0] /\ reloaded = [g \in Groups |-> 0]
      /\ read.value = read.pass
  BY DEF Init
<1>3. Streams = {"compute", "d2h", "h2d"} /\ \A s \in Streams : ops[s] = << >> /\ done[s] = 0
  BY <1>2 DEF Streams
<1>4. \A s \in Streams : ops[s] \in Seq(Queued) /\ Len(ops[s]) = 0
  <2>1. << >> \in Seq(Queued) /\ Len(<< >>) = 0
    OBVIOUS
  <2>2. QED BY <1>3, <2>1
<1>5. ASSUME NEW s \in Streams PROVE \A i : i \notin 1 .. Len(ops[s])
  BY <1>4
<1>6. \A s \in Streams : \A i, op, g : ~Is(ops, s, i, op, g)
  BY <1>5 DEF Is
<1>7. \A s \in Streams : \A i, op, g, p : ~At(ops, s, i, op, g, p)
  BY <1>6 DEF At
<1>8. \A s \in Streams : \A k, t, i : ~Awaits(ops, s, k, t, i)
  BY <1>5 DEF Awaits
<1>9. Ordered(ops)
  BY <1>2, <1>3, <1>4, <1>7 DEF Ordered, Queues, Outs, Ins, Bwds
<1>10. Frontier(ops)
  BY <1>1, <1>3, <1>6 DEF Frontier, OutsCovered, InsCovered
<1>11. DeviceTypes
  BY <1>2, <1>4 DEF DeviceTypes
<1>12. Waits /\ GpuValue /\ CpuValue /\ ReloadedValue
  BY <1>3, <1>7, <1>8 DEF Waits, GpuValue, CpuValue, ReloadedValue
<1>13. QED BY <1>1, <1>2, <1>9, <1>10, <1>11, <1>12 DEF ReadInv, DeviceInv, BackwardReads

LEMMA HostReads ==
  ASSUME ReadInv, Host PROVE Ordered(ops)' /\ Frontier(ops)' /\ DeviceInv'
<1>1. CASE StartPass
  BY <1>1, StartReads
<1>2. CASE Forward
  BY <1>2, ForwardReads
<1>3. CASE CommitForward
  <2>1. layer = 0 \/ layer = Offloaded \/ (layer > 0 /\ layer < Offloaded)
    BY ReadFacts
  <2>2. QED BY <1>3, <2>1, FirstCommitReads, MiddleCommitReads, LastCommitReads
<1>4. CASE CommitBackward
  <2>1. layer = 0 \/ layer > 0
    BY ReadFacts
  <2>2. QED BY <1>4, <2>1, LastReloadReads, ReloadReads
<1>5. CASE Backward
  BY <1>5, BackwardKeepsReads
<1>6. QED BY <1>1, <1>2, <1>3, <1>4, <1>5 DEF Host

LEMMA DeviceReads ==
  ASSUME ReadInv, Device PROVE Ordered(ops)' /\ Frontier(ops)' /\ DeviceInv'
BY KernelReads, CopyOutRunsReads, CopyInRunsReads, BackwardKernelReads, WaitedReads DEF Device

LEMMA StutterReads ==
  ASSUME ReadInv, UNCHANGED vars PROVE ReadInv'
<1>1. /\ UNCHANGED <<pass, phase, layer, ops, done, gpu, cpu, reloaded, read>>
  BY DEF vars, host, device
<1>2. HostInv'
  BY DeviceHost DEF ReadInv
<1>3. Ordered(ops)'
  BY <1>1 DEF ReadInv
<1>4. Frontier(ops)'
  BY <1>1 DEF ReadInv, Frontier, OutsCovered, InsCovered, LastForward, LastOut, LastIn, Reloaded
<1>5. DeviceInv'
  BY <1>1 DEF ReadInv, DeviceInv, DeviceTypes, Waits, GpuValue, CpuValue, ReloadedValue, BackwardReads
<1>6. QED BY <1>2, <1>3, <1>4, <1>5 DEF ReadInv

LEMMA NextReads == TrainOnly /\ ReadInv /\ [Next]_vars => ReadInv'
<1> SUFFICES ASSUME TrainOnly, ReadInv, [Next]_vars PROVE ReadInv'
  OBVIOUS
<1>1. HostInv'
  BY NextHost DEF ReadInv
<1>2. CASE Host
  BY <1>1, <1>2, HostReads DEF ReadInv
<1>3. CASE Device
  BY <1>1, <1>3, DeviceReads DEF ReadInv
<1>4. CASE Terminated \/ UNCHANGED vars
  BY <1>4, StutterReads DEF Terminated
<1>5. QED BY <1>2, <1>3, <1>4 DEF Next

LEMMA ReadAlways == ASSUME TrainOnly PROVE Spec => []ReadInv
<1>1. Init => ReadInv
  BY InitReads
<1>2. ReadInv /\ [Next]_vars => ReadInv'
  BY NextReads
<1> QED
  BY <1>1, <1>2, PTL DEF Spec

(* Every backward kernel of a run of training passes reads what the forward *)
(* of its layer wrote in the same pass, whatever the number of layers and   *)
(* of passes and however far each stream lags behind the host: the waits of *)
(* synchronize_on_group_commit_forward and on_group_commit_backward put     *)
(* every copy after what it reads and before what would overwrite it.       *)
THEOREM BackwardReadsHolds == ASSUME TrainOnly PROVE Spec => []BackwardReads
<1>1. ReadInv => BackwardReads
  BY DEF ReadInv, DeviceInv
<1>2. QED BY <1>1, ReadAlways, PTL

=============================================================================
