------------------------- MODULE ActivationOffload --------------------------
(***************************************************************************)
(* The activation offloading of the FSDP callback: the host thread runs    *)
(* the layers forward and backward, saves their activations through the    *)
(* hooks of AsyncDoubleBufferGroupOffloadHandler, one group per layer, and *)
(* queues kernels and copies on three streams of the device, which run on  *)
(* their own and wait for each other only where wait_stream says so.       *)
(* Groups 0 .. Layers - 2 are offloaded.  A pass is one forward of the     *)
(* model and, with gradients, its backward; values are numbered by passes. *)
(***************************************************************************)
EXTENDS Integers, Sequences, FiniteSets

CONSTANTS
  Layers,    \* the wrapped FSDP layers
  MaxPasses, \* bounds the passes
  Kinds      \* of passes: "train", and "nograd" under torch.no_grad

ASSUME OffloadConstants ==
  Layers \in Nat /\ Layers >= 3 /\ MaxPasses \in Nat /\ Kinds \subseteq {"train", "nograd"}

Groups == 0..Layers          \* one more than a pass needs
Offloaded == Layers - 1      \* num_offload_group
Streams == {"compute", "d2h", "h2d"}

VARIABLES
  pass, kind,  \* the number of the pass and its kind
  phase,       \* of the host thread: "idle", "forward", "commit", "backward", "pop"
  layer,       \* the layer the host thread is at
  tags,        \* what the graph keeps of each layer: the group of its tags
  group,       \* current_group
  count,       \* offloaded_group_count
  state,       \* tensor_tag_to_state, all tags of a group together
  buf,         \* tensor_tag_to_buf
  mapping,     \* the keys of group_offload_mapping
  failed,      \* an assertion or a lookup of the handler failed
  ops, done,   \* the operations queued on each stream, and how many of them ran
  gpu, cpu,    \* the values of each group as computed, and in its cpu copy
  reloaded,    \* ... and in the memory it was reloaded to
  read         \* what the last backward kernel read, and the pass it belongs to

host == <<pass, kind, phase, layer, tags>>
handler == <<group, count, state, buf, mapping, failed>>
device == <<done, gpu, cpu, reloaded, read>>
vars == <<host, handler, ops, device>>

Init ==
  /\ pass = 0 /\ kind = "train" /\ phase = "idle" /\ layer = 0
  /\ tags = [l \in Groups |-> -1]
  /\ group = 0 /\ count = 0 /\ mapping = {} /\ failed = FALSE
  /\ state = [g \in Groups |-> "none"] /\ buf = [g \in Groups |-> "none"]
  /\ ops = [s \in Streams |-> << >>] /\ done = [s \in Streams |-> 0]
  /\ gpu = [g \in Groups |-> 0] /\ cpu = [g \in Groups |-> 0]
  /\ reloaded = [g \in Groups |-> 0]
  /\ read = [value |-> 0, pass |-> 0]

-----------------------------------------------------------------------------
(* What is queued: a kernel, a copy, a wait for all that another stream has *)
(* been given so far, or the use of freed memory by whatever comes next.    *)
Op(op, g) == [op |-> op, group |-> g, pass |-> pass]
Wait(queues, s) == [op |-> "wait", on |-> s, upTo |-> Len(queues[s])]

WaitStream(queues, s, on) == [queues EXCEPT ![s] = Append(@, Wait(queues, on))]

(* With a bug: the compute stream does not wait for the copies.             *)
OneWay(queues, s) == WaitStream(queues, s, "compute")

(* The two wait_stream calls before memory is freed or reloaded.            *)
BothWays(queues, s) == WaitStream(OneWay(queues, s), "compute", s)

(* layer_window_map: what an uneven split leaves goes to the first groups.  *)
Spread(i) == IF i < Layers % Offloaded THEN i + 1 ELSE Layers % Offloaded

Window(i) == (Layers \div Offloaded) * (i + 1) - 1 + Spread(i)

InWindow(i, g) == i \in 0..Offloaded - 1 /\ Window(i) = g

(* bulk_offload_group and bulk_reload_group queue a copy of what the group  *)
(* has saved; the memory of popped groups is free for what is reloaded.     *)
CopyOut(queues, g) ==
  IF state[g] = "gpu" THEN [queues EXCEPT !.d2h = Append(@, Op("out", g))] ELSE queues

CopyIn(queues, g) ==
  IF state[g] = "cpu" THEN [queues EXCEPT !.h2d = Append(@, Op("in", g))] ELSE queues

(* The buffer was the last reference to what has been offloaded.            *)
Free(queues, g) ==
  IF state[g] = "cpu" /\ buf[g] = "gpu"
    THEN [queues EXCEPT !.compute = Append(@, Op("reuse", g))]
    ELSE queues

Mapped(offloads) == mapping \cup offloads

(* The exception ends the training.                                         *)
Fail == failed' = TRUE /\ phase' = "stopped" /\ UNCHANGED <<pass, kind, layer, tags, ops>>

-----------------------------------------------------------------------------
StartPass ==
  /\ phase = "idle" /\ pass < MaxPasses
  /\ pass' = pass + 1 /\ kind' \in Kinds /\ phase' = "forward" /\ layer' = 0
  /\ UNCHANGED <<tags, handler, ops, device>>

(* The wrapped forward of a layer: on_save_for_backward gives each tensor a *)
(* tag of the current group (tensor_push). Under no_grad nothing is saved.  *)
Forward ==
  /\ phase = "forward"
  /\ IF kind = "nograd"
       THEN /\ phase' = "commit" /\ ops' = [ops EXCEPT !.compute = Append(@, Op("fwd", -1))]
            /\ UNCHANGED <<pass, kind, layer, tags, state, buf, failed>>
     ELSE IF state[group] # "none"
       THEN Fail /\ UNCHANGED <<state, buf>>
       ELSE /\ state' = [state EXCEPT ![group] = "gpu"]
            /\ buf' = IF group < Offloaded THEN [buf EXCEPT ![group] = "gpu"] ELSE buf
            /\ tags' = [tags EXCEPT ![layer] = group]
            /\ ops' = [ops EXCEPT !.compute = Append(@, Op("fwd", group))]
            /\ phase' = "commit"
            /\ UNCHANGED <<pass, kind, layer, failed>>
  /\ UNCHANGED <<group, count, mapping, device>>

(* on_group_commit_forward.                                                 *)
CommitForward ==
  /\ phase = "commit"
  /\ LET first == group = 0
         frees == InWindow(count, group)
         next == count + 1 < Offloaded
         offloads == {g \in Groups : (first /\ g = 0) \/ (frees /\ next /\ g = count + 1)}
         q1 == IF first THEN CopyOut(WaitStream(ops, "d2h", "compute"), 0) ELSE ops
         q2 == IF frees THEN Free(BothWays(q1, "d2h"), count) ELSE q1
         q3 == IF frees /\ next THEN CopyOut(q2, count + 1) ELSE q2
     IN  IF count \notin 0..Offloaded - 1 \/ \E g \in offloads : state[g] = "cpu"
           THEN Fail /\ UNCHANGED <<group, count, state, buf, mapping>>
           ELSE /\ ops' = q3
                /\ state' = [g \in Groups |->
                     IF g \in offloads /\ state[g] = "gpu" THEN "cpu" ELSE state[g]]
                /\ mapping' = Mapped(offloads)
                /\ buf' = IF frees /\ buf[count] = "gpu" THEN [buf EXCEPT ![count] = "freed"] ELSE buf
                /\ count' = IF frees THEN count + 1 ELSE count
                /\ group' = group + 1
                /\ layer' = IF layer + 1 < Layers THEN layer + 1 ELSE layer
                /\ phase' = IF layer + 1 < Layers THEN "forward"
                            ELSE IF kind = "nograd" THEN "idle" ELSE "backward"
                /\ UNCHANGED <<pass, kind, tags, failed>>
  /\ UNCHANGED device

(* With a bug: the counter goes down to 0 before the last group.            *)
NoFloor(g, reloads) == IF g = 0 THEN 0 ELSE IF reloads THEN count - 1 ELSE count

CountDown(g, reloads) ==
  IF g = 0 THEN 0 ELSE IF reloads /\ count > 1 THEN count - 1 ELSE count

(* on_group_commit_backward, before the backward of its layer.              *)
CommitBackward ==
  /\ phase = "backward"
  /\ LET g == group - 1
         reloads == InWindow(count - 1, g)
         q1 == IF reloads THEN CopyIn(BothWays(ops, "h2d"), count - 1) ELSE ops
         q2 == IF g = 0 THEN WaitStream(q1, "compute", "h2d") ELSE q1
     IN  IF g < 0 \/ count - 1 \notin 0..Offloaded - 1 \/ (reloads /\ count - 1 \notin mapping)
           THEN Fail /\ UNCHANGED <<group, count, state, mapping>>
           ELSE /\ ops' = q2
                /\ group' = g
                /\ state' = IF reloads /\ state[count - 1] = "cpu"
                              THEN [state EXCEPT ![count - 1] = "gpu"] ELSE state
                /\ mapping' = IF reloads THEN mapping \ {count - 1} ELSE mapping
                /\ count' = CountDown(g, reloads)
                /\ phase' = "pop"
                /\ UNCHANGED <<pass, kind, layer, tags, failed>>
  /\ UNCHANGED <<buf, device>>

(* The backward of a layer gets its saved tensors (tensor_pop).             *)
Backward ==
  /\ phase = "pop"
  /\ LET g == tags[layer]
     IN  IF state[g] # "gpu"
           THEN Fail /\ UNCHANGED <<state, buf>>
           ELSE /\ state' = [state EXCEPT ![g] = "none"]
                /\ buf' = [buf EXCEPT ![g] = "none"]
                /\ ops' = [ops EXCEPT !.compute = Append(@, Op("bwd", g))]
                /\ tags' = [tags EXCEPT ![layer] = -1]
                /\ layer' = IF layer = 0 THEN 0 ELSE layer - 1
                /\ phase' = IF layer = 0 THEN "idle" ELSE "backward"
                /\ UNCHANGED <<pass, kind, failed>>
  /\ UNCHANGED <<group, count, mapping, device>>

-----------------------------------------------------------------------------
(* A stream runs its operations in order.                                   *)
Ready(s, op) == /\ done[s] < Len(ops[s])
                /\ ops[s][done[s] + 1].op = op

Ran(s) == done' = [done EXCEPT ![s] = @ + 1] /\ UNCHANGED <<host, handler, ops>>

Waited(s) ==
  /\ Ready(s, "wait")
  /\ LET w == ops[s][done[s] + 1] IN done[w.on] >= w.upTo
  /\ Ran(s) /\ UNCHANGED <<gpu, cpu, reloaded, read>>

ForwardKernel ==
  /\ Ready("compute", "fwd")
  /\ LET op == ops.compute[done.compute + 1]
     IN  gpu' = IF op.group \in Groups THEN [gpu EXCEPT ![op.group] = op.pass] ELSE gpu
  /\ Ran("compute") /\ UNCHANGED <<cpu, reloaded, read>>

(* Freed memory is given to the next kernels.                               *)
Reuse ==
  /\ Ready("compute", "reuse")
  /\ gpu' = [gpu EXCEPT ![ops.compute[done.compute + 1].group] = 0]
  /\ Ran("compute") /\ UNCHANGED <<cpu, reloaded, read>>

CopyOutRuns ==
  /\ Ready("d2h", "out")
  /\ LET g == ops.d2h[done.d2h + 1].group IN cpu' = [cpu EXCEPT ![g] = gpu[g]]
  /\ Ran("d2h") /\ UNCHANGED <<gpu, reloaded, read>>

(* A copy to the device may take the memory of the groups that were popped  *)
(* before it was queued.                                                    *)
CopyInRuns ==
  /\ Ready("h2d", "in")
  /\ LET g == ops.h2d[done.h2d + 1].group
     IN  reloaded' = [h \in Groups |-> IF h = g THEN cpu[g] ELSE IF h > g + 1 THEN 0 ELSE reloaded[h]]
  /\ Ran("h2d") /\ UNCHANGED <<gpu, cpu, read>>

BackwardKernel ==
  /\ Ready("compute", "bwd")
  /\ LET op == ops.compute[done.compute + 1]
     IN  read' = [value |-> IF op.group < Offloaded THEN reloaded[op.group] ELSE gpu[op.group],
                  pass |-> op.pass]
  /\ Ran("compute") /\ UNCHANGED <<gpu, cpu, reloaded>>

Terminated ==
  /\ phase = "stopped" \/ (phase = "idle" /\ pass = MaxPasses)
  /\ \A s \in Streams : done[s] = Len(ops[s])
  /\ UNCHANGED vars

Host == StartPass \/ Forward \/ CommitForward \/ CommitBackward \/ Backward
Device ==
  \/ ForwardKernel \/ Reuse \/ CopyOutRuns \/ CopyInRuns \/ BackwardKernel
  \/ \E s \in Streams : Waited(s)

Next == Host \/ Device \/ Terminated

Spec == Init /\ [][Next]_vars

-----------------------------------------------------------------------------
(* The handler's tables agree: a group of offloaded tensors has its copies  *)
(* in the mapping, and one that has not been popped its tags in the graph   *)
(* (AsyncDoubleBufferGroupOffloadHandler).                                  *)
TypeOK ==
  /\ group \in 0..Layers /\ count \in 0..Offloaded
  /\ state \in [Groups -> {"none", "gpu", "cpu"}] /\ buf \in [Groups -> {"none", "gpu", "freed"}]
  /\ \A g \in Groups :
       /\ state[g] = "cpu" => g \in mapping
       /\ state[g] # "none" => \E l \in Groups : tags[l] = g
       /\ buf[g] = "freed" => g < count \/ state[g] = "gpu"

(* Each backward kernel reads the activations its layer saved in this pass: *)
(* no copy runs before its data is there, and no memory is used again       *)
(* before the copy that reads it (synchronize_on_group_commit_forward,      *)
(* on_group_commit_backward).                                               *)
BackwardReads == read.value = read.pass

OnGpu == {g \in Groups : state[g] = "gpu" \/ buf[g] = "gpu"}

(* The host keeps the activations of at most two groups on the device       *)
(* (enable_activation_offloading).                                          *)
TwoGroups == Cardinality(OnGpu) <= 2

(* No assertion and no lookup of the handler fails, and a pass leaves the   *)
(* handler as it found it, ready for the next (on_group_commit_backward).   *)
HandlerReset ==
  /\ ~failed
  /\ phase = "idle" =>
       /\ group = 0 /\ count = 0 /\ mapping = {}
       /\ \A g \in Groups : state[g] = "none" /\ buf[g] = "none"
=============================================================================
