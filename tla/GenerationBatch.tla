--------------------------- MODULE GenerationBatch ---------------------------
(***************************************************************************)
(* The shape of a generation batch of GRPOTrainer: Ranks processes with    *)
(* Local samples each, every prompt Group times in a row over all ranks,   *)
(* trained on in MiniBatches mini batches.                                 *)
(***************************************************************************)
EXTENDS Integers

CONSTANTS
  Ranks,       \* num_processes
  Local,       \* samples of a generation batch on each rank
  Group,       \* num_generations
  MiniBatches  \* steps_per_generation

Rank == 1..Ranks
Global == Ranks * Local              \* generation_batch_size
MiniBatch == Local \div MiniBatches  \* per_device_train_batch_size

ASSUME BatchShape ==
  /\ {Ranks, Local, Group, MiniBatches} \subseteq Nat \ {0}
  /\ Global % Group = 0 /\ Local % MiniBatches = 0
=============================================================================
