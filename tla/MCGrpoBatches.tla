---------------------------- MODULE MCGrpoBatches ----------------------------
(* Two ranks with two groups each; the first prompt may fail to encode.     *)
EXTENDS GrpoBatches

FirstPrompt == {[source |-> "train", n |-> 0]}
=============================================================================
