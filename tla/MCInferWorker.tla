---------------------------- MODULE MCInferWorker ----------------------------
(* Three plain requests of one config and adapter, and a stream of another. *)
(* With TwoAdapters, requests of one config are for different adapters.     *)
EXTENDS InferWorker

CONSTANTS a, b, c, s

MCConfigOf == [r \in Request |-> IF r = s THEN "stream" ELSE "plain"]
OneAdapter == [r \in Request |-> IF r = s THEN "lora2" ELSE "lora1"]
TwoAdapters == [OneAdapter EXCEPT ![c] = "lora2"]
=============================================================================
