----------------------------- MODULE MCPacking ------------------------------
(* Samples of three lengths, one longer than a row, and one not encodable.  *)
EXTENDS Packing

SampleLengths == {-1, 1, 2, 4}
=============================================================================
