---------------------------- MODULE MCReturnRequest ----------------------------
(* ReturnRequest for TLC: calls, and riders, are interchangeable. *)
EXTENDS ReturnRequest, TLC

Interchangeable == Permutations(Calls) \cup Permutations(Boys)
================================================================================
