-------------------------- MODULE MCOrderWorkflow --------------------------
(* Small instances of OrderWorkflow for TLC. *)
EXTENDS OrderWorkflow, TLC

\* Riders and workers are interchangeable (used in runs without liveness).
Interchangeable == Permutations(Riders) \cup Permutations(Workers)
=============================================================================
