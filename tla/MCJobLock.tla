-------------------------------- MODULE MCJobLock --------------------------------
(* JobLock for TLC: runs are interchangeable. *)
EXTENDS JobLock, TLC

Interchangeable == Permutations(Runs)
================================================================================
