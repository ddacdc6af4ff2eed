------------------------------- MODULE MCPayment -------------------------------
(* Payment for TLC: calls of one kind are interchangeable. *)
EXTENDS Payment, TLC

Interchangeable ==
  Permutations(Creators) \cup Permutations(Verifiers) \cup Permutations(Cancellers)
================================================================================
