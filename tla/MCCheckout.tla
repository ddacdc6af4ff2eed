----------------------------- MODULE MCCheckout -----------------------------
(* Small instances of Checkout for TLC. *)
EXTENDS Checkout, TLC

\* Requests and baskets are interchangeable (runs without liveness).
Interchangeable == Permutations(Requests) \cup Permutations(Baskets)
=============================================================================
