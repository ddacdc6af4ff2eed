--------------------------- MODULE MCSellerPayout ---------------------------
(* Small instances of SellerPayout for TLC. *)
EXTENDS SellerPayout, TLC

\* Handlers and settlement runs are interchangeable (runs without liveness).
Interchangeable == Permutations(Calls) \cup Permutations(Settlers)
=============================================================================
