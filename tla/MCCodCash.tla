---------------------------- MODULE MCCodCash ----------------------------
(* CodCash for TLC: calls, and riders, are interchangeable. *)
EXTENDS CodCash, TLC

CONSTANTS r1, r2, c1, c2

NothingOdd == {}
NamedFirst == {<<"named", 1>>}
RiderlessFirst == {<<"riderless", 1>>}
BackoutFirst == {<<"backout", 1>>}
OddFirst == NamedFirst \cup RiderlessFirst \cup BackoutFirst

Interchangeable == Permutations(Calls) \cup Permutations(Riders)
=============================================================================
