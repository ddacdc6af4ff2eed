-------------------------------- MODULE MCLoyalty --------------------------------
(* Loyalty for TLC: calls of one kind are interchangeable. *)
EXTENDS Loyalty, TLC

Interchangeable ==
  Permutations(Placements) \cup Permutations(Settlers) \cup Permutations(Reversers)

Same == [i \in Sellers |-> 1]
LastIsSmall == [i \in Sellers |-> IF i = NumSellers THEN 1 ELSE 3]
LastIsFree == [i \in Sellers |-> IF i = NumSellers THEN 0 ELSE 1]
================================================================================
