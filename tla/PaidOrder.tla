------------------------------- MODULE PaidOrder -------------------------------
(***************************************************************************)
(* What online payment promises about each order of a checkout: its money is   *)
(* taken once, it goes to the seller only after that, and the money goes back   *)
(* once, and only for an order that was cancelled.                              *)
(***************************************************************************)
EXTENDS Naturals

CONSTANT Orders

VARIABLES
  life,   \* "open", "sold" (with the seller) or "cancelled"
  money   \* what the platform took for the order and what it gave back

vars == <<life, money>>

Nothing == [in |-> 0, out |-> 0]
Taken == [in |-> 1, out |-> 0]
GivenBack == [in |-> 1, out |-> 1]

Init ==
  /\ life = [o \in Orders |-> "open"]
  /\ money = [o \in Orders |-> Nothing]

\* The payment arrives, in time or not.
Capture(o) ==
  /\ money[o] = Nothing
  /\ money' = [money EXCEPT ![o] = Taken]
  /\ UNCHANGED life

Sell(o) ==
  /\ life[o] = "open" /\ money[o] = Taken
  /\ life' = [life EXCEPT ![o] = "sold"]
  /\ UNCHANGED money

\* Some orders are cancelled together.
Cancel(S) ==
  /\ \A o \in S : life[o] # "cancelled"
  /\ life' = [o \in Orders |-> IF o \in S THEN "cancelled" ELSE life[o]]
  /\ UNCHANGED money

GiveBack(o) ==
  /\ life[o] = "cancelled" /\ money[o] = Taken
  /\ money' = [money EXCEPT ![o] = GivenBack]
  /\ UNCHANGED life

Next ==
  \/ \E o \in Orders : Capture(o) \/ Sell(o) \/ GiveBack(o)
  \/ \E S \in SUBSET Orders : Cancel(S)

Spec == Init /\ [][Next]_vars
================================================================================
