--------------------------- MODULE CheckoutService ---------------------------
(***************************************************************************)
(* What a checkout promises its customer, without Redis, locks or            *)
(* transactions: a request either places one order, taking one unit of stock *)
(* and of wallet money in the same instant, or it does not. While the order   *)
(* of an idempotency key is remembered no other is placed under that key, and *)
(* a request is only told of an order that was placed.                        *)
(***************************************************************************)
EXTENDS Integers

CONSTANTS Requests, Keys, NoKey, Baskets

VARIABLES
  stock,   \* units left
  money,   \* what the customer's wallet holds
  sold,    \* the orders placed: who asked, under which key, for what
  open,    \* the keys whose order is remembered
  told     \* what each request was told: nothing yet, its order, or another's

vars == <<stock, money, sold, open, told>>

Init ==
  /\ stock \in Nat /\ money \in Nat
  /\ sold = {} /\ open = {}
  /\ told = [r \in Requests |-> "nothing"]

\* Request r places its order.
Place(r, k, b) ==
  /\ stock > 0 /\ money > 0
  /\ k \notin open
  /\ \A s \in sold : s.by # r
  /\ sold' = sold \cup {[by |-> r, key |-> k, basket |-> b]}
  /\ stock' = stock - 1 /\ money' = money - 1
  /\ open' = open \cup ({k} \ {NoKey})
  /\ UNCHANGED told

\* The order of a key is forgotten: the key may be used again.
Forget(k) ==
  /\ open' = open \ {k}
  /\ UNCHANGED <<stock, money, sold, told>>

\* A request hears of its own order, or of the order placed under its key.
TellPlaced(r) ==
  /\ told[r] = "nothing"
  /\ \E s \in sold : s.by = r
  /\ told' = [told EXCEPT ![r] = "placed"]
  /\ UNCHANGED <<stock, money, sold, open>>

TellDuplicate(r, k) ==
  /\ told[r] = "nothing"
  /\ \E s \in sold : s.key = k
  /\ told' = [told EXCEPT ![r] = "duplicate"]
  /\ UNCHANGED <<stock, money, sold, open>>

Next ==
  \/ \E r \in Requests :
       \/ \E k \in Keys \cup {NoKey}, b \in Baskets : Place(r, k, b)
       \/ TellPlaced(r)
       \/ \E k \in Keys : TellDuplicate(r, k)
  \/ \E k \in Keys : Forget(k)

Spec == Init /\ [][Next]_vars
=============================================================================
