--------------------------- MODULE OrderLifecycle ---------------------------
(***************************************************************************)
(* What the platform promises about one order, whatever goes on inside:    *)
(* it is delivered or cancelled at most once and for good, and the stock    *)
(* that placement took is given back exactly when it is cancelled, once.    *)
(* OrderWorkflow is shown to implement this specification.                  *)
(***************************************************************************)
VARIABLES phase,  \* "open", "delivered" or "cancelled"
          hold    \* "held" while the order owns its stock, then "returned"

vars == <<phase, hold>>

Init == phase = "open" /\ hold = "held"

Deliver == phase = "open" /\ phase' = "delivered" /\ UNCHANGED hold

Cancel == phase = "open" /\ phase' = "cancelled" /\ hold' \in {"held", "returned"}

ReturnStock == phase = "cancelled" /\ hold = "held"
               /\ hold' = "returned" /\ UNCHANGED phase

Next == Deliver \/ Cancel \/ ReturnStock

Spec == Init /\ [][Next]_vars
=============================================================================
