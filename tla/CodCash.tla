------------------------------ MODULE CodCash ------------------------------
(***************************************************************************)
(* The cash of cash-on-delivery orders, from the rider who takes an order  *)
(* to the administrator who gets the money: deliveryAcceptAtomic with its   *)
(* cash limit, the rider's way to the door or back out of the order,        *)
(* handleCodOrderFinance, reconcileCodCash, the rider's submission of all   *)
(* his cash, and the administrator's settlement.                            *)
(*                                                                         *)
(* workflowStatus and status are written apart: the finance endpoints move  *)
(* only status, a rider's back-out looks only at workflowStatus, and so an  *)
(* order may lose or change its rider after its cash was collected.         *)
(*                                                                         *)
(* A MongoDB transaction is one action; it may abort (Fails).  What a       *)
(* handler reads before its transaction it carries in pc.                   *)
(***************************************************************************)
EXTENDS Integers, FiniteSetsExt

CONSTANTS
  Riders,      \* delivery partners
  Calls,       \* requests under way at once
  NumOrders,   \* the orders are numbered by their time of creation
  Express,     \* the orders made by placeCustomPickupOrder or createManualOrder
  Gross,       \* paymentBreakdown.grandTotal of an order
  Commission,  \* paymentBreakdown.riderPayoutTotal of an order
  Limit,       \* cashLimit of a rider, 0 for none
  Amounts,     \* amounts a request may carry
  Irregular,   \* which of "named", "riderless", "backout" requests are made, for which order
  MaxSettled,  \* bound on what the administrator settles
  none         \* no rider

Orders == 1..NumOrders

ASSUME CashAssumption ==
  /\ IsFiniteSet(Calls)
  /\ NumOrders \in Nat /\ Express \subseteq Orders
  /\ Gross \in Nat \ {0} /\ Commission \in Nat
  /\ Limit \in Nat /\ MaxSettled \in Nat
  /\ Amounts \subseteq Nat \ {0}
  /\ Irregular \subseteq {"named", "riderless", "backout"} \X Orders
  /\ none \notin Riders

VARIABLES
  orders,   \* the order documents
  cash,     \* cashInHand of the riders' wallets
  admin,    \* what the administrator's wallet got by remittances
  credits,  \* ledger rows ORDER_COD_COLLECTED of a rider, summed per order
  debits,   \* ledger rows COD_REMITTED of a rider, summed per order
  slips,    \* Transactions "Cash Settlement" made by submissions, summed
  settled,  \* Transactions "Cash Settlement" made by the administrator, summed up
  pc        \* what each call has read and still has to do

Money == <<cash, admin, credits, debits, slips, settled>>
vars == <<orders, Money, pc>>

Idle == [at |-> "idle"]
\* "assigned" stands for DELIVERY_ASSIGNED and PICKUP_READY, "open" for every status
\* but delivered; rider and partner are deliveryBoy and deliveryPartner, skipped is
\* skippedBy, applied and marked are flags of financeFlags.
Order == [ws : {"search", "assigned", "out", "delivered"}, status : {"open", "delivered"},
          rider : Riders \cup {none}, partner : Riders \cup {none}, skipped : SUBSET Riders,
          applied : BOOLEAN, marked : BOOLEAN, collected : Nat, remitted : Nat,
          paymentStatus : {"PENDING_CASH_COLLECTION", "CASH_COLLECTED",
                           "PARTIALLY_REMITTED", "COD_RECONCILED"}]
Call == {Idle}
  \cup [at : {"accept"}, order : Orders, rider : Riders]
  \cup [at : {"settle"}, order : Orders]
  \cup [at : {"collect", "reconcile"}, order : Orders, amount : Nat \ {0},
        partner : Riders \cup {none}]
  \cup [at : {"submit"}, rider : Riders, due : [Orders -> Nat], left : Nat, done : Nat]

TypeOK ==
  /\ orders \in [Orders -> Order]
  /\ cash \in [Riders -> Nat] /\ admin \in Nat
  /\ credits \in [Riders -> [Orders -> Nat]] /\ debits \in [Riders -> [Orders -> Nat]]
  /\ slips \in [Riders -> Nat] /\ settled \in Nat
  /\ pc \in [Calls -> Call]

-----------------------------------------------------------------------------
(* Amounts. *)

AtLeastZero(n) == IF n < 0 THEN 0 ELSE n
Net(amount) == AtLeastZero(amount - Commission)
Pending(o) == orders[o].collected - orders[o].remitted

\* The sum of a function on the orders.
Total(f) ==
  LET upTo[n \in 0..NumOrders] == IF n = 0 THEN 0 ELSE upTo[n - 1] + f[n]
  IN upTo[NumOrders]

\* An express order is created as if its whole price had been collected.
Init ==
  /\ orders = [o \in Orders |->
       [ws |-> "search", status |-> "open", rider |-> none, partner |-> none,
        skipped |-> {}, applied |-> FALSE, marked |-> FALSE, remitted |-> 0,
        collected |-> IF o \in Express THEN Gross ELSE 0,
        paymentStatus |-> "PENDING_CASH_COLLECTION"]]
  /\ cash = [r \in Riders |-> 0] /\ admin = 0
  /\ credits = [r \in Riders |-> [o \in Orders |-> 0]] /\ debits = credits
  /\ slips = [r \in Riders |-> 0] /\ settled = 0
  /\ pc = [c \in Calls |-> Idle]

Goto(c, step) == pc' = [pc EXCEPT ![c] = step]
Ends(c) == Goto(c, Idle)

\* The orderSchema's hook before a save: deliveryBoy and deliveryPartner fill each other.
Saved(doc) == [doc EXCEPT !.rider = IF @ = none THEN doc.partner ELSE @,
                          !.partner = IF @ = none THEN doc.rider ELSE @]

-----------------------------------------------------------------------------
(* From acceptance to delivery. *)

\* assertRiderWithinCashLimit, before the acceptance.
AcceptChecks(c, r, o) ==
  /\ pc[c] = Idle
  /\ Limit = 0 \/ cash[r] + Net(Gross) <= Limit
  /\ Goto(c, [at |-> "accept", order |-> o, rider |-> r])
  /\ UNCHANGED <<orders, Money>>

AcceptWrites(c) ==
  /\ pc[c].at = "accept"
  /\ LET o == pc[c].order
         r == pc[c].rider
     IN IF orders[o].ws = "search" /\ orders[o].rider = none /\ r \notin orders[o].skipped
        THEN orders' = [orders EXCEPT ![o].ws = "assigned", ![o].status = "open",
                                      ![o].rider = r, ![o].partner = r]
        ELSE UNCHANGED orders
  /\ Ends(c)
  /\ UNCHANGED Money

\* markArrivedAtStoreAtomic or the pickup: the order goes on and is open again.
RidesOn(o, ws) ==
  /\ orders[o].ws = "assigned" /\ orders[o].rider # none
  /\ orders' = [orders EXCEPT ![o].ws = ws, ![o].status = "open"]
  /\ UNCHANGED <<Money, pc>>

\* riderCancelAssignmentAtomic looks at workflowStatus only, and leaves deliveryPartner.
BacksOut(o) ==
  /\ <<"backout", o>> \in Irregular
  /\ orders[o].ws = "assigned" /\ orders[o].rider # none
  /\ orders' = [orders EXCEPT ![o].ws = "search", ![o].status = "open", ![o].rider = none,
                              ![o].skipped = @ \cup {orders[o].rider}]
  /\ UNCHANGED <<Money, pc>>

\* The handoff code was right; the settlement follows in a transaction of its own.
HandoffDelivers(c, o) ==
  /\ pc[c] = Idle
  /\ orders[o].ws = "out" /\ orders[o].rider # none
  /\ orders' = [orders EXCEPT ![o].ws = "delivered", ![o].status = "delivered"]
  /\ Goto(c, [at |-> "settle", order |-> o])
  /\ UNCHANGED Money

\* Requests of the finance endpoints are admitted for orders without a rider, too.
HasRider(o) == orders[o].rider # none \/ <<"riderless", o>> \in Irregular

\* The finance endpoint, which does not look at the stage of the order.
DeliveredRequested(c, o) ==
  /\ pc[c] = Idle
  /\ HasRider(o)
  /\ Goto(c, [at |-> "settle", order |-> o])
  /\ UNCHANGED <<orders, Money>>

\* settleDeliveredOrder saves nothing if it was applied before, and never workflowStatus.
AfterSettlement(doc) ==
  IF doc.applied THEN doc ELSE Saved([doc EXCEPT !.status = "delivered", !.applied = TRUE])

\* settleDeliveredOrder, then the look at the order it returned.
Settles(c) ==
  /\ pc[c].at = "settle"
  /\ LET o == pc[c].order
         doc == AfterSettlement(orders[o])
     IN /\ orders' = [orders EXCEPT ![o] = doc]
        /\ IF doc.rider # none /\ ~doc.marked
           THEN Goto(c, [at |-> "collect", order |-> o, amount |-> Gross,
                         partner |-> doc.rider])
           ELSE Ends(c)
  /\ UNCHANGED Money

-----------------------------------------------------------------------------
(* Collection. *)

\* Who may ask about o: none, that is an administrator, its rider, or any if it has none.
Callers(o) == {who \in Riders \cup {none} : who = none \/ orders[o].rider \in {none, who}}
\* Whom a request may be for: named in it, else the order's rider, else the caller.
Partners(o) ==
  (IF <<"named", o>> \in Irregular THEN Riders ELSE {})
  \cup (IF orders[o].rider # none THEN {orders[o].rider} ELSE Callers(o))

MarkCollected(c, o, amount, partner) ==
  /\ pc[c] = Idle
  /\ orders[o].status = "delivered" /\ ~orders[o].marked
  /\ partner \in Partners(o)
  /\ Goto(c, [at |-> "collect", order |-> o, amount |-> amount, partner |-> partner])
  /\ UNCHANGED <<orders, Money>>

\* Mutant: handleCodOrderFinance does not look at codMarkedCollected.
CollectableAgain(o) == orders[o].status = "delivered"

Collectable(o) == orders[o].status = "delivered" /\ ~orders[o].marked

\* The document, the wallet and the row of the ledger of handleCodOrderFinance.
Collect(o, partner, net) ==
  /\ orders' = [orders EXCEPT ![o] =
       [orders[o] EXCEPT
          !.rider = partner,
          !.partner = IF none \in {orders[o].rider, orders[o].partner} THEN partner
                                                                   ELSE orders[o].partner,
          !.marked = TRUE, !.collected = orders[o].collected + net,
          !.paymentStatus = "CASH_COLLECTED"]]
  /\ cash' = [cash EXCEPT ![partner] = @ + net]
  /\ credits' = [credits EXCEPT ![partner][o] = @ + net]

\* handleCodOrderFinance.
CollectsCod(c) ==
  /\ pc[c].at = "collect"
  /\ LET o == pc[c].order
         partner == IF orders[o].rider # none THEN orders[o].rider ELSE pc[c].partner
         net == Net(pc[c].amount)
     IN IF Collectable(o) /\ partner # none
        THEN Collect(o, partner, net)
        ELSE UNCHANGED <<orders, cash, credits>>
  /\ Ends(c)
  /\ UNCHANGED <<admin, debits, slips, settled>>

-----------------------------------------------------------------------------
(* Remittance. *)

\* Mutant: reconcileCodCash compares with nothing, the list read earlier is believed.
ReconcilableUnchecked(o, requested, partner) == partner # none

\* Whether reconcileCodCash goes through.
Reconcilable(o, requested, partner) == partner # none /\ requested <= Pending(o)

\* reconcileCodCash; AtLeastZero is the clampMoney of updateCashInHand.
Reconcile(o, requested, partner) ==
  /\ cash' = [cash EXCEPT ![partner] = AtLeastZero(@ - requested)]
  /\ admin' = admin + requested
  /\ debits' = [debits EXCEPT ![partner][o] = @ + requested]
  /\ orders' = [orders EXCEPT ![o] = Saved(
       [orders[o] EXCEPT
          !.remitted = orders[o].remitted + requested,
          !.paymentStatus = IF requested = Pending(o) THEN "COD_RECONCILED"
                                                      ELSE "PARTIALLY_REMITTED"])]

ReconcileRequested(c, o, amount, partner) ==
  /\ pc[c] = Idle
  /\ HasRider(o)
  /\ partner \in Partners(o)
  /\ Goto(c, [at |-> "reconcile", order |-> o, amount |-> amount, partner |-> partner])
  /\ UNCHANGED <<orders, Money>>

Reconciles(c) ==
  /\ pc[c].at = "reconcile"
  /\ LET o == pc[c].order
         partner == IF pc[c].partner # none THEN pc[c].partner ELSE orders[o].rider
     IN IF Reconcilable(o, pc[c].amount, partner)
        THEN Reconcile(o, pc[c].amount, partner)
        ELSE UNCHANGED <<orders, cash, admin, debits>>
  /\ Ends(c)
  /\ UNCHANGED <<credits, slips, settled>>

\* What rider r may submit of each order.
Due(r) == [o \in Orders |-> IF orders[o].rider = r /\ orders[o].marked THEN Pending(o) ELSE 0]

\* submitDeliveryCodCashToAdmin: the list of orders, without amount or with one.
SubmitReads(c, r, amount) ==
  /\ pc[c] = Idle
  /\ amount <= Total(Due(r))
  /\ Goto(c, [at |-> "submit", rider |-> r, due |-> Due(r), left |-> amount, done |-> 0])
  /\ UNCHANGED <<orders, Money>>

\* The next order of the list and what is still wanted of it.
NextDue(p) == Min({o \in Orders : p.due[o] > 0})
Wanted(p) == IF p.due[NextDue(p)] < p.left THEN p.due[NextDue(p)] ELSE p.left
Submitted(p) == [p EXCEPT !.due[NextDue(p)] = 0, !.left = @ - Wanted(p), !.done = @ + Wanted(p)]

\* Mutant: after an error the submission goes on to the next order.
AfterErrorGoesOn(c, p) == Goto(c, Submitted(p))

AfterError(c, p) == Ends(c)

\* One order of the list, in a transaction of its own; an error ends the submission.
Submits(c) ==
  /\ pc[c].at = "submit" /\ pc[c].left > 0
  /\ LET p == pc[c]
     IN IF Reconcilable(NextDue(p), Wanted(p), p.rider)
        THEN /\ Reconcile(NextDue(p), Wanted(p), p.rider)
             /\ Goto(c, Submitted(p))
        ELSE /\ AfterError(c, p)
             /\ UNCHANGED <<orders, cash, admin, debits>>
  /\ UNCHANGED <<credits, slips, settled>>

SubmitRecords(c) ==
  /\ pc[c].at = "submit" /\ pc[c].left = 0
  /\ slips' = [slips EXCEPT ![pc[c].rider] = @ + pc[c].done]
  /\ Ends(c)
  /\ UNCHANGED <<orders, cash, admin, credits, debits, settled>>

\* settleRiderCashEntry: a Transaction and a notification, no wallet.
SettleRiderCash(amount) ==
  /\ settled + amount <= MaxSettled
  /\ settled' = settled + amount
  /\ UNCHANGED <<orders, cash, admin, credits, debits, slips, pc>>

\* An exception, an aborted transaction or the death of the process.
Fails(c) ==
  /\ pc[c] # Idle
  /\ Ends(c)
  /\ UNCHANGED <<orders, Money>>

-----------------------------------------------------------------------------
Request(c) == \E o \in Orders :
  \/ \E r \in Riders : AcceptChecks(c, r, o)
  \/ HandoffDelivers(c, o) \/ DeliveredRequested(c, o)
  \/ \E partner \in Riders \cup {none} :
       \/ \E amount \in Amounts \cup {Gross} : MarkCollected(c, o, amount, partner)
       \/ \E amount \in Amounts : ReconcileRequested(c, o, amount, partner)

Submission(c) == \E r \in Riders :
  \E amount \in (Amounts \cup {Total(Due(r))}) \ {0} : SubmitReads(c, r, amount)

Continue(c) ==
  \/ AcceptWrites(c) \/ Settles(c) \/ CollectsCod(c) \/ Reconciles(c)
  \/ Submits(c) \/ SubmitRecords(c) \/ Fails(c)

Ride == \E o \in Orders :
  \/ RidesOn(o, "assigned") \/ RidesOn(o, "out")
  \/ BacksOut(o)

Next ==
  \/ Ride
  \/ \E c \in Calls : Request(c) \/ Submission(c) \/ Continue(c)
  \/ \E amount \in Amounts : SettleRiderCash(amount)

Spec == Init /\ [][Next]_vars

-----------------------------------------------------------------------------
(* Wallets, ledger and orders agree on the cash, although submissions work  *)
(* from lists read earlier and orders lose or change their riders meanwhile:*)
(* the administrator got what the orders say was remitted, no order remits  *)
(* more than was collected, and a wallet is never short of the rider's rows *)
(* in the ledger.  It is exactly what they say, clampMoney(..., 0) having   *)
(* hidden nothing, if he only remitted cash that he had collected.          *)
RemitsHisOwn(r) == \A o \in Orders :
  debits[r][o] > 0 => o \notin Express /\ credits[r][o] > 0

CashAccounted ==
  /\ admin = Total([o \in Orders |-> orders[o].remitted])
  /\ \A o \in Orders : orders[o].remitted <= orders[o].collected
  /\ \A r \in Riders :
       /\ cash[r] >= Total(credits[r]) - Total(debits[r])
       /\ RemitsHisOwn(r) => cash[r] = Total(credits[r]) - Total(debits[r])

(* What the Transactions of a rider's submissions say was handed over has   *)
(* reached the administrator in his name, even if two submissions work off  *)
(* the same orders, the orders change hands, or a submission dies: a        *)
(* Transaction may be missing, never too large.                             *)
SubmissionsBacked == \A r \in Riders : slips[r] <= Total(debits[r])

(* The cash of an order is collected once, of an express order, too:        *)
(* settlement, the finance endpoint and the rider's own report may all try, *)
(* again after the rider backed out and another delivered; and once the     *)
(* collected cash is reconciled no late attempt opens the order again.      *)
CollectedOnce == [][\A o \in Orders : orders[o].marked =>
  /\ orders'[o].marked
  /\ orders'[o].collected = orders[o].collected
  /\ orders[o].paymentStatus = "COD_RECONCILED" => orders'[o].paymentStatus = "COD_RECONCILED"]_orders

(* The comment of handleCodOrderFinance: the float tracks "remittable cash  *)
(* with delivery partners".  A rider's cash in hand should be what his      *)
(* orders let him remit.  It is not: express orders are created as          *)
(* collected (CodCash_express.cfg), and a rider may back out of an order    *)
(* whose cash is in his wallet already (CodCash_backout.cfg).  With         *)
(* NamedFirst or RiderlessFirst for Irregular in the latter: another rider  *)
(* is named in a request, or the order is reconciled before it has one.     *)
CashMatchesOrders == \A r \in Riders : cash[r] = Total(Due(r))

(* The comment of assertRiderWithinCashLimit: a rider does not hold more    *)
(* than his limit.  It does not hold (CodCash_statements.cfg): the limit is *)
(* compared with the cash in hand alone, not with orders under way.         *)
WithinCashLimit == \A r \in Riders : Limit = 0 \/ cash[r] <= Limit

(* The notice of settleRiderCashEntry, "Your balance is updated."  It is    *)
(* not (CodCash_statements.cfg): the wallet is left alone.                  *)
SettlingLowersCash ==
  [][settled' > settled /\ (\E r \in Riders : cash[r] > 0)
        => \E r \in Riders : cash'[r] < cash[r]]_vars

=============================================================================
