-------------------------------- MODULE Payment --------------------------------
(***************************************************************************)
(* Online payment of a checkout: paymentService.js, the capture and reversal   *)
(* transactions of orderFinanceService.js and the compensation of a cancelled   *)
(* order, around a payment gateway that tells of a result by webhook and when    *)
(* it is asked.                                                                 *)
(*                                                                           *)
(* Every call is a process that takes one step per await. A MongoDB transaction *)
(* takes two: it opens on a snapshot and commits unless a document that it       *)
(* writes was written since. Nothing runs a transaction of these again.          *)
(*                                                                           *)
(* The checkout has NumOrders orders, numbered as checkoutGroupIndex numbers     *)
(* them. A payment is known by its attempt number, the n of the merchant order   *)
(* id <ref>-A<n>. Document 0 is the wallet of the platform.                      *)
(***************************************************************************)
EXTENDS Integers, FiniteSets

CONSTANTS
  NumOrders,
  MaxPayments,   \* payment attempts made for the checkout
  Creators,      \* calls of createPaymentOrderForOrderRef
  Verifiers,     \* calls of verifyPhonePePaymentStatus
  Cancellers,    \* cancellations, by whomever, with their compensation
  PendingHasTransaction, \* does a PENDING webhook carry the transaction id?
  MaxFaults      \* calls that die or throw where the code has no early return

ASSUME BoundAssumption ==
  /\ NumOrders \in Nat \ {0} /\ MaxPayments \in Nat
  /\ MaxFaults \in Nat /\ PendingHasTransaction \in BOOLEAN

Orders == 1..NumOrders
Payments == 1..MaxPayments
AdminWallet == 0

\* A webhook: which payment, and the state that the gateway tells of. Each is
\* handled by the call that bears its name.
Messages == Payments \X {"PENDING", "COMPLETED", "FAILED"}
Calls == Creators \cup Verifiers \cup Cancellers \cup Messages

ASSUME CallsAssumption ==
  /\ Creators \cap Verifiers = {} /\ Creators \cap Cancellers = {}
  /\ Verifiers \cap Cancellers = {}
  /\ (Creators \cup Verifiers \cup Cancellers) \cap Messages = {}

VARIABLES
  order,    \* the orders of the checkout
  group,    \* status of the checkout group
  ledger,   \* per order, rows of captured money and rows of refund
  payment,  \* per attempt, the status of the payment document, or "none"
  gateway,  \* external: the state of each attempt at the gateway
  sent,     \* external: the webhooks the gateway has something to say with
  due,      \* external: those it delivers again because nobody accepted them
  events,   \* the eventIds that PaymentWebhookEvent holds
  call,     \* what each call will do next and what it knows
  faults

books == <<order, group, ledger>>
outside == <<gateway, sent, due>>
vars == <<books, payment, outside, events, call, faults>>

WORKFLOW == {"CREATED", "SELLER_PENDING", "CANCELLED"}
ORDER_PAYMENT_STATUS == {"CREATED", "PAID", "FAILED", "REFUNDED"}
PAYMENT_STATUS == {"PENDING", "CAPTURED", "FAILED"}
GatewayStates == {"none", "PENDING", "COMPLETED", "FAILED"}
Steps == {"idle", "look", "count", "initiate", "insert", "ask", "find", "save",
          "finance", "credit", "move", "paid", "failure", "cancel", "unpaid",
          "pending", "stock", "activity", "reverse", "refund"}

Order ==
  [workflowStatus : WORKFLOW, paymentStatus : ORDER_PAYMENT_STATUS,
   onlinePaymentCaptured : BOOLEAN, cancellationReversalApplied : BOOLEAN,
   stock : {"held", "released"}]

Call ==
  [pc : Steps, n : 0..MaxPayments, held : PAYMENT_STATUS \cup {"none"},
   state : GatewayStates, at : 0..NumOrders, writes : SUBSET (0..NumOrders),
   stale : BOOLEAN]

Idle == [pc |-> "idle", n |-> 0, held |-> "none", state |-> "none", at |-> 0,
         writes |-> {}, stale |-> FALSE]

\* The documents that placeOrderAtomic left.
Init ==
  /\ order = [o \in Orders |->
       [workflowStatus |-> "CREATED", paymentStatus |-> "CREATED",
        onlinePaymentCaptured |-> FALSE, cancellationReversalApplied |-> FALSE,
        stock |-> "held"]]
  /\ group = "PAYMENT_PENDING"
  /\ ledger = [o \in Orders |-> [in |-> 0, out |-> 0]]
  /\ payment = [n \in Payments |-> "none"]
  /\ gateway = [n \in Payments |-> "none"]
  /\ sent = {} /\ due = {} /\ events = {}
  /\ call = [c \in Calls |-> Idle]
  /\ faults = 0

At(c, step) == call[c].pc = step
InTransaction(c) == call[c].pc \in {"credit", "cancel", "refund"}

\* Mutant: MongoDB lets a transaction write what it read from an old snapshot.
ConflictsUnnoticed(c, q, written) == call' = [call EXCEPT ![c] = q]

\* Call c goes on as q after writing some documents; every other transaction
\* that is going to write one of them will be refused.
Becomes(c, q, written) ==
  call' = [d \in Calls |->
    IF d = c THEN q
    ELSE IF InTransaction(d) /\ call[d].writes \cap written # {}
    THEN [call[d] EXCEPT !.stale = TRUE] ELSE call[d]]

Goes(c, step) == Becomes(c, [call[c] EXCEPT !.pc = step], {})

Opens(c, step, writes) ==
  Becomes(c, [call[c] EXCEPT !.pc = step, !.writes = writes, !.stale = FALSE], {})

Leaves(c, step, written) ==
  Becomes(c, [call[c] EXCEPT !.pc = step, !.writes = {}, !.stale = FALSE], written)

\* The call is over without an answer that the gateway takes for an answer.
Throws(c) == Becomes(c, Idle, {}) /\ UNCHANGED due

\* The call is over; a webhook was answered 200.
Returns(c, written) ==
  /\ Becomes(c, Idle, written)
  /\ due' = due \ {c}

(***************************************************************************)
(* createPaymentOrderForOrderRef.                                            *)
(***************************************************************************)
\* validatePaymentEligibility, of one order.
MayBePaid(o) ==
  /\ order[o].workflowStatus # "CANCELLED"
  /\ order[o].paymentStatus \notin {"PAID", "REFUNDED"}

CreateBegins(c) ==
  /\ At(c, "idle")
  /\ \A o \in Orders : MayBePaid(o)
  /\ Goes(c, "look")
  /\ UNCHANGED <<books, payment, outside, events, faults>>

Made == {n \in Payments : payment[n] # "none"}

\* A payment with the same idempotency key, or any open one, is returned.
CreateLooks(c) ==
  /\ At(c, "look")
  /\ \/ Made # {} /\ Returns(c, {})
     \/ (\A n \in Made : payment[n] # "PENDING") /\ Goes(c, "count") /\ UNCHANGED due
  /\ UNCHANGED <<books, payment, gateway, sent, events, faults>>

\* countDocuments gives the number of the attempt.
CreateCounts(c) ==
  /\ At(c, "count")
  /\ Cardinality(Made) < MaxPayments
  /\ Becomes(c, [call[c] EXCEPT !.pc = "initiate", !.n = Cardinality(Made) + 1], {})
  /\ UNCHANGED <<books, payment, outside, events, faults>>

\* initiatePayment; the gateway may refuse an order id it knows.
Initiates(c) ==
  /\ At(c, "initiate")
  /\ LET n == call[c].n IN
       \/ /\ gateway[n] = "none"
          /\ gateway' = [gateway EXCEPT ![n] = "PENDING"]
          /\ Goes(c, "insert") /\ UNCHANGED due
       \/ gateway[n] # "none" /\ UNCHANGED <<gateway, due>> /\ Goes(c, "insert")
       \/ gateway[n] # "none" /\ UNCHANGED gateway /\ Throws(c)
  /\ UNCHANGED <<books, payment, sent, events, faults>>

\* Payment.create, refused when gatewayOrderId is taken.
Inserts(c) ==
  /\ At(c, "insert")
  /\ LET n == call[c].n IN
       payment' = IF payment[n] = "none" THEN [payment EXCEPT ![n] = "PENDING"] ELSE payment
  /\ Returns(c, {})
  /\ UNCHANGED <<books, gateway, sent, events, faults>>

(***************************************************************************)
(* The gateway and the customer at it, external.                             *)
(***************************************************************************)
\* The customer, who has got the link, pays or fails to, for good.
GatewayDecides(n) ==
  /\ gateway[n] = "PENDING" /\ payment[n] # "none"
  /\ \E state \in {"COMPLETED", "FAILED"} :
       /\ gateway' = [gateway EXCEPT ![n] = state]
       /\ sent' = sent \cup {<<n, state>>}
       /\ due' = due \cup {<<n, state>>}
  /\ UNCHANGED <<books, payment, events, call, faults>>

\* While a slow payment goes on, the gateway says that it is pending.
GatewayTells(n) ==
  /\ gateway[n] = "PENDING" /\ payment[n] # "none"
  /\ <<n, "PENDING">> \notin sent
  /\ sent' = sent \cup {<<n, "PENDING">>}
  /\ due' = due \cup {<<n, "PENDING">>}
  /\ UNCHANGED <<books, payment, gateway, events, call, faults>>

(***************************************************************************)
(* The two ways by which a result comes in.                                  *)
(***************************************************************************)
\* verifyPhonePePaymentStatus reads the payment, and asks the gateway.
VerifyBegins(c, n) ==
  /\ At(c, "idle")
  /\ payment[n] # "none"
  /\ Becomes(c, [call[c] EXCEPT !.pc = "ask", !.n = n, !.held = payment[n]], {})
  /\ UNCHANGED <<books, payment, outside, events, faults>>

VerifyAsks(c) ==
  /\ At(c, "ask")
  /\ Becomes(c, [call[c] EXCEPT !.pc = "save", !.state = gateway[call[c].n]], {})
  /\ UNCHANGED <<books, payment, outside, events, faults>>

\* decodeWebhookPayload: the transaction id, or else a hash of the payload.
EventId(m) ==
  IF m[2] # "PENDING" \/ PendingHasTransaction THEN <<m[1], "transaction">> ELSE m

\* Mutant: a repeated webhook is answered with an error.
RepetitionRefused(m) ==
  /\ At(m, "idle")
  /\ m \in sent
  /\ IF EventId(m) \in events
     THEN Throws(m) /\ UNCHANGED events
     ELSE /\ events' = events \cup {EventId(m)}
          /\ Becomes(m, [Idle EXCEPT !.pc = "find", !.n = m[1], !.state = m[2]], {})
          /\ UNCHANGED due
  /\ UNCHANGED <<books, payment, gateway, sent, faults>>

\* processPhonePeWebhook records the event before anything else. A webhook that
\* was answered may come again.
Deliver(m) ==
  /\ At(m, "idle")
  /\ m \in sent
  /\ IF EventId(m) \in events
     THEN Returns(m, {}) /\ UNCHANGED events
     ELSE /\ events' = events \cup {EventId(m)}
          /\ Becomes(m, [Idle EXCEPT !.pc = "find", !.n = m[1], !.state = m[2]], {})
          /\ UNCHANGED due
  /\ UNCHANGED <<books, payment, gateway, sent, faults>>

WebhookFinds(c) ==
  /\ At(c, "find")
  /\ LET n == call[c].n IN
       IF payment[n] = "none" THEN Returns(c, {})
       ELSE Becomes(c, [call[c] EXCEPT !.pc = "save", !.held = payment[n]], {}) /\ UNCHANGED due
  /\ UNCHANGED <<books, payment, gateway, sent, events, faults>>

\* mapStatusToInternal.
Internal(state) == CASE state = "COMPLETED" -> "CAPTURED"
                     [] state = "FAILED" -> "FAILED"
                     [] OTHER -> "PENDING"

\* Mutant: any status may follow any other.
AnyTransition(from, to) == TRUE

\* Mutant: to hear the same result again is an error.
SameIsNoTransition(from, to) == from = "PENDING" /\ to # from

\* canTransitionPaymentStatus, for the three statuses that payments get.
CanTransition(from, to) == from = to \/ from = "PENDING"

SideEffects == [CAPTURED |-> "finance", FAILED |-> "failure", PENDING |-> "pending"]

\* transitionPaymentState, on the document held since it was read. Mongoose
\* writes the status only if this call has changed it.
Saves(c) ==
  /\ At(c, "save")
  /\ LET q == call[c]  next == Internal(q.state) IN
       IF CanTransition(q.held, next)
       THEN /\ payment' = IF q.held = next THEN payment ELSE [payment EXCEPT ![q.n] = next]
            /\ Becomes(c, [q EXCEPT !.pc = SideEffects[next], !.at = 1], {})
            /\ UNCHANGED due
       ELSE Throws(c) /\ UNCHANGED payment
  /\ UNCHANGED <<books, gateway, sent, events, faults>>

(***************************************************************************)
(* handleOrderSideEffectsFromPaymentStatus, captured.                        *)
(***************************************************************************)
\* handleOnlineOrderFinance of the next order opens its transaction.
FinanceBegins(c) ==
  /\ At(c, "finance")
  /\ LET o == call[c].at IN
       IF order[o].onlinePaymentCaptured THEN Goes(c, "move")
       ELSE Opens(c, "credit", {AdminWallet, o})
  /\ UNCHANGED <<books, payment, outside, events, faults>>

\* Whatever has become of the order, the money is booked.
FinanceCommits(c) ==
  /\ At(c, "credit") /\ ~call[c].stale
  /\ LET o == call[c].at IN
       /\ order' = [order EXCEPT ![o].onlinePaymentCaptured = TRUE,
                                 ![o].paymentStatus = "PAID"]
       /\ ledger' = [ledger EXCEPT ![o].in = @ + 1]
  /\ Leaves(c, "move", call[c].writes)
  /\ UNCHANGED <<group, payment, outside, events, faults>>

\* Mutant: the loop is left after the first order.
MovesOnlyTheFirst(c) ==
  /\ At(c, "move")
  /\ Goes(c, "paid")
  /\ UNCHANGED <<books, payment, outside, events, faults>>

\* moveOrderToSellerPendingAfterPayment.
Moves(c) ==
  /\ At(c, "move")
  /\ LET o == call[c].at
         moves == order[o].workflowStatus = "CREATED" IN
       /\ order' = IF moves THEN [order EXCEPT ![o].workflowStatus = "SELLER_PENDING"]
                   ELSE order
       /\ Becomes(c, IF o < NumOrders THEN [call[c] EXCEPT !.pc = "finance", !.at = o + 1]
                     ELSE [call[c] EXCEPT !.pc = "paid"], IF moves THEN {o} ELSE {})
  /\ UNCHANGED <<group, ledger, payment, outside, events, faults>>

\* updateCheckoutGroupPaymentStatus, without a filter.
GroupPaid(c) ==
  /\ At(c, "paid")
  /\ group' = "PAID"
  /\ Returns(c, {})
  /\ UNCHANGED <<order, ledger, payment, gateway, sent, events, faults>>

(***************************************************************************)
(* The same, failed or pending.                                              *)
(***************************************************************************)
\* One transaction for the orders that are still CREATED.
FailureBegins(c) ==
  /\ At(c, "failure")
  /\ Opens(c, "cancel", {o \in Orders : order[o].workflowStatus = "CREATED"})
  /\ UNCHANGED <<books, payment, outside, events, faults>>

FailureCommits(c) ==
  /\ At(c, "cancel") /\ ~call[c].stale
  /\ order' = [o \in Orders |->
       IF o \in call[c].writes
       THEN [order[o] EXCEPT !.workflowStatus = "CANCELLED", !.paymentStatus = "FAILED",
                             !.stock = "released"]
       ELSE order[o]]
  /\ Leaves(c, "unpaid", call[c].writes)
  /\ UNCHANGED <<group, ledger, payment, outside, events, faults>>

\* updateCheckoutGroupPaymentStatus, whatever the orders are.
GroupFails(c) ==
  /\ At(c, "unpaid")
  /\ group' = "CANCELLED"
  /\ Returns(c, {})
  /\ UNCHANGED <<order, ledger, payment, gateway, sent, events, faults>>

\* The last branch: updateMany without a filter.
PendingWrites(c) ==
  /\ At(c, "pending")
  /\ order' = [o \in Orders |-> [order[o] EXCEPT !.paymentStatus = "CREATED"]]
  /\ Returns(c, Orders)
  /\ UNCHANGED <<group, ledger, payment, gateway, sent, events, faults>>

(***************************************************************************)
(* An order is cancelled by its customer, its seller, a timeout or the sweep,  *)
(* and compensateOrderCancellation follows.                                   *)
(***************************************************************************)
CancelOrder(c, o) ==
  /\ At(c, "idle")
  /\ order[o].workflowStatus # "CANCELLED"
  /\ order' = [order EXCEPT ![o].workflowStatus = "CANCELLED"]
  /\ Becomes(c, [call[c] EXCEPT !.pc = "stock", !.at = o], {o})
  /\ UNCHANGED <<group, ledger, payment, outside, events, faults>>

\* Mutant: the stock of the whole checkout is released.
ReleasesCheckout(c) ==
  /\ At(c, "stock")
  /\ order' = [o \in Orders |-> [order[o] EXCEPT !.stock = "released"]]
  /\ Becomes(c, [call[c] EXCEPT !.pc = "activity"], Orders)
  /\ UNCHANGED <<group, ledger, payment, outside, events, faults>>

ReleaseStock(c) ==
  /\ At(c, "stock")
  /\ order' = [order EXCEPT ![call[c].at].stock = "released"]
  /\ Becomes(c, [call[c] EXCEPT !.pc = "activity"], {call[c].at})
  /\ UNCHANGED <<group, ledger, payment, outside, events, faults>>

\* The checkout group follows its last order.
GroupFollows(c) ==
  /\ At(c, "activity")
  /\ group' = IF \A o \in Orders : order[o].workflowStatus = "CANCELLED"
              THEN "CANCELLED" ELSE group
  /\ Goes(c, "reverse")
  /\ UNCHANGED <<order, ledger, payment, outside, events, faults>>

\* reverseOrderFinanceOnCancellation opens its transaction.
ReversalBegins(c) ==
  /\ At(c, "reverse")
  /\ LET o == call[c].at IN
       IF order[o].cancellationReversalApplied THEN Returns(c, {})
       ELSE /\ Opens(c, "refund", IF order[o].onlinePaymentCaptured THEN {AdminWallet, o} ELSE {o})
            /\ UNCHANGED due
  /\ UNCHANGED <<books, payment, gateway, sent, events, faults>>

\* Mutant: the reversal does not look whether the money ever came.
ReversesUnpaid(c) ==
  /\ At(c, "refund") /\ ~call[c].stale
  /\ LET o == call[c].at IN
       /\ order' = [order EXCEPT ![o].cancellationReversalApplied = TRUE,
                                 ![o].paymentStatus = "REFUNDED"]
       /\ ledger' = [ledger EXCEPT ![o].out = @ + 1]
  /\ Returns(c, call[c].writes)
  /\ UNCHANGED <<group, payment, gateway, sent, events, faults>>

\* Captured money goes back; either way the order is marked as reversed.
ReversalCommits(c) ==
  /\ At(c, "refund") /\ ~call[c].stale
  /\ LET o == call[c].at IN
       IF order[o].onlinePaymentCaptured
       THEN /\ order' = [order EXCEPT ![o].cancellationReversalApplied = TRUE,
                                      ![o].paymentStatus = "REFUNDED"]
            /\ ledger' = [ledger EXCEPT ![o].out = @ + 1]
       ELSE /\ order' = [order EXCEPT ![o].cancellationReversalApplied = TRUE]
            /\ UNCHANGED ledger
  /\ Returns(c, call[c].writes)
  /\ UNCHANGED <<group, payment, gateway, sent, events, faults>>

(***************************************************************************)
(* Failures.                                                                 *)
(***************************************************************************)
\* Another transaction is writing a document of this one, or has done so.
Contended(c) ==
  \/ call[c].stale
  \/ \E d \in Calls \ {c} : InTransaction(d) /\ call[c].writes \cap call[d].writes # {}

\* MongoDB refuses a transaction with a write conflict: the call throws.
Conflicts(c) ==
  /\ InTransaction(c) /\ Contended(c)
  /\ Throws(c)
  /\ UNCHANGED <<books, payment, gateway, sent, events, faults>>

\* The process dies, MongoDB or the gateway fails, the wallet of the platform is
\* short: nothing more is done.
Dies(c) ==
  /\ ~At(c, "idle")
  /\ faults < MaxFaults
  /\ faults' = faults + 1
  /\ Throws(c)
  /\ UNCHANGED <<books, payment, gateway, sent, events>>

CallStep(c) ==
  \/ CreateLooks(c) \/ CreateCounts(c) \/ Initiates(c) \/ Inserts(c)
  \/ VerifyAsks(c) \/ WebhookFinds(c) \/ Saves(c)
  \/ FinanceBegins(c) \/ FinanceCommits(c) \/ Moves(c) \/ GroupPaid(c)
  \/ FailureBegins(c) \/ FailureCommits(c) \/ GroupFails(c) \/ PendingWrites(c)
  \/ ReleaseStock(c) \/ GroupFollows(c) \/ ReversalBegins(c) \/ ReversalCommits(c)
  \/ Conflicts(c)

Next ==
  \/ \E c \in Creators : CreateBegins(c)
  \/ \E c \in Verifiers, n \in Payments : VerifyBegins(c, n)
  \/ \E c \in Cancellers, o \in Orders : CancelOrder(c, o)
  \/ \E m \in Messages : Deliver(m)
  \/ \E n \in Payments : GatewayDecides(n) \/ GatewayTells(n)
  \/ \E c \in Calls : CallStep(c) \/ Dies(c)

Spec == Init /\ [][Next]_vars

\* A call that runs goes on, and the gateway repeats a webhook until it is
\* answered 200.
Fairness ==
  /\ \A c \in Calls : WF_vars(CallStep(c))
  /\ \A m \in Messages : WF_vars(m \in due /\ Deliver(m))

FairSpec == Spec /\ Fairness

(***************************************************************************)
(* Properties.                                                               *)
(***************************************************************************)
\* Every variable holds a value of its type.
TypeOK ==
  /\ order \in [Orders -> Order]
  /\ group \in {"PAYMENT_PENDING", "PAID", "CANCELLED"}
  /\ ledger \in [Orders -> [in : Nat, out : Nat]]
  /\ payment \in [Payments -> PAYMENT_STATUS \cup {"none"}]
  /\ gateway \in [Payments -> GatewayStates]
  /\ sent \subseteq Messages /\ due \subseteq sent
  /\ events \subseteq Messages \cup (Payments \X {"transaction"})
  /\ call \in [Calls -> Call]
  /\ faults \in 0..MaxFaults

\* However many webhooks, verifications and payments there are for a checkout,
\* the money of an order is booked once, and given back at most once.
BookedOnce ==
  \A o \in Orders :
    /\ ledger[o].in = IF order[o].onlinePaymentCaptured THEN 1 ELSE 0
    /\ ledger[o].out <= ledger[o].in

\* An order that its seller sees has been paid and has its stock.
SoldIsPaidAndHeld ==
  \A o \in Orders : order[o].workflowStatus = "SELLER_PENDING" =>
    order[o].onlinePaymentCaptured /\ order[o].stock = "held"

\* A checkout is called paid only when each of its orders was booked.
PaidGroupIsBooked ==
  group = "PAID" => \A o \in Orders : order[o].onlinePaymentCaptured

\* The result of a payment is the gateway's, and is never taken back: not by a
\* webhook that was late, nor by a call that read the payment earlier.
ResultIsFinal ==
  [][\A n \in Payments : payment[n] \in {"CAPTURED", "FAILED"} =>
       payment'[n] = payment[n] /\ payment[n] = Internal(gateway[n])]_vars

Life(o) == CASE order[o].workflowStatus = "CREATED" -> "open"
             [] order[o].workflowStatus = "SELLER_PENDING" -> "sold"
             [] OTHER -> "cancelled"

Promise == INSTANCE PaidOrder WITH life <- [o \in Orders |-> Life(o)], money <- ledger

\* All these calls together do what PaidOrder promises of every order.
KeepsPromise == Promise!Spec

\* The gateway need not repeat a webhook for ever.
WebhooksAccepted == \A m \in Messages : m \in sent ~> m \notin due

\* If the app of the customer keeps asking for the result of a payment that was
\* made, all its orders are booked in the end, whatever webhook was lost and
\* whatever process died.
BookedIfAsked ==
  \A n \in Payments :
    (\A c \in Verifiers : []<><<VerifyBegins(c, n)>>_vars)
      => (gateway[n] = "COMPLETED" ~> \A o \in Orders : ledger[o].in = 1)

\* A webhook is enough: what was paid is booked.
CaptureTakesEffect ==
  \A n \in Payments :
    gateway[n] = "COMPLETED" ~> \A o \in Orders : ledger[o].in = 1

\* Money of a cancelled order goes back.
CancelledMoneyGoesBack ==
  \A o \in Orders :
    order[o].workflowStatus = "CANCELLED" /\ ledger[o].in = 1 ~> ledger[o].out = 1

\* Only a repetition is taken for one: a webhook is answered without being
\* processed only if the same one was processed.
OnlyRepetitionsIgnored ==
  [][\A m \in Messages : At(m, "idle") /\ m \in due /\ m \notin due' =>
       payment[m[1]] = Internal(m[2])]_vars

\* An open payment is used again: there is one at a time.
OneOpenPayment == Cardinality({n \in Payments : payment[n] = "PENDING"}) <= 1

\* After a failed payment the customer may pay the same order by another one.
FailedMayBeRepeated ==
  (\E n \in Payments : payment[n] = "FAILED") /\ (\A c \in Calls : At(c, "idle"))
    => \A o \in Orders : MayBePaid(o)
================================================================================
