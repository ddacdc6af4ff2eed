--------------------------- MODULE OrderWorkflow ---------------------------
(***************************************************************************)
(* The v2 life of one order document: orderWorkflowService.js with the Bull  *)
(* timeout jobs, the orderAutoCancelJob sweep, the workflow side of          *)
(* paymentService.js and orderCompensation.js.                               *)
(*                                                                           *)
(* A findOneAndUpdate is one action, because MongoDB applies its filter and  *)
(* its update to the document atomically. A handler that first reads and     *)
(* later writes, or that goes on after its write, occupies a process: pc     *)
(* says which step comes next, so that any other handler may run in between. *)
(* Handlers never touch another order's document: one order is modelled.     *)
(***************************************************************************)
EXTENDS Integers

CONSTANTS
  Riders,       \* delivery partners
  NoRider,      \* deliveryBoy: null
  Workers,      \* API requests and Bull job workers running at the same time
  Sweeper,      \* the process that runs orderAutoCancelJob
  MaxAttempts,  \* DELIVERY_SEARCH_MAX_ATTEMPTS
  MaxCrashes,   \* how many process deaths a behaviour may contain
  Kinds         \* the kinds of order placed

AllKinds == {"regular", "express", "manual"}

ASSUME RidersAssumption == NoRider \notin Riders
ASSUME ProcsAssumption == Sweeper \notin Workers
ASSUME BoundsAssumption == MaxAttempts \in Nat \ {0} /\ MaxCrashes \in Nat
ASSUME KindsAssumption == Kinds \subseteq AllKinds

Procs == Workers \cup {Sweeper}

\* SELLER_ACCEPTED is in the table of orderStateMachine.js; nothing writes it.
WORKFLOW_STATUS ==
  {"CREATED", "SELLER_PENDING", "SELLER_ACCEPTED", "DELIVERY_SEARCH",
   "DELIVERY_ASSIGNED", "PICKUP_READY", "OUT_FOR_DELIVERY", "DELIVERED",
   "CANCELLED"}

Terminal == {"DELIVERED", "CANCELLED"}
PrePickup == {"DELIVERY_ASSIGNED", "PICKUP_READY"}
WithRider == PrePickup \cup {"OUT_FOR_DELIVERY", "DELIVERED"}

\* A deadline field: absent, in the future, or in the past. The clock is the
\* three *WindowCloses actions; no handler compares deadlines otherwise.
Window == {"none", "open", "closed"}

Steps == {"idle", "afterPlace", "paymentPending", "moveToSeller", "broadcast",
          "acceptSave", "sellerTimeout", "deliveryTimeout",
          "compensate", "restoreStock", "saveCompensated", "reverse"}

\* Bull job ids of the order: `order:<id>:seller` and `order:<id>:delivery:<n>`.
SellerJob == 0
JobIds == 0 .. MaxAttempts

VARIABLES
  o,        \* the order document
  stock,    \* net change this order made to its product's stock
  jobs,     \* the Bull jobs waiting in Redis
  pc,       \* the next step of each process
  att,      \* the attempt read by a delivery-timeout worker
  back,     \* the rider a compensation's save will write to the order
  crashes   \* process deaths so far

vars == <<o, stock, jobs, pc, att, back, crashes>>

Order ==
  [kind : AllKinds, online : BOOLEAN,
   paid : BOOLEAN,      \* paymentStatus is PAID
   captured : BOOLEAN,  \* financeFlags.onlinePaymentCaptured
   ws : WORKFLOW_STATUS,
   rider : Riders \cup {NoRider},    \* deliveryBoy
   partner : Riders \cup {NoRider},  \* its mirror deliveryPartner
   skipped : SUBSET Riders,          \* skippedBy
   attempt : 0 .. MaxAttempts, sellerWin : Window, searchWin : Window,
   payWin : Window, released : BOOLEAN]

(***************************************************************************)
(* Placement. The three constructors of orders and the document each saves; *)
(* the after-placement work of COD and express orders is still to run.       *)
(***************************************************************************)
Placed(kind, online, rider) ==
  [kind |-> kind, online |-> online, paid |-> FALSE, captured |-> FALSE,
   ws |-> IF kind = "regular" /\ online THEN "CREATED" ELSE "SELLER_PENDING",
   rider |-> rider, partner |-> rider, skipped |-> {}, attempt |-> 0,
   sellerWin |-> IF kind = "regular" /\ online THEN "none" ELSE "open",
   searchWin |-> "none",
   payWin |-> IF kind = "regular" /\ online THEN "open" ELSE "none",
   released |-> FALSE]

\* placeOrderAtomic (regular), placeCustomPickupOrder (express) and
\* createManualOrder (a WhatsApp order, COD, perhaps with a rider already).
\* Only placeOrderAtomic takes stock: reserveStockForItems.
Init ==
  /\ \E kind \in Kinds, online \in BOOLEAN, rider \in Riders \cup {NoRider} :
       /\ kind # "manual" => rider = NoRider
       /\ kind = "manual" => ~online
       /\ o = Placed(kind, online, rider)
  /\ stock = IF o.kind = "regular" THEN -1 ELSE 0
  /\ jobs = {}
  /\ \/ /\ o.kind = "manual" \/ o.ws = "CREATED"
        /\ pc = [p \in Procs |-> "idle"]
     \/ /\ o.kind # "manual" /\ o.ws = "SELLER_PENDING"
        /\ \E w \in Workers :
             pc = [p \in Procs |-> IF p = w THEN "afterPlace" ELSE "idle"]
  /\ att = [p \in Procs |-> 0]
  /\ back = [p \in Procs |-> NoRider]
  /\ crashes = 0

(***************************************************************************)
(* Helpers.                                                                 *)
(***************************************************************************)
\* jobSchedulerPort: adding a job whose id is waiting is ignored by Bull, and a
\* failed or timed-out add or remove is logged and swallowed. The delay is not
\* modelled: a job may run at any time, since its handler reads the deadlines.
Scheduled(js, j) == {js, js \cup {j}}
Removed(js, j) == {js, js \ {j}}

SearchStarted(doc) ==
  [doc EXCEPT !.ws = "DELIVERY_SEARCH", !.searchWin = "open", !.attempt = 1]

Cancelled(doc) == [doc EXCEPT !.ws = "CANCELLED"]

Goto(p, step) == pc' = [pc EXCEPT ![p] = step]

\* A worker takes a new request or job.
Idle(p) == pc[p] = "idle"

(***************************************************************************)
(* After placement, and payment.                                            *)
(***************************************************************************)
\* afterPlaceExpressOrderV2: no seller step, straight out to riders.
AfterPlaceExpress(seenPaid) ==
  IF /\ o.online => seenPaid
     /\ o.ws \in {"SELLER_PENDING", "DELIVERY_SEARCH"}
     /\ o.rider = NoRider
  THEN /\ o' = [SearchStarted(o) EXCEPT !.sellerWin = "none"]
       /\ \E js \in Removed(jobs, SellerJob) : jobs' \in Scheduled(js, 1)
  ELSE UNCHANGED <<o, jobs>>

\* The document in hand was saved before any payment, hence seenPaid = FALSE.
AfterPlace(p) ==
  /\ pc[p] = "afterPlace"
  /\ \/ o.kind = "express" /\ AfterPlaceExpress(FALSE)
     \/ /\ o.kind # "express"
        /\ jobs' \in Scheduled(jobs, SellerJob)
        /\ UNCHANGED o
  /\ Goto(p, "idle")
  /\ UNCHANGED <<stock, att, back, crashes>>

\* A verification asks the gateway, which has not captured the payment yet. The
\* answer is written to the order later: paymentStatus CREATED, no filter.
PaymentPending(p) ==
  /\ Idle(p) /\ o.online /\ ~o.captured
  /\ Goto(p, "paymentPending")
  /\ UNCHANGED <<o, stock, jobs, att, back, crashes>>

PaymentPendingWrite(p) ==
  /\ pc[p] = "paymentPending"
  /\ o' = [o EXCEPT !.paid = FALSE]
  /\ Goto(p, "idle")
  /\ UNCHANGED <<stock, jobs, att, back, crashes>>

\* A verification or webhook reports CAPTURED: handleOnlineOrderFinance marks
\* the order PAID whatever its state, once; the move to the seller comes later.
PaymentCaptured(p) ==
  /\ Idle(p) /\ o.online
  /\ o' = IF o.captured THEN o ELSE [o EXCEPT !.paid = TRUE, !.captured = TRUE]
  /\ Goto(p, "moveToSeller")
  /\ UNCHANGED <<stock, jobs, att, back, crashes>>

\* Mutant: the update no longer asks for CREATED.
MoveWhateverTheStatus(p) ==
  /\ pc[p] = "moveToSeller"
  /\ \/ /\ o.kind = "express" /\ o.ws \in {"CREATED", "SELLER_PENDING"} /\ o.paid
        /\ Goto(p, "broadcast") /\ UNCHANGED <<o, jobs>>
     \/ /\ o.kind # "express"
        /\ o' = [o EXCEPT !.ws = "SELLER_PENDING", !.sellerWin = "open"]
        /\ jobs' \in Scheduled(jobs, SellerJob)
        /\ Goto(p, "idle")
     \/ /\ IF o.kind = "express" THEN o.ws \notin {"CREATED", "SELLER_PENDING"} \/ ~o.paid
           ELSE o.ws # "CREATED"
        /\ Goto(p, "idle") /\ UNCHANGED <<o, jobs>>
  /\ UNCHANGED <<stock, att, back, crashes>>

\* An express order has no seller step: read as paid, it goes out to riders next.
MoveOrderToSellerPending(p) ==
  /\ pc[p] = "moveToSeller"
  /\ \/ /\ o.kind = "express" /\ o.ws \in {"CREATED", "SELLER_PENDING"} /\ o.paid
        /\ Goto(p, "broadcast") /\ UNCHANGED <<o, jobs>>
     \/ /\ o.kind # "express" /\ o.ws = "CREATED"
        /\ o' = [o EXCEPT !.ws = "SELLER_PENDING", !.sellerWin = "open"]
        /\ jobs' \in Scheduled(jobs, SellerJob)
        /\ Goto(p, "idle")
     \/ /\ IF o.kind = "express" THEN o.ws \notin {"CREATED", "SELLER_PENDING"} \/ ~o.paid
           ELSE o.ws # "CREATED"
        /\ Goto(p, "idle") /\ UNCHANGED <<o, jobs>>
  /\ UNCHANGED <<stock, att, back, crashes>>

BroadcastPaidExpress(p) ==
  /\ pc[p] = "broadcast"
  /\ AfterPlaceExpress(TRUE)
  /\ Goto(p, "idle")
  /\ UNCHANGED <<stock, att, back, crashes>>

\* FAILED or CANCELLED payment: one transaction cancels an order still in
\* CREATED and gives its stock back, without compensateOrderCancellation.
PaymentFailed ==
  /\ o.online /\ o.ws = "CREATED"
  /\ o' = [Cancelled(o) EXCEPT !.paid = FALSE, !.released = TRUE]
  /\ stock' = IF o.released THEN stock ELSE stock + 1
  /\ UNCHANGED <<jobs, pc, att, back, crashes>>

(***************************************************************************)
(* The seller.                                                              *)
(***************************************************************************)
\* Mutant: the payment condition of the filter is dropped.
SellerAcceptsUnpaid(p) ==
  /\ Idle(p)
  /\ o.ws = "SELLER_PENDING" /\ o.sellerWin = "open"
  /\ o' = SearchStarted(o)
  /\ \E js \in Removed(jobs, SellerJob) : jobs' \in Scheduled(js, 1)
  /\ Goto(p, IF o.rider = NoRider THEN "idle" ELSE "acceptSave")
  /\ UNCHANGED <<stock, att, back, crashes>>

SellerAccept(p) ==
  /\ Idle(p)
  /\ o.ws = "SELLER_PENDING" /\ o.sellerWin = "open"
  /\ o.online => o.paid
  /\ o' = SearchStarted(o)
  /\ \E js \in Removed(jobs, SellerJob) : jobs' \in Scheduled(js, 1)
  /\ Goto(p, IF o.rider = NoRider THEN "idle" ELSE "acceptSave")
  /\ UNCHANGED <<stock, att, back, crashes>>

\* A rider was preset: the document in memory is saved as DELIVERY_ASSIGNED,
\* with no filter on the state the order has by then.
SellerAcceptSave(p) ==
  /\ pc[p] = "acceptSave"
  /\ o' = [o EXCEPT !.ws = "DELIVERY_ASSIGNED"]
  /\ Goto(p, "idle")
  /\ UNCHANGED <<stock, jobs, att, back, crashes>>

\* Mutant: no compensation.
SellerRejectForgets(p) ==
  /\ Idle(p)
  /\ o.ws = "SELLER_PENDING" /\ o.sellerWin = "open"
  /\ o' = Cancelled(o)
  /\ jobs' \in Removed(jobs, SellerJob)
  /\ Goto(p, "idle")
  /\ UNCHANGED <<stock, att, back, crashes>>

SellerReject(p) ==
  /\ Idle(p)
  /\ o.ws = "SELLER_PENDING" /\ o.sellerWin = "open"
  /\ o' = Cancelled(o)
  /\ jobs' \in Removed(jobs, SellerJob)
  /\ Goto(p, "compensate")
  /\ UNCHANGED <<stock, att, back, crashes>>

(***************************************************************************)
(* The rider.                                                               *)
(***************************************************************************)
\* Mutant: skippedBy is not consulted.
DeliveryAcceptsSkipper(r) ==
  /\ o.ws = "DELIVERY_SEARCH" /\ o.rider = NoRider
  /\ o.searchWin = "open"
  /\ o' = [o EXCEPT !.ws = "DELIVERY_ASSIGNED", !.rider = r, !.partner = r]
  /\ jobs' \in Removed(jobs, o.attempt)
  /\ UNCHANGED <<stock, pc, att, back, crashes>>

DeliveryAccept(r) ==
  /\ o.ws = "DELIVERY_SEARCH" /\ o.rider = NoRider
  /\ o.searchWin = "open" /\ r \notin o.skipped
  /\ o' = [o EXCEPT !.ws = "DELIVERY_ASSIGNED", !.rider = r, !.partner = r]
  /\ jobs' \in Removed(jobs, o.attempt)
  /\ UNCHANGED <<stock, pc, att, back, crashes>>

\* Mutant: deliveryBoy is not cleared.
RiderCancelKeepsRider(r) ==
  /\ o.rider = r /\ o.ws \in PrePickup
  /\ o' = [SearchStarted(o) EXCEPT !.skipped = @ \cup {r}]
  /\ jobs' \in Scheduled(jobs, 1)
  /\ UNCHANGED <<stock, pc, att, back, crashes>>

\* The rider backs out before pickup: a fresh search that excludes them.
RiderCancelAssignment(r) ==
  /\ o.rider = r /\ o.ws \in PrePickup
  /\ o' = [SearchStarted(o) EXCEPT !.rider = NoRider, !.skipped = @ \cup {r}]
  /\ jobs' \in Scheduled(jobs, 1)
  /\ UNCHANGED <<stock, pc, att, back, crashes>>

MarkArrivedAtStore(r) ==
  /\ o.rider = r /\ o.ws = "DELIVERY_ASSIGNED"
  /\ o' = [o EXCEPT !.ws = "PICKUP_READY"]
  /\ UNCHANGED <<stock, jobs, pc, att, back, crashes>>

ConfirmPickup(r) ==
  /\ o.rider = r /\ o.ws \in PrePickup /\ o.kind # "express"
  /\ o' = [o EXCEPT !.ws = "OUT_FOR_DELIVERY"]
  /\ UNCHANGED <<stock, jobs, pc, att, back, crashes>>

\* An express parcel is picked up against the sender's code instead.
VerifyPickupOtpAndConfirm(r) ==
  /\ o.rider = r /\ o.ws \in PrePickup /\ o.kind = "express"
  /\ o' = [o EXCEPT !.ws = "OUT_FOR_DELIVERY"]
  /\ UNCHANGED <<stock, jobs, pc, att, back, crashes>>

VerifyHandoffOtpAndDeliver(r) ==
  /\ o.rider = r /\ o.ws = "OUT_FOR_DELIVERY"
  /\ o' = [o EXCEPT !.ws = "DELIVERED"]
  /\ UNCHANGED <<stock, jobs, pc, att, back, crashes>>

(***************************************************************************)
(* The customer, at any time before the end.                                *)
(***************************************************************************)
\* Mutant: the filter lets a cancelled order be cancelled again.
CustomerCancelsTwice(p) ==
  /\ Idle(p)
  /\ o.ws # "DELIVERED"
  /\ o' = Cancelled(o)
  /\ jobs' \in Removed(jobs, SellerJob)
  /\ Goto(p, "compensate")
  /\ UNCHANGED <<stock, att, back, crashes>>

\* Mutant: the filter lets a delivered order be cancelled.
CustomerCancelsDelivered(p) ==
  /\ Idle(p)
  /\ o.ws # "CANCELLED"
  /\ o' = Cancelled(o)
  /\ jobs' \in Removed(jobs, SellerJob)
  /\ Goto(p, "compensate")
  /\ UNCHANGED <<stock, att, back, crashes>>

CustomerCancel(p) ==
  /\ Idle(p)
  /\ o.ws \notin Terminal
  /\ o' = Cancelled(o)
  /\ jobs' \in Removed(jobs, SellerJob)
  /\ Goto(p, "compensate")
  /\ UNCHANGED <<stock, att, back, crashes>>

(***************************************************************************)
(* Timeouts: each handler reads the order, checks it, and only then writes  *)
(* with a filter on workflowStatus alone.                                    *)
(***************************************************************************)
\* Mutant: the deadline is not checked.
SellerTimeoutIgnoresDeadline(p) ==
  /\ IF o.ws = "SELLER_PENDING"
     THEN Goto(p, "sellerTimeout") ELSE Goto(p, "idle")
  /\ UNCHANGED <<o, stock, att, back, crashes>>

SellerTimeoutRead(p) ==
  /\ IF o.ws = "SELLER_PENDING" /\ o.sellerWin # "open"
     THEN Goto(p, "sellerTimeout") ELSE Goto(p, "idle")
  /\ UNCHANGED <<o, stock, att, back, crashes>>

SellerTimeoutWrite(p) ==
  /\ pc[p] = "sellerTimeout"
  /\ \/ /\ o.ws = "SELLER_PENDING"
        /\ o' = Cancelled(o) /\ Goto(p, "compensate")
     \/ /\ o.ws # "SELLER_PENDING"
        /\ Goto(p, "idle") /\ UNCHANGED o
  /\ UNCHANGED <<stock, jobs, att, back, crashes>>

DeliveryTimeoutRead(p) ==
  /\ IF o.ws = "DELIVERY_SEARCH" /\ o.searchWin # "open"
     THEN Goto(p, "deliveryTimeout") /\ att' = [att EXCEPT ![p] = o.attempt]
     ELSE Goto(p, "idle") /\ UNCHANGED att
  /\ UNCHANGED <<o, stock, back, crashes>>

\* Mutant: the attempt is not counted.
ExtendSameAttempt(p) ==
  /\ pc[p] = "deliveryTimeout" /\ att[p] < MaxAttempts
  /\ o' = IF o.ws = "DELIVERY_SEARCH"
          THEN [o EXCEPT !.searchWin = "open", !.attempt = att[p]]
          ELSE o
  /\ jobs' \in Scheduled(jobs, att[p] + 1)
  /\ Goto(p, "idle") /\ att' = [att EXCEPT ![p] = 0]
  /\ UNCHANGED <<stock, back, crashes>>

\* A wider ring while attempts are left; the next job is added even if the
\* order has left DELIVERY_SEARCH since it was read.
DeliveryTimeoutExtend(p) ==
  /\ pc[p] = "deliveryTimeout" /\ att[p] < MaxAttempts
  /\ o' = IF o.ws = "DELIVERY_SEARCH"
          THEN [o EXCEPT !.searchWin = "open", !.attempt = att[p] + 1]
          ELSE o
  /\ jobs' \in Scheduled(jobs, att[p] + 1)
  /\ Goto(p, "idle") /\ att' = [att EXCEPT ![p] = 0]
  /\ UNCHANGED <<stock, back, crashes>>

\* Mutant: the write trusts the earlier read.
GiveUpUnfiltered(p) ==
  /\ pc[p] = "deliveryTimeout" /\ att[p] >= MaxAttempts
  /\ \/ /\ o' = Cancelled(o) /\ Goto(p, "compensate")
     \/ /\ o.ws # "DELIVERY_SEARCH"
        /\ Goto(p, "idle") /\ UNCHANGED o
  /\ att' = [att EXCEPT ![p] = 0]
  /\ UNCHANGED <<stock, jobs, back, crashes>>

DeliveryTimeoutGiveUp(p) ==
  /\ pc[p] = "deliveryTimeout" /\ att[p] >= MaxAttempts
  /\ \/ /\ o.ws = "DELIVERY_SEARCH"
        /\ o' = Cancelled(o) /\ Goto(p, "compensate")
     \/ /\ o.ws # "DELIVERY_SEARCH"
        /\ Goto(p, "idle") /\ UNCHANGED o
  /\ att' = [att EXCEPT ![p] = 0]
  /\ UNCHANGED <<stock, jobs, back, crashes>>

\* Bull hands a job to a worker; single attempt, removeOnComplete.
SellerJobRuns(p) ==
  /\ Idle(p) /\ SellerJob \in jobs
  /\ SellerTimeoutRead(p) /\ jobs' = jobs \ {SellerJob}

DeliveryJobRuns(p, n) ==
  /\ Idle(p) /\ n \in jobs
  /\ DeliveryTimeoutRead(p) /\ jobs' = jobs \ {n}

\* The sweep finds an order past a deadline and runs the same handlers.
SweepSellerPending(p) ==
  /\ Idle(p) /\ o.ws = "SELLER_PENDING" /\ o.sellerWin = "closed"
  /\ SellerTimeoutRead(p) /\ UNCHANGED jobs

SweepDeliverySearch(p) ==
  /\ Idle(p) /\ o.ws = "DELIVERY_SEARCH" /\ o.searchWin = "closed"
  /\ DeliveryTimeoutRead(p) /\ UNCHANGED jobs

\* An unpaid online order whose stock reservation has run out.
SweepPaymentTimeout(p) ==
  /\ Idle(p) /\ o.ws = "CREATED" /\ o.online /\ ~o.paid
  /\ o.payWin = "closed" /\ ~o.released
  /\ o' = Cancelled(o) /\ Goto(p, "compensate")
  /\ UNCHANGED <<stock, jobs, att, back, crashes>>

Sweep(p) == SweepSellerPending(p) \/ SweepDeliverySearch(p) \/ SweepPaymentTimeout(p)

(***************************************************************************)
(* compensateOrderCancellation: reads the order again, gives the stock back  *)
(* outside any transaction, saves the document with RELEASED, and reverses   *)
(* the finances in a transaction that saves it once more. An express order   *)
(* has no items. The money itself is not part of this module. Every save     *)
(* runs the pre-save hook, which copies deliveryPartner into an empty         *)
(* deliveryBoy of the document in hand.                                      *)
(***************************************************************************)
\* The rider the hook adds to what is saved, if any.
BroughtBack(doc) == IF doc.rider = NoRider THEN doc.partner ELSE NoRider

\* Only the changed field is written: a rider the hook does not add stays.
SavedWith(doc, r) == [doc EXCEPT !.rider = IF r = NoRider THEN @ ELSE r]

Compensate(p) ==
  /\ pc[p] = "compensate"
  /\ back' = [back EXCEPT ![p] = BroughtBack(o)]
  /\ Goto(p, IF o.kind = "express" \/ o.released THEN "saveCompensated" ELSE "restoreStock")
  /\ UNCHANGED <<o, stock, jobs, att, crashes>>

RestoreStock(p) ==
  /\ pc[p] = "restoreStock"
  /\ stock' = stock + 1
  /\ Goto(p, "saveCompensated")
  /\ UNCHANGED <<o, jobs, att, back, crashes>>

SaveCompensated(p) ==
  /\ pc[p] = "saveCompensated"
  /\ o' = [SavedWith(o, back[p]) EXCEPT !.released = @ \/ o.kind # "express"]
  /\ back' = [back EXCEPT ![p] = NoRider]
  /\ Goto(p, "reverse")
  /\ UNCHANGED <<stock, jobs, att, crashes>>

\* The reversal reads and saves in one transaction. A reversal already applied
\* saves nothing, and an error is logged and swallowed.
ReverseFinance(p) ==
  /\ pc[p] = "reverse"
  /\ o' \in {o, SavedWith(o, BroughtBack(o))}
  /\ Goto(p, "idle")
  /\ UNCHANGED <<stock, jobs, att, back, crashes>>

(***************************************************************************)
(* The environment: deadlines pass, processes die.                          *)
(***************************************************************************)
WindowCloses ==
  /\ \/ o.sellerWin = "open" /\ o' = [o EXCEPT !.sellerWin = "closed"]
     \/ o.searchWin = "open" /\ o' = [o EXCEPT !.searchWin = "closed"]
     \/ o.payWin = "open" /\ o' = [o EXCEPT !.payWin = "closed"]
  /\ UNCHANGED <<stock, jobs, pc, att, back, crashes>>

\* What a process had left to do is lost: nothing records it.
Crash(p) ==
  /\ ~Idle(p) /\ crashes < MaxCrashes
  /\ Goto(p, "idle") /\ att' = [att EXCEPT ![p] = 0]
  /\ back' = [back EXCEPT ![p] = NoRider]
  /\ crashes' = crashes + 1
  /\ UNCHANGED <<o, stock, jobs>>

(***************************************************************************)
(* The specification.                                                       *)
(***************************************************************************)
\* The rest of a handler that has started.
Continue(p) ==
  \/ AfterPlace(p) \/ PaymentPendingWrite(p) \/ MoveOrderToSellerPending(p)
  \/ BroadcastPaidExpress(p) \/ SellerAcceptSave(p)
  \/ SellerTimeoutWrite(p) \/ DeliveryTimeoutExtend(p) \/ DeliveryTimeoutGiveUp(p)
  \/ Compensate(p) \/ RestoreStock(p) \/ SaveCompensated(p) \/ ReverseFinance(p)

Request(p) ==
  \/ PaymentPending(p) \/ PaymentCaptured(p)
  \/ SellerAccept(p) \/ SellerReject(p) \/ CustomerCancel(p)

JobRuns(p) == SellerJobRuns(p) \/ \E n \in 1 .. MaxAttempts : DeliveryJobRuns(p, n)

Rider(r) ==
  \/ DeliveryAccept(r) \/ RiderCancelAssignment(r) \/ MarkArrivedAtStore(r)
  \/ ConfirmPickup(r) \/ VerifyPickupOtpAndConfirm(r) \/ VerifyHandoffOtpAndDeliver(r)

Next ==
  \/ \E p \in Workers : Request(p) \/ JobRuns(p)
  \/ Sweep(Sweeper)
  \/ \E p \in Procs : Continue(p) \/ Crash(p)
  \/ \E r \in Riders : Rider(r)
  \/ PaymentFailed
  \/ WindowCloses

\* A handler that has started is run to its end, time passes, and the scheduler
\* keeps calling the sweep. People, the gateway and Bull promise nothing.
Fairness ==
  /\ \A p \in Procs : WF_vars(Continue(p))
  /\ WF_vars(Sweep(Sweeper))
  /\ WF_vars(WindowCloses)

Spec == Init /\ [][Next]_vars /\ Fairness

(***************************************************************************)
(* Properties.                                                              *)
(***************************************************************************)
\* Types of the order document, the job ids and the processes.
TypeOK ==
  /\ o \in Order
  /\ stock \in Int
  /\ jobs \in SUBSET JobIds
  /\ pc \in [Procs -> Steps]
  /\ att \in [Procs -> 0 .. MaxAttempts]
  /\ back \in [Procs -> Riders \cup {NoRider}]
  /\ crashes \in 0 .. MaxCrashes

\* The stage and the rider agree: from assignment to delivery there is a rider,
\* and while the order waits for the seller or is on offer there is none (only
\* a WhatsApp order may be given its rider earlier).
RiderMatchesStage ==
  /\ o.ws \in WithRider => o.rider # NoRider
  /\ o.kind # "manual" /\ o.ws \in {"CREATED", "SELLER_PENDING", "DELIVERY_SEARCH"}
       => o.rider = NoRider

\* A rider who backed out never works on the order again, however often it is
\* offered: deliveryBoy names them once more only after a cancellation, when the
\* compensation's saves copy it back from deliveryPartner. That order stays
\* cancelled, unless it is a WhatsApp order that SellerAcceptSave revives.
BackedOutRiderNeverBack ==
  o.rider \in o.skipped =>
    /\ o.released \/ o.kind = "express"
    /\ o.kind # "manual" => o.ws = "CANCELLED"

\* No rider is ever searched for, and nothing is delivered, on an online order
\* whose payment was not captured, whichever payment path or seller moves it.
UnpaidNeverDispatched ==
  o.online /\ ~o.captured => o.ws \in {"CREATED", "SELLER_PENDING", "CANCELLED"}

\* Stock taken at placement goes back at most once, and only for a cancelled
\* order: concurrent cancellations must not both compensate.
StockBackOnlyOnce ==
  o.kind = "regular" =>
    /\ stock \in {-1, 0}
    /\ stock = 0 => o.ws = "CANCELLED"
    /\ o.released => stock = 0

\* Delivered and cancelled are final, whatever steps of other handlers are
\* still to come (a WhatsApp order is the exception: SellerAcceptSave).
TerminalIsFinal ==
  [][o.kind # "manual" /\ o.ws \in Terminal => o'.ws = o.ws]_vars

\* The seller has the whole acceptance window: before the deadline only the
\* seller or the customer cancels an order that awaits the seller, even though
\* the timeout handler checks the deadline and cancels in two steps.
SellerGetsWholeWindow ==
  [][(o.ws = "SELLER_PENDING" /\ o.sellerWin = "open" /\ o'.ws = "CANCELLED")
       => \E p \in Workers : SellerReject(p) \/ CustomerCancel(p)]_vars

\* A timeout never cancels an order that a rider has accepted in the meantime.
TimeoutSparesAssignedOrder ==
  [][(o.ws \in WithRider /\ o'.ws = "CANCELLED")
       => \E p \in Workers : CustomerCancel(p)]_vars

\* An order never waits for ever: for payment, for the seller or for a rider.
\* Lost jobs, lost Redis calls and dead processes are made good by the sweep.
WaitingEnds ==
  /\ (o.ws = "CREATED" /\ ~o.captured) ~> (o.ws # "CREATED" \/ o.captured)
  /\ (o.ws = "SELLER_PENDING") ~> (o.ws # "SELLER_PENDING")
  /\ (o.ws = "DELIVERY_SEARCH") ~> (o.ws # "DELIVERY_SEARCH")

\* A cancelled order gives its stock back, unless a process died on the way.
CancelledStockComesBack ==
  (o.kind = "regular" /\ o.ws = "CANCELLED") ~> (stock = 0 \/ crashes > 0)

\* What a customer may count on; a WhatsApp order is left out because
\* SellerAcceptSave may reopen it.
Lifecycle == INSTANCE OrderLifecycle WITH
  phase <- CASE o.kind = "manual" -> "open"
             [] o.kind # "manual" /\ o.ws = "DELIVERED" -> "delivered"
             [] o.kind # "manual" /\ o.ws = "CANCELLED" -> "cancelled"
             [] OTHER -> "open",
  hold <- IF o.kind = "regular" /\ stock = 0 THEN "returned" ELSE "held"

\* The workflow implements the abstract life of an order.
ImplementsLifecycle == Lifecycle!Spec

(***************************************************************************)
(* What the repository says and the code does not do.                       *)
(***************************************************************************)
\* TRANSITIONS of orderStateMachine.js: where each status may go.
TRANSITIONS ==
  [s \in WORKFLOW_STATUS |->
     CASE s = "CREATED" -> {"SELLER_PENDING"}
       [] s = "SELLER_PENDING" -> {"SELLER_ACCEPTED", "DELIVERY_SEARCH", "CANCELLED"}
       [] s = "SELLER_ACCEPTED" -> {"DELIVERY_SEARCH", "CANCELLED"}
       [] s = "DELIVERY_SEARCH" -> {"DELIVERY_ASSIGNED", "CANCELLED"}
       [] s = "DELIVERY_ASSIGNED" -> {"PICKUP_READY", "OUT_FOR_DELIVERY", "CANCELLED"}
       [] s = "PICKUP_READY" -> {"OUT_FOR_DELIVERY", "CANCELLED"}
       [] s = "OUT_FOR_DELIVERY" -> {"DELIVERED", "CANCELLED"}
       [] s \in Terminal -> {}]

CanTransition(from, to) == from = to \/ to \in TRANSITIONS[from]

\* orderStateMachine.js calls its table the allowed transitions of an order.
OnlyAllowedTransitions == [][CanTransition(o.ws, o'.ws)]_vars

\* The moves the handlers make that the table does not list: an unpaid order is
\* cancelled, a rider backs out, and SellerAcceptSave, which looks at no status,
\* assigns the preset rider of a WhatsApp order cancelled in the meantime.
UnlistedMoves(kind) ==
  {<<"CREATED", "CANCELLED">>, <<"DELIVERY_ASSIGNED", "DELIVERY_SEARCH">>,
   <<"PICKUP_READY", "DELIVERY_SEARCH">>}
    \cup IF kind = "manual" THEN {<<"CANCELLED", "DELIVERY_ASSIGNED">>} ELSE {}

\* Apart from those moves every status change of every kind of order is one the
\* table allows, whichever handler's step it is and whatever ran since its read.
TransitionsAccountedFor ==
  [][CanTransition(o.ws, o'.ws) \/ <<o.ws, o'.ws>> \in UnlistedMoves(o.kind)]_vars

\* orderStateMachine.js: nothing follows CANCELLED, for any order.
CancelledIsFinal == [][o.ws = "CANCELLED" => o'.ws = "CANCELLED"]_vars

\* orderCompensation.js reverses stock that was deducted at placement: an
\* order never adds stock it did not take.
NeverAddsStock == stock <= 0

\* riderCancelAssignmentAtomic drops the order back into the search "excluding
\* this rider": a rider who backed out is not the order's rider again.
BackedOutRiderStaysOff == o.rider \notin o.skipped

\* The order of a captured payment is PAID: constants/payment.js lets CAPTURED
\* become nothing but REFUNDED, and only a cancelled order is refunded.
CapturedStaysPaid == o.captured /\ o.ws # "CANCELLED" => o.paid
=============================================================================
