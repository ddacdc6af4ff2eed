---------------------------- MODULE SellerPayout ----------------------------
(***************************************************************************)
(* What the seller is paid for one delivered order and what a return takes   *)
(* back: settleDeliveredOrder, payoutService.js, payoutBatchJob.js,          *)
(* returnWindowReleaseJob.js, the return handlers that write                 *)
(* order.returnStatus, and completeReturnAndRefund.                          *)
(*                                                                           *)
(* A MongoDB transaction that reads and writes the same documents is one     *)
(* action: two of them that overlap conflict and one aborts. Settlement is   *)
(* not one action, because the payout is created in a transaction of its own *)
(* (createPendingPayoutForOrder ignores the session it is given). A handler  *)
(* that reads the order and then saves it is a call: Begin reads and checks, *)
(* Save writes, and anything may happen in between.                          *)
(*                                                                           *)
(* Money is counted in units: the payout is one unit, and so is the          *)
(* adjustment for a refund. The order is delivered from the start.           *)
(***************************************************************************)
EXTENDS Integers

CONSTANTS
  Calls,        \* return handlers running at the same time
  Settlers,     \* runs of settleDeliveredOrder at the same time
  Funds,        \* what the seller's wallet holds from other orders
  AutoRelease,  \* AUTO_RELEASE_SELLER_PAYOUT
  Keep          \* a path of the document that a save does not write

ASSUME FundsAssumption == Funds \in Nat
ASSUME AutoReleaseAssumption == AutoRelease \in BOOLEAN

ReturnStatus ==
  {"none", "return_requested", "return_approved", "return_rejected",
   "return_pickup_assigned", "return_in_transit", "return_drop_pending",
   "returned", "qc_passed", "qc_failed", "refund_completed"}

ASSUME KeepAssumption == Keep \notin ReturnStatus /\ Keep \notin BOOLEAN

\* "last" is the instant at which the window expires: a return may still be
\* requested (now > expires is false) and the hold may be released already
\* (expires <= now). Before "open" the eligibility delay is running.
Clock == {"waiting", "open", "last", "over"}
BeforeExpiry == {"waiting", "open"}

VARIABLES
  clock,    \* where the return window is
  rs,       \* order.returnStatus
  rider,    \* order.returnDeliveryBoy is set
  items,    \* order.returnItems is not empty
  otps,     \* the return OTPs that are neither consumed nor expired
  sp,       \* order.settlementStatus.sellerPayout
  flags,    \* order.financeFlags
  payout,   \* the newest seller payout of the order
  wallet,   \* the seller's wallet
  ledger,   \* how many ledger rows of each kind were written
  calls,    \* what each return handler will do next
  settle,   \* the state of each settlement run
  batch,    \* the next step of the automatic payout run
  release   \* the next step of returnWindowReleaseJob for this order

order == <<rs, rider, items, sp, flags>>
money == <<payout, wallet, ledger>>
jobs == <<batch, release>>
vars == <<clock, order, otps, money, calls, settle, jobs>>

IdleCall ==
  [step |-> "idle", then |-> "idle", rs |-> Keep, rider |-> Keep, otp |-> "no"]
IdleRun == [pc |-> "idle", hold |-> FALSE, makes |-> FALSE, clash |-> FALSE]

Init ==
  /\ clock = "waiting"
  /\ rs = "none" /\ rider = FALSE /\ items = FALSE /\ otps = {}
  /\ sp = "PENDING"
  /\ flags = [queued |-> FALSE, held |-> FALSE, settled |-> FALSE]
  /\ payout = "none"
  /\ wallet = [pending |-> 0, available |-> Funds]
  /\ ledger = [paid |-> 0, cancelled |-> 0, refunds |-> 0, debits |-> 0]
  /\ calls = [c \in Calls |-> IdleCall]
  /\ settle = [s \in Settlers |-> IdleRun]
  /\ batch = "idle" /\ release = "idle"

(***************************************************************************)
(* Building blocks.                                                         *)
(***************************************************************************)
\* The order is written: the transaction of every settlement that has read it
\* will fail with a write conflict when it saves the order. One that has nothing
\* else left to do is over; another still makes its payout first (clash).
Clashed == [s \in Settlers |->
              IF settle[s].pc = "payout" THEN [settle[s] EXCEPT !.clash = TRUE]
                                         ELSE IdleRun]

\* Mutant: a payout that exists already is not looked for.
CreatePayoutUnchecked ==
  /\ payout' = "PENDING"
  /\ wallet' = [wallet EXCEPT !.pending = @ + 1]
  /\ UNCHANGED ledger

\* Mutant: only an open payout counts as existing, a completed one does not.
CreatePayoutUnlessOpen ==
  IF payout # "PENDING" THEN CreatePayoutUnchecked ELSE UNCHANGED money

\* createPendingPayoutForOrder: nothing while a payout that is not cancelled
\* exists. It commits whatever becomes of the settlement that called it.
CreatePendingPayout ==
  IF payout \in {"none", "CANCELLED"}
  THEN /\ payout' = "PENDING"
       /\ wallet' = [wallet EXCEPT !.pending = @ + 1]
       /\ UNCHANGED ledger
  ELSE UNCHANGED money

\* processPayout, the transaction, on a payout that is still open. It does not
\* touch financeFlags.sellerPayoutHeld.
PayoutPaid ==
  /\ payout = "PENDING"
  /\ payout' = "COMPLETED"
  /\ wallet' = [pending |-> IF wallet.pending > 0 THEN wallet.pending - 1 ELSE 0,
                available |-> wallet.available + 1]
  /\ ledger' = [ledger EXCEPT !.paid = @ + 1]
  /\ sp' = "COMPLETED"
  /\ flags' = [flags EXCEPT !.queued = TRUE]
  /\ settle' = Clashed
  /\ UNCHANGED <<rs, rider, items>>

\* processPayout on a payout in another state throws and its callers log it.
ProcessPayout ==
  PayoutPaid \/ (payout # "PENDING" /\ UNCHANGED <<order, money, settle>>)

\* Mutant: the newest payout is cancelled whatever its status.
AnyPayoutCancelled ==
  /\ payout # "none"
  /\ payout' = "CANCELLED"
  /\ wallet' = [wallet EXCEPT !.pending = IF @ > 0 THEN @ - 1 ELSE 0]
  /\ ledger' = [ledger EXCEPT !.cancelled = @ + 1, !.refunds = @ + 1]

\* cancelPendingPayoutForOrder found an open payout.
PayoutCancelled ==
  /\ payout = "PENDING"
  /\ payout' = "CANCELLED"
  /\ wallet' = [wallet EXCEPT !.pending = IF @ > 0 THEN @ - 1 ELSE 0]
  /\ ledger' = [ledger EXCEPT !.cancelled = @ + 1, !.refunds = @ + 1]

(***************************************************************************)
(* Settlement of the delivered order: verifyHandoffOtpAndDeliver, the admin's *)
(* status update and the finance endpoint may each start one.                *)
(***************************************************************************)
SettlementBegins(s) ==
  /\ settle[s] = IdleRun
  /\ ~flags.settled
  /\ settle' = [settle EXCEPT ![s] =
       [pc |-> IF flags.queued THEN "save" ELSE "payout",
        hold |-> clock \in BeforeExpiry, makes |-> ~flags.queued,
        clash |-> FALSE]]
  /\ UNCHANGED <<clock, order, otps, money, calls, jobs>>

\* Mutant: an error of the payout's own transaction is swallowed.
SettlementSwallowsError(s) ==
  /\ settle[s].pc = "payout"
  /\ CreatePendingPayout \/ UNCHANGED money
  /\ settle' = [settle EXCEPT ![s] =
       IF @.clash THEN IdleRun ELSE [@ EXCEPT !.pc = "save"]]
  /\ UNCHANGED <<clock, order, otps, calls, jobs>>

SettlementQueuesPayout(s) ==
  /\ settle[s].pc = "payout"
  /\ CreatePendingPayout
  /\ settle' = [settle EXCEPT ![s] =
       IF @.clash THEN IdleRun ELSE [@ EXCEPT !.pc = "save"]]
  /\ UNCHANGED <<clock, order, otps, calls, jobs>>

SettlementCommits(s) ==
  LET run == settle[s]
  IN  /\ run.pc = "save"
      /\ sp' = IF run.hold THEN "HOLD" ELSE IF run.makes THEN "PENDING" ELSE sp
      /\ flags' = [queued |-> flags.queued \/ run.makes,
                   held |-> flags.held \/ run.hold, settled |-> TRUE]
      /\ settle' = [Clashed EXCEPT ![s] = IdleRun]
      /\ UNCHANGED <<clock, rs, rider, items, otps, money, calls, jobs>>

\* Another error in the rest of the settlement, or a dead server.
SettlementAborts(s) ==
  /\ settle[s].pc # "idle"
  /\ settle' = [settle EXCEPT ![s] = IdleRun]
  /\ UNCHANGED <<clock, order, otps, money, calls, jobs>>

(***************************************************************************)
(* Automatic payouts: payoutBatchJob, or an administrator who names none.    *)
(***************************************************************************)
\* The orders on HOLD are read first, and this one is left out when it is on
\* HOLD. The list of open payouts is read next and worked off: as processPayout
\* checks each again, the list is taken to be read when the payout is processed.
BatchReadsHolds ==
  /\ batch = "idle" /\ sp # "HOLD"
  /\ batch' = "paying"
  /\ UNCHANGED <<clock, order, otps, money, calls, settle, release>>

BatchPays ==
  /\ batch = "paying"
  /\ ProcessPayout
  /\ batch' = "idle"
  /\ UNCHANGED <<clock, otps, calls, release>>

\* An administrator names the payout, held or not.
AdminPays ==
  /\ PayoutPaid
  /\ UNCHANGED <<clock, otps, calls, jobs>>

(***************************************************************************)
(* returnWindowReleaseJob.                                                  *)
(***************************************************************************)
ReleaseReadsOrder ==
  /\ release = "idle"
  /\ rs = "none" /\ sp = "HOLD" /\ clock \notin BeforeExpiry
  /\ release' = "finding"
  /\ UNCHANGED <<clock, order, otps, money, calls, settle, batch>>

\* With AUTO_RELEASE_SELLER_PAYOUT: find the open payout and process it.
ReleasePays ==
  /\ release = "finding" /\ AutoRelease
  /\ ProcessPayout
  /\ release' = "idle"
  /\ UNCHANGED <<clock, otps, calls, batch>>

\* Without: only the hold is cleared, if there is an open payout.
ReleaseFindsPayout ==
  /\ release = "finding" /\ ~AutoRelease
  /\ release' = IF payout = "PENDING" THEN "clearing" ELSE "idle"
  /\ UNCHANGED <<clock, order, otps, money, calls, settle, batch>>

\* Mutant: the flag is cleared and settlementStatus stays on HOLD.
OnlyFlagCleared ==
  /\ flags' = [flags EXCEPT !.held = FALSE]
  /\ settle' = Clashed
  /\ UNCHANGED <<rs, rider, items, sp, money>>

\* Order.updateOne by _id alone: nothing is checked again.
HoldCleared ==
  /\ sp' = "PENDING"
  /\ flags' = [flags EXCEPT !.held = FALSE]
  /\ settle' = Clashed
  /\ UNCHANGED <<rs, rider, items, money>>

ReleaseClears ==
  /\ release = "clearing"
  /\ HoldCleared
  /\ release' = "idle"
  /\ UNCHANGED <<clock, otps, calls, batch>>

(***************************************************************************)
(* The return handlers. Mongoose saves the paths that differ from what the   *)
(* handler loaded, without a check that the document is still as loaded.     *)
(***************************************************************************)
Starts(c, call) ==
  /\ calls[c] = IdleCall
  /\ calls' = [calls EXCEPT ![c] = call]
  /\ UNCHANGED <<clock, order, money, settle, jobs>>

\* The handler will set returnStatus and returnDeliveryBoy (Keep: not touched),
\* and then be done ("idle") or go on.
Saves(then, status, boy) ==
  [step |-> "save", then |-> then,
   rs |-> IF status = rs THEN Keep ELSE status,
   rider |-> IF boy = rider THEN Keep ELSE boy, otp |-> "no"]

CreateReturnRequest(c) ==
  /\ rs = "none" /\ clock \in {"open", "last"}
  /\ Starts(c, Saves("idle", "return_requested", Keep))
  /\ UNCHANGED otps

ApproveReturn(c) ==
  /\ rs = "return_requested"
  /\ Starts(c, Saves("idle", "return_approved", FALSE))
  /\ UNCHANGED otps

RejectReturn(c) ==
  /\ rs = "return_requested"
  /\ Starts(c, Saves("idle", "return_rejected", Keep))
  /\ UNCHANGED otps

\* To a named rider (boy), or to whoever answers the broadcast.
AssignReturnDelivery(c) ==
  /\ rs \in {"return_requested", "return_approved"}
  /\ \E boy \in BOOLEAN :
       Starts(c, Saves("idle", "return_pickup_assigned", boy))
  /\ UNCHANGED otps

\* The return status is not looked at.
AcceptReturnPickup(c) ==
  /\ ~rider
  /\ Starts(c, Saves("idle", "return_pickup_assigned", TRUE))
  /\ UNCHANGED otps

RejectReturnPickup(c) ==
  /\ rider /\ rs = "return_pickup_assigned"
  /\ Starts(c, Saves("idle", "return_approved", FALSE))
  /\ UNCHANGED otps

\* processReturnPickupTimeoutJob out of attempts, one findOneAndUpdate.
ReturnPickupGivesUp ==
  /\ rs = "return_pickup_assigned" /\ ~rider
  /\ rs' = "return_approved"
  /\ settle' = Clashed
  /\ UNCHANGED <<clock, rider, items, sp, flags, otps, money, calls, jobs>>

RequestReturnPickupOtp ==
  /\ rs = "return_pickup_assigned" /\ "pickup" \notin otps
  /\ otps' = otps \cup {"pickup"}
  /\ UNCHANGED <<clock, order, money, calls, settle, jobs>>

\* The OTP is looked at, the return status is not.
VerifyReturnPickupOtp(c) ==
  /\ "pickup" \in otps
  /\ Starts(c, [Saves("idle", "return_in_transit", Keep) EXCEPT !.otp = "pickup"])
  /\ UNCHANGED otps

\* The status is written by an update, whatever was loaded.
RequestReturnDropOtp(c) ==
  /\ rider /\ rs \in {"return_in_transit", "return_drop_pending"}
  /\ Starts(c, [IdleCall EXCEPT !.step = "save", !.rs = "return_drop_pending"])
  /\ otps' = otps \cup {"drop"}

VerifyReturnDropOtp(c) ==
  /\ rider /\ "drop" \in otps
  /\ Starts(c, [Saves("idle", "returned", Keep) EXCEPT !.otp = "drop"])
  /\ UNCHANGED otps

\* An OTP expires, is tried too often, or is spent on a call that then dies.
ReturnOtpLost ==
  /\ \E otp \in otps : otps' = otps \ {otp}
  /\ UNCHANGED <<clock, order, money, calls, settle, jobs>>

\* orderOf: every status outside the pickup has rank 0.
OrderOf(status) ==
  CASE status = "return_pickup_assigned" -> 1
    [] status = "return_in_transit" -> 2
    [] status = "returned" -> 3
    [] OTHER -> 0

\* The administrator at any time, the rider once assigned. Setting the status
\* that is loaded saves nothing.
UpdateReturnStatus(c) ==
  /\ \E status \in {"return_pickup_assigned", "return_in_transit", "returned"} :
       /\ rs # status /\ OrderOf(status) >= OrderOf(rs)
       /\ Starts(c, Saves("idle", status, Keep))
  /\ UNCHANGED otps

UpdateReturnQcStatus(c) ==
  /\ rs = "returned"
  /\ \/ Starts(c, Saves("refund", "qc_passed", Keep))
     \/ Starts(c, Saves("payout", "qc_failed", Keep))
  /\ UNCHANGED otps

\* The save; the quality check goes on after it.
Save(c) ==
  LET call == calls[c]
  IN  /\ call.step = "save"
      /\ rs' = IF call.rs = Keep THEN rs ELSE call.rs
      /\ rider' = IF call.rider = Keep THEN rider ELSE call.rider
      /\ items' = (items \/ call.rs = "return_requested")
      /\ otps' = otps \ {call.otp}
      /\ calls' = [calls EXCEPT ![c] = [IdleCall EXCEPT !.step = call.then]]
      /\ settle' = Clashed
      /\ UNCHANGED <<clock, sp, flags, money, jobs>>

\* Seller adjustment: an open payout on hold is cancelled (and none is fine),
\* what was released is debited, or the whole transaction aborts.
SellerAdjusted ==
  \/ /\ sp = "HOLD" \/ flags.held
     /\ PayoutCancelled
     /\ sp' = "CANCELLED"
     /\ flags' = [flags EXCEPT !.held = FALSE]
  \/ /\ sp = "HOLD" \/ flags.held
     /\ payout # "PENDING"
     /\ ledger' = [ledger EXCEPT !.refunds = @ + 1]
     /\ UNCHANGED <<payout, wallet, sp, flags>>
  \/ /\ sp # "HOLD" /\ ~flags.held
     /\ wallet.available >= 1
     /\ wallet' = [wallet EXCEPT !.available = @ - 1]
     /\ ledger' = [ledger EXCEPT !.debits = @ + 1, !.refunds = @ + 1]
     /\ UNCHANGED <<payout, sp, flags>>

\* completeReturnAndRefund, one transaction. The customer is credited under the
\* key RET-CUST-REFUND-<order>, unique in the ledger: a second credit aborts.
\* Without return items the refund amounts to 0 and no money moves.
RefundCommits ==
  /\ rs = "qc_passed"
  /\ IF items THEN ledger.refunds = 0 /\ SellerAdjusted
              ELSE UNCHANGED <<money, sp, flags>>
  /\ rs' = "refund_completed"
  /\ settle' = Clashed
  /\ UNCHANGED <<rider, items>>

CompleteReturnAndRefund(c) ==
  /\ calls[c].step = "refund"
  /\ RefundCommits
  /\ calls' = [calls EXCEPT ![c] = IdleCall]
  /\ UNCHANGED <<clock, otps, jobs>>

\* Mutant: a failed check cancels the payout as a passed one does.
QcFailedCancels(c) ==
  /\ calls[c].step = "payout" /\ payout = "PENDING"
  /\ payout' = "CANCELLED" /\ sp' = "CANCELLED"
  /\ wallet' = [wallet EXCEPT !.pending = @ - 1]
  /\ ledger' = [ledger EXCEPT !.cancelled = @ + 1]
  /\ flags' = [flags EXCEPT !.held = FALSE]
  /\ settle' = Clashed
  /\ calls' = [calls EXCEPT ![c] = IdleCall]
  /\ UNCHANGED <<clock, rs, rider, items, otps, jobs>>

\* After a failed check the payout is released, or only its hold is.
ReleaseAfterQcFailed(c) ==
  /\ calls[c].step = "payout"
  /\ IF AutoRelease THEN ProcessPayout ELSE HoldCleared
  /\ calls' = [calls EXCEPT ![c] = IdleCall]
  /\ UNCHANGED <<clock, otps, jobs>>

\* A handler ends early: an error (the refund finds the key or too little in
\* the seller's wallet, or the status has moved on) or a dead server.
CallFails(c) ==
  /\ calls[c] # IdleCall
  /\ calls' = [calls EXCEPT ![c] = IdleCall]
  /\ UNCHANGED <<clock, order, otps, money, settle, jobs>>

(***************************************************************************)
(* Time: the delay and the window end; with their default lengths, two       *)
(* minutes each, the window is over when the delay is ("open" is skipped).   *)
(***************************************************************************)
DelayEnds == clock = "waiting" /\ clock' \in {"open", "last"}
WindowEnds == clock = "open" /\ clock' = "last"
InstantPasses == clock = "last" /\ clock' = "over"

Tick ==
  /\ DelayEnds \/ WindowEnds \/ InstantPasses
  /\ UNCHANGED <<order, otps, money, calls, settle, jobs>>

Settlement(s) ==
  \/ SettlementBegins(s)
  \/ SettlementQueuesPayout(s)
  \/ SettlementCommits(s)
  \/ SettlementAborts(s)

Batch == BatchReadsHolds \/ BatchPays
Release == ReleaseReadsOrder \/ ReleasePays \/ ReleaseFindsPayout \/ ReleaseClears

ReturnCall(c) ==
  \/ CreateReturnRequest(c)
  \/ ApproveReturn(c)
  \/ RejectReturn(c)
  \/ AssignReturnDelivery(c)
  \/ AcceptReturnPickup(c)
  \/ RejectReturnPickup(c)
  \/ VerifyReturnPickupOtp(c)
  \/ RequestReturnDropOtp(c)
  \/ VerifyReturnDropOtp(c)
  \/ UpdateReturnStatus(c)
  \/ UpdateReturnQcStatus(c)
  \/ Save(c)
  \/ CompleteReturnAndRefund(c)
  \/ ReleaseAfterQcFailed(c)
  \/ CallFails(c)

Next ==
  \/ \E s \in Settlers : Settlement(s)
  \/ \E c \in Calls : ReturnCall(c)
  \/ Batch
  \/ Release
  \/ AdminPays
  \/ ReturnPickupGivesUp
  \/ RequestReturnPickupOtp
  \/ ReturnOtpLost
  \/ Tick

Spec == Init /\ [][Next]_vars

\* The two jobs run again and again (distributedScheduler.js) and time passes.
\* Nothing is assumed of customers, sellers, riders and administrators.
FairSpec == Spec /\ WF_vars(Tick) /\ WF_vars(Batch) /\ WF_vars(Release)

(***************************************************************************)
(* Properties.                                                              *)
(***************************************************************************)
CallSteps == {"idle", "save", "refund", "payout"}
CallRecord ==
  [step : CallSteps, then : {"idle", "refund", "payout"},
   rs : ReturnStatus \cup {Keep}, rider : BOOLEAN \cup {Keep},
   otp : {"no", "pickup", "drop"}]
RunRecord ==
  [pc : {"idle", "payout", "save"}, hold : BOOLEAN, makes : BOOLEAN,
   clash : BOOLEAN]

\* The type invariant: every field stays in the set its schema allows.
TypeOK ==
  /\ clock \in Clock
  /\ rs \in ReturnStatus /\ rider \in BOOLEAN /\ items \in BOOLEAN
  /\ otps \subseteq {"pickup", "drop"}
  /\ sp \in {"PENDING", "HOLD", "COMPLETED", "CANCELLED"}
  /\ flags \in [queued : BOOLEAN, held : BOOLEAN, settled : BOOLEAN]
  /\ payout \in {"none", "PENDING", "COMPLETED", "CANCELLED"}
  /\ wallet \in [pending : Nat, available : Nat]
  /\ ledger \in [paid : Nat, cancelled : Nat, refunds : Nat, debits : Nat]
  /\ calls \in [Calls -> CallRecord]
  /\ settle \in [Settlers -> RunRecord]
  /\ batch \in {"idle", "paying"}
  /\ release \in {"idle", "finding", "clearing"}

\* The seller's wallet agrees with the payout and the ledger: the pending bucket
\* holds exactly the open payout, however settlements, payout runs, releases and
\* refunds interleave, so the Math.max(0, ...) of processPayout and
\* cancelPendingPayoutForOrder never hides a shortfall.
WalletMatchesPayouts ==
  /\ wallet.pending = IF payout = "PENDING" THEN 1 ELSE 0
  /\ wallet.available = Funds + ledger.paid - ledger.debits

\* One order pays its seller once, although batch runs, the release job, a
\* failed quality check and administrators may all hold the same payout id.
PaidOnlyOnce == ledger.paid = IF payout = "COMPLETED" THEN 1 ELSE 0

\* An order is marked settled only when its seller has a payout, although the
\* payout and the mark are written by different transactions, the first of which
\* may commit for a settlement that aborts and is run again.
SettledHasPayout == flags.settled => payout # "none"

\* The customer is refunded once, although updateReturnStatus and
\* acceptReturnPickup can take a refunded order back to the quality check, and the
\* refund costs the seller at most once: the payout is cancelled or the wallet is
\* debited, never both, and neither happens without a refund.
RefundCostsOnce ==
  /\ ledger.refunds <= 1
  /\ ledger.cancelled + ledger.debits <= ledger.refunds

\* A completed payout stays completed: no refund cancels money already released.
CompletedIsFinal == [][payout = "COMPLETED" => payout' = "COMPLETED"]_vars

\* A settled order nobody returns is paid in the end: whatever the race between
\* settlement and jobs left in sellerPayout, the release job and the batch get it.
UnreturnedOrderIsPaid ==
  (flags.settled /\ rs = "none" /\ payout = "PENDING")
    ~> (payout # "PENDING" \/ rs # "none")

\* "Automatic runs must not release payouts still inside the return window"
\* (payoutService.js:315).
NoAutomaticPayInWindow ==
  [][batch = "paying" /\ batch' = "idle" /\ ledger'.paid > ledger.paid
       => clock \notin BeforeExpiry]_vars

\* No "customer who has been credited but a seller who hasn't been debited"
\* (orderReturnService.js:426).
RefundChargesSeller == ledger.refunds <= ledger.cancelled + ledger.debits

\* returnWindowReleaseJob releases the held payouts "once the window expires"
\* (payoutService.js:316); a rejected return leaves nothing else to wait for.
RejectedReturnIsPaid ==
  (flags.settled /\ rs = "return_rejected" /\ payout = "PENDING")
    ~> (payout # "PENDING" \/ rs # "return_rejected")
=============================================================================
