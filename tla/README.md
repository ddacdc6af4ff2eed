# Athreya backend in TLA+

The repository is a quick-commerce marketplace. A Node.js backend
(`src/backend`) keeps its state in MongoDB and Redis and runs as three kinds of
process: the API, Bull queue workers and a scheduler. Customers place orders
with sellers, riders deliver them, a payment gateway captures the money and the
platform pays sellers and riders. The frontend only issues requests.

This directory models the part of the backend where several processes change
the same documents: the life of an order and what hangs on it.

## 1. The system

### Components, state and operations

| component | state it keeps | operations | correct when |
|---|---|---|---|
| order workflow (`orderWorkflowService.js`) | `workflowStatus`, `deliveryBoy`, `skippedBy`, deadlines, search attempt on the order document | seller accepts or rejects, rider accepts, backs out, arrives, picks up, delivers; customer cancels; two timeouts | one outcome per order, the rider on the document is the rider of the stage, timeouts only hit orders that wait |
| timeout jobs (`bullJobScheduler.js`, `orderQueueProcessors.js`) | waiting Bull jobs, ids `order:<id>:seller`, `order:<id>:delivery:<n>` | schedule, remove, run once | a late, lost or left-over job does no harm |
| auto-cancel sweep (`orderAutoCancelJob.js`) | none | finds orders past a payment, seller or search deadline and runs the same handlers | no order waits for ever |
| compensation and stock (`orderCompensation.js`, `stockService.js`) | product stock, `stockReservation.status` | reserve at placement, release after cancellation, reverse the money | stock goes back exactly once |
| payments (`paymentService.js`) | payment document, webhook events, the order's `paymentStatus` | create, verify, webhook, side effects on the order | a captured payment moves its order on or is refunded; nothing unpaid is dispatched |
| checkout placement (`orderPlacementService.js`) | orders, checkout group, cart | one transaction that prices, reserves and creates | one checkout per idempotency key |
| idempotency (`idempotencyService.js`) | Redis lock, result and error per key | check, lock, store, release | a retry gets the first outcome |
| order finance (`orderFinanceService.js`, `orderSettlement.js`) | `financeFlags`, `settlementStatus`, wallets, ledger | capture, COD collection, settlement, reversal | every rupee moves once |
| rider cash (`deliveryController.js`, `cashService.js`) | `codMarkedCollected`, what was remitted, cash in hand, submissions | accept within a cash limit, collect, hand over one order or everything, settle | cash in hand is what was collected and not handed over |
| wallets and ledger (`walletService.js`, `ledgerService.js`) | wallet balances, ledger entries | credit, debit, move pending to available | balances follow the ledger, never negative |
| payouts (`payoutService.js`, `payoutBatchJob.js`, `returnWindowReleaseJob.js`) | payout documents, pending balance | create, hold, process, cancel | a seller is paid once, after the return window |
| returns (`orderReturnService.js`, `returnRequestController.js`) | `returnStatus`, return pickup and refund; the return request document | request, approve, pick up, quality check, refund, override | a refunded order is not paid out, a return is refunded once |
| cancellation requests (`cancellationRequestController.js`) | request document, drop-off code | request, decide, verify | a cancelled order is compensated once |
| order administration (`orderController.js`) | the same order document | force a status, assign a rider, rebroadcast, skip | an admin's write does not undo another's |
| codes (`deliveryOtpService.js`, `otpAuthService.js`) | OTP documents with attempts and expiry | create, verify, consume | a code works once, guesses are bounded |
| coins, cashback, coupons (`coinsService.js`, `couponService.js`) | coin wallet and its transactions, `usedCount` | earn, redeem, hand back, take back, count | what a cancelled checkout spent comes back, no more and no less; limits hold |
| distributed scheduler (`distributedScheduler.js`) | a Redis lock per job | run a job under the lock | one instance runs a job at a time |
| process roles, startup, shutdown | which loops run where | start, drain | - |
| pricing and fares | none (pure) | price a cart, a parcel | amounts add up |
| notifications, sockets, caches, search index, maps, media, catalogue, seller forms, middleware, metrics, frontend | apart from orders and money | | |

### How they interact

All interaction is through the order document. API handlers, Bull workers and
the sweep call the same workflow functions, in different processes, without a
lock; the only mutual exclusion is the filter of a `findOneAndUpdate`. A
workflow function schedules or removes Bull jobs after its write and ignores
failures to do so. A cancelling function then calls
`compensateOrderCancellation`, which reads the order again. A payment result
reaches the order by a verification the customer's app asks for or by the
gateway's webhook, whichever comes first, or both.

### What is hard here

* Handlers that read, check and then write (`processSellerTimeoutJob`,
  `processDeliveryTimeoutJob`, the second save of `sellerAcceptAtomic`, the
  pending branch of a payment verification): the filter of the write covers
  only a part of what the check looked at.
* Four independent ways to cancel, each followed by a compensation in several
  unprotected writes.
* Jobs that are lost, refused because their id is taken, or left behind; a
  sweep that has to make up for all of it.
* Process deaths between a write and its consequences: nothing is journalled.
* Transactions inside transactions in settlement and payouts.
* Locks in Redis that may expire under their holder, and are deleted by key.
* Handlers that save a document they loaded before several awaits: only the
  fields they changed are written, over whatever else happened.

`PROJECT.json` lists every hazard at its line, with the properties that watch it.

## 2. Plan

Order of work, most important first.

1. `OrderWorkflow` + `OrderLifecycle` (done): the order document under all its
   concurrent handlers, refinement to an abstract life, proofs.
2. `SellerPayout` (done): settlement, hold, batch, release and return of one
   delivered order, with the balance of the seller proved.
3. `Checkout` + `CheckoutService` (done): the idempotency protocol around
   `placeOrderAtomic`; the abstract specification remembers one order per key.
4. `Payment` + `PaidOrder` (done): payment documents, webhook deduplication,
   verification, capture and reversal of a checkout of several orders.
5. `JobLock` (done): the scheduler's lock.
6. `ReturnRequest` (done): the second return system, by request documents.
7. `CodCash` (done): cash on delivery from the doorstep to the administrator.
8. `Loyalty` (done): a customer's coins and a coupon, from checkout to delivery or
   cancellation.
9. `OrderAdmin`: the read-check-save endpoints of the first version, composed
   with the workflow.
10. `DeliveryOtp`, `CancellationRequest`, withdrawals.
11. Pricing and fares as operators over bounded inputs.

Abstract specifications are worth stating where a protocol hides behind a simple
promise: an order's life, a checkout, the money of a paid order. The other
modules state their promise as invariants over a ledger.

Every safety and action property that a passing run checks is stated by a theorem
(section 5). Theorems to come belong to the modules to come.

## 3. Modules

`MC<module>` only adds the symmetry sets TLC uses. `<module>Proofs` holds the
theorems. Operators marked "Mutant" are deliberate bugs, never part of a
specification: each shows that a property notices that bug.

### OrderWorkflow

One order, since no handler touches another order's document. The document is
the record `o`; its fields are those of the schema that handlers read, and a
deadline is `none`, `open` or `closed`.

| model | code |
|---|---|
| `Placed`, `Init` | the documents saved by `placeOrderAtomic` (regular), `placeCustomPickupOrder` (express) and `createManualOrder` (WhatsApp, `manual`) |
| `AfterPlace`, `AfterPlaceExpress` | `afterPlaceOrderV2`, `afterPlaceExpressOrderV2`, run after the response |
| `PaymentPending`, `PaymentPendingWrite` | a verification that finds the payment pending, and its later write |
| `PaymentCaptured`, `MoveOrderToSellerPending`, `BroadcastPaidExpress` | the capture: PAID first, then the move |
| `PaymentFailed` | the cancelling transaction of a failed payment |
| `SellerAccept`, `SellerAcceptSave`, `SellerReject` | `sellerAcceptAtomic` in its two writes, `sellerRejectAtomic` |
| `DeliveryAccept` ... `VerifyHandoffOtpAndDeliver` | the rider's six operations |
| `CustomerCancel` | `customerCancelV2` |
| `SellerTimeoutRead/Write`, `DeliveryTimeoutRead/Extend/GiveUp` | the two timeout handlers, split between read and write |
| `SellerJobRuns`, `DeliveryJobRuns` | Bull hands a job to a worker |
| `Sweep...` | `autoCancelExpiredOrders`, one disjunct per query |
| `partner`, `BroughtBack`, `SavedWith` | `deliveryPartner`, the mirror of `deliveryBoy`: an acceptance sets both, a back-out clears only `deliveryBoy`, and the hook before a save copies the mirror back into an empty `deliveryBoy` |
| `Compensate`, `RestoreStock`, `SaveCompensated`, `ReverseFinance` | `compensateOrderCancellation`: the order is read again, the stock given back, the document saved, and saved once more by the reversal of its finances |
| `WindowCloses`, `Crash` | time and process deaths |

A `findOneAndUpdate` is one action. A handler with work left occupies a process
(`pc`) so that anything may happen before it continues. Bull's delay is not
modelled: a job may run at any time after it was added, which is more than Bull
does and harmless because the handlers read the deadlines themselves; what a
job finds then includes every late, early or left-over job. Adding or removing
a job may silently fail.

Data left out: money (in `Payment` and `CodCash`), coins (in `Loyalty`),
tracking fields, notifications, the OTP check in front of pickup and delivery,
the cash limit in front of the acceptance (in `CodCash`). A stock amount counts
one unit for all items of the order.

### OrderLifecycle

The promise to a customer: an order ends once, delivered or cancelled, and its
stock comes back only after cancellation and only once. `OrderWorkflow` maps to
it with `phase` taken from `workflowStatus` and `hold` from the stock. A
WhatsApp order is mapped to an order that stays open, because
`SellerAcceptSave` may reopen it (see the findings).

### SellerPayout

One delivered order, its seller's payout and wallet, and the return of the
order. `OrderWorkflow` ends where this module starts: at DELIVERED. The return
status is the one on the order document.

| model | code |
|---|---|
| `rs`, `rider`, `items`, `sp`, `flags` | `returnStatus`, `returnDeliveryBoy`, `returnItems`, `settlementStatus.sellerPayout`, and `sellerPayoutQueued`, `sellerPayoutHeld`, `deliveredSettlementApplied` of `financeFlags` |
| `payout`, `wallet`, `ledger` | the payout document, the seller's two balances, and how many ledger rows of each kind exist |
| `SettlementBegins`, `SettlementQueuesPayout`, `SettlementCommits`, `SettlementAborts` | `settleDeliveredOrder`: its read, the payout's own transaction, its commit or abort |
| `PayoutPaid`, `ProcessPayout` | `processPayout` |
| `BatchReadsHolds`, `BatchPays` | `payoutBatchJob`, or `bulkProcessPayouts` called without names |
| `AdminPays` | `bulkProcessPayouts` called with the payout's id |
| `ReleaseReadsOrder` ... `ReleaseClears` | `returnWindowReleaseJob`, with and without `AUTO_RELEASE_SELLER_PAYOUT` |
| `CreateReturnRequest` ... `UpdateReturnQcStatus`, then `Save` | the handlers that write `returnStatus`: the read with its checks, and the save |
| `ReturnPickupGivesUp` | the last attempt of `processReturnPickupTimeoutJob` |
| `RequestReturnPickupOtp`, `ReturnOtpLost` | the return codes, as valid or not |
| `CompleteReturnAndRefund` | the refund transaction |
| `ReleaseAfterQcFailed` | the rest of `updateReturnQcStatus` after a failed check |
| `DelayEnds`, `WindowEnds`, `InstantPasses` | eligibility delay and return window |

A MongoDB transaction is one action. Transactions that overlap on a document
they write conflict, and one aborts: when the order is written by another, a
settlement that has read it is lost, at once or (`clash`) after the payout it is
about to make. The exception is
`createPendingPayoutForOrder`, which opens a transaction of its own and so
commits before the settlement that calls it.

A return handler loads the document, checks it and saves it. Mongoose writes
the paths that differ from what was loaded and does not check that the document
is still the one loaded, so a call carries the values it will write (or `Keep`)
from its read to its `Save`. `CallFails` ends a call at any point: an exception
or a dead process. A code is taken as consumed when the call saves.
`CallFails` and `ReturnOtpLost` together give the call that consumed a code and
died.

Money is counted in units: the payout is one, the adjustment after a refund is
one. The list of payouts a batch works off is taken to be read when the payout
is processed, since `processPayout` checks the status again. One batch and one
release run are in progress at a time; several payments at once come from
`AdminPays` and `ReleaseAfterQcFailed`.

Left out: withdrawals, the rider's return commission (in `ReturnRequest`),
partial amounts, the refund variant for `TRANSACTIONAL_REFUND_ENABLED=false`,
orders without a seller or with nothing to pay out (`NOT_APPLICABLE`), other
settlement steps (rider, admin, cashback, coins: they can only make the
settlement abort, which is modelled) and the extension of the pickup search.

### Checkout

The requests of one customer that go through `placeOrderAtomic`, with or without
an idempotency key. Every await is a step.

| model | code |
|---|---|
| `lock`, `result`, `error` | the three Redis entries of a key in `idempotencyService.js` |
| `stock`, `money`, `group`, `sold` | product stock, customer wallet, the checkout group (unique by customer and key), and the orders' rows |
| `Arrive`, `Check`, `TakeLock` | the header, `checkIdempotency` (error before result before lock), SET NX |
| `FindExisting` | `findExistingCheckoutByIdempotency` |
| `Begin`, `Commit`, `Abort` | the transaction on its snapshot; the catch block with each reason (`MayFail`) |
| `Cache`, `Unlock`, `Lookup` | storing result or error, deleting the lock, the handler of error 11000 with its retries |
| `Breaks` | Redis or MongoDB failing outside the transaction, or the process dying |
| `LockExpires`, `LockExpiresEarly`, `ErrorExpires`, `ResultExpires`, `RecordExpires` | times to live, of Redis and of the TTL indexes |

A basket stands for the payload and for its checksum. Every order takes one unit
of one product and one unit of the wallet, so that transactions open together
always write common documents: the case that needs the conflict. A commit makes
every other open transaction `stale`. An early expiry is a lock whose 60 s end
while its request still runs.

### CheckoutService

What the customer is promised: a request places one order in one instant, or
none; while the order of a key is remembered there is no second; nobody is told
of an order that was not placed. `Checkout` implements it: `open` is the keys
with a checkout group, `told` follows from what the request holds as its answer
and is decided by the commit, before Redis or the customer knows.

### Payment

One checkout of `NumOrders` orders, its payment attempts and the gateway.

| model | code |
|---|---|
| `order`, `group`, `ledger` | the orders' status, payment status, stock and finance flags; the checkout group; the rows of captures and reversals |
| `payment`, `events` | the payment documents and the recorded webhook events |
| `gateway`, `sent`, `due` | external: the gateway's result, the webhooks it sent, those not yet answered 200 |
| `CreateBegins`, `CreateLooks`, `CreateCounts`, `Initiates`, `Inserts` | `createPaymentOrderForOrderRef`, one action per await |
| `GatewayDecides`, `GatewayTells` | external: a result comes, a webhook is sent |
| `Deliver`, `WebhookFinds` | `processPhonePeWebhook`: the event recorded, the payment looked up |
| `VerifyBegins`, `VerifyAsks` | `verifyPhonePePaymentStatus` |
| `Saves` | `transitionPaymentState` on the document read before |
| `FinanceBegins`, `FinanceCommits`, `Moves`, `GroupPaid` | a capture: `handleOnlineOrderFinance` and the move for each order in turn, the group last |
| `FailureBegins`, `FailureCommits`, `GroupFails`, `PendingWrites` | the other branches of `handleOrderSideEffectsFromPaymentStatus` |
| `CancelOrder`, `ReleaseStock`, `GroupFollows`, `ReversalBegins`, `ReversalCommits` | a cancellation by anyone and its compensation |
| `Conflicts`, `Dies` | a write conflict; a process that dies, or a call of MongoDB or the gateway that fails |

A transaction takes two steps: it opens on a snapshot and says what it will
write, and commits unless one of these documents was written since. Document 0
is the platform's wallet, which every capture writes. `EventId` follows the
adapter: the transaction id if the webhook has one, whatever the state.

### PaidOrder

Each order of a checkout: money in once, sold only after that, money out once
and only after a cancellation. `Payment` maps `life` from the workflow status
and `money` from the ledger rows.

### JobLock

The runs of one job of `distributedScheduler.js` on all processes.

| model | code |
|---|---|
| `Acquire` | SET NX PX, then the job starts |
| `Finish`, `ReadLock`, `DeleteLock` | the job ends; GET and DEL of the release, two steps |
| `Fails` | the job throws, or its process dies |
| `Expires` | the time to live ends; `expired` counts the times its run was not over |

### ReturnRequest

The return requests of one order.

| model | code |
|---|---|
| `request`, `returnStatus`, `ledger` | the request documents, the status copied to the order, the rows by request |
| `VALID_TRANSITIONS`, `Moves` | the table and, per handler, the status it starts from and goes to |
| `SubmitLooks`, `SubmitCreates` | `submitReturnRequest`, with the upload of pictures in between |
| `Begins`, `Assigns`, `AcceptReads`, `JobReads` | the read and the checks of a handler or of the acceptance timeout job |
| `Saves`, `SavesOrder` | the save of the changed fields, then of the order |
| `DeliversToSeller` | the delivery with the rider's commission, one transaction |
| `RefundBegins`, `RefundCommits`, `RefundRefused`, `CompletesRefund` | initiate or override: status, refund transaction (or the taken ledger key), completion |
| `Dies` | death or failure between any two of these |

As in `SellerPayout`, a call carries the fields it changed from its read to its
save. MongoDB repeats the refund transaction after a conflict, so it is one
step. Both return systems write the order's `returnStatus`; they are not
composed, and each module lets the order's status be what its own handlers make
of it.

### CodCash

The cash of several orders on its way through riders' wallets to the
administrator.

| model | code |
|---|---|
| `orders` | `workflowStatus` (`ws`) and `status`, which are written apart; rider, its mirror and who backed out; what was collected and remitted, `codMarkedCollected` (`marked`), `deliveredSettlementApplied` (`applied`), the status of the cash |
| `cash`, `admin` | cash in hand of the riders' wallets, the administrator's income |
| `credits`, `debits`, `slips`, `settled` | the ledger of each rider, collected and remitted; recorded submissions; settled amounts |
| `AcceptChecks`, `AcceptWrites` | `assertRiderWithinCashLimit`, then the acceptance |
| `RidesOn`, `BacksOut` | arrival at the store and pickup; `riderCancelAssignmentAtomic` |
| `HandoffDelivers`, `DeliveredRequested`, `Settles` | the two ways to a settlement, then `settleDeliveredOrder` and the look at the order it returns |
| `Saved` | the hook before a save: `deliveryBoy` and `deliveryPartner` fill each other |
| `MarkCollected`, `Callers`, `Partners`, `CollectsCod` | the request, who may make it and for whom, and the transaction of `handleCodOrderFinance` |
| `ReconcileRequested`, `Reconciles` | the finance endpoint and `reconcileCodCash` |
| `SubmitReads`, `Submits`, `SubmitRecords` | the rider hands over everything: the list, one transaction per order, the record |
| `SettleRiderCash` | the administrator's settlement |
| `Fails` | an aborted transaction or a dead process |

A transaction is one action; what a handler read before it is in `pc`. Amounts
are small integers, and `AtLeastZero` clamps as `clampMoney` does.

`settleDeliveredOrder` writes `status` and leaves `workflowStatus`, and the rider's
back-out asks only for the latter. So the finance endpoint may settle and collect
an order that its rider then backs out of; it is searched for, accepted and
delivered again, by another rider, with its cash in the first one's wallet.

The theorems and the properties of `cash_safety` allow for everything the code
does here. `Irregular` only says for which orders a run makes the back-outs
(`backout`), the requests that name another rider (`named`) and those for orders
without a rider (`riderless`), to keep it small; the proofs take any set. `Express`
are the orders which are created with their cash already collected. What these do
to the books is in section 6.

Left out: online orders, cancellations (a cancelled order is not submitted any
more), and `updateOrderStatus` (`orderController.js:944`) and `assignRiderToOrder`
(`:2465`), by which an administrator sets a status or a rider by hand.

### Loyalty

One customer's coin wallet and one coupon, over several checkouts of
`NumSellers` orders each.

| model | code |
|---|---|
| `engine`, `creditOn` | `SERVER_SIDE_COUPON_ENGINE`, and the setting that says when coins are granted |
| `used`, `balance`, `rows` | the coupon's `usedCount`, the coin wallet, the `CoinTransaction`s by idempotency key |
| `order` | status, coupon, and the `coins` sub-document with the two flags of `financeFlags` that guard it |
| `MayUseCoupon` | the two limits of `computeOrderDiscount`, in the snapshot of the transaction |
| `Spendable`, `Paise` | `computeRedeemableCoins`: what may be spent, and what it is worth, rounded to the paisa |
| `Rounded`, `Parted`, `Off`, `RedeemedShares`, `ToPay` | `applyCoinsRedemptionToSellerBreakdowns`: coins and paise are parted by what is to be paid and rounded half up, the last order gets the rest, but not less than nothing; nothing happens if the coins are worth no paisa |
| `ByWeight`, `Allocated`, `EarnedShares` | `allocateIntegerByWeight`: rounded down, the last order gets the rest, even shares if all weights are zero; the weights are what is left to pay when the coins are off |
| `PlaceBegins`, `PlaceCommits`, `CountsUse`, `UseNotCounted` | `placeOrderAtomic`; with the engine off the use is counted after the commit, by an update nobody waits for |
| `Movement` | `recordMovement`: no row for no coins or for a key that is taken |
| `SettleBegins`, `SettleCommits` | `settleDeliveredOrder`, after the handoff or by the finance endpoint |
| `ReverseBegins`, `ReverseCommits` | `reverseOrderFinanceOnCancellation` |
| `CouponUsedElsewhere`, `Deliver`, `Cancel` | other customers' checkouts, and the order's way |
| `Aborts` | a transaction that aborts for any other reason |

Transactions are those of `Payment`: a snapshot when they open, and a commit
unless a document they write was written in between. Prices are in paisa, and
`CoinsPerPaisa` is the coins that are worth one, 10 by default
(`constants/coins.js:65`). Shares are those of exact arithmetic; the code
computes with doubles, which may fall on the other side of a boundary that they
should meet. `Deliverable` are the statuses of orders for which the finance
endpoint is called: it checks none. A `UsageLimit` of 0 is left out, since one
of the two increments takes it for no limit and the other for a limit.

With the engine off, which is the default, the discount is the client's and the
limits are not looked at when an order is placed; the code says so
(`constants/finance.js:184`), and `CouponLimits` then only says that the count does
not pass its limit.

Left out: cashback, frozen coin wallets, changes of settings or coupon while an
order is under way, what a cart must be worth, the caps on coins earned and
spent (an amount is any up to a bound).

## 4. Runs

| run | asks | instance |
|---|---|---|
| `workflow_safety` | do all safety properties and the refinement hold | 3 kinds of order, 2 riders, 2 workers + sweep, 2 attempts, 1 crash |
| `workflow_live` | does every wait end, does stock come back | regular and express, 2 riders, 1 worker + sweep, 2 attempts, 1 crash |
| `payout_returns` | do balances, payout and ledger agree; is the seller paid once, the refund made and charged once, a payout final | 1 settlement, 2 return calls, seller has nothing, automatic release |
| `payout_live` | is the seller of an unreturned order paid | 1 settlement, 1 return call, no automatic release |
| `checkout_safety` | one order per key, no overselling, no order reported as failed; are requests answered and locks given back; the refinement | 2 requests with 1 key or none, 2 baskets, stock 0 to 2, wallet 2, 1 retry, 1 fault, 1 early expiry, 1 day |
| `payment_checkout` | is everything sold paid and held, a paid checkout booked whole and once; the refinement | 2 orders, 1 payment, 1 creator, 1 verifier, 1 cancellation |
| `payment_live` | is a result final, does the gateway stop repeating, is what was paid booked | 2 orders, 1 payment, 1 verifier, 1 fault, webhooks without transaction id |
| `returns_safety` | one refund, after a pickup; one commission; no refund without its charge | 1 request, 2 riders, 2 calls, timeout job, 1 fault |
| `returns_twice` | is an order refunded once | 2 requests, 2 calls; violated |
| `jobs` | how many runs at once, is the job always run again | 4 runs, 2 early expiries |
| `cash_safety` | do orders, wallets and income agree; is a submission backed; is cash collected once | 2 orders, 2 riders, 2 calls, gross 1, limit 1; for the first order back-outs, named and riderless requests |
| `loyalty` | do the coupon's limits hold, does the coin wallet agree with its rows, do the orders record what a checkout spent and was granted, and hand it back once | 2 checkouts of 3 orders (1, 1 and 0 paisa), 10 coins to the paisa, 4 or 5 of 9 coins spent, 4 earned, 1 settlement (of cancelled orders, too), 1 reversal, limits 2 and 1 |

Bounds, one by one:

* *Workflow.* Two workers and the sweep give three handlers in flight, and every
  two-step handler has a single gap, so one other handler in the gap and a third
  compensating covers the interference the filters can meet. Two riders are
  enough for one to back out and the other to take over. Two search attempts
  exercise both sides of `currentAttempt < maxAttempts`. One crash is enough
  since a dead process leaves no trace but what it had written.
* *Payouts.* Two return calls can each be between read and save beside a
  settlement, and batch, release job, administrator and time act freely. `Funds`
  is what the seller has from other orders: with 0 a debit before the payout
  fails. Two settlements racing each other are left to the proofs. With
  `AutoRelease` off the release job takes its second branch, and the liveness
  run needs job and batch together. The money counters need no bound: the
  invariants keep them small.
* *Checkout.* Two requests with one key meet in every pair of steps; one key is
  enough because keys meet only in stock and wallet, where requests without a
  key meet as well. One retry of two has both sides of the comparison. A fault,
  an early expiry and a day may each happen once, in any order.
* *Payment.* Two orders are enough for a checkout of which one is booked and the
  other not; two payments for a second capture. Each payment has a webhook of
  every state, and a webhook may be delivered again. `Payment_attempts.cfg` checks
  `BookedOnce` with two creations, two payments and a fault, for one order since
  each capture treats the orders one by one.
* *Returns.* Two handlers and the job each hold a copy, and one may die.
* *Jobs.* With two early expiries, three runs at once are possible and a fourth
  must not be.
* *Cash.* Two orders make a submission that goes on from one to the next; two
  calls make it race another. One order that may be backed out of, beside one that
  is not, has a rider lose an order he collected while he submits both. Orders are
  worth one unit there; `CodCash_one.cfg` (2.2 million states) checks the same
  properties for one express order of gross 3 and commission 1, a net of 2, of which
  amounts 1 and 2 make a partial and a full remittance.
* *Loyalty.* Two checkouts race for the last use of the coupon and for the coins.
  Four coins are worth no paisa and recorded nowhere; five are worth one and are
  parted into 3, 3 and a last share cut off at 0, one more than was spent; what is
  earned is allocated by what is left to pay. `Redemptions` and `Savings` are the
  amounts, `MaxEnded` bounds the orders that are delivered, cancelled or settled
  over the whole run: two are enough for a settlement and a reversal of one order
  or of two, in either order. The run takes about two minutes.

Riders, calls and workers are interchangeable, and the safety runs use that
symmetry; runs with liveness do not. Deadlock is not checked: in all modules
orders, requests and calls come to an end.

Fairness. `OrderWorkflow`: a started handler is run on (`WF` of `Continue`), time
passes, and the scheduler keeps calling the sweep (`startScheduler` runs it on an
interval on every scheduler process). Nothing is assumed of people, of the
gateway or of Bull. That the waits end nonetheless shows that the sweep alone
is enough. `SellerPayout`: time passes and the batch and the release job run
again and again, as `distributedScheduler` schedules them; nothing is assumed of
settlements, people or return calls, so the property starts from an order that
is settled. `Checkout`: a request that runs takes its next step, and a lock left
behind reaches its time to live. `Payment`: a call takes its next step, and a
webhook that was not answered 200 is delivered again, which is what the gateway
does; `BookedIfAsked` adds as its premise that the app keeps asking. `JobLock`:
the interval fires, a run ends or fails, and time passes. An action that stands
for a failure is never fair by itself.

## 5. Proofs

Each theorem holds for every value of the constants. The assumptions are those
the modules state about their constants, which TLC evaluates in every run; no
theorem about a specification adds one of its own.

### OrderWorkflowProofs

* `TypeCorrect`: `TypeOK` is inductive by itself.
* `RiderCorrect`: `RiderMatchesStage`, from `RiderInv`, which adds what holds while
  `SellerAcceptSave` is still to come (the order is a WhatsApp order with a
  rider, only one such save is pending and the status is DELIVERY_SEARCH or
  CANCELLED), and that an order which is being compensated is cancelled unless it
  is a WhatsApp order: so the saves that copy `deliveryPartner` back give no rider
  to an order that is on offer.
* `BackedOutCorrect`: `BackedOutRiderNeverBack`. `BackedInv` adds that the last of
  these saves comes after the stock's return was recorded, and `RiderKept` shows
  that no other step gives the order to one who backed out. That these saves do is
  a finding (`BackedOutRiderStaysOff`).
* `PaidCorrect`: `UnpaidNeverDispatched`, from `PaidInv`, which adds that paid
  and broadcast imply captured.
* `StockCorrect`: `StockBackOnlyOnce`, from `StockInv`: at most one process
  compensates an order, it does so on a cancelled order, and its step tells
  whether the stock is back.
* `TerminalCorrect`: `TerminalIsFinal`, an action property, from `TypeOK` and
  `StockInv`. No run checks it by itself, since the refinement implies it.
* `WindowCorrect` and `AssignedOrderSpared`: `SellerGetsWholeWindow` and
  `TimeoutSparesAssignedOrder`, action properties. `WindowInv` says what a timeout
  handler that has read the order may still assume when it writes: the order is
  past CREATED and, if it waits for the seller, its window is not open, since no
  step opens a window again. `WhoCancels` lists the steps that cancel and the
  statuses from which each does; with both, a cancellation inside the window can
  only be the seller's or the customer's, and none by a timeout hits an order that
  a rider has accepted.
* `TransitionsCorrect`: `TransitionsAccountedFor`, for all three kinds of order.
  `StatusStep` compares the filter of each handler's write with the table and the
  moves listed as missing from it; for `SellerAcceptSave`, which has no filter, it
  needs what `RiderInv` says of the status by then.
* `Implementation`: `Spec => Lifecycle!Spec`.

### SellerPayoutProofs

* `BooksBalance`, `PaidOnce`, `RefundOnce`: `WalletMatchesPayouts`,
  `PaidOnlyOnce` and `RefundCostsOnce`. `StepsMoveMoney` shows that every step
  touches the money in one of four ways or not at all, and `Books`, these
  properties with the types of the money, is inductive under these. They need
  each other: the pending balance has to be exact for `Math.max(0, ...)` to be
  harmless, and the refund has to be unique for the seller to be charged once.
* `CompletedStaysCompleted`: `CompletedIsFinal`, from the same lemma.
* `SettledAlwaysHasPayout`: `SettledHasPayout`. It is not inductive: `PayoutTraces`
  adds that `sellerPayoutQueued` and a settlement about to save are traces of a
  payout.
* `TypeCorrect`: `TypeOK`; balances stay natural numbers because of `Books`.

### CheckoutProofs

* `Inv` is `TypeOK`, `NeverOversold`, that every group and every cached result
  belong to an order, and `Fits`, which says per request what its step implies:
  what it will answer was placed, and by whom; a transaction that is not stale
  has the stock it saw.
* `NeverOversoldCorrect` needs exactly the last point: the check was of a
  snapshot, and is worth something only because a commit makes the others stale.
* `OneOrderCorrect`: the unique index alone gives one order per key, and one more
  for each time its record was deleted, whatever locks do. The invariant counts
  orders, records and deletions against each other. `ErrorCorrect`: a request that
  reports or caches an error is past no commit.
* `Implementation`: the refinement of `CheckoutService`, under `Inv`.

### PaymentProofs

* `Inv` is `TypeOK`, `Books` (ledger rows against the order's flags),
  `PaidGroupIsBooked`, and `Fits`: a call that has reached order *o* of a capture
  has booked those before it, a call that will call the group paid has booked all,
  and a transaction whose documents were not written since still sees what it
  read.
* From it: `BookedOnceCorrect`, `SoldIsPaidAndHeldCorrect`,
  `PaidGroupIsBookedCorrect` and `Implementation`, the refinement of `PaidOrder`.
* `ResultIsFinalCorrect`, an action property, from an invariant of its own: a
  payment is CAPTURED or FAILED only as its gateway's final result says, and what a
  call heard from the gateway is still true when it saves.

### JobLockProofs

* `OverlapCorrect`: `OverlapNeedsExpiry`. The invariant `LooseInv` counts the runs
  that are not named by the lock: there are at most as many as locks that expired
  early. A release that deletes another's lock has lost its own before, and is
  itself one of those counted.

### ReturnRequestProofs

* The invariant is `TypeOK`, `Knows` (what a call that has read or begun may
  assume of the ledger and of its request) and `Doc` (what the status of a
  document says about the ledger). The ledger keys, not the table of
  transitions, carry it: stale saves may take a request back to an earlier
  status, and the theorems `RefundOnce`, `PickedUpFirst`, `PaidOnce` and `UnderWay`
  hold nonetheless.

### CodCashProofs

* `CashCorrect`: `CashAccounted` for any number of orders, express ones and any
  `Irregular` requests included. What the ledger says of a rider is a sum over
  orders (`Total`, a recursive function); that a step changes the sum by what it
  changes in one summand is shown by induction over the natural numbers, through
  the least element of the set of counterexamples. `Effect` says of every step
  what it does to the one order and the one rider it touches.
* A wallet is compared with its rider's rows in the ledger and not with the orders
  he is the rider of, since these change hands. `Rows` relates the two per order:
  nobody's remittances exceed the order's, and a rider who collected an order has
  collected all of it. So his remittances are covered as long as he remits only what
  he collected, and the clamping never takes effect; if he does not, the wallet
  holds more than the rows say, never less.
* `CollectedOnceCorrect`: `CollectedOnce`, an action property, for all orders, from
  `Effect` and `Doc` (what is reconciled has nothing pending).
* `SubmissionsCorrect`: `SubmissionsBacked`. A submission hands over order by order
  and records its slip at the end, so the slips alone are not inductive: `BackedInv`
  adds to the slips of a rider what his running submissions have handed over
  (`Claimed`), and shows that together they are at most the remittances in his
  ledger, whoever's the orders are by then. That is a sum over calls, which are
  numbered by a bijection with `1..NumCalls`, for which the module assumes that
  there are finitely many. `Turn` says what a step can do to slips and claims:
  nothing, begin a list, hand over, or turn a claim into a slip.
* `TypeCorrect`: `TypeOK`.

### LoyaltyProofs

* `CouponLimitsCorrect`: `CouponLimits`, for any number of calls, sellers and any
  limits. The invariant `IInv` adds what a transaction that has not been refused may
  rely on: a checkout that is going to write the coupon still sees the count it
  read, and a use is left (`UseLeft`). A commit can therefore add its orders,
  because every other such checkout is refused by it; and no other step adds an
  order with the coupon (`NoNewUse`). The property counts the orders that were not
  cancelled (`Redeemed`); that a cancelled one counts again once the finance
  endpoint settles it is the finding `revived`.
* `TypeCorrect`, `WalletCorrect`: `TypeOK`, and that the balance is what the rows of
  the wallet add up to. `MapThenSumSet` is a fold; `FoldSums` shows that it is the
  value of a function on the subsets of its set which adds one element at a time,
  and the lemmas about sums are proved by induction on the size of the set.
* `GrantsAddUp`, `SharesNear`: the two ways to part an amount, for any number of
  sellers, any prices and any amounts. What is rounded down and given the rest adds
  up, with any weights. What is rounded half up does so up to half a unit for each
  seller but the last, and never falls short: the rest is cut off at 0 only if the
  others have more than all.
* `CoinsCorrect`: `CoinsAccounted`, from both. `CoinsInv` says of a transaction that
  is still to commit that the balance it has read is the balance, of a checkout
  that did not commit that it has neither orders nor rows (`Untouched`). What a
  checkout spent and what its orders record agree as far as `SharesNear` says; the
  findings `shares` and `tiny` show that they agree no further.

What is left to TLC is liveness (`WaitingEnds`, `CancelledStockComesBack`,
`UnreturnedOrderIsPaid`, `RequestsAnswered`, `LockGivenBack`, `WebhooksAccepted`,
`BookedIfAsked`, `JobRunsAgain`), because `ENABLED` and fairness are out of the
prover's reach. `TypeOK` is proved for each of the eight modules that model code.

## 6. Findings

`returns_twice`: the look for an existing return request and the creation have
the upload of the pictures between them, no index forbids a second request, and
the ledger keys of a refund name the request. Two submissions at once make two
requests, and each is refunded.

Further statements of the repository that the code does not keep. Each has a
configuration with which TLC finds a counterexample, mostly in seconds
(`tlc -config <file> MC<module>`). A configuration with several statements stops
at the first that fails; without that one it goes on to the next.

Orders (`OrderWorkflow_statements.cfg`):

* `OnlyAllowedTransitions`: the table of allowed transitions
  (`orderStateMachine.js:4`) is consulted by nobody, and moves the handlers make
  are not in it (`UnlistedMoves`): three, and for a WhatsApp order a fourth, from
  CANCELLED to DELIVERY_ASSIGNED, which is the next finding.
  `TransitionsAccountedFor` shows that these are all.
* `CancelledIsFinal`: `sellerAcceptAtomic` is not atomic for an order
  with a preset rider (`orderWorkflowService.js:371`): a cancellation between its
  two writes is undone.
* `NeverAddsStock`: a WhatsApp order takes no stock and gives some
  back when cancelled (`stockService.js:127`).
* `CapturedStaysPaid`: a pending answer applied after the capture
  takes PAID away (`paymentService.js:486`), after which the seller cannot accept
  the order.
* `BackedOutRiderStaysOff`: a rider who backs out is to be excluded
  (`orderWorkflowService.js:1018`), but stays in `deliveryPartner`. When the order is
  cancelled, the save of the compensation (`orderCompensation.js:34`) runs the hook
  of the schema (`models/order.js:819`), which makes them its rider again.
  `BackedOutRiderNeverBack` shows that they have nothing left to do on it.

Payouts (`SellerPayout_statements.cfg`, and `SellerPayout_rejected.cfg` with fairness):

* `NoAutomaticPayInWindow`: the payout is open before the order is on
  hold, because `createPendingPayoutForOrder` ignores the session it is given
  (`orderFinanceService.js:163`): a batch in between pays inside the return
  window. `WalletMatchesPayouts` and `SettledHasPayout` show that no money is lost
  or made by it.
* `RefundChargesSeller`: a held payout that an administrator pays keeps
  its hold flag. A later refund then looks for a payout to cancel, finds none and
  does not debit the seller (`orderReturnService.js:520`).
* `rejected`, `RejectedReturnIsPaid`: a rejected return leaves its payout on hold:
  the release job (`returnWindowReleaseJob.js:24`) passes over the order because
  it was returned, the batch because it is held.

Checkout (`Checkout_statements.cfg`, and `Checkout_retry.cfg` with three requests):

* `retry`, `RetryFindsOrder`: a cached error is looked at before a cached result
  (`idempotencyService.js:89`), so that a repeated request may be answered with
  another's error although its order exists.
* `OrderIsWhatWasAsked`: an order found in MongoDB under the key is
  returned, and cached with the checksum of the new request, whatever was in it
  (`orderPlacementService.js:375`).
* `OrdersStay`: the TTL index on `placement.idempotencyKeyExpiry`
  (`models/order.js:770`) deletes orders a day after their placement.

Payment (`Payment_statements.cfg` unless another is named, `Payment_<name>.cfg`):

* `webhook`, `CaptureTakesEffect`: the event is recorded before its effects
  (`paymentService.js:676`); after a death or a conflict in between, the
  redelivery is taken for a duplicate. `BookedIfAsked` shows that verification
  repairs it.
* `late`, `CancelledMoneyGoesBack`: an order cancelled before its capture is
  marked as reversed; the capture is then booked and nothing gives the money
  back (`orderFinanceService.js:350`).
* `ignored`, `OnlyRepetitionsIgnored`: the event id is the transaction id, so a
  COMPLETED webhook after a PENDING one counts as its repetition.
* `OneOpenPayment`: two creations at once leave two open payments
  (`paymentService.js:523`). `BookedOnce` shows that the order is booked once; the
  second payment is not given back.
* `FailedMayBeRepeated`: a failed payment cancels the orders, so that no
  second attempt is possible (`paymentService.js:423`).

Scheduler (`JobLock_statements.cfg`):

* `SingleExecution`: the lock lives for two intervals and is not
  renewed, so a longer run overlaps the next.
* `OnlyOwnLockDeleted`: the release reads the owner and deletes
  (`distributedScheduler.js:95`); in between the lock may have become another's.

Cash (`CodCash_statements.cfg` unless another is named, `CodCash_<name>.cfg`):

* `CashMatchesOrders`: a rider's cash in hand should be what his orders let him
  remit, since the float tracks "remittable cash with delivery partners"
  (`orderFinanceService.js:467`). It is not, in four ways:
  * `express`: express and WhatsApp orders are created with `codCollectedAmount` and
    `codPendingAmount` equal to the total (`orderController.js:528`), so that cash
    can be handed over before it was collected, and counts twice after it was;
  * `backout`: an order that the finance endpoint settled and collected keeps its
    `workflowStatus`, so its rider may back out of it
    (`orderWorkflowService.js:1035`), and his cash belongs to no order of his;
  * `backout` with `NamedFirst` for `Irregular`: the finance endpoints accept any
    `deliveryPartnerId`, so an administrator's request can book the remittance in
    another rider's wallet;
  * `backout` with `RiderlessFirst`: a request for an order without a rider, read
    before a rider accepts, does the same.

  With none of the four (`NothingOdd`) it holds on that instance.
* `WithinCashLimit`: the limit is compared with the cash in hand, not
  with the orders under way (`orderWorkflowService.js:493`), so it is exceeded by
  accepting several orders.
* `SettlingLowersCash`: the rider is told that the balance is updated
  (`cashService.js:201`); the settlement does not change it.

Coins and coupons (`Loyalty_*.cfg`):

* `revived`, `CancelledMintsNothing`: "a cancelled order never mints loyalty"
  (`coinsService.js:20`); `markOrderDeliveredAndSettle` settles an order whatever its
  status, and a reversed one gets its coins.
* `revived`, `UsesWithinLimit`: the same makes the order a use of the coupon again
  (`couponService.js:109`), after another was placed in its stead.
* `shares`, `SpentComesBack`: "the per-seller allocations always sum back"
  (`checkoutPricingService.js:590-592`); with four orders of 3, 3, 3 and 1, five coins
  are rounded to 2, 2, 2 and what is left, which is cut off at 0: six come back.
  `SharesNear` bounds the difference; with two sellers there is none.
* `tiny`, `SpentComesBack`: coins that are not worth a paisa, by default one to four,
  are taken from the wallet, but no order records them, so they are not "handed back
  when an order is cancelled" (`constants/coins.js:16`).

## 7. Not modelled

* *Core logic that is in the plan:* the first version's order endpoints
  (`rebroadcastExpressOrder`, `skipOrder`, `assignRiderToOrder`), delivery codes
  and their attempts, cancellation requests, cashback, withdrawals, pricing and
  fares.
* *Login codes and middleware:* they guard the handlers, and change nothing the
  modules here are about.
* *Pure I/O:* maps, media, SMS, e-mail, sockets, notifications. Handlers call
  them after their writes and ignore what becomes of them.
* *Caches and search index:* derived from the catalogue, no handler decides
  anything about an order or money by them.
* *Observation and set-up:* metrics, health, logs, startup, shutdown, indexes
  (the unique and TTL indexes that matter are part of the models that need them).
* *Seller verification, catalogue and content:* forms, saved one document at a
  time.
* *The frontend*, which is by far the largest part of the repository: it holds
  no state of its own beyond the requests it sends, and the models let every
  request come at any time.

The reasons are in `PROJECT.json`, component by component.
