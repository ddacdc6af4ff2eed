-------------------------------- MODULE Loyalty --------------------------------
(***************************************************************************)
(* One customer's Athreya coins and one coupon: what placeOrderAtomic spends,   *)
(* grants and counts, what settleDeliveredOrder grants on delivery, and what     *)
(* reverseOrderFinanceOnCancellation hands back and takes back.                 *)
(*                                                                           *)
(* A MongoDB transaction takes two steps: it reads a snapshot when it opens and  *)
(* commits later, unless a document that it writes is written in between: then   *)
(* it aborts.                                                                   *)
(*                                                                           *)
(* A checkout makes NumSellers orders, one for each seller. Its money is counted  *)
(* in paisa, and shares are those of exact arithmetic: a double may fall on the   *)
(* other side of a boundary that it meets.                                       *)
(***************************************************************************)
EXTENDS Integers, FiniteSetsExt

CONSTANTS
  Placements,   \* calls of placeOrderAtomic; each makes the checkout of its name
  Settlers,     \* calls of settleDeliveredOrder
  Reversers,    \* calls of reverseOrderFinanceOnCancellation
  NumSellers,
  GrandTotal,   \* per seller, what is to be paid before coins are spent
  CoinsPerPaisa,
  Redemptions,  \* coins that a checkout may ask to spend
  Savings,      \* coins that the savings of a checkout may be worth
  StartCoins,   \* coins in the wallet to begin with
  MaxEnded,     \* bound on the orders that are delivered, cancelled or settled
  UsageLimit,   \* of the coupon; 0 is no limit to one increment and a limit to the other
  PerUserLimit,
  Deliverable   \* statuses of orders that the finance endpoint is called for

Sellers == 1..NumSellers
Orders == Placements \X Sellers
Calls == Placements \cup Settlers \cup Reversers

\* Documents that a transaction may write, besides the orders.
Wallet == <<"coin wallet", 0>>
Coupon == <<"coupon", 0>>

ASSUME LoyaltyAssumption ==
  /\ NumSellers \in Nat \ {0} /\ GrandTotal \in [Sellers -> Nat]
  /\ CoinsPerPaisa \in Nat \ {0} /\ Redemptions \subseteq Nat /\ Savings \subseteq Nat
  /\ StartCoins \in Nat /\ MaxEnded \in Nat
  /\ UsageLimit \in Nat \ {0} /\ PerUserLimit \in Nat \ {0}
  /\ Deliverable \subseteq {"live", "cancelled"}

ASSUME LoyaltyCallsAssumption ==
  /\ IsFiniteSet(Placements)
  /\ Placements \cap Settlers = {} /\ Placements \cap Reversers = {}
  /\ Settlers \cap Reversers = {}
  /\ "coin wallet" \notin Placements /\ "coupon" \notin Placements

VARIABLES
  engine,   \* SERVER_SIDE_COUPON_ENGINE, of the environment
  creditOn, \* of the administrator's settings; it does not change meanwhile
  used,     \* coupon.usedCount
  balance,  \* balance of the coin wallet
  rows,     \* the CoinTransactions: type and subject make the idempotency key
  order,    \* the order documents
  call      \* what each call has read

settings == <<engine, creditOn>>
vars == <<settings, used, balance, rows, order, call>>

Order ==
  [workflow : {"none", "open", "DELIVERED", "CANCELLED"},
   status : {"none", "live", "delivered", "cancelled"},
   coupon : BOOLEAN,      \* set with the engine only, which gave the discount
   earned : Nat, earnedCredited : BOOLEAN,
   redeemed : Nat, redeemedReversed : BOOLEAN,
   deliveredSettlementApplied : BOOLEAN, cancellationReversalApplied : BOOLEAN]

NoOrder ==
  [workflow |-> "none", status |-> "none", coupon |-> FALSE,
   earned |-> 0, earnedCredited |-> FALSE, redeemed |-> 0, redeemedReversed |-> FALSE,
   deliveredSettlementApplied |-> FALSE, cancellationReversalApplied |-> FALSE]

Subjects == Placements \X (0..NumSellers)

\* What a transaction remembers: its order, the wallet and the coupon as they
\* were, what a placement spends and grants, and the documents it will write.
Call ==
  [pc : {"idle", "placing", "counting", "done", "settling", "reversing"},
   at : Subjects \cup {Wallet}, balance : Nat, used : Nat, coupon : BOOLEAN,
   coins : Nat, earned : Nat,
   writes : SUBSET (Orders \cup {Wallet, Coupon})]

\* A call between transactions.
Resting(step) ==
  [pc |-> step, at |-> Wallet, balance |-> 0, used |-> 0, coupon |-> FALSE,
   coins |-> 0, earned |-> 0, writes |-> {}]
Idle == Resting("idle")

Init ==
  /\ engine \in BOOLEAN /\ creditOn \in {"PLACEMENT", "DELIVERY"}
  /\ used = 0 /\ balance = StartCoins /\ rows = {}
  /\ order = [o \in Orders |-> NoOrder]
  /\ call = [c \in Calls |-> Idle]

At(c, step) == call[c].pc = step

\* Mutant: MongoDB lets a transaction write what it read from an old snapshot.
ConflictsUnnoticed(c, q, written) == call' = [call EXCEPT ![c] = q]

\* Call c goes on as q after writing some documents; every other transaction
\* that is going to write one of them is refused.
Becomes(c, q, written) ==
  call' = [d \in Calls |->
    IF d = c THEN q
    ELSE IF call[d].writes \cap written # {} THEN Idle ELSE call[d]]

\* A write outside of the calls.
Written(documents) ==
  call' = [d \in Calls |->
    IF call[d].writes \cap documents # {} THEN Idle ELSE call[d]]

\* A transaction when it opens: of the wallet and the coupon it needs what it is
\* going to change.
Transaction(step, at, coupon, coins, earned, writes) ==
  [pc |-> step, at |-> at,
   balance |-> IF Wallet \in writes THEN balance ELSE 0,
   used |-> IF Coupon \in writes THEN used ELSE 0,
   coupon |-> coupon, coins |-> coins, earned |-> earned, writes |-> writes]

Ends(c, step) == Becomes(c, Resting(step), call[c].writes)

(***************************************************************************)
(* Coins.                                                                    *)
(***************************************************************************)
Row(type, subject, coins) == [type |-> type, of |-> subject, coins |-> coins]

\* recordMovement, but for the balance: no row for no coins, nor for a key that
\* has one.
Recorded(type, subject) == \E r \in rows : r.type = type /\ r.of = subject
Movement(type, subject, coins) ==
  IF coins = 0 \/ Recorded(type, subject) THEN {} ELSE {Row(type, subject, coins)}

Moved(set) == MapThenSumSet(LAMBDA r : r.coins, set)
Credits(set) == {r \in set : r.type \in {"EARN", "REVERSAL"}}
Debits(set) == {r \in set : r.type \in {"REDEEM", "EXPIRY"}}

Sum(f, set) == MapThenSumSet(LAMBDA x : f[x], set)
Total == Sum(GrandTotal, Sellers)
Others == Sellers \ {NumSellers}   \* all but the last

\* roundCurrency of the value of some coins. computeRedeemableCoins leaves out what
\* the customer does not have, and what is worth more than is to be paid.
Paise(coins) == (2 * coins + CoinsPerPaisa) \div (2 * CoinsPerPaisa)
Spendable(coins) == coins <= balance /\ coins <= CoinsPerPaisa * Total

\* applyCoinsRedemptionToSellerBreakdowns parts coins and paise alike: shares are
\* rounded half up, the last gets the rest, but not less than nothing.
Rounded(amount) ==
  [i \in Sellers |-> (2 * GrandTotal[i] * amount + Total) \div (2 * Total)]
Parted(amount) ==
  LET rest == amount - Sum(Rounded(amount), Others)
  IN  [Rounded(amount) EXCEPT ![NumSellers] = IF rest > 0 THEN rest ELSE 0]

\* No paisa off, no coins on any order.
Off(coins) == IF Paise(coins) = 0 THEN [i \in Sellers |-> 0] ELSE Parted(Paise(coins))
RedeemedShares(coins) == IF Paise(coins) = 0 THEN [i \in Sellers |-> 0] ELSE Parted(coins)
ToPay(coins) ==
  [i \in Sellers |-> IF Off(coins)[i] < GrandTotal[i] THEN GrandTotal[i] - Off(coins)[i] ELSE 0]

\* allocateIntegerByWeight: shares are rounded down, the last gets the rest. If
\* nothing weighs anything, they are even.
ByWeight(amount, w) ==
  LET all == Sum(w, Sellers)
  IN  [i \in Sellers |-> IF all = 0 THEN amount \div NumSellers ELSE (w[i] * amount) \div all]

\* Mutant: the last share is rounded down as the others are.
RoundsLastShareToo(amount, w) == ByWeight(amount, w)

Allocated(amount, w) ==
  [ByWeight(amount, w) EXCEPT ![NumSellers] = amount - Sum(ByWeight(amount, w), Others)]

\* The weights are what is to be paid when the coins are off.
EarnedShares(earned, coins) == Allocated(earned, ToPay(coins))

(***************************************************************************)
(* placeOrderAtomic.                                                         *)
(***************************************************************************)
\* The customer's orders that count as uses of the coupon.
Uses == {o \in Orders : order[o].coupon /\ order[o].status # "cancelled"}

\* computeOrderDiscount.
MayUseCoupon == used < UsageLimit /\ Cardinality(Uses) < PerUserLimit

GrantNow(earned) == IF creditOn = "PLACEMENT" THEN earned ELSE 0

PlaceBegins(p) ==
  /\ At(p, "idle")
  /\ \E coupon \in BOOLEAN, coins \in Redemptions, earned \in Savings :
       /\ Spendable(coins)
       /\ coupon /\ engine => MayUseCoupon
       /\ Becomes(p, Transaction("placing", Wallet, coupon, coins, earned,
            (IF coins > 0 \/ GrantNow(earned) > 0 THEN {Wallet} ELSE {})
              \cup (IF coupon /\ engine THEN {Coupon} ELSE {})), {})
  /\ UNCHANGED <<settings, used, balance, rows, order>>

Placed(p, i) ==
  [NoOrder EXCEPT
    !.workflow = "open", !.status = "live", !.coupon = call[p].coupon /\ engine,
    !.earned = EarnedShares(call[p].earned, call[p].coins)[i],
    !.earnedCredited = GrantNow(EarnedShares(call[p].earned, call[p].coins)[i]) > 0,
    !.redeemed = RedeemedShares(call[p].coins)[i]]

PlaceCommits(p) ==
  LET q == call[p]
      granted == GrantNow(q.earned)
  IN  /\ At(p, "placing")
      /\ order' = [o \in Orders |-> IF o[1] = p THEN Placed(p, o[2]) ELSE order[o]]
      /\ rows' = rows \cup Movement("REDEEM", <<p, 0>>, q.coins)
                      \cup Movement("EARN", <<p, 0>>, granted)
      /\ balance' = IF Wallet \in q.writes THEN q.balance - q.coins + granted ELSE balance
      /\ used' = IF Coupon \in q.writes /\ q.used < UsageLimit THEN q.used + 1 ELSE used
      /\ Ends(p, IF q.coupon /\ ~engine THEN "counting" ELSE "done")
      /\ UNCHANGED settings

\* Without the engine the use is counted after the commit, by an update of its
\* own that nobody waits for.
CountsUse(p) ==
  /\ At(p, "counting")
  /\ used < UsageLimit /\ used' = used + 1
  /\ Becomes(p, Resting("done"), {Coupon})
  /\ UNCHANGED <<settings, balance, rows, order>>

\* That update failed, or found the limit reached.
UseNotCounted(p) ==
  /\ At(p, "counting")
  /\ Becomes(p, Resting("done"), {})
  /\ UNCHANGED <<settings, used, balance, rows, order>>

\* Another customer's placement.
CouponUsedElsewhere ==
  /\ used < UsageLimit /\ used' = used + 1
  /\ Written({Coupon})
  /\ UNCHANGED <<settings, balance, rows, order>>

(***************************************************************************)
(* The order goes its way: verifyHandoffOtpAndDeliver; customerCancelV2, the    *)
(* rejections and the timeouts. Only workflowStatus is asked.                   *)
(***************************************************************************)
Ended(o) == \/ order[o].workflow \in {"DELIVERED", "CANCELLED"}
            \/ order[o].deliveredSettlementApplied
MayEnd(o) == Cardinality({x \in Orders : x = o \/ Ended(x)}) <= MaxEnded

Moves(o, workflow, status) ==
  /\ order[o].workflow = "open"
  /\ MayEnd(o)
  /\ order' = [order EXCEPT ![o].workflow = workflow, ![o].status = status]
  /\ Written({o})
  /\ UNCHANGED <<settings, used, balance, rows>>

Deliver(o) == Moves(o, "DELIVERED", "delivered")
Cancel(o) == Moves(o, "CANCELLED", "cancelled")

(***************************************************************************)
(* settleDeliveredOrder, after the delivery or by markOrderDeliveredAndSettle.  *)
(***************************************************************************)
Grants(o) == order[o].earned > 0 /\ ~order[o].earnedCredited

SettleBegins(s) ==
  /\ At(s, "idle")
  /\ \E o \in Orders :
       /\ order[o].status \in {"delivered"} \cup Deliverable
       /\ ~order[o].deliveredSettlementApplied /\ MayEnd(o)
       /\ Becomes(s, Transaction("settling", o, FALSE, 0, 0,
            {o} \cup (IF Grants(o) THEN {Wallet} ELSE {})), {})
  /\ UNCHANGED <<settings, used, balance, rows, order>>

SettleCommits(s) ==
  LET o == call[s].at
      grant == IF Grants(o) THEN Movement("EARN", o, order[o].earned) ELSE {}
  IN  /\ At(s, "settling")
      /\ rows' = rows \cup grant
      /\ balance' = IF grant # {} THEN call[s].balance + order[o].earned ELSE balance
      /\ order' = [order EXCEPT
           ![o].status = "delivered", ![o].deliveredSettlementApplied = TRUE,
           ![o].earnedCredited = @ \/ Grants(o)]
      /\ Ends(s, "idle")
      /\ UNCHANGED <<settings, used>>

(***************************************************************************)
(* reverseOrderFinanceOnCancellation, from compensateOrderCancellation.         *)
(***************************************************************************)
HandsBack(o) == order[o].redeemed > 0 /\ ~order[o].redeemedReversed
TakesBack(o) == order[o].earned > 0 /\ order[o].earnedCredited

ReverseBegins(r) ==
  /\ At(r, "idle")
  /\ \E o \in Orders :
       /\ order[o].workflow = "CANCELLED"
       /\ ~order[o].cancellationReversalApplied
       /\ Becomes(r, Transaction("reversing", o, FALSE, 0, 0,
            {o} \cup (IF HandsBack(o) \/ TakesBack(o) THEN {Wallet} ELSE {})), {})
  /\ UNCHANGED <<settings, used, balance, rows, order>>

ReverseCommits(r) ==
  LET o == call[r].at
      back == IF HandsBack(o) THEN Movement("REVERSAL", o, order[o].redeemed) ELSE {}
      middle == IF back # {} THEN call[r].balance + order[o].redeemed ELSE call[r].balance
      claw == IF order[o].earned < middle THEN order[o].earned ELSE middle
      taken == IF TakesBack(o) THEN Movement("EXPIRY", o, claw) ELSE {}
  IN  /\ At(r, "reversing")
      /\ rows' = rows \cup back \cup taken
      /\ balance' = IF taken # {} THEN middle - claw
                    ELSE IF back # {} THEN middle ELSE balance
      /\ order' = [order EXCEPT
           ![o].cancellationReversalApplied = TRUE,
           ![o].redeemedReversed = @ \/ HandsBack(o),
           ![o].earnedCredited = @ /\ ~TakesBack(o)]
      /\ Ends(r, "idle")
      /\ UNCHANGED <<settings, used>>

\* A transaction aborts for another reason: an error, a dead process.
Aborts(c) ==
  /\ call[c].pc \in {"placing", "settling", "reversing"}
  /\ Becomes(c, Idle, {})
  /\ UNCHANGED <<settings, used, balance, rows, order>>

Next ==
  \/ \E p \in Placements :
       PlaceBegins(p) \/ PlaceCommits(p) \/ CountsUse(p) \/ UseNotCounted(p)
  \/ CouponUsedElsewhere
  \/ \E o \in Orders : Deliver(o) \/ Cancel(o)
  \/ \E s \in Settlers : SettleBegins(s) \/ SettleCommits(s)
  \/ \E r \in Reversers : ReverseBegins(r) \/ ReverseCommits(r)
  \/ \E c \in Calls : Aborts(c)

Spec == Init /\ [][Next]_vars

(***************************************************************************)
(* Properties.                                                               *)
(***************************************************************************)
TypeOK ==
  /\ engine \in BOOLEAN /\ creditOn \in {"PLACEMENT", "DELIVERY"}
  /\ used \in Nat /\ balance \in Nat
  /\ order \in [Orders -> Order] /\ call \in [Calls -> Call]

\* The orders that got the discount and were not cancelled. An order that the
\* finance endpoint settles after its cancellation is live again for
\* getUserCouponUsageCount; that one is not meant here.
Redeemed == {o \in Orders : order[o].coupon /\ order[o].workflow # "CANCELLED"}

\* The limits of a coupon hold: its count never passes usageLimit, and with the
\* server-side engine every checkout of the customer that got the discount is in
\* the count (the increment never finds the limit reached, although the code
\* provides for that) and his orders with the coupon that were not cancelled exceed
\* perUserLimit at most by the other orders of one checkout. Nothing but the write
\* conflict on the coupon keeps two checkouts at once from passing
\* computeOrderDiscount together.
CouponLimits ==
  /\ used <= UsageLimit
  /\ engine =>
       /\ Cardinality({p \in Placements : \E i \in Sellers : order[<<p, i>>].coupon}) <= used
       /\ Cardinality(Redeemed) <= PerUserLimit - 1 + NumSellers

\* The same of the orders that getUserCouponUsageCount counts: what
\* computeOrderDiscount found is still so after the placement.
UsesWithinLimit == engine => Cardinality(Uses) <= PerUserLimit - 1 + NumSellers

RowsOf(type, subject) == {r \in rows : r.type = type /\ r.of = subject}

\* An order hands back the coins that it records, once, and it has done so when its
\* cancellation is reversed.
HandedBack(o) ==
  /\ RowsOf("REVERSAL", o) =
       IF order[o].redeemedReversed THEN {Row("REVERSAL", o, order[o].redeemed)} ELSE {}
  /\ order[o].cancellationReversalApplied =>
       order[o].redeemed = 0 \/ order[o].redeemedReversed

\* The orders of a checkout record what it spent, or nothing if that was worth no
\* paisa, or more by at most half a coin for each seller but the last.
SpentRecorded(p) ==
  LET spent == Moved(RowsOf("REDEEM", <<p, 0>>))
      recorded == Sum([i \in Sellers |-> order[<<p, i>>].redeemed], Sellers)
  IN  \/ recorded = 0 /\ Paise(spent) = 0
      \/ spent <= recorded /\ 2 * (recorded - spent) <= NumSellers - 1

\* They record what it was granted.
GrantRecorded(p) ==
  creditOn = "PLACEMENT" =>
    Moved(RowsOf("EARN", <<p, 0>>)) = Sum([i \in Sellers |-> order[<<p, i>>].earned], Sellers)

\* The wallet agrees with its CoinTransactions, and these with the orders, however
\* placements, settlements and reversals of several orders interleave, abort and
\* are called again.
CoinsAccounted ==
  /\ balance = StartCoins + Moved(Credits(rows)) - Moved(Debits(rows))
  /\ \A o \in Orders : HandedBack(o)
  /\ \A p \in Placements : SpentRecorded(p) /\ GrantRecorded(p)

\* A checkout of which every order is reversed has handed back what it spent:
\* checkoutPricingService.js:590 to :592 says of the shares that "the per-seller
\* allocations always sum back".
SpentComesBack ==
  \A p \in Placements :
    (\A i \in Sellers : order[<<p, i>>].cancellationReversalApplied) =>
      Moved({r \in rows : r.type = "REVERSAL" /\ r.of[1] = p})
        = Moved(RowsOf("REDEEM", <<p, 0>>))

\* coinsService.js:20 says that "a cancelled order never mints loyalty": an order
\* whose cancellation was reversed holds no grant.
CancelledMintsNothing ==
  \A o \in Orders :
    order[o].cancellationReversalApplied => ~order[o].earnedCredited
================================================================================
