----------------------------- MODULE LoyaltyProofs -----------------------------
(***************************************************************************)
(* Proofs about Loyalty, for any calls, sellers, limits and amounts.         *)
(*                                                                         *)
(* First the limits of a coupon, which do not depend on the amounts: there    *)
(* they are left untyped. Then sums over finite sets, which the rows and the  *)
(* shares of a checkout need, and the accounts of the wallet.                *)
(***************************************************************************)
EXTENDS Loyalty, TLAPS, FiniteSetTheorems

OrderOf(Amounts) ==
  [workflow : {"none", "open", "DELIVERED", "CANCELLED"},
   status : {"none", "live", "delivered", "cancelled"}, coupon : BOOLEAN,
   earned : Amounts, earnedCredited : BOOLEAN,
   redeemed : Amounts, redeemedReversed : BOOLEAN,
   deliveredSettlementApplied : BOOLEAN, cancellationReversalApplied : BOOLEAN]

IsCall(q) ==
  /\ q = [pc |-> q.pc, at |-> q.at, balance |-> q.balance, used |-> q.used,
          coupon |-> q.coupon, coins |-> q.coins, earned |-> q.earned,
          writes |-> q.writes]
  /\ q.coupon \in BOOLEAN

Types ==
  /\ engine \in BOOLEAN /\ used \in Nat
  /\ \E Amounts : order \in [Orders -> OrderOf(Amounts)]
  /\ call = [c \in Calls |-> call[c]]
  /\ \A c \in Calls : IsCall(call[c])

\* Who is at which step, and what he is going to write.
StepsKept(c) ==
  /\ c \in Placements => call[c].pc \in {"idle", "placing", "counting", "done"}
  /\ c \in Settlers => call[c].pc \in {"idle", "settling"}
  /\ c \in Reversers => call[c].pc \in {"idle", "reversing"}
  /\ call[c].pc \in {"idle", "counting", "done"} => call[c].writes = {}
  /\ call[c].pc = "placing" =>
       (Coupon \in call[c].writes <=> call[c].coupon /\ engine)
  /\ call[c].pc \in {"settling", "reversing"} =>
       /\ call[c].at \in Orders /\ call[c].at \in call[c].writes
       /\ Coupon \notin call[c].writes
  /\ call[c].pc = "settling" => order[call[c].at].status # "none"

\* A placement that has not been refused sees the coupon as it is, and there is a
\* use left for it. (MayUseCoupon may have ceased to hold: a cancelled order may
\* have been settled.)
UseLeft == used < UsageLimit /\ Cardinality(Redeemed) < PerUserLimit
SnapshotsKept(c) ==
  call[c].pc = "placing" /\ Coupon \in call[c].writes => call[c].used = used /\ UseLeft

Unplaced(p) ==
  call[p].pc \in {"idle", "placing"} =>
    \A i \in Sellers : order[<<p, i>>].status = "none" /\ ~order[<<p, i>>].coupon

StatusFits ==
  \A o \in Orders :
    /\ order[o].status = "cancelled" => order[o].workflow = "CANCELLED"
    /\ order[o].status = "none" => order[o].workflow = "none"

IInv ==
  /\ Types
  /\ \A c \in Calls : StepsKept(c) /\ SnapshotsKept(c)
  /\ \A p \in Placements : Unplaced(p)
  /\ StatusFits
  /\ CouponLimits

Checkouts == {p \in Placements : \E i \in Sellers : order[<<p, i>>].coupon}

(***************************************************************************)
(* Sets and documents.                                                       *)
(***************************************************************************)
LEMMA FiniteOrders ==
  /\ IsFiniteSet(Sellers) /\ Cardinality(Sellers) = NumSellers
  /\ IsFiniteSet(Orders)
<1>1. IsFiniteSet(Sellers) /\ Cardinality(Sellers) = NumSellers
  BY LoyaltyAssumption, FS_Interval DEF Sellers
<1> QED
  BY <1>1, LoyaltyCallsAssumption, FS_Product DEF Orders

LEMMA FiniteUses ==
  /\ IsFiniteSet(Redeemed) /\ Cardinality(Redeemed) \in Nat
  /\ IsFiniteSet(Checkouts) /\ Cardinality(Checkouts) \in Nat
<1>1. Redeemed \in SUBSET Orders /\ Checkouts \in SUBSET Placements
  BY DEF Redeemed, Checkouts
<1>2. IsFiniteSet(Redeemed) /\ IsFiniteSet(Checkouts)
  BY <1>1, FiniteOrders, LoyaltyCallsAssumption, FS_Subset
<1> QED
  BY <1>2, FS_CardinalityType

LEMMA Documents ==
  /\ Wallet # Coupon /\ Wallet \notin Orders /\ Coupon \notin Orders
  BY LoyaltyCallsAssumption DEF Wallet, Coupon, Orders

\* The orders of one checkout are as many as it has sellers.
LEMMA OrdersOfOne ==
  ASSUME NEW p \in Placements
  PROVE  /\ IsFiniteSet({p} \X Sellers)
         /\ Cardinality({p} \X Sellers) = NumSellers
<1>1. IsFiniteSet({p}) /\ Cardinality({p}) = 1
  BY FS_Singleton
<1>2. /\ IsFiniteSet({p} \X Sellers)
      /\ Cardinality({p} \X Sellers) = 1 * NumSellers
  BY <1>1, FiniteOrders, FS_Product
<1> QED
  BY <1>2, LoyaltyAssumption

(***************************************************************************)
(* The other calls.                                                          *)
(***************************************************************************)
LEMMA OthersAfterBecomes ==
  ASSUME NEW c \in Calls, NEW q, NEW written, Becomes(c, q, written), Types
  PROVE  /\ call' = [d \in Calls |-> call'[d]]
         /\ call'[c] = q
         /\ \A d \in Calls \ {c} :
              \/ call'[d] = Idle /\ call[d].writes # {}
              \/ call'[d] = call[d] /\ call[d].writes \cap written = {}
BY DEF Becomes

LEMMA OthersAfterWritten ==
  ASSUME NEW documents, Written(documents), Types
  PROVE  /\ call' = [d \in Calls |-> call'[d]]
         /\ \A d \in Calls :
              \/ call'[d] = Idle /\ call[d].writes # {}
              \/ call'[d] = call[d] /\ call[d].writes \cap documents = {}
BY DEF Written

LEMMA IdleIsCall == IsCall(Idle) /\ Idle.pc = "idle" /\ Idle.writes = {}
BY DEF IsCall, Idle, Resting

\* An order that is there stays there.
StatusesLast == \A o \in Orders : order[o].status # "none" => order'[o].status # "none"

\* A call that a step refuses or leaves alone stays in order, if the step leaves
\* alone what the call has seen.
LEMMA OtherKept ==
  ASSUME NEW d \in Calls, StepsKept(d), SnapshotsKept(d), IsCall(call[d]),
         engine' = engine, StatusesLast,
         \/ call'[d] = Idle
         \/ /\ call'[d] = call[d]
            /\ Coupon \in call[d].writes /\ UseLeft => used' = used /\ UseLeft'
  PROVE  StepsKept(d)' /\ SnapshotsKept(d)' /\ IsCall(call'[d])
<1>1. CASE call'[d] = Idle
  BY <1>1, IdleIsCall DEF StepsKept, SnapshotsKept
<1>2. CASE call'[d] = call[d] /\ call'[d] # Idle
  <2>1. call[d].pc = "settling" => call[d].at \in Orders /\ order'[call[d].at].status # "none"
    BY DEF StepsKept, StatusesLast
  <2> QED BY <1>2, <2>1 DEF StepsKept, SnapshotsKept
<1> QED
  BY <1>1, <1>2

(***************************************************************************)
(* Steps that add no use of the customer's.                                  *)
(***************************************************************************)
\* The documents say no more of the coupon than before.
NoNewUse ==
  /\ engine' = engine /\ used' \in Nat /\ used <= used' /\ used' <= UsageLimit
  /\ \A o \in Orders : order'[o].coupon = order[o].coupon
  /\ Redeemed' \subseteq Redeemed
  /\ StatusesLast

LEMMA FiniteUsesNext ==
  /\ IsFiniteSet(Redeemed') /\ Cardinality(Redeemed') \in Nat
  /\ IsFiniteSet(Checkouts') /\ Cardinality(Checkouts') \in Nat
<1>1. Redeemed' \in SUBSET Orders /\ Checkouts' \in SUBSET Placements
  BY DEF Redeemed, Checkouts
<1>2. IsFiniteSet(Redeemed') /\ IsFiniteSet(Checkouts')
  BY <1>1, FiniteOrders, LoyaltyCallsAssumption, FS_Subset
<1> QED
  BY <1>2, FS_CardinalityType

LEMMA LimitsKept ==
  ASSUME CouponLimits, Types, NoNewUse
  PROVE  /\ CouponLimits'
         /\ used' = used /\ UseLeft => UseLeft'
<1>1. Cardinality(Redeemed') <= Cardinality(Redeemed)
  BY FiniteUses, FS_Subset DEF NoNewUse
<1>2. Checkouts' = Checkouts
  <2>1. \A p \in Placements, i \in Sellers : <<p, i>> \in Orders
    BY DEF Orders
  <2> QED BY <2>1 DEF NoNewUse, Checkouts
<1>3. /\ Cardinality(Checkouts') = Cardinality(Checkouts)
      /\ NumSellers \in Nat /\ PerUserLimit \in Nat /\ UsageLimit \in Nat
      /\ used \in Nat /\ used' \in Nat
  BY <1>2, LoyaltyAssumption DEF NoNewUse, Types
<1>4. CouponLimits'
  BY <1>1, <1>3, FiniteUses, FiniteUsesNext DEF CouponLimits, NoNewUse, Checkouts
<1>5. used' = used /\ UseLeft => UseLeft'
  BY <1>1, <1>3, FiniteUses, FiniteUsesNext DEF UseLeft
<1> QED
  BY <1>4, <1>5

\* No document is written: a transaction opens or aborts, or a call ends.
LEMMA NothingWritten ==
  ASSUME IInv, NEW c \in Calls, NEW q, Becomes(c, q, {}),
         engine' = engine, used' = used, order' = order,
         IsCall(q), (StepsKept(c) /\ SnapshotsKept(c))',
         c \in Placements => Unplaced(c)'
  PROVE  IInv'
<1>1. /\ call' = [d \in Calls |-> call'[d]] /\ call'[c] = q
      /\ \A d \in Calls \ {c} : call'[d] = call[d] \/ (call'[d] = Idle /\ call[d].writes # {})
  BY OthersAfterBecomes DEF IInv
<1>2. \A d \in Calls \ {c} : call'[d] = call[d]
  BY DEF Becomes, IInv, Types
<1>3. NoNewUse
  BY DEF NoNewUse, IInv, Types, CouponLimits, Redeemed, StatusesLast
<1>4. CouponLimits' /\ (UseLeft => UseLeft')
  BY <1>3, LimitsKept DEF IInv
<1>5. \A d \in Calls : StepsKept(d)' /\ SnapshotsKept(d)' /\ IsCall(call'[d])
  <2> TAKE d \in Calls
  <2>1. CASE d = c
    BY <2>1, <1>1
  <2>2. CASE d # c
    <3>1. call'[d] = call[d] /\ IsCall(call[d]) /\ StepsKept(d) /\ SnapshotsKept(d)
      BY <2>2, <1>2 DEF IInv, Types
    <3> QED BY <3>1, <1>3, <1>4, OtherKept DEF NoNewUse
  <2> QED BY <2>1, <2>2
<1>6. Types'
  BY <1>1, <1>5 DEF IInv, Types
<1>7. \A p \in Placements : Unplaced(p)'
  <2> TAKE p \in Placements
  <2>1. CASE p = c
    BY <2>1
  <2>2. CASE p # c
    BY <2>2, <1>2 DEF IInv, Unplaced, Calls
  <2> QED BY <2>1, <2>2
<1>8. StatusFits'
  BY DEF IInv, StatusFits
<1> QED
  BY <1>4, <1>5, <1>6, <1>7, <1>8 DEF IInv

LEMMA CallsApart ==
  /\ Calls = Placements \cup Settlers \cup Reversers
  /\ Placements \cap Settlers = {} /\ Placements \cap Reversers = {}
  /\ Settlers \cap Reversers = {}
BY LoyaltyCallsAssumption DEF Calls

LEMMA TransactionIsCall ==
  ASSUME NEW step, NEW at, NEW coupon \in BOOLEAN, NEW coins, NEW earned, NEW w
  PROVE  LET q == Transaction(step, at, coupon, coins, earned, w)
         IN  /\ IsCall(q)
             /\ q.pc = step /\ q.at = at /\ q.coupon = coupon /\ q.writes = w
             /\ q.used = IF Coupon \in w THEN used ELSE 0
BY DEF IsCall, Transaction

LEMMA PlaceBeginsKeeps ==
  ASSUME IInv, NEW p \in Placements, PlaceBegins(p)
  PROVE  IInv'
<1>1. PICK coupon \in BOOLEAN, coins \in Redemptions, earned \in Savings :
        /\ coupon /\ engine => MayUseCoupon
        /\ Becomes(p, Transaction("placing", Wallet, coupon, coins, earned,
             (IF coins > 0 \/ GrantNow(earned) > 0 THEN {Wallet} ELSE {})
               \cup (IF coupon /\ engine THEN {Coupon} ELSE {})), {})
  BY DEF PlaceBegins
<1> DEFINE
  w == (IF coins > 0 \/ GrantNow(earned) > 0 THEN {Wallet} ELSE {})
       \cup (IF coupon /\ engine THEN {Coupon} ELSE {})
  q == Transaction("placing", Wallet, coupon, coins, earned, w)
<1>2. Becomes(p, q, {})
  BY <1>1
<1>3. /\ engine' = engine /\ used' = used /\ order' = order
      /\ call[p].pc = "idle" /\ p \in Calls
  BY CallsApart DEF PlaceBegins, At, settings
<1>4. call'[p] = q
  BY <1>2, <1>3, OthersAfterBecomes DEF IInv
<1>5. IsCall(q) /\ q.pc = "placing" /\ q.coupon = coupon /\ q.writes = w
      /\ q.used = (IF Coupon \in w THEN used ELSE 0)
  <2> HIDE DEF w
  <2> QED BY TransactionIsCall
<1>6. Coupon \in w <=> coupon /\ engine
  BY Documents
<1> HIDE DEF q, w
<1>7. StepsKept(p)'
  BY <1>3, <1>4, <1>5, <1>6, CallsApart DEF StepsKept
<1>8. MayUseCoupon => UseLeft'
  <2>1. Redeemed \in SUBSET Uses /\ Redeemed' = Redeemed
    BY <1>3 DEF IInv, StatusFits, Redeemed, Uses
  <2>2. IsFiniteSet(Uses) /\ Cardinality(Uses) \in Nat
    <3>1. Uses \in SUBSET Orders
      BY DEF Uses
    <3> QED BY <3>1, FiniteOrders, FS_Subset, FS_CardinalityType
  <2>3. Cardinality(Redeemed) <= Cardinality(Uses)
    BY <2>1, <2>2, FS_Subset
  <2> QED
    BY <1>3, <2>1, <2>2, <2>3, FiniteUses, LoyaltyAssumption DEF MayUseCoupon, UseLeft
<1>9. SnapshotsKept(p)'
  BY <1>1, <1>3, <1>4, <1>5, <1>6, <1>8 DEF SnapshotsKept
<1>10. Unplaced(p)'
  BY <1>3 DEF IInv, Unplaced
<1> QED
  BY <1>2, <1>3, <1>5, <1>7, <1>9, <1>10, NothingWritten

\* A settlement or a reversal opens.
LEMMA OpensKeeps ==
  ASSUME IInv, NEW c \in Settlers \cup Reversers, NEW o \in Orders, NEW wallet,
         wallet \subseteq {Wallet}, NEW step,
         step = IF c \in Settlers THEN "settling" ELSE "reversing",
         Becomes(c, Transaction(step, o, FALSE, 0, 0, {o} \cup wallet), {}),
         c \in Settlers => order[o].status # "none",
         engine' = engine, used' = used, order' = order
  PROVE  IInv'
<1> DEFINE
  w == {o} \cup wallet
  q == Transaction(step, o, FALSE, 0, 0, w)
<1>1. Becomes(c, q, {})
  OBVIOUS
<1>2. c \in Calls /\ c \notin Placements
  BY CallsApart
<1>3. call'[c] = q
  <2> HIDE DEF q
  <2> QED BY <1>1, <1>2, OthersAfterBecomes DEF IInv
<1>4. IsCall(q) /\ q.pc = step /\ q.at = o /\ q.writes = w
  <2> DEFINE no == FALSE
  <2>1. no \in BOOLEAN /\ q = Transaction(step, o, no, 0, 0, w)
    OBVIOUS
  <2> HIDE DEF w, no, q
  <2> QED BY <2>1, TransactionIsCall
<1>5. o \in w /\ Coupon \notin w
  BY Documents
<1> HIDE DEF q, w
<1>7. StepsKept(c)'
  BY <1>2, <1>3, <1>4, <1>5, CallsApart DEF StepsKept
<1>8. SnapshotsKept(c)'
  BY <1>3, <1>4, <1>5 DEF SnapshotsKept
<1> QED
  BY <1>1, <1>2, <1>4, <1>7, <1>8, NothingWritten

LEMMA SettleBeginsKeeps ==
  ASSUME IInv, NEW s \in Settlers, SettleBegins(s)
  PROVE  IInv'
<1>1. PICK o \in Orders :
        /\ order[o].status \in {"delivered"} \cup Deliverable
        /\ Becomes(s, Transaction("settling", o, FALSE, 0, 0,
             {o} \cup (IF Grants(o) THEN {Wallet} ELSE {})), {})
  BY DEF SettleBegins
<1>2. order[o].status # "none"
  BY <1>1, LoyaltyAssumption
<1> DEFINE wallet == IF Grants(o) THEN {Wallet} ELSE {}
<1>3. wallet \subseteq {Wallet}
  OBVIOUS
<1>4. Becomes(s, Transaction("settling", o, FALSE, 0, 0, {o} \cup wallet), {})
  BY <1>1
<1>5. engine' = engine /\ used' = used /\ order' = order
  BY DEF SettleBegins, settings
<1> HIDE DEF wallet
<1> QED
  BY <1>2, <1>3, <1>4, <1>5, OpensKeeps

LEMMA ReverseBeginsKeeps ==
  ASSUME IInv, NEW r \in Reversers, ReverseBegins(r)
  PROVE  IInv'
<1>1. PICK o \in Orders :
        Becomes(r, Transaction("reversing", o, FALSE, 0, 0,
          {o} \cup (IF HandsBack(o) \/ TakesBack(o) THEN {Wallet} ELSE {})), {})
  BY DEF ReverseBegins
<1> DEFINE wallet == IF HandsBack(o) \/ TakesBack(o) THEN {Wallet} ELSE {}
<1>2. wallet \subseteq {Wallet} /\ r \notin Settlers
  BY CallsApart
<1>3. Becomes(r, Transaction("reversing", o, FALSE, 0, 0, {o} \cup wallet), {})
  BY <1>1, <1>2
<1>4. engine' = engine /\ used' = used /\ order' = order
  BY DEF ReverseBegins, settings
<1> HIDE DEF wallet
<1> QED
  BY <1>2, <1>3, <1>4, OpensKeeps

LEMMA AbortsKeeps ==
  ASSUME IInv, NEW c \in Calls, Aborts(c)
  PROVE  IInv'
<1>1. /\ Becomes(c, Idle, {})
      /\ call[c].pc \in {"placing", "settling", "reversing"}
      /\ engine' = engine /\ used' = used /\ order' = order
  BY DEF Aborts, settings
<1>2. call'[c] = Idle
  BY <1>1, OthersAfterBecomes DEF IInv
<1>3. StepsKept(c)' /\ SnapshotsKept(c)'
  BY <1>2, IdleIsCall DEF StepsKept, SnapshotsKept
<1>4. c \in Placements => Unplaced(c)'
  <2>1. c \in Placements => call[c].pc = "placing"
    BY <1>1 DEF IInv, StepsKept
  <2> QED BY <1>1, <2>1 DEF IInv, Unplaced
<1> QED
  BY <1>1, <1>3, <1>4, IdleIsCall, NothingWritten

LEMMA UseNotCountedKeeps ==
  ASSUME IInv, NEW p \in Placements, UseNotCounted(p)
  PROVE  IInv'
<1> DEFINE q == Resting("done")
<1>1. /\ Becomes(p, q, {}) /\ p \in Calls
      /\ engine' = engine /\ used' = used /\ order' = order
  BY CallsApart DEF UseNotCounted, settings
<1>2. call'[p] = q
  BY <1>1, OthersAfterBecomes DEF IInv
<1>3. IsCall(q) /\ q.pc = "done" /\ q.writes = {}
  BY DEF IsCall, Resting
<1>4. StepsKept(p)' /\ SnapshotsKept(p)' /\ Unplaced(p)'
  BY <1>2, <1>3, CallsApart DEF StepsKept, SnapshotsKept, Unplaced
<1> QED
  BY <1>1, <1>3, <1>4, NothingWritten

(***************************************************************************)
(* Steps that write documents.                                               *)
(***************************************************************************)
\* A call that a step refuses or leaves alone stays in order, if the step adds no
\* use and writes the coupon when it counts one.
LEMMA OtherKeptNoUse ==
  ASSUME IInv, NoNewUse, NEW d \in Calls,
         \/ call'[d] = Idle
         \/ /\ call'[d] = call[d]
            /\ Coupon \in call[d].writes => used' = used
  PROVE  StepsKept(d)' /\ SnapshotsKept(d)' /\ IsCall(call'[d])
<1>1. StepsKept(d) /\ SnapshotsKept(d) /\ IsCall(call[d])
  BY DEF IInv, Types
<1>2. used' = used /\ UseLeft => UseLeft'
  BY LimitsKept DEF IInv
<1> QED
  BY <1>1, <1>2, OtherKept DEF NoNewUse

\* A placement that is refused had not placed anything.
LEMMA UnplacedKept ==
  ASSUME IInv, NEW p \in Placements,
         call'[p] = call[p] \/ (call'[p] = Idle /\ call[p].writes # {}),
         \A i \in Sellers : order[<<p, i>>].status = "none" /\ ~order[<<p, i>>].coupon =>
           order'[<<p, i>>].status = "none" /\ ~order'[<<p, i>>].coupon
  PROVE  Unplaced(p)'
<1>1. call[p].writes # {} => call[p].pc = "placing"
  BY CallsApart DEF IInv, StepsKept
<1>2. call'[p].pc \in {"idle", "placing"} => call[p].pc \in {"idle", "placing"}
  BY <1>1, IdleIsCall
<1> QED
  BY <1>2 DEF IInv, Unplaced

LEMMA CountsUseKeeps ==
  ASSUME IInv, NEW p \in Placements, CountsUse(p)
  PROVE  IInv'
<1> DEFINE q == Resting("done")
<1>1. /\ Becomes(p, q, {Coupon}) /\ p \in Calls
      /\ engine' = engine /\ order' = order
      /\ used < UsageLimit /\ used' = used + 1
  BY CallsApart DEF CountsUse, settings
<1>2. IsCall(q) /\ q.pc = "done" /\ q.writes = {}
  BY DEF IsCall, Resting
<1> HIDE DEF q
<1>3. /\ call' = [d \in Calls |-> call'[d]] /\ call'[p] = q
      /\ \A d \in Calls \ {p} :
           \/ call'[d] = Idle /\ call[d].writes # {}
           \/ call'[d] = call[d] /\ call[d].writes \cap {Coupon} = {}
  BY <1>1, OthersAfterBecomes DEF IInv
<1>4. NoNewUse
  BY <1>1, LoyaltyAssumption DEF NoNewUse, IInv, Types, Redeemed, StatusesLast
<1>5. CouponLimits'
  BY <1>4, LimitsKept DEF IInv
<1>6. \A d \in Calls : StepsKept(d)' /\ SnapshotsKept(d)' /\ IsCall(call'[d])
  <2> TAKE d \in Calls
  <2>1. CASE d = p
    BY <2>1, <1>2, <1>3, CallsApart DEF StepsKept, SnapshotsKept
  <2>2. CASE d # p
    BY <2>2, <1>1, <1>3, <1>4, OtherKeptNoUse
  <2> QED BY <2>1, <2>2
<1>7. \A r \in Placements : Unplaced(r)'
  <2> TAKE r \in Placements
  <2>1. CASE r = p
    BY <2>1, <1>2, <1>3 DEF Unplaced
  <2>2. CASE r # p
    BY <2>2, <1>1, <1>3, CallsApart, UnplacedKept
  <2> QED BY <2>1, <2>2
<1>8. Types' /\ StatusFits'
  BY <1>1, <1>3, <1>4, <1>6 DEF IInv, Types, StatusFits, NoNewUse
<1> QED
  BY <1>5, <1>6, <1>7, <1>8 DEF IInv

LEMMA CouponUsedElsewhereKeeps ==
  ASSUME IInv, CouponUsedElsewhere
  PROVE  IInv'
<1>1. /\ Written({Coupon}) /\ engine' = engine /\ order' = order
      /\ used < UsageLimit /\ used' = used + 1
  BY DEF CouponUsedElsewhere, settings
<1>2. /\ call' = [d \in Calls |-> call'[d]]
      /\ \A d \in Calls :
           \/ call'[d] = Idle /\ call[d].writes # {}
           \/ call'[d] = call[d] /\ call[d].writes \cap {Coupon} = {}
  BY <1>1, OthersAfterWritten DEF IInv
<1>3. NoNewUse
  BY <1>1, LoyaltyAssumption DEF NoNewUse, IInv, Types, Redeemed, StatusesLast
<1>4. CouponLimits'
  BY <1>3, LimitsKept DEF IInv
<1>5. \A d \in Calls : StepsKept(d)' /\ SnapshotsKept(d)' /\ IsCall(call'[d])
  BY <1>1, <1>2, <1>3, OtherKeptNoUse
<1>6. \A r \in Placements : Unplaced(r)'
  BY <1>1, <1>2, CallsApart, UnplacedKept
<1>7. Types' /\ StatusFits'
  BY <1>1, <1>2, <1>3, <1>5 DEF IInv, Types, StatusFits, NoNewUse
<1> QED
  BY <1>4, <1>5, <1>6, <1>7 DEF IInv

LEMMA MovesKeeps ==
  ASSUME IInv, NEW o \in Orders, NEW workflow, NEW status, Moves(o, workflow, status),
         \/ workflow = "DELIVERED" /\ status = "delivered"
         \/ workflow = "CANCELLED" /\ status = "cancelled"
  PROVE  IInv'
<1>1. PICK Amounts : order \in [Orders -> OrderOf(Amounts)]
  BY DEF IInv, Types
<1>2. /\ Written({o}) /\ engine' = engine /\ used' = used
      /\ order[o].workflow = "open"
      /\ order' = [order EXCEPT ![o].workflow = workflow, ![o].status = status]
  BY DEF Moves, settings
<1>3. /\ order' \in [Orders -> OrderOf(Amounts)]
      /\ order'[o].workflow = workflow /\ order'[o].status = status
      /\ order'[o].coupon = order[o].coupon
      /\ \A x \in Orders \ {o} : order'[x] = order[x]
  <2>1. /\ workflow \in {"DELIVERED", "CANCELLED"} /\ status \in {"delivered", "cancelled"}
        /\ order[o] \in OrderOf(Amounts)
    BY <1>1
  <2> DEFINE new == [order[o] EXCEPT !.workflow = workflow, !.status = status]
  <2>2. /\ new \in OrderOf(Amounts) /\ new.workflow = workflow /\ new.status = status
        /\ new.coupon = order[o].coupon
    BY <2>1 DEF OrderOf
  <2>3. order' = [order EXCEPT ![o] = new]
    BY <1>2
  <2> HIDE DEF new
  <2> QED BY <1>1, <2>2, <2>3
<1>4. /\ call' = [d \in Calls |-> call'[d]]
      /\ \A d \in Calls :
           \/ call'[d] = Idle /\ call[d].writes # {}
           \/ call'[d] = call[d] /\ call[d].writes \cap {o} = {}
  BY <1>2, OthersAfterWritten DEF IInv
<1>6. NoNewUse
  BY <1>2, <1>3 DEF NoNewUse, IInv, Types, CouponLimits, Redeemed, StatusesLast
<1>7. CouponLimits'
  BY <1>6, LimitsKept DEF IInv
<1>8. \A d \in Calls : StepsKept(d)' /\ SnapshotsKept(d)' /\ IsCall(call'[d])
  BY <1>2, <1>3, <1>4, <1>6, OtherKeptNoUse
<1>9. \A p \in Placements : Unplaced(p)'
  <2> TAKE p \in Placements
  <2>1. \A i \in Sellers : order[<<p, i>>].status = "none" => order'[<<p, i>>] = order[<<p, i>>]
    <3>1. order[o].status # "none"
      BY <1>2 DEF IInv, StatusFits
    <3> QED BY <1>3, <3>1 DEF Orders
  <2> QED BY <1>4, <2>1, CallsApart, UnplacedKept
<1>10. Types' /\ StatusFits'
  BY <1>2, <1>3, <1>4, <1>6, <1>8 DEF IInv, Types, StatusFits, NoNewUse
<1> QED
  BY <1>7, <1>8, <1>9, <1>10 DEF IInv

\* A settlement or a reversal commits: it writes its order, and of that nothing
\* that the coupon is about but for a status that is not worse than before.
LEMMA CommitKeeps ==
  ASSUME IInv, NEW c \in Settlers \cup Reversers, NEW o \in Orders,
         NEW Amounts, order \in [Orders -> OrderOf(Amounts)],
         NEW new \in OrderOf(Amounts), order' = [order EXCEPT ![o] = new],
         new.coupon = order[o].coupon, new.workflow = order[o].workflow,
         new.status = order[o].status \/ (new.status = "delivered" /\ order[o].status # "none"),
         Ends(c, "idle"), engine' = engine, used' = used
  PROVE  IInv'
<1> DEFINE q == Resting("idle")
<1>1. c \in Calls /\ Becomes(c, q, call[c].writes)
  BY CallsApart DEF Ends
<1>2. IsCall(q) /\ q = Idle
  BY DEF IsCall, Resting, Idle
<1> HIDE DEF q
<1>3. /\ call' = [d \in Calls |-> call'[d]] /\ call'[c] = q
      /\ \A d \in Calls \ {c} :
           \/ call'[d] = Idle /\ call[d].writes # {}
           \/ call'[d] = call[d] /\ call[d].writes \cap call[c].writes = {}
  BY <1>1, OthersAfterBecomes DEF IInv
<1>4. /\ order' \in [Orders -> OrderOf(Amounts)]
      /\ order'[o] = new
      /\ \A x \in Orders \ {o} : order'[x] = order[x]
  OBVIOUS
<1>5. \A x \in Orders :
        /\ order'[x].coupon = order[x].coupon /\ order'[x].workflow = order[x].workflow
        /\ \/ order'[x].status = order[x].status
           \/ order'[x].status = "delivered" /\ order[x].status # "none"
  BY <1>4
<1>6. NoNewUse
  BY <1>5 DEF NoNewUse, IInv, Types, CouponLimits, Redeemed, StatusesLast
<1>7. CouponLimits'
  BY <1>6, LimitsKept DEF IInv
<1>8. \A d \in Calls : StepsKept(d)' /\ SnapshotsKept(d)' /\ IsCall(call'[d])
  <2>1. \A d \in Calls : call'[d] = Idle \/ call'[d] = call[d]
    BY <1>2, <1>3
  <2> QED BY <1>6, <2>1, OtherKeptNoUse
<1>9. \A p \in Placements : Unplaced(p)'
  <2> TAKE p \in Placements
  <2>1. \A i \in Sellers : order[<<p, i>>].status = "none" /\ ~order[<<p, i>>].coupon =>
          order'[<<p, i>>].status = "none" /\ ~order'[<<p, i>>].coupon
    BY <1>5 DEF Orders
  <2> QED BY <1>3, <2>1, CallsApart, UnplacedKept
<1>10. Types' /\ StatusFits'
  BY <1>3, <1>4, <1>5, <1>6, <1>8 DEF IInv, Types, StatusFits, NoNewUse
<1> QED
  BY <1>7, <1>8, <1>9, <1>10 DEF IInv

LEMMA SettleCommitsKeeps ==
  ASSUME IInv, NEW s \in Settlers, SettleCommits(s)
  PROVE  IInv'
<1>1. PICK Amounts : order \in [Orders -> OrderOf(Amounts)]
  BY DEF IInv, Types
<1> DEFINE o == call[s].at
           credited == order[o].earnedCredited \/ Grants(o)
           new == [order[o] EXCEPT !.status = "delivered",
                     !.deliveredSettlementApplied = TRUE, !.earnedCredited = credited]
<1>2. /\ At(s, "settling") /\ Ends(s, "idle") /\ engine' = engine /\ used' = used
      /\ order' = [order EXCEPT
           ![o].status = "delivered", ![o].deliveredSettlementApplied = TRUE,
           ![o].earnedCredited = @ \/ Grants(o)]
  BY DEF SettleCommits, settings
<1>3. o \in Orders /\ order[o].status # "none"
  BY <1>2, CallsApart DEF At, IInv, StepsKept
<1> HIDE DEF o
<1>4. order[o] \in OrderOf(Amounts) /\ credited \in BOOLEAN
  BY <1>1, <1>3
<1>5. order' = [order EXCEPT ![o] = new]
  BY <1>2
<1> HIDE DEF credited
<1>6. /\ new \in OrderOf(Amounts) /\ new.coupon = order[o].coupon
      /\ new.workflow = order[o].workflow /\ new.status = "delivered"
  BY <1>4 DEF OrderOf
<1> HIDE DEF new
<1> QED
  BY <1>1, <1>2, <1>3, <1>5, <1>6, CommitKeeps

LEMMA ReverseCommitsKeeps ==
  ASSUME IInv, NEW r \in Reversers, ReverseCommits(r)
  PROVE  IInv'
<1>1. PICK Amounts : order \in [Orders -> OrderOf(Amounts)]
  BY DEF IInv, Types
<1> DEFINE o == call[r].at
           handed == order[o].redeemedReversed \/ HandsBack(o)
           credited == order[o].earnedCredited /\ ~TakesBack(o)
           new == [order[o] EXCEPT !.cancellationReversalApplied = TRUE,
                     !.redeemedReversed = handed, !.earnedCredited = credited]
<1>2. /\ At(r, "reversing") /\ Ends(r, "idle") /\ engine' = engine /\ used' = used
      /\ order' = [order EXCEPT
           ![o].cancellationReversalApplied = TRUE,
           ![o].redeemedReversed = @ \/ HandsBack(o),
           ![o].earnedCredited = @ /\ ~TakesBack(o)]
  BY DEF ReverseCommits, settings
<1>3. o \in Orders
  BY <1>2, CallsApart DEF At, IInv, StepsKept
<1> HIDE DEF o
<1>4. order[o] \in OrderOf(Amounts) /\ credited \in BOOLEAN /\ handed \in BOOLEAN
  BY <1>1, <1>3
<1>5. order' = [order EXCEPT ![o] = new]
  BY <1>2
<1> HIDE DEF credited, handed
<1>6. /\ new \in OrderOf(Amounts) /\ new.coupon = order[o].coupon
      /\ new.workflow = order[o].workflow /\ new.status = order[o].status
  BY <1>4 DEF OrderOf
<1> HIDE DEF new
<1> QED
  BY <1>1, <1>2, <1>3, <1>5, <1>6, CommitKeeps

(***************************************************************************)
(* A placement commits.                                                      *)
(***************************************************************************)
Opened(base, k, e, g, r) ==
  [base EXCEPT !.workflow = "open", !.status = "live", !.coupon = k,
               !.earned = e, !.earnedCredited = g, !.redeemed = r]

LEMMA OpenedOrder ==
  ASSUME NEW Amounts, NEW base \in OrderOf(Amounts), NEW k \in BOOLEAN,
         NEW e \in Amounts, NEW g \in BOOLEAN, NEW r \in Amounts
  PROVE  LET new == Opened(base, k, e, g, r)
         IN  /\ new \in OrderOf(Amounts)
             /\ new.workflow = "open" /\ new.status = "live" /\ new.coupon = k
BY DEF OrderOf, Opened

LEMMA PlaceCommitsKeeps ==
  ASSUME IInv, NEW p \in Placements, PlaceCommits(p)
  PROVE  IInv'
<1> DEFINE step == IF call[p].coupon /\ ~engine THEN "counting" ELSE "done"
           q == Resting(step)
<1>1. /\ call[p].pc = "placing" /\ engine' = engine
      /\ order' = [o \in Orders |-> IF o[1] = p THEN Placed(p, o[2]) ELSE order[o]]
      /\ used' = IF Coupon \in call[p].writes /\ call[p].used < UsageLimit
                 THEN call[p].used + 1 ELSE used
      /\ p \in Calls /\ Becomes(p, q, call[p].writes)
  BY CallsApart DEF PlaceCommits, At, Ends, settings
<1>2. IsCall(q) /\ q.pc \in {"counting", "done"} /\ q.writes = {}
  BY DEF IsCall, Resting
<1> HIDE DEF q
<1>3. /\ call' = [d \in Calls |-> call'[d]] /\ call'[p] = q
      /\ \A d \in Calls \ {p} :
           \/ call'[d] = Idle /\ call[d].writes # {}
           \/ call'[d] = call[d] /\ call[d].writes \cap call[p].writes = {}
  BY <1>1, OthersAfterBecomes DEF IInv
<1>4. /\ Coupon \in call[p].writes <=> call[p].coupon /\ engine
      /\ Coupon \in call[p].writes => call[p].used = used /\ UseLeft
      /\ call[p].coupon \in BOOLEAN /\ engine \in BOOLEAN
  BY <1>1 DEF IInv, StepsKept, SnapshotsKept, Types, IsCall
<1>5. PICK Amounts : order \in [Orders -> OrderOf(Amounts)]
  BY DEF IInv, Types
<1> DEFINE more == Amounts \cup {NoOrder.earned, NoOrder.redeemed}
                    \cup {EarnedShares(call[p].earned, call[p].coins)[i] : i \in Sellers}
                    \cup {RedeemedShares(call[p].coins)[i] : i \in Sellers}
<1>6. \A i \in Sellers :
        /\ Placed(p, i) \in OrderOf(more)
        /\ Placed(p, i).workflow = "open" /\ Placed(p, i).status = "live"
        /\ Placed(p, i).coupon = (call[p].coupon /\ engine)
  <2> TAKE i \in Sellers
  <2> DEFINE e == EarnedShares(call[p].earned, call[p].coins)[i]
             r == RedeemedShares(call[p].coins)[i]
             g == GrantNow(EarnedShares(call[p].earned, call[p].coins)[i]) > 0
             k == call[p].coupon /\ engine
             new == Placed(p, i)
  <2>1. e \in more /\ r \in more /\ g \in BOOLEAN /\ k \in BOOLEAN
    BY <1>4
  <2>2. NoOrder \in OrderOf(more)
    <3>1. NoOrder.earned \in more /\ NoOrder.redeemed \in more
      OBVIOUS
    <3> HIDE DEF more
    <3> QED BY <3>1 DEF NoOrder, OrderOf
  <2>3. new = Opened(NoOrder, k, e, g, r)
    BY DEF Placed, Opened
  <2> HIDE DEF e, r, g, k, more, new
  <2>4. /\ new \in OrderOf(more) /\ new.workflow = "open"
        /\ new.status = "live" /\ new.coupon = k
    BY <2>1, <2>2, <2>3, OpenedOrder
  <2> QED BY <2>4 DEF k, new
<1>7. order \in [Orders -> OrderOf(more)]
  BY <1>5 DEF OrderOf
<1> HIDE DEF more
<1>8. order' \in [Orders -> OrderOf(more)]
  BY <1>1, <1>6, <1>7 DEF Orders
<1>9. /\ \A i \in Sellers : order'[<<p, i>>] = Placed(p, i)
      /\ \A o \in Orders : o[1] # p => order'[o] = order[o]
      /\ \A o \in Orders : o[1] = p => o[2] \in Sellers /\ o = <<p, o[2]>>
  BY <1>1 DEF Orders
<1>10. \A o \in Orders : o[1] = p => order[o].status = "none" /\ ~order[o].coupon
  BY <1>1, <1>9 DEF IInv, Unplaced
<1>11. \A o \in Orders : o[1] = p =>
         /\ order'[o].coupon = (call[p].coupon /\ engine)
         /\ order'[o].workflow = "open" /\ order'[o].status = "live"
  BY <1>6, <1>9
<1>12. /\ used \in Nat /\ UsageLimit \in Nat /\ used <= UsageLimit
       /\ used' \in Nat /\ used <= used' /\ used' <= UsageLimit
  BY <1>1, <1>4, LoyaltyAssumption DEF IInv, Types, CouponLimits
<1>13. /\ ~(Coupon \in call[p].writes) => used' = used
       /\ Coupon \in call[p].writes => used' = used + 1
  BY <1>1, <1>4, <1>12 DEF UseLeft
<1>14. ~(call[p].coupon /\ engine) => NoNewUse
  <2>1. SUFFICES ASSUME ~(call[p].coupon /\ engine) PROVE NoNewUse
    OBVIOUS
  <2>2. \A o \in Orders : order'[o].coupon = order[o].coupon
    BY <2>1, <1>8, <1>7, <1>9, <1>10, <1>11 DEF OrderOf
  <2>3. \A o \in Orders : o[1] = p => ~order'[o].coupon
    BY <2>1, <1>11
  <2>4. Redeemed' \subseteq Redeemed
    BY <2>3, <1>9 DEF Redeemed
  <2>5. StatusesLast
    BY <1>9, <1>11 DEF StatusesLast
  <2> QED BY <1>1, <1>12, <2>2, <2>4, <2>5 DEF NoNewUse
<1>15. call[p].coupon /\ engine => Cardinality(Checkouts') <= used' /\
         Cardinality(Redeemed') <= PerUserLimit - 1 + NumSellers
  <2>1. SUFFICES ASSUME call[p].coupon, engine
                 PROVE  /\ Cardinality(Checkouts') <= used'
                        /\ Cardinality(Redeemed') <= PerUserLimit - 1 + NumSellers
    OBVIOUS
  <2>2. UseLeft /\ used' = used + 1 /\ Cardinality(Checkouts) <= used
    BY <1>4, <1>13, <2>1 DEF IInv, CouponLimits, Checkouts
  <2>3. Checkouts' \subseteq Checkouts \cup {p}
    BY <1>9 DEF Checkouts, Orders
  <2>4. Cardinality(Checkouts') <= Cardinality(Checkouts) + 1
    <3>1. /\ IsFiniteSet(Checkouts \cup {p})
          /\ Cardinality(Checkouts \cup {p}) <= Cardinality(Checkouts) + 1
      <4> DEFINE C == Checkouts
      <4>1. IsFiniteSet(C) /\ Cardinality(C) \in Nat
        BY FiniteUses
      <4> HIDE DEF C
      <4>2. /\ IsFiniteSet(C \cup {p})
            /\ Cardinality(C \cup {p})
                 = IF p \in C THEN Cardinality(C) ELSE Cardinality(C) + 1
        BY <4>1, FS_AddElement
      <4>3. IsFiniteSet(C \cup {p}) /\ Cardinality(C \cup {p}) <= Cardinality(C) + 1
        BY <4>1, <4>2
      <4> QED BY <4>3 DEF C
    <3>2. /\ Cardinality(Checkouts') <= Cardinality(Checkouts \cup {p})
          /\ Cardinality(Checkouts \cup {p}) \in Nat
      BY <3>1, <2>3, FS_Subset, FS_CardinalityType
    <3> QED BY <3>1, <3>2, FiniteUses, FiniteUsesNext
  <2>5. Redeemed' \subseteq Redeemed \cup ({p} \X Sellers)
    BY <1>9 DEF Redeemed
  <2>6. Cardinality(Redeemed') <= Cardinality(Redeemed) + NumSellers
    <3> DEFINE mine == {p} \X Sellers
    <3>0. /\ IsFiniteSet(mine) /\ Cardinality(mine) = NumSellers
          /\ Redeemed' \subseteq Redeemed \cup mine
      BY OrdersOfOne, <2>5
    <3> HIDE DEF mine
    <3>1. /\ IsFiniteSet(Redeemed \cup mine) /\ IsFiniteSet(Redeemed \cap mine)
          /\ Cardinality(Redeemed \cup mine)
                = Cardinality(Redeemed) + Cardinality(mine) - Cardinality(Redeemed \cap mine)
      BY <3>0, FiniteUses, FS_Union, FS_Intersection
    <3>2. /\ Cardinality(Redeemed') <= Cardinality(Redeemed \cup mine)
          /\ Cardinality(Redeemed \cup mine) \in Nat
          /\ Cardinality(Redeemed \cap mine) \in Nat
      BY <3>0, <3>1, FS_Subset, FS_CardinalityType
    <3> QED BY <3>0, <3>1, <3>2, FiniteUses, FiniteUsesNext, LoyaltyAssumption
  <2> QED
    BY <2>2, <2>4, <2>6, <1>12, FiniteUses, FiniteUsesNext, LoyaltyAssumption
       DEF UseLeft
<1>16. CouponLimits'
  <2>1. CASE ~(call[p].coupon /\ engine)
    BY <2>1, <1>14, LimitsKept DEF IInv
  <2>2. CASE call[p].coupon /\ engine
    BY <2>2, <1>1, <1>12, <1>15 DEF CouponLimits, Checkouts
  <2> QED BY <2>1, <2>2
<1>17. \A d \in Calls : StepsKept(d)' /\ SnapshotsKept(d)' /\ IsCall(call'[d])
  <2> TAKE d \in Calls
  <2>1. CASE d = p
    BY <2>1, <1>2, <1>3, CallsApart DEF StepsKept, SnapshotsKept
  <2>2. CASE d # p
    <3>1. StepsKept(d) /\ SnapshotsKept(d) /\ IsCall(call[d])
      BY DEF IInv, Types
    <3>2. StatusesLast
      BY <1>9, <1>11 DEF StatusesLast
    <3>3. CASE call'[d] = Idle
      BY <3>1, <3>2, <3>3, <1>1, OtherKept
    <3>4. CASE call'[d] = call[d] /\ call[d].writes \cap call[p].writes = {}
      <4>1. CASE Coupon \in call[d].writes
        <5>1. Coupon \notin call[p].writes
          BY <3>4, <4>1
        <5>2. call[d].pc = "placing"
          BY <3>1, <4>1, CallsApart DEF StepsKept
        <5>3. engine /\ NoNewUse /\ used' = used
          BY <5>1, <5>2, <3>1, <4>1, <1>4, <1>13, <1>14 DEF StepsKept
        <5>4. UseLeft => UseLeft'
          BY <5>3, LimitsKept DEF IInv
        <5> QED BY <5>3, <5>4, <3>1, <3>2, <3>4, <1>1, OtherKept
      <4>2. CASE Coupon \notin call[d].writes
        BY <4>2, <3>1, <3>2, <3>4, <1>1, OtherKept
      <4> QED BY <4>1, <4>2
    <3> QED BY <2>2, <1>3, <3>3, <3>4
  <2> QED BY <2>1, <2>2
<1>18. \A r \in Placements : Unplaced(r)'
  <2> TAKE r \in Placements
  <2>1. CASE r = p
    BY <2>1, <1>2, <1>3 DEF Unplaced
  <2>2. CASE r # p
    <3>1. \A i \in Sellers : order'[<<r, i>>] = order[<<r, i>>]
      BY <2>2, <1>9 DEF Orders
    <3> QED BY <2>2, <3>1, <1>1, <1>3, CallsApart, UnplacedKept
  <2> QED BY <2>1, <2>2
<1>19. StatusFits'
  BY <1>9, <1>11 DEF IInv, StatusFits
<1>20. Types'
  BY <1>1, <1>3, <1>8, <1>12, <1>17 DEF IInv, Types
<1> QED
  BY <1>16, <1>17, <1>18, <1>19, <1>20 DEF IInv

(***************************************************************************)
(* The invariant.                                                            *)
(***************************************************************************)
LEMMA InitIsIn == Init => IInv
<1> SUFFICES ASSUME Init PROVE IInv
  OBVIOUS
<1>1. /\ engine \in BOOLEAN /\ used = 0
      /\ order = [o \in Orders |-> NoOrder] /\ call = [c \in Calls |-> Idle]
  BY DEF Init
<1>2. /\ NoOrder \in OrderOf({0}) /\ ~NoOrder.coupon
      /\ NoOrder.status = "none" /\ NoOrder.workflow = "none"
  BY DEF NoOrder, OrderOf
<1>3. order \in [Orders -> OrderOf({0})]
  BY <1>1, <1>2
<1>4. Types
  BY <1>1, <1>3, IdleIsCall DEF Types
<1>5. \A c \in Calls : StepsKept(c) /\ SnapshotsKept(c)
  BY <1>1, IdleIsCall DEF StepsKept, SnapshotsKept
<1>6. (\A p \in Placements : Unplaced(p)) /\ StatusFits
  BY <1>1, <1>2 DEF Unplaced, StatusFits, Orders
<1>7. Redeemed = {} /\ Checkouts = {}
  BY <1>1, <1>2 DEF Redeemed, Checkouts, Orders
<1>8. CouponLimits
  <2>1. Cardinality(Redeemed) = 0 /\ Cardinality(Checkouts) = 0
    BY <1>7, FS_EmptySet
  <2>2. /\ used <= UsageLimit /\ Cardinality(Checkouts) <= used
        /\ Cardinality(Redeemed) <= PerUserLimit - 1 + NumSellers
    BY <1>1, <2>1, LoyaltyAssumption
  <2> QED BY <2>2 DEF CouponLimits, Checkouts
<1> QED
  BY <1>4, <1>5, <1>6, <1>8 DEF IInv

LEMMA StutterKeeps == IInv /\ UNCHANGED vars => IInv'
<1> SUFFICES ASSUME IInv, UNCHANGED vars PROVE IInv'
  OBVIOUS
<1>1. engine' = engine /\ used' = used /\ order' = order /\ call' = call
  BY DEF vars, settings
<1> QED
  BY <1>1 DEF IInv, Types, StepsKept, SnapshotsKept, Unplaced, StatusFits,
    CouponLimits, UseLeft, Redeemed

LEMMA NextKeeps ==
  ASSUME IInv, [Next]_vars
  PROVE  IInv'
<1>1. CASE \E p \in Placements :
             PlaceBegins(p) \/ PlaceCommits(p) \/ CountsUse(p) \/ UseNotCounted(p)
  BY <1>1, PlaceBeginsKeeps, PlaceCommitsKeeps, CountsUseKeeps, UseNotCountedKeeps
<1>2. CASE CouponUsedElsewhere
  BY <1>2, CouponUsedElsewhereKeeps
<1>3. CASE \E o \in Orders : Deliver(o) \/ Cancel(o)
  BY <1>3, MovesKeeps DEF Deliver, Cancel
<1>4. CASE \E s \in Settlers : SettleBegins(s) \/ SettleCommits(s)
  BY <1>4, SettleBeginsKeeps, SettleCommitsKeeps
<1>5. CASE \E r \in Reversers : ReverseBegins(r) \/ ReverseCommits(r)
  BY <1>5, ReverseBeginsKeeps, ReverseCommitsKeeps
<1>6. CASE \E c \in Calls : Aborts(c)
  BY <1>6, AbortsKeeps
<1>7. CASE UNCHANGED vars
  BY <1>7, StutterKeeps
<1> QED
  BY <1>1, <1>2, <1>3, <1>4, <1>5, <1>6, <1>7 DEF Next

\* However many checkouts, settlements and reversals run at once, and whatever
\* the number of sellers and the limits, a coupon is not counted past its limit,
\* and with the server-side engine no checkout of the customer passes
\* computeOrderDiscount on a count that another one has made stale.
THEOREM CouponLimitsCorrect == Spec => []CouponLimits
<1>1. Init => IInv
  BY InitIsIn
<1>2. IInv /\ [Next]_vars => IInv'
  BY NextKeeps
<1>3. IInv => CouponLimits
  BY DEF IInv
<1> QED
  BY <1>1, <1>2, <1>3, PTL DEF Spec

(***************************************************************************)
(* Induction on the subsets of a finite set, by a smallest counterexample.   *)
(***************************************************************************)
Below == {pair \in Nat \X Nat : pair[1] < pair[2]}

LEMMA Least ==
  ASSUME NEW T, T \subseteq Nat, T # {}
  PROVE  \E x \in T : \A y \in T : x <= y
<1>1. IsWellFoundedOn(Below, Nat)
  BY NatLessThanWellFounded DEF OpToRel, Below
<1>2. PICK x \in T : \A y \in T : ~(<<y, x>> \in Below)
  BY <1>1, WFMin
<1>3. ASSUME NEW y \in T PROVE x <= y
  <2>1. x \in Nat /\ y \in Nat
    OBVIOUS
  <2>2. y < x => <<y, x>> \in Below
    BY <2>1 DEF Below
  <2> QED
    BY <1>2, <2>1, <2>2
<1> QED
  BY <1>2, <1>3

LEMMA Smaller ==
  ASSUME NEW S, IsFiniteSet(S), NEW s \in SUBSET S, NEW x \in s
  PROVE  /\ s \ {x} \in SUBSET S
         /\ Cardinality(s) \in Nat /\ Cardinality(s \ {x}) \in Nat
         /\ Cardinality(s \ {x}) = Cardinality(s) - 1
<1>1. IsFiniteSet(s)
  BY FS_Subset
<1>2. IsFiniteSet(s \ {x}) /\ Cardinality(s \ {x}) = Cardinality(s) - 1
  BY <1>1, FS_RemoveElement
<1> QED
  BY <1>1, <1>2, FS_CardinalityType

LEMMA Subsets ==
  ASSUME NEW S, IsFiniteSet(S), NEW Q, {} \in Q,
         \A s \in SUBSET S : s # {} /\ (\A x \in s : s \ {x} \in Q) => s \in Q
  PROVE  SUBSET S \subseteq Q
<1> DEFINE Bad == (SUBSET S) \ Q
           Sizes == {Cardinality(s) : s \in Bad}
<1>1. ASSUME Bad # {} PROVE FALSE
  <2>1. Sizes \subseteq Nat
    BY FS_Subset, FS_CardinalityType
  <2>2. Sizes # {}
    BY <1>1
  <2>3. PICK n \in Sizes : \A m \in Sizes : n <= m
    <3> HIDE DEF Sizes
    <3> QED BY <2>1, <2>2, Least
  <2>4. PICK s \in Bad : n = Cardinality(s)
    OBVIOUS
  <2>5. ASSUME NEW x \in s PROVE s \ {x} \in Q
    <3>1. /\ s \ {x} \in SUBSET S /\ Cardinality(s) \in Nat
          /\ Cardinality(s \ {x}) = Cardinality(s) - 1
      BY <2>4, Smaller
    <3>2. ASSUME s \ {x} \in Bad PROVE FALSE
      <4>1. Cardinality(s) <= Cardinality(s \ {x})
        BY <2>3, <2>4, <3>2
      <4> QED BY <3>1, <4>1
    <3> QED BY <3>1, <3>2
  <2> QED
    BY <2>4, <2>5
<1> QED
  BY <1>1

(***************************************************************************)
(* Sums over finite sets.  The folds of the community modules take out one    *)
(* element after the other, which one does not matter.                       *)
(***************************************************************************)
Pick(s) == CHOOSE x \in s : TRUE

LEMMA PickIn == ASSUME NEW s, s # {} PROVE Pick(s) \in s
BY DEF Pick

\* it holds the sums of f over the subsets of S.
Adds(f, it, S) ==
  /\ it \in [SUBSET S -> Int]
  /\ it[{}] = 0
  /\ \A s \in SUBSET S : s # {} => it[s] = f[Pick(s)] + it[s \ {Pick(s)}]

LEMMA AddsExists ==
  ASSUME NEW S, IsFiniteSet(S), NEW f, \A x \in S : f[x] \in Int
  PROVE  \E it : Adds(f, it, S)
<1> DEFINE Upto(it, n) ==
             /\ it \in [SUBSET S -> Int] /\ it[{}] = 0
             /\ \A s \in SUBSET S : s # {} /\ Cardinality(s) <= n =>
                  it[s] = f[Pick(s)] + it[s \ {Pick(s)}]
           T == {n \in Nat : ~\E it : Upto(it, n)}
<1>1. 0 \notin T
  <2> DEFINE it == [s \in SUBSET S |-> 0]
  <2>1. ASSUME NEW s \in SUBSET S, Cardinality(s) <= 0 PROVE s = {}
    BY <2>1, FS_Subset, FS_CardinalityType, FS_EmptySet
  <2>2. it \in [SUBSET S -> Int] /\ it[{}] = 0
    OBVIOUS
  <2> HIDE DEF it
  <2>3. Upto(it, 0)
    BY <2>1, <2>2
  <2> QED BY <2>3
<1>2. ASSUME NEW n \in Nat, n \notin T PROVE n + 1 \notin T
  <2>1. PICK it : Upto(it, n)
    BY <1>2
  <2> DEFINE jt == [s \in SUBSET S |->
               IF s = {} THEN 0 ELSE f[Pick(s)] + it[s \ {Pick(s)}]]
  <2>2. jt \in [SUBSET S -> Int]
    <3>1. ASSUME NEW s \in SUBSET S, s # {} PROVE f[Pick(s)] + it[s \ {Pick(s)}] \in Int
      <4>1. Pick(s) \in S /\ s \ {Pick(s)} \in SUBSET S
        BY <3>1, PickIn
      <4>2. f[Pick(s)] \in Int /\ it[s \ {Pick(s)}] \in Int
        BY <2>1, <4>1
      <4> QED BY <4>2
    <3> QED BY <3>1
  <2>3. jt[{}] = 0
    OBVIOUS
  <2>4. ASSUME NEW s \in SUBSET S, s # {}
        PROVE  jt[s] = f[Pick(s)] + it[s \ {Pick(s)}]
    BY <2>4
  <2>5. ASSUME NEW s \in SUBSET S, Cardinality(s) <= n PROVE jt[s] = it[s]
    <3> HIDE DEF jt
    <3>1. CASE s = {}
      BY <2>1, <2>3, <3>1
    <3>2. CASE s # {}
      BY <2>1, <2>4, <2>5, <3>2
    <3> QED BY <3>1, <3>2
  <2>6. ASSUME NEW s \in SUBSET S, s # {}, Cardinality(s) <= n + 1
        PROVE  jt[s] = f[Pick(s)] + jt[s \ {Pick(s)}]
    <3>1. /\ s \ {Pick(s)} \in SUBSET S /\ Cardinality(s) \in Nat
          /\ Cardinality(s \ {Pick(s)}) = Cardinality(s) - 1
      BY <2>6, PickIn, Smaller
    <3>2. Cardinality(s \ {Pick(s)}) <= n
      BY <2>6, <3>1
    <3> HIDE DEF jt
    <3> QED BY <2>4, <2>5, <2>6, <3>1, <3>2
  <2> HIDE DEF jt
  <2>7. Upto(jt, n + 1)
    BY <2>2, <2>3, <2>6
  <2> QED BY <2>7
<1>3. T = {}
  <2> SUFFICES ASSUME T # {} PROVE FALSE
    OBVIOUS
  <2>1. T \subseteq Nat
    OBVIOUS
  <2>2. PICK n \in T : \A m \in T : n <= m
    <3> HIDE DEF T
    <3> QED BY <2>1, Least
  <2>3. n \in Nat /\ n # 0
    BY <1>1, <2>1, <2>2
  <2>4. n - 1 \in Nat /\ (n - 1) + 1 = n /\ ~(n <= n - 1)
    BY <2>3
  <2>5. n - 1 \notin T
    BY <2>2, <2>4
  <2> HIDE DEF T
  <2> QED BY <1>2, <2>2, <2>4, <2>5
<1>4. PICK it : Upto(it, Cardinality(S))
  BY <1>3, FS_CardinalityType
<1>5. \A s \in SUBSET S : Cardinality(s) <= Cardinality(S)
  BY FS_Subset
<1> QED
  BY <1>4, <1>5 DEF Adds

\* Any element may be taken out first.
LEMMA TakeOut ==
  ASSUME NEW S, IsFiniteSet(S), NEW f, \A x \in S : f[x] \in Int,
         NEW it, Adds(f, it, S)
  PROVE  \A s \in SUBSET S : \A x \in s : it[s] = f[x] + it[s \ {x}]
<1> DEFINE Q == {s \in SUBSET S : \A x \in s : it[s] = f[x] + it[s \ {x}]}
<1>1. {} \in Q
  OBVIOUS
<1>2. ASSUME NEW s \in SUBSET S, s # {}, \A x \in s : s \ {x} \in Q PROVE s \in Q
  <2> DEFINE y == Pick(s)
  <2>1. y \in s
    BY <1>2, PickIn
  <2>2. it[s] = f[y] + it[s \ {y}]
    BY <1>2 DEF Adds
  <2> HIDE DEF y
  <2>3. ASSUME NEW x \in s, x # y PROVE it[s] = f[x] + it[s \ {x}]
    <3>1. s \ {x} \in Q /\ s \ {y} \in Q /\ x \in s \ {y} /\ y \in s \ {x}
      BY <1>2, <2>1, <2>3
    <3>2. it[s \ {y}] = f[x] + it[(s \ {y}) \ {x}]
      BY <3>1
    <3>3. it[s \ {x}] = f[y] + it[(s \ {x}) \ {y}]
      BY <3>1
    <3>4. (s \ {y}) \ {x} = (s \ {x}) \ {y} /\ (s \ {x}) \ {y} \in SUBSET S
      OBVIOUS
    <3> DEFINE rest == it[(s \ {x}) \ {y}]
    <3>5. rest \in Int /\ f[x] \in Int /\ f[y] \in Int
      BY <2>1, <3>4 DEF Adds
    <3>6. it[s \ {y}] = f[x] + rest /\ it[s \ {x}] = f[y] + rest
      BY <3>2, <3>3, <3>4
    <3> HIDE DEF rest
    <3> QED BY <2>2, <3>5, <3>6
  <2> QED BY <2>2, <2>3
<1>3. SUBSET S \subseteq Q
  <2> HIDE DEF Q
  <2> QED BY <1>1, <1>2, Subsets
<1> QED
  BY <1>3

\* Where values compare, so do the sums.
LEMMA AddsCompare ==
  ASSUME NEW S, IsFiniteSet(S), NEW f, NEW g,
         \A x \in S : f[x] \in Int /\ g[x] \in Int /\ f[x] <= g[x],
         NEW it, Adds(f, it, S), NEW T, S \subseteq T, NEW jt, Adds(g, jt, T)
  PROVE  \A s \in SUBSET S : it[s] <= jt[s]
<1> DEFINE Q == {s \in SUBSET S : it[s] <= jt[s]}
<1>1. {} \in Q
  BY DEF Adds
<1>2. ASSUME NEW s \in SUBSET S, s # {}, \A x \in s : s \ {x} \in Q PROVE s \in Q
  <2> DEFINE y == Pick(s)
             r == s \ {y}
  <2>1. y \in s
    BY <1>2, PickIn
  <2>2. s \in SUBSET T /\ r \in SUBSET S /\ r \in SUBSET T /\ r \in Q /\ y \in S
    BY <1>2, <2>1
  <2>3. it[s] = f[y] + it[r] /\ jt[s] = g[y] + jt[r]
    BY <1>2, <2>2 DEF Adds
  <2>4. /\ it[r] \in Int /\ jt[r] \in Int /\ it[r] <= jt[r]
        /\ f[y] \in Int /\ g[y] \in Int /\ f[y] <= g[y]
    BY <2>2 DEF Adds
  <2> HIDE DEF y, r
  <2>5. it[s] <= jt[s]
    BY <2>3, <2>4
  <2> QED BY <2>5
<1>3. SUBSET S \subseteq Q
  <2> HIDE DEF Q
  <2> QED BY <1>1, <1>2, Subsets
<1> QED
  BY <1>3

LEMMA AddsSame ==
  ASSUME NEW S, IsFiniteSet(S), NEW f, NEW g,
         \A x \in S : f[x] \in Int /\ g[x] = f[x],
         NEW it, Adds(f, it, S), NEW T, S \subseteq T, NEW jt, Adds(g, jt, T)
  PROVE  \A s \in SUBSET S : it[s] = jt[s]
<1> DEFINE Q == {s \in SUBSET S : it[s] = jt[s]}
<1>1. {} \in Q
  BY DEF Adds
<1>2. ASSUME NEW s \in SUBSET S, s # {}, \A x \in s : s \ {x} \in Q PROVE s \in Q
  <2> DEFINE y == Pick(s)
             r == s \ {y}
  <2>1. y \in s
    BY <1>2, PickIn
  <2>2. s \in SUBSET T /\ r \in SUBSET S /\ r \in SUBSET T /\ r \in Q /\ y \in S
    BY <1>2, <2>1
  <2>3. it[s] = f[y] + it[r] /\ jt[s] = g[y] + jt[r]
    BY <1>2, <2>2 DEF Adds
  <2>4. it[r] = jt[r] /\ f[y] = g[y]
    BY <2>2
  <2> HIDE DEF y, r
  <2>5. it[s] = jt[s]
    BY <2>3, <2>4
  <2> QED BY <2>5
<1>3. SUBSET S \subseteq Q
  <2> HIDE DEF Q
  <2> QED BY <1>1, <1>2, Subsets
<1> QED
  BY <1>3

\* The sum of f over S is n.
Sums(f, S, n) == \E it : Adds(f, it, S) /\ n = it[S]

\* The values of f over S are integers.
Whole(f, S) == IsFiniteSet(S) /\ \A x \in S : f[x] \in Int

LEMMA SumExists ==
  ASSUME NEW f, NEW S, Whole(f, S)
  PROVE  \E n \in Int : Sums(f, S, n)
<1>1. PICK it : Adds(f, it, S)
  BY AddsExists DEF Whole
<1>2. it[S] \in Int
  BY <1>1 DEF Adds
<1> QED
  BY <1>1, <1>2 DEF Sums

LEMMA SumInt == ASSUME NEW f, NEW S, NEW n, Sums(f, S, n) PROVE n \in Int
BY DEF Sums, Adds

LEMMA SumEmpty == ASSUME NEW f, NEW n, Sums(f, {}, n) PROVE n = 0
BY DEF Sums, Adds

LEMMA SumSame ==
  ASSUME NEW f, NEW g, NEW S, NEW m, NEW n, Whole(f, S), Sums(f, S, m), Sums(g, S, n),
         \A x \in S : g[x] = f[x]
  PROVE  m = n
<1>1. PICK it : Adds(f, it, S) /\ m = it[S]
  BY DEF Sums
<1>2. PICK jt : Adds(g, jt, S) /\ n = jt[S]
  BY DEF Sums
<1>3. it[S] = jt[S]
  <2>1. \A s \in SUBSET S : it[s] = jt[s]
    BY <1>1, <1>2, AddsSame DEF Whole
  <2> QED BY <2>1
<1> QED
  BY <1>1, <1>2, <1>3

LEMMA SumCompare ==
  ASSUME NEW f, NEW g, NEW S, NEW m, NEW n, Whole(f, S), Whole(g, S),
         Sums(f, S, m), Sums(g, S, n),
         \A x \in S : f[x] <= g[x]
  PROVE  m <= n
<1>1. PICK it : Adds(f, it, S) /\ m = it[S]
  BY DEF Sums
<1>2. PICK jt : Adds(g, jt, S) /\ n = jt[S]
  BY DEF Sums
<1>3. it[S] <= jt[S]
  <2>1. \A s \in SUBSET S : it[s] <= jt[s]
    BY <1>1, <1>2, AddsCompare DEF Whole
  <2> QED BY <2>1
<1> QED
  BY <1>1, <1>2, <1>3

\* One element more.
LEMMA SumOneMore ==
  ASSUME NEW f, NEW S, NEW x, NEW m, NEW n, x \notin S, Whole(f, S \cup {x}),
         Sums(f, S, m), Sums(f, S \cup {x}, n)
  PROVE  n = m + f[x]
<1> DEFINE T == S \cup {x}
<1>1. PICK it : Adds(f, it, S) /\ m = it[S]
  BY DEF Sums
<1>2. PICK jt : Adds(f, jt, T) /\ n = jt[T]
  BY DEF Sums
<1>3. /\ IsFiniteSet(T) /\ IsFiniteSet(S) /\ S \subseteq T
      /\ \A y \in T : f[y] \in Int
  BY FS_Subset DEF Whole
<1>4. x \in T /\ T \ {x} = S
  OBVIOUS
<1> HIDE DEF T
<1>5. jt[T] = f[x] + jt[T \ {x}]
  BY <1>2, <1>3, <1>4, TakeOut
<1>6. it[S] = jt[S]
  <2>1. \A s \in SUBSET S : it[s] = jt[s]
    BY <1>1, <1>2, <1>3, AddsSame
  <2> QED BY <2>1
<1>7. it[S] \in Int /\ f[x] \in Int
  BY <1>1, <1>3, <1>4 DEF Adds
<1>8. n = f[x] + m
  BY <1>1, <1>2, <1>4, <1>5, <1>6
<1>9. m \in Int /\ f[x] \in Int
  BY <1>1, <1>7
<1> QED
  BY <1>8, <1>9

LEMMA SumNat ==
  ASSUME NEW f, NEW S, NEW n, IsFiniteSet(S), \A x \in S : f[x] \in Nat, Sums(f, S, n)
  PROVE  n \in Nat
<1> DEFINE z == [x \in S |-> 0]
<1>1. Whole(f, S) /\ Whole(z, S)
  BY DEF Whole
<1>2. \A x \in S : z[x] = 0 /\ z[x] <= f[x]
  OBVIOUS
<1>3. PICK it : Adds(z, it, S)
  BY <1>1, AddsExists DEF Whole
<1> DEFINE Q == {s \in SUBSET S : it[s] = 0}
<1>4. {} \in Q
  BY <1>3 DEF Adds
<1>5. ASSUME NEW s \in SUBSET S, s # {}, \A x \in s : s \ {x} \in Q PROVE s \in Q
  <2>1. Pick(s) \in s /\ s \ {Pick(s)} \in Q
    BY <1>5, PickIn
  <2>2. it[s] = z[Pick(s)] + it[s \ {Pick(s)}]
    BY <1>3, <1>5 DEF Adds
  <2> QED BY <2>1, <2>2
<1> HIDE DEF z
<1>6. S \in Q
  <2> HIDE DEF Q
  <2> QED BY <1>1, <1>4, <1>5, Subsets DEF Whole
<1>7. Sums(z, S, 0)
  BY <1>3, <1>6 DEF Sums
<1>8. 0 <= n
  BY <1>1, <1>2, <1>7, SumCompare
<1> QED
  BY <1>8, SumInt

\* What a fold of the community modules computes.
LEMMA FoldSums ==
  ASSUME NEW f, NEW S, Whole(f, S), NEW fold, fold[{}] = 0,
         \A s \in SUBSET S : s # {} => fold[s] = f[Pick(s)] + fold[s \ {Pick(s)}]
  PROVE  Sums(f, S, fold[S])
<1>1. PICK it : Adds(f, it, S)
  BY AddsExists DEF Whole
<1> DEFINE Q == {s \in SUBSET S : fold[s] = it[s]}
<1>2. {} \in Q
  BY <1>1 DEF Adds
<1>3. ASSUME NEW s \in SUBSET S, s # {}, \A x \in s : s \ {x} \in Q PROVE s \in Q
  <2> DEFINE r == s \ {Pick(s)}
  <2>1. fold[r] = it[r]
    BY <1>3, PickIn
  <2>2. fold[s] = f[Pick(s)] + fold[r] /\ it[s] = f[Pick(s)] + it[r]
    BY <1>1, <1>3 DEF Adds
  <2> HIDE DEF r
  <2>3. fold[s] = it[s]
    BY <2>1, <2>2
  <2> QED BY <2>3
<1>4. S \in Q
  <2> HIDE DEF Q
  <2> QED BY <1>2, <1>3, Subsets DEF Whole
<1> QED
  BY <1>1, <1>4 DEF Sums

LEMMA Distributes == \A k, a, b \in Int : k * (a + b) = k * a + k * b
OBVIOUS

LEMMA SumScale ==
  ASSUME NEW f, NEW g, NEW S, NEW k \in Int, NEW n, Whole(f, S), Sums(f, S, n),
         \A x \in S : g[x] = k * f[x]
  PROVE  Sums(g, S, k * n)
<1>1. PICK it : Adds(f, it, S) /\ n = it[S]
  BY DEF Sums
<1> DEFINE fold == [s \in SUBSET S |-> k * it[s]]
<1>2. fold[{}] = 0
  BY <1>1 DEF Adds
<1>3. ASSUME NEW s \in SUBSET S, s # {}
      PROVE  fold[s] = g[Pick(s)] + fold[s \ {Pick(s)}]
  <2> DEFINE x == Pick(s)
             r == s \ {x}
  <2>1. x \in S /\ r \in SUBSET S
    BY <1>3, PickIn
  <2>2. it[s] = f[x] + it[r] /\ f[x] \in Int /\ it[r] \in Int /\ g[x] = k * f[x]
    BY <1>1, <1>3, <2>1 DEF Adds, Whole
  <2>3. fold[s] = k * it[s] /\ fold[r] = k * it[r]
    BY <2>1
  <2> HIDE DEF x, r, fold
  <2>4. k * (f[x] + it[r]) = k * f[x] + k * it[r]
    BY <2>2, Distributes
  <2>5. fold[s] = g[x] + fold[r]
    BY <2>2, <2>3, <2>4
  <2> QED BY <2>5 DEF x, r
<1>4. Whole(g, S)
  BY DEF Whole
<1>5. fold[S] = k * n
  BY <1>1
<1> HIDE DEF fold
<1>6. Sums(g, S, fold[S])
  BY <1>2, <1>3, <1>4, FoldSums
<1> QED
  BY <1>5, <1>6

\* Sums of sums, and of ones.
LEMMA SumPlus ==
  ASSUME NEW f, NEW g, NEW h, NEW S, NEW m, NEW n, Whole(f, S), Whole(g, S),
         Sums(f, S, m), Sums(g, S, n), \A x \in S : h[x] = f[x] + g[x]
  PROVE  Sums(h, S, m + n)
<1>1. PICK it : Adds(f, it, S) /\ m = it[S]
  BY DEF Sums
<1>2. PICK jt : Adds(g, jt, S) /\ n = jt[S]
  BY DEF Sums
<1> DEFINE fold == [s \in SUBSET S |-> it[s] + jt[s]]
<1>3. fold[{}] = 0
  BY <1>1, <1>2 DEF Adds
<1>4. ASSUME NEW s \in SUBSET S, s # {}
      PROVE  fold[s] = h[Pick(s)] + fold[s \ {Pick(s)}]
  <2> DEFINE x == Pick(s)
             r == s \ {x}
  <2>1. x \in S /\ r \in SUBSET S
    BY <1>4, PickIn
  <2>2. /\ it[s] = f[x] + it[r] /\ f[x] \in Int /\ it[r] \in Int
        /\ jt[s] = g[x] + jt[r] /\ g[x] \in Int /\ jt[r] \in Int
        /\ h[x] = f[x] + g[x]
    BY <1>1, <1>2, <1>4, <2>1 DEF Adds, Whole
  <2>3. fold[s] = it[s] + jt[s] /\ fold[r] = it[r] + jt[r]
    BY <2>1
  <2> HIDE DEF x, r, fold
  <2>4. fold[s] = h[x] + fold[r]
    BY <2>2, <2>3
  <2> QED BY <2>4 DEF x, r
<1>5. Whole(h, S)
  BY DEF Whole
<1>6. fold[S] = m + n
  BY <1>1, <1>2
<1> HIDE DEF fold
<1>7. Sums(h, S, fold[S])
  BY <1>3, <1>4, <1>5, FoldSums
<1> QED BY <1>6, <1>7

LEMMA SumOnes ==
  ASSUME NEW f, NEW S, IsFiniteSet(S), \A x \in S : f[x] = 1
  PROVE  Sums(f, S, Cardinality(S))
<1> DEFINE fold == [s \in SUBSET S |-> Cardinality(s)]
<1>1. fold[{}] = 0
  BY FS_EmptySet
<1>2. ASSUME NEW s \in SUBSET S, s # {}
      PROVE  fold[s] = f[Pick(s)] + fold[s \ {Pick(s)}]
  <2> DEFINE x == Pick(s)
             r == s \ {x}
  <2>1. x \in s /\ x \in S
    BY <1>2, PickIn
  <2>2. /\ r \in SUBSET S /\ Cardinality(s) \in Nat /\ Cardinality(r) \in Nat
        /\ Cardinality(r) = Cardinality(s) - 1
    <3> HIDE DEF x
    <3> QED BY <2>1, Smaller
  <2>3. fold[s] = Cardinality(s) /\ fold[r] = Cardinality(r) /\ f[x] = 1
    BY <2>1, <2>2
  <2> HIDE DEF x, r, fold
  <2>4. fold[s] = f[x] + fold[r]
    BY <2>2, <2>3
  <2> QED BY <2>4 DEF x, r
<1>3. Whole(f, S)
  BY DEF Whole
<1>4. fold[S] = Cardinality(S)
  OBVIOUS
<1> HIDE DEF fold
<1>5. Sums(f, S, fold[S])
  BY <1>1, <1>2, <1>3, FoldSums
<1> QED BY <1>4, <1>5

(***************************************************************************)
(* The sums of the model.                                                    *)
(***************************************************************************)
AllRows == [type : {"EARN", "REVERSAL", "REDEEM", "EXPIRY"}, of : Subjects, coins : Nat]
CoinsOf == [r \in AllRows |-> r.coins]

LEMMA MovedSums ==
  ASSUME NEW S, S \subseteq AllRows, IsFiniteSet(S)
  PROVE  Sums(CoinsOf, S, Moved(S)) /\ Whole(CoinsOf, S)
<1> DEFINE Def(it) == [s \in SUBSET S |->
             IF s = {} THEN 0
             ELSE LET x == CHOOSE x \in s : TRUE IN x.coins + it[s \ {x}]]
           fold == CHOOSE it : it = Def(it)
<1>1. \A x \in S : CoinsOf[x] \in Int /\ CoinsOf[x] = x.coins
  BY DEF CoinsOf, AllRows
<1>2. PICK it : Adds(CoinsOf, it, S)
  BY <1>1, AddsExists
<1>3. it = Def(it)
  <2>1. ASSUME NEW s \in SUBSET S PROVE it[s] = Def(it)[s]
    BY <1>1, <1>2, PickIn DEF Adds, Pick
  <2>2. it \in [SUBSET S -> Int]
    BY <1>2 DEF Adds
  <2> QED BY <2>1, <2>2
<1>4. fold = Def(fold)
  BY <1>3
<1>5. Moved(S) = fold[S]
  BY DEF Moved, MapThenSumSet, MapThenFoldSet
<1> HIDE DEF fold
<1>6. fold[{}] = 0
  BY <1>4
<1>7. ASSUME NEW s \in SUBSET S, s # {}
      PROVE  fold[s] = CoinsOf[Pick(s)] + fold[s \ {Pick(s)}]
  <2>1. Pick(s) \in S /\ CoinsOf[Pick(s)] = Pick(s).coins
    BY <1>1, <1>7, PickIn
  <2>2. fold[s] = Pick(s).coins + fold[s \ {Pick(s)}]
    BY <1>4, <1>7 DEF Pick
  <2> QED BY <2>1, <2>2
<1>8. Whole(CoinsOf, S)
  BY <1>1 DEF Whole
<1> QED BY <1>5, <1>6, <1>7, <1>8, FoldSums

LEMMA SumIs ==
  ASSUME NEW f, NEW S, Whole(f, S)
  PROVE  Sums(f, S, Sum(f, S)) /\ Sum(f, S) \in Int
<1> DEFINE Def(it) == [s \in SUBSET S |->
             IF s = {} THEN 0
             ELSE LET x == CHOOSE x \in s : TRUE IN f[x] + it[s \ {x}]]
           fold == CHOOSE it : it = Def(it)
<1>1. PICK it : Adds(f, it, S)
  BY AddsExists DEF Whole
<1>2. it = Def(it)
  <2>1. ASSUME NEW s \in SUBSET S PROVE it[s] = Def(it)[s]
    BY <1>1, PickIn DEF Adds, Pick
  <2>2. it \in [SUBSET S -> Int]
    BY <1>1 DEF Adds
  <2> QED BY <2>1, <2>2
<1>3. fold = Def(fold)
  BY <1>2
<1>4. Sum(f, S) = fold[S]
  BY DEF Sum, MapThenSumSet, MapThenFoldSet
<1> HIDE DEF fold
<1>5. fold[{}] = 0
  BY <1>3
<1>6. ASSUME NEW s \in SUBSET S, s # {}
      PROVE  fold[s] = f[Pick(s)] + fold[s \ {Pick(s)}]
  BY <1>3, <1>6 DEF Pick
<1>7. Sums(f, S, Sum(f, S))
  BY <1>4, <1>5, <1>6, FoldSums
<1> QED BY <1>7, SumInt

LEMMA SumAlike ==
  ASSUME NEW f, NEW g, NEW S, Whole(f, S), \A x \in S : g[x] = f[x]
  PROVE  Sum(g, S) = Sum(f, S)
<1>1. Whole(g, S)
  BY DEF Whole
<1> QED BY <1>1, SumIs, SumSame

LEMMA SumUpTo ==
  ASSUME NEW f, NEW g, NEW S, Whole(f, S), Whole(g, S), \A x \in S : f[x] <= g[x]
  PROVE  Sum(f, S) <= Sum(g, S)
BY SumIs, SumCompare

LEMMA SumPositive ==
  ASSUME NEW f, NEW S, IsFiniteSet(S), \A x \in S : f[x] \in Nat
  PROVE  Sum(f, S) \in Nat
<1>1. Whole(f, S)
  BY DEF Whole
<1> QED BY <1>1, SumIs, SumNat

LEMMA SumTimes ==
  ASSUME NEW f, NEW g, NEW S, NEW k \in Int, Whole(f, S), \A x \in S : g[x] = k * f[x]
  PROVE  Whole(g, S) /\ Sum(g, S) = k * Sum(f, S)
<1>1. Whole(g, S)
  BY DEF Whole
<1>2. Sums(g, S, k * Sum(f, S))
  BY SumIs, SumScale
<1> QED BY <1>1, <1>2, SumIs, SumSame

LEMMA SumOfTwo ==
  ASSUME NEW f, NEW g, NEW h, NEW S, Whole(f, S), Whole(g, S),
         \A x \in S : h[x] = f[x] + g[x]
  PROVE  Whole(h, S) /\ Sum(h, S) = Sum(f, S) + Sum(g, S)
<1>1. Whole(h, S)
  BY DEF Whole
<1>2. Sums(f, S, Sum(f, S)) /\ Sums(g, S, Sum(g, S)) /\ Sums(h, S, Sum(h, S))
  BY <1>1, SumIs
<1>3. Sums(h, S, Sum(f, S) + Sum(g, S))
  BY <1>2, SumPlus
<1> QED BY <1>1, <1>2, <1>3, SumSame

LEMMA SumOfEqual ==
  ASSUME NEW f, NEW S, IsFiniteSet(S), NEW k \in Int, \A x \in S : f[x] = k
  PROVE  Whole(f, S) /\ Sum(f, S) = k * Cardinality(S)
<1> DEFINE one == [x \in S |-> 1]
<1>1. \A x \in S : one[x] = 1 /\ f[x] = k * one[x]
  OBVIOUS
<1> HIDE DEF one
<1>2. Whole(one, S) /\ Sums(one, S, Cardinality(S))
  BY <1>1, SumOnes DEF Whole
<1>3. Sum(one, S) = Cardinality(S)
  BY <1>2, SumIs, SumSame
<1> QED BY <1>1, <1>2, <1>3, SumTimes

(***************************************************************************)
(* Sellers, and the last of them.                                            *)
(***************************************************************************)
LEMMA Halves ==
  /\ IsFiniteSet(Sellers) /\ NumSellers \in Nat \ {0} /\ NumSellers \in Sellers
  /\ IsFiniteSet(Others) /\ NumSellers \notin Others
  /\ Others \cup {NumSellers} = Sellers /\ Others \subseteq Sellers
  /\ Cardinality(Others) = NumSellers - 1
<1>1. NumSellers \in Nat \ {0} /\ NumSellers \in Sellers
  BY LoyaltyAssumption DEF Sellers
<1>2. IsFiniteSet(Sellers) /\ Cardinality(Sellers) = NumSellers
  BY FiniteOrders
<1>3. IsFiniteSet(Others) /\ Cardinality(Others) = NumSellers - 1
  BY <1>1, <1>2, FS_RemoveElement DEF Others
<1> QED BY <1>1, <1>2, <1>3 DEF Others

LEMMA OfSellers ==
  ASSUME NEW f \in [Sellers -> Int]
  PROVE  /\ Whole(f, Sellers) /\ Whole(f, Others)
         /\ Sum(f, Sellers) = Sum(f, Others) + f[NumSellers]
         /\ Sum(f, Others) \in Int /\ f[NumSellers] \in Int
<1>1. Whole(f, Sellers) /\ Whole(f, Others)
  BY Halves DEF Whole
<1>2. Whole(f, Others \cup {NumSellers}) /\ Sums(f, Others \cup {NumSellers}, Sum(f, Sellers))
  BY <1>1, Halves, SumIs
<1>3. Sum(f, Sellers) = Sum(f, Others) + f[NumSellers]
  BY <1>1, <1>2, Halves, SumIs, SumOneMore
<1> QED BY <1>1, <1>3, SumIs, Halves

\* The last share is changed.
LEMMA LastChanged ==
  ASSUME NEW f \in [Sellers -> Int], NEW last \in Int,
         NEW g, g = [f EXCEPT ![NumSellers] = last]
  PROVE  /\ g \in [Sellers -> Int] /\ g[NumSellers] = last
         /\ \A i \in Others : g[i] = f[i]
         /\ Sum(g, Sellers) = Sum(f, Others) + last
<1>1. /\ g \in [Sellers -> Int] /\ g[NumSellers] = last
      /\ \A i \in Others : g[i] = f[i]
  BY Halves
<1>2. Sum(g, Others) = Sum(f, Others)
  <2>1. Whole(f, Others)
    BY OfSellers
  <2> QED BY <1>1, <2>1, SumAlike
<1>3. Sum(g, Sellers) = Sum(g, Others) + g[NumSellers]
  BY <1>1, OfSellers
<1> QED BY <1>1, <1>2, <1>3

LEMMA TotalIs ==
  /\ Total \in Nat /\ Sum(GrandTotal, Others) \in Nat
  /\ Total = Sum(GrandTotal, Others) + GrandTotal[NumSellers]
  /\ \A i \in Sellers : GrandTotal[i] \in Nat
<1>1. GrandTotal \in [Sellers -> Nat] /\ GrandTotal \in [Sellers -> Int]
  BY LoyaltyAssumption
<1>2. Total \in Nat /\ Sum(GrandTotal, Others) \in Nat
  BY <1>1, Halves, SumPositive DEF Total
<1> QED BY <1>1, <1>2, OfSellers DEF Total

(***************************************************************************)
(* Numbers.                                                                  *)
(***************************************************************************)
LEMMA Divided ==
  ASSUME NEW x \in Nat, NEW t \in Nat \ {0}
  PROVE  x \div t \in Nat /\ t * (x \div t) <= x
OBVIOUS

LEMMA Product == \A a, b \in Nat : a * b \in Nat
OBVIOUS

LEMMA Cancels ==
  ASSUME NEW t \in Nat \ {0}, NEW b \in Nat, NEW c \in Nat, NEW a \in Nat,
         a <= t, t * b <= c * a
  PROVE  b <= c
<1>1. c * a <= c * t
  OBVIOUS
<1>2. ASSUME b > c PROVE FALSE
  <2>1. PICK d \in Nat : b = c + 1 + d
    <3>1. b - c - 1 \in Nat /\ b = c + 1 + (b - c - 1)
      BY <1>2
    <3> QED BY <3>1
  <2>2. t * b = t * c + t + t * d /\ t * d \in Nat /\ t * c = c * t /\ t * c \in Nat
    BY <2>1
  <2> QED BY <1>1, <2>2
<1> QED BY <1>2

(***************************************************************************)
(* allocateIntegerByWeight.                                                  *)
(***************************************************************************)
\* What is given to all but the last is not more than there is to give.
LEMMA ByWeightIs ==
  ASSUME NEW amount \in Nat, NEW w \in [Sellers -> Nat]
  PROVE  /\ ByWeight(amount, w) \in [Sellers -> Nat]
         /\ Sum(ByWeight(amount, w), Others) \in Nat
         /\ Sum(ByWeight(amount, w), Others) <= amount
<1> DEFINE all == Sum(w, Sellers)
           f == ByWeight(amount, w)
           n == Sum(f, Others)
<1>1. /\ all \in Nat /\ all = Sum(w, Others) + w[NumSellers]
      /\ Sum(w, Others) \in Nat /\ w[NumSellers] \in Nat /\ Whole(w, Others)
  <2>1. w \in [Sellers -> Int] /\ IsFiniteSet(Sellers) /\ IsFiniteSet(Others)
        /\ \A i \in Sellers : w[i] \in Nat
    BY Halves
  <2> QED BY <2>1, Halves, OfSellers, SumPositive
<1>2. f = [i \in Sellers |-> IF all = 0 THEN amount \div NumSellers ELSE (w[i] * amount) \div all]
  BY DEF ByWeight
<1> HIDE DEF all, f
<1>3. CASE all = 0
  <2> DEFINE e == amount \div NumSellers
  <2>1. e \in Nat /\ NumSellers * e <= amount
    BY Halves, Divided
  <2>2. \A i \in Sellers : f[i] = e
    BY <1>2, <1>3
  <2> HIDE DEF e
  <2>4. f \in [Sellers -> Nat]
    BY <1>2, <2>1, <2>2
  <2>5. Sum(f, Others) = e * Cardinality(Others)
    <3>1. e \in Int /\ IsFiniteSet(Others) /\ \A i \in Others : f[i] = e
      BY <2>1, <2>2, Halves
    <3> QED BY <3>1, SumOfEqual
  <2>6. n = e * (NumSellers - 1)
    BY <2>5, Halves
  <2>7. n \in Nat /\ n <= amount
    <3>1. NumSellers - 1 \in Nat /\ e * (NumSellers - 1) = NumSellers * e - e
      BY <2>1, Halves
    <3>2. e * (NumSellers - 1) \in Nat
      BY <2>1, <3>1, Product
    <3> HIDE DEF n
    <3> QED BY <2>1, <2>6, <3>1, <3>2, Halves
  <2> QED BY <2>4, <2>7 DEF f
<1>4. CASE all # 0
  <2> DEFINE g == [i \in Sellers |-> all * f[i]]
             h == [i \in Sellers |-> amount * w[i]]
  <2>1. ASSUME NEW i \in Sellers PROVE f[i] \in Nat /\ all * f[i] <= amount * w[i]
    <3>1. w[i] * amount \in Nat /\ w[i] * amount = amount * w[i]
      BY Product
    <3>2. f[i] = (w[i] * amount) \div all
      BY <1>2, <1>4
    <3> QED BY <1>1, <1>4, <3>1, <3>2, Divided
  <2>2. f \in [Sellers -> Nat]
    BY <1>2, <2>1
  <2>3. \A i \in Sellers : g[i] = all * f[i] /\ h[i] = amount * w[i] /\ g[i] <= h[i]
    BY <2>1
  <2> HIDE DEF g, h
  <2>4. n \in Nat /\ Whole(f, Others)
    <3>1. IsFiniteSet(Others) /\ \A i \in Others : f[i] \in Nat
      BY <2>2, Halves
    <3> QED BY <3>1, SumPositive DEF Whole
  <2>5. Whole(g, Others) /\ Sum(g, Others) = all * n
    <3>1. \A i \in Others : g[i] = all * f[i]
      BY <2>3, Halves
    <3>2. all \in Int
      BY <1>1
    <3> QED BY <2>4, <3>1, <3>2, SumTimes
  <2>6. Whole(h, Others) /\ Sum(h, Others) = amount * Sum(w, Others)
    <3>1. \A i \in Others : h[i] = amount * w[i]
      BY <2>3, Halves
    <3>2. amount \in Int
      OBVIOUS
    <3> QED BY <1>1, <3>1, <3>2, SumTimes
  <2>7. all * n <= amount * Sum(w, Others)
    <3>1. \A i \in Others : g[i] <= h[i]
      BY <2>3, Halves
    <3>2. Sum(g, Others) <= Sum(h, Others)
      BY <2>5, <2>6, <3>1, SumUpTo
    <3> QED BY <2>5, <2>6, <3>2
  <2>8. n <= amount
    <3> DEFINE a == Sum(w, Others)
    <3>1. a \in Nat /\ a <= all /\ all * n <= amount * a /\ all \in Nat \ {0}
      BY <1>1, <1>4, <2>7
    <3> HIDE DEF a, n
    <3> QED BY <2>4, <3>1, Cancels
  <2> QED BY <2>2, <2>4, <2>8 DEF f
<1> QED BY <1>3, <1>4

\* allocateIntegerByWeight gives the orders of a checkout all that there is to give,
\* and none of them less than nothing, for any number of sellers, any weights and
\* also if nothing weighs anything: the last share can always be the rest.
THEOREM GrantsAddUp ==
  ASSUME NEW amount \in Nat, NEW w \in [Sellers -> Nat]
  PROVE  /\ Allocated(amount, w) \in [Sellers -> Nat]
         /\ Sum(Allocated(amount, w), Sellers) = amount
<1> DEFINE f == ByWeight(amount, w)
           n == Sum(f, Others)
           g == Allocated(amount, w)
<1>1. f \in [Sellers -> Nat] /\ f \in [Sellers -> Int] /\ n \in Nat /\ n <= amount
  BY ByWeightIs
<1>2. g = [f EXCEPT ![NumSellers] = amount - n]
  BY DEF Allocated
<1> HIDE DEF f, n, g
<1>3. amount - n \in Nat /\ amount - n \in Int
  BY <1>1
<1> DEFINE last == amount - n
<1>4. /\ g \in [Sellers -> Int] /\ g[NumSellers] = last
      /\ \A i \in Others : g[i] = f[i]
      /\ Sum(g, Sellers) = Sum(f, Others) + last
  <2>1. g = [f EXCEPT ![NumSellers] = last] /\ last \in Int /\ f \in [Sellers -> Int]
    BY <1>1, <1>2, <1>3
  <2> HIDE DEF last
  <2>2. g \in [Sellers -> Int] /\ g[NumSellers] = last
    BY <2>1, LastChanged
  <2>3. \A i \in Others : g[i] = f[i]
    BY <2>1, LastChanged
  <2>4. Sum(g, Sellers) = Sum(f, Others) + last
    BY <2>1, LastChanged
  <2> QED BY <2>2, <2>3, <2>4
<1>5. g \in [Sellers -> Nat]
  BY <1>1, <1>3, <1>4, Halves
<1>6. Sum(g, Sellers) = amount
  BY <1>1, <1>4 DEF n
<1> QED BY <1>5, <1>6 DEF g

(***************************************************************************)
(* applyCoinsRedemptionToSellerBreakdowns.                                   *)
(***************************************************************************)
LEMMA RoundedIs ==
  ASSUME NEW amount \in Nat, Total # 0
  PROVE  /\ Rounded(amount) \in [Sellers -> Nat]
         /\ \A i \in Sellers :
              (2 * Total) * Rounded(amount)[i] <= (2 * amount) * GrandTotal[i] + Total
<1> DEFINE f == Rounded(amount)
           t == Total
<1>1. t \in Nat \ {0}
  BY TotalIs
<1>2. f = [i \in Sellers |-> (2 * GrandTotal[i] * amount + t) \div (2 * t)]
  BY DEF Rounded
<1> HIDE DEF f, t
<1>3. ASSUME NEW i \in Sellers
      PROVE  f[i] \in Nat /\ (2 * t) * f[i] <= (2 * amount) * GrandTotal[i] + t
  <2> DEFINE g == GrandTotal[i]
  <2>1. g \in Nat
    BY TotalIs
  <2>2. f[i] = (2 * g * amount + t) \div (2 * t)
    BY <1>2
  <2> HIDE DEF g
  <2>3. g * amount \in Nat /\ 2 * g * amount = 2 * (g * amount)
        /\ (2 * amount) * g = 2 * (g * amount)
    BY <2>1, Product
  <2>4. 2 * g * amount + t \in Nat /\ 2 * t \in Nat \ {0}
    BY <1>1, <2>3
  <2>5. f[i] \in Nat /\ (2 * t) * f[i] <= 2 * g * amount + t
    BY <2>2, <2>4, Divided
  <2> QED BY <2>3, <2>5 DEF g
<1>4. f \in [Sellers -> Nat]
  BY <1>2, <1>3
<1> QED BY <1>3, <1>4 DEF f, t

\* Rounding up gives all but the last at most half more each than there is.
LEMMA RoundedSum ==
  ASSUME NEW amount \in Nat, Total # 0
  PROVE  /\ Sum(Rounded(amount), Others) \in Nat
         /\ 2 * Sum(Rounded(amount), Others) <= 2 * amount + (NumSellers - 1)
<1> DEFINE f == Rounded(amount)
           t == Total
           n == Sum(f, Others)
           a == Sum(GrandTotal, Others)
           two == 2 * t
           c == 2 * amount
           g == [i \in Sellers |-> two * f[i]]
           h == [i \in Sellers |-> c * GrandTotal[i]]
           e == [i \in Sellers |-> t]
           u == [i \in Sellers |-> c * GrandTotal[i] + t]
<1>1. /\ t \in Nat \ {0} /\ a \in Nat /\ a <= t /\ two \in Nat \ {0} /\ c \in Nat
      /\ two \in Int /\ c \in Int /\ t \in Int
  <2>1. t \in Nat \ {0} /\ a \in Nat /\ t = a + GrandTotal[NumSellers]
    BY TotalIs
  <2>2. GrandTotal[NumSellers] \in Nat
    BY TotalIs, Halves
  <2> HIDE DEF t, a
  <2> QED BY <2>1, <2>2
<1>2. f \in [Sellers -> Nat] /\ \A i \in Sellers : two * f[i] <= c * GrandTotal[i] + t
  BY RoundedIs
<1>3. \A i \in Others : /\ g[i] = two * f[i] /\ h[i] = c * GrandTotal[i] /\ e[i] = t
                        /\ u[i] = h[i] + e[i] /\ g[i] <= u[i]
                        /\ f[i] \in Nat /\ GrandTotal[i] \in Int
  BY <1>2, Halves, TotalIs
<1> HIDE DEF f, t, two, c, g, h, e, u
<1>4. n \in Nat /\ Whole(f, Others) /\ Whole(GrandTotal, Others)
  <2>1. IsFiniteSet(Others) /\ \A i \in Others : f[i] \in Nat /\ GrandTotal[i] \in Int
    BY <1>3, Halves
  <2>2. \A i \in Others : f[i] \in Nat
    BY <2>1
  <2> QED BY <2>1, <2>2, SumPositive DEF Whole
<1>5. Whole(g, Others) /\ Sum(g, Others) = two * n
  <2>1. two \in Int /\ \A i \in Others : g[i] = two * f[i]
    BY <1>1, <1>3
  <2> QED BY <1>4, <2>1, SumTimes
<1>6. Whole(h, Others) /\ Sum(h, Others) = c * a
  <2>1. c \in Int /\ \A i \in Others : h[i] = c * GrandTotal[i]
    BY <1>1, <1>3
  <2> QED BY <1>4, <2>1, SumTimes
<1>7. Whole(e, Others) /\ Sum(e, Others) = t * (NumSellers - 1)
  <2>1. \A i \in Others : e[i] = t
    BY <1>3
  <2>2. Whole(e, Others) /\ Sum(e, Others) = t * Cardinality(Others)
    BY <1>1, <2>1, Halves, SumOfEqual
  <2> QED BY <2>2, Halves
<1>8. Whole(u, Others) /\ Sum(u, Others) = c * a + t * (NumSellers - 1)
  <2>1. \A i \in Others : u[i] = h[i] + e[i]
    BY <1>3
  <2> QED BY <1>6, <1>7, <2>1, SumOfTwo
<1>9. two * n <= c * a + t * (NumSellers - 1)
  <2>1. \A i \in Others : g[i] <= u[i]
    BY <1>3
  <2> QED BY <1>5, <1>8, <2>1, SumUpTo
<1> DEFINE m == c + (NumSellers - 1)
<1>10. m \in Nat /\ 2 * n \in Nat /\ t * (2 * n) = two * n
  BY <1>1, <1>4, Halves DEF two
<1>11. two * n <= t * m
  <2>1. c * a <= c * t
    BY <1>1
  <2>2. c * t + t * (NumSellers - 1) = t * m
    BY <1>1, Halves
  <2>3. c * a \in Int /\ c * t \in Int /\ t * (NumSellers - 1) \in Int /\ t * m \in Int
        /\ two * n \in Int
    BY <1>1, <1>4, <1>10, Halves
  <2> HIDE DEF n, a, m
  <2> QED BY <1>9, <2>1, <2>2, <2>3
<1>12. 2 * n <= m
  <2> DEFINE b == 2 * n
  <2>1. b \in Nat /\ t * b <= m * t /\ t <= t
    BY <1>1, <1>10, <1>11
  <2> HIDE DEF b, m
  <2>2. b <= m
    BY <1>1, <1>10, <2>1, Cancels
  <2> QED BY <2>2 DEF b
<1> QED BY <1>4, <1>12 DEF f, c

\* The last one gets the rest, if anything is left.
LEMMA PartedIs ==
  ASSUME NEW amount \in Nat, Total # 0
  PROVE  /\ Parted(amount) \in [Sellers -> Nat]
         /\ amount <= Sum(Parted(amount), Sellers)
         /\ 2 * (Sum(Parted(amount), Sellers) - amount) <= NumSellers - 1
<1> DEFINE f == Rounded(amount)
           n == Sum(f, Others)
           last == IF amount - n > 0 THEN amount - n ELSE 0
           g == Parted(amount)
<1>1. /\ f \in [Sellers -> Nat] /\ f \in [Sellers -> Int] /\ n \in Nat
      /\ 2 * n <= 2 * amount + (NumSellers - 1)
  <2>1. f \in [Sellers -> Nat]
    BY RoundedIs
  <2>2. n \in Nat /\ 2 * n <= 2 * amount + (NumSellers - 1)
    BY RoundedSum
  <2> HIDE DEF f
  <2> QED BY <2>1, <2>2
<1>2. g = [f EXCEPT ![NumSellers] = last]
  BY DEF Parted
<1>3. last \in Nat /\ last \in Int
  BY <1>1
<1> HIDE DEF f, g, last
<1>4. g \in [Sellers -> Int] /\ g[NumSellers] = last
  BY <1>1, <1>2, <1>3, LastChanged
<1>5. \A i \in Others : g[i] = f[i]
  BY <1>1, <1>2, <1>3, LastChanged
<1>6. Sum(g, Sellers) = n + last
  BY <1>1, <1>2, <1>3, LastChanged
<1>7. g \in [Sellers -> Nat]
  BY <1>1, <1>3, <1>4, <1>5, Halves
<1> DEFINE s == Sum(g, Sellers)
<1>8. amount <= s /\ 2 * (s - amount) <= NumSellers - 1
  <2> HIDE DEF n
  <2> QED BY <1>1, <1>6, Halves DEF last
<1> QED BY <1>7, <1>8 DEF g

\* No coins are worth nothing, and who has nothing to pay spends none.
LEMMA PaiseIs ==
  ASSUME NEW coins \in Nat
  PROVE  /\ Paise(coins) \in Nat
         /\ Paise(coins) # 0 /\ coins <= CoinsPerPaisa * Total => Total # 0
<1> DEFINE k == CoinsPerPaisa
           q == Paise(coins)
<1>1. k \in Nat \ {0} /\ 2 * k \in Nat \ {0} /\ 2 * coins + k \in Nat
  BY LoyaltyAssumption
<1>2. q = (2 * coins + k) \div (2 * k)
  BY DEF Paise
<1> HIDE DEF k, q
<1>3. q \in Nat /\ (2 * k) * q <= 2 * coins + k
  BY <1>1, <1>2, Divided
<1>4. ASSUME q # 0, coins = 0 PROVE FALSE
  <2>1. PICK d \in Nat : q = 1 + d
    <3>1. q - 1 \in Nat /\ q = 1 + (q - 1)
      BY <1>3, <1>4
    <3> QED BY <3>1
  <2>2. (2 * k) * q = 2 * k + 2 * (k * d) /\ k * d \in Nat
    BY <1>1, <2>1
  <2> QED BY <1>1, <1>3, <1>4, <2>2
<1>5. ASSUME coins <= k * Total, Total = 0 PROVE coins = 0
  BY <1>1, <1>5
<1> QED BY <1>3, <1>4, <1>5 DEF k, q

LEMMA SharesTyped ==
  ASSUME NEW coins \in Nat, coins <= CoinsPerPaisa * Total
  PROVE  /\ RedeemedShares(coins) \in [Sellers -> Nat]
         /\ ToPay(coins) \in [Sellers -> Nat]
<1> DEFINE none == [i \in Sellers |-> 0]
           m == Paise(coins)
<1>1. m \in Nat /\ (m # 0 => Total # 0)
  BY PaiseIs
<1>2. none \in [Sellers -> Nat]
  OBVIOUS
<1>3. m # 0 => Parted(coins) \in [Sellers -> Nat] /\ Parted(m) \in [Sellers -> Nat]
  <2> HIDE DEF m
  <2> QED BY <1>1, PartedIs
<1>4. RedeemedShares(coins) = (IF m = 0 THEN none ELSE Parted(coins))
      /\ Off(coins) = (IF m = 0 THEN none ELSE Parted(m))
  BY DEF RedeemedShares, Off
<1> HIDE DEF none, m
<1>5. RedeemedShares(coins) \in [Sellers -> Nat] /\ Off(coins) \in [Sellers -> Nat]
  BY <1>2, <1>3, <1>4
<1> DEFINE f == Off(coins)
<1>6. \A i \in Sellers : (IF f[i] < GrandTotal[i] THEN GrandTotal[i] - f[i] ELSE 0) \in Nat
  <2> TAKE i \in Sellers
  <2>1. f[i] \in Nat /\ GrandTotal[i] \in Nat
    BY <1>5, TotalIs
  <2> HIDE DEF f
  <2> QED BY <2>1
<1>7. ToPay(coins) = [i \in Sellers |-> IF f[i] < GrandTotal[i] THEN GrandTotal[i] - f[i] ELSE 0]
  BY DEF ToPay
<1> HIDE DEF f
<1>8. ToPay(coins) \in [Sellers -> Nat]
  BY <1>6, <1>7
<1> QED BY <1>5, <1>8

\* What the orders of a checkout record (applyCoinsRedemptionToSellerBreakdowns) is
\* nothing, and then the coins are worth no paisa, or not less than what is spent,
\* and more at most by half a coin for each seller but the last: with two sellers
\* it is just what is spent. This is so for any number of sellers, any totals and
\* any worth of a coin.
THEOREM SharesNear ==
  ASSUME NEW coins \in Nat, coins <= CoinsPerPaisa * Total
  PROVE  \/ Paise(coins) = 0 /\ Sum(RedeemedShares(coins), Sellers) = 0
         \/ /\ coins <= Sum(RedeemedShares(coins), Sellers)
            /\ 2 * (Sum(RedeemedShares(coins), Sellers) - coins) <= NumSellers - 1
<1>1. CASE Paise(coins) = 0
  <2> DEFINE f == RedeemedShares(coins)
  <2>1. f = [i \in Sellers |-> 0]
    BY <1>1 DEF RedeemedShares
  <2>2. \A i \in Sellers : f[i] = 0
    BY <2>1
  <2> HIDE DEF f
  <2>3. Sum(f, Sellers) = 0 * Cardinality(Sellers)
    <3>1. IsFiniteSet(Sellers) /\ 0 \in Int
      BY Halves
    <3> QED BY <2>2, <3>1, SumOfEqual
  <2>4. Cardinality(Sellers) \in Nat
    BY Halves, FS_CardinalityType
  <2>5. Sum(f, Sellers) = 0
    BY <2>3, <2>4
  <2> QED BY <1>1, <2>5 DEF f
<1>2. CASE Paise(coins) # 0
  <2>1. Total # 0
    BY <1>2, PaiseIs
  <2>2. RedeemedShares(coins) = Parted(coins)
    BY <1>2 DEF RedeemedShares
  <2> QED BY <2>1, <2>2, PartedIs
<1> QED BY <1>1, <1>2

RowsIn(S) == S \subseteq AllRows /\ IsFiniteSet(S)
Net(S) == StartCoins + Moved(Credits(S)) - Moved(Debits(S))
About(S, type, subject) == {r \in S : r.type = type /\ r.of = subject}

LEMMA MovedAdds ==
  ASSUME NEW S, RowsIn(S), NEW r \in AllRows, r \notin S
  PROVE  /\ Moved(S) \in Int /\ Moved(S \cup {r}) \in Int
         /\ Moved(S \cup {r}) = Moved(S) + r.coins
<1> DEFINE T == S \cup {r}
<1>1. T \subseteq AllRows /\ IsFiniteSet(T)
  BY FS_AddElement DEF RowsIn
<1>2. Sums(CoinsOf, S, Moved(S))
  BY MovedSums DEF RowsIn
<1>3. Sums(CoinsOf, T, Moved(T)) /\ Whole(CoinsOf, T)
  <2> HIDE DEF T
  <2> QED BY <1>1, MovedSums
<1>4. Moved(T) = Moved(S) + CoinsOf[r]
  BY <1>2, <1>3, SumOneMore
<1>5. CoinsOf[r] = r.coins
  BY DEF CoinsOf
<1>6. Moved(S) \in Int /\ Moved(T) \in Int
  <2> HIDE DEF T
  <2> QED BY <1>2, <1>3, SumInt
<1> QED BY <1>4, <1>5, <1>6

LEMMA MovedInt == ASSUME NEW S, RowsIn(S) PROVE Moved(S) \in Int
BY MovedSums, SumInt DEF RowsIn

LEMMA MovedNone == Moved({}) = 0
<1>1. {} \subseteq AllRows /\ IsFiniteSet({})
  BY FS_EmptySet
<1> QED BY <1>1, MovedSums, SumEmpty

LEMMA PartsIn ==
  ASSUME NEW S, RowsIn(S), NEW T, T \subseteq S
  PROVE  RowsIn(T)
BY FS_Subset DEF RowsIn

\* A movement adds a row or none.
OneRow(S, M, r) == r \in AllRows /\ (M = {} \/ (M = {r} /\ r \notin S))
Sign(r) == IF r.type \in {"EARN", "REVERSAL"} THEN r.coins ELSE 0 - r.coins

LEMMA RowsGrow ==
  ASSUME NEW S, NEW M, NEW r, RowsIn(S), OneRow(S, M, r)
  PROVE  RowsIn(S \cup M)
<1>1. CASE M = {}
  BY <1>1
<1>2. CASE M = {r}
  BY <1>2, FS_AddElement DEF RowsIn, OneRow
<1> QED BY <1>1, <1>2 DEF OneRow

LEMMA NetGrows ==
  ASSUME NEW S, NEW M, NEW r, RowsIn(S), OneRow(S, M, r)
  PROVE  /\ Net(S) \in Int
         /\ Net(S \cup M) = Net(S) + (IF M = {} THEN 0 ELSE Sign(r))
<1>1. RowsIn(Credits(S)) /\ RowsIn(Debits(S))
  BY PartsIn DEF Credits, Debits
<1>2. /\ Moved(Credits(S)) \in Int /\ Moved(Debits(S)) \in Int /\ StartCoins \in Int
  BY <1>1, MovedInt, LoyaltyAssumption
<1>3. Net(S) \in Int
  BY <1>2 DEF Net
<1>4. CASE M = {}
  <2>1. S \cup M = S
    BY <1>4
  <2> QED BY <2>1, <1>3, <1>4
<1>5. CASE M # {}
  <2>1. M = {r} /\ r \notin S /\ r \in AllRows /\ r.coins \in Int
    BY <1>5 DEF OneRow, AllRows
  <2>2. CASE r.type \in {"EARN", "REVERSAL"}
    <3>1. Credits(S \cup M) = Credits(S) \cup {r} /\ Debits(S \cup M) = Debits(S)
          /\ r \notin Credits(S)
      BY <2>1, <2>2 DEF Credits, Debits
    <3>2. Moved(Credits(S \cup M)) = Moved(Credits(S)) + r.coins
      BY <1>1, <2>1, <3>1, MovedAdds
    <3>3. Net(S \cup M) = Net(S) + r.coins
      BY <1>2, <2>1, <3>1, <3>2 DEF Net
    <3> QED BY <1>3, <1>5, <2>2, <3>3 DEF Sign
  <2>3. CASE r.type \notin {"EARN", "REVERSAL"}
    <3>0. r.type \in {"REDEEM", "EXPIRY"}
      BY <2>1, <2>3 DEF AllRows
    <3>1. Debits(S \cup M) = Debits(S) \cup {r} /\ Credits(S \cup M) = Credits(S)
          /\ r \notin Debits(S)
      BY <2>1, <2>3, <3>0 DEF Credits, Debits
    <3>2. Moved(Debits(S \cup M)) = Moved(Debits(S)) + r.coins
      BY <1>1, <2>1, <3>1, MovedAdds
    <3>3. Net(S \cup M) = Net(S) + (0 - r.coins)
      BY <1>2, <2>1, <3>1, <3>2 DEF Net
    <3> QED BY <1>3, <1>5, <2>3, <3>3 DEF Sign
  <2> QED BY <2>2, <2>3
<1> QED BY <1>3, <1>4, <1>5

LEMMA AboutStays ==
  ASSUME NEW S, NEW M, NEW r, NEW type, NEW subject, OneRow(S, M, r),
         r.type # type \/ r.of # subject \/ M = {}
  PROVE  About(S \cup M, type, subject) = About(S, type, subject)
BY DEF About, OneRow

LEMMA AboutOne ==
  ASSUME NEW S, NEW M, NEW r, OneRow(S, M, r), About(S, r.type, r.of) = {}
  PROVE  /\ About(S \cup M, r.type, r.of) = M
         /\ M = {} => Moved(About(S \cup M, r.type, r.of)) = 0
         /\ M # {} => Moved(About(S \cup M, r.type, r.of)) = r.coins
<1>1. About(S \cup M, r.type, r.of) = M
  BY DEF About, OneRow
<1>2. ASSUME M # {} PROVE Moved(M) = r.coins
  <2>1. M = {} \cup {r} /\ r \in AllRows /\ r \notin {}
    BY <1>2 DEF OneRow
  <2>2. RowsIn({})
    BY FS_EmptySet DEF RowsIn
  <2>3. Moved({} \cup {r}) = Moved({}) + r.coins
    BY <2>1, <2>2, MovedAdds
  <2>4. r.coins \in Nat
    BY <2>1 DEF AllRows
  <2> QED BY <2>1, <2>3, <2>4, MovedNone
<1> QED BY <1>1, <1>2, MovedNone

LEMMA MovementRow ==
  ASSUME NEW type \in {"EARN", "REVERSAL", "REDEEM", "EXPIRY"},
         NEW subject \in Subjects, NEW coins \in Nat, NEW r, r = Row(type, subject, coins)
  PROVE  /\ OneRow(rows, Movement(type, subject, coins), r)
         /\ r.type = type /\ r.of = subject /\ r.coins = coins
<1>1. r = [type |-> type, of |-> subject, coins |-> coins]
  BY DEF Row
<1>2. r \in AllRows /\ r.type = type /\ r.of = subject /\ r.coins = coins
  BY <1>1 DEF AllRows
<1>3. r \in rows => Recorded(type, subject)
  BY <1>2 DEF Recorded
<1>4. Movement(type, subject, coins) = {}
      \/ (Movement(type, subject, coins) = {r} /\ r \notin rows)
  <2>1. CASE coins = 0 \/ Recorded(type, subject)
    BY <2>1 DEF Movement, Recorded
  <2>2. CASE ~(coins = 0 \/ Recorded(type, subject))
    <3>1. Movement(type, subject, coins) = {r}
      BY <2>2 DEF Movement, Recorded
    <3> QED BY <3>1, <1>3, <2>2
  <2> QED BY <2>1, <2>2
<1> QED BY <1>2, <1>4 DEF OneRow

(***************************************************************************)
(* The invariant behind the accounts.                                        *)
(***************************************************************************)
\* A transaction knows the balance it is going to write over, and it is going to
\* write the wallet exactly if it has coins to move.
CallKept(c) ==
  /\ c \in Placements => call[c].pc \in {"idle", "placing", "counting", "done"}
  /\ c \in Settlers => call[c].pc \in {"idle", "settling"}
  /\ c \in Reversers => call[c].pc \in {"idle", "reversing"}
  /\ call[c].pc \in {"idle", "counting", "done"} => call[c].writes = {}
  /\ call[c].pc = "placing" =>
       /\ call[c].coins <= CoinsPerPaisa * Total
       /\ Wallet \in call[c].writes <=> call[c].coins > 0 \/ GrantNow(call[c].earned) > 0
       /\ Wallet \in call[c].writes => call[c].coins <= call[c].balance
  /\ call[c].pc = "settling" =>
       /\ call[c].at \in Orders /\ call[c].at \in call[c].writes
       /\ order[call[c].at].status # "none"
       /\ Wallet \in call[c].writes <=> Grants(call[c].at)
  /\ call[c].pc = "reversing" =>
       /\ call[c].at \in Orders /\ call[c].at \in call[c].writes
       /\ order[call[c].at].workflow = "CANCELLED"
       /\ Wallet \in call[c].writes <=> HandsBack(call[c].at) \/ TakesBack(call[c].at)
  /\ Wallet \in call[c].writes => call[c].balance = balance

\* Before its checkout an order is not there, nor a row about it.
Untouched(p) ==
  call[p].pc \in {"idle", "placing"} =>
    /\ \A i \in Sellers : order[<<p, i>>] = NoOrder
    /\ \A r \in rows : r.of[1] # p

CoinsInv ==
  /\ TypeOK /\ RowsIn(rows)
  /\ balance = Net(rows)
  /\ \A c \in Calls : CallKept(c)
  /\ \A p \in Placements : Untouched(p) /\ SpentRecorded(p) /\ GrantRecorded(p)
  /\ \A o \in Orders : HandedBack(o)

LEMMA TypesFollow == TypeOK => Types
<1> SUFFICES ASSUME TypeOK PROVE Types
  OBVIOUS
<1>1. Order = OrderOf(Nat)
  BY DEF Order, OrderOf
<1>2. \E Amounts : order \in [Orders -> OrderOf(Amounts)]
  BY <1>1 DEF TypeOK
<1>3. call = [c \in Calls |-> call[c]] /\ \A c \in Calls : call[c] \in Call
  BY DEF TypeOK
<1>4. \A c \in Calls : IsCall(call[c])
  BY <1>3 DEF Call, IsCall
<1> QED BY <1>2, <1>3, <1>4 DEF TypeOK, Types

LEMMA RowsOfIs ==
  /\ \A type, subject : RowsOf(type, subject) = About(rows, type, subject)
  /\ \A type, subject : RowsOf(type, subject)' = About(rows', type, subject)
BY DEF RowsOf, About

LEMMA OrderTyped ==
  ASSUME NEW o \in Orders, TypeOK
  PROVE  /\ order[o] \in Order
         /\ order[o].earned \in Nat /\ order[o].redeemed \in Nat
         /\ order[o].earnedCredited \in BOOLEAN /\ order[o].redeemedReversed \in BOOLEAN
         /\ order[o].deliveredSettlementApplied \in BOOLEAN
         /\ order[o].cancellationReversalApplied \in BOOLEAN
BY DEF TypeOK, Order

LEMMA CallTyped ==
  ASSUME NEW c \in Calls, TypeOK
  PROVE  /\ call[c] \in Call /\ call[c].balance \in Nat /\ call[c].used \in Nat
         /\ call[c].coupon \in BOOLEAN /\ call[c].coins \in Nat /\ call[c].earned \in Nat
         /\ call[c].writes \subseteq Orders \cup {Wallet, Coupon}
BY DEF TypeOK, Call

LEMMA OrderOfPlacement ==
  ASSUME NEW p \in Placements, NEW i \in Sellers
  PROVE  <<p, i>> \in Orders /\ <<p, i>> \in Subjects /\ <<p, 0>> \in Subjects
<1>1. i \in 0..NumSellers /\ 0 \in 0..NumSellers
  BY LoyaltyAssumption DEF Sellers
<1> QED BY <1>1 DEF Orders, Subjects

LEMMA OrderIsPair ==
  ASSUME NEW o \in Orders
  PROVE  /\ o[1] \in Placements /\ o[2] \in Sellers /\ o = <<o[1], o[2]>>
         /\ o \in Subjects /\ \A p : o # <<p, 0>>
<1>1. o[1] \in Placements /\ o[2] \in Sellers /\ o = <<o[1], o[2]>>
  BY DEF Orders
<1>2. o[2] # 0
  BY <1>1, LoyaltyAssumption DEF Sellers
<1>3. \A p : <<p, 0>>[2] = 0
  OBVIOUS
<1>4. \A p : o # <<p, 0>>
  BY <1>2, <1>3
<1>5. o \in Subjects
  BY <1>1, OrderOfPlacement
<1> QED BY <1>1, <1>4, <1>5

\* What a checkout and its orders record stays so if neither its rows nor these
\* fields change.
LEMMA RecordedKept ==
  ASSUME NEW p \in Placements, SpentRecorded(p), GrantRecorded(p), creditOn' = creditOn,
         RowsOf("REDEEM", <<p, 0>>)' = RowsOf("REDEEM", <<p, 0>>),
         RowsOf("EARN", <<p, 0>>)' = RowsOf("EARN", <<p, 0>>),
         \A i \in Sellers : /\ order'[<<p, i>>].redeemed = order[<<p, i>>].redeemed
                            /\ order'[<<p, i>>].earned = order[<<p, i>>].earned
  PROVE  SpentRecorded(p)' /\ GrantRecorded(p)'
<1>1. /\ [i \in Sellers |-> order'[<<p, i>>].redeemed] = [i \in Sellers |-> order[<<p, i>>].redeemed]
      /\ [i \in Sellers |-> order'[<<p, i>>].earned] = [i \in Sellers |-> order[<<p, i>>].earned]
  OBVIOUS
<1>2. SpentRecorded(p)'
  BY <1>1 DEF SpentRecorded
<1>3. GrantRecorded(p)'
  BY <1>1 DEF GrantRecorded
<1> QED BY <1>2, <1>3

LEMMA HandedBackKept ==
  ASSUME NEW o \in Orders, HandedBack(o), RowsOf("REVERSAL", o)' = RowsOf("REVERSAL", o),
         order'[o].redeemed = order[o].redeemed,
         order'[o].redeemedReversed = order[o].redeemedReversed,
         order'[o].cancellationReversalApplied = order[o].cancellationReversalApplied
  PROVE  HandedBack(o)'
BY DEF HandedBack, Row

LEMMA IdleInCall == Idle \in Call
BY DEF Idle, Resting, Call

LEMMA AccountsFollow == CoinsInv => CoinsAccounted
BY DEF CoinsInv, CoinsAccounted, Net

LEMMA CoinsInitially == Init => CoinsInv
<1> SUFFICES ASSUME Init PROVE CoinsInv
  OBVIOUS
<1>1. /\ engine \in BOOLEAN /\ creditOn \in {"PLACEMENT", "DELIVERY"}
      /\ used = 0 /\ balance = StartCoins /\ rows = {}
      /\ order = [o \in Orders |-> NoOrder] /\ call = [c \in Calls |-> Idle]
  BY DEF Init
<1>2. NoOrder \in Order
  BY DEF NoOrder, Order
<1>3. TypeOK
  BY <1>1, <1>2, IdleInCall, LoyaltyAssumption DEF TypeOK
<1>4. RowsIn(rows)
  BY <1>1, FS_EmptySet DEF RowsIn
<1>5. balance = Net(rows)
  <2>1. Credits(rows) = {} /\ Debits(rows) = {}
    BY <1>1 DEF Credits, Debits
  <2>2. Net(rows) = StartCoins + 0 - 0
    BY <2>1, MovedNone DEF Net
  <2> QED BY <1>1, <2>2, LoyaltyAssumption
<1>6. \A c \in Calls : CallKept(c)
  BY <1>1, IdleIsCall DEF CallKept
<1>7. ASSUME NEW p \in Placements PROVE Untouched(p) /\ SpentRecorded(p) /\ GrantRecorded(p)
  <2> DEFINE f == [i \in Sellers |-> order[<<p, i>>].redeemed]
             g == [i \in Sellers |-> order[<<p, i>>].earned]
  <2>1. \A i \in Sellers : order[<<p, i>>] = NoOrder
    BY <1>1, OrderOfPlacement
  <2>2. \A i \in Sellers : f[i] = 0 /\ g[i] = 0
    BY <2>1 DEF NoOrder
  <2>3. Moved(RowsOf("REDEEM", <<p, 0>>)) = 0 /\ Moved(RowsOf("EARN", <<p, 0>>)) = 0
    <3>1. RowsOf("REDEEM", <<p, 0>>) = {} /\ RowsOf("EARN", <<p, 0>>) = {}
      BY <1>1 DEF RowsOf
    <3> QED BY <3>1, MovedNone
  <2> HIDE DEF f, g
  <2>4. Sum(f, Sellers) = 0 /\ Sum(g, Sellers) = 0
    <3>1. IsFiniteSet(Sellers) /\ 0 \in Int /\ Cardinality(Sellers) \in Nat
      BY Halves, FS_CardinalityType
    <3>2. Sum(f, Sellers) = 0 * Cardinality(Sellers)
      BY <2>2, <3>1, SumOfEqual
    <3>3. Sum(g, Sellers) = 0 * Cardinality(Sellers)
      BY <2>2, <3>1, SumOfEqual
    <3> QED BY <3>1, <3>2, <3>3
  <2>5. SpentRecorded(p)
    <3>1. NumSellers - 1 >= 0
      BY Halves
    <3> QED BY <2>3, <2>4, <3>1 DEF SpentRecorded, f
  <2>6. GrantRecorded(p)
    BY <2>3, <2>4 DEF GrantRecorded, g
  <2> QED BY <1>1, <2>1, <2>5, <2>6 DEF Untouched
<1>8. ASSUME NEW o \in Orders PROVE HandedBack(o)
  BY <1>1 DEF HandedBack, RowsOf, NoOrder
<1> QED BY <1>3, <1>4, <1>5, <1>6, <1>7, <1>8 DEF CoinsInv

(***************************************************************************)
(* The other calls, again.                                                   *)
(***************************************************************************)
\* A call that a step refuses, or that has seen nothing of what it writes.
Refused(d) == call'[d] = Idle /\ call[d].writes # {}
Spared(d) ==
  /\ call'[d] = call[d]
  /\ Wallet \in call[d].writes => balance' = balance
  /\ call[d].pc \in {"settling", "reversing"} => order'[call[d].at] = order[call[d].at]

LEMMA SparedKept ==
  ASSUME CoinsInv, NEW d \in Calls, creditOn' = creditOn, Refused(d) \/ Spared(d)
  PROVE  call'[d] \in Call /\ CallKept(d)'
<1>1. CASE Refused(d)
  BY <1>1, IdleInCall, IdleIsCall DEF Refused, CallKept
<1>2. CASE Spared(d)
  <2>1. call'[d] = call[d] /\ CallKept(d) /\ call[d] \in Call
    BY <1>2, CallTyped DEF Spared, CoinsInv
  <2>2. \A e : GrantNow(e)' = GrantNow(e)
    BY DEF GrantNow
  <2>3. call[d].pc \in {"settling", "reversing"} =>
          /\ order'[call[d].at] = order[call[d].at]
          /\ Grants(call[d].at)' = Grants(call[d].at)
          /\ HandsBack(call[d].at)' = HandsBack(call[d].at)
          /\ TakesBack(call[d].at)' = TakesBack(call[d].at)
    BY <1>2, <2>1 DEF Spared, Grants, HandsBack, TakesBack
  <2>4. Wallet \in call[d].writes => balance' = balance
    BY <1>2 DEF Spared
  <2> QED BY <2>1, <2>2, <2>3, <2>4 DEF CallKept
<1> QED BY <1>1, <1>2

\* A refused placement had not been made yet.
LEMMA UntouchedKept ==
  ASSUME CoinsInv, NEW p \in Placements, Refused(p) \/ call'[p] = call[p],
         \A i \in Sellers : order'[<<p, i>>] = order[<<p, i>>] \/ order[<<p, i>>] # NoOrder,
         \A r \in rows' : r \in rows \/ r.of[1] # p \/ \E i \in Sellers : order[<<p, i>>] # NoOrder
  PROVE  Untouched(p)'
<1>1. p \in Calls /\ CallKept(p) /\ Untouched(p)
  BY CallsApart DEF CoinsInv
<1>2. SUFFICES ASSUME call'[p].pc \in {"idle", "placing"} PROVE Untouched(p)'
  BY DEF Untouched
<1>3. call[p].pc \in {"idle", "placing"}
  BY <1>1, <1>2 DEF Refused, CallKept
<1>4. /\ \A i \in Sellers : order[<<p, i>>] = NoOrder
      /\ \A r \in rows : r.of[1] # p
  BY <1>1, <1>3 DEF Untouched
<1>5. /\ \A i \in Sellers : order'[<<p, i>>] = NoOrder
      /\ \A r \in rows' : r.of[1] # p
  BY <1>4
<1> QED BY <1>5 DEF Untouched

\* No coins move, nor do the orders.
LEMMA CallsChange ==
  ASSUME CoinsInv, NEW c \in Calls, NEW q \in Call, NEW written, Becomes(c, q, written),
         settings' = settings, used' \in Nat, UNCHANGED <<balance, rows, order>>,
         CallKept(c)',
         c \in Placements =>
           q.pc \in {"counting", "done"} \/ call[c].pc \in {"idle", "placing"}
  PROVE  CoinsInv'
<1>1. /\ call' = [d \in Calls |-> call'[d]] /\ call'[c] = q
      /\ \A d \in Calls \ {c} : Refused(d) \/ call'[d] = call[d]
  BY OthersAfterBecomes, TypesFollow DEF CoinsInv, Refused
<1>2. engine' = engine /\ creditOn' = creditOn
  BY DEF settings
<1>3. \A d \in Calls : call'[d] \in Call /\ CallKept(d)'
  <2> TAKE d \in Calls
  <2>1. CASE d = c
    BY <2>1, <1>1
  <2>2. CASE d # c
    <3>1. Refused(d) \/ Spared(d)
      BY <1>1, <2>2 DEF Spared
    <3> QED BY <3>1, <1>2, SparedKept
  <2> QED BY <2>1, <2>2
<1>4. TypeOK'
  BY <1>1, <1>2, <1>3 DEF CoinsInv, TypeOK
<1>5. RowsIn(rows') /\ balance' = Net(rows')
  BY DEF CoinsInv
<1>6. \A p \in Placements : Untouched(p)' /\ SpentRecorded(p)' /\ GrantRecorded(p)'
  <2> TAKE p \in Placements
  <2>1. SpentRecorded(p)' /\ GrantRecorded(p)'
    <3>1. RowsOf("REDEEM", <<p, 0>>)' = RowsOf("REDEEM", <<p, 0>>)
      BY RowsOfIs
    <3>2. RowsOf("EARN", <<p, 0>>)' = RowsOf("EARN", <<p, 0>>)
      BY RowsOfIs
    <3> QED BY <1>2, <3>1, <3>2, RecordedKept DEF CoinsInv
  <2>2. CASE p = c
    BY <1>1, <2>1, <2>2 DEF CoinsInv, Untouched
  <2>3. CASE p # c
    <3>1. Refused(p) \/ call'[p] = call[p]
      BY <1>1, <2>3, CallsApart
    <3> QED BY <2>1, <3>1, UntouchedKept
  <2> QED BY <2>2, <2>3
<1>7. \A o \in Orders : HandedBack(o)'
  <2> TAKE o \in Orders
  <2>1. RowsOf("REVERSAL", o)' = RowsOf("REVERSAL", o)
    BY RowsOfIs
  <2> QED BY <2>1, HandedBackKept DEF CoinsInv
<1> QED BY <1>3, <1>4, <1>5, <1>6, <1>7 DEF CoinsInv

LEMMA RestingInCall ==
  ASSUME NEW step \in {"idle", "done", "counting"}
  PROVE  Resting(step) \in Call /\ Resting(step).pc = step /\ Resting(step).writes = {}
BY DEF Resting, Call

LEMMA TransactionInCall ==
  ASSUME TypeOK, NEW step \in {"placing", "settling", "reversing"},
         NEW at \in Orders \cup {Wallet}, NEW coupon \in BOOLEAN, NEW coins \in Nat,
         NEW earned \in Nat, NEW w, w \subseteq Orders \cup {Wallet, Coupon},
         NEW q, q = Transaction(step, at, coupon, coins, earned, w)
  PROVE  /\ q \in Call
         /\ q.pc = step /\ q.at = at /\ q.coupon = coupon /\ q.writes = w
         /\ q.coins = coins /\ q.earned = earned
         /\ Wallet \in w => q.balance = balance
<1>1. at \in Subjects \cup {Wallet}
  BY OrderIsPair
<1>2. balance \in Nat /\ used \in Nat
  BY DEF TypeOK
<1> DEFINE b == IF Wallet \in w THEN balance ELSE 0
           u == IF Coupon \in w THEN used ELSE 0
<1>3. b \in Nat /\ u \in Nat /\ (Wallet \in w => b = balance)
  BY <1>2
<1>4. q = [pc |-> step, at |-> at, balance |-> b, used |-> u, coupon |-> coupon,
           coins |-> coins, earned |-> earned, writes |-> w]
  BY DEF Transaction
<1> HIDE DEF b, u
<1> QED BY <1>1, <1>3, <1>4 DEF Call

LEMMA CoinsPlaceBegins ==
  ASSUME CoinsInv, NEW p \in Placements, PlaceBegins(p)
  PROVE  CoinsInv'
<1>1. PICK coupon \in BOOLEAN, coins \in Redemptions, earned \in Savings :
        /\ coins <= balance /\ coins <= CoinsPerPaisa * Total
        /\ Becomes(p, Transaction("placing", Wallet, coupon, coins, earned,
             (IF coins > 0 \/ GrantNow(earned) > 0 THEN {Wallet} ELSE {})
               \cup (IF coupon /\ engine THEN {Coupon} ELSE {})), {})
  BY DEF PlaceBegins, Spendable
<1> DEFINE
  w == (IF coins > 0 \/ GrantNow(earned) > 0 THEN {Wallet} ELSE {})
       \cup (IF coupon /\ engine THEN {Coupon} ELSE {})
  q == Transaction("placing", Wallet, coupon, coins, earned, w)
<1>2. Becomes(p, q, {})
  BY <1>1
<1>3. /\ settings' = settings /\ used' \in Nat /\ UNCHANGED <<balance, rows, order>>
      /\ call[p].pc = "idle" /\ p \in Calls /\ TypeOK /\ creditOn' = creditOn
  BY CallsApart DEF PlaceBegins, At, settings, CoinsInv, TypeOK
<1>4. coins \in Nat /\ earned \in Nat /\ coins <= CoinsPerPaisa * Total
  BY <1>1, LoyaltyAssumption
<1>5. /\ w \subseteq Orders \cup {Wallet, Coupon}
      /\ Wallet \in w <=> coins > 0 \/ GrantNow(earned) > 0
  BY Documents
<1> HIDE DEF w
<1>6. /\ q \in Call
      /\ q.pc = "placing" /\ q.writes = w /\ q.coins = coins /\ q.earned = earned
      /\ Wallet \in w => q.balance = balance
  BY <1>3, <1>4, <1>5, TransactionInCall
<1> HIDE DEF q
<1>7. call'[p] = q
  BY <1>2, <1>3, OthersAfterBecomes, TypesFollow
<1>8. \A e : GrantNow(e)' = GrantNow(e)
  BY <1>3 DEF GrantNow
<1>9. CallKept(p)'
  BY <1>1, <1>3, <1>4, <1>5, <1>6, <1>7, <1>8, CallsApart DEF CallKept
<1> QED BY <1>2, <1>3, <1>6, <1>9, CallsChange

\* A settlement or a reversal opens.
LEMMA CoinsOpens ==
  ASSUME CoinsInv, NEW c \in Settlers \cup Reversers, NEW o \in Orders, NEW wallet,
         wallet \subseteq {Wallet}, NEW step,
         step = IF c \in Settlers THEN "settling" ELSE "reversing",
         Becomes(c, Transaction(step, o, FALSE, 0, 0, {o} \cup wallet), {}),
         c \in Settlers => order[o].status # "none" /\ (Wallet \in wallet <=> Grants(o)),
         c \in Reversers =>
           /\ order[o].workflow = "CANCELLED"
           /\ (Wallet \in wallet <=> HandsBack(o) \/ TakesBack(o)),
         UNCHANGED <<settings, used, balance, rows, order>>
  PROVE  CoinsInv'
<1> DEFINE
  w == {o} \cup wallet
  q == Transaction(step, o, FALSE, 0, 0, w)
<1>1. Becomes(c, q, {})
  OBVIOUS
<1>2. /\ c \in Calls /\ c \notin Placements /\ TypeOK
      /\ (c \in Reversers <=> c \notin Settlers) /\ used' \in Nat
  BY CallsApart DEF CoinsInv, TypeOK
<1>3. /\ w \subseteq Orders \cup {Wallet, Coupon} /\ o \in w
      /\ (Wallet \in w <=> Wallet \in wallet)
  BY Documents
<1>4. /\ q \in Call
      /\ q.pc = step /\ q.at = o /\ q.writes = w
      /\ Wallet \in w => q.balance = balance
  <2> DEFINE no == FALSE
  <2>1. /\ no \in BOOLEAN /\ 0 \in Nat /\ step \in {"placing", "settling", "reversing"}
        /\ o \in Orders \cup {Wallet} /\ q = Transaction(step, o, no, 0, 0, w)
    OBVIOUS
  <2> HIDE DEF w, no, q
  <2> QED BY <1>2, <1>3, <2>1, TransactionInCall
<1> HIDE DEF q, w
<1>5. call'[c] = q
  BY <1>1, <1>2, OthersAfterBecomes, TypesFollow
<1>6. /\ Grants(o)' = Grants(o) /\ HandsBack(o)' = HandsBack(o)
      /\ TakesBack(o)' = TakesBack(o) /\ order' = order /\ balance' = balance
      /\ settings' = settings
  BY DEF Grants, HandsBack, TakesBack
<1>7. CallKept(c)'
  <2>1. CASE c \in Settlers
    BY <2>1, <1>2, <1>3, <1>4, <1>5, <1>6 DEF CallKept
  <2>2. CASE c \in Reversers
    BY <2>2, <1>2, <1>3, <1>4, <1>5, <1>6 DEF CallKept
  <2> QED BY <2>1, <2>2
<1> QED BY <1>1, <1>2, <1>4, <1>6, <1>7, CallsChange

LEMMA CoinsSettleBegins ==
  ASSUME CoinsInv, NEW s \in Settlers, SettleBegins(s)
  PROVE  CoinsInv'
<1>1. PICK o \in Orders :
        /\ order[o].status \in {"delivered"} \cup Deliverable
        /\ Becomes(s, Transaction("settling", o, FALSE, 0, 0,
             {o} \cup (IF Grants(o) THEN {Wallet} ELSE {})), {})
  BY DEF SettleBegins
<1>2. order[o].status # "none"
  BY <1>1, LoyaltyAssumption
<1> DEFINE wallet == IF Grants(o) THEN {Wallet} ELSE {}
<1>3. /\ wallet \subseteq {Wallet} /\ (Wallet \in wallet <=> Grants(o))
      /\ s \notin Reversers
  BY CallsApart
<1>4. Becomes(s, Transaction("settling", o, FALSE, 0, 0, {o} \cup wallet), {})
  BY <1>1
<1>5. UNCHANGED <<settings, used, balance, rows, order>>
  BY DEF SettleBegins
<1> HIDE DEF wallet
<1> QED BY <1>2, <1>3, <1>4, <1>5, CoinsOpens

LEMMA CoinsReverseBegins ==
  ASSUME CoinsInv, NEW r \in Reversers, ReverseBegins(r)
  PROVE  CoinsInv'
<1>1. PICK o \in Orders :
        /\ order[o].workflow = "CANCELLED"
        /\ Becomes(r, Transaction("reversing", o, FALSE, 0, 0,
             {o} \cup (IF HandsBack(o) \/ TakesBack(o) THEN {Wallet} ELSE {})), {})
  BY DEF ReverseBegins
<1> DEFINE wallet == IF HandsBack(o) \/ TakesBack(o) THEN {Wallet} ELSE {}
<1>2. /\ wallet \subseteq {Wallet} /\ (Wallet \in wallet <=> HandsBack(o) \/ TakesBack(o))
      /\ r \notin Settlers
  BY CallsApart
<1>3. Becomes(r, Transaction("reversing", o, FALSE, 0, 0, {o} \cup wallet), {})
  BY <1>1
<1>4. UNCHANGED <<settings, used, balance, rows, order>>
  BY DEF ReverseBegins
<1> HIDE DEF wallet
<1> QED BY <1>1, <1>2, <1>3, <1>4, CoinsOpens

\* A call ends or is given up, and moves no coins.
LEMMA CoinsRest ==
  ASSUME CoinsInv, NEW c \in Calls, NEW step \in {"idle", "done"}, NEW written,
         Becomes(c, Resting(step), written),
         settings' = settings, used' \in Nat, UNCHANGED <<balance, rows, order>>,
         step = "done" => c \in Placements,
         step = "idle" => call[c].pc \notin {"counting", "done"}
  PROVE  CoinsInv'
<1> DEFINE q == Resting(step)
<1>1. q \in Call /\ q.pc = step /\ q.writes = {}
  BY RestingInCall
<1>2. Becomes(c, q, written)
  OBVIOUS
<1> HIDE DEF q
<1>3. call'[c] = q
  BY <1>2, OthersAfterBecomes, TypesFollow DEF CoinsInv
<1>4. CallKept(c)'
  BY <1>1, <1>3, CallsApart DEF CallKept
<1>5. c \in Placements => q.pc \in {"counting", "done"} \/ call[c].pc \in {"idle", "placing"}
  BY <1>1 DEF CoinsInv, CallKept
<1> QED BY <1>1, <1>2, <1>4, <1>5, CallsChange

LEMMA CoinsAborts ==
  ASSUME CoinsInv, NEW c \in Calls, Aborts(c)
  PROVE  CoinsInv'
<1>1. /\ Becomes(c, Resting("idle"), {}) /\ settings' = settings /\ used' \in Nat
      /\ UNCHANGED <<balance, rows, order>> /\ call[c].pc \notin {"counting", "done"}
  BY DEF Aborts, Idle, CoinsInv, TypeOK
<1> QED BY <1>1, CoinsRest

LEMMA CoinsUse ==
  ASSUME CoinsInv, NEW p \in Placements, CountsUse(p) \/ UseNotCounted(p)
  PROVE  CoinsInv'
<1>1. PICK written : Becomes(p, Resting("done"), written)
  BY DEF CountsUse, UseNotCounted
<1>2. /\ settings' = settings /\ used' \in Nat
      /\ UNCHANGED <<balance, rows, order>> /\ p \in Calls
  BY CallsApart DEF CountsUse, UseNotCounted, CoinsInv, TypeOK
<1> QED BY <1>1, <1>2, CoinsRest

(***************************************************************************)
(* Writes outside of the calls.                                              *)
(***************************************************************************)
LEMMA CoinsWritten ==
  ASSUME CoinsInv, NEW documents, Written(documents),
         settings' = settings, used' \in Nat, UNCHANGED <<balance, rows>>,
         order' \in [Orders -> Order],
         \A o \in Orders :
           /\ order'[o].redeemed = order[o].redeemed /\ order'[o].earned = order[o].earned
           /\ order'[o].redeemedReversed = order[o].redeemedReversed
           /\ order'[o].cancellationReversalApplied = order[o].cancellationReversalApplied
           /\ order'[o] = order[o] \/ (o \in documents /\ order[o] # NoOrder)
  PROVE  CoinsInv'
<1>1. /\ call' = [d \in Calls |-> call'[d]]
      /\ \A d \in Calls : \/ Refused(d)
                          \/ call'[d] = call[d] /\ call[d].writes \cap documents = {}
  BY OthersAfterWritten, TypesFollow DEF CoinsInv, Refused
<1>2. engine' = engine /\ creditOn' = creditOn
  BY DEF settings
<1>3. \A d \in Calls : call'[d] \in Call /\ CallKept(d)'
  <2> TAKE d \in Calls
  <2>1. call[d].pc \in {"settling", "reversing"} =>
          call[d].at \in Orders /\ call[d].at \in call[d].writes
    BY DEF CoinsInv, CallKept
  <2>2. Refused(d) \/ Spared(d)
    BY <1>1, <2>1 DEF Spared
  <2> QED BY <1>2, <2>2, SparedKept
<1>4. TypeOK'
  BY <1>1, <1>2, <1>3 DEF CoinsInv, TypeOK
<1>5. RowsIn(rows') /\ balance' = Net(rows')
  BY DEF CoinsInv
<1>6. \A p \in Placements : Untouched(p)' /\ SpentRecorded(p)' /\ GrantRecorded(p)'
  <2> TAKE p \in Placements
  <2>1. \A i \in Sellers : <<p, i>> \in Orders
    BY OrderOfPlacement
  <2>2. /\ RowsOf("REDEEM", <<p, 0>>)' = RowsOf("REDEEM", <<p, 0>>)
        /\ RowsOf("EARN", <<p, 0>>)' = RowsOf("EARN", <<p, 0>>)
    BY RowsOfIs
  <2>3. SpentRecorded(p)' /\ GrantRecorded(p)'
    BY <1>2, <2>1, <2>2, RecordedKept DEF CoinsInv
  <2>4. Refused(p) \/ call'[p] = call[p]
    BY <1>1, CallsApart
  <2> QED BY <2>1, <2>3, <2>4, UntouchedKept
<1>7. \A o \in Orders : HandedBack(o)'
  <2> TAKE o \in Orders
  <2>1. RowsOf("REVERSAL", o)' = RowsOf("REVERSAL", o)
    BY RowsOfIs
  <2> QED BY <2>1, HandedBackKept DEF CoinsInv
<1> QED BY <1>3, <1>4, <1>5, <1>6, <1>7 DEF CoinsInv

LEMMA CoinsElsewhere ==
  ASSUME CoinsInv, CouponUsedElsewhere
  PROVE  CoinsInv'
<1>1. /\ Written({Coupon}) /\ settings' = settings /\ used' \in Nat
      /\ UNCHANGED <<balance, rows>> /\ order' = order /\ order' \in [Orders -> Order]
  BY DEF CouponUsedElsewhere, CoinsInv, TypeOK
<1> QED BY <1>1, CoinsWritten

LEMMA CoinsMoves ==
  ASSUME CoinsInv, NEW o \in Orders, NEW workflow \in {"DELIVERED", "CANCELLED"},
         NEW status \in {"delivered", "cancelled"}, Moves(o, workflow, status)
  PROVE  CoinsInv'
<1>1. /\ order[o].workflow = "open" /\ Written({o})
      /\ order' = [order EXCEPT ![o].workflow = workflow, ![o].status = status]
      /\ settings' = settings /\ used' \in Nat /\ UNCHANGED <<balance, rows>>
  BY DEF Moves, CoinsInv, TypeOK
<1>2. order \in [Orders -> Order]
  BY DEF CoinsInv, TypeOK
<1> DEFINE new == [order[o] EXCEPT !.workflow = workflow, !.status = status]
<1>3. order' \in [Orders -> Order]
  <2>1. new \in Order
    <3>1. order[o] \in Order
      BY <1>2
    <3>2. ASSUME NEW doc \in Order
          PROVE  [doc EXCEPT !.workflow = workflow, !.status = status] \in Order
      <4>1. workflow \in {"none", "open", "DELIVERED", "CANCELLED"}
        OBVIOUS
      <4>2. status \in {"none", "live", "delivered", "cancelled"}
        OBVIOUS
      <4> QED BY <4>1, <4>2 DEF Order
    <3> QED BY <3>1, <3>2
  <2>2. order' = [order EXCEPT ![o] = new]
    BY <1>1
  <2> HIDE DEF new
  <2> QED BY <1>2, <2>1, <2>2
<1>4. order[o] # NoOrder
  BY <1>1 DEF NoOrder
<1>5. ASSUME NEW x \in Orders
      PROVE  /\ order'[x].redeemed = order[x].redeemed
             /\ order'[x].earned = order[x].earned
             /\ order'[x].redeemedReversed = order[x].redeemedReversed
             /\ order'[x].cancellationReversalApplied = order[x].cancellationReversalApplied
             /\ order'[x] = order[x] \/ (x \in {o} /\ order[x] # NoOrder)
  <2>1. CASE x = o
    BY <1>1, <1>2, <1>4, <2>1 DEF Order
  <2>2. CASE x # o
    BY <1>1, <1>2, <2>2
  <2> QED BY <2>1, <2>2
<1> QED BY <1>1, <1>3, <1>5, CoinsWritten

(***************************************************************************)
(* Commits.                                                                  *)
(***************************************************************************)
LEMMA OthersAtCommit ==
  ASSUME CoinsInv, NEW c \in Calls, NEW step \in {"idle", "done", "counting"},
         Ends(c, step), settings' = settings,
         balance' = balance \/ Wallet \in call[c].writes,
         \A o \in Orders : o \in call[c].writes \/ order'[o] = order[o] \/ order[o] = NoOrder
  PROVE  /\ call' = [d \in Calls |-> call'[d]]
         /\ call'[c] = Resting(step)
         /\ \A d \in Calls \ {c} :
              /\ Refused(d) \/ call'[d] = call[d]
              /\ call'[d] \in Call /\ CallKept(d)'
<1> DEFINE q == Resting(step)
<1>1. /\ call' = [d \in Calls |-> call'[d]] /\ call'[c] = q
      /\ \A d \in Calls \ {c} :
           \/ Refused(d)
           \/ call'[d] = call[d] /\ call[d].writes \cap call[c].writes = {}
  <2>1. Becomes(c, q, call[c].writes)
    BY DEF Ends
  <2> HIDE DEF q
  <2> QED BY <2>1, OthersAfterBecomes, TypesFollow DEF CoinsInv, Refused
<1>2. ASSUME NEW d \in Calls \ {c}
      PROVE  (Refused(d) \/ call'[d] = call[d]) /\ call'[d] \in Call /\ CallKept(d)'
  <2>1. /\ call[d].pc = "settling" =>
             /\ call[d].at \in Orders /\ call[d].at \in call[d].writes
             /\ order[call[d].at].status # "none"
        /\ call[d].pc = "reversing" =>
             /\ call[d].at \in Orders /\ call[d].at \in call[d].writes
             /\ order[call[d].at].workflow = "CANCELLED"
    BY DEF CoinsInv, CallKept
  <2>2. call[d].pc \in {"settling", "reversing"} =>
          /\ call[d].at \in Orders /\ call[d].at \in call[d].writes
          /\ order[call[d].at] # NoOrder
    BY <2>1 DEF NoOrder
  <2>3. Refused(d) \/ Spared(d)
    BY <1>1, <2>2 DEF Spared
  <2>4. creditOn' = creditOn
    BY DEF settings
  <2> QED BY <1>1, <2>3, <2>4, SparedKept
<1> QED BY <1>1, <1>2

LEMMA CommitsKept ==
  ASSUME CoinsInv, NEW c \in Calls, NEW step \in {"idle", "done", "counting"},
         Ends(c, step), settings' = settings,
         balance' = balance \/ Wallet \in call[c].writes,
         \A o \in Orders : o \in call[c].writes \/ order'[o] = order[o] \/ order[o] = NoOrder,
         step \in {"done", "counting"} <=> c \in Placements,
         used' \in Nat, balance' \in Nat, order' \in [Orders -> Order]
  PROVE  /\ TypeOK'
         /\ \A d \in Calls : CallKept(d)'
         /\ \A p \in Placements \ {c} : Refused(p) \/ call'[p] = call[p]
         /\ c \in Placements => call'[c].pc \in {"done", "counting"}
<1>1. /\ call' = [d \in Calls |-> call'[d]]
      /\ call'[c] = Resting(step)
      /\ \A d \in Calls \ {c} :
           /\ Refused(d) \/ call'[d] = call[d]
           /\ call'[d] \in Call /\ CallKept(d)'
  BY OthersAtCommit
<1>2. /\ Resting(step) \in Call /\ Resting(step).pc = step /\ Resting(step).writes = {}
  BY RestingInCall
<1>3. CallKept(c)'
  BY <1>1, <1>2, CallsApart DEF CallKept
<1>4. \A d \in Calls : call'[d] \in Call /\ CallKept(d)'
  BY <1>1, <1>2, <1>3
<1>5. engine' = engine /\ creditOn' = creditOn
  BY DEF settings
<1>6. TypeOK'
  BY <1>1, <1>4, <1>5 DEF CoinsInv, TypeOK
<1> QED BY <1>1, <1>2, <1>4, <1>6, CallsApart

LEMMA CoinsSettleCommits ==
  ASSUME CoinsInv, NEW s \in Settlers, SettleCommits(s)
  PROVE  CoinsInv'
<1> DEFINE o == call[s].at
           grant == IF Grants(o) THEN Movement("EARN", o, order[o].earned) ELSE {}
           credited == order[o].earnedCredited \/ Grants(o)
           new == [order[o] EXCEPT !.status = "delivered",
                     !.deliveredSettlementApplied = TRUE, !.earnedCredited = credited]
           r == Row("EARN", o, order[o].earned)
<1>1. /\ call[s].pc = "settling" /\ Ends(s, "idle") /\ settings' = settings /\ used' = used
      /\ rows' = rows \cup grant
      /\ balance' = IF grant # {} THEN call[s].balance + order[o].earned ELSE balance
      /\ order' = [order EXCEPT
           ![o].status = "delivered", ![o].deliveredSettlementApplied = TRUE,
           ![o].earnedCredited = @ \/ Grants(o)]
  BY DEF SettleCommits, At
<1>2. /\ s \in Calls /\ s \notin Placements /\ TypeOK /\ RowsIn(rows)
      /\ balance = Net(rows) /\ balance \in Nat /\ used' \in Nat
      /\ order \in [Orders -> Order]
  BY <1>1, CallsApart DEF CoinsInv, TypeOK
<1>3. /\ o \in Orders /\ o \in call[s].writes /\ order[o].status # "none"
      /\ (Wallet \in call[s].writes <=> Grants(o))
      /\ Wallet \in call[s].writes => call[s].balance = balance
  BY <1>1, <1>2 DEF CoinsInv, CallKept
<1>4. order' = [order EXCEPT ![o] = new]
  BY <1>1
<1> HIDE DEF o
<1>5. /\ order[o] \in Order /\ order[o].earned \in Nat /\ credited \in BOOLEAN /\ o \in Subjects
      /\ order[o] # NoOrder
  BY <1>2, <1>3, OrderTyped, OrderIsPair DEF NoOrder
<1> HIDE DEF credited
<1>6. /\ new \in Order /\ new.redeemed = order[o].redeemed /\ new.earned = order[o].earned
      /\ new.redeemedReversed = order[o].redeemedReversed
      /\ new.cancellationReversalApplied = order[o].cancellationReversalApplied
  BY <1>5 DEF Order
<1> HIDE DEF new
<1>7. order' \in [Orders -> Order]
  BY <1>2, <1>4, <1>6
<1>8. \A x \in Orders :
        /\ order'[x].redeemed = order[x].redeemed /\ order'[x].earned = order[x].earned
        /\ order'[x].redeemedReversed = order[x].redeemedReversed
        /\ order'[x].cancellationReversalApplied = order[x].cancellationReversalApplied
        /\ x = o \/ order'[x] = order[x]
  BY <1>2, <1>4, <1>6
<1>9. /\ OneRow(rows, Movement("EARN", o, order[o].earned), r)
      /\ r.type = "EARN" /\ r.of = o /\ r.coins = order[o].earned
  BY <1>5, MovementRow
<1>10. OneRow(rows, grant, r) /\ (grant # {} => Grants(o))
  BY <1>9 DEF OneRow
<1> HIDE DEF grant, r
<1>11. RowsIn(rows')
  BY <1>1, <1>2, <1>10, RowsGrow
<1>12. balance' = Net(rows') /\ balance' \in Nat /\ (balance' = balance \/ Wallet \in call[s].writes)
  <2>1. Net(rows') = Net(rows) + (IF grant = {} THEN 0 ELSE Sign(r))
    BY <1>1, <1>2, <1>10, NetGrows
  <2>2. Sign(r) = order[o].earned
    BY <1>9 DEF Sign
  <2> QED BY <1>1, <1>2, <1>3, <1>5, <1>10, <2>1, <2>2
<1>13. /\ TypeOK' /\ \A d \in Calls : CallKept(d)'
       /\ \A p \in Placements : Refused(p) \/ call'[p] = call[p]
  <2>1. \A x \in Orders : x \in call[s].writes \/ order'[x] = order[x] \/ order[x] = NoOrder
    BY <1>3, <1>8
  <2> QED BY <1>1, <1>2, <1>7, <1>12, <2>1, CommitsKept
<1>14. \A x \in rows' : x \in rows \/ (x = r /\ grant # {})
  BY <1>1, <1>10 DEF OneRow
<1>15. ASSUME NEW p \in Placements
       PROVE  Untouched(p)' /\ SpentRecorded(p)' /\ GrantRecorded(p)'
  <2>1. \A i \in Sellers : <<p, i>> \in Orders
    BY OrderOfPlacement
  <2>2. ASSUME NEW type
        PROVE  RowsOf(type, <<p, 0>>)' = RowsOf(type, <<p, 0>>)
    <3> DEFINE of == <<p, 0>>
    <3>1. r.of # of
      BY <1>3, <1>9, OrderIsPair
    <3> HIDE DEF of
    <3>2. About(rows \cup grant, type, of) = About(rows, type, of)
      BY <1>10, <3>1, AboutStays
    <3>3. RowsOf(type, of)' = RowsOf(type, of)
      BY <1>1, <3>2, RowsOfIs
    <3> QED BY <3>3 DEF of
  <2>3. RowsOf("REDEEM", <<p, 0>>)' = RowsOf("REDEEM", <<p, 0>>)
        /\ RowsOf("EARN", <<p, 0>>)' = RowsOf("EARN", <<p, 0>>)
    BY <2>2
  <2>4. SpentRecorded(p)' /\ GrantRecorded(p)'
    <3>1. creditOn' = creditOn
      BY <1>1 DEF settings
    <3> QED BY <1>8, <2>1, <2>3, <3>1, RecordedKept DEF CoinsInv
  <2>5. \A i \in Sellers : order'[<<p, i>>] = order[<<p, i>>] \/ order[<<p, i>>] # NoOrder
    BY <1>5, <1>8, <2>1
  <2>6. \A x \in rows' : x \in rows \/ x.of[1] # p \/ \E i \in Sellers : order[<<p, i>>] # NoOrder
    <3> SUFFICES ASSUME NEW x \in rows', x \notin rows, x.of[1] = p
                 PROVE  \E i \in Sellers : order[<<p, i>>] # NoOrder
      OBVIOUS
    <3>1. x.of = o /\ o = <<p, o[2]>> /\ o[2] \in Sellers
      BY <1>3, <1>9, <1>14, OrderIsPair
    <3> QED BY <1>5, <3>1
  <2> QED BY <1>13, <2>4, <2>5, <2>6, UntouchedKept
<1>16. ASSUME NEW x \in Orders PROVE HandedBack(x)'
  <2>1. About(rows \cup grant, "REVERSAL", x) = About(rows, "REVERSAL", x)
    BY <1>9, <1>10, AboutStays
  <2>2. RowsOf("REVERSAL", x)' = RowsOf("REVERSAL", x)
    BY <1>1, <2>1, RowsOfIs
  <2> QED BY <1>8, <2>2, HandedBackKept DEF CoinsInv
<1> QED BY <1>11, <1>12, <1>13, <1>15, <1>16 DEF CoinsInv

LEMMA CoinsReverseCommits ==
  ASSUME CoinsInv, NEW c \in Reversers, ReverseCommits(c)
  PROVE  CoinsInv'
<1> DEFINE o == call[c].at
           back == IF HandsBack(o) THEN Movement("REVERSAL", o, order[o].redeemed) ELSE {}
           middle == IF back # {} THEN call[c].balance + order[o].redeemed
                     ELSE call[c].balance
           claw == IF order[o].earned < middle THEN order[o].earned ELSE middle
           taken == IF TakesBack(o) THEN Movement("EXPIRY", o, claw) ELSE {}
           reversed == order[o].redeemedReversed \/ HandsBack(o)
           credited == order[o].earnedCredited /\ ~TakesBack(o)
           new == [order[o] EXCEPT !.cancellationReversalApplied = TRUE,
                     !.redeemedReversed = reversed, !.earnedCredited = credited]
           a == Row("REVERSAL", o, order[o].redeemed)
           b == Row("EXPIRY", o, claw)
<1>1. /\ call[c].pc = "reversing" /\ Ends(c, "idle") /\ settings' = settings /\ used' = used
      /\ rows' = (rows \cup back) \cup taken
      /\ balance' = IF taken # {} THEN middle - claw
                    ELSE IF back # {} THEN middle ELSE balance
      /\ order' = [order EXCEPT
           ![o].cancellationReversalApplied = TRUE,
           ![o].redeemedReversed = @ \/ HandsBack(o),
           ![o].earnedCredited = @ /\ ~TakesBack(o)]
  BY DEF ReverseCommits, At
<1>2. /\ c \in Calls /\ c \notin Placements /\ TypeOK /\ RowsIn(rows)
      /\ balance = Net(rows) /\ balance \in Nat /\ used' \in Nat
      /\ order \in [Orders -> Order] /\ call[c].balance \in Nat
  BY <1>1, CallsApart, CallTyped DEF CoinsInv, TypeOK
<1>3. /\ o \in Orders /\ o \in call[c].writes /\ order[o].workflow = "CANCELLED"
      /\ (Wallet \in call[c].writes <=> HandsBack(o) \/ TakesBack(o))
      /\ Wallet \in call[c].writes => call[c].balance = balance
  BY <1>1, <1>2 DEF CoinsInv, CallKept
<1>4. order' = [order EXCEPT ![o] = new]
  BY <1>1
<1> HIDE DEF o
<1>5. /\ order[o] \in Order /\ order[o].earned \in Nat /\ order[o].redeemed \in Nat
      /\ order[o].redeemedReversed \in BOOLEAN /\ order[o].earnedCredited \in BOOLEAN
      /\ o \in Subjects /\ o[1] \in Placements /\ o[2] \in Sellers /\ o = <<o[1], o[2]>>
      /\ order[o] # NoOrder
  BY <1>2, <1>3, OrderTyped, OrderIsPair DEF NoOrder
<1>6. /\ (HandsBack(o) <=> order[o].redeemed > 0 /\ ~order[o].redeemedReversed)
      /\ reversed \in BOOLEAN /\ credited \in BOOLEAN
      /\ (reversed <=> order[o].redeemedReversed \/ order[o].redeemed > 0)
      /\ (~reversed => ~order[o].redeemedReversed /\ order[o].redeemed = 0)
  BY <1>5 DEF HandsBack
<1> HIDE DEF reversed, credited
<1>7. /\ new \in Order /\ new.redeemed = order[o].redeemed /\ new.earned = order[o].earned
      /\ new.redeemedReversed = reversed /\ new.cancellationReversalApplied
  BY <1>5, <1>6 DEF Order
<1> HIDE DEF new
<1>8. /\ order' \in [Orders -> Order]
      /\ order'[o] = new /\ \A x \in Orders : x # o => order'[x] = order[x]
  BY <1>2, <1>3, <1>4, <1>7
<1>9. middle \in Nat /\ claw \in Nat /\ claw <= middle
  BY <1>2, <1>5
<1> HIDE DEF claw
<1>10. /\ OneRow(rows, Movement("REVERSAL", o, order[o].redeemed), a)
       /\ a.type = "REVERSAL" /\ a.of = o /\ a.coins = order[o].redeemed
  BY <1>5, MovementRow
<1>11. /\ OneRow(rows, Movement("EXPIRY", o, claw), b)
       /\ b.type = "EXPIRY" /\ b.of = o /\ b.coins = claw
  BY <1>5, <1>9, MovementRow
<1>12. back # {} <=> HandsBack(o)
  <2>1. HandsBack(o) => ~Recorded("REVERSAL", o)
    BY <1>3, <1>6 DEF CoinsInv, HandedBack, RowsOf, Recorded
  <2>2. HandsBack(o) => order[o].redeemed # 0
    BY <1>5, <1>6
  <2> QED BY <2>1, <2>2 DEF Movement, Recorded
<1>13. OneRow(rows, back, a)
  BY <1>10 DEF OneRow
<1>14. OneRow(rows \cup back, taken, b) /\ (taken # {} => TakesBack(o))
  <2>1. b \notin back
    BY <1>10, <1>11, <1>13 DEF OneRow
  <2> QED BY <1>11, <2>1 DEF OneRow
<1> HIDE DEF back, taken, a, b, middle
<1>15. RowsIn(rows \cup back) /\ RowsIn(rows')
  BY <1>1, <1>2, <1>13, <1>14, RowsGrow
<1>16. /\ balance' = Net(rows') /\ balance' \in Nat
       /\ (balance' = balance \/ Wallet \in call[c].writes)
  <2>1. Net(rows \cup back) = Net(rows) + (IF back = {} THEN 0 ELSE Sign(a))
    BY <1>2, <1>13, NetGrows
  <2>2. /\ Net(rows \cup back) \in Int
        /\ Net(rows') = Net(rows \cup back) + (IF taken = {} THEN 0 ELSE Sign(b))
    BY <1>1, <1>14, <1>15, NetGrows
  <2>3. Sign(a) = order[o].redeemed /\ Sign(b) = 0 - claw
    BY <1>10, <1>11 DEF Sign
  <2>4. middle = IF back # {} THEN call[c].balance + order[o].redeemed ELSE call[c].balance
    BY DEF middle
  <2>5. back # {} \/ taken # {} => Wallet \in call[c].writes /\ call[c].balance = balance
    BY <1>3, <1>12, <1>14
  <2> QED BY <1>1, <1>2, <1>5, <1>9, <2>1, <2>2, <2>3, <2>4, <2>5
<1>17. /\ TypeOK' /\ \A d \in Calls : CallKept(d)'
       /\ \A p \in Placements : Refused(p) \/ call'[p] = call[p]
  <2>1. \A x \in Orders : x \in call[c].writes \/ order'[x] = order[x] \/ order[x] = NoOrder
    BY <1>3, <1>8
  <2> QED BY <1>1, <1>2, <1>8, <1>16, <2>1, CommitsKept
<1>18. \A x \in rows' : \/ x \in rows
                        \/ x = a /\ back # {}
                        \/ x = b /\ taken # {}
  BY <1>1, <1>13, <1>14 DEF OneRow
<1>19. ASSUME NEW type, NEW x, ~(type = "EXPIRY" /\ x = o), ~(type = "REVERSAL" /\ x = o)
       PROVE  RowsOf(type, x)' = RowsOf(type, x)
  <2>1. About(rows \cup back, type, x) = About(rows, type, x)
    BY <1>10, <1>13, <1>19, AboutStays
  <2> DEFINE base == rows \cup back
  <2>2. OneRow(base, taken, b) /\ rows' = base \cup taken /\ (b.type # type \/ b.of # x)
    BY <1>1, <1>11, <1>14, <1>19
  <2> HIDE DEF base
  <2>3. About(base \cup taken, type, x) = About(base, type, x)
    BY <2>2, AboutStays
  <2>4. About(rows', type, x) = About(rows, type, x)
    BY <2>1, <2>2, <2>3 DEF base
  <2> QED BY <2>4, RowsOfIs
<1>20. ASSUME NEW p \in Placements
       PROVE  Untouched(p)' /\ SpentRecorded(p)' /\ GrantRecorded(p)'
  <2>1. \A i \in Sellers : <<p, i>> \in Orders
    BY OrderOfPlacement
  <2>2. /\ RowsOf("REDEEM", <<p, 0>>)' = RowsOf("REDEEM", <<p, 0>>)
        /\ RowsOf("EARN", <<p, 0>>)' = RowsOf("EARN", <<p, 0>>)
    BY <1>19
  <2>3. creditOn' = creditOn
    BY <1>1 DEF settings
  <2>4. \A i \in Sellers : /\ order'[<<p, i>>].redeemed = order[<<p, i>>].redeemed
                           /\ order'[<<p, i>>].earned = order[<<p, i>>].earned
    BY <1>7, <1>8, <2>1
  <2>9. SpentRecorded(p)' /\ GrantRecorded(p)'
    BY <2>2, <2>3, <2>4, RecordedKept DEF CoinsInv
  <2>10. \A i \in Sellers : order'[<<p, i>>] = order[<<p, i>>] \/ order[<<p, i>>] # NoOrder
    BY <1>5, <1>8, <2>1
  <2>11. \A x \in rows' : x \in rows \/ x.of[1] # p \/ \E i \in Sellers : order[<<p, i>>] # NoOrder
    <3> SUFFICES ASSUME NEW x \in rows', x \notin rows, x.of[1] = p
                 PROVE  \E i \in Sellers : order[<<p, i>>] # NoOrder
      OBVIOUS
    <3>1. x.of = o
      BY <1>10, <1>11, <1>18
    <3>2. o = <<p, o[2]>> /\ o[2] \in Sellers
      BY <1>5, <3>1
    <3> QED BY <1>5, <3>2
  <2> QED BY <1>17, <2>9, <2>10, <2>11, UntouchedKept
<1>21. ASSUME NEW x \in Orders PROVE HandedBack(x)'
  <2>1. CASE x = o
    <3>1. order'[x] = new
      BY <1>8, <2>1
    <3>2. About(rows', "REVERSAL", o) = About(rows \cup back, "REVERSAL", o)
      <4> DEFINE base == rows \cup back
      <4>1. OneRow(base, taken, b) /\ rows' = base \cup taken /\ b.type # "REVERSAL"
        BY <1>1, <1>11, <1>14
      <4> HIDE DEF base
      <4>2. About(base \cup taken, "REVERSAL", o) = About(base, "REVERSAL", o)
        BY <4>1, AboutStays
      <4> QED BY <4>1, <4>2 DEF base
    <3>3. /\ About(rows, "REVERSAL", o) =
               IF order[o].redeemedReversed THEN {a} ELSE {}
          /\ order[o].cancellationReversalApplied =>
               order[o].redeemed = 0 \/ order[o].redeemedReversed
      BY <1>3, RowsOfIs DEF CoinsInv, HandedBack, a
    <3>4. About(rows', "REVERSAL", o) = IF reversed THEN {a} ELSE {}
      <4>1. CASE HandsBack(o)
        <5>1. back = {a}
          BY <1>12, <1>13, <4>1 DEF OneRow
        <5>2. About(rows \cup {a}, "REVERSAL", o) = About(rows, "REVERSAL", o) \cup {a}
          BY <1>10 DEF About
        <5> QED BY <1>6, <3>2, <3>3, <4>1, <5>1, <5>2
      <4>2. CASE ~HandsBack(o)
        <5>1. About(rows', "REVERSAL", o) = About(rows, "REVERSAL", o)
          BY <1>12, <3>2, <4>2
        <5>2. reversed <=> order[o].redeemedReversed
          BY <4>2 DEF reversed
        <5> QED BY <3>3, <5>1, <5>2
      <4> QED BY <4>1, <4>2
    <3>5. a = Row("REVERSAL", o, order'[o].redeemed)
      BY <1>7, <2>1, <3>1 DEF a
    <3>6. RowsOf("REVERSAL", x)' = IF order'[x].redeemedReversed
                                   THEN {Row("REVERSAL", x, order'[x].redeemed)} ELSE {}
      BY <1>7, <2>1, <3>1, <3>4, <3>5, RowsOfIs
    <3>7. order'[x].redeemed = 0 \/ order'[x].redeemedReversed
      BY <1>5, <1>6, <1>7, <3>1
    <3> QED BY <3>6, <3>7 DEF HandedBack, Row
  <2>2. CASE x # o
    <3>1. RowsOf("REVERSAL", x)' = RowsOf("REVERSAL", x)
      BY <1>19, <2>2
    <3>2. order'[x] = order[x]
      BY <1>8, <2>2
    <3> QED BY <3>1, <3>2, HandedBackKept DEF CoinsInv
  <2> QED BY <2>1, <2>2
<1> QED BY <1>15, <1>16, <1>17, <1>21, <1>20 DEF CoinsInv

\* The share of a seller, as an order document has it.
LEMMA PlacedTyped ==
  ASSUME TypeOK, NEW p \in Placements, NEW i \in Sellers,
         call[p].coins <= CoinsPerPaisa * Total
  PROVE  /\ Placed(p, i) \in Order
         /\ Placed(p, i).redeemed = RedeemedShares(call[p].coins)[i]
         /\ Placed(p, i).earned = EarnedShares(call[p].earned, call[p].coins)[i]
         /\ ~Placed(p, i).redeemedReversed /\ ~Placed(p, i).cancellationReversalApplied
<1> DEFINE e == EarnedShares(call[p].earned, call[p].coins)[i]
           r == RedeemedShares(call[p].coins)[i]
           g == GrantNow(EarnedShares(call[p].earned, call[p].coins)[i]) > 0
           k == call[p].coupon /\ engine
           new == Placed(p, i)
<1>1. e \in Nat /\ r \in Nat /\ g \in BOOLEAN /\ k \in BOOLEAN
  <2>1. call[p].earned \in Nat /\ call[p].coins \in Nat
    BY CallsApart, CallTyped
  <2>2. /\ RedeemedShares(call[p].coins) \in [Sellers -> Nat]
        /\ ToPay(call[p].coins) \in [Sellers -> Nat]
    BY <2>1, SharesTyped
  <2>3. EarnedShares(call[p].earned, call[p].coins) \in [Sellers -> Nat]
    BY <2>1, <2>2, GrantsAddUp DEF EarnedShares
  <2>4. e \in Nat /\ r \in Nat
    BY <2>2, <2>3
  <2> QED BY <2>4
<1>2. new = [NoOrder EXCEPT !.workflow = "open", !.status = "live", !.coupon = k,
               !.earned = e, !.earnedCredited = g, !.redeemed = r]
  BY DEF Placed
<1> HIDE DEF e, r, g, k, new
<1>3. /\ new \in Order /\ new.redeemed = r /\ new.earned = e
      /\ new.redeemedReversed = FALSE /\ new.cancellationReversalApplied = FALSE
  BY <1>1, <1>2 DEF NoOrder, Order
<1> QED BY <1>3 DEF new, r, e

LEMMA CoinsPlaceCommits ==
  ASSUME CoinsInv, NEW p \in Placements, PlaceCommits(p)
  PROVE  CoinsInv'
<1> DEFINE of == <<p, 0>>
           coins == call[p].coins
           granted == GrantNow(call[p].earned)
           spend == Movement("REDEEM", of, coins)
           grant == Movement("EARN", of, granted)
           step == IF call[p].coupon /\ ~engine THEN "counting" ELSE "done"
           a == Row("REDEEM", of, coins)
           b == Row("EARN", of, granted)
<1>1. /\ call[p].pc = "placing" /\ Ends(p, step) /\ settings' = settings
      /\ order' = [o \in Orders |-> IF o[1] = p THEN Placed(p, o[2]) ELSE order[o]]
      /\ rows' = (rows \cup spend) \cup grant
      /\ balance' = IF Wallet \in call[p].writes
                    THEN call[p].balance - coins + granted ELSE balance
      /\ used' = IF Coupon \in call[p].writes /\ call[p].used < UsageLimit
                 THEN call[p].used + 1 ELSE used
  BY DEF PlaceCommits, At
<1>2. /\ p \in Calls /\ TypeOK /\ RowsIn(rows) /\ balance = Net(rows) /\ balance \in Nat
      /\ used \in Nat /\ order \in [Orders -> Order]
      /\ call[p].balance \in Nat /\ coins \in Nat /\ call[p].used \in Nat
      /\ call[p].earned \in Nat
  BY CallsApart, CallTyped DEF CoinsInv, TypeOK
<1>3. /\ coins <= CoinsPerPaisa * Total
      /\ (Wallet \in call[p].writes <=> coins > 0 \/ granted > 0)
      /\ (Wallet \in call[p].writes => coins <= call[p].balance /\ call[p].balance = balance)
  BY <1>1, <1>2 DEF CoinsInv, CallKept
<1>4. /\ \A i \in Sellers : order[<<p, i>>] = NoOrder
      /\ \A x \in rows : x.of[1] # p
  BY <1>1 DEF CoinsInv, Untouched
<1>5. used' \in Nat
  BY <1>1, <1>2
<1>6. granted \in Nat
  BY <1>2 DEF GrantNow
<1>7. of \in Subjects /\ of[1] = p
  BY LoyaltyAssumption DEF Subjects
<1>8. /\ step \in {"idle", "done", "counting"} /\ step \in {"done", "counting"}
  OBVIOUS
<1> HIDE DEF of, coins, granted, step
<1>9. /\ OneRow(rows, spend, a)
      /\ a.type = "REDEEM" /\ a.of = of /\ a.coins = coins
  BY <1>2, <1>7, MovementRow
<1>10. /\ OneRow(rows, grant, b)
       /\ b.type = "EARN" /\ b.of = of /\ b.coins = granted
  BY <1>6, <1>7, MovementRow
<1>11. OneRow(rows \cup spend, grant, b)
  <2>1. b \notin spend
    BY <1>9, <1>10 DEF OneRow
  <2> QED BY <1>10, <2>1 DEF OneRow
<1>12. (spend # {} <=> coins # 0) /\ (grant # {} <=> granted # 0)
  <2>1. ASSUME NEW type PROVE ~Recorded(type, of)
    BY <1>4, <1>7 DEF Recorded
  <2> QED BY <2>1 DEF Movement, Recorded
<1> HIDE DEF spend, grant, a, b
<1>13. RowsIn(rows \cup spend) /\ RowsIn(rows')
  BY <1>1, <1>2, <1>9, <1>11, RowsGrow
<1>14. /\ balance' = Net(rows') /\ balance' \in Nat
       /\ (balance' = balance \/ Wallet \in call[p].writes)
  <2>1. Net(rows \cup spend) = Net(rows) + (IF spend = {} THEN 0 ELSE Sign(a))
    BY <1>2, <1>9, NetGrows
  <2>2. /\ Net(rows \cup spend) \in Int
        /\ Net(rows') = Net(rows \cup spend) + (IF grant = {} THEN 0 ELSE Sign(b))
    BY <1>1, <1>11, <1>13, NetGrows
  <2>3. Sign(a) = 0 - coins /\ Sign(b) = granted
    BY <1>9, <1>10 DEF Sign
  <2>4. Net(rows') = balance - coins + granted
    BY <1>2, <1>6, <1>12, <2>1, <2>2, <2>3
  <2>5. CASE Wallet \in call[p].writes
    BY <1>1, <1>2, <1>3, <1>6, <2>4, <2>5
  <2>6. CASE Wallet \notin call[p].writes
    BY <1>1, <1>2, <1>3, <1>6, <2>4, <2>6
  <2> QED BY <2>5, <2>6
<1>15. /\ order' \in [Orders -> Order]
       /\ \A i \in Sellers : order'[<<p, i>>] = Placed(p, i)
       /\ \A o \in Orders : o[1] # p => order'[o] = order[o]
  <2>1. \A o \in Orders : o[1] = p => o[2] \in Sellers /\ o = <<p, o[2]>>
    BY OrderIsPair
  <2>2. \A i \in Sellers : Placed(p, i) \in Order
    BY <1>2, <1>3, PlacedTyped DEF coins
  <2>3. \A i \in Sellers : <<p, i>> \in Orders
    BY OrderOfPlacement
  <2> QED BY <1>1, <1>2, <2>1, <2>2, <2>3
<1>16. /\ TypeOK' /\ \A d \in Calls : CallKept(d)'
       /\ \A x \in Placements \ {p} : Refused(x) \/ call'[x] = call[x]
       /\ call'[p].pc \in {"done", "counting"}
  <2>1. \A o \in Orders : o \in call[p].writes \/ order'[o] = order[o] \/ order[o] = NoOrder
    <3> TAKE o \in Orders
    <3>1. o[1] = p => order[o] = NoOrder
      BY <1>4, OrderIsPair
    <3> QED BY <1>15, <3>1
  <2> QED BY <1>1, <1>2, <1>5, <1>8, <1>14, <1>15, <2>1, CommitsKept
<1>17. \A x \in rows' : \/ x \in rows
                        \/ x = a /\ spend # {}
                        \/ x = b /\ grant # {}
  BY <1>1, <1>9, <1>11 DEF OneRow
<1>18. /\ About(rows', "REDEEM", of) = spend /\ Moved(About(rows', "REDEEM", of)) = coins
       /\ About(rows', "EARN", of) = grant /\ Moved(About(rows', "EARN", of)) = granted
       /\ \A type, x : x # of => About(rows', type, x) = About(rows, type, x)
  <2> DEFINE base == rows \cup spend
  <2>1. /\ OneRow(base, grant, b) /\ rows' = base \cup grant
        /\ About(rows, "REDEEM", of) = {} /\ About(rows, "EARN", of) = {}
    BY <1>1, <1>4, <1>7, <1>11 DEF About
  <2>2. /\ About(base, "REDEEM", of) = spend
        /\ Moved(About(base, "REDEEM", of)) = IF spend = {} THEN 0 ELSE coins
    <3>1. OneRow(rows, spend, a) /\ About(rows, a.type, a.of) = {}
      BY <1>9, <2>1
    <3>2. /\ About(base, a.type, a.of) = spend
          /\ spend = {} => Moved(About(base, a.type, a.of)) = 0
          /\ spend # {} => Moved(About(base, a.type, a.of)) = a.coins
      BY <3>1, AboutOne
    <3> HIDE DEF base
    <3> QED BY <1>9, <3>2
  <2>3. About(base, "EARN", of) = {}
    BY <1>9, <2>1, AboutStays
  <2>4. \A type, x : x # of => About(base, type, x) = About(rows, type, x)
    BY <1>9, AboutStays
  <2> HIDE DEF base
  <2>5. /\ About(rows', "EARN", of) = grant
        /\ Moved(About(rows', "EARN", of)) = IF grant = {} THEN 0 ELSE granted
    <3>1. OneRow(base, grant, b) /\ About(base, b.type, b.of) = {}
      BY <1>10, <2>1, <2>3
    <3>2. /\ About(base \cup grant, b.type, b.of) = grant
          /\ grant = {} => Moved(About(base \cup grant, b.type, b.of)) = 0
          /\ grant # {} => Moved(About(base \cup grant, b.type, b.of)) = b.coins
      BY <3>1, AboutOne
    <3> QED BY <1>10, <2>1, <3>2
  <2>6. About(rows', "REDEEM", of) = About(base, "REDEEM", of)
    BY <1>10, <2>1, AboutStays
  <2>7. \A type, x : x # of => About(rows', type, x) = About(base, type, x)
    BY <1>10, <2>1, AboutStays
  <2> QED BY <1>12, <2>2, <2>4, <2>5, <2>6, <2>7
<1>19. creditOn' = creditOn
  BY <1>1 DEF settings
<1>20. SpentRecorded(p)' /\ GrantRecorded(p)'
  <2> DEFINE f == [i \in Sellers |-> order'[<<p, i>>].redeemed]
             g == [i \in Sellers |-> order'[<<p, i>>].earned]
             u == RedeemedShares(coins)
             v == EarnedShares(call[p].earned, coins)
  <2>1. u \in [Sellers -> Nat] /\ ToPay(coins) \in [Sellers -> Nat]
    BY <1>2, <1>3, SharesTyped
  <2>2. v \in [Sellers -> Nat] /\ Sum(v, Sellers) = call[p].earned
    BY <1>2, <2>1, GrantsAddUp DEF EarnedShares
  <2>3. \A i \in Sellers : /\ order'[<<p, i>>].redeemed = u[i]
                           /\ order'[<<p, i>>].earned = v[i]
    BY <1>2, <1>3, <1>15, PlacedTyped DEF coins
  <2>4. f = u /\ g = v
    <3> HIDE DEF u, v
    <3> QED BY <2>1, <2>2, <2>3
  <2>5. /\ Moved(RowsOf("REDEEM", <<p, 0>>)') = coins
        /\ Moved(RowsOf("EARN", <<p, 0>>)') = granted
    BY <1>18, RowsOfIs DEF of
  <2>6. \/ Paise(coins) = 0 /\ Sum(u, Sellers) = 0
        \/ coins <= Sum(u, Sellers) /\ 2 * (Sum(u, Sellers) - coins) <= NumSellers - 1
    BY <1>2, <1>3, SharesNear
  <2>7. creditOn = "PLACEMENT" => granted = call[p].earned
    BY DEF granted, GrantNow
  <2> HIDE DEF u, v
  <2>8. SpentRecorded(p)'
    BY <2>4, <2>5, <2>6 DEF SpentRecorded
  <2>9. GrantRecorded(p)'
    BY <1>19, <2>2, <2>4, <2>5, <2>7 DEF GrantRecorded
  <2> QED BY <2>8, <2>9
<1>21. ASSUME NEW x \in Placements, x # p
       PROVE  Untouched(x)' /\ SpentRecorded(x)' /\ GrantRecorded(x)'
  <2>1. \A i \in Sellers : order'[<<x, i>>] = order[<<x, i>>]
    BY <1>15, <1>21, OrderOfPlacement
  <2>2. /\ RowsOf("REDEEM", <<x, 0>>)' = RowsOf("REDEEM", <<x, 0>>)
        /\ RowsOf("EARN", <<x, 0>>)' = RowsOf("EARN", <<x, 0>>)
    <3>1. <<x, 0>> # of
      BY <1>21 DEF of
    <3> QED BY <1>18, <3>1, RowsOfIs
  <2>4. SpentRecorded(x)' /\ GrantRecorded(x)'
    BY <1>19, <2>1, <2>2, RecordedKept DEF CoinsInv
  <2>5. \A r \in rows' : r \in rows \/ r.of[1] # x
    BY <1>7, <1>9, <1>10, <1>17, <1>21
  <2> QED BY <1>16, <1>21, <2>1, <2>4, <2>5, UntouchedKept
<1>22. Untouched(p)'
  BY <1>16 DEF Untouched
<1>23. ASSUME NEW x \in Orders PROVE HandedBack(x)'
  <2>1. RowsOf("REVERSAL", x)' = RowsOf("REVERSAL", x)
    <3>1. x # of
      BY OrderIsPair DEF of
    <3> QED BY <1>18, <3>1, RowsOfIs
  <2>2. CASE x[1] = p
    <3>1. /\ x = <<p, x[2]>> /\ x[2] \in Sellers
      BY <2>2, OrderIsPair
    <3>2. ~order'[x].redeemedReversed /\ ~order'[x].cancellationReversalApplied
      BY <1>2, <1>3, <1>15, <3>1, PlacedTyped DEF coins
    <3>3. RowsOf("REVERSAL", x) = {}
      BY <1>4, <2>2 DEF RowsOf
    <3> QED BY <2>1, <3>2, <3>3 DEF HandedBack
  <2>3. CASE x[1] # p
    <3>1. order'[x] = order[x]
      BY <1>15, <2>3
    <3> QED BY <2>1, <3>1, HandedBackKept DEF CoinsInv
  <2> QED BY <2>2, <2>3
<1> QED BY <1>13, <1>14, <1>16, <1>20, <1>21, <1>22, <1>23 DEF CoinsInv

LEMMA CoinsNext ==
  ASSUME CoinsInv, [Next]_vars
  PROVE  CoinsInv'
<1>1. CASE \E p \in Placements :
             PlaceBegins(p) \/ PlaceCommits(p) \/ CountsUse(p) \/ UseNotCounted(p)
  BY <1>1, CoinsPlaceBegins, CoinsPlaceCommits, CoinsUse
<1>2. CASE CouponUsedElsewhere
  BY <1>2, CoinsElsewhere
<1>3. CASE \E o \in Orders : Deliver(o) \/ Cancel(o)
  BY <1>3, CoinsMoves DEF Deliver, Cancel
<1>4. CASE \E s \in Settlers : SettleBegins(s) \/ SettleCommits(s)
  BY <1>4, CoinsSettleBegins, CoinsSettleCommits
<1>5. CASE \E r \in Reversers : ReverseBegins(r) \/ ReverseCommits(r)
  BY <1>5, CoinsReverseBegins, CoinsReverseCommits
<1>6. CASE \E c \in Calls : Aborts(c)
  BY <1>6, CoinsAborts
<1>7. CASE UNCHANGED vars
  <2>1. /\ engine' = engine /\ creditOn' = creditOn /\ used' = used /\ order' = order
        /\ call' = call /\ balance' = balance /\ rows' = rows
    BY <1>7 DEF vars, settings
  <2>2. TypeOK' /\ RowsIn(rows') /\ balance' = Net(rows')
    BY <2>1 DEF CoinsInv, TypeOK
  <2>3. \A c \in Calls : CallKept(c)'
    BY <2>1 DEF CoinsInv, CallKept, GrantNow, Grants, HandsBack, TakesBack
  <2>4. \A p \in Placements : Untouched(p)' /\ SpentRecorded(p)' /\ GrantRecorded(p)'
    BY <2>1 DEF CoinsInv, Untouched, SpentRecorded, GrantRecorded, RowsOf
  <2>5. \A o \in Orders : HandedBack(o)'
    BY <2>1 DEF CoinsInv, HandedBack, RowsOf
  <2> QED BY <2>2, <2>3, <2>4, <2>5 DEF CoinsInv
<1> QED
  BY <1>1, <1>2, <1>3, <1>4, <1>5, <1>6, <1>7 DEF Next

(***************************************************************************)
(* The theorems.                                                             *)
(***************************************************************************)
LEMMA CoinsInvariant == Spec => []CoinsInv
<1>1. Init => CoinsInv
  BY CoinsInitially
<1>2. CoinsInv /\ [Next]_vars => CoinsInv'
  BY CoinsNext
<1> QED
  BY <1>1, <1>2, PTL DEF Spec

\* No amount of an order and no balance is ever negative or a fraction: neither
\* the rounding of the shares of placeOrderAtomic nor the taking back of a grant
\* that is spent already (reverseOrderFinanceOnCancellation) gets below zero.
THEOREM TypeCorrect == Spec => []TypeOK
<1>1. CoinsInv => TypeOK
  BY DEF CoinsInv
<1> QED
  BY <1>1, CoinsInvariant, PTL

\* The wallet agrees with its CoinTransactions whatever the shares are and for
\* whichever orders the finance endpoint is called: every transaction writes the
\* balance that it has read and the row for the difference, and a write conflict
\* refuses the one that has read an old balance.
THEOREM WalletCorrect ==
  Spec => [](balance = StartCoins + Moved(Credits(rows)) - Moved(Debits(rows)))
<1>1. CoinsInv => balance = StartCoins + Moved(Credits(rows)) - Moved(Debits(rows))
  BY DEF CoinsInv, Net
<1> QED
  BY <1>1, CoinsInvariant, PTL

\* The accounts of CoinsAccounted are right for any number of sellers, any totals
\* and any worth of a coin, and for whichever orders the finance endpoint is called:
\* the wallet agrees with its rows, an order hands back what it records, once and
\* in full, and what the orders of a checkout record of its coins and its grant is
\* what it was, but for the rounding.
THEOREM CoinsCorrect == Spec => []CoinsAccounted
<1>1. CoinsInv => CoinsAccounted
  BY AccountsFollow
<1> QED
  BY <1>1, CoinsInvariant, PTL
================================================================================
