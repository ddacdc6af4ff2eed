----------------------------- MODULE PaymentProofs -----------------------------
(***************************************************************************)
(* Proofs about Payment, for every number of orders and payments, any calls,   *)
(* any number of faults, and both kinds of webhook.                            *)
(***************************************************************************)
EXTENDS Payment, FiniteSetTheorems, TLAPS

(***************************************************************************)
(* The inductive invariant. What it says of an order or a call is said of a    *)
(* given state of the orders, so that it can be said of the next one.          *)
(***************************************************************************)
Captured(ord, o) == ord[o].onlinePaymentCaptured
Cancelled(ord, o) == ord[o].workflowStatus = "CANCELLED"

\* The ledger agrees with the marks on the order, and an order that is alive
\* has its stock.
Books(ord, led, o) ==
  /\ led[o].in = IF Captured(ord, o) THEN 1 ELSE 0
  /\ led[o].out \in {0, 1}
  /\ led[o].out = 1 =>
       Captured(ord, o) /\ Cancelled(ord, o) /\ ord[o].cancellationReversalApplied
  /\ ~Cancelled(ord, o) => ord[o].stock = "held"
  /\ ord[o].workflowStatus = "SELLER_PENDING" => Captured(ord, o)

\* What a call that applies a capture has done so far.
CaptureFits(q, ord) ==
  /\ q.pc \in {"finance", "credit", "move"} =>
       q.at \in Orders /\ \A o \in Orders : o < q.at => Captured(ord, o)
  /\ q.pc = "move" => Captured(ord, q.at)
  /\ q.pc = "paid" => \A o \in Orders : Captured(ord, o)

\* A compensation is for a cancelled order.
CancelFits(q, ord) ==
  q.pc \in {"stock", "activity", "reverse", "refund"} => q.at \in Orders /\ Cancelled(ord, q.at)

\* What an open transaction has read is still so unless it is marked as stale.
ReadFits(q, ord) ==
  /\ q.pc = "credit" => q.at \in q.writes /\ (~q.stale => ~Captured(ord, q.at))
  /\ q.pc = "cancel" =>
       q.writes \subseteq Orders
         /\ (~q.stale => \A o \in q.writes : ord[o].workflowStatus = "CREATED")
  /\ q.pc = "refund" =>
       q.at \in q.writes /\ (~q.stale => ~ord[q.at].cancellationReversalApplied)

Numbered(q) ==
  q.pc \in {"initiate", "insert", "ask", "find", "save"} => q.n \in Payments

Fits(q, ord) ==
  CaptureFits(q, ord) /\ CancelFits(q, ord) /\ ReadFits(q, ord) /\ Numbered(q)

Inv ==
  /\ TypeOK
  /\ \A o \in Orders : Books(order, ledger, o)
  /\ PaidGroupIsBooked
  /\ \A c \in Calls : Fits(call[c], order)

(***************************************************************************)
(* Types.                                                                    *)
(***************************************************************************)
LEMMA IdleType == Idle \in Call
BY BoundAssumption DEF Idle, Call, Steps, GatewayStates

\* The types of everything but the calls.
StoreTypes ==
  /\ order \in [Orders -> Order]
  /\ group \in {"PAYMENT_PENDING", "PAID", "CANCELLED"}
  /\ ledger \in [Orders -> [in : Nat, out : Nat]]
  /\ payment \in [Payments -> PAYMENT_STATUS \cup {"none"}]
  /\ gateway \in [Payments -> GatewayStates]
  /\ sent \subseteq Messages /\ due \subseteq sent
  /\ events \subseteq Messages \cup (Payments \X {"transaction"})
  /\ faults \in 0..MaxFaults

LEMMA CallFields ==
  ASSUME TypeOK, NEW c \in Calls
  PROVE  /\ call[c] \in Call
         /\ call[c].pc \in Steps /\ call[c].n \in 0..MaxPayments
         /\ call[c].held \in PAYMENT_STATUS \cup {"none"}
         /\ call[c].state \in GatewayStates
         /\ call[c].at \in 0..NumOrders /\ call[c].writes \subseteq 0..NumOrders
         /\ call[c].stale \in BOOLEAN
BY DEF TypeOK, Call

LEMMA OrderFields ==
  ASSUME TypeOK, NEW o \in Orders
  PROVE  /\ order[o] \in Order
         /\ order[o].workflowStatus \in WORKFLOW
         /\ order[o].onlinePaymentCaptured \in BOOLEAN
         /\ order[o].cancellationReversalApplied \in BOOLEAN
         /\ ledger[o].in \in Nat /\ ledger[o].out \in Nat
BY DEF TypeOK, Order

\* A call record keeps its type when fields are overwritten.
LEMMA CallUpdates ==
  ASSUME NEW q \in Call, NEW p \in Steps, NEW n \in 0..MaxPayments,
         NEW h \in PAYMENT_STATUS \cup {"none"}, NEW s \in GatewayStates,
         NEW a \in 0..NumOrders, NEW w \in SUBSET (0..NumOrders), NEW b \in BOOLEAN
  PROVE  /\ [q EXCEPT !.pc = p] \in Call
         /\ [q EXCEPT !.stale = b] \in Call
         /\ [q EXCEPT !.pc = p, !.writes = w, !.stale = b] \in Call
         /\ [q EXCEPT !.pc = p, !.n = n] \in Call
         /\ [q EXCEPT !.pc = p, !.n = n, !.held = h] \in Call
         /\ [q EXCEPT !.pc = p, !.n = n, !.state = s] \in Call
         /\ [q EXCEPT !.pc = p, !.state = s] \in Call
         /\ [q EXCEPT !.pc = p, !.held = h] \in Call
         /\ [q EXCEPT !.pc = p, !.at = a] \in Call
BY DEF Call

LEMMA InvInit == Init => Inv
<1> SUFFICES ASSUME Init PROVE Inv
  OBVIOUS
<1>1. TypeOK
  <2>1. call \in [Calls -> Call]
    BY IdleType DEF Init
  <2> QED
    BY <2>1, BoundAssumption DEF Init, TypeOK, Order, WORKFLOW, ORDER_PAYMENT_STATUS, GatewayStates
<1>2. ASSUME NEW o \in Orders PROVE Books(order, ledger, o)
  BY DEF Init, Books, Captured, Cancelled
<1>3. PaidGroupIsBooked
  BY DEF Init, PaidGroupIsBooked
<1>4. ASSUME NEW c \in Calls PROVE Fits(call[c], order)
  BY DEF Init, Idle, Fits, CaptureFits, CancelFits, ReadFits, Numbered
<1> QED
  BY <1>1, <1>2, <1>3, <1>4 DEF Inv

(***************************************************************************)
(* Every step is a step of one call, or of the world outside.                *)
(***************************************************************************)
\* Nothing that was captured or cancelled ceases to be so.
Onward ==
  \A o \in Orders : /\ Captured(order, o) => Captured(order', o)
                    /\ Cancelled(order, o) => Cancelled(order', o)

LEMMA OneMoves ==
  ASSUME Inv, StoreTypes', NEW c \in Calls, NEW q \in Call, NEW W,
         Becomes(c, q, W), Onward,
         \A o \in Orders \ W : order'[o] = order[o],
         \A o \in Orders : Books(order', ledger', o),
         PaidGroupIsBooked', Fits(q, order')
  PROVE  Inv'
<1>1. ASSUME NEW d \in Calls
      PROVE  /\ call'[d] \in Call
             /\ Fits(call'[d], order')
  <2>1. CASE d = c
    BY <2>1 DEF Becomes
  <2>2. CASE d # c /\ InTransaction(d) /\ call[d].writes \cap W # {}
    <3>1. call'[d] = [call[d] EXCEPT !.stale = TRUE]
      BY <2>2 DEF Becomes
    <3>2. call[d] \in Call
      BY CallFields DEF Inv
    <3>3. call'[d] \in Call
      BY <3>1, <3>2 DEF Call
    <3>4. /\ call'[d].pc = call[d].pc /\ call'[d].at = call[d].at
          /\ call'[d].writes = call[d].writes /\ call'[d].stale
          /\ call'[d].n = call[d].n
      BY <3>1, <3>2, <3>3 DEF Call
    <3>5. Fits(call[d], order)
      BY DEF Inv
    <3> QED
      BY <3>3, <3>4, <3>5 DEF Onward, Fits, CaptureFits, CancelFits, ReadFits, Numbered
  <2>3. CASE d # c /\ ~(InTransaction(d) /\ call[d].writes \cap W # {})
    <3>1. call'[d] = call[d]
      BY <2>3 DEF Becomes
    <3>2. call[d] \in Call /\ Fits(call[d], order)
      BY CallFields DEF Inv
    <3>3. InTransaction(d) => \A o \in Orders : o \in call[d].writes => order'[o] = order[o]
      BY <2>3
    <3>4. ReadFits(call[d], order')
      BY <3>2, <3>3 DEF InTransaction, Fits, ReadFits, CaptureFits, CancelFits, Captured
    <3> QED
      BY <3>1, <3>2, <3>4 DEF Onward, Fits, CaptureFits, CancelFits, Numbered
  <2> QED
    BY <2>1, <2>2, <2>3
<1>2. call' \in [Calls -> Call]
  BY <1>1 DEF Becomes
<1>3. TypeOK'
  BY <1>2 DEF StoreTypes, TypeOK
<1> QED
  BY <1>1, <1>3 DEF Inv

\* A step that leaves the books as they are.
LEMMA OnlyOneMoves ==
  ASSUME Inv, StoreTypes', NEW c \in Calls, NEW q \in Call,
         Becomes(c, q, {}), UNCHANGED books, Fits(q, order)
  PROVE  Inv'
<1>1. order' = order /\ ledger' = ledger /\ group' = group
  BY DEF books
<1>2. Onward /\ PaidGroupIsBooked'
  BY <1>1 DEF Inv, Onward, PaidGroupIsBooked
<1> QED
  BY <1>1, <1>2, OneMoves DEF Inv

LEMMA NoneMoves ==
  ASSUME Inv, StoreTypes', UNCHANGED <<books, call>>
  PROVE  Inv'
BY DEF Inv, StoreTypes, TypeOK, books, PaidGroupIsBooked

LEMMA SameTypes ==
  ASSUME TypeOK
  PROVE  /\ StoreTypes
         /\ UNCHANGED <<books, payment, outside, events, faults>> => StoreTypes'
BY DEF TypeOK, StoreTypes, books, outside

\* The end of a call, however it comes, fits every state of the orders.
LEMMA IdleFits == \A ord : Fits(Idle, ord)
BY DEF Idle, Fits, CaptureFits, CancelFits, ReadFits, Numbered
(***************************************************************************)
(* The steps before the result is known.                                     *)
(***************************************************************************)
LEMMA EndsQuietly ==
  ASSUME Inv, StoreTypes', UNCHANGED books, NEW c \in Calls, Becomes(c, Idle, {})
  PROVE  Inv'
BY IdleType, IdleFits, OnlyOneMoves

LEMMA CreateSteps ==
  ASSUME Inv, NEW c \in Calls,
         CreateBegins(c) \/ CreateLooks(c) \/ CreateCounts(c) \/ Initiates(c) \/ Inserts(c)
  PROVE  Inv'
<1> DEFINE p == call[c]
<1>1. /\ p \in Call /\ Fits(p, order) /\ TypeOK /\ StoreTypes
  BY CallFields, SameTypes DEF Inv
<1>2. ASSUME NEW s \in {"look", "count", "insert"}, Goes(c, s), UNCHANGED books, StoreTypes',
             s = "insert" => p.n \in Payments
      PROVE  Inv'
  <2> DEFINE q == [p EXCEPT !.pc = s]
  <2>1. q \in Call
    BY <1>1 DEF Call, Steps
  <2>2. q.pc = s /\ q.n = p.n
    BY <1>1 DEF Call
  <2>3. Fits(q, order)
    BY <1>2, <2>2 DEF Fits, CaptureFits, CancelFits, ReadFits, Numbered
  <2>4. Becomes(c, q, {})
    BY <1>2 DEF Goes
  <2> HIDE DEF q
  <2> QED
    BY <1>2, <2>1, <2>3, <2>4, OnlyOneMoves
<1>3. CASE CreateBegins(c)
  BY <1>1, <1>2, <1>3, SameTypes DEF CreateBegins, books
<1>4. CASE CreateLooks(c)
  <2>1. UNCHANGED books /\ StoreTypes'
    BY <1>1, <1>4 DEF CreateLooks, StoreTypes, Returns, books
  <2> QED
    BY <1>2, <1>4, <2>1, EndsQuietly DEF CreateLooks, Returns
<1>5. CASE CreateCounts(c)
  <2> DEFINE k == Cardinality(Made) + 1
             q == [p EXCEPT !.pc = "initiate", !.n = k]
  <2>1. k \in Payments
    <3>1. IsFiniteSet(Payments)
      BY BoundAssumption, FS_Interval DEF Payments
    <3>2. Cardinality(Made) \in Nat
      BY <3>1, FS_Subset, FS_CardinalityType DEF Made
    <3> QED
      BY <1>5, <3>2, BoundAssumption DEF CreateCounts, Payments
  <2>2. Becomes(c, q, {})
    BY <1>5 DEF CreateCounts
  <2> HIDE DEF k
  <2>n. k \in 0..MaxPayments
    BY <2>1, BoundAssumption DEF Payments
  <2>3. q \in Call
    BY <1>1, <2>n DEF Call, Steps
  <2>a. q.pc = "initiate" /\ q.n = k
    BY <1>1 DEF Call
  <2>4. Fits(q, order)
    BY <2>1, <2>a DEF Fits, CaptureFits, CancelFits, ReadFits, Numbered
  <2>5. UNCHANGED books /\ StoreTypes'
    BY <1>1, <1>5, SameTypes DEF CreateCounts
  <2> HIDE DEF q
  <2> QED
    BY <2>2, <2>3, <2>4, <2>5, OnlyOneMoves
<1>6. CASE Initiates(c)
  <2>1. p.n \in Payments
    BY <1>1, <1>6 DEF Initiates, At, Fits, Numbered
  <2>2. gateway' \in [Payments -> GatewayStates]
    BY <1>1, <1>6 DEF Initiates, StoreTypes, GatewayStates
  <2>3. UNCHANGED books /\ StoreTypes'
    BY <1>1, <1>6, <2>2 DEF Initiates, StoreTypes, Throws, books
  <2> QED
    BY <1>2, <1>6, <2>1, <2>3, EndsQuietly DEF Initiates, Throws
<1>7. CASE Inserts(c)
  <2>1. payment' \in [Payments -> PAYMENT_STATUS \cup {"none"}]
    BY <1>1, <1>7 DEF Inserts, StoreTypes, PAYMENT_STATUS
  <2>2. UNCHANGED books /\ StoreTypes'
    BY <1>1, <1>7, <2>1 DEF Inserts, StoreTypes, Returns, books
  <2> QED
    BY <1>7, <2>2, EndsQuietly DEF Inserts, Returns
<1> QED
  BY <1>3, <1>4, <1>5, <1>6, <1>7

LEMMA GatewaySteps ==
  ASSUME Inv, NEW n \in Payments, GatewayDecides(n) \/ GatewayTells(n)
  PROVE  Inv'
<1>1. StoreTypes
  BY SameTypes DEF Inv
<1>2. UNCHANGED <<books, call>> /\ StoreTypes'
  BY <1>1 DEF GatewayDecides, GatewayTells, StoreTypes, GatewayStates, Messages, books
<1> QED
  BY <1>2, NoneMoves

LEMMA InternalType ==
  ASSUME NEW s \in GatewayStates
  PROVE  Internal(s) \in PAYMENT_STATUS /\ SideEffects[Internal(s)] \in {"finance", "failure", "pending"}
BY DEF Internal, GatewayStates, PAYMENT_STATUS, SideEffects

LEMMA ResultSteps ==
  ASSUME Inv, NEW c \in Calls,
         \/ \E n \in Payments : VerifyBegins(c, n)
         \/ VerifyAsks(c) \/ WebhookFinds(c) \/ Saves(c)
         \/ c \in Messages /\ Deliver(c)
  PROVE  Inv'
<1> DEFINE p == call[c]
<1>1. /\ p \in Call /\ Fits(p, order) /\ TypeOK /\ StoreTypes
      /\ p.state \in GatewayStates
  BY CallFields, SameTypes DEF Inv
<1>2. ASSUME NEW q \in Call, Becomes(c, q, {}), UNCHANGED books, StoreTypes',
             q.pc \in {"ask", "find", "save"}, q.n \in Payments
      PROVE  Inv'
  <2>1. Fits(q, order)
    BY <1>2 DEF Fits, CaptureFits, CancelFits, ReadFits, Numbered
  <2> QED
    BY <1>2, <2>1, OnlyOneMoves
<1>3. ASSUME NEW n \in Payments, VerifyBegins(c, n) PROVE Inv'
  <2> DEFINE h == payment[n]
             q == [p EXCEPT !.pc = "ask", !.n = n, !.held = h]
  <2>h. h \in PAYMENT_STATUS \cup {"none"}
    BY <1>1 DEF StoreTypes
  <2>n. n \in 0..MaxPayments
    BY BoundAssumption DEF Payments
  <2>2. Becomes(c, q, {}) /\ UNCHANGED books /\ StoreTypes'
    BY <1>1, <1>3, SameTypes DEF VerifyBegins
  <2> HIDE DEF h
  <2>q. q \in Call
    BY <1>1, <2>h, <2>n DEF Call, Steps
  <2>1. q.pc = "ask" /\ q.n = n
    BY <1>1 DEF Call
  <2> HIDE DEF q
  <2> QED
    BY <1>2, <2>q, <2>1, <2>2
<1>4. CASE VerifyAsks(c)
  <2> DEFINE q == [p EXCEPT !.pc = "save", !.state = gateway[p.n]]
  <2>1. p.n \in Payments
    BY <1>1, <1>4 DEF VerifyAsks, At, Fits, Numbered
  <2>2. q \in Call /\ q.pc = "save" /\ q.n = p.n
    BY <1>1, <2>1 DEF Call, Steps, StoreTypes
  <2>3. Becomes(c, q, {}) /\ UNCHANGED books /\ StoreTypes'
    BY <1>1, <1>4, SameTypes DEF VerifyAsks
  <2> HIDE DEF q
  <2> QED
    BY <1>2, <2>1, <2>2, <2>3
<1>5. CASE WebhookFinds(c)
  <2> DEFINE q == [p EXCEPT !.pc = "save", !.held = payment[p.n]]
  <2>1. p.n \in Payments
    BY <1>1, <1>5 DEF WebhookFinds, At, Fits, Numbered
  <2>2. q \in Call /\ q.pc = "save" /\ q.n = p.n
    BY <1>1, <2>1 DEF Call, Steps, StoreTypes
  <2>3. UNCHANGED books /\ StoreTypes'
    BY <1>1, <1>5 DEF WebhookFinds, Returns, StoreTypes, books
  <2>4. Becomes(c, q, {}) \/ Becomes(c, Idle, {})
    BY <1>5 DEF WebhookFinds, Returns
  <2> HIDE DEF q
  <2> QED
    BY <1>2, <2>1, <2>2, <2>3, <2>4, EndsQuietly
<1>6. CASE Saves(c)
  <2> DEFINE next == Internal(p.state)
             q == [p EXCEPT !.pc = SideEffects[next], !.at = 1]
  <2>1. p.n \in Payments
    BY <1>1, <1>6 DEF Saves, At, Fits, Numbered
  <2>2. next \in PAYMENT_STATUS /\ SideEffects[next] \in {"finance", "failure", "pending"}
    BY <1>1, InternalType
  <2>3. UNCHANGED books /\ StoreTypes'
    <3>1. /\ payment' = payment \/ payment' = [payment EXCEPT ![p.n] = next]
          /\ UNCHANGED <<order, group, ledger, gateway, sent, events, faults, due>>
      BY <1>6 DEF Saves, Throws, books
    <3> QED
      BY <1>1, <2>2, <3>1 DEF StoreTypes, books
  <2>4. Becomes(c, q, {}) \/ Becomes(c, Idle, {})
    BY <1>6 DEF Saves, Throws
  <2> HIDE DEF next
  <2>5. 1 \in Orders
    BY BoundAssumption DEF Orders
  <2>s. SideEffects[next] \in Steps /\ 1 \in 0..NumOrders
    BY <2>2, BoundAssumption DEF Steps
  <2>c. q \in Call
    BY <1>1, <2>s DEF Call
  <2>6. q.pc \in {"finance", "failure", "pending"} /\ q.at = 1
    BY <1>1, <2>2 DEF Call
  <2>7. Fits(q, order)
    BY <2>5, <2>6 DEF Fits, CaptureFits, CancelFits, ReadFits, Numbered, Orders
  <2> HIDE DEF q
  <2> QED
    BY <2>3, <2>4, <2>c, <2>7, OnlyOneMoves, EndsQuietly
<1>7. CASE c \in Messages /\ Deliver(c)
  <2> DEFINE q == [Idle EXCEPT !.pc = "find", !.n = c[1], !.state = c[2]]
  <2>1. c[1] \in Payments /\ c[2] \in GatewayStates
    BY <1>7 DEF Messages, GatewayStates
  <2>n. c[1] \in 0..MaxPayments
    BY <2>1, BoundAssumption DEF Payments
  <2>q. q \in Call
    BY <2>1, <2>n, IdleType DEF Call, Steps
  <2>2. q.pc = "find" /\ q.n = c[1]
    BY DEF Idle
  <2>3. UNCHANGED books /\ StoreTypes'
    <3>1. EventId(c) \in Messages \cup (Payments \X {"transaction"})
      BY <1>7, <2>1 DEF EventId
    <3> QED
      BY <1>1, <1>7, <3>1 DEF Deliver, Returns, StoreTypes, books
  <2>4. Becomes(c, q, {}) \/ Becomes(c, Idle, {})
    BY <1>7 DEF Deliver, Returns
  <2> HIDE DEF q
  <2> QED
    BY <1>2, <2>1, <2>q, <2>2, <2>3, <2>4, EndsQuietly
<1> QED
  BY <1>3, <1>4, <1>5, <1>6, <1>7

(***************************************************************************)
(* A captured payment.                                                       *)
(***************************************************************************)
\* What becomes of an order when the fields that these calls write are written.
LEMMA CapturedOrder ==
  ASSUME NEW r \in Order
  PROVE  LET x == [r EXCEPT !.onlinePaymentCaptured = TRUE, !.paymentStatus = "PAID"]
         IN  /\ x \in Order
             /\ x.onlinePaymentCaptured /\ x.stock = r.stock
             /\ x.workflowStatus = r.workflowStatus
             /\ x.cancellationReversalApplied = r.cancellationReversalApplied
BY DEF Order, ORDER_PAYMENT_STATUS

LEMMA CaptureSteps ==
  ASSUME Inv, NEW c \in Calls,
         FinanceBegins(c) \/ FinanceCommits(c) \/ Moves(c) \/ GroupPaid(c)
  PROVE  Inv'
<1> DEFINE p == call[c]
<1>1. /\ p \in Call /\ Fits(p, order) /\ TypeOK /\ StoreTypes
      /\ p.writes \in SUBSET (0..NumOrders)
  BY CallFields, SameTypes DEF Inv
<1>2. CASE FinanceBegins(c)
  <2>1. p.at \in Orders /\ p.pc = "finance"
    BY <1>1, <1>2 DEF FinanceBegins, At, Fits, CaptureFits
  <2>2. UNCHANGED books /\ StoreTypes'
    BY <1>1, <1>2, SameTypes DEF FinanceBegins
  <2>3. CASE order[p.at].onlinePaymentCaptured
    <3> DEFINE q == [p EXCEPT !.pc = "move"]
    <3>1. q \in Call
      BY <1>1 DEF Call, Steps
    <3>2. q.pc = "move" /\ q.at = p.at
      BY <1>1 DEF Call
    <3>3. Becomes(c, q, {})
      BY <1>2, <2>3 DEF FinanceBegins, Goes
    <3>4. Fits(q, order)
      BY <1>1, <2>1, <2>3, <3>2
      DEF Fits, CaptureFits, CancelFits, ReadFits, Numbered, Captured
    <3> HIDE DEF q
    <3> QED
      BY <2>2, <3>1, <3>3, <3>4, OnlyOneMoves
  <2>4. CASE ~order[p.at].onlinePaymentCaptured
    <3> DEFINE w == {AdminWallet, p.at}
               q == [p EXCEPT !.pc = "credit", !.writes = w, !.stale = FALSE]
    <3>1. w \in SUBSET (0..NumOrders) /\ "credit" \in Steps /\ p.at \in w
      BY <2>1, BoundAssumption DEF AdminWallet, Orders, Steps
    <3>2. Becomes(c, q, {})
      BY <1>2, <2>4 DEF FinanceBegins, Opens
    <3> HIDE DEF w
    <3>3. q \in Call
      BY <1>1, <3>1 DEF Call
    <3>a. q.pc = "credit" /\ q.writes = w /\ q.at = p.at
      BY <1>1 DEF Call
    <3> HIDE DEF q
    <3>4. Fits(q, order)
      BY <1>1, <2>1, <2>4, <3>1, <3>a
      DEF Fits, CaptureFits, CancelFits, ReadFits, Numbered, Captured
    <3> QED
      BY <2>2, <3>2, <3>3, <3>4, OnlyOneMoves
  <2> QED
    BY <2>3, <2>4
<1>3. CASE FinanceCommits(c)
  <2> DEFINE a == p.at
             q == [p EXCEPT !.pc = "move", !.writes = {}, !.stale = FALSE]
  <2>1. /\ a \in Orders /\ a \in p.writes /\ ~Captured(order, a)
        /\ \A o \in Orders : o < a => Captured(order, o)
    BY <1>1, <1>3 DEF FinanceCommits, At, Fits, CaptureFits, ReadFits
  <2>2. q \in Call
    BY <1>1 DEF Call, Steps
  <2>a. q.pc = "move" /\ q.at = a
    BY <1>1 DEF Call
  <2>3. Becomes(c, q, p.writes)
    BY <1>3 DEF FinanceCommits, Leaves
  <2> HIDE DEF q
  <2>4. /\ order' = [order EXCEPT ![a].onlinePaymentCaptured = TRUE, ![a].paymentStatus = "PAID"]
        /\ ledger' = [ledger EXCEPT ![a].in = @ + 1]
        /\ UNCHANGED <<group, payment, gateway, sent, due, events, faults>>
    BY <1>3 DEF FinanceCommits, outside
  <2> HIDE DEF a
  <2>5. order \in [Orders -> Order] /\ ledger \in [Orders -> [in : Nat, out : Nat]]
    BY <1>1 DEF StoreTypes
  <2>6. ASSUME NEW o \in Orders, o # a PROVE order'[o] = order[o] /\ ledger'[o] = ledger[o]
    BY <2>4, <2>5, <2>6
  <2>7. /\ order'[a] = [order[a] EXCEPT !.onlinePaymentCaptured = TRUE, !.paymentStatus = "PAID"]
        /\ ledger'[a] = [ledger[a] EXCEPT !.in = @ + 1]
        /\ order[a] \in Order /\ ledger[a] \in [in : Nat, out : Nat]
    BY <2>1, <2>4, <2>5
  <2>8. /\ Captured(order', a) /\ order'[a].workflowStatus = order[a].workflowStatus
        /\ order'[a].stock = order[a].stock
        /\ order'[a].cancellationReversalApplied = order[a].cancellationReversalApplied
        /\ ledger'[a].in = ledger[a].in + 1 /\ ledger'[a].out = ledger[a].out
        /\ order'[a] \in Order /\ ledger'[a] \in [in : Nat, out : Nat]
    <3>1. /\ ledger'[a].in = ledger[a].in + 1 /\ ledger'[a].out = ledger[a].out
          /\ ledger'[a] \in [in : Nat, out : Nat]
      BY <2>7
    <3> DEFINE x == [order[a] EXCEPT !.onlinePaymentCaptured = TRUE, !.paymentStatus = "PAID"]
    <3>2. /\ x \in Order
          /\ x.onlinePaymentCaptured /\ x.stock = order[a].stock
          /\ x.workflowStatus = order[a].workflowStatus
          /\ x.cancellationReversalApplied = order[a].cancellationReversalApplied
      <4>1. order[a] \in Order
        BY <2>7
      <4> QED
        BY <4>1, CapturedOrder
    <3>3. order'[a] = x
      BY <2>7
    <3> HIDE DEF x
    <3> QED
      BY <3>1, <3>2, <3>3 DEF Captured
  <2>9. StoreTypes'
    <3>1. order' \in [Orders -> Order] /\ ledger' \in [Orders -> [in : Nat, out : Nat]]
      BY <2>4, <2>5, <2>6, <2>8
    <3> QED
      BY <1>1, <2>4, <3>1 DEF StoreTypes
  <2>10. Onward
    BY <2>6, <2>8 DEF Onward, Captured, Cancelled
  <2>11. ASSUME NEW o \in Orders PROVE Books(order', ledger', o)
    <3>1. Books(order, ledger, o)
      BY DEF Inv
    <3> QED
      BY <2>1, <2>6, <2>8, <3>1 DEF Books, Captured, Cancelled
  <2>12. PaidGroupIsBooked'
    BY <2>4, <2>10 DEF Inv, PaidGroupIsBooked, Onward, Captured
  <2>13. Fits(q, order')
    BY <2>1, <2>a, <2>6, <2>8 DEF Fits, CaptureFits, CancelFits, ReadFits, Numbered, Captured
  <2>14. \A o \in Orders \ p.writes : order'[o] = order[o]
    BY <2>1, <2>6
  <2> QED
    BY <2>2, <2>3, <2>9, <2>10, <2>11, <2>12, <2>13, <2>14, OneMoves
<1>4. CASE Moves(c)
  <2> DEFINE a == p.at
             moves == order[a].workflowStatus = "CREATED"
             W == IF moves THEN {a} ELSE {}
             q == IF a < NumOrders THEN [p EXCEPT !.pc = "finance", !.at = a + 1]
                  ELSE [p EXCEPT !.pc = "paid"]
  <2>1. /\ a \in Orders /\ Captured(order, a)
        /\ \A o \in Orders : o < a => Captured(order, o)
    BY <1>1, <1>4 DEF Moves, At, Fits, CaptureFits
  <2>2. /\ Becomes(c, q, W)
        /\ order' = IF moves THEN [order EXCEPT ![a].workflowStatus = "SELLER_PENDING"] ELSE order
        /\ UNCHANGED <<group, ledger, payment, gateway, sent, due, events, faults>>
    BY <1>4 DEF Moves, outside
  <2>3. q \in Call
    <3>1. CASE a < NumOrders
      <4>1. a + 1 \in 0..NumOrders
        BY <2>1, <3>1, BoundAssumption DEF Orders
      <4> HIDE DEF a
      <4> QED
        BY <1>1, <3>1, <4>1 DEF Call, Steps
    <3>2. CASE ~(a < NumOrders)
      BY <1>1, <3>2 DEF Call, Steps
    <3> QED
      BY <3>1, <3>2
  <2>4. \/ q.pc = "finance" /\ q.at = a + 1 /\ a < NumOrders
        \/ q.pc = "paid" /\ ~(a < NumOrders)
    BY <1>1 DEF Call
  <2> HIDE DEF a, q
  <2>5. order \in [Orders -> Order]
    BY <1>1 DEF StoreTypes
  <2>6. ASSUME NEW o \in Orders
        PROVE  /\ o \notin W => order'[o] = order[o]
               /\ order'[o] \in Order
               /\ order'[o].onlinePaymentCaptured = order[o].onlinePaymentCaptured
               /\ order'[o].stock = order[o].stock
               /\ order'[o].cancellationReversalApplied = order[o].cancellationReversalApplied
               /\ \/ order'[o].workflowStatus = order[o].workflowStatus
                  \/ /\ order[o].workflowStatus = "CREATED" /\ o = a
                     /\ order'[o].workflowStatus = "SELLER_PENDING"
    <3>1. order[o] \in Order
      BY <2>5
    <3>2. CASE moves /\ o = a
      <4>1. order'[o] = [order[o] EXCEPT !.workflowStatus = "SELLER_PENDING"]
        BY <2>2, <2>5, <3>2
      <4>2. order'[o] \in Order
        BY <3>1, <4>1 DEF Order, WORKFLOW
      <4>3. /\ order'[o].workflowStatus = "SELLER_PENDING" /\ order'[o].stock = order[o].stock
            /\ order'[o].onlinePaymentCaptured = order[o].onlinePaymentCaptured
            /\ order'[o].cancellationReversalApplied = order[o].cancellationReversalApplied
        BY <3>1, <4>1 DEF Order
      <4>4. o = a /\ o \in W /\ order[o].workflowStatus = "CREATED"
        BY <3>2
      <4> HIDE DEF W
      <4> QED
        BY <4>2, <4>3, <4>4
    <3>3. CASE ~(moves /\ o = a)
      <4>1. order'[o] = order[o]
        BY <2>2, <2>5, <3>3
      <4> QED
        BY <3>1, <4>1
    <3> QED
      BY <3>2, <3>3
  <2>7. StoreTypes'
    <3>1. order' \in [Orders -> Order]
      BY <2>2, <2>5, <2>6
    <3> QED
      BY <1>1, <2>2, <3>1 DEF StoreTypes
  <2>8. Onward
    BY <2>6 DEF Onward, Captured, Cancelled
  <2>9. ASSUME NEW o \in Orders PROVE Books(order', ledger', o)
    <3>1. Books(order, ledger, o)
      BY DEF Inv
    <3> QED
      BY <2>1, <2>2, <2>6, <3>1 DEF Books, Captured, Cancelled
  <2>10. PaidGroupIsBooked'
    BY <2>2, <2>8 DEF Inv, PaidGroupIsBooked, Onward, Captured
  <2>11. Fits(q, order')
    <3>1. CASE q.pc = "finance"
      <4>1. \A o \in Orders : o < q.at => Captured(order', o)
        BY <2>1, <2>4, <2>6, <3>1, BoundAssumption DEF Captured, Orders
      <4>2. q.at \in Orders
        BY <2>1, <2>4, <3>1, BoundAssumption DEF Orders
      <4> QED
        BY <3>1, <4>1, <4>2 DEF Fits, CaptureFits, CancelFits, ReadFits, Numbered
    <3>2. CASE q.pc = "paid"
      <4>1. \A o \in Orders : Captured(order, o)
        BY <2>1, <2>4, <3>2, BoundAssumption DEF Orders
      <4> QED
        BY <2>8, <3>2, <4>1 DEF Onward, Fits, CaptureFits, CancelFits, ReadFits, Numbered
    <3> QED
      BY <2>4, <3>1, <3>2
  <2> HIDE DEF W
  <2> QED
    BY <2>2, <2>3, <2>6, <2>7, <2>8, <2>9, <2>10, <2>11, OneMoves
<1>5. CASE GroupPaid(c)
  <2>1. \A o \in Orders : Captured(order, o)
    BY <1>1, <1>5 DEF GroupPaid, At, Fits, CaptureFits
  <2>2. /\ group' = "PAID" /\ due' \subseteq due /\ Becomes(c, Idle, {})
        /\ UNCHANGED <<order, ledger, payment, gateway, sent, events, faults>>
    BY <1>5 DEF GroupPaid, Returns
  <2>3. StoreTypes'
    BY <1>1, <2>2 DEF StoreTypes
  <2>4. Onward /\ PaidGroupIsBooked' /\ \A o \in Orders : Books(order', ledger', o)
    BY <2>1, <2>2 DEF Onward, PaidGroupIsBooked, Captured, Inv
  <2> QED
    BY <2>2, <2>3, <2>4, IdleType, IdleFits, OneMoves
<1> QED
  BY <1>2, <1>3, <1>4, <1>5

(***************************************************************************)
(* A failed or a pending payment.                                            *)
(***************************************************************************)
LEMMA FailureSteps ==
  ASSUME Inv, NEW c \in Calls,
         FailureBegins(c) \/ FailureCommits(c) \/ GroupFails(c) \/ PendingWrites(c)
  PROVE  Inv'
<1> DEFINE p == call[c]
<1>1. /\ p \in Call /\ Fits(p, order) /\ TypeOK /\ StoreTypes
      /\ order \in [Orders -> Order]
  BY CallFields, SameTypes DEF Inv, TypeOK
<1>2. CASE FailureBegins(c)
  <2> DEFINE w == {o \in Orders : order[o].workflowStatus = "CREATED"}
             q == [p EXCEPT !.pc = "cancel", !.writes = w, !.stale = FALSE]
  <2>1. UNCHANGED books /\ StoreTypes' /\ Becomes(c, q, {})
    BY <1>1, <1>2, SameTypes DEF FailureBegins, Opens
  <2>2. w \in SUBSET (0..NumOrders) /\ w \subseteq Orders
        /\ \A o \in w : order[o].workflowStatus = "CREATED"
    BY DEF Orders
  <2> HIDE DEF w
  <2>3. q \in Call
    BY <1>1, <2>2 DEF Call, Steps
  <2>4. q.pc = "cancel" /\ q.writes = w
    BY <1>1 DEF Call
  <2> HIDE DEF q
  <2>5. Fits(q, order)
    BY <2>2, <2>4 DEF Fits, CaptureFits, CancelFits, ReadFits, Numbered
  <2> QED
    BY <2>1, <2>3, <2>5, OnlyOneMoves
<1>3. CASE FailureCommits(c)
  <2> DEFINE w == p.writes
             q == [p EXCEPT !.pc = "unpaid", !.writes = {}, !.stale = FALSE]
  <2>1. w \subseteq Orders /\ \A o \in w : order[o].workflowStatus = "CREATED"
    BY <1>1, <1>3 DEF FailureCommits, At, Fits, ReadFits
  <2>2. q \in Call
    BY <1>1 DEF Call, Steps
  <2>3. q.pc = "unpaid"
    BY <1>1 DEF Call
  <2>4. /\ Becomes(c, q, w)
        /\ order' = [o \in Orders |->
             IF o \in w
             THEN [order[o] EXCEPT !.workflowStatus = "CANCELLED", !.paymentStatus = "FAILED",
                                   !.stock = "released"]
             ELSE order[o]]
        /\ UNCHANGED <<group, ledger, payment, gateway, sent, due, events, faults>>
    BY <1>3 DEF FailureCommits, Leaves, outside
  <2> HIDE DEF w, q
  <2>5. ASSUME NEW o \in Orders
        PROVE  /\ order'[o] \in Order
               /\ order'[o].onlinePaymentCaptured = order[o].onlinePaymentCaptured
               /\ order'[o].cancellationReversalApplied = order[o].cancellationReversalApplied
               /\ o \notin w => order'[o] = order[o]
               /\ o \in w => order'[o].workflowStatus = "CANCELLED"
    <3>1. order[o] \in Order
      BY <1>1
    <3>2. CASE o \in w
      <4>1. order'[o] = [order[o] EXCEPT !.workflowStatus = "CANCELLED",
                                         !.paymentStatus = "FAILED", !.stock = "released"]
        BY <2>4, <3>2
      <4>2. order'[o] \in Order /\ order'[o].workflowStatus = "CANCELLED"
        BY <3>1, <4>1 DEF Order, WORKFLOW, ORDER_PAYMENT_STATUS
      <4>3. /\ order'[o].onlinePaymentCaptured = order[o].onlinePaymentCaptured
            /\ order'[o].cancellationReversalApplied = order[o].cancellationReversalApplied
        BY <3>1, <4>1 DEF Order
      <4> QED
        BY <3>2, <4>2, <4>3
    <3>3. CASE o \notin w
      <4>1. order'[o] = order[o]
        BY <2>4, <3>3
      <4> QED
        BY <3>1, <3>3, <4>1
    <3> QED
      BY <3>2, <3>3
  <2>6. StoreTypes'
    <3>1. order' \in [Orders -> Order]
      BY <2>4, <2>5
    <3> QED
      BY <1>1, <2>4, <3>1 DEF StoreTypes
  <2>7. Onward
    BY <2>5 DEF Onward, Captured, Cancelled
  <2>8. ASSUME NEW o \in Orders PROVE Books(order', ledger', o)
    <3>1. Books(order, ledger, o) /\ ledger' = ledger
      BY <2>4 DEF Inv
    <3>2. CASE o \in w
      BY <2>5, <3>1, <3>2 DEF Books, Captured, Cancelled
    <3>3. CASE o \notin w
      BY <2>5, <3>1, <3>3 DEF Books, Captured, Cancelled
    <3> QED
      BY <3>2, <3>3
  <2>9. PaidGroupIsBooked'
    BY <2>4, <2>7 DEF Inv, PaidGroupIsBooked, Onward, Captured
  <2>10. Fits(q, order')
    BY <2>3 DEF Fits, CaptureFits, CancelFits, ReadFits, Numbered
  <2> QED
    BY <2>2, <2>4, <2>5, <2>6, <2>7, <2>8, <2>9, <2>10, OneMoves
<1>4. CASE GroupFails(c)
  <2>1. /\ group' = "CANCELLED" /\ due' \subseteq due /\ Becomes(c, Idle, {})
        /\ UNCHANGED <<order, ledger, payment, gateway, sent, events, faults>>
    BY <1>4 DEF GroupFails, Returns
  <2>2. StoreTypes'
    BY <1>1, <2>1 DEF StoreTypes
  <2>3. Onward /\ PaidGroupIsBooked' /\ \A o \in Orders : Books(order', ledger', o)
    BY <2>1 DEF Onward, PaidGroupIsBooked, Inv
  <2> QED
    BY <2>1, <2>2, <2>3, IdleType, IdleFits, OneMoves
<1>5. CASE PendingWrites(c)
  <2>1. /\ Becomes(c, Idle, Orders) /\ due' \subseteq due
        /\ order' = [o \in Orders |-> [order[o] EXCEPT !.paymentStatus = "CREATED"]]
        /\ UNCHANGED <<group, ledger, payment, gateway, sent, events, faults>>
    BY <1>5 DEF PendingWrites, Returns
  <2>2. ASSUME NEW o \in Orders
        PROVE  /\ order'[o] \in Order
               /\ order'[o].onlinePaymentCaptured = order[o].onlinePaymentCaptured
               /\ order'[o].cancellationReversalApplied = order[o].cancellationReversalApplied
               /\ order'[o].workflowStatus = order[o].workflowStatus
               /\ order'[o].stock = order[o].stock
    <3>1. order[o] \in Order /\ order'[o] = [order[o] EXCEPT !.paymentStatus = "CREATED"]
      BY <1>1, <2>1
    <3> QED
      BY <3>1 DEF Order, ORDER_PAYMENT_STATUS
  <2>3. StoreTypes'
    <3>1. order' \in [Orders -> Order]
      BY <2>1, <2>2
    <3> QED
      BY <1>1, <2>1, <3>1 DEF StoreTypes
  <2>4. Onward
    BY <2>2 DEF Onward, Captured, Cancelled
  <2>5. ASSUME NEW o \in Orders PROVE Books(order', ledger', o)
    <3>1. Books(order, ledger, o)
      BY DEF Inv
    <3> QED
      BY <2>1, <2>2, <3>1 DEF Books, Captured, Cancelled
  <2>6. PaidGroupIsBooked'
    BY <2>1, <2>4 DEF Inv, PaidGroupIsBooked, Onward, Captured
  <2> QED
    BY <2>1, <2>3, <2>4, <2>5, <2>6, IdleType, IdleFits, OneMoves
<1> QED
  BY <1>2, <1>3, <1>4, <1>5

(***************************************************************************)
(* A cancellation and its compensation.                                      *)
(***************************************************************************)
LEMMA CancellationSteps ==
  ASSUME Inv, NEW c \in Calls,
         (\E o \in Orders : CancelOrder(c, o)) \/ ReleaseStock(c) \/ GroupFollows(c)
  PROVE  Inv'
<1> DEFINE p == call[c]
<1>1. /\ p \in Call /\ Fits(p, order) /\ TypeOK /\ StoreTypes
      /\ order \in [Orders -> Order]
  BY CallFields, SameTypes DEF Inv, TypeOK
<1>2. ASSUME NEW a \in Orders, CancelOrder(c, a) PROVE Inv'
  <2> DEFINE q == [p EXCEPT !.pc = "stock", !.at = a]
  <2>1. a \in 0..NumOrders
    BY BoundAssumption DEF Orders
  <2>2. q \in Call
    BY <1>1, <2>1 DEF Call, Steps
  <2>3. q.pc = "stock" /\ q.at = a
    BY <1>1 DEF Call
  <2>4. /\ order[a].workflowStatus # "CANCELLED"
        /\ order' = [order EXCEPT ![a].workflowStatus = "CANCELLED"]
        /\ Becomes(c, q, {a})
        /\ UNCHANGED <<group, ledger, payment, gateway, sent, due, events, faults>>
    BY <1>2 DEF CancelOrder, outside
  <2> HIDE DEF q
  <2>5. /\ \A o \in Orders \ {a} : order'[o] = order[o]
        /\ order'[a] = [order[a] EXCEPT !.workflowStatus = "CANCELLED"]
        /\ order[a] \in Order
    BY <1>1, <2>4
  <2>6. order'[a] \in Order
    BY <2>5 DEF Order, WORKFLOW
  <2>7. /\ order'[a].onlinePaymentCaptured = order[a].onlinePaymentCaptured
        /\ order'[a].cancellationReversalApplied = order[a].cancellationReversalApplied
        /\ order'[a].workflowStatus = "CANCELLED"
    BY <2>5 DEF Order
  <2>8. StoreTypes'
    <3>1. order' \in [Orders -> Order]
      BY <1>1, <2>4, <2>5, <2>6
    <3> QED
      BY <1>1, <2>4, <3>1 DEF StoreTypes
  <2>9. Onward
    BY <2>5, <2>7 DEF Onward, Captured, Cancelled
  <2>10. ASSUME NEW o \in Orders PROVE Books(order', ledger', o)
    <3>1. Books(order, ledger, o)
      BY DEF Inv
    <3> QED
      BY <2>4, <2>5, <2>7, <3>1 DEF Books, Captured, Cancelled
  <2>11. PaidGroupIsBooked'
    BY <2>4, <2>9 DEF Inv, PaidGroupIsBooked, Onward, Captured
  <2>12. Fits(q, order')
    BY <2>3, <2>7 DEF Fits, CaptureFits, CancelFits, ReadFits, Numbered, Cancelled
  <2> QED
    BY <2>2, <2>4, <2>5, <2>8, <2>9, <2>10, <2>11, <2>12, OneMoves
<1>3. CASE ReleaseStock(c)
  <2> DEFINE a == p.at
             q == [p EXCEPT !.pc = "activity"]
  <2>1. a \in Orders /\ Cancelled(order, a)
    BY <1>1, <1>3 DEF ReleaseStock, At, Fits, CancelFits
  <2>2. q \in Call
    BY <1>1 DEF Call, Steps
  <2>3. q.pc = "activity" /\ q.at = a
    BY <1>1 DEF Call
  <2>4. /\ order' = [order EXCEPT ![a].stock = "released"]
        /\ Becomes(c, q, {a})
        /\ UNCHANGED <<group, ledger, payment, gateway, sent, due, events, faults>>
    BY <1>3 DEF ReleaseStock, outside
  <2> HIDE DEF a, q
  <2>5. /\ \A o \in Orders \ {a} : order'[o] = order[o]
        /\ order'[a] = [order[a] EXCEPT !.stock = "released"]
        /\ order[a] \in Order
    BY <1>1, <2>1, <2>4
  <2>6. order'[a] \in Order
    BY <2>5 DEF Order
  <2>7. /\ order'[a].onlinePaymentCaptured = order[a].onlinePaymentCaptured
        /\ order'[a].cancellationReversalApplied = order[a].cancellationReversalApplied
        /\ order'[a].workflowStatus = order[a].workflowStatus
    BY <2>5 DEF Order
  <2>8. StoreTypes'
    <3>1. order' \in [Orders -> Order]
      BY <1>1, <2>4, <2>5, <2>6
    <3> QED
      BY <1>1, <2>4, <3>1 DEF StoreTypes
  <2>9. Onward
    BY <2>5, <2>7 DEF Onward, Captured, Cancelled
  <2>10. ASSUME NEW o \in Orders PROVE Books(order', ledger', o)
    <3>1. Books(order, ledger, o)
      BY DEF Inv
    <3> QED
      BY <2>1, <2>4, <2>5, <2>7, <3>1 DEF Books, Captured, Cancelled
  <2>11. PaidGroupIsBooked'
    BY <2>4, <2>9 DEF Inv, PaidGroupIsBooked, Onward, Captured
  <2>12. Fits(q, order')
    BY <2>1, <2>3, <2>9 DEF Onward, Fits, CaptureFits, CancelFits, ReadFits, Numbered
  <2> QED
    BY <2>2, <2>4, <2>5, <2>8, <2>9, <2>10, <2>11, <2>12, OneMoves
<1>4. CASE GroupFollows(c)
  <2> DEFINE q == [p EXCEPT !.pc = "reverse"]
  <2>1. p.at \in Orders /\ Cancelled(order, p.at)
    BY <1>1, <1>4 DEF GroupFollows, At, Fits, CancelFits
  <2>2. q \in Call
    BY <1>1 DEF Call, Steps
  <2>3. q.pc = "reverse" /\ q.at = p.at
    BY <1>1 DEF Call
  <2>4. /\ group' \in {group, "CANCELLED"} /\ Becomes(c, q, {})
        /\ UNCHANGED <<order, ledger, payment, gateway, sent, due, events, faults>>
    BY <1>4 DEF GroupFollows, Goes, outside
  <2> HIDE DEF q
  <2>5. StoreTypes'
    BY <1>1, <2>4 DEF StoreTypes
  <2>6. Onward /\ PaidGroupIsBooked' /\ \A o \in Orders : Books(order', ledger', o)
    BY <2>4 DEF Onward, PaidGroupIsBooked, Inv
  <2>7. Fits(q, order')
    BY <2>1, <2>3, <2>4 DEF Fits, CaptureFits, CancelFits, ReadFits, Numbered
  <2> QED
    BY <2>2, <2>4, <2>5, <2>6, <2>7, OneMoves
<1> QED
  BY <1>2, <1>3, <1>4

LEMMA ReversalSteps ==
  ASSUME Inv, NEW c \in Calls, ReversalBegins(c) \/ ReversalCommits(c)
  PROVE  Inv'
<1> DEFINE p == call[c]
           a == p.at
<1>1. /\ p \in Call /\ Fits(p, order) /\ TypeOK /\ StoreTypes
      /\ order \in [Orders -> Order] /\ ledger \in [Orders -> [in : Nat, out : Nat]]
  BY CallFields, SameTypes DEF Inv, TypeOK
<1>2. CASE ReversalBegins(c)
  <2>1. a \in Orders /\ Cancelled(order, a)
    BY <1>1, <1>2 DEF ReversalBegins, At, Fits, CancelFits
  <2>2. UNCHANGED books /\ StoreTypes'
    BY <1>1, <1>2 DEF ReversalBegins, Returns, StoreTypes, books
  <2>3. CASE order[a].cancellationReversalApplied
    BY <1>2, <2>2, <2>3, EndsQuietly DEF ReversalBegins, Returns
  <2>4. CASE ~order[a].cancellationReversalApplied
    <3> DEFINE w == IF order[a].onlinePaymentCaptured THEN {AdminWallet, a} ELSE {a}
               q == [p EXCEPT !.pc = "refund", !.writes = w, !.stale = FALSE]
    <3>1. w \in SUBSET (0..NumOrders) /\ a \in w
      BY <2>1, BoundAssumption DEF AdminWallet, Orders
    <3>2. Becomes(c, q, {})
      BY <1>2, <2>4 DEF ReversalBegins, Opens
    <3> HIDE DEF w
    <3>3. q \in Call
      BY <1>1, <3>1 DEF Call, Steps
    <3>4. q.pc = "refund" /\ q.writes = w /\ q.at = a
      BY <1>1 DEF Call
    <3> HIDE DEF q
    <3>5. Fits(q, order)
      BY <2>1, <2>4, <3>1, <3>4 DEF Fits, CaptureFits, CancelFits, ReadFits, Numbered
    <3> QED
      BY <2>2, <3>2, <3>3, <3>5, OnlyOneMoves
  <2> QED
    BY <2>3, <2>4
<1>3. CASE ReversalCommits(c)
  <2>1. /\ a \in Orders /\ a \in p.writes /\ Cancelled(order, a)
        /\ ~order[a].cancellationReversalApplied
    BY <1>1, <1>3 DEF ReversalCommits, At, Fits, CancelFits, ReadFits
  <2> DEFINE paid == order[a].onlinePaymentCaptured
  <2>2. /\ Becomes(c, Idle, p.writes) /\ due' \subseteq due
        /\ order' = [order EXCEPT ![a].cancellationReversalApplied = TRUE]
             \/ order' = [order EXCEPT ![a].cancellationReversalApplied = TRUE,
                                       ![a].paymentStatus = "REFUNDED"]
        /\ paid => ledger' = [ledger EXCEPT ![a].out = @ + 1]
        /\ ~paid => ledger' = ledger
        /\ UNCHANGED <<group, payment, gateway, sent, events, faults>>
    BY <1>3 DEF ReversalCommits, Returns
  <2> HIDE DEF a
  <2>3. /\ \A o \in Orders \ {a} : order'[o] = order[o] /\ ledger'[o] = ledger[o]
        /\ order'[a] = [order[a] EXCEPT !.cancellationReversalApplied = TRUE]
             \/ order'[a] = [order[a] EXCEPT !.cancellationReversalApplied = TRUE,
                                             !.paymentStatus = "REFUNDED"]
        /\ order[a] \in Order /\ ledger[a] \in [in : Nat, out : Nat]
    BY <1>1, <2>1, <2>2
  <2>4. order'[a] \in Order
    BY <2>3 DEF Order, ORDER_PAYMENT_STATUS
  <2>5. /\ order'[a].workflowStatus = order[a].workflowStatus
        /\ order'[a].stock = order[a].stock
        /\ order'[a].cancellationReversalApplied
    <3>1. CASE order'[a] = [order[a] EXCEPT !.cancellationReversalApplied = TRUE]
      BY <2>3, <3>1 DEF Order
    <3>2. CASE order'[a] = [order[a] EXCEPT !.cancellationReversalApplied = TRUE,
                                            !.paymentStatus = "REFUNDED"]
      BY <2>3, <3>2 DEF Order
    <3> QED
      BY <2>3, <3>1, <3>2
  <2>6. order'[a].onlinePaymentCaptured = order[a].onlinePaymentCaptured
    BY <2>3 DEF Order
  <2>7. /\ ledger'[a] \in [in : Nat, out : Nat] /\ ledger'[a].in = ledger[a].in
        /\ ledger'[a].out = IF paid THEN ledger[a].out + 1 ELSE ledger[a].out
    <3>1. CASE paid
      <4>1. ledger'[a] = [ledger[a] EXCEPT !.out = @ + 1]
        BY <1>1, <2>1, <2>2, <3>1
      <4> QED
        BY <2>3, <3>1, <4>1
    <3>2. CASE ~paid
      BY <2>2, <2>3, <3>2
    <3> QED
      BY <3>1, <3>2
  <2>8. StoreTypes'
    <3>1. order' \in [Orders -> Order] /\ ledger' \in [Orders -> [in : Nat, out : Nat]]
      BY <1>1, <2>2, <2>3, <2>4, <2>7
    <3> QED
      BY <1>1, <2>2, <3>1 DEF StoreTypes
  <2>9. Onward
    BY <2>3, <2>5, <2>6 DEF Onward, Captured, Cancelled
  <2>10. ASSUME NEW o \in Orders PROVE Books(order', ledger', o)
    <3>1. Books(order, ledger, o)
      BY DEF Inv
    <3>2. CASE o # a
      BY <2>3, <3>1, <3>2 DEF Books, Captured, Cancelled
    <3>3. CASE o = a
      <4>1. ledger[a].out = 0
        BY <2>1, <3>1, <3>3 DEF Books
      <4> HIDE DEF paid
      <4>2. paid => Captured(order', a)
        BY <2>6 DEF Captured, paid
      <4>3. ledger'[a].in = IF Captured(order', a) THEN 1 ELSE 0
        BY <2>6, <2>7, <3>1, <3>3 DEF Books, Captured
      <4> QED
        BY <2>1, <2>5, <2>6, <2>7, <3>1, <3>3, <4>1, <4>2, <4>3 DEF Books, Captured, Cancelled
    <3> QED
      BY <3>2, <3>3
  <2>11. PaidGroupIsBooked'
    BY <2>2, <2>9 DEF Inv, PaidGroupIsBooked, Onward, Captured
  <2>12. \A o \in Orders \ p.writes : order'[o] = order[o]
    BY <2>1, <2>3
  <2> QED
    BY <2>2, <2>8, <2>9, <2>10, <2>11, <2>12, IdleType, IdleFits, OneMoves
<1> QED
  BY <1>2, <1>3

(***************************************************************************)
(* Failures, and the whole next-state relation.                              *)
(***************************************************************************)
LEMMA FaultSteps ==
  ASSUME Inv, NEW c \in Calls, Conflicts(c) \/ Dies(c)
  PROVE  Inv'
<1>1. StoreTypes
  BY SameTypes DEF Inv
<1>2. UNCHANGED books /\ Becomes(c, Idle, {})
  BY DEF Conflicts, Dies, Throws
<1>3. StoreTypes'
  BY <1>1, BoundAssumption DEF Conflicts, Dies, Throws, StoreTypes, books
<1> QED
  BY <1>2, <1>3, EndsQuietly

LEMMA InvNext == Inv /\ [Next]_vars => Inv'
<1> SUFFICES ASSUME Inv, [Next]_vars PROVE Inv'
  OBVIOUS
<1> USE DEF Calls
<1>1. ASSUME NEW c \in Calls, CallStep(c) PROVE Inv'
  <2>1. CASE CreateLooks(c) \/ CreateCounts(c) \/ Initiates(c) \/ Inserts(c)
    BY <2>1, CreateSteps
  <2>2. CASE VerifyAsks(c) \/ WebhookFinds(c) \/ Saves(c)
    BY <2>2, ResultSteps
  <2>3. CASE FinanceBegins(c) \/ FinanceCommits(c) \/ Moves(c) \/ GroupPaid(c)
    BY <2>3, CaptureSteps
  <2>4. CASE FailureBegins(c) \/ FailureCommits(c) \/ GroupFails(c) \/ PendingWrites(c)
    BY <2>4, FailureSteps
  <2>5. CASE ReleaseStock(c) \/ GroupFollows(c)
    BY <2>5, CancellationSteps
  <2>6. CASE ReversalBegins(c) \/ ReversalCommits(c)
    BY <2>6, ReversalSteps
  <2>7. CASE Conflicts(c)
    BY <2>7, FaultSteps
  <2> QED
    BY <1>1, <2>1, <2>2, <2>3, <2>4, <2>5, <2>6, <2>7 DEF CallStep
<1>2. ASSUME NEW c \in Creators, CreateBegins(c) PROVE Inv'
  BY <1>2, CreateSteps
<1>3. ASSUME NEW c \in Verifiers, NEW n \in Payments, VerifyBegins(c, n) PROVE Inv'
  BY <1>3, ResultSteps
<1>4. ASSUME NEW c \in Cancellers, NEW o \in Orders, CancelOrder(c, o) PROVE Inv'
  BY <1>4, CancellationSteps
<1>5. ASSUME NEW m \in Messages, Deliver(m) PROVE Inv'
  BY <1>5, ResultSteps
<1>6. ASSUME NEW n \in Payments, GatewayDecides(n) \/ GatewayTells(n) PROVE Inv'
  BY <1>6, GatewaySteps
<1>7. ASSUME NEW c \in Calls, Dies(c) PROVE Inv'
  BY <1>7, FaultSteps
<1>8. CASE UNCHANGED vars
  <2>1. StoreTypes'
    BY <1>8 DEF Inv, TypeOK, StoreTypes, vars, books, outside
  <2> QED
    BY <1>8, <2>1, NoneMoves DEF vars
<1> QED
  BY <1>1, <1>2, <1>3, <1>4, <1>5, <1>6, <1>7, <1>8 DEF Next

LEMMA Invariance == Spec => []Inv
BY InvInit, InvNext, PTL DEF Spec

(***************************************************************************)
(* What the runs check, for all values of the constants.                     *)
(***************************************************************************)
\* Every variable always holds a value of its type, among them the attempt that
\* a call of paymentService.js works on and the order that its loop is at.
THEOREM TypeCorrect == Spec => []TypeOK
BY Invariance, PTL DEF Inv

\* handleOnlineOrderFinance and reverseOrderFinanceOnCancellation: whatever calls
\* run at once, die or lose a write conflict, the money of an order is booked
\* once and given back at most once.
THEOREM BookedOnceCorrect == Spec => []BookedOnce
<1>1. Inv => BookedOnce
  BY DEF Inv, Books, BookedOnce, Captured
<1> QED
  BY <1>1, Invariance, PTL

\* moveOrderToSellerPendingAfterPayment shows the seller only orders that are
\* booked and still have their stock.
THEOREM SoldIsPaidAndHeldCorrect == Spec => []SoldIsPaidAndHeld
<1>1. Inv => SoldIsPaidAndHeld
  BY DEF Inv, Books, SoldIsPaidAndHeld, Captured, Cancelled
<1> QED
  BY <1>1, Invariance, PTL

\* updateCheckoutGroupPaymentStatus calls a checkout paid only after the last of
\* its orders was booked.
THEOREM PaidGroupIsBookedCorrect == Spec => []PaidGroupIsBooked
BY Invariance, PTL DEF Inv

(***************************************************************************)
(* Payment implements PaidOrder.                                             *)
(***************************************************************************)
Lives == [o \in Orders |-> Life(o)]

\* A step that neither books money nor moves an order says nothing to PaidOrder.
LEMMA Stutters ==
  ASSUME ledger' = ledger,
         \A o \in Orders : order'[o].workflowStatus = order[o].workflowStatus
  PROVE  UNCHANGED Promise!vars
<1>1. \A o \in Orders : Life(o)' = Life(o)
  BY DEF Life
<1> QED
  BY <1>1 DEF Promise!vars

LEMMA InitImplements == Init => Promise!Init
BY DEF Init, Promise!Init, Promise!Nothing, Life

LEMMA CaptureImplements ==
  ASSUME Inv, NEW c \in Calls, FinanceCommits(c)
  PROVE  \E o \in Orders : Promise!Capture(o)
<1>0. PICK a : a = call[c].at
  OBVIOUS
<1>1. a \in Orders /\ ~Captured(order, a)
  BY <1>0 DEF FinanceCommits, At, Inv, Fits, CaptureFits, ReadFits
<1>2. /\ order \in [Orders -> Order] /\ ledger \in [Orders -> [in : Nat, out : Nat]]
      /\ Books(order, ledger, a)
  BY <1>1 DEF Inv, TypeOK
<1>3. /\ order' = [order EXCEPT ![a].onlinePaymentCaptured = TRUE, ![a].paymentStatus = "PAID"]
      /\ ledger' = [ledger EXCEPT ![a].in = @ + 1]
  BY <1>0 DEF FinanceCommits
<1>4. ledger[a] \in [in : Nat, out : Nat] /\ ledger[a].in = 0 /\ ledger[a].out = 0
  BY <1>1, <1>2 DEF Books
<1>5. ledger[a] = [in |-> 0, out |-> 0]
  BY <1>4
<1>6. ledger' = [ledger EXCEPT ![a] = [in |-> 1, out |-> 0]]
  <2>1. [ledger[a] EXCEPT !.in = @ + 1] = [in |-> 1, out |-> 0]
    BY <1>5
  <2> QED
    BY <1>1, <1>2, <1>3, <2>1
<1>7. \A o \in Orders : Life(o)' = Life(o)
  <2>1. ASSUME NEW o \in Orders PROVE order'[o].workflowStatus = order[o].workflowStatus
    <3>1. order[o] \in Order
      BY <1>2
    <3>2. CASE o = a
      <4>1. order'[o] = [order[o] EXCEPT !.onlinePaymentCaptured = TRUE, !.paymentStatus = "PAID"]
        BY <1>2, <1>3, <3>2
      <4> QED
        BY <3>1, <4>1 DEF Order
    <3>3. CASE o # a
      BY <1>2, <1>3, <3>3
    <3> QED
      BY <3>2, <3>3
  <2> QED
    BY <2>1 DEF Life
<1>8. Promise!Capture(a)
  BY <1>5, <1>6, <1>7 DEF Promise!Capture, Promise!Nothing, Promise!Taken
<1> QED
  BY <1>1, <1>8

LEMMA MoveImplements ==
  ASSUME Inv, NEW c \in Calls, Moves(c)
  PROVE  (\E o \in Orders : Promise!Sell(o)) \/ UNCHANGED Promise!vars
<1>0. PICK a : a = call[c].at
  OBVIOUS
<1>1. a \in Orders /\ Captured(order, a)
  BY <1>0 DEF Moves, At, Inv, Fits, CaptureFits
<1>2. /\ order \in [Orders -> Order] /\ ledger \in [Orders -> [in : Nat, out : Nat]]
      /\ Books(order, ledger, a)
  BY <1>1 DEF Inv, TypeOK
<1>3. /\ order' = IF order[a].workflowStatus = "CREATED"
                  THEN [order EXCEPT ![a].workflowStatus = "SELLER_PENDING"] ELSE order
      /\ ledger' = ledger
  BY <1>0 DEF Moves
<1>4. CASE order[a].workflowStatus = "CREATED"
  <2>1. ledger[a] \in [in : Nat, out : Nat] /\ ledger[a].in = 1 /\ ledger[a].out = 0
    BY <1>1, <1>2, <1>4 DEF Books, Cancelled
  <2>2. ledger[a] = [in |-> 1, out |-> 0]
    BY <2>1
  <2>3. order[a] \in Order /\ order'[a] = [order[a] EXCEPT !.workflowStatus = "SELLER_PENDING"]
    BY <1>1, <1>2, <1>3, <1>4
  <2>4. order'[a].workflowStatus = "SELLER_PENDING"
    BY <2>3 DEF Order
  <2>5. Life(a) = "open" /\ Life(a)' = "sold"
    BY <1>4, <2>4 DEF Life
  <2>6. \A o \in Orders : o # a => Life(o)' = Life(o)
    BY <1>2, <1>3, <1>4 DEF Life
  <2>7. Lives' = [Lives EXCEPT ![a] = "sold"]
    BY <1>1, <2>5, <2>6 DEF Lives
  <2>8. Promise!Sell(a)
    BY <1>1, <1>3, <2>2, <2>5, <2>7 DEF Promise!Sell, Promise!Taken, Lives
  <2> QED
    BY <1>1, <2>8
<1>5. CASE order[a].workflowStatus # "CREATED"
  BY <1>3, <1>5, Stutters
<1> QED
  BY <1>4, <1>5

LEMMA CancelsImplement ==
  ASSUME NEW S \in SUBSET Orders, ledger' = ledger,
         \A o \in S : /\ order[o].workflowStatus \in {"CREATED", "SELLER_PENDING"}
                       /\ order'[o].workflowStatus = "CANCELLED",
         \A o \in Orders \ S : order'[o].workflowStatus = order[o].workflowStatus
  PROVE  Promise!Cancel(S)
<1>1. \A o \in S : Life(o) # "cancelled" /\ Life(o)' = "cancelled"
  BY DEF Life
<1>2. \A o \in Orders \ S : Life(o)' = Life(o)
  BY DEF Life
<1> QED
  BY <1>1, <1>2 DEF Promise!Cancel

LEMMA ReversalImplements ==
  ASSUME Inv, NEW c \in Calls, ReversalCommits(c)
  PROVE  (\E o \in Orders : Promise!GiveBack(o)) \/ UNCHANGED Promise!vars
<1> DEFINE a == call[c].at
           paid == order[a].onlinePaymentCaptured
<1>1. /\ a \in Orders /\ Cancelled(order, a) /\ ~order[a].cancellationReversalApplied
  BY DEF ReversalCommits, At, Inv, Fits, CancelFits, ReadFits
<1>2. /\ order \in [Orders -> Order] /\ ledger \in [Orders -> [in : Nat, out : Nat]]
      /\ Books(order, ledger, a)
  BY <1>1 DEF Inv, TypeOK
<1>3. /\ order' = [order EXCEPT ![a].cancellationReversalApplied = TRUE]
           \/ order' = [order EXCEPT ![a].cancellationReversalApplied = TRUE,
                                     ![a].paymentStatus = "REFUNDED"]
      /\ paid => ledger' = [ledger EXCEPT ![a].out = @ + 1]
      /\ ~paid => ledger' = ledger
  BY DEF ReversalCommits
<1> HIDE DEF a
<1>4. ASSUME NEW o \in Orders PROVE order'[o].workflowStatus = order[o].workflowStatus
  <2>1. order[o] \in Order
    BY <1>2
  <2>2. CASE o = a
    <3>1. \/ order'[o] = [order[o] EXCEPT !.cancellationReversalApplied = TRUE]
          \/ order'[o] = [order[o] EXCEPT !.cancellationReversalApplied = TRUE,
                                           !.paymentStatus = "REFUNDED"]
      BY <1>2, <1>3, <2>2
    <3> QED
      BY <2>1, <3>1 DEF Order
  <2>3. CASE o # a
    BY <1>2, <1>3, <2>3
  <2> QED
    BY <2>2, <2>3
<1>5. CASE paid
  <2>1. ledger[a] \in [in : Nat, out : Nat] /\ ledger[a].in = 1 /\ ledger[a].out = 0
    BY <1>1, <1>2, <1>5 DEF Books, Captured
  <2>2. ledger[a] = [in |-> 1, out |-> 0]
    BY <2>1
  <2>3. ledger' = [ledger EXCEPT ![a] = [in |-> 1, out |-> 1]]
    BY <1>1, <1>2, <1>3, <1>5, <2>2
  <2>4. \A o \in Orders : Life(o)' = Life(o)
    BY <1>4 DEF Life
  <2>5. Life(a) = "cancelled"
    BY <1>1 DEF Life, Cancelled
  <2>6. Promise!GiveBack(a)
    BY <1>1, <2>2, <2>3, <2>4, <2>5
    DEF Promise!GiveBack, Promise!Taken, Promise!GivenBack
  <2> QED
    BY <1>1, <2>6
<1>6. CASE ~paid
  BY <1>3, <1>4, <1>6, Stutters
<1> QED
  BY <1>5, <1>6

LEMMA StepImplements == Inv /\ [Next]_vars => [Promise!Next]_(Promise!vars)
<1> SUFFICES ASSUME Inv, [Next]_vars PROVE Promise!Next \/ UNCHANGED Promise!vars
  OBVIOUS
<1> USE DEF Calls
<1>0. order \in [Orders -> Order]
  BY DEF Inv, TypeOK
<1>1. ASSUME UNCHANGED <<order, ledger>> PROVE UNCHANGED Promise!vars
  BY <1>1, Stutters
<1>2. ASSUME NEW c \in Calls, CallStep(c) PROVE Promise!Next \/ UNCHANGED Promise!vars
  <2>1. CASE FinanceCommits(c)
    BY <2>1, CaptureImplements DEF Promise!Next
  <2>2. CASE Moves(c)
    BY <2>2, MoveImplements DEF Promise!Next
  <2>3. CASE ReversalCommits(c)
    BY <2>3, ReversalImplements DEF Promise!Next
  <2>4. CASE FailureCommits(c)
    <3> DEFINE w == call[c].writes
    <3>1. w \in SUBSET Orders /\ \A o \in w : order[o].workflowStatus = "CREATED"
      BY <2>4 DEF FailureCommits, At, Inv, Fits, ReadFits
    <3>2. /\ order' = [o \in Orders |->
               IF o \in w
               THEN [order[o] EXCEPT !.workflowStatus = "CANCELLED", !.paymentStatus = "FAILED",
                                     !.stock = "released"]
               ELSE order[o]]
          /\ ledger' = ledger
      BY <2>4 DEF FailureCommits
    <3> HIDE DEF w
    <3>3. \A o \in w : order'[o].workflowStatus = "CANCELLED"
      <4> SUFFICES ASSUME NEW o \in w PROVE order'[o].workflowStatus = "CANCELLED"
        OBVIOUS
      <4>1. /\ order[o] \in Order
            /\ order'[o] = [order[o] EXCEPT !.workflowStatus = "CANCELLED",
                                            !.paymentStatus = "FAILED", !.stock = "released"]
        BY <1>0, <3>1, <3>2
      <4> QED
        BY <4>1 DEF Order
    <3>4. Promise!Cancel(w)
      BY <3>1, <3>2, <3>3, CancelsImplement
    <3> QED
      BY <3>1, <3>4 DEF Promise!Next
  <2>5. CASE ReleaseStock(c)
    <3>1. ledger' = ledger /\ order' = [order EXCEPT ![call[c].at].stock = "released"]
      BY <2>5 DEF ReleaseStock
    <3>2. ASSUME NEW o \in Orders PROVE order'[o].workflowStatus = order[o].workflowStatus
      <4>1. order[o] \in Order
        BY <1>0
      <4>2. order'[o] = order[o] \/ order'[o] = [order[o] EXCEPT !.stock = "released"]
        BY <1>0, <3>1
      <4> QED
        BY <4>1, <4>2 DEF Order
    <3> QED
      BY <3>1, <3>2, Stutters
  <2>6. CASE PendingWrites(c)
    <3>1. /\ ledger' = ledger
          /\ order' = [o \in Orders |-> [order[o] EXCEPT !.paymentStatus = "CREATED"]]
      BY <2>6 DEF PendingWrites
    <3>2. ASSUME NEW o \in Orders PROVE order'[o].workflowStatus = order[o].workflowStatus
      <4>1. order[o] \in Order /\ order'[o] = [order[o] EXCEPT !.paymentStatus = "CREATED"]
        BY <1>0, <3>1
      <4> QED
        BY <4>1 DEF Order
    <3> QED
      BY <3>1, <3>2, Stutters
  <2>7. CASE CreateLooks(c) \/ CreateCounts(c) \/ Initiates(c) \/ Inserts(c)
    BY <1>1, <2>7 DEF CreateLooks, CreateCounts, Initiates, Inserts, books
  <2>8. CASE VerifyAsks(c) \/ WebhookFinds(c) \/ Saves(c)
    BY <1>1, <2>8 DEF VerifyAsks, WebhookFinds, Saves, books
  <2>9. CASE FinanceBegins(c) \/ GroupPaid(c) \/ FailureBegins(c) \/ GroupFails(c)
              \/ GroupFollows(c) \/ ReversalBegins(c) \/ Conflicts(c)
    BY <1>1, <2>9
    DEF FinanceBegins, GroupPaid, FailureBegins, GroupFails, GroupFollows, ReversalBegins,
        Conflicts, books
  <2> QED
    BY <1>2, <2>1, <2>2, <2>3, <2>4, <2>5, <2>6, <2>7, <2>8, <2>9 DEF CallStep
<1>3. ASSUME NEW c \in Cancellers, NEW a \in Orders, CancelOrder(c, a) PROVE Promise!Next
  <2>1. /\ order[a].workflowStatus # "CANCELLED" /\ ledger' = ledger
        /\ order' = [order EXCEPT ![a].workflowStatus = "CANCELLED"]
    BY <1>3 DEF CancelOrder
  <2>2. order[a] \in Order /\ order'[a] = [order[a] EXCEPT !.workflowStatus = "CANCELLED"]
    BY <1>0, <2>1
  <2>3. order'[a].workflowStatus = "CANCELLED"
    BY <2>2 DEF Order
  <2>4. order[a].workflowStatus \in {"CREATED", "SELLER_PENDING"}
    BY <2>1, <2>2 DEF Order, WORKFLOW
  <2>5. \A o \in Orders \ {a} : order'[o] = order[o]
    BY <1>0, <2>1
  <2>6. Promise!Cancel({a})
    BY <2>1, <2>3, <2>4, <2>5, CancelsImplement
  <2> QED
    BY <2>6 DEF Promise!Next
<1>4. ASSUME (\E c \in Creators : CreateBegins(c))
              \/ (\E c \in Verifiers, n \in Payments : VerifyBegins(c, n))
              \/ (\E m \in Messages : Deliver(m))
              \/ (\E n \in Payments : GatewayDecides(n) \/ GatewayTells(n))
              \/ (\E c \in Calls : Dies(c)) \/ UNCHANGED vars
      PROVE  UNCHANGED Promise!vars
  BY <1>1, <1>4
  DEF CreateBegins, VerifyBegins, Deliver, GatewayDecides, GatewayTells, Dies, vars, books
<1> QED
  BY <1>2, <1>3, <1>4 DEF Next

\* All calls about a checkout, with their transactions, conflicts and deaths, do
\* to each of its orders only what PaidOrder promises.
THEOREM Implementation == Spec => KeepsPromise
<1>1. Init => Promise!Init
  BY InitImplements
<1>2. Inv /\ [Next]_vars => [Promise!Next]_(Promise!vars)
  BY StepImplements
<1> QED
  BY <1>1, <1>2, Invariance, PTL DEF Spec, KeepsPromise, Promise!Spec

(***************************************************************************)
(* The result of a payment.                                                  *)
(***************************************************************************)
Final == {"COMPLETED", "FAILED"}

\* What a call has been told of a payment, if it is a result.
Told(q, gw) == q.pc \in {"find", "save"} /\ q.state \in Final => gw[q.n] = q.state

Results ==
  /\ \A m \in sent : m[2] \in Final => gateway[m[1]] = m[2]
  /\ \A c \in Calls : Told(call[c], gateway)
  /\ \A n \in Payments : payment[n] \in {"CAPTURED", "FAILED"} => payment[n] = Internal(gateway[n])

\* The gateway does not change its mind, and no payment loses its result.
FinalStep ==
  /\ \A n \in Payments : gateway[n] \in Final => gateway'[n] = gateway[n]
  /\ \A n \in Payments : payment[n] \in {"CAPTURED", "FAILED"} => payment'[n] = payment[n]

LEMMA GatewayIsFinal ==
  ASSUME Inv, [Next]_vars
  PROVE  \A n \in Payments : gateway[n] \in Final => gateway'[n] = gateway[n]
<1> SUFFICES ASSUME NEW n \in Payments, gateway[n] \in Final PROVE gateway'[n] = gateway[n]
  OBVIOUS
<1>1. gateway \in [Payments -> GatewayStates]
  BY DEF Inv, TypeOK
<1>2. ASSUME NEW c \in Calls, Initiates(c) PROVE gateway'[n] = gateway[n]
  BY <1>1, <1>2 DEF Initiates, Final
<1>3. ASSUME NEW m \in Payments, GatewayDecides(m) PROVE gateway'[n] = gateway[n]
  BY <1>1, <1>3 DEF GatewayDecides, Final
<1>4. gateway' = gateway \/ (\E c \in Calls : Initiates(c)) \/ (\E m \in Payments : GatewayDecides(m))
  <2>1. ASSUME NEW c \in Calls, CallStep(c), ~Initiates(c) PROVE gateway' = gateway
    BY <2>1
    DEF CallStep, CreateLooks, CreateCounts, Inserts, VerifyAsks, WebhookFinds, Saves,
        FinanceBegins, FinanceCommits, Moves, GroupPaid, FailureBegins, FailureCommits,
        GroupFails, PendingWrites, ReleaseStock, GroupFollows, ReversalBegins,
        ReversalCommits, Conflicts, outside
  <2> QED
    BY <2>1
    DEF Next, CreateBegins, VerifyBegins, CancelOrder, Deliver, GatewayTells, Dies, vars, outside
<1> QED
  BY <1>2, <1>3, <1>4

\* A call that is not told a result by this step knows what it knew.
LEMMA ToldStep ==
  ASSUME Inv, Results, NEW c \in Calls, NEW q, NEW W, Becomes(c, q, W), Told(q, gateway'),
         \A n \in Payments : gateway[n] \in Final => gateway'[n] = gateway[n]
  PROVE  \A d \in Calls : Told(call'[d], gateway')
<1> SUFFICES ASSUME NEW d \in Calls PROVE Told(call'[d], gateway')
  OBVIOUS
<1>1. CASE d = c
  BY <1>1 DEF Becomes
<1>2. CASE d # c
  <2>1. call[d] \in Call /\ Numbered(call[d]) /\ Told(call[d], gateway)
    BY CallFields DEF Inv, Fits, Results
  <2>2. call'[d] = call[d] \/ call'[d] = [call[d] EXCEPT !.stale = TRUE]
    BY <1>2 DEF Becomes
  <2>3. call'[d].pc = call[d].pc /\ call'[d].n = call[d].n /\ call'[d].state = call[d].state
    BY <2>1, <2>2 DEF Call
  <2> QED
    BY <2>1, <2>3 DEF Told, Numbered, Final
<1> QED
  BY <1>1, <1>2

LEMMA IdleTold == \A gw : Told(Idle, gw)
BY DEF Told, Idle

\* A step of a call that hears of no result, saves none and tells of none.
LEMMA Irrelevant ==
  ASSUME Inv, Results, [Next]_vars, NEW c \in Calls, NEW q, NEW W, Becomes(c, q, W),
         Told(q, gateway'), sent' = sent,
         \A n \in Payments : payment'[n] \in {"CAPTURED", "FAILED"} =>
                               payment'[n] = Internal(gateway'[n])
  PROVE  Results'
<1>1. \A n \in Payments : gateway[n] \in Final => gateway'[n] = gateway[n]
  BY GatewayIsFinal
<1>2. \A m \in sent' : m[2] \in Final => gateway'[m[1]] = m[2]
  BY <1>1 DEF Inv, TypeOK, Messages, Results
<1>3. \A d \in Calls : Told(call'[d], gateway')
  BY <1>1, ToldStep
<1> QED
  BY <1>2, <1>3 DEF Results

LEMMA PaymentsStay ==
  ASSUME Inv, Results, [Next]_vars, payment' = payment
  PROVE  \A n \in Payments : payment'[n] \in {"CAPTURED", "FAILED"} =>
                             payment'[n] = Internal(gateway'[n])
<1> SUFFICES ASSUME NEW n \in Payments, payment[n] \in {"CAPTURED", "FAILED"}
             PROVE  payment[n] = Internal(gateway'[n])
  OBVIOUS
<1>1. payment[n] = Internal(gateway[n])
  BY DEF Results
<1>2. gateway[n] \in Final
  BY <1>1 DEF Internal, Final
<1> QED
  BY <1>1, <1>2, GatewayIsFinal

LEMMA ToldNothing ==
  ASSUME Inv, Results, [Next]_vars, NEW c \in Calls, NEW q, NEW W, Becomes(c, q, W),
         q.pc \notin {"find", "save"}, sent' = sent, payment' = payment
  PROVE  Results'
BY PaymentsStay, Irrelevant DEF Told

\* The steps of a call that books, cancels or ends.
LEMMA OtherStepsKeepResults ==
  ASSUME Inv, Results, [Next]_vars, NEW c \in Calls,
         \/ CreateBegins(c) \/ CreateLooks(c) \/ CreateCounts(c) \/ Initiates(c)
         \/ \E n \in Payments : VerifyBegins(c, n)
         \/ FinanceBegins(c) \/ FinanceCommits(c) \/ Moves(c) \/ GroupPaid(c)
         \/ FailureBegins(c) \/ FailureCommits(c) \/ GroupFails(c) \/ PendingWrites(c)
         \/ \E o \in Orders : CancelOrder(c, o)
         \/ ReleaseStock(c) \/ GroupFollows(c) \/ ReversalBegins(c) \/ ReversalCommits(c)
         \/ Conflicts(c) \/ Dies(c)
  PROVE  Results'
<1> DEFINE p == call[c]
           Quiet == sent' = sent /\ payment' = payment
<1>1. p \in Call
  BY CallFields DEF Inv
<1>2. ASSUME NEW q, NEW W, Becomes(c, q, W), q.pc \notin {"find", "save"}, Quiet
      PROVE  Results'
  BY <1>2, ToldNothing
<1>3. ASSUME NEW W, Becomes(c, Idle, W), Quiet PROVE Results'
  BY <1>2, <1>3 DEF Idle
<1>4. ASSUME NEW s, s \notin {"find", "save"}, Goes(c, s), Quiet PROVE Results'
  <2>1. [p EXCEPT !.pc = s].pc = s
    BY <1>1 DEF Call
  <2> QED
    BY <1>2, <1>4, <2>1 DEF Goes
<1>5. ASSUME NEW s, s \notin {"find", "save"}, NEW W, Opens(c, s, W) \/ Leaves(c, s, W), Quiet
      PROVE  Results'
  <2>1. \A w : [p EXCEPT !.pc = s, !.writes = w, !.stale = FALSE].pc = s
    BY <1>1 DEF Call
  <2> QED
    BY <1>2, <1>5, <2>1 DEF Opens, Leaves
<1>6. CASE CreateBegins(c) \/ CreateLooks(c)
  BY <1>3, <1>4, <1>6 DEF CreateBegins, CreateLooks, Returns, outside
<1>7. CASE CreateCounts(c)
  <2> DEFINE k == Cardinality(Made) + 1
             q == [p EXCEPT !.pc = "initiate", !.n = k]
  <2>1. Becomes(c, q, {}) /\ Quiet
    BY <1>7 DEF CreateCounts, outside
  <2> HIDE DEF k
  <2>2. q.pc = "initiate"
    BY <1>1 DEF Call
  <2> QED
    BY <1>2, <2>1, <2>2
<1>8. CASE Initiates(c)
  <2>1. Quiet
    BY <1>8 DEF Initiates
  <2> QED
    BY <1>3, <1>4, <1>8, <2>1 DEF Initiates, Throws
<1>9. ASSUME NEW n \in Payments, VerifyBegins(c, n) PROVE Results'
  <2> DEFINE q == [p EXCEPT !.pc = "ask", !.n = n, !.held = payment[n]]
  <2>1. Becomes(c, q, {}) /\ Quiet
    BY <1>9 DEF VerifyBegins, outside
  <2>2. q.pc = "ask"
    BY <1>1 DEF Call
  <2> QED
    BY <1>2, <2>1, <2>2
<1>10. CASE FinanceBegins(c) \/ FinanceCommits(c)
  <2>1. Quiet
    BY <1>10 DEF FinanceBegins, FinanceCommits, outside
  <2>2. \/ Goes(c, "move") \/ Opens(c, "credit", {AdminWallet, p.at})
        \/ Leaves(c, "move", p.writes)
    BY <1>10 DEF FinanceBegins, FinanceCommits, p
  <2> QED
    <3>1. CASE Goes(c, "move")
      BY <1>4, <2>1, <3>1
    <3>2. CASE Opens(c, "credit", {AdminWallet, p.at})
      BY <1>5, <2>1, <3>2
    <3>3. CASE Leaves(c, "move", p.writes)
      BY <1>5, <2>1, <3>3
    <3> QED
      BY <2>2, <3>1, <3>2, <3>3
<1>11. CASE Moves(c)
  <2> DEFINE a == p.at + 1
             q == IF p.at < NumOrders THEN [p EXCEPT !.pc = "finance", !.at = a]
                  ELSE [p EXCEPT !.pc = "paid"]
  <2>1. Becomes(c, q, IF order[p.at].workflowStatus = "CREATED" THEN {p.at} ELSE {}) /\ Quiet
    BY <1>11 DEF Moves, p, outside
  <2> HIDE DEF a
  <2>2. q.pc \in {"finance", "paid"}
    BY <1>1 DEF Call
  <2> QED
    BY <1>2, <2>1, <2>2
<1>12. CASE GroupPaid(c) \/ GroupFails(c) \/ PendingWrites(c) \/ Conflicts(c) \/ Dies(c)
  BY <1>3, <1>12 DEF GroupPaid, GroupFails, PendingWrites, Conflicts, Dies, Returns, Throws
<1>13. CASE FailureBegins(c) \/ FailureCommits(c)
  <2>1. Quiet
    BY <1>13 DEF FailureBegins, FailureCommits, outside
  <2> QED
    BY <1>5, <1>13, <2>1 DEF FailureBegins, FailureCommits
<1>14. ASSUME NEW o \in Orders, CancelOrder(c, o) PROVE Results'
  <2> DEFINE q == [p EXCEPT !.pc = "stock", !.at = o]
  <2>1. Becomes(c, q, {o}) /\ Quiet
    BY <1>14 DEF CancelOrder, outside
  <2>2. q.pc = "stock"
    BY <1>1 DEF Call
  <2> QED
    BY <1>2, <2>1, <2>2
<1>15. CASE ReleaseStock(c)
  <2> DEFINE q == [p EXCEPT !.pc = "activity"]
  <2>1. Becomes(c, q, {p.at}) /\ Quiet
    BY <1>15 DEF ReleaseStock, outside
  <2>2. q.pc = "activity"
    BY <1>1 DEF Call
  <2> QED
    BY <1>2, <2>1, <2>2
<1>16. CASE GroupFollows(c) \/ ReversalBegins(c) \/ ReversalCommits(c)
  <2>1. Quiet
    BY <1>16 DEF GroupFollows, ReversalBegins, ReversalCommits, outside
  <2> QED
    BY <1>3, <1>4, <1>5, <1>16, <2>1 DEF GroupFollows, ReversalBegins, ReversalCommits, Returns
<1> QED
  BY <1>6, <1>7, <1>8, <1>9, <1>10, <1>11, <1>12, <1>13, <1>14, <1>15, <1>16

\* The steps that hear of a result.
LEMMA ResultStepsKeepResults ==
  ASSUME Inv, Results, [Next]_vars, NEW c \in Calls,
         Inserts(c) \/ VerifyAsks(c) \/ WebhookFinds(c) \/ Saves(c)
           \/ (c \in Messages /\ Deliver(c))
  PROVE  Results' /\ \A n \in Payments :
           payment[n] \in {"CAPTURED", "FAILED"} => payment'[n] = payment[n]
<1> DEFINE p == call[c]
<1>1. /\ p \in Call /\ Numbered(p) /\ Told(p, gateway)
      /\ payment \in [Payments -> PAYMENT_STATUS \cup {"none"}]
      /\ p.state \in GatewayStates
  BY CallFields DEF Inv, Fits, TypeOK, Results
<1>2. ASSUME NEW W, Becomes(c, Idle, W), sent' = sent, payment' = payment PROVE Results'
  BY <1>2, ToldNothing DEF Idle
<1>3. CASE Inserts(c)
  <2>1. p.n \in Payments
    BY <1>1, <1>3 DEF Inserts, At, Numbered
  <2>2. \A n \in Payments : payment'[n] # payment[n] => payment'[n] = "PENDING" /\ payment[n] = "none"
    BY <1>1, <1>3, <2>1 DEF Inserts
  <2>3. sent' = sent /\ gateway' = gateway /\ Becomes(c, Idle, {})
    BY <1>3 DEF Inserts, Returns
  <2>4. \A n \in Payments : payment'[n] \in {"CAPTURED", "FAILED"} =>
                            payment'[n] = Internal(gateway'[n])
    BY <2>2, <2>3 DEF Results
  <2> QED
    BY <2>2, <2>3, <2>4, IdleTold, Irrelevant
<1>4. CASE VerifyAsks(c)
  <2> DEFINE q == [p EXCEPT !.pc = "save", !.state = gateway[p.n]]
  <2>1. Becomes(c, q, {}) /\ sent' = sent /\ payment' = payment /\ gateway' = gateway
    BY <1>4 DEF VerifyAsks, outside
  <2>2. q.n = p.n /\ q.state = gateway[p.n]
    BY <1>1 DEF Call
  <2> HIDE DEF q
  <2>3. Told(q, gateway')
    BY <2>1, <2>2 DEF Told
  <2> QED
    BY <2>1, <2>3, PaymentsStay, Irrelevant
<1>5. CASE WebhookFinds(c)
  <2> DEFINE h == payment[p.n]
             q == [p EXCEPT !.pc = "save", !.held = h]
  <2>1. /\ Becomes(c, q, {}) \/ Becomes(c, Idle, {})
        /\ sent' = sent /\ payment' = payment /\ gateway' = gateway /\ p.pc = "find"
    BY <1>5 DEF WebhookFinds, Returns, At
  <2> HIDE DEF h
  <2>2. q.n = p.n /\ q.state = p.state
    BY <1>1 DEF Call
  <2> HIDE DEF q
  <2>3. Told(q, gateway')
    BY <1>1, <2>1, <2>2 DEF Told
  <2> QED
    BY <1>2, <2>1, <2>3, PaymentsStay, Irrelevant
<1>6. CASE Saves(c)
  <2> DEFINE next == Internal(p.state)
             q == [p EXCEPT !.pc = SideEffects[next], !.at = 1]
  <2>1. p.n \in Payments /\ p.pc = "save"
    BY <1>1, <1>6 DEF Saves, At, Numbered
  <2>2. /\ Becomes(c, q, {}) \/ Becomes(c, Idle, {})
        /\ sent' = sent /\ gateway' = gateway
        /\ payment' = payment \/ (payment' = [payment EXCEPT ![p.n] = next]
                                   /\ p.held = "PENDING" /\ next # "PENDING")
    BY <1>6 DEF Saves, Throws, CanTransition
  <2>3. next \in PAYMENT_STATUS /\ SideEffects[next] \in {"finance", "failure", "pending"}
    BY <1>1, InternalType
  <2>4. next # "PENDING" => next = Internal(gateway[p.n])
    BY <1>1, <2>1 DEF Told, Internal, Final
  <2>5. payment[p.n] \in {"CAPTURED", "FAILED"} => payment[p.n] = Internal(gateway[p.n])
    BY <2>1 DEF Results
  <2> HIDE DEF next
  <2>6. q.pc \in {"finance", "failure", "pending"}
    <3>1. q.pc = SideEffects[next]
      BY <1>1 DEF Call
    <3> QED
      BY <2>3, <3>1
  <2> HIDE DEF q
  <2>7. \A n \in Payments : payment'[n] # payment[n] => n = p.n /\ payment'[n] = next /\ next # "PENDING"
    BY <1>1, <2>1, <2>2
  <2>8. \A n \in Payments : payment[n] \in {"CAPTURED", "FAILED"} => payment'[n] = payment[n]
    BY <2>4, <2>5, <2>7
  <2>9. \A n \in Payments : payment'[n] \in {"CAPTURED", "FAILED"} =>
                            payment'[n] = Internal(gateway'[n])
    BY <2>2, <2>4, <2>7 DEF Results
  <2>10. Told(q, gateway')
    BY <2>6 DEF Told
  <2> QED
    BY <2>2, <2>8, <2>9, <2>10, IdleTold, Irrelevant
<1>7. CASE c \in Messages /\ Deliver(c)
  <2> DEFINE q == [Idle EXCEPT !.pc = "find", !.n = c[1], !.state = c[2]]
  <2>1. /\ Becomes(c, q, {}) \/ Becomes(c, Idle, {})
        /\ c \in sent /\ sent' = sent /\ payment' = payment /\ gateway' = gateway
    BY <1>7 DEF Deliver, Returns
  <2>2. q.n = c[1] /\ q.state = c[2]
    BY DEF Idle
  <2> HIDE DEF q
  <2>3. Told(q, gateway')
    BY <2>1, <2>2 DEF Told, Results
  <2> QED
    BY <1>2, <2>1, <2>3, PaymentsStay, Irrelevant
<1> QED
  BY <1>3, <1>4, <1>5, <1>6, <1>7

LEMMA ResultsInit == Init => Results
BY DEF Init, Results, Told, Idle

LEMMA ResultsNext == Inv /\ Results /\ [Next]_vars => Results' /\ FinalStep
<1> SUFFICES ASSUME Inv, Results, [Next]_vars PROVE Results' /\ FinalStep
  OBVIOUS
<1> USE DEF Calls
<1> DEFINE Stay == \A n \in Payments :
             payment[n] \in {"CAPTURED", "FAILED"} => payment'[n] = payment[n]
<1>1. \A n \in Payments : gateway[n] \in Final => gateway'[n] = gateway[n]
  BY GatewayIsFinal
<1>2. ASSUME NEW c \in Calls, CallStep(c) PROVE Results' /\ Stay
  <2>1. CASE Inserts(c) \/ VerifyAsks(c) \/ WebhookFinds(c) \/ Saves(c)
    BY <2>1, ResultStepsKeepResults
  <2>2. CASE ~(Inserts(c) \/ VerifyAsks(c) \/ WebhookFinds(c) \/ Saves(c))
    <3>1. Results'
      BY <1>2, <2>2, OtherStepsKeepResults DEF CallStep
    <3>2. payment' = payment
      BY <1>2, <2>2
      DEF CallStep, CreateLooks, CreateCounts, Initiates, FinanceBegins, FinanceCommits, Moves,
          GroupPaid, FailureBegins, FailureCommits, GroupFails, PendingWrites, ReleaseStock,
          GroupFollows, ReversalBegins, ReversalCommits, Conflicts
    <3> QED
      BY <3>1, <3>2
  <2> QED
    BY <2>1, <2>2
<1>3. ASSUME NEW c \in Calls,
             CreateBegins(c) \/ (\E n \in Payments : VerifyBegins(c, n))
               \/ (\E o \in Orders : CancelOrder(c, o)) \/ Dies(c)
      PROVE  Results' /\ Stay
  <2>1. Results'
    BY <1>3, OtherStepsKeepResults
  <2>2. payment' = payment
    BY <1>3 DEF CreateBegins, VerifyBegins, CancelOrder, Dies
  <2> QED
    BY <2>1, <2>2
<1>4. ASSUME NEW m \in Messages, Deliver(m) PROVE Results' /\ Stay
  BY <1>4, ResultStepsKeepResults
<1>5. ASSUME NEW n \in Payments, GatewayDecides(n) \/ GatewayTells(n) PROVE Results' /\ Stay
  <2>1. payment' = payment /\ call' = call /\ gateway \in [Payments -> GatewayStates]
    BY <1>5 DEF GatewayDecides, GatewayTells, Inv, TypeOK
  <2>2. ASSUME NEW m \in sent', m[2] \in Final PROVE gateway'[m[1]] = m[2]
    <3>1. CASE m \in sent
      BY <1>1, <2>2, <3>1 DEF Results, Inv, TypeOK, Messages
    <3>2. CASE m \notin sent
      BY <1>5, <2>1, <2>2, <3>2 DEF GatewayDecides, GatewayTells, Final
    <3> QED
      BY <3>1, <3>2
  <2>3. ASSUME NEW c \in Calls PROVE Told(call'[c], gateway')
    BY <1>1, <2>1 DEF Results, Told, Inv, Fits, Numbered, Final
  <2> QED
    BY <2>1, <2>2, <2>3, PaymentsStay DEF Results
<1>6. ASSUME UNCHANGED vars PROVE Results'
  <2>1. payment' = payment /\ sent' = sent /\ call' = call /\ gateway' = gateway
    BY <1>6 DEF vars, outside
  <2>2. \A c \in Calls : Told(call'[c], gateway')
    BY <2>1 DEF Results
  <2>3. \A m \in sent' : m[2] \in Final => gateway'[m[1]] = m[2]
    BY <2>1 DEF Results
  <2> QED
    BY <2>1, <2>2, <2>3, PaymentsStay DEF Results
<1>7. Results' /\ Stay
  <2>1. CASE UNCHANGED vars
    <3>1. payment' = payment
      BY <2>1 DEF vars
    <3> QED
      BY <1>6, <2>1, <3>1
  <2>2. CASE Next
    <3> HIDE DEF Stay
    <3> QED
      BY <1>2, <1>3, <1>4, <1>5, <2>2 DEF Next
  <2> QED
    BY <2>1, <2>2
<1> QED
  BY <1>1, <1>7 DEF FinalStep

\* transitionPaymentState saves the document that it was handed: whatever
\* webhook comes late and whatever call read the payment before, its result is
\* the one of the gateway and stays.
THEOREM ResultIsFinalCorrect == Spec => ResultIsFinal
<1> DEFINE Step == \A n \in Payments : payment[n] \in {"CAPTURED", "FAILED"} =>
             payment'[n] = payment[n] /\ payment[n] = Internal(gateway[n])
<1>1. Results /\ FinalStep => Step
  BY DEF Results, FinalStep
<1>2. Inv /\ Results /\ [Next]_vars => Results' /\ Step
  BY <1>1, ResultsNext
<1>3. Inv /\ Results /\ [Next]_vars => [Step]_vars
  BY <1>2
<1> QED
  BY <1>2, <1>3, ResultsInit, Invariance, PTL DEF Spec, ResultIsFinal
================================================================================
