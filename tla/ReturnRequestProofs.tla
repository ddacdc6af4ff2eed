-------------------------- MODULE ReturnRequestProofs --------------------------
(***************************************************************************)
(* Proofs about ReturnRequest, for any requests, riders, calls, runs of the    *)
(* timeout job and number of faults.                                          *)
(***************************************************************************)
EXTENDS ReturnRequest, TLAPS

(***************************************************************************)
(* The tables.                                                               *)
(***************************************************************************)
LEMMA BeforeKnown ==
  /\ Before("DELIVERED_TO_SELLER") = {"PICKED_UP"}
  /\ Before("REFUND_INITIATED") =
       {"PICKED_UP", "DELIVERED_TO_SELLER", "REFUND_INITIATED", "UNDER_DISPUTE"}
BY DEF Before, IsValidTransition, VALID_TRANSITIONS, Statuses

Operations ==
  {"cancel", "approve", "reject", "assign", "reassign", "decline", "pickup",
   "override_approve", "override_reject"}

\* What an operation of Moves makes of a request.
Written ==
  {"CANCELLED", "SELLER_APPROVED", "SELLER_REJECTED", "PICKUP_SCHEDULED", "PICKED_UP"}

LEMMA MovesDomain == DOMAIN Moves = Operations
BY DEF Moves, Operations

LEMMA MovesKnown ==
  ASSUME NEW op \in DOMAIN Moves
  PROVE  /\ Moves[op].to \in Written
         /\ Moves[op].to = "PICKED_UP" => op = "pickup"
         /\ Moves[op].from \subseteq Statuses
         /\ Moves[op].order \in ReturnStatuses
<1>1. op \in Operations
  BY MovesDomain
<1>2. Moves[op].order \in ReturnStatuses
  BY DEF ReturnStatuses
<1>3. Moves[op].from \subseteq Statuses
  BY <1>1 DEF Moves, Operations, Before, Statuses
<1>4. Moves[op].to \in Written /\ (Moves[op].to = "PICKED_UP" => op = "pickup")
  BY <1>1 DEF Moves, Operations, Written
<1> QED
  BY <1>2, <1>3, <1>4

(***************************************************************************)
(* The inductive invariant: what a call may rely on between its awaits, and    *)
(* what is true of each request.                                              *)
(***************************************************************************)
Callers == Calls \cup Jobs

\* A refund that has begun is an administrator's own decision or was checked
\* against the status, and one that has committed has its row.
Knows(c, k) ==
  /\ k.pc = "save" => k.q \in Requests /\ k.op \in DOMAIN Moves \cup {"accept", "timeout"}
  /\ k.pc = "order" => k.op \in DOMAIN Moves \cup {"submit", "initiate", "override"}
  /\ k.pc \in {"refund", "complete"} =>
       /\ c \in Calls /\ k.q \in Requests
       /\ k.op \in {"initiate", "override"}
       /\ k.op = "initiate" => request[k.q].pickedUp
  /\ k.pc = "complete" => Refunded(k.q) = 1

\* Since no stale save writes these statuses, a request has one of them only
\* after the step that earns it.
Doc(q) ==
  /\ request[q].status # "UNDER_DISPUTE"
  /\ request[q].status \in {"PICKED_UP", "DELIVERED_TO_SELLER", "REFUND_INITIATED"} =>
       request[q].pickedUp
  /\ ledger[q].credited <= Refunded(q) /\ Refunded(q) <= 1
  /\ ledger[q].initiated > 0 => request[q].pickedUp
  /\ ledger[q].commission <= 1
  /\ request[q].status = "DELIVERED_TO_SELLER" => ledger[q].commission = 1
  /\ ledger[q].commission = 1 => request[q].pickedUp
  /\ request[q].status \in {"REFUND_INITIATED", "REFUND_COMPLETED"} => Refunded(q) = 1
  /\ request[q].status = "REFUND_INITIATED" =>
       faults > 0 \/ \E c \in Calls : At(c, "complete") /\ call[c].q = q

IInv ==
  /\ TypeOK
  /\ \A c \in Callers : Knows(c, call[c])
  /\ \A q \in Requests : Doc(q)

LEMMA InitIInv == Init => IInv
<1> SUFFICES ASSUME Init PROVE IInv
  OBVIOUS
<1>1. TypeOK
  <2>1. Absent \in Request /\ Idle \in Call
    BY DEF Absent, Request, Idle, Call
  <2>2. returnStatus \in ReturnStatuses
    <3>1. "cancel" \in DOMAIN Moves /\ Moves["cancel"].order = "none"
      BY DEF Moves
    <3> QED
      BY <3>1 DEF Init, ReturnStatuses
  <2> QED
    BY <2>1, <2>2, BoundAssumption DEF Init, TypeOK, Row
<1>2. \A c \in Callers : Knows(c, call[c])
  BY DEF Init, Callers, Knows, Idle
<1>3. \A q \in Requests : Doc(q)
  BY DEF Init, Doc, Absent, Refunded
<1> QED
  BY <1>1, <1>2, <1>3 DEF IInv

(***************************************************************************)
(* Steps that leave the documents and the ledger alone.                       *)
(***************************************************************************)
LEMMA OnlyCall ==
  ASSUME IInv, UNCHANGED <<request, ledger, faults>>,
         NEW c \in Callers, NEW k \in Call, call' = [call EXCEPT ![c] = k],
         ~At(c, "complete"), Knows(c, k), returnStatus' \in ReturnStatuses
  PROVE  IInv'
<1>1. TypeOK'
  BY DEF IInv, TypeOK, Callers
<1>2. ASSUME NEW d \in Callers PROVE Knows(d, call[d])'
  BY <1>2 DEF IInv, TypeOK, Callers, Knows, Refunded
<1>3. ASSUME NEW q \in Requests PROVE Doc(q)'
  <2>1. ASSUME NEW d \in Calls, At(d, "complete") PROVE call'[d] = call[d]
    BY <2>1 DEF At, IInv, TypeOK, Callers
  <2> QED
    BY <2>1 DEF IInv, Doc, Refunded, At
<1> QED
  BY <1>1, <1>2, <1>3 DEF IInv

(***************************************************************************)
(* Steps that change one request, or its rows.                                *)
(***************************************************************************)
LEMMA OneRequest ==
  ASSUME IInv, TypeOK', faults' = faults, NEW q \in Requests,
         \A r \in Requests : r # q => request'[r] = request[r] /\ ledger'[r] = ledger[r],
         request[q].pickedUp => request'[q].pickedUp,
         Refunded(q) = 1 => Refunded(q)' = 1,
         \A d \in Callers :
           call'[d] = call[d] \/ (Knows(d, call[d])' /\ (At(d, "complete") => call[d].q = q)),
         Doc(q)'
  PROVE  IInv'
<1>1. ASSUME NEW r \in Requests
      PROVE  /\ request[r].pickedUp => request'[r].pickedUp
             /\ Refunded(r) = 1 => Refunded(r)' = 1
  BY <1>1 DEF Refunded
<1>2. ASSUME NEW d \in Callers PROVE Knows(d, call[d])'
  <2>1. CASE call'[d] = call[d]
    BY <1>1, <2>1 DEF IInv, Knows
  <2> QED
    BY <2>1
<1>3. ASSUME NEW r \in Requests PROVE Doc(r)'
  <2>1. CASE r = q
    BY <2>1
  <2>2. CASE r # q
    <3>1. request'[r] = request[r] /\ ledger'[r] = ledger[r] /\ Refunded(r)' = Refunded(r)
      BY <2>2 DEF Refunded
    <3>2. ASSUME NEW d \in Calls, At(d, "complete"), call[d].q = r PROVE call'[d] = call[d]
      BY <2>2, <3>2 DEF Callers
    <3> QED
      BY <3>1, <3>2 DEF IInv, Doc, At
  <2> QED
    BY <2>1, <2>2
<1> QED
  BY <1>2, <1>3 DEF IInv

(***************************************************************************)
(* The actions.                                                              *)
(***************************************************************************)
LEMMA CallFields ==
  ASSUME TypeOK, NEW c \in Callers
  PROVE  /\ call[c] \in Call
         /\ call[c].op \in DOMAIN Moves \cup {"none", "submit", "accept", "timeout", "initiate", "override"}
         /\ call[c].to \in Boys \cup {NoBoy}
         /\ call[c].writes \in SUBSET {"status", "boy"}
BY DEF TypeOK, Callers, Call

LEMMA Documents ==
  ASSUME TypeOK, NEW q \in Requests
  PROVE  /\ request[q] \in Request
         /\ request[q].status \in Statuses \cup {"absent"}
         /\ request[q].boy \in Boys \cup {NoBoy}
         /\ ledger[q] \in Row
         /\ ledger[q].initiated \in Nat /\ ledger[q].overridden \in Nat
         /\ ledger[q].credited \in Nat /\ ledger[q].commission \in Nat
BY DEF TypeOK, Request, Row

\* A call comes to a step at which it knows nothing.
LEMMA Comes ==
  ASSUME NEW c \in Callers, NEW k \in Call, k.pc \in {"idle", "create"}
  PROVE  Knows(c, k)
BY DEF Knows

LEMMA IdleCall == Idle \in Call
BY DEF Idle, Call

LEMMA OrderCall ==
  ASSUME NEW c \in Callers, NEW op \in DOMAIN Moves \cup {"submit", "initiate", "override"}
  PROVE  /\ [Idle EXCEPT !.pc = "order", !.op = op] \in Call
         /\ Knows(c, [Idle EXCEPT !.pc = "order", !.op = op])
BY DEF Idle, Call, Knows

LEMMA ReadsKeeps ==
  ASSUME IInv, NEW c \in Callers, NEW op \in DOMAIN Moves \cup {"accept", "timeout"},
         NEW q \in Requests, NEW to \in Boys \cup {NoBoy}, At(c, "idle"), Reads(c, op, q, to),
         UNCHANGED <<request, returnStatus, ledger, faults>>
  PROVE  IInv'
<1> DEFINE k == [pc |-> "save", op |-> op, q |-> q, to |-> to,
                 writes |-> Modified(op, request[q], to)]
<1>1. k \in Call
  <2>1. Modified(op, request[q], to) \in SUBSET {"status", "boy"}
    BY DEF Modified
  <2> QED
    BY <2>1 DEF Call
<1>2. Knows(c, k)
  BY DEF Knows
<1>3. call' = [call EXCEPT ![c] = k]
  BY DEF Reads
<1>4. ~At(c, "complete") /\ returnStatus' \in ReturnStatuses
  BY DEF At, IInv, TypeOK
<1> HIDE DEF k
<1> QED
  BY <1>1, <1>2, <1>3, <1>4, OnlyCall

LEMMA SubmitKeeps ==
  ASSUME IInv, NEW c \in Callers, SubmitLooks(c) \/ SubmitCreates(c)
  PROVE  IInv'
<1>0. returnStatus' \in ReturnStatuses
  BY DEF SubmitLooks, SubmitCreates, IInv, TypeOK
<1>1. CASE SubmitLooks(c)
  <2> DEFINE k == [call[c] EXCEPT !.pc = "create"]
  <2>1. k \in Call /\ k.pc = "create"
    BY CallFields DEF IInv, Call
  <2>2. call' = [call EXCEPT ![c] = k]
    BY <1>1 DEF SubmitLooks, Goes
  <2>3. ~At(c, "complete")
    BY <1>1 DEF SubmitLooks, At
  <2> HIDE DEF k
  <2> QED
    BY <1>0, <1>1, <2>1, <2>2, <2>3, Comes, OnlyCall DEF SubmitLooks
<1>2. CASE SubmitCreates(c) /\ UNCHANGED request /\ Returns(c)
  <2>1. call' = [call EXCEPT ![c] = Idle] /\ Idle.pc = "idle"
    BY <1>2 DEF Returns, Idle
  <2>2. ~At(c, "complete")
    BY <1>2 DEF SubmitCreates, At
  <2> QED
    BY <1>0, <1>2, <2>1, <2>2, Comes, IdleCall, OnlyCall DEF SubmitCreates
<1>3. ASSUME SubmitCreates(c), NEW q \in Requests \ Made,
             request' = [request EXCEPT ![q].status = "REQUESTED"], GoesToOrder(c, "submit")
      PROVE  IInv'
  <2> DEFINE k == [Idle EXCEPT !.pc = "order", !.op = "submit"]
  <2>1. UNCHANGED <<returnStatus, ledger, faults>> /\ call' = [call EXCEPT ![c] = k]
    BY <1>3 DEF SubmitCreates, GoesToOrder
  <2>2. k \in Call /\ Knows(c, k)
    BY OrderCall
  <2> HIDE DEF k
  <2>3. request[q] \in Request /\ request[q].status = "absent"
    BY <1>3, Documents DEF Made, IInv
  <2>4. /\ request'[q] = [request[q] EXCEPT !.status = "REQUESTED"]
        /\ \A r \in Requests : r # q => request'[r] = request[r] /\ ledger'[r] = ledger[r]
    BY <1>3, <2>1 DEF IInv, TypeOK
  <2>5. request'[q].status = "REQUESTED" /\ request'[q].pickedUp = request[q].pickedUp
    BY <2>3, <2>4 DEF Request
  <2>6. TypeOK'
    <3>1. request'[q] \in Request
      BY <2>3, <2>4 DEF Request, Statuses
    <3>2. request' \in [Requests -> Request]
      BY <1>3, <3>1 DEF IInv, TypeOK
    <3> QED
      BY <1>0, <2>1, <2>2, <3>2 DEF IInv, TypeOK, Callers
  <2>7. Doc(q)'
    BY <2>1, <2>5 DEF IInv, Doc, Refunded
  <2>8. ASSUME NEW d \in Callers
        PROVE  call'[d] = call[d] \/ (Knows(d, call[d])' /\ (At(d, "complete") => call[d].q = q))
    <3>1. CASE d = c
      <4>1. call'[d] = k /\ ~At(d, "complete")
        BY <1>3, <2>1, <3>1 DEF IInv, TypeOK, Callers, SubmitCreates, At
      <4>2. k.pc = "order"
        BY DEF k, Idle
      <4>3. Knows(d, k)'
        BY <2>2, <3>1, <4>2 DEF Knows
      <4> QED
        BY <4>1, <4>3
    <3>2. CASE d # c
      BY <2>1, <3>2 DEF IInv, TypeOK, Callers
    <3> QED
      BY <3>1, <3>2
  <2>9. (request[q].pickedUp => request'[q].pickedUp) /\ (Refunded(q) = 1 => Refunded(q)' = 1)
    BY <2>1, <2>5 DEF Refunded
  <2> QED
    BY <2>1, <2>4, <2>6, <2>7, <2>8, <2>9, OneRequest
<1> QED
  BY <1>1, <1>2, <1>3 DEF SubmitCreates

\* The effect of a call's own step on what the other calls know.
LEMMA CallSteps ==
  ASSUME TypeOK, NEW c \in Callers, NEW k, call' = [call EXCEPT ![c] = k], Knows(c, k)',
         NEW q, At(c, "complete") => call[c].q = q
  PROVE  \A d \in Callers :
           call'[d] = call[d] \/ (Knows(d, call[d])' /\ (At(d, "complete") => call[d].q = q))
<1> SUFFICES ASSUME NEW d \in Callers
             PROVE  call'[d] = call[d]
                      \/ (Knows(d, call[d])' /\ (At(d, "complete") => call[d].q = q))
  OBVIOUS
<1>1. CASE d = c
  <2>1. call'[d] = k
    BY <1>1 DEF TypeOK, Callers
  <2> QED
    BY <1>1, <2>1
<1>2. CASE d # c
  BY <1>2 DEF TypeOK, Callers
<1> QED
  BY <1>1, <1>2

\* A save of a stale copy takes a request only to a status that nothing is said
\* of, or to PICKED_UP with the mark of the pickup.
LEMMA SavedKnown ==
  ASSUME NEW doc \in Request, NEW k \in Call, k.op \in DOMAIN Moves \cup {"accept", "timeout"}
  PROVE  /\ Saved(doc, k) \in Request
         /\ Saved(doc, k).status \in Written \cup {doc.status}
         /\ Saved(doc, k).status = "PICKED_UP" => doc.status = "PICKED_UP" \/ Saved(doc, k).pickedUp
         /\ doc.pickedUp => Saved(doc, k).pickedUp
<1>1. NewStatus(k.op, doc.status) \in Written \cup {doc.status}
  <2>1. CASE k.op \in {"accept", "timeout"}
    BY <2>1 DEF NewStatus, Written
  <2>2. CASE k.op \in DOMAIN Moves /\ k.op \notin {"accept", "timeout"}
    BY <2>2, MovesKnown DEF NewStatus
  <2> QED
    BY <2>1, <2>2
<1>2. NewStatus(k.op, doc.status) = "PICKED_UP" => doc.status = "PICKED_UP" \/ k.op = "pickup"
  <2>1. CASE k.op \in {"accept", "timeout"}
    BY <2>1 DEF NewStatus
  <2>2. CASE k.op \in DOMAIN Moves /\ k.op \notin {"accept", "timeout"}
    BY <2>2, MovesKnown DEF NewStatus
  <2> QED
    BY <2>1, <2>2
<1>3. NewBoy(k.op, doc.boy, k.to) \in Boys \cup {NoBoy}
  BY DEF NewBoy, Request, Call
<1>4. /\ Saved(doc, k).status =
            IF "status" \in k.writes THEN NewStatus(k.op, doc.status) ELSE doc.status
      /\ Saved(doc, k).boy =
            IF "boy" \in k.writes THEN NewBoy(k.op, doc.boy, k.to) ELSE doc.boy
      /\ Saved(doc, k).pickedUp = (doc.pickedUp \/ k.op = "pickup")
  BY DEF Saved, Request
<1>5. Saved(doc, k).status \in Written \cup {doc.status}
  BY <1>1, <1>4
<1>6. Written \subseteq Statuses
  BY DEF Written, Statuses
<1>7. Saved(doc, k) \in Request
  <2>1. NewStatus(k.op, doc.status) \in Statuses \cup {"absent"}
    BY <1>1, <1>6 DEF Request
  <2>2. /\ doc.status \in Statuses \cup {"absent"} /\ doc.boy \in Boys \cup {NoBoy}
        /\ (doc.accepted \/ k.op = "accept") \in BOOLEAN
        /\ (doc.pickedUp \/ k.op = "pickup") \in BOOLEAN
    BY DEF Request
  <2> DEFINE status ==
               IF "status" \in k.writes THEN NewStatus(k.op, doc.status) ELSE doc.status
             boy == IF "boy" \in k.writes THEN NewBoy(k.op, doc.boy, k.to) ELSE doc.boy
             accepted == doc.accepted \/ k.op = "accept"
             pickedUp == doc.pickedUp \/ k.op = "pickup"
  <2>3. status \in Statuses \cup {"absent"} /\ boy \in Boys \cup {NoBoy}
    BY <1>3, <2>1, <2>2
  <2>4. Saved(doc, k) = [doc EXCEPT !.status = status, !.boy = boy,
                                    !.accepted = accepted, !.pickedUp = pickedUp]
    BY DEF Saved
  <2>5. accepted \in BOOLEAN /\ pickedUp \in BOOLEAN
    BY <2>2
  <2> HIDE DEF status, boy, accepted, pickedUp
  <2>6. [doc EXCEPT !.status = status, !.boy = boy,
                    !.accepted = accepted, !.pickedUp = pickedUp] \in Request
    BY <2>3, <2>5 DEF Request
  <2> QED
    BY <2>4, <2>6
<1> QED
  BY <1>2, <1>4, <1>5, <1>7

LEMMA SavesKeeps ==
  ASSUME IInv, NEW c \in Callers, Saves(c)
  PROVE  IInv'
<1>1. /\ call[c] \in Call /\ call[c].q \in Requests
      /\ call[c].op \in DOMAIN Moves \cup {"accept", "timeout"}
  BY CallFields DEF IInv, Saves, At, Knows
<1>2. PICK k \in Call : k = call[c]
  BY <1>1
<1>3. PICK q \in Requests : q = k.q
  BY <1>1, <1>2
<1>4. PICK n \in Call : n.pc \in {"idle", "order"} /\ Knows(c, n) /\ call' = [call EXCEPT ![c] = n]
  <2>1. CASE k.op \in {"accept", "timeout"}
    <3>1. call' = [call EXCEPT ![c] = Idle] /\ Idle.pc = "idle"
      BY <1>2, <2>1 DEF Saves, Returns, Idle
    <3> QED
      BY <3>1, IdleCall, Comes
  <2>2. CASE k.op \notin {"accept", "timeout"}
    <3>1. k.op \in DOMAIN Moves
      BY <1>1, <1>2, <2>2
    <3>2. call' = [call EXCEPT ![c] = [Idle EXCEPT !.pc = "order", !.op = k.op]]
      BY <1>2, <2>2 DEF Saves, GoesToOrder
    <3>3. [Idle EXCEPT !.pc = "order", !.op = k.op].pc = "order"
      BY DEF Idle
    <3> QED
      BY <3>1, <3>2, <3>3, OrderCall
  <2> QED
    BY <2>1, <2>2
<1>5. request[q] \in Request
  BY Documents DEF IInv
<1>6. PICK doc \in Request :
        /\ doc = Saved(request[q], k)
        /\ doc.status \in Written \cup {request[q].status}
        /\ doc.status = "PICKED_UP" => request[q].status = "PICKED_UP" \/ doc.pickedUp
        /\ request[q].pickedUp => doc.pickedUp
  BY <1>1, <1>2, <1>5, SavedKnown
<1>7. /\ UNCHANGED <<returnStatus, ledger, faults>>
      /\ request' = [request EXCEPT ![q] = doc]
      /\ ~At(c, "complete")
  BY <1>2, <1>3, <1>6 DEF Saves, At
<1>8. request'[q] = doc /\ \A r \in Requests : r # q => request'[r] = request[r] /\ ledger'[r] = ledger[r]
  BY <1>7 DEF IInv, TypeOK
<1>9. TypeOK'
  BY <1>4, <1>7 DEF IInv, TypeOK, Callers
<1>10. Doc(q)'
  <2>1. Doc(q) /\ ledger' = ledger /\ faults' = faults
    BY <1>7 DEF IInv
  <2>2. ASSUME NEW d \in Calls, At(d, "complete") PROVE call'[d] = call[d]
    BY <1>4, <1>7, <2>2 DEF At, IInv, TypeOK, Callers
  <2>3. CASE doc.status = request[q].status
    BY <1>6, <1>8, <2>1, <2>2, <2>3 DEF Doc, Refunded, At
  <2>4. CASE doc.status \in Written
    BY <1>6, <1>8, <2>1, <2>4 DEF Doc, Refunded, Written
  <2> QED
    BY <1>6, <2>3, <2>4
<1>11. Knows(c, n)'
  BY <1>4 DEF Knows
<1>12. (request[q].pickedUp => request'[q].pickedUp) /\ (Refunded(q) = 1 => Refunded(q)' = 1)
  BY <1>6, <1>7, <1>8 DEF Refunded
<1>13. \A d \in Callers :
           call'[d] = call[d] \/ (Knows(d, call[d])' /\ (At(d, "complete") => call[d].q = q))
  BY <1>4, <1>7, <1>11, CallSteps DEF IInv
<1> QED
  BY <1>7, <1>8, <1>9, <1>10, <1>12, <1>13, OneRequest

LEMMA SavesOrderKeeps ==
  ASSUME IInv, NEW c \in Callers, SavesOrder(c)
  PROVE  IInv'
<1>1. call[c].op \in DOMAIN Moves \cup {"submit", "initiate", "override"}
  BY DEF IInv, SavesOrder, At, Knows
<1>2. OrderStatus(call[c].op) \in ReturnStatuses
  <2>1. CASE call[c].op \in {"submit", "initiate", "override"}
    BY <2>1 DEF OrderStatus, ReturnStatuses
  <2>2. CASE call[c].op \in DOMAIN Moves /\ call[c].op \notin {"submit", "initiate", "override"}
    BY <2>2, MovesKnown DEF OrderStatus
  <2> QED
    BY <1>1, <2>1, <2>2
<1>3. call' = [call EXCEPT ![c] = Idle] /\ Idle.pc = "idle" /\ ~At(c, "complete")
  BY DEF SavesOrder, Returns, Idle, At
<1> QED
  BY <1>2, <1>3, IdleCall, Comes, OnlyCall DEF SavesOrder

LEMMA DeliversKeeps ==
  ASSUME IInv, NEW q \in Requests, DeliversToSeller(q)
  PROVE  IInv'
<1>1. /\ request[q].status = "PICKED_UP" /\ request[q].pickedUp
      /\ ledger[q].commission = 0
  BY BeforeKnown DEF DeliversToSeller, IInv, Doc
<1>2. /\ request' = [request EXCEPT ![q] = [request[q] EXCEPT !.status = "DELIVERED_TO_SELLER"]]
      /\ ledger' = [ledger EXCEPT ![q] = [ledger[q] EXCEPT !.commission = 1]]
      /\ returnStatus' = "returned"
      /\ UNCHANGED <<call, faults>>
  BY <1>1 DEF DeliversToSeller
<1>3. request[q] \in Request /\ ledger[q] \in Row
  BY Documents DEF IInv
<1>4. /\ request'[q] = [request[q] EXCEPT !.status = "DELIVERED_TO_SELLER"]
      /\ ledger'[q] = [ledger[q] EXCEPT !.commission = 1]
      /\ \A r \in Requests : r # q => request'[r] = request[r] /\ ledger'[r] = ledger[r]
  BY <1>2 DEF IInv, TypeOK
<1>5. /\ request'[q].status = "DELIVERED_TO_SELLER" /\ request'[q].pickedUp
      /\ ledger'[q].commission = 1 /\ ledger'[q].credited = ledger[q].credited
      /\ ledger'[q].initiated = ledger[q].initiated
      /\ ledger'[q].overridden = ledger[q].overridden
      /\ request'[q] \in Request /\ ledger'[q] \in Row
  BY <1>1, <1>3, <1>4 DEF Request, Row, Statuses
<1>6. TypeOK'
  <2>1. "returned" \in ReturnStatuses
    BY DEF ReturnStatuses
  <2>2. request' \in [Requests -> Request] /\ ledger' \in [Requests -> Row]
    BY <1>2, <1>4, <1>5 DEF IInv, TypeOK
  <2> QED
    BY <1>2, <2>1, <2>2 DEF IInv, TypeOK
<1>7. Doc(q)'
  BY <1>5 DEF IInv, Doc, Refunded
<1>8. Refunded(q) = 1 => Refunded(q)' = 1
  BY <1>5 DEF Refunded
<1> QED
  BY <1>2, <1>4, <1>5, <1>6, <1>7, <1>8, OneRequest

LEMMA RefundBeginsKeeps ==
  ASSUME IInv, NEW c \in Calls, NEW op, NEW q \in Requests, RefundBegins(c, op, q)
  PROVE  IInv'
<1> DEFINE k == [Idle EXCEPT !.pc = "refund", !.op = op, !.q = q,
                    !.writes = IF request[q].status = "REFUND_INITIATED" THEN {} ELSE {"status"}]
<1>1. call' = [call EXCEPT ![c] = k] /\ ~At(c, "complete") /\ op \in {"initiate", "override"}
  BY DEF RefundBegins, At
<1>2. k \in Call /\ k.pc = "refund" /\ k.op = op /\ k.q = q
  BY <1>1 DEF Idle, Call
<1>3. op = "initiate" => request[q].pickedUp
  BY BeforeKnown DEF RefundBegins, IInv, Doc
<1>4. Knows(c, k)
  BY <1>1, <1>2, <1>3 DEF Knows
<1>5. returnStatus' \in ReturnStatuses /\ c \in Callers
  BY DEF RefundBegins, IInv, TypeOK, Callers
<1> HIDE DEF k
<1> QED
  BY <1>1, <1>2, <1>4, <1>5, OnlyCall DEF RefundBegins

LEMMA RefundRefusedKeeps ==
  ASSUME IInv, NEW c \in Callers, RefundRefused(c)
  PROVE  IInv'
<1>1. /\ call' = [call EXCEPT ![c] = Idle] /\ Idle.pc = "idle" /\ ~At(c, "complete")
      /\ returnStatus' \in ReturnStatuses
  BY DEF RefundRefused, Returns, Idle, At, IInv, TypeOK
<1> QED
  BY <1>1, IdleCall, Comes, OnlyCall DEF RefundRefused

LEMMA RefundCommitsKeeps ==
  ASSUME IInv, NEW c \in Callers, RefundCommits(c)
  PROVE  IInv'
<1>1. /\ c \in Calls /\ call[c] \in Call /\ call[c].q \in Requests
      /\ call[c].op \in {"initiate", "override"}
      /\ call[c].op = "initiate" => request[call[c].q].pickedUp
  BY CallFields DEF IInv, RefundCommits, At, Knows
<1>2. PICK q \in Requests, op \in {"initiate", "override"} : q = call[c].q /\ op = call[c].op
  BY <1>1
<1>3. PICK k \in Call : k = [call[c] EXCEPT !.pc = "complete"]
  BY <1>1 DEF Call
<1>4. k.pc = "complete" /\ k.q = q /\ k.op = op /\ call' = [call EXCEPT ![c] = k]
  BY <1>1, <1>2, <1>3 DEF RefundCommits, Goes, Call
<1>5. UNCHANGED <<returnStatus, faults>> /\ ~At(c, "complete") /\ Refunded(q) = 0
  BY <1>2 DEF RefundCommits, At
<1>6. request[q] \in Request /\ ledger[q] \in Row
  BY Documents DEF IInv
<1>7. PICK credit \in {0, 1} : ledger' = [ledger EXCEPT ![q] = Charged(ledger[q], op, credit)]
  BY <1>2 DEF RefundCommits
<1>8. /\ ledger' \in [Requests -> Row]
      /\ \A r \in Requests : r # q => ledger'[r] = ledger[r]
      /\ ledger'[q].credited = credit
      /\ ledger'[q].commission = ledger[q].commission
      /\ Refunded(q)' = 1
      /\ ledger'[q].initiated > 0 => op = "initiate"
  <2>1. /\ ledger[q].initiated \in Nat /\ ledger[q].overridden \in Nat /\ ledger[q].credited \in Nat
        /\ ledger[q].credited <= Refunded(q)
    BY Documents DEF IInv, Doc
  <2>2. ledger[q].initiated = 0 /\ ledger[q].overridden = 0 /\ ledger[q].credited = 0
    BY <1>5, <2>1 DEF Refunded
  <2>3. PICK row : row = Charged(ledger[q], op, credit)
    OBVIOUS
  <2>4. /\ row \in Row /\ row.credited = credit /\ row.commission = ledger[q].commission
        /\ row.initiated + row.overridden = 1
        /\ row.initiated > 0 => op = "initiate"
    <3>1. CASE op = "initiate"
      <4>1. /\ row.initiated = ledger[q].initiated + 1 /\ row.overridden = ledger[q].overridden
            /\ row.credited = ledger[q].credited + credit
            /\ row.commission = ledger[q].commission
            /\ row = [initiated |-> row.initiated, overridden |-> row.overridden,
                      credited |-> row.credited, commission |-> row.commission]
        BY <1>6, <2>3, <3>1 DEF Charged, Row
      <4> QED
        BY <1>6, <2>1, <2>2, <3>1, <4>1 DEF Row
    <3>2. CASE op = "override"
      <4>1. /\ row.overridden = ledger[q].overridden + 1 /\ row.initiated = ledger[q].initiated
            /\ row.credited = ledger[q].credited + credit
            /\ row.commission = ledger[q].commission
            /\ row = [initiated |-> row.initiated, overridden |-> row.overridden,
                      credited |-> row.credited, commission |-> row.commission]
        BY <1>6, <2>3, <3>2 DEF Charged, Row
      <4> QED
        BY <1>6, <2>1, <2>2, <3>2, <4>1 DEF Row
    <3> QED
      BY <3>1, <3>2
  <2>5. /\ ledger' \in [Requests -> Row] /\ ledger'[q] = row
        /\ \A r \in Requests : r # q => ledger'[r] = ledger[r]
    BY <1>7, <2>3, <2>4 DEF IInv, TypeOK
  <2> QED
    BY <2>4, <2>5 DEF Refunded
<1>9. ledger'[q].credited <= Refunded(q)'
  BY <1>8
<1>10. /\ request' \in [Requests -> Request]
       /\ \A r \in Requests : r # q => request'[r] = request[r]
       /\ request'[q].pickedUp = request[q].pickedUp
       /\ \/ request'[q].status = request[q].status
          \/ op = "initiate" /\ request'[q].status = "REFUND_INITIATED"
  <2>1. CASE UNCHANGED request
    BY <2>1 DEF IInv, TypeOK
  <2>2. CASE op = "initiate" /\ request' = [request EXCEPT ![q].status = "REFUND_INITIATED"]
    BY <1>6, <2>2 DEF IInv, TypeOK, Request, Statuses
  <2> QED
    BY <1>2, <2>1, <2>2 DEF RefundCommits
<1>11. TypeOK'
  BY <1>4, <1>5, <1>8, <1>10 DEF IInv, TypeOK, Callers
<1>12. Knows(c, k)'
  BY <1>1, <1>2, <1>4, <1>8, <1>10 DEF Knows
<1>13. Doc(q)'
  <2>1. c \in Calls /\ call'[c] = k
    BY <1>1, <1>4 DEF IInv, TypeOK, Callers
  <2>2. (\E d \in Calls : At(d, "complete") /\ call[d].q = q)'
    BY <1>4, <2>1 DEF At
  <2>3. /\ Doc(q)
        /\ op = "initiate" => request[q].pickedUp
    BY <1>1, <1>2 DEF IInv
  <2> QED
    BY <1>8, <1>9, <1>10, <2>2, <2>3 DEF Doc
<1>14. \A d \in Callers :
           call'[d] = call[d] \/ (Knows(d, call[d])' /\ (At(d, "complete") => call[d].q = q))
  BY <1>4, <1>5, <1>12, CallSteps DEF IInv
<1> QED
  BY <1>5, <1>8, <1>9, <1>10, <1>11, <1>13, <1>14, OneRequest

LEMMA CompletesRefundKeeps ==
  ASSUME IInv, NEW c \in Callers, CompletesRefund(c)
  PROVE  IInv'
<1>1. /\ call[c].q \in Requests /\ call[c].op \in {"initiate", "override"}
      /\ Refunded(call[c].q) = 1
  BY DEF IInv, CompletesRefund, At, Knows
<1>2. PICK q \in Requests : q = call[c].q
  BY <1>1
<1>3. PICK k \in Call : Knows(c, k) /\ k.pc = "order" /\ call' = [call EXCEPT ![c] = k]
  <2>1. call' = [call EXCEPT ![c] = [Idle EXCEPT !.pc = "order", !.op = call[c].op]]
    BY DEF CompletesRefund, GoesToOrder
  <2>2. [Idle EXCEPT !.pc = "order", !.op = call[c].op].pc = "order"
    BY DEF Idle
  <2> QED
    BY <1>1, <2>1, <2>2, OrderCall
<1>4. /\ request' = [request EXCEPT ![q].status = "REFUND_COMPLETED"]
      /\ UNCHANGED <<returnStatus, ledger, faults>>
  BY <1>2 DEF CompletesRefund
<1>5. request[q] \in Request
  BY Documents DEF IInv
<1>6. /\ request' \in [Requests -> Request]
      /\ \A r \in Requests : r # q => request'[r] = request[r] /\ ledger'[r] = ledger[r]
      /\ request'[q].status = "REFUND_COMPLETED" /\ request'[q].pickedUp = request[q].pickedUp
  BY <1>4, <1>5 DEF IInv, TypeOK, Request, Statuses
<1>7. TypeOK'
  BY <1>3, <1>4, <1>6 DEF IInv, TypeOK, Callers
<1>8. Doc(q)'
  BY <1>1, <1>2, <1>4, <1>6 DEF IInv, Doc, Refunded
<1>9. Knows(c, k)'
  BY <1>3 DEF Knows
<1>10. \A d \in Callers :
           call'[d] = call[d] \/ (Knows(d, call[d])' /\ (At(d, "complete") => call[d].q = q))
  BY <1>2, <1>3, <1>9, CallSteps DEF IInv
<1>11. Refunded(q)' = Refunded(q)
  BY <1>4 DEF Refunded
<1> QED
  BY <1>4, <1>6, <1>7, <1>8, <1>10, <1>11, OneRequest

\* After a fault a request may stay as it is.
LEMMA DiesKeeps ==
  ASSUME IInv, NEW c \in Callers, Dies(c)
  PROVE  IInv'
<1>1. /\ UNCHANGED <<request, returnStatus, ledger>>
      /\ call' = [call EXCEPT ![c] = Idle]
      /\ faults' \in 0..MaxFaults /\ faults' > 0
  BY BoundAssumption DEF Dies, Returns, IInv, TypeOK
<1>2. TypeOK'
  BY <1>1, IdleCall DEF IInv, TypeOK, Callers
<1>3. ASSUME NEW d \in Callers PROVE Knows(d, call[d])'
  <2>1. CASE d = c
    BY <1>1, <2>1 DEF Knows, Idle, IInv, TypeOK, Callers
  <2>2. CASE d # c
    BY <1>1, <2>2 DEF Knows, IInv, TypeOK, Callers, Refunded
  <2> QED
    BY <2>1, <2>2
<1>4. ASSUME NEW q \in Requests PROVE Doc(q)'
  BY <1>1 DEF IInv, Doc, Refunded
<1> QED
  BY <1>2, <1>3, <1>4 DEF IInv

LEMMA ReadingKeeps ==
  ASSUME IInv, NEW c \in Callers, NEW q \in Requests,
         \/ \E op \in DOMAIN Moves : Begins(c, op, q)
         \/ \E op \in Assigning, boy \in Boys : Assigns(c, op, q, boy)
         \/ AcceptReads(c, q)
         \/ JobReads(c, q)
  PROVE  IInv'
<1>1. ASSUME NEW op \in DOMAIN Moves, Begins(c, op, q) PROVE IInv'
  BY <1>1, ReadsKeeps DEF Begins
<1>2. ASSUME NEW op \in Assigning, NEW boy \in Boys, Assigns(c, op, q, boy) PROVE IInv'
  <2>1. op \in DOMAIN Moves
    BY MovesDomain DEF Assigning, Operations
  <2> QED
    BY <1>2, <2>1, ReadsKeeps DEF Assigns
<1>3. CASE AcceptReads(c, q)
  BY <1>3, ReadsKeeps DEF AcceptReads
<1>4. CASE JobReads(c, q)
  BY <1>4, ReadsKeeps DEF JobReads
<1> QED
  BY <1>1, <1>2, <1>3, <1>4

LEMMA StepIInv == IInv /\ [Next]_vars => IInv'
<1> SUFFICES ASSUME IInv, [Next]_vars PROVE IInv'
  OBVIOUS
<1>1. ASSUME NEW c \in Calls, NEW q \in Requests,
             \/ \E op \in DOMAIN Moves : Begins(c, op, q)
             \/ \E op \in Assigning, boy \in Boys : Assigns(c, op, q, boy)
             \/ AcceptReads(c, q)
      PROVE  IInv'
  BY <1>1, ReadingKeeps DEF Callers
<1>2. ASSUME NEW c \in Jobs, NEW q \in Requests, JobReads(c, q) PROVE IInv'
  BY <1>2, ReadingKeeps DEF Callers
<1>3. ASSUME NEW c \in Calls, NEW q \in Requests, NEW op, RefundBegins(c, op, q) PROVE IInv'
  BY <1>3, RefundBeginsKeeps
<1>4. ASSUME NEW c \in Calls, SubmitLooks(c) PROVE IInv'
  BY <1>4, SubmitKeeps DEF Callers
<1>5. ASSUME NEW q \in Requests, DeliversToSeller(q) PROVE IInv'
  BY <1>5, DeliversKeeps
<1>6. ASSUME NEW c \in Callers, CallStep(c) \/ Dies(c) PROVE IInv'
  BY <1>6, SubmitKeeps, SavesKeeps, SavesOrderKeeps, RefundCommitsKeeps, RefundRefusedKeeps,
     CompletesRefundKeeps, DiesKeeps DEF CallStep
<1>7. CASE UNCHANGED vars
  <2>1. TypeOK'
    BY <1>7 DEF IInv, TypeOK, vars
  <2>2. ASSUME NEW c \in Callers PROVE Knows(c, call[c])'
    BY <1>7 DEF IInv, Knows, Refunded, vars
  <2>3. ASSUME NEW q \in Requests PROVE Doc(q)'
    BY <1>7 DEF IInv, Doc, Refunded, At, vars
  <2> QED
    BY <2>1, <2>2, <2>3 DEF IInv
<1> QED
  BY <1>1, <1>2, <1>3, <1>4, <1>5, <1>6, <1>7 DEF Next, Callers

(***************************************************************************)
(* The theorems.                                                             *)
(***************************************************************************)
LEMMA Invariance == Spec => []IInv
BY InitIInv, StepIInv, PTL DEF Spec

\* Documents, rows and calls have their types; that the order's field has one of
\* its values needs to know with which operations a call comes to the order.
THEOREM TypeCorrect == Spec => []TypeOK
<1>1. IInv => TypeOK
  BY DEF IInv
<1> QED
  BY <1>1, Invariance, PTL

\* A request charges the seller once and pays the customer at most once.
THEOREM RefundOnce == Spec => []RefundOncePerRequest
<1>1. IInv => RefundOncePerRequest
  BY DEF IInv, Doc, RefundOncePerRequest
<1> QED
  BY <1>1, Invariance, PTL

\* Without an administrator's override goods are picked up before they are refunded.
THEOREM PickedUpFirst == Spec => []NoRefundBeforePickup
<1>1. IInv => NoRefundBeforePickup
  BY DEF IInv, Doc, NoRefundBeforePickup
<1> QED
  BY <1>1, Invariance, PTL

\* A rider is paid once for bringing the goods back.
THEOREM PaidOnce == Spec => []CommissionOnce
<1>1. IInv => CommissionOnce
  BY DEF IInv, Doc, CommissionOnce
<1> QED
  BY <1>1, Invariance, PTL

\* A status that tells of a refund is earned, and a refund under way has a worker
\* unless one died.
THEOREM UnderWay == Spec => []RefundUnderWay
<1>1. IInv => RefundUnderWay
  BY DEF IInv, Doc, RefundUnderWay
<1> QED
  BY <1>1, Invariance, PTL
================================================================================
