----------------------------- MODULE ReturnRequest -----------------------------
(***************************************************************************)
(* Return requests of one order: returnRequestController.js and the job that   *)
(* takes a pickup back from a rider who does not accept it.                      *)
(*                                                                           *)
(* A handler reads the request, checks it, saves it, and then saves the order:   *)
(* three awaits, between which other handlers run. Mongoose saves the fields      *)
(* that the handler has changed, without a look at what became of the others.     *)
(* Only the refund and the delivery to the seller move money in a transaction,    *)
(* and a ledger key that is taken aborts it; MongoDB runs it again when it        *)
(* conflicts, so that it is one step here.                                       *)
(*                                                                           *)
(* Riders are online, so that any of them may be assigned.                       *)
(***************************************************************************)
EXTENDS Integers, FiniteSets

CONSTANTS
  Requests,        \* documents that may be made for the order
  Boys, NoBoy,
  Calls,           \* requests to the API in flight
  Jobs,            \* runs of the acceptance timeout job
  MaxFaults        \* calls that die or fail where the code has no early return

ASSUME BoundAssumption == MaxFaults \in Nat
ASSUME BoysAssumption == NoBoy \notin Boys
ASSUME CallsAssumption == Calls \cap Jobs = {}

VARIABLES
  request,       \* the documents
  returnStatus,  \* of the order
  ledger,        \* per request, the rows that it has caused
  call,
  faults

vars == <<request, returnStatus, ledger, call, faults>>

Statuses ==
  {"REQUESTED", "SELLER_APPROVED", "SELLER_REJECTED", "PICKUP_SCHEDULED",
   "PICKED_UP", "DELIVERED_TO_SELLER", "REFUND_INITIATED", "REFUND_COMPLETED",
   "CLOSED", "UNDER_DISPUTE", "CANCELLED"}

VALID_TRANSITIONS ==
  [status \in Statuses |->
    CASE status = "REQUESTED" -> {"SELLER_APPROVED", "SELLER_REJECTED", "CANCELLED"}
      [] status = "SELLER_APPROVED" -> {"PICKUP_SCHEDULED", "CANCELLED"}
      [] status = "PICKUP_SCHEDULED" -> {"PICKED_UP", "SELLER_APPROVED"}
      [] status = "PICKED_UP" -> {"DELIVERED_TO_SELLER", "REFUND_INITIATED"}
      [] status = "DELIVERED_TO_SELLER" -> {"REFUND_INITIATED", "UNDER_DISPUTE"}
      [] status = "REFUND_INITIATED" -> {"REFUND_INITIATED", "REFUND_COMPLETED"}
      [] status = "REFUND_COMPLETED" -> {"CLOSED"}
      [] status = "UNDER_DISPUTE" -> {"REFUND_INITIATED", "SELLER_REJECTED"}
      [] OTHER -> {}]

\* Mutant: a refund may be initiated once the pickup is scheduled.
TransitionToo(from, to) ==
  to \in VALID_TRANSITIONS[from] \/ <<from, to>> = <<"PICKUP_SCHEDULED", "REFUND_INITIATED">>

IsValidTransition(from, to) == to \in VALID_TRANSITIONS[from]

Before(to) == {from \in Statuses : IsValidTransition(from, to)}

\* Per operation: the statuses that its check lets pass, what it makes of the
\* request, and what of the order.
Moves ==
  [cancel   |-> [from |-> {"REQUESTED"}, to |-> "CANCELLED", order |-> "none"],
   approve  |-> [from |-> Before("SELLER_APPROVED"), to |-> "SELLER_APPROVED",
                 order |-> "return_approved"],
   reject   |-> [from |-> Before("SELLER_REJECTED"), to |-> "SELLER_REJECTED",
                 order |-> "return_rejected"],
   assign   |-> [from |-> Before("PICKUP_SCHEDULED"), to |-> "PICKUP_SCHEDULED",
                 order |-> "return_pickup_assigned"],
   reassign |-> [from |-> {"PICKUP_SCHEDULED", "SELLER_APPROVED"}, to |-> "PICKUP_SCHEDULED",
                 order |-> "return_pickup_assigned"],
   decline  |-> [from |-> Statuses, to |-> "SELLER_APPROVED", order |-> "return_approved"],
   pickup   |-> [from |-> Before("PICKED_UP"), to |-> "PICKED_UP", order |-> "return_in_transit"],
   override_approve |-> [from |-> Statuses, to |-> "SELLER_APPROVED", order |-> "return_approved"],
   override_reject  |-> [from |-> Statuses, to |-> "SELLER_REJECTED", order |-> "return_rejected"]]

ByRider == {"decline", "pickup"}
Assigning == {"assign", "reassign"}

ReturnStatuses ==
  {Moves[op].order : op \in DOMAIN Moves} \cup {"return_requested", "returned", "refund_completed"}

Request ==
  [status : Statuses \cup {"absent"}, boy : Boys \cup {NoBoy},
   accepted : BOOLEAN,   \* a line of the history says that a rider accepted
   pickedUp : BOOLEAN]   \* picked_up_at is set

Absent == [status |-> "absent", boy |-> NoBoy, accepted |-> FALSE, pickedUp |-> FALSE]

Row == [initiated : Nat, overridden : Nat, credited : Nat, commission : Nat]

\* What a call knows: the operation, the request, the rider to be assigned and
\* the fields that its operation changes in the document it has read.
Idle == [pc |-> "idle", op |-> "none", q |-> "none", to |-> NoBoy, writes |-> {}]

Init ==
  /\ request = [q \in Requests |-> Absent]
  /\ returnStatus = "none"
  /\ ledger = [q \in Requests |->
       [initiated |-> 0, overridden |-> 0, credited |-> 0, commission |-> 0]]
  /\ call = [c \in Calls \cup Jobs |-> Idle]
  /\ faults = 0

At(c, step) == call[c].pc = step
Goes(c, step) == call' = [call EXCEPT ![c].pc = step]
Returns(c) == call' = [call EXCEPT ![c] = Idle]
GoesToOrder(c, op) == call' = [call EXCEPT ![c] = [Idle EXCEPT !.pc = "order", !.op = op]]

Made == {q \in Requests : request[q].status # "absent"}

(***************************************************************************)
(* submitReturnRequest. The pictures are uploaded between the look for a        *)
(* request and the creation.                                                  *)
(***************************************************************************)
SubmitLooks(c) ==
  /\ At(c, "idle")
  /\ \A q \in Made : request[q].status = "CANCELLED"
  /\ Goes(c, "create")
  /\ UNCHANGED <<request, returnStatus, ledger, faults>>

\* Without pictures nothing is created.
SubmitCreates(c) ==
  /\ At(c, "create")
  /\ \/ /\ \E q \in Requests \ Made : request' = [request EXCEPT ![q].status = "REQUESTED"]
        /\ GoesToOrder(c, "submit")
     \/ UNCHANGED request /\ Returns(c)
  /\ UNCHANGED <<returnStatus, ledger, faults>>

(***************************************************************************)
(* The handlers that read, save the request and save the order.                *)
(***************************************************************************)
\* The rider that an operation wants to see on the request.
NewBoy(op, boy, to) == CASE op \in Assigning -> to
                         [] op \in {"decline", "timeout"} -> NoBoy
                         [] OTHER -> boy

NewStatus(op, status) == CASE op = "accept" -> status
                           [] op = "timeout" -> "SELLER_APPROVED"
                           [] OTHER -> Moves[op].to

\* The fields that Mongoose takes for modified.
Modified(op, doc, to) ==
  {field \in {"status", "boy"} :
    \/ field = "status" /\ NewStatus(op, doc.status) # doc.status
    \/ field = "boy" /\ NewBoy(op, doc.boy, to) # doc.boy}

Reads(c, op, q, to) ==
  call' = [call EXCEPT ![c] =
    [pc |-> "save", op |-> op, q |-> q, to |-> to, writes |-> Modified(op, request[q], to)]]

\* The customer, the seller, the rider who has the task, or the administrator.
Begins(c, op, q) ==
  /\ At(c, "idle")
  /\ request[q].status \in Moves[op].from
  /\ op \in ByRider => request[q].boy # NoBoy
  /\ op \notin Assigning
  /\ Reads(c, op, q, NoBoy)
  /\ UNCHANGED <<request, returnStatus, ledger, faults>>

\* assignDeliveryBoy, reassignDeliveryBoy.
Assigns(c, op, q, boy) ==
  /\ At(c, "idle")
  /\ op \in Assigning /\ request[q].status \in Moves[op].from
  /\ Reads(c, op, q, boy)
  /\ UNCHANGED <<request, returnStatus, ledger, faults>>

\* acceptReturnTask, at whatever stage.
AcceptReads(c, q) ==
  /\ At(c, "idle")
  /\ q \in Made /\ request[q].boy # NoBoy
  /\ Reads(c, "accept", q, NoBoy)
  /\ UNCHANGED <<request, returnStatus, ledger, faults>>

\* Only what the call has changed is written.
Saved(doc, k) ==
  [doc EXCEPT
    !.status = IF "status" \in k.writes THEN NewStatus(k.op, @) ELSE @,
    !.boy = IF "boy" \in k.writes THEN NewBoy(k.op, @, k.to) ELSE @,
    !.accepted = @ \/ k.op = "accept",
    !.pickedUp = @ \/ k.op = "pickup"]

Saves(c) ==
  /\ At(c, "save")
  /\ LET k == call[c] IN
       /\ request' = [request EXCEPT ![k.q] = Saved(@, k)]
       /\ IF k.op \in {"accept", "timeout"} THEN Returns(c) ELSE GoesToOrder(c, k.op)
  /\ UNCHANGED <<returnStatus, ledger, faults>>

OrderStatus(op) == CASE op = "submit" -> "return_requested"
                     [] op \in {"initiate", "override"} -> "refund_completed"
                     [] OTHER -> Moves[op].order

\* The order is read and saved, one field of it.
SavesOrder(c) ==
  /\ At(c, "order")
  /\ returnStatus' = OrderStatus(call[c].op)
  /\ Returns(c)
  /\ UNCHANGED <<request, ledger, faults>>

(***************************************************************************)
(* runDeliveryBoyAcceptanceTimeout.                                          *)
(***************************************************************************)
\* Five minutes may be over at any time.
JobReads(c, q) ==
  /\ At(c, "idle")
  /\ request[q].status = "PICKUP_SCHEDULED"
  /\ ~request[q].accepted
  /\ Reads(c, "timeout", q, NoBoy)
  /\ UNCHANGED <<request, returnStatus, ledger, faults>>

(***************************************************************************)
(* The transactions.                                                         *)
(***************************************************************************)
\* Mutant: the commission has no key.
DeliversWithoutKey(q) ==
  /\ request[q].status \in Before("DELIVERED_TO_SELLER")
  /\ request[q].boy # NoBoy
  /\ request' = [request EXCEPT ![q].status = "DELIVERED_TO_SELLER"]
  /\ returnStatus' = "returned"
  /\ ledger' = [ledger EXCEPT ![q].commission = @ + 1]
  /\ UNCHANGED <<call, faults>>

\* markDeliveredToSeller; RET-DEL-CREDIT-<id> pays the rider once.
DeliversToSeller(q) ==
  /\ request[q].status \in Before("DELIVERED_TO_SELLER")
  /\ request[q].boy # NoBoy
  /\ ledger[q].commission = 0
  /\ request' = [request EXCEPT ![q].status = "DELIVERED_TO_SELLER"]
  /\ returnStatus' = "returned"
  /\ ledger' = [ledger EXCEPT ![q].commission = @ + 1]
  /\ UNCHANGED <<call, faults>>

\* initiateRefund, and initiate_refund of overrideReturnRequest.
RefundBegins(c, op, q) ==
  /\ At(c, "idle") /\ q \in Made
  /\ op \in {"initiate", "override"}
  /\ op = "initiate" => request[q].status \in Before("REFUND_INITIATED")
  /\ call' = [call EXCEPT ![c] =
       [Idle EXCEPT !.pc = "refund", !.op = op, !.q = q,
                    !.writes = IF request[q].status = "REFUND_INITIATED" THEN {} ELSE {"status"}]]
  /\ UNCHANGED <<request, returnStatus, ledger, faults>>

\* RETURN-SELLER-DEBIT-<id> is charged once.
Refunded(q) == ledger[q].initiated + ledger[q].overridden

\* The rows of the transaction.
Charged(row, op, credit) ==
  IF op = "initiate"
  THEN [row EXCEPT !.initiated = @ + 1, !.credited = @ + credit]
  ELSE [row EXCEPT !.overridden = @ + 1, !.credited = @ + credit]

\* Mutant: the charge has no key, and the money goes out again.
RefundsWithoutKey(c) ==
  LET k == call[c] IN
  /\ At(c, "refund") /\ Refunded(k.q) < 2
  /\ ledger' = [ledger EXCEPT ![k.q] = Charged(@, k.op, 1)]
  /\ Goes(c, "complete")
  /\ UNCHANGED <<request, returnStatus, faults>>

\* The customer gets the money unless another method than the wallet was asked
\* for. When the transaction is run again Mongoose has no status left to save.
RefundCommits(c) ==
  LET k == call[c] IN
  /\ At(c, "refund") /\ Refunded(k.q) = 0
  /\ \E credit \in {0, 1} :
       ledger' = [ledger EXCEPT ![k.q] = Charged(@, k.op, credit)]
  /\ \/ UNCHANGED request
     \/ /\ k.op = "initiate" /\ "status" \in k.writes
        /\ request' = [request EXCEPT ![k.q].status = "REFUND_INITIATED"]
  /\ Goes(c, "complete")
  /\ UNCHANGED <<returnStatus, faults>>

\* The key is taken: the transaction is aborted, and tried for two minutes.
RefundRefused(c) ==
  /\ At(c, "refund") /\ Refunded(call[c].q) > 0
  /\ Returns(c)
  /\ UNCHANGED <<request, returnStatus, ledger, faults>>

\* Mutant: the request is not saved a second time.
LeavesRefund(c) ==
  /\ At(c, "complete")
  /\ GoesToOrder(c, call[c].op)
  /\ UNCHANGED <<request, returnStatus, ledger, faults>>

CompletesRefund(c) ==
  /\ At(c, "complete")
  /\ request' = [request EXCEPT ![call[c].q].status = "REFUND_COMPLETED"]
  /\ GoesToOrder(c, call[c].op)
  /\ UNCHANGED <<returnStatus, ledger, faults>>

\* The process dies, or MongoDB fails: nothing more is done.
Dies(c) ==
  /\ ~At(c, "idle")
  /\ faults < MaxFaults
  /\ faults' = faults + 1
  /\ Returns(c)
  /\ UNCHANGED <<request, returnStatus, ledger>>

CallStep(c) ==
  \/ SubmitCreates(c) \/ Saves(c) \/ SavesOrder(c)
  \/ RefundCommits(c) \/ RefundRefused(c) \/ CompletesRefund(c)

Next ==
  \/ \E c \in Calls, q \in Requests :
       \/ \E op \in DOMAIN Moves : Begins(c, op, q)
       \/ \E op \in Assigning, boy \in Boys : Assigns(c, op, q, boy)
       \/ \E op \in {"initiate", "override"} : RefundBegins(c, op, q)
       \/ AcceptReads(c, q)
  \/ \E c \in Calls : SubmitLooks(c)
  \/ \E c \in Jobs, q \in Requests : JobReads(c, q)
  \/ \E q \in Requests : DeliversToSeller(q)
  \/ \E c \in Calls \cup Jobs : CallStep(c) \/ Dies(c)

Spec == Init /\ [][Next]_vars

(***************************************************************************)
(* Properties.                                                               *)
(***************************************************************************)
Call ==
  [pc : {"idle", "create", "save", "order", "refund", "complete"},
   op : DOMAIN Moves \cup {"none", "submit", "accept", "timeout", "initiate", "override"},
   q : Requests \cup {"none"}, to : Boys \cup {NoBoy}, writes : SUBSET {"status", "boy"}]

\* Every variable holds a value of its type.
TypeOK ==
  /\ request \in [Requests -> Request]
  /\ returnStatus \in ReturnStatuses
  /\ ledger \in [Requests -> Row]
  /\ call \in [Calls \cup Jobs -> Call]
  /\ faults \in 0..MaxFaults

\* However often a refund is asked for, by either way, and whatever a stale save
\* has made of the status since: a request charges the seller once, and the
\* customer gets the money at most once and never without that charge.
RefundOncePerRequest ==
  \A q \in Requests : ledger[q].credited <= Refunded(q) /\ Refunded(q) <= 1

\* Unless the administrator overrides, nobody is refunded for goods that no rider
\* has picked up.
NoRefundBeforePickup ==
  \A q \in Requests : ledger[q].initiated > 0 => request[q].pickedUp

\* A rider brings the goods back once and is paid for it once, also when the
\* request was sent round again.
CommissionOnce ==
  \A q \in Requests :
    /\ ledger[q].commission <= 1
    /\ request[q].status = "DELIVERED_TO_SELLER" => ledger[q].commission = 1
    /\ ledger[q].commission = 1 => request[q].pickedUp

\* A request that says that its refund is on its way, or done, has charged it,
\* and one that says it is on its way is still being worked on, unless that
\* process died: nobody else can finish it, for its key is taken.
RefundUnderWay ==
  \A q \in Requests :
    /\ request[q].status \in {"REFUND_INITIATED", "REFUND_COMPLETED"} => Refunded(q) = 1
    /\ request[q].status = "REFUND_INITIATED" =>
         faults > 0 \/ \E c \in Calls : At(c, "complete") /\ call[c].q = q

\* An order whose return was already requested is refused another request, so
\* that it is refunded once.
OrderRefundedOnce ==
  \A q, r \in Requests : Refunded(q) > 0 /\ Refunded(r) > 0 => q = r
================================================================================
