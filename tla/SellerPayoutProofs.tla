------------------------ MODULE SellerPayoutProofs -------------------------
(***************************************************************************)
(* Proofs about SellerPayout, for every number of handlers and settlement    *)
(* runs, every balance and both settings of AUTO_RELEASE_SELLER_PAYOUT.      *)
(*                                                                           *)
(* Every step of the module moves money in one of four ways, or not at all   *)
(* (StepsMoveMoney); the invariant Books is preserved by each of the four.   *)
(***************************************************************************)
EXTENDS SellerPayout, TLAPS

MoneyMoves ==
  \/ UNCHANGED money
  \/ CreatePendingPayout
  \/ PayoutPaid
  \/ ledger.refunds = 0 /\ SellerAdjusted

\* No step touches the payout, the wallet or the ledger in any other way.
LEMMA StepsMoveMoney ==
  ASSUME [Next]_vars
  PROVE  MoneyMoves
<1> USE DEF MoneyMoves
<1>1. CASE \E s \in Settlers : Settlement(s)
  BY <1>1 DEF Settlement, SettlementBegins, SettlementQueuesPayout,
              SettlementCommits, SettlementAborts
<1>2. CASE \E c \in Calls : ReturnCall(c)
  <2>1. PICK c \in Calls : ReturnCall(c)
    BY <1>2
  <2>2. CASE CompleteReturnAndRefund(c)
    BY <2>2 DEF CompleteReturnAndRefund, RefundCommits, money
  <2>3. CASE ReleaseAfterQcFailed(c)
    BY <2>3 DEF ReleaseAfterQcFailed, ProcessPayout, HoldCleared
  <2>4. CASE Save(c) \/ CallFails(c)
    BY <2>4 DEF Save, CallFails
  <2>5. CASE \/ CreateReturnRequest(c) \/ ApproveReturn(c) \/ RejectReturn(c)
             \/ AssignReturnDelivery(c) \/ AcceptReturnPickup(c)
             \/ RejectReturnPickup(c) \/ VerifyReturnPickupOtp(c)
             \/ RequestReturnDropOtp(c) \/ VerifyReturnDropOtp(c)
             \/ UpdateReturnStatus(c) \/ UpdateReturnQcStatus(c)
    BY <2>5 DEF CreateReturnRequest, ApproveReturn, RejectReturn,
                AssignReturnDelivery, AcceptReturnPickup, RejectReturnPickup,
                VerifyReturnPickupOtp, RequestReturnDropOtp,
                VerifyReturnDropOtp, UpdateReturnStatus, UpdateReturnQcStatus,
                Starts
  <2> QED
    BY <2>1, <2>2, <2>3, <2>4, <2>5 DEF ReturnCall
<1>3. CASE Batch
  BY <1>3 DEF Batch, BatchReadsHolds, BatchPays, ProcessPayout
<1>4. CASE Release
  BY <1>4 DEF Release, ReleaseReadsOrder, ReleasePays, ReleaseFindsPayout,
              ReleaseClears, ProcessPayout, HoldCleared
<1>5. CASE \/ AdminPays \/ ReturnPickupGivesUp \/ RequestReturnPickupOtp
           \/ ReturnOtpLost \/ Tick
  BY <1>5 DEF AdminPays, ReturnPickupGivesUp, RequestReturnPickupOtp,
              ReturnOtpLost, Tick
<1>6. CASE UNCHANGED vars
  BY <1>6 DEF vars
<1> QED
  BY <1>1, <1>2, <1>3, <1>4, <1>5, <1>6 DEF Next

(***************************************************************************)
(* The books: the four money properties and the types they rest on.          *)
(***************************************************************************)
Ledger == [paid : Nat, cancelled : Nat, refunds : Nat, debits : Nat]

MoneyTypes ==
  /\ payout \in {"none", "PENDING", "COMPLETED", "CANCELLED"}
  /\ wallet \in [pending : Nat, available : Nat]
  /\ ledger \in Ledger

Books ==
  /\ MoneyTypes
  /\ WalletMatchesPayouts
  /\ PaidOnlyOnce
  /\ RefundCostsOnce

\* Rows of two kinds written at once: a ledger stays a ledger, and the other
\* counts stay as they are.
LEMMA TwoRows ==
  ASSUME NEW l \in Ledger, NEW a \in Nat, NEW b \in Nat
  PROVE  /\ [l EXCEPT !.cancelled = a, !.refunds = b] \in Ledger
         /\ [l EXCEPT !.debits = a, !.refunds = b] \in Ledger
BY DEF Ledger

LEMMA BooksInit == Init => Books
BY FundsAssumption DEF Init, Books, MoneyTypes, Ledger, WalletMatchesPayouts,
   PaidOnlyOnce, RefundCostsOnce

LEMMA BooksStep ==
  ASSUME Books, [Next]_vars
  PROVE  Books'
<1> USE DEF Books, MoneyTypes, WalletMatchesPayouts, PaidOnlyOnce,
            RefundCostsOnce
<1>f. /\ Funds \in Nat
      /\ wallet.pending \in Nat /\ wallet.available \in Nat
      /\ ledger.paid \in Nat /\ ledger.cancelled \in Nat
      /\ ledger.refunds \in Nat /\ ledger.debits \in Nat
  BY FundsAssumption DEF Ledger
<1>1. CASE UNCHANGED money
  BY <1>1 DEF money
<1>2. CASE CreatePendingPayout
  <2>1. CASE payout \in {"none", "CANCELLED"}
    <3>1. payout' = "PENDING" /\ ledger' = ledger
      BY <1>2, <2>1 DEF CreatePendingPayout
    <3>2. wallet' = [wallet EXCEPT !.pending = @ + 1]
      BY <1>2, <2>1 DEF CreatePendingPayout
    <3>3. /\ wallet' \in [pending : Nat, available : Nat]
          /\ wallet'.pending = 1 /\ wallet'.available = wallet.available
      BY <2>1, <3>2
    <3> QED
      BY <2>1, <3>1, <3>3
  <2>2. CASE payout \notin {"none", "CANCELLED"}
    BY <1>2, <2>2, <1>1 DEF CreatePendingPayout
  <2> QED
    BY <2>1, <2>2
<1>3. CASE PayoutPaid
  <2>1. payout = "PENDING" /\ payout' = "COMPLETED"
    BY <1>3 DEF PayoutPaid
  <2>2. /\ wallet' \in [pending : Nat, available : Nat]
        /\ wallet'.pending = 0 /\ wallet'.available = wallet.available + 1
    BY <1>3, <2>1 DEF PayoutPaid
  <2>3. /\ ledger' \in Ledger
        /\ ledger'.paid = ledger.paid + 1 /\ ledger'.cancelled = ledger.cancelled
        /\ ledger'.refunds = ledger.refunds /\ ledger'.debits = ledger.debits
    BY <1>3 DEF PayoutPaid, Ledger
  <2>4. WalletMatchesPayouts' /\ PaidOnlyOnce'
    BY <1>f, <2>1, <2>2, <2>3
  <2>5. MoneyTypes' /\ RefundCostsOnce'
    BY <2>1, <2>2, <2>3
  <2> QED
    BY <2>4, <2>5
<1>4. CASE ledger.refunds = 0 /\ SellerAdjusted
  <2>1. CASE PayoutCancelled
    <3>1. payout = "PENDING" /\ payout' = "CANCELLED"
      BY <2>1 DEF PayoutCancelled
    <3>2. /\ wallet' \in [pending : Nat, available : Nat]
          /\ wallet'.pending = 0 /\ wallet'.available = wallet.available
      BY <2>1, <3>1 DEF PayoutCancelled
    <3>3. /\ ledger' \in Ledger
          /\ ledger'.paid = ledger.paid /\ ledger'.cancelled = ledger.cancelled + 1
          /\ ledger'.refunds = ledger.refunds + 1 /\ ledger'.debits = ledger.debits
      <4>1. ledger.cancelled + 1 \in Nat /\ ledger.refunds + 1 \in Nat
        BY <1>f
      <4>2. ledger' \in Ledger
        BY <2>1, <4>1, TwoRows DEF PayoutCancelled
      <4> QED
        BY <2>1, <4>2 DEF PayoutCancelled, Ledger
    <3>4. WalletMatchesPayouts' /\ PaidOnlyOnce'
      BY <1>f, <3>1, <3>2, <3>3
    <3>5. RefundCostsOnce'
      BY <1>4, <1>f, <3>3
    <3>6. MoneyTypes'
      BY <3>1, <3>2, <3>3
    <3> QED
      BY <3>4, <3>5, <3>6
  <2>2. CASE /\ payout' = payout /\ wallet' = wallet
             /\ ledger' = [ledger EXCEPT !.refunds = @ + 1]
    BY <1>4, <1>f, <2>2 DEF Ledger
  <2>3. CASE /\ wallet.available >= 1 /\ payout' = payout
             /\ wallet' = [wallet EXCEPT !.available = @ - 1]
             /\ ledger' = [ledger EXCEPT !.debits = @ + 1, !.refunds = @ + 1]
    <3>1. /\ ledger' \in Ledger
          /\ ledger'.paid = ledger.paid /\ ledger'.cancelled = ledger.cancelled
          /\ ledger'.refunds = ledger.refunds + 1 /\ ledger'.debits = ledger.debits + 1
      <4>1. ledger.debits + 1 \in Nat /\ ledger.refunds + 1 \in Nat
        BY <1>f
      <4>2. ledger' \in Ledger
        BY <2>3, <4>1, TwoRows
      <4> QED
        BY <2>3, <4>2 DEF Ledger
    <3>2. /\ wallet' \in [pending : Nat, available : Nat]
          /\ wallet'.pending = wallet.pending
          /\ wallet'.available = wallet.available - 1
      BY <2>3, <1>f
    <3>3. MoneyTypes' /\ RefundCostsOnce'
      BY <1>4, <1>f, <2>3, <3>1, <3>2
    <3>4. WalletMatchesPayouts' /\ PaidOnlyOnce'
      BY <1>f, <2>3, <3>1, <3>2
    <3> QED
      BY <3>3, <3>4
  <2> QED
    BY <1>4, <2>1, <2>2, <2>3 DEF SellerAdjusted
<1> QED
  BY <1>1, <1>2, <1>3, <1>4, StepsMoveMoney DEF MoneyMoves

\* The three money properties hold in every behaviour: the pending and available
\* balances agree with the payout and the ledger, the order is paid once and
\* refunded once, and a refund costs the seller at most once.
THEOREM BooksBalance ==
  Spec => [](WalletMatchesPayouts /\ PaidOnlyOnce /\ RefundCostsOnce)
<1>1. Init => Books
  BY BooksInit
<1>2. Books /\ [Next]_vars => Books'
  BY BooksStep
<1>3. Books => WalletMatchesPayouts /\ PaidOnlyOnce /\ RefundCostsOnce
  BY DEF Books
<1> QED
  BY <1>1, <1>2, <1>3, PTL DEF Spec

\* Batch, release job, failed quality check and administrators together pay an
\* order once.
THEOREM PaidOnce == Spec => []PaidOnlyOnce
BY BooksBalance, PTL

\* An order is refunded once, and its seller charged for that at most once.
THEOREM RefundOnce == Spec => []RefundCostsOnce
BY BooksBalance, PTL

\* Money released to the seller is never called back by cancelling the payout:
\* only a debit, with a ledger row of its own, can take it.
THEOREM CompletedStaysCompleted == Spec => CompletedIsFinal
<1>1. [Next]_vars => [payout = "COMPLETED" => payout' = "COMPLETED"]_vars
  BY StepsMoveMoney DEF MoneyMoves, money, CreatePendingPayout, PayoutPaid,
     SellerAdjusted, PayoutCancelled
<1> QED
  BY <1>1, PTL DEF Spec, CompletedIsFinal

(***************************************************************************)
(* Type correctness. The money is typed by Books; the rest is not touched by *)
(* what the money does.                                                     *)
(***************************************************************************)
OtherTypes ==
  /\ clock \in Clock
  /\ rs \in ReturnStatus /\ rider \in BOOLEAN /\ items \in BOOLEAN
  /\ otps \subseteq {"pickup", "drop"}
  /\ sp \in {"PENDING", "HOLD", "COMPLETED", "CANCELLED"}
  /\ flags \in [queued : BOOLEAN, held : BOOLEAN, settled : BOOLEAN]
  /\ calls \in [Calls -> CallRecord]
  /\ settle \in [Settlers -> RunRecord]
  /\ batch \in {"idle", "paying"}
  /\ release \in {"idle", "finding", "clearing"}

LEMMA RecordTypes ==
  /\ IdleCall \in CallRecord
  /\ IdleRun \in RunRecord
  /\ \A then \in {"idle", "refund", "payout"}, status \in ReturnStatus,
        boy \in BOOLEAN \cup {Keep} :
       Saves(then, status, boy) \in CallRecord
  /\ \A call \in CallRecord, otp \in {"no", "pickup", "drop"} :
       [call EXCEPT !.otp = otp] \in CallRecord
BY DEF IdleCall, IdleRun, CallRecord, RunRecord, Saves, CallSteps

\* A call may be given another step and another status to write.
LEMMA CallWithStatus ==
  ASSUME NEW call \in CallRecord, NEW step \in CallSteps,
         NEW status \in ReturnStatus
  PROVE  [call EXCEPT !.step = step, !.rs = status] \in CallRecord
BY DEF CallRecord

LEMMA ClashedType ==
  ASSUME settle \in [Settlers -> RunRecord]
  PROVE  Clashed \in [Settlers -> RunRecord]
<1>1. \A s \in Settlers : [settle[s] EXCEPT !.clash = TRUE] \in RunRecord
  BY DEF RunRecord
<1> QED
  BY <1>1, RecordTypes DEF Clashed

LEMMA StartsType ==
  ASSUME OtherTypes, NEW c \in Calls, NEW call \in CallRecord, Starts(c, call),
         otps' \subseteq {"pickup", "drop"}
  PROVE  OtherTypes'
BY DEF OtherTypes, Starts, order, jobs

LEMMA SettlementTypes ==
  ASSUME OtherTypes, NEW s \in Settlers, Settlement(s)
  PROVE  OtherTypes'
<1> USE DEF OtherTypes
<1>1. CASE SettlementBegins(s)
  BY <1>1 DEF SettlementBegins, RunRecord, order, jobs
<1>2. CASE SettlementQueuesPayout(s)
  <2>1. [settle[s] EXCEPT !.pc = "save"] \in RunRecord
    BY DEF RunRecord
  <2> QED
    BY <1>2, <2>1, RecordTypes DEF SettlementQueuesPayout, order, jobs
<1>3. CASE SettlementCommits(s)
  <2>1. settle' \in [Settlers -> RunRecord]
    BY <1>3, ClashedType, RecordTypes DEF SettlementCommits
  <2>2. /\ sp' \in {"PENDING", "HOLD", "COMPLETED", "CANCELLED"}
        /\ flags' \in [queued : BOOLEAN, held : BOOLEAN, settled : BOOLEAN]
    BY <1>3 DEF SettlementCommits, RunRecord
  <2> QED
    BY <1>3, <2>1, <2>2 DEF SettlementCommits, jobs
<1>4. CASE SettlementAborts(s)
  BY <1>4, RecordTypes DEF SettlementAborts, order, jobs
<1> QED
  BY <1>1, <1>2, <1>3, <1>4 DEF Settlement

LEMMA ProcessPayoutTypes ==
  ASSUME OtherTypes, ProcessPayout
  PROVE  /\ rs' \in ReturnStatus /\ rider' \in BOOLEAN /\ items' \in BOOLEAN
         /\ sp' \in {"PENDING", "HOLD", "COMPLETED", "CANCELLED"}
         /\ flags' \in [queued : BOOLEAN, held : BOOLEAN, settled : BOOLEAN]
         /\ settle' \in [Settlers -> RunRecord]
BY ClashedType DEF OtherTypes, ProcessPayout, PayoutPaid, order

LEMMA HoldClearedTypes ==
  ASSUME OtherTypes, HoldCleared
  PROVE  /\ rs' \in ReturnStatus /\ rider' \in BOOLEAN /\ items' \in BOOLEAN
         /\ sp' \in {"PENDING", "HOLD", "COMPLETED", "CANCELLED"}
         /\ flags' \in [queued : BOOLEAN, held : BOOLEAN, settled : BOOLEAN]
         /\ settle' \in [Settlers -> RunRecord]
BY ClashedType DEF OtherTypes, HoldCleared

LEMMA ReturnCallTypes ==
  ASSUME OtherTypes, NEW c \in Calls, ReturnCall(c)
  PROVE  OtherTypes'
<1> USE RecordTypes
<1>s. /\ {"return_requested", "return_approved", "return_rejected",
          "return_pickup_assigned", "return_in_transit", "return_drop_pending",
          "returned", "qc_passed", "qc_failed", "refund_completed"}
           \subseteq ReturnStatus
      /\ otps \subseteq {"pickup", "drop"}
  BY DEF ReturnStatus, OtherTypes
<1>1. CASE \/ CreateReturnRequest(c) \/ ApproveReturn(c) \/ RejectReturn(c)
           \/ AcceptReturnPickup(c) \/ RejectReturnPickup(c)
  BY <1>1, <1>s, StartsType
     DEF CreateReturnRequest, ApproveReturn, RejectReturn, AcceptReturnPickup,
         RejectReturnPickup
<1>2. CASE AssignReturnDelivery(c)
  BY <1>2, <1>s, StartsType DEF AssignReturnDelivery
<1>u. CASE UpdateReturnStatus(c)
  BY <1>u, <1>s, StartsType DEF UpdateReturnStatus
<1>3. CASE VerifyReturnPickupOtp(c) \/ VerifyReturnDropOtp(c)
  BY <1>3, <1>s, StartsType DEF VerifyReturnPickupOtp, VerifyReturnDropOtp
<1>4. CASE RequestReturnDropOtp(c)
  <2>1. [IdleCall EXCEPT !.step = "save", !.rs = "return_drop_pending"] \in CallRecord
    BY <1>s, CallWithStatus DEF CallSteps
  <2> QED
    BY <1>4, <1>s, <2>1, StartsType DEF RequestReturnDropOtp
<1>5. CASE UpdateReturnQcStatus(c)
  BY <1>5, <1>s, StartsType DEF UpdateReturnQcStatus
<1>6. CASE Save(c)
  <2>1. calls[c] \in CallRecord
    BY DEF OtherTypes
  <2>2. [IdleCall EXCEPT !.step = calls[c].then] \in CallRecord
    BY <2>1 DEF IdleCall, CallRecord, CallSteps
  <2>3. calls' \in [Calls -> CallRecord] /\ settle' \in [Settlers -> RunRecord]
    BY <1>6, <2>2, ClashedType DEF Save, OtherTypes
  <2>4. /\ rs' \in ReturnStatus /\ rider' \in BOOLEAN /\ items' \in BOOLEAN
        /\ otps' \subseteq {"pickup", "drop"}
    BY <1>6, <1>s, <2>1 DEF Save, OtherTypes, CallRecord
  <2> QED
    BY <1>6, <2>3, <2>4 DEF Save, OtherTypes, jobs
<1>7. CASE CompleteReturnAndRefund(c)
  <2>1. /\ sp' \in {"PENDING", "HOLD", "COMPLETED", "CANCELLED"}
        /\ flags' \in [queued : BOOLEAN, held : BOOLEAN, settled : BOOLEAN]
    BY <1>7 DEF CompleteReturnAndRefund, RefundCommits, SellerAdjusted, OtherTypes
  <2>2. /\ rs' \in ReturnStatus /\ rider' = rider /\ items' = items
        /\ settle' \in [Settlers -> RunRecord]
    BY <1>7, <1>s, ClashedType
       DEF CompleteReturnAndRefund, RefundCommits, OtherTypes
  <2> QED
    BY <1>7, <2>1, <2>2 DEF CompleteReturnAndRefund, OtherTypes, jobs
<1>8. CASE ReleaseAfterQcFailed(c)
  BY <1>8, ProcessPayoutTypes, HoldClearedTypes
     DEF ReleaseAfterQcFailed, OtherTypes, jobs
<1>9. CASE CallFails(c)
  BY <1>9 DEF CallFails, OtherTypes, order, jobs
<1> QED
  BY <1>1, <1>2, <1>u, <1>3, <1>4, <1>5, <1>6, <1>7, <1>8, <1>9 DEF ReturnCall

LEMMA JobTypes ==
  ASSUME OtherTypes, Batch \/ Release \/ AdminPays
  PROVE  OtherTypes'
<1> USE ProcessPayoutTypes, HoldClearedTypes
<1>1. CASE BatchReadsHolds \/ ReleaseReadsOrder \/ ReleaseFindsPayout
  BY <1>1 DEF BatchReadsHolds, ReleaseReadsOrder, ReleaseFindsPayout,
              OtherTypes, order
<1>2. CASE BatchPays
  BY <1>2 DEF BatchPays, OtherTypes
<1>3. CASE ReleasePays
  BY <1>3 DEF ReleasePays, OtherTypes
<1>4. CASE ReleaseClears
  BY <1>4 DEF ReleaseClears, OtherTypes
<1>5. CASE AdminPays
  BY <1>5 DEF AdminPays, ProcessPayout, OtherTypes, jobs
<1> QED
  BY <1>1, <1>2, <1>3, <1>4, <1>5 DEF Batch, Release

LEMMA OtherStep ==
  ASSUME OtherTypes, [Next]_vars
  PROVE  OtherTypes'
<1>1. CASE ReturnPickupGivesUp
  BY <1>1, ClashedType DEF ReturnPickupGivesUp, OtherTypes, ReturnStatus, jobs
<1>2. CASE RequestReturnPickupOtp \/ ReturnOtpLost
  BY <1>2 DEF RequestReturnPickupOtp, ReturnOtpLost, OtherTypes, order, jobs
<1>3. CASE Tick
  BY <1>3 DEF Tick, DelayEnds, WindowEnds, InstantPasses, OtherTypes, Clock,
              order, jobs
<1>4. CASE UNCHANGED vars
  BY <1>4 DEF vars, OtherTypes, order, jobs
<1> QED
  BY <1>1, <1>2, <1>3, <1>4, SettlementTypes, ReturnCallTypes, JobTypes DEF Next

LEMMA OtherInit == Init => OtherTypes
<1> SUFFICES ASSUME Init PROVE OtherTypes
  OBVIOUS
<1>1. calls \in [Calls -> CallRecord] /\ settle \in [Settlers -> RunRecord]
  BY RecordTypes DEF Init
<1> QED
  BY <1>1 DEF Init, OtherTypes, Clock, ReturnStatus

\* TypeOK holds in every behaviour: documents stay within their schema and no
\* balance of the seller ever becomes negative.
THEOREM TypeCorrect == Spec => []TypeOK
<1>1. Init => Books /\ OtherTypes
  BY BooksInit, OtherInit
<1>2. Books /\ OtherTypes /\ [Next]_vars => (Books /\ OtherTypes)'
  BY BooksStep, OtherStep
<1>3. Books /\ OtherTypes => TypeOK
  BY DEF Books, MoneyTypes, Ledger, OtherTypes, TypeOK
<1> QED
  BY <1>1, <1>2, <1>3, PTL DEF Spec

(***************************************************************************)
(* Settlement marks the order only after a payout exists, although the two   *)
(* are written by different transactions. The property alone is not          *)
(* inductive: what makes it true is that a run about to save has seen or      *)
(* made a payout, and that sellerPayoutQueued is a trace of one.             *)
(***************************************************************************)
PayoutTraces ==
  /\ SettledHasPayout
  /\ flags.queued => payout # "none"
  /\ \A s \in Settlers : settle[s].pc = "save" => payout # "none"

LEMMA PayoutTracesStep ==
  ASSUME Books, OtherTypes, PayoutTraces, [Next]_vars
  PROVE  PayoutTraces'
<1>1. payout # "none" => payout' # "none"
  BY StepsMoveMoney DEF MoneyMoves, money, CreatePendingPayout, PayoutPaid,
     SellerAdjusted, PayoutCancelled
<1>2. CASE payout # "none"
  BY <1>1, <1>2 DEF PayoutTraces, SettledHasPayout
<1>3. CASE payout = "none"
  <2>1. /\ ~flags.queued /\ ~flags.settled
        /\ \A s \in Settlers : settle[s].pc # "save"
    BY <1>3 DEF PayoutTraces, SettledHasPayout
  <2>2. \A s \in Settlers : Clashed[s].pc # "save"
    BY DEF Clashed, IdleRun, OtherTypes, RunRecord
  <2>3. CASE \E s \in Settlers : Settlement(s)
    <3>1. PICK s \in Settlers : Settlement(s)
      BY <2>3
    <3>2. CASE SettlementQueuesPayout(s)
      BY <1>3, <3>2 DEF SettlementQueuesPayout, CreatePendingPayout, PayoutTraces,
                        SettledHasPayout
    <3>3. CASE SettlementBegins(s) \/ SettlementAborts(s)
      BY <2>1, <3>3 DEF SettlementBegins, SettlementAborts, IdleRun, PayoutTraces,
                        SettledHasPayout, OtherTypes, order
    <3>4. ~SettlementCommits(s)
      BY <2>1 DEF SettlementCommits
    <3> QED
      BY <3>1, <3>2, <3>3, <3>4 DEF Settlement
  <2>4. ASSUME \/ UNCHANGED <<flags, settle>>
               \/ flags'.queued = flags.queued /\ flags'.settled = flags.settled
                  /\ settle' = Clashed
               \/ flags' = flags /\ settle' = Clashed
        PROVE  PayoutTraces'
    BY <2>1, <2>2, <2>4 DEF PayoutTraces, SettledHasPayout
  <2>5. CASE \E c \in Calls : ReturnCall(c)
    <3>1. PICK c \in Calls : ReturnCall(c)
      BY <2>5
    <3>2. CASE CompleteReturnAndRefund(c)
      BY <1>3, <2>4, <3>2
         DEF CompleteReturnAndRefund, RefundCommits, SellerAdjusted,
             PayoutCancelled, OtherTypes
    <3>3. CASE ReleaseAfterQcFailed(c)
      BY <1>3, <2>4, <3>3
         DEF ReleaseAfterQcFailed, ProcessPayout, PayoutPaid, HoldCleared,
             OtherTypes, order
    <3>4. CASE Save(c) \/ CallFails(c)
      BY <2>4, <3>4 DEF Save, CallFails, order
    <3>5. CASE \/ CreateReturnRequest(c) \/ ApproveReturn(c) \/ RejectReturn(c)
               \/ AssignReturnDelivery(c) \/ AcceptReturnPickup(c)
               \/ RejectReturnPickup(c) \/ VerifyReturnPickupOtp(c)
               \/ RequestReturnDropOtp(c) \/ VerifyReturnDropOtp(c)
               \/ UpdateReturnStatus(c) \/ UpdateReturnQcStatus(c)
      BY <2>4, <3>5
         DEF CreateReturnRequest, ApproveReturn, RejectReturn,
             AssignReturnDelivery, AcceptReturnPickup, RejectReturnPickup,
             VerifyReturnPickupOtp, RequestReturnDropOtp, VerifyReturnDropOtp,
             UpdateReturnStatus, UpdateReturnQcStatus, Starts, order
    <3> QED
      BY <3>1, <3>2, <3>3, <3>4, <3>5 DEF ReturnCall
  <2>6. CASE Batch
    BY <1>3, <2>4, <2>6 DEF Batch, BatchReadsHolds, BatchPays, ProcessPayout,
                            PayoutPaid, order
  <2>7. CASE Release
    BY <1>3, <2>4, <2>7 DEF Release, ReleaseReadsOrder, ReleasePays,
         ReleaseFindsPayout, ReleaseClears, ProcessPayout, PayoutPaid,
         HoldCleared, OtherTypes, order
  <2>8. CASE \/ AdminPays \/ ReturnPickupGivesUp \/ RequestReturnPickupOtp
             \/ ReturnOtpLost \/ Tick \/ UNCHANGED vars
    BY <1>3, <2>4, <2>8 DEF AdminPays, PayoutPaid, ReturnPickupGivesUp,
         RequestReturnPickupOtp, ReturnOtpLost, Tick, vars, order
  <2> QED
    BY <2>3, <2>5, <2>6, <2>7, <2>8 DEF Next
<1> QED
  BY <1>2, <1>3 DEF Books, MoneyTypes

\* An order is never marked settled without a payout for its seller.
THEOREM SettledAlwaysHasPayout == Spec => []SettledHasPayout
<1>1. Init => Books /\ OtherTypes /\ PayoutTraces
  BY BooksInit, OtherInit DEF Init, PayoutTraces, SettledHasPayout, IdleRun
<1>2. Books /\ OtherTypes /\ PayoutTraces /\ [Next]_vars
        => (Books /\ OtherTypes /\ PayoutTraces)'
  BY BooksStep, OtherStep, PayoutTracesStep
<1>3. PayoutTraces => SettledHasPayout
  BY DEF PayoutTraces
<1> QED
  BY <1>1, <1>2, <1>3, PTL DEF Spec
=============================================================================
