------------------------ MODULE OrderWorkflowProofs ------------------------
(***************************************************************************)
(* Proofs about OrderWorkflow, for any riders, workers, number of attempts   *)
(* and number of crashes.                                                    *)
(***************************************************************************)
EXTENDS OrderWorkflow, TLAPS

(***************************************************************************)
(* Type correctness.                                                        *)
(***************************************************************************)
USE DEF Procs

\* Every document, job and process keeps its type: in particular no attempt is
\* ever counted past MaxAttempts, even from a stale read.
LEMMA InitType == Init => TypeOK
  <1> SUFFICES ASSUME Init PROVE TypeOK
    OBVIOUS
  <1>1. o \in Order
    BY KindsAssumption, BoundsAssumption
       DEF Init, Placed, Order, WORKFLOW_STATUS, Window, AllKinds
  <1>2. pc \in [Procs -> Steps]
    BY DEF Init, Steps
  <1>3. stock \in Int /\ jobs \in SUBSET JobIds /\ crashes \in 0 .. MaxCrashes
        /\ att \in [Procs -> 0 .. MaxAttempts] /\ back \in [Procs -> Riders \cup {NoRider}]
    BY BoundsAssumption DEF Init, JobIds
  <1> QED
    BY <1>1, <1>2, <1>3 DEF TypeOK

\* A process number, an attempt and a job id stay in range.
LEMMA JobsInRange ==
  ASSUME NEW js \in SUBSET JobIds, NEW j \in JobIds
  PROVE  Scheduled(js, j) \subseteq SUBSET JobIds /\ Removed(js, j) \subseteq SUBSET JobIds
  BY DEF Scheduled, Removed

\* Moving one process to a step keeps the type of pc.
LEMMA GotoType ==
  ASSUME pc \in [Procs -> Steps], NEW p \in Procs, NEW step \in Steps, Goto(p, step)
  PROVE  pc' \in [Procs -> Steps]
  BY DEF Goto

\* The first attempt of a search is within the bound.
LEMMA SearchStartedType ==
  ASSUME NEW doc \in Order
  PROVE  SearchStarted(doc) \in Order
  <1>1. 1 \in 0 .. MaxAttempts
    BY BoundsAssumption
  <1>2. "DELIVERY_SEARCH" \in WORKFLOW_STATUS /\ "open" \in Window
    BY DEF WORKFLOW_STATUS, Window
  <1> QED
    BY <1>1, <1>2 DEF Order, SearchStarted

\* A save that adds a rider or none leaves an order.
LEMMA SavedType ==
  ASSUME NEW doc \in Order, NEW r \in Riders \cup {NoRider}
  PROVE  SavedWith(doc, r) \in Order
  BY DEF SavedWith, Order

\* The saves of a compensation change nothing of the order but its rider and the
\* mark on its stock.
LEMMA SaveEffect ==
  ASSUME o \in Order, NEW p \in Procs, SaveCompensated(p) \/ ReverseFinance(p)
  PROVE  /\ o'.kind = o.kind /\ o'.online = o.online /\ o'.paid = o.paid
         /\ o'.captured = o.captured /\ o'.ws = o.ws /\ o'.skipped = o.skipped
         /\ o'.sellerWin = o.sellerWin
         /\ o.rider # NoRider => o'.rider # NoRider \/ o'.rider = o.rider
         /\ o.released => o'.released
         /\ UNCHANGED <<stock, jobs, att, crashes>>
  <1>1. CASE SaveCompensated(p)
    BY <1>1 DEF SaveCompensated, SavedWith, Order
  <1>2. CASE ReverseFinance(p)
    BY <1>2 DEF ReverseFinance, SavedWith, Order
  <1> QED
    BY <1>1, <1>2

\* Every step keeps the types.
LEMMA StepType == TypeOK /\ [Next]_vars => TypeOK'
  <1> SUFFICES ASSUME TypeOK, [Next]_vars PROVE TypeOK'
    OBVIOUS
  <1> USE BoundsAssumption, JobsInRange, GotoType
  <1>j. /\ 1 \in JobIds /\ SellerJob \in JobIds
        /\ \A js, j : js \in SUBSET JobIds => js \ {j} \in SUBSET JobIds
    BY DEF JobIds, SellerJob
  <1>n. \A n \in 1 .. MaxAttempts : n \in JobIds
    BY DEF JobIds
  <1>j1. \A x, js, j : js \in SUBSET JobIds /\ j \in JobIds /\ x \in Scheduled(js, j) => x \in SUBSET JobIds
    BY DEF Scheduled
  <1>j2. \A js \in Removed(jobs, SellerJob) : js \in SUBSET JobIds
    BY DEF Removed, TypeOK
  <1>o1. SearchStarted(o) \in Order
    BY SearchStartedType DEF TypeOK
  <1>o2. \A s \in WORKFLOW_STATUS : [o EXCEPT !.ws = s] \in Order
    BY DEF TypeOK, Order
  <1>o3. Cancelled(o) \in Order
    BY <1>o2 DEF Cancelled, WORKFLOW_STATUS
  <1>o4. [SearchStarted(o) EXCEPT !.sellerWin = "none"] \in Order
    BY <1>o1 DEF Order, Window
  <1>o5. [Cancelled(o) EXCEPT !.paid = FALSE, !.released = TRUE] \in Order
    BY <1>o3 DEF Order
  <1>o6. \A r \in Riders : [SearchStarted(o) EXCEPT !.rider = NoRider,
                                              !.skipped = SearchStarted(o).skipped \cup {r}] \in Order
    BY <1>o1 DEF Order
  <1>s. {"idle", "paymentPending", "moveToSeller", "broadcast", "acceptSave", "sellerTimeout", "deliveryTimeout",
         "compensate", "restoreStock", "saveCompensated", "reverse"} \subseteq Steps
    BY DEF Steps
  <1>w. \A s \in {"SELLER_PENDING", "DELIVERY_ASSIGNED", "PICKUP_READY",
                  "OUT_FOR_DELIVERY", "DELIVERED"} : s \in WORKFLOW_STATUS
    BY DEF WORKFLOW_STATUS
  <1>x. ASSUME NEW seen \in BOOLEAN, AfterPlaceExpress(seen)
        PROVE  o' \in Order /\ jobs' \in SUBSET JobIds
    BY <1>x, <1>j, <1>j1, <1>j2, <1>o4 DEF AfterPlaceExpress, TypeOK
  <1>1. ASSUME NEW p \in Procs, AfterPlace(p) PROVE TypeOK'
    <2>1. o' \in Order /\ jobs' \in SUBSET JobIds
      BY <1>1, <1>j, <1>j1, <1>x DEF AfterPlace, TypeOK
    <2> QED
      BY <1>1, <1>s, <2>1 DEF AfterPlace, TypeOK
  <1>2. ASSUME NEW p \in Procs, PaymentCaptured(p) PROVE TypeOK'
    <2>1. [o EXCEPT !.paid = TRUE, !.captured = TRUE] \in Order
      BY DEF TypeOK, Order
    <2> QED
      BY <1>2, <1>s, <2>1 DEF PaymentCaptured, TypeOK
  <1>2a. ASSUME NEW p \in Procs, PaymentPending(p) \/ PaymentPendingWrite(p) PROVE TypeOK'
    <2>1. [o EXCEPT !.paid = FALSE] \in Order
      BY DEF TypeOK, Order
    <2> QED
      BY <1>2a, <1>s, <2>1 DEF PaymentPending, PaymentPendingWrite, TypeOK
  <1>3. ASSUME NEW p \in Procs, MoveOrderToSellerPending(p) PROVE TypeOK'
    <2>1. [o EXCEPT !.ws = "SELLER_PENDING", !.sellerWin = "open"] \in Order
      BY DEF TypeOK, Order, WORKFLOW_STATUS, Window
    <2>2. o' \in Order /\ jobs' \in SUBSET JobIds
      BY <1>3, <1>j, <1>j1, <2>1 DEF MoveOrderToSellerPending, TypeOK
    <2> QED
      BY <1>3, <1>s, <2>2 DEF MoveOrderToSellerPending, TypeOK
  <1>3a. ASSUME NEW p \in Procs, BroadcastPaidExpress(p) PROVE TypeOK'
    BY <1>3a, <1>s, <1>x DEF BroadcastPaidExpress, TypeOK
  <1>4. ASSUME PaymentFailed PROVE TypeOK'
    BY <1>4, <1>o5 DEF PaymentFailed, TypeOK
  <1>5. ASSUME NEW p \in Procs, SellerAccept(p) PROVE TypeOK'
    <2>1. jobs' \in SUBSET JobIds
      BY <1>5, <1>j, <1>j1, <1>j2 DEF SellerAccept
    <2> QED
      BY <1>5, <1>s, <1>o1, <2>1 DEF SellerAccept, TypeOK
  <1>6. ASSUME NEW p \in Procs, SellerAcceptSave(p) PROVE TypeOK'
    BY <1>6, <1>s, <1>o2, <1>w DEF SellerAcceptSave, TypeOK
  <1>7. ASSUME NEW p \in Procs, SellerReject(p) PROVE TypeOK'
    BY <1>7, <1>s, <1>o3, <1>j DEF SellerReject, TypeOK
  <1>8. ASSUME NEW r \in Riders, DeliveryAccept(r) PROVE TypeOK'
    <2>1. o.attempt \in JobIds
      BY DEF TypeOK, Order, JobIds
    <2>2. [o EXCEPT !.ws = "DELIVERY_ASSIGNED", !.rider = r, !.partner = r] \in Order
      BY DEF TypeOK, Order, WORKFLOW_STATUS
    <2>3. o' \in Order
      BY <1>8, <2>2 DEF DeliveryAccept
    <2>4. jobs' \in SUBSET JobIds
      BY <1>8, <2>1 DEF DeliveryAccept, TypeOK
    <2>5. UNCHANGED <<stock, pc, att, back, crashes>>
      BY <1>8 DEF DeliveryAccept
    <2> QED
      BY <2>3, <2>4, <2>5 DEF TypeOK
  <1>9. ASSUME NEW r \in Riders, RiderCancelAssignment(r) PROVE TypeOK'
    <2>1. jobs' \in SUBSET JobIds
      BY <1>9, <1>j, <1>j1 DEF RiderCancelAssignment, TypeOK
    <2>2. o' \in Order
      BY <1>9, <1>o6 DEF RiderCancelAssignment
    <2> QED
      BY <1>9, <2>1, <2>2 DEF RiderCancelAssignment, TypeOK
  <1>10. ASSUME NEW r \in Riders,
                \/ MarkArrivedAtStore(r) \/ ConfirmPickup(r)
                \/ VerifyPickupOtpAndConfirm(r) \/ VerifyHandoffOtpAndDeliver(r)
         PROVE TypeOK'
    BY <1>10, <1>o2, <1>w DEF MarkArrivedAtStore, ConfirmPickup,
       VerifyPickupOtpAndConfirm, VerifyHandoffOtpAndDeliver, TypeOK
  <1>11. ASSUME NEW p \in Procs, CustomerCancel(p) PROVE TypeOK'
    BY <1>11, <1>s, <1>o3, <1>j DEF CustomerCancel, TypeOK
  <1>12. ASSUME NEW p \in Procs, SellerTimeoutWrite(p) PROVE TypeOK'
    BY <1>12, <1>s, <1>o3 DEF SellerTimeoutWrite, TypeOK
  <1>13. ASSUME NEW p \in Procs, DeliveryTimeoutExtend(p) PROVE TypeOK'
    <2>1. att[p] + 1 \in 0 .. MaxAttempts /\ att[p] + 1 \in JobIds
      BY <1>13 DEF DeliveryTimeoutExtend, TypeOK, JobIds
    <2>2. [o EXCEPT !.searchWin = "open", !.attempt = att[p] + 1] \in Order
      BY <2>1 DEF TypeOK, Order, Window
    <2>3. att' \in [Procs -> 0 .. MaxAttempts]
      BY <1>13 DEF DeliveryTimeoutExtend, TypeOK
    <2>4. o' \in Order
      BY <1>13, <2>2 DEF DeliveryTimeoutExtend, TypeOK
    <2>5. pc' \in [Procs -> Steps]
      BY <1>13, <1>s DEF DeliveryTimeoutExtend, TypeOK
    <2>6. jobs' \in SUBSET JobIds
      BY <1>13, <2>1 DEF DeliveryTimeoutExtend, TypeOK
    <2>7. UNCHANGED <<stock, back, crashes>>
      BY <1>13 DEF DeliveryTimeoutExtend
    <2> QED
      BY <2>3, <2>4, <2>5, <2>6, <2>7 DEF TypeOK
  <1>14. ASSUME NEW p \in Procs, DeliveryTimeoutGiveUp(p) PROVE TypeOK'
    <2>1. att' \in [Procs -> 0 .. MaxAttempts]
      BY <1>14 DEF DeliveryTimeoutGiveUp, TypeOK
    <2> QED
      BY <1>14, <1>s, <1>o3, <2>1 DEF DeliveryTimeoutGiveUp, TypeOK
  <1>15. ASSUME NEW p \in Procs,
                SellerTimeoutRead(p), jobs' = jobs \/ jobs' = jobs \ {SellerJob}
         PROVE TypeOK'
    BY <1>15, <1>s, <1>j DEF SellerTimeoutRead, TypeOK
  <1>16. ASSUME NEW p \in Procs, NEW n \in 1 .. MaxAttempts,
                DeliveryTimeoutRead(p), jobs' = jobs \/ jobs' = jobs \ {n}
         PROVE TypeOK'
    <2>1. att' \in [Procs -> 0 .. MaxAttempts]
      BY <1>16 DEF DeliveryTimeoutRead, TypeOK, Order
    <2> QED
      BY <1>16, <1>s, <1>j, <2>1 DEF DeliveryTimeoutRead, TypeOK
  <1>17. ASSUME NEW p \in Procs, SweepPaymentTimeout(p) PROVE TypeOK'
    BY <1>17, <1>s, <1>o3 DEF SweepPaymentTimeout, TypeOK
  <1>18. ASSUME NEW p \in Procs, Compensate(p) PROVE TypeOK'
    <2>1. back' \in [Procs -> Riders \cup {NoRider}]
      <3>1. BroughtBack(o) \in Riders \cup {NoRider}
        BY DEF BroughtBack, TypeOK, Order
      <3> QED
        BY <1>18, <3>1 DEF Compensate, TypeOK
    <2>2. pc' \in [Procs -> Steps]
      BY <1>18, <1>s DEF Compensate, TypeOK
    <2> QED
      BY <1>18, <2>1, <2>2 DEF Compensate, TypeOK
  <1>18a. ASSUME NEW p \in Procs, RestoreStock(p) PROVE TypeOK'
    BY <1>18a, <1>s DEF RestoreStock, TypeOK
  <1>19. ASSUME NEW p \in Procs, SaveCompensated(p) PROVE TypeOK'
    <2>1. o' \in Order
      <3>1. back[p] \in Riders \cup {NoRider} /\ o \in Order
        BY DEF TypeOK
      <3>2. SavedWith(o, back[p]) \in Order
        BY <3>1, SavedType
      <3> QED
        BY <1>19, <3>1, <3>2 DEF SaveCompensated, Order
    <2>2. back' \in [Procs -> Riders \cup {NoRider}]
      BY <1>19 DEF SaveCompensated, TypeOK
    <2> QED
      BY <1>19, <1>s, <2>1, <2>2 DEF SaveCompensated, TypeOK
  <1>19a. ASSUME NEW p \in Procs, ReverseFinance(p) PROVE TypeOK'
    <2>1. o' \in Order
      BY <1>19a, SavedType DEF ReverseFinance, BroughtBack, TypeOK, Order
    <2> QED
      BY <1>19a, <1>s, <2>1 DEF ReverseFinance, TypeOK
  <1>20. ASSUME WindowCloses PROVE TypeOK'
    <2>1. o' \in Order
      BY <1>20 DEF WindowCloses, TypeOK, Order, Window
    <2> QED
      BY <1>20, <2>1 DEF WindowCloses, TypeOK
  <1>21. ASSUME NEW p \in Procs, Crash(p) PROVE TypeOK'
    <2>1. /\ att' \in [Procs -> 0 .. MaxAttempts] /\ crashes' \in 0 .. MaxCrashes
          /\ back' \in [Procs -> Riders \cup {NoRider}]
      BY <1>21 DEF Crash, TypeOK
    <2> QED
      BY <1>21, <1>s, <2>1 DEF Crash, TypeOK
  <1>22. ASSUME UNCHANGED vars PROVE TypeOK'
    BY <1>22 DEF vars, TypeOK
  <1>23. 1 \in 1 .. MaxAttempts /\ Sweeper \in Procs /\ Workers \subseteq Procs
    OBVIOUS
  <1> QED
    BY <1>1, <1>2, <1>2a, <1>3, <1>3a, <1>4, <1>5, <1>6, <1>7, <1>8, <1>9, <1>10, <1>11, <1>12,
       <1>13, <1>14, <1>15, <1>16, <1>17, <1>18, <1>18a, <1>19, <1>19a, <1>20, <1>21, <1>22, <1>23
       DEF Next, Request, JobRuns, Rider, Continue, Sweep, SellerJobRuns,
           DeliveryJobRuns, SweepSellerPending, SweepDeliverySearch

\* TypeOK holds in every reachable state, for every number of riders, workers,
\* attempts and crashes.
THEOREM TypeCorrect == Spec => []TypeOK
  <1> QED
    BY InitType, StepType, PTL DEF Spec

(***************************************************************************)
(* The rider. RiderMatchesStage is not inductive: SellerAcceptSave assigns  *)
(* whatever rider the document has, so the rider must still be there and no *)
(* other handler may have moved the order on.                                *)
(***************************************************************************)
Saving(p) == pc[p] = "acceptSave"

CompensationSteps == {"compensate", "restoreStock", "saveCompensated", "reverse"}

RiderInv ==
  /\ RiderMatchesStage
  /\ \A p \in Procs : Saving(p) =>
       /\ o.kind = "manual" /\ o.rider # NoRider
       /\ o.ws \in {"DELIVERY_SEARCH", "CANCELLED"}
  /\ \A p, q \in Procs : Saving(p) /\ Saving(q) => p = q
  /\ o.kind # "manual" =>
       \A p \in Procs : pc[p] \in CompensationSteps => o.ws = "CANCELLED"

\* The actions that leave the stage and the rider alone and send nobody to
\* acceptSave or to a compensation.
Harmless ==
  /\ o'.kind = o.kind /\ o'.ws = o.ws /\ o'.rider = o.rider
  /\ \A p \in Procs : pc'[p] = "acceptSave" => Saving(p)
  /\ \A p \in Procs : pc'[p] \in CompensationSteps => pc[p] \in CompensationSteps

\* The actions that cancel, whoever does it.
Cancels ==
  /\ o'.kind = o.kind /\ o'.ws = "CANCELLED" /\ o'.rider = o.rider
  /\ \A p \in Procs : pc'[p] = "acceptSave" => Saving(p)

LEMMA InitRider == Init => RiderInv
  BY DEF Init, Placed, RiderInv, RiderMatchesStage, Saving, CompensationSteps, WithRider, PrePickup

LEMMA HarmlessKeepsRider == RiderInv /\ (Harmless \/ Cancels) => RiderInv'
  <1> SUFFICES ASSUME RiderInv, Harmless \/ Cancels PROVE RiderInv'
    OBVIOUS
  <1>1. RiderMatchesStage'
    BY DEF RiderInv, Harmless, Cancels, RiderMatchesStage, WithRider, PrePickup
  <1>2. \A p \in Procs : Saving(p)' => Saving(p)
    BY DEF Harmless, Cancels, Saving
  <1> QED
    BY <1>1, <1>2 DEF RiderInv, Harmless, Cancels, Saving

\* Nobody is about to assign a rider or to compensate, unless for a WhatsApp order:
\* what the stage and the rider must satisfy.
LEMMA NobodySaves ==
  ASSUME RiderInv, RiderMatchesStage', o'.kind = o.kind,
         o.ws # "CANCELLED" \/ o.kind = "manual",
         \A p \in Procs : pc'[p] # "acceptSave",
         \A p \in Procs : pc'[p] \in CompensationSteps => pc[p] \in CompensationSteps
  PROVE  RiderInv'
  BY DEF RiderInv, Saving

\* A stage outside acceptSave's two finds nobody there.
LEMMA StageExcludesSaving ==
  ASSUME RiderInv, o.ws \notin {"DELIVERY_SEARCH", "CANCELLED"} \/ o.kind # "manual" \/ o.rider = NoRider
  PROVE  \A p \in Procs : pc[p] # "acceptSave"
  BY DEF RiderInv, Saving

\* The rider and the stage stay in step through every action.
LEMMA RiderStep == TypeOK /\ RiderInv /\ [Next]_vars => RiderInv'
  <1> SUFFICES ASSUME TypeOK, RiderInv, [Next]_vars PROVE RiderInv'
    OBVIOUS
  <1>t. /\ o \in Order /\ pc \in [Procs -> Steps] /\ RiderMatchesStage
        /\ o.rider \in Riders \cup {NoRider}
    BY DEF TypeOK, RiderInv, Order
  <1>x. ASSUME NEW seen, AfterPlaceExpress(seen),
               NEW p \in Procs, Goto(p, "idle")
        PROVE  RiderInv'
    <2>2. CASE UNCHANGED o
      <3>1. Harmless
        BY <1>x, <1>t, <2>2 DEF Goto, Harmless, Saving, CompensationSteps
      <3> QED
        BY <3>1, HarmlessKeepsRider
    <2>3. CASE /\ o' = [SearchStarted(o) EXCEPT !.sellerWin = "none"] /\ o.rider = NoRider
               /\ o.ws \in {"SELLER_PENDING", "DELIVERY_SEARCH"}
      <3>1. o'.ws = "DELIVERY_SEARCH" /\ o'.rider = NoRider /\ o'.kind = o.kind
        BY <2>3, <1>t DEF SearchStarted, Order
      <3>2. \A q \in Procs : /\ pc'[q] # "acceptSave"
                             /\ pc'[q] \in CompensationSteps => pc[q] \in CompensationSteps
        BY <1>x, <1>t, <2>3, StageExcludesSaving DEF Goto, CompensationSteps
      <3> QED
        BY <2>3, <3>1, <3>2, NobodySaves
           DEF RiderMatchesStage, WithRider, PrePickup
    <2> QED
      BY <1>x, <2>2, <2>3 DEF AfterPlaceExpress
  <1>1. ASSUME NEW p \in Procs, AfterPlace(p) PROVE RiderInv'
    <2>1. CASE o.kind = "express" /\ AfterPlaceExpress(FALSE)
      BY <1>1, <1>x, <2>1 DEF AfterPlace
    <2>2. CASE UNCHANGED o
      <3>1. Harmless
        BY <1>1, <1>t, <2>2 DEF AfterPlace, Goto, Harmless, Saving, CompensationSteps
      <3> QED
        BY <3>1, HarmlessKeepsRider
    <2> QED
      BY <1>1, <2>1, <2>2 DEF AfterPlace
  <1>2. ASSUME NEW p \in Procs, MoveOrderToSellerPending(p) PROVE RiderInv'
    <2>2. CASE UNCHANGED o
      <3>1. Harmless
        BY <1>2, <1>t, <2>2 DEF MoveOrderToSellerPending, Goto, Harmless, Saving, CompensationSteps
      <3> QED
        BY <3>1, HarmlessKeepsRider
    <2>3. CASE o.ws = "CREATED" /\ o' = [o EXCEPT !.ws = "SELLER_PENDING", !.sellerWin = "open"]
      <3>1. \A q \in Procs : /\ pc'[q] # "acceptSave"
                             /\ pc'[q] \in CompensationSteps => pc[q] \in CompensationSteps
        BY <1>2, <1>t, <2>3, StageExcludesSaving DEF MoveOrderToSellerPending, Goto, CompensationSteps
      <3>2. o'.ws = "SELLER_PENDING" /\ o'.rider = o.rider /\ o'.kind = o.kind
        BY <2>3, <1>t DEF Order
      <3> QED
        BY <1>t, <2>3, <3>1, <3>2, NobodySaves
           DEF RiderMatchesStage, WithRider, PrePickup
    <2> QED
      BY <1>2, <2>2, <2>3 DEF MoveOrderToSellerPending
  <1>2a. ASSUME NEW p \in Procs, BroadcastPaidExpress(p) PROVE RiderInv'
    BY <1>2a, <1>x DEF BroadcastPaidExpress
  <1>3. ASSUME NEW p \in Procs, SellerAccept(p) PROVE RiderInv'
    <2>1. /\ o'.ws = "DELIVERY_SEARCH" /\ o'.rider = o.rider /\ o'.kind = o.kind
          /\ o.ws = "SELLER_PENDING"
      BY <1>3, <1>t DEF SellerAccept, SearchStarted, Order
    <2>2. RiderMatchesStage'
      BY <1>t, <2>1 DEF RiderMatchesStage, WithRider, PrePickup
    <2>3. \A q \in Procs : pc'[q] = "acceptSave" => q = p /\ o.rider # NoRider
      BY <1>3, <1>t, <2>1, StageExcludesSaving DEF SellerAccept, Goto
    <2>4. \A q \in Procs : pc'[q] \in CompensationSteps => pc[q] \in CompensationSteps
      BY <1>3, <1>t DEF SellerAccept, Goto, CompensationSteps
    <2> QED
      BY <1>t, <2>1, <2>2, <2>3, <2>4 DEF RiderInv, Saving, RiderMatchesStage
  <1>4. ASSUME NEW p \in Procs, SellerAcceptSave(p) PROVE RiderInv'
    <2>1. /\ o'.ws = "DELIVERY_ASSIGNED" /\ o'.rider = o.rider /\ o'.kind = o.kind
          /\ o.kind = "manual" /\ o.rider # NoRider
      BY <1>4, <1>t DEF SellerAcceptSave, Order, RiderInv, Saving
    <2>2. RiderMatchesStage'
      BY <1>t, <2>1 DEF RiderMatchesStage
    <2>3. \A q \in Procs : /\ pc'[q] # "acceptSave"
                           /\ pc'[q] \in CompensationSteps => pc[q] \in CompensationSteps
      BY <1>4, <1>t DEF SellerAcceptSave, Goto, RiderInv, Saving, CompensationSteps
    <2> QED
      BY <2>1, <2>2, <2>3, NobodySaves
  <1>5. ASSUME NEW r \in Riders, DeliveryAccept(r) PROVE RiderInv'
    <2>1. /\ o'.ws = "DELIVERY_ASSIGNED" /\ o'.rider = r /\ o'.kind = o.kind
          /\ o.ws = "DELIVERY_SEARCH" /\ pc' = pc
      BY <1>5, <1>t DEF DeliveryAccept, Order
    <2>2. \A q \in Procs : pc'[q] # "acceptSave"
      BY <1>5, StageExcludesSaving DEF DeliveryAccept
    <2> QED
      BY <2>1, <2>2, NobodySaves, RidersAssumption DEF RiderMatchesStage
  <1>6. ASSUME NEW r \in Riders, RiderCancelAssignment(r) PROVE RiderInv'
    <2>1. /\ o'.ws = "DELIVERY_SEARCH" /\ o'.rider = NoRider /\ o'.kind = o.kind
          /\ o.ws \in PrePickup /\ pc' = pc
      BY <1>6, <1>t DEF RiderCancelAssignment, SearchStarted, Order
    <2>2. \A q \in Procs : pc'[q] # "acceptSave"
      BY <1>6, StageExcludesSaving DEF RiderCancelAssignment, PrePickup
    <2> QED
      BY <2>1, <2>2, NobodySaves DEF RiderMatchesStage, WithRider, PrePickup
  <1>7. ASSUME NEW r \in Riders,
               \/ MarkArrivedAtStore(r) \/ ConfirmPickup(r)
               \/ VerifyPickupOtpAndConfirm(r) \/ VerifyHandoffOtpAndDeliver(r)
        PROVE  RiderInv'
    <2>1. /\ o'.ws \in WithRider /\ o'.rider = o.rider /\ o'.kind = o.kind
          /\ o.rider = r /\ o.ws \in PrePickup \cup {"OUT_FOR_DELIVERY"} /\ pc' = pc
      BY <1>7, <1>t DEF MarkArrivedAtStore, ConfirmPickup, VerifyPickupOtpAndConfirm,
         VerifyHandoffOtpAndDeliver, Order, WithRider, PrePickup
    <2>2. \A q \in Procs : pc'[q] # "acceptSave"
      BY <2>1, StageExcludesSaving DEF PrePickup
    <2> QED
      BY <1>t, <2>1, <2>2, NobodySaves, RidersAssumption
         DEF RiderMatchesStage, WithRider, PrePickup
  <1>8. ASSUME NEW p \in Procs,
               \/ SellerReject(p) \/ CustomerCancel(p) \/ SweepPaymentTimeout(p)
               \/ SellerTimeoutWrite(p) \/ DeliveryTimeoutGiveUp(p)
        PROVE  RiderInv'
    <2>1. Harmless \/ Cancels
      BY <1>8, <1>t DEF SellerReject, CustomerCancel, SweepPaymentTimeout, SellerTimeoutWrite,
         DeliveryTimeoutGiveUp, Cancelled, Goto, Order, Harmless, Cancels, Saving, CompensationSteps
    <2> QED
      BY <2>1, HarmlessKeepsRider
  <1>9. ASSUME PaymentFailed PROVE RiderInv'
    <2>1. Cancels
      BY <1>9, <1>t DEF PaymentFailed, Cancelled, Order, Cancels, Saving
    <2> QED
      BY <2>1, HarmlessKeepsRider
  <1>10. ASSUME NEW p \in Procs,
                \/ PaymentPending(p) \/ PaymentPendingWrite(p) \/ PaymentCaptured(p)
                \/ DeliveryTimeoutExtend(p)
         PROVE  RiderInv'
    <2>1. Harmless
      BY <1>10, <1>t DEF PaymentPending, PaymentPendingWrite, PaymentCaptured, DeliveryTimeoutExtend, Goto, Order,
         Harmless, Saving, CompensationSteps
    <2> QED
      BY <2>1, HarmlessKeepsRider
  <1>10a. ASSUME NEW p \in Procs, SaveCompensated(p) \/ ReverseFinance(p) PROVE RiderInv'
    <2>1. /\ o'.kind = o.kind /\ o'.ws = o.ws
          /\ o.rider # NoRider => o'.rider # NoRider \/ o'.rider = o.rider
      BY <1>10a, <1>t, SaveEffect
    <2>2. pc[p] \in CompensationSteps /\ ~Saving(p)
      BY <1>10a DEF SaveCompensated, ReverseFinance, CompensationSteps, Saving
    <2>3. \A q \in Procs : /\ Saving(q)' => Saving(q)
                           /\ pc'[q] \in CompensationSteps => pc[q] \in CompensationSteps
      BY <1>10a, <1>t, <2>2 DEF SaveCompensated, ReverseFinance, Goto, CompensationSteps, Saving
    <2>4. RiderMatchesStage'
      BY <1>t, <2>1, <2>2 DEF RiderInv, RiderMatchesStage, WithRider, PrePickup
    <2> QED
      BY <1>t, <2>1, <2>3, <2>4 DEF RiderInv
  <1>11. ASSUME NEW p \in Procs,
                \/ SellerTimeoutRead(p) \/ DeliveryTimeoutRead(p) \/ Compensate(p)
                \/ RestoreStock(p) \/ Crash(p)
         PROVE  RiderInv'
    <2>1. Harmless
      BY <1>11, <1>t DEF SellerTimeoutRead, DeliveryTimeoutRead, Compensate, RestoreStock, Crash,
         Goto, Harmless, Saving, CompensationSteps
    <2> QED
      BY <2>1, HarmlessKeepsRider
  <1>12. ASSUME WindowCloses \/ UNCHANGED vars PROVE RiderInv'
    <2>1. Harmless
      BY <1>12, <1>t DEF WindowCloses, vars, Order, Harmless, Saving, CompensationSteps
    <2> QED
      BY <2>1, HarmlessKeepsRider
  <1> QED
    BY <1>1, <1>2, <1>2a, <1>3, <1>4, <1>5, <1>6, <1>7, <1>8, <1>9, <1>10, <1>10a, <1>11, <1>12
       DEF Next, Request, JobRuns, Rider, Continue, Sweep, SellerJobRuns,
           DeliveryJobRuns, SweepSellerPending, SweepDeliverySearch

\* From assignment to delivery there is a rider, and while the order waits for the
\* seller or is on offer there is none.
THEOREM RiderCorrect == Spec => []RiderMatchesStage
  <1>1. RiderInv => RiderMatchesStage
    BY DEF RiderInv
  <1> QED
    BY <1>1, InitType, StepType, InitRider, RiderStep, PTL DEF Spec

(***************************************************************************)
(* Payment. A WhatsApp order is cash on delivery, so SellerAcceptSave, which *)
(* checks nothing, cannot send out an unpaid online order.                   *)
(***************************************************************************)
PaidInv ==
  /\ UnpaidNeverDispatched
  /\ o.kind = "manual" => ~o.online
  /\ o.online /\ o.paid => o.captured
  /\ \A p \in Procs : pc[p] = "broadcast" /\ o.online => o.captured

LEMMA InitPaid == Init => PaidInv
  BY DEF Init, Placed, PaidInv, UnpaidNeverDispatched

\* A step that takes back no capture, claims none, and lets an order out to
\* riders only if nothing is owed.
PaidUntouched ==
  /\ o'.kind = o.kind /\ o'.online = o.online
  /\ o.captured => o'.captured
  /\ o'.paid => o.paid \/ o'.captured
  /\ \A p \in Procs : pc'[p] = "broadcast" => pc[p] = "broadcast" \/ o.paid
  /\ \/ o'.ws \in {o.ws, "SELLER_PENDING", "CANCELLED"}
     \/ o.ws \notin {"CREATED", "SELLER_PENDING", "CANCELLED"}
     \/ o.online => o.captured

LEMMA PaidUntouchedKeeps == PaidInv /\ PaidUntouched => PaidInv'
  BY DEF PaidInv, UnpaidNeverDispatched, PaidUntouched

\* Every action leaves the order paid for or short of the riders.
LEMMA PaidStep == TypeOK /\ RiderInv /\ PaidInv /\ [Next]_vars => PaidInv'
  <1> SUFFICES ASSUME TypeOK, RiderInv, PaidInv, [Next]_vars PROVE PaidUntouched
    BY PaidUntouchedKeeps
  <1>t. o \in Order /\ pc \in [Procs -> Steps]
    BY DEF TypeOK
  <1>1. ASSUME NEW seen, AfterPlaceExpress(seen), (seen /\ o.online) => o.captured,
               NEW p \in Procs, Goto(p, "idle")
        PROVE  PaidUntouched
    <2>1. CASE UNCHANGED o
      BY <1>1, <1>t, <2>1 DEF PaidUntouched, Goto
    <2>2. CASE (o.online => seen) /\ o' = [SearchStarted(o) EXCEPT !.sellerWin = "none"]
      <3>1. o'.online = o.online /\ o'.paid = o.paid /\ o'.kind = o.kind /\ o'.captured = o.captured
        BY <2>2, <1>t DEF SearchStarted, Order
      <3> QED
        BY <1>1, <1>t, <2>2, <3>1 DEF PaidUntouched, Goto
    <2> QED
      BY <1>1, <2>1, <2>2 DEF AfterPlaceExpress
  <1>2. ASSUME NEW p \in Procs, AfterPlace(p) PROVE PaidUntouched
    <2>1. CASE AfterPlaceExpress(FALSE)
      BY <1>1, <1>2, <2>1 DEF AfterPlace
    <2>2. CASE UNCHANGED o
      BY <1>2, <1>t, <2>2 DEF AfterPlace, Goto, PaidUntouched
    <2> QED
      BY <1>2, <2>1, <2>2 DEF AfterPlace
  <1>3. ASSUME NEW p \in Procs, MoveOrderToSellerPending(p) PROVE PaidUntouched
    <2>1. CASE UNCHANGED o
      BY <1>3, <1>t, <2>1 DEF MoveOrderToSellerPending, Goto, PaidUntouched
    <2>2. CASE o' = [o EXCEPT !.ws = "SELLER_PENDING", !.sellerWin = "open"] /\ Goto(p, "idle")
      BY <2>2, <1>t DEF PaidUntouched, Order, Goto
    <2> QED
      BY <1>3, <2>1, <2>2 DEF MoveOrderToSellerPending
  <1>3a. ASSUME NEW p \in Procs, BroadcastPaidExpress(p) PROVE PaidUntouched
    BY <1>1, <1>3a DEF BroadcastPaidExpress, PaidInv
  <1>4. ASSUME NEW p \in Procs, SellerAccept(p) PROVE PaidUntouched
    BY <1>4, <1>t DEF SellerAccept, SearchStarted, Goto, Order, PaidUntouched, PaidInv
  <1>5. ASSUME NEW p \in Procs, SellerAcceptSave(p) PROVE PaidUntouched
    <2>1. ~o.online
      BY <1>5 DEF SellerAcceptSave, RiderInv, Saving, PaidInv
    <2> QED
      BY <1>5, <1>t, <2>1 DEF SellerAcceptSave, Goto, Order, PaidUntouched
  <1>6. ASSUME NEW r \in Riders,
               \/ DeliveryAccept(r) \/ RiderCancelAssignment(r) \/ MarkArrivedAtStore(r)
               \/ ConfirmPickup(r) \/ VerifyPickupOtpAndConfirm(r) \/ VerifyHandoffOtpAndDeliver(r)
        PROVE  PaidUntouched
    <2>1. CASE DeliveryAccept(r) \/ RiderCancelAssignment(r)
      <3>1. CASE DeliveryAccept(r)
        BY <3>1, <1>t DEF DeliveryAccept, Order, PaidUntouched
      <3>2. CASE RiderCancelAssignment(r)
        BY <3>2, <1>t DEF RiderCancelAssignment, SearchStarted, PrePickup, Order, PaidUntouched
      <3> QED
        BY <2>1, <3>1, <3>2
    <2>2. CASE MarkArrivedAtStore(r) \/ ConfirmPickup(r)
      BY <2>2, <1>t DEF MarkArrivedAtStore, ConfirmPickup, PrePickup, Order, PaidUntouched
    <2>3. CASE VerifyPickupOtpAndConfirm(r) \/ VerifyHandoffOtpAndDeliver(r)
      BY <2>3, <1>t DEF VerifyPickupOtpAndConfirm, VerifyHandoffOtpAndDeliver, PrePickup, Order,
         PaidUntouched
    <2> QED
      BY <1>6, <2>1, <2>2, <2>3
  <1>7. ASSUME NEW p \in Procs,
               \/ SellerReject(p) \/ CustomerCancel(p) \/ SweepPaymentTimeout(p)
               \/ SellerTimeoutWrite(p) \/ DeliveryTimeoutGiveUp(p) \/ DeliveryTimeoutExtend(p)
        PROVE  PaidUntouched
    BY <1>7, <1>t DEF SellerReject, CustomerCancel, SweepPaymentTimeout, SellerTimeoutWrite,
       DeliveryTimeoutGiveUp, DeliveryTimeoutExtend, Cancelled, Goto, Order, PaidUntouched
  <1>8. ASSUME NEW p \in Procs,
               \/ PaymentPending(p) \/ PaymentPendingWrite(p) \/ PaymentCaptured(p)
        PROVE  PaidUntouched
    BY <1>8, <1>t DEF PaymentPending, PaymentPendingWrite, PaymentCaptured, Goto, Order, PaidUntouched
  <1>8a. ASSUME NEW p \in Procs, SaveCompensated(p) \/ ReverseFinance(p) PROVE PaidUntouched
    <2>1. \A q \in Procs : pc'[q] = "broadcast" => pc[q] = "broadcast"
      BY <1>8a, <1>t DEF SaveCompensated, ReverseFinance, Goto
    <2> QED
      BY <1>8a, <1>t, <2>1, SaveEffect DEF PaidUntouched
  <1>9. ASSUME NEW p \in Procs,
               \/ SellerTimeoutRead(p) \/ DeliveryTimeoutRead(p) \/ Compensate(p)
               \/ RestoreStock(p) \/ Crash(p)
        PROVE  PaidUntouched
    BY <1>9, <1>t DEF SellerTimeoutRead, DeliveryTimeoutRead, Compensate, RestoreStock, Crash,
       Goto, PaidUntouched
  <1>10. ASSUME PaymentFailed \/ WindowCloses \/ UNCHANGED vars PROVE PaidUntouched
    <2>1. CASE PaymentFailed
      BY <2>1, <1>t DEF PaymentFailed, Cancelled, Order, PaidUntouched
    <2>2. CASE WindowCloses
      BY <2>2, <1>t DEF WindowCloses, Order, PaidUntouched
    <2>3. CASE UNCHANGED vars
      BY <2>3 DEF vars, PaidUntouched
    <2> QED
      BY <1>10, <2>1, <2>2, <2>3
  <1> QED
    BY <1>2, <1>3, <1>3a, <1>4, <1>5, <1>6, <1>7, <1>8, <1>8a, <1>9, <1>10
       DEF Next, Request, JobRuns, Rider, Continue, Sweep, SellerJobRuns,
           DeliveryJobRuns, SweepSellerPending, SweepDeliverySearch

\* No rider is searched for on an unpaid online order.
THEOREM PaidCorrect == Spec => []UnpaidNeverDispatched
  <1>1. PaidInv => UnpaidNeverDispatched
    BY DEF PaidInv
  <1> QED
    BY <1>1, InitType, StepType, InitRider, RiderStep, InitPaid, PaidStep, PTL DEF Spec

(***************************************************************************)
(* The stock. compensateOrderCancellation gives the stock back and records  *)
(* it in two later steps, so StockBackOnlyOnce needs more: only one process *)
(* at a time compensates, it does so for a cancelled order, and it knows     *)
(* whether the stock is back already.                                        *)
(***************************************************************************)
StockInv ==
  /\ StockBackOnlyOnce
  /\ o.kind = "regular" =>
       /\ \A p \in Procs : pc[p] \in CompensationSteps => o.ws = "CANCELLED"
       /\ \A p \in Procs : pc[p] \in {"compensate", "restoreStock"} => stock = -1 /\ ~o.released
       /\ \A p \in Procs : pc[p] \in {"saveCompensated", "reverse"} => stock = 0
       /\ \A p, q \in Procs :
            pc[p] \in CompensationSteps /\ pc[q] \in CompensationSteps => p = q

\* A step that neither cancels the order nor touches its stock.
StockUntouched ==
  /\ o'.kind = o.kind /\ o'.released = o.released /\ stock' = stock
  /\ o'.ws = o.ws \/ (o.ws # "CANCELLED" /\ o'.ws # "CANCELLED")
  /\ \A p \in Procs : pc'[p] \in CompensationSteps => pc'[p] = pc[p]

\* A step of p that cancels the order and leaves p to compensate.
CancelsBy(p) ==
  /\ o'.kind = o.kind /\ o'.released = o.released /\ stock' = stock
  /\ o.ws # "CANCELLED" /\ o'.ws = "CANCELLED"
  /\ Goto(p, "compensate")

LEMMA InitStock == Init => StockInv
  <1> SUFFICES ASSUME Init PROVE StockInv
    OBVIOUS
  <1>1. \A p \in Procs : pc[p] \notin CompensationSteps
    BY DEF Init, CompensationSteps
  <1>2. o.kind = "regular" => stock = -1 /\ ~o.released
    BY DEF Init, Placed
  <1> QED
    BY <1>1, <1>2 DEF StockInv, StockBackOnlyOnce, CompensationSteps

LEMMA StockUntouchedKeeps == StockInv /\ StockUntouched => StockInv'
  <1> SUFFICES ASSUME StockInv, StockUntouched PROVE StockInv'
    OBVIOUS
  <1>1. StockBackOnlyOnce'
    BY DEF StockInv, StockUntouched, StockBackOnlyOnce
  <1> QED
    BY <1>1 DEF StockInv, StockUntouched, CompensationSteps

LEMMA CancelsByKeeps ==
  ASSUME TypeOK, StockInv, NEW p \in Procs, CancelsBy(p)
  PROVE  StockInv'
  <1> SUFFICES ASSUME o.kind = "regular" PROVE StockInv'
    BY DEF StockInv, StockBackOnlyOnce, CancelsBy
  <1>1. stock = -1 /\ ~o.released /\ \A q \in Procs : pc[q] \notin CompensationSteps
    BY DEF StockInv, StockBackOnlyOnce, CancelsBy
  <1>2. pc'[p] = "compensate" /\ \A q \in Procs \ {p} : pc'[q] = pc[q]
    BY DEF CancelsBy, Goto, TypeOK
  <1>3. StockBackOnlyOnce'
    BY <1>1 DEF StockBackOnlyOnce, CancelsBy
  <1>4. \A q \in Procs : pc'[q] \in CompensationSteps => q = p
    BY <1>1, <1>2
  <1> QED
    BY <1>1, <1>2, <1>3, <1>4 DEF StockInv, CancelsBy, CompensationSteps

\* The steps of OrderWorkflow other than the compensation's own and
\* PaymentFailed leave the stock alone or cancel and are to compensate.
LEMMA StockEffect ==
  ASSUME TypeOK, RiderInv, [Next]_vars, o.kind = "regular"
  PROVE  \/ StockUntouched
         \/ \E p \in Procs : CancelsBy(p)
         \/ \E p \in Procs :
              Compensate(p) \/ RestoreStock(p) \/ SaveCompensated(p) \/ ReverseFinance(p)
         \/ PaymentFailed
  <1>t. o \in Order /\ pc \in [Procs -> Steps]
    BY DEF TypeOK
  <1>1. ASSUME NEW p \in Procs, AfterPlace(p) \/ BroadcastPaidExpress(p) PROVE StockUntouched
    <2>1. CASE UNCHANGED o
      BY <1>1, <1>t, <2>1 DEF AfterPlace, BroadcastPaidExpress, Goto, StockUntouched, CompensationSteps
    <2>2. CASE o' = [SearchStarted(o) EXCEPT !.sellerWin = "none"] /\ o.ws # "CANCELLED"
      BY <1>1, <1>t, <2>2 DEF AfterPlace, BroadcastPaidExpress, SearchStarted, Goto, Order,
         StockUntouched, CompensationSteps
    <2> QED
      BY <1>1, <2>1, <2>2 DEF AfterPlace, BroadcastPaidExpress, AfterPlaceExpress
  <1>1a. ASSUME NEW p \in Procs,
                PaymentPending(p) \/ PaymentPendingWrite(p) \/ PaymentCaptured(p)
         PROVE  StockUntouched
    BY <1>1a, <1>t DEF PaymentPending, PaymentPendingWrite, PaymentCaptured, Goto, Order,
       StockUntouched, CompensationSteps
  <1>2. ASSUME NEW p \in Procs, MoveOrderToSellerPending(p) PROVE StockUntouched
    BY <1>2, <1>t DEF MoveOrderToSellerPending, Goto, Order, StockUntouched, CompensationSteps
  <1>3. ASSUME NEW p \in Procs, SellerAccept(p) PROVE StockUntouched
    BY <1>3, <1>t DEF SellerAccept, SearchStarted, Goto, Order, StockUntouched, CompensationSteps
  <1>4. ASSUME NEW p \in Procs, SellerAcceptSave(p) PROVE FALSE
    BY <1>4 DEF SellerAcceptSave, RiderInv, Saving
  <1>5. ASSUME NEW r \in Riders,
               \/ DeliveryAccept(r) \/ RiderCancelAssignment(r) \/ MarkArrivedAtStore(r)
               \/ ConfirmPickup(r) \/ VerifyPickupOtpAndConfirm(r) \/ VerifyHandoffOtpAndDeliver(r)
        PROVE  StockUntouched
    BY <1>5, <1>t DEF DeliveryAccept, RiderCancelAssignment, MarkArrivedAtStore, ConfirmPickup,
       VerifyPickupOtpAndConfirm, VerifyHandoffOtpAndDeliver, SearchStarted, PrePickup, Order,
       StockUntouched
  <1>6. ASSUME NEW p \in Procs,
               \/ SellerReject(p) \/ CustomerCancel(p) \/ SweepPaymentTimeout(p)
        PROVE  CancelsBy(p)
    BY <1>6, <1>t DEF SellerReject, CustomerCancel, SweepPaymentTimeout, Cancelled, Order,
       Terminal, CancelsBy
  <1>7. ASSUME NEW p \in Procs, SellerTimeoutWrite(p) \/ DeliveryTimeoutGiveUp(p)
        PROVE  StockUntouched \/ CancelsBy(p)
    <2>1. CASE UNCHANGED o /\ Goto(p, "idle")
      BY <1>7, <1>t, <2>1 DEF SellerTimeoutWrite, DeliveryTimeoutGiveUp, Goto, StockUntouched,
         CompensationSteps
    <2>2. CASE o.ws # "CANCELLED" /\ o' = Cancelled(o) /\ Goto(p, "compensate")
      BY <1>7, <1>t, <2>2 DEF SellerTimeoutWrite, DeliveryTimeoutGiveUp, Cancelled, Order, CancelsBy
    <2> QED
      BY <1>7, <2>1, <2>2 DEF SellerTimeoutWrite, DeliveryTimeoutGiveUp
  <1>8. ASSUME NEW p \in Procs, DeliveryTimeoutExtend(p) PROVE StockUntouched
    BY <1>8, <1>t DEF DeliveryTimeoutExtend, Goto, Order, StockUntouched, CompensationSteps
  <1>9. ASSUME NEW p \in Procs, SellerTimeoutRead(p) \/ DeliveryTimeoutRead(p) \/ Crash(p)
        PROVE  StockUntouched
    BY <1>9, <1>t DEF SellerTimeoutRead, DeliveryTimeoutRead, Crash, Goto, StockUntouched,
       CompensationSteps
  <1>10. ASSUME WindowCloses \/ UNCHANGED vars PROVE StockUntouched
    BY <1>10, <1>t DEF WindowCloses, vars, Order, StockUntouched
  <1> QED
    BY <1>1, <1>1a, <1>2, <1>3, <1>4, <1>5, <1>6, <1>7, <1>8, <1>9, <1>10
       DEF Next, Request, JobRuns, Rider, Continue, Sweep, SellerJobRuns,
           DeliveryJobRuns, SweepSellerPending, SweepDeliverySearch

\* No step changes what kind of order it is.
LEMMA KindKept == TypeOK /\ [Next]_vars => o'.kind = o.kind
  <1> SUFFICES ASSUME TypeOK, [Next]_vars PROVE o'.kind = o.kind
    OBVIOUS
  <1>t. o \in Order
    BY DEF TypeOK
  <1>1. ASSUME NEW p \in Procs, Continue(p) \/ Crash(p) PROVE o'.kind = o.kind
    BY <1>1, <1>t, SaveEffect DEF Continue, Crash, AfterPlace, AfterPlaceExpress, PaymentPendingWrite,
       MoveOrderToSellerPending, BroadcastPaidExpress, SellerAcceptSave, SellerTimeoutWrite, DeliveryTimeoutExtend, DeliveryTimeoutGiveUp,
       Compensate, RestoreStock, SearchStarted, Cancelled, Order
  <1>2. ASSUME NEW p \in Procs, Request(p) \/ JobRuns(p) \/ Sweep(p) PROVE o'.kind = o.kind
    BY <1>2, <1>t DEF Request, JobRuns, Sweep, PaymentPending, PaymentCaptured, SellerAccept, SellerReject,
       CustomerCancel, SellerJobRuns, DeliveryJobRuns, SweepSellerPending, SweepDeliverySearch,
       SweepPaymentTimeout, SellerTimeoutRead, DeliveryTimeoutRead, SearchStarted, Cancelled, Order
  <1>3. ASSUME NEW r \in Riders, Rider(r) PROVE o'.kind = o.kind
    BY <1>3, <1>t DEF Rider, DeliveryAccept, RiderCancelAssignment, MarkArrivedAtStore,
       ConfirmPickup, VerifyPickupOtpAndConfirm, VerifyHandoffOtpAndDeliver, SearchStarted, Order
  <1>4. ASSUME PaymentFailed \/ WindowCloses \/ UNCHANGED vars PROVE o'.kind = o.kind
    BY <1>4, <1>t DEF PaymentFailed, WindowCloses, vars, Cancelled, Order
  <1> QED
    BY <1>1, <1>2, <1>3, <1>4 DEF Next

\* The stock invariant survives every step.
LEMMA StockStep == TypeOK /\ RiderInv /\ StockInv /\ [Next]_vars => StockInv'
  <1> SUFFICES ASSUME TypeOK, RiderInv, StockInv, [Next]_vars PROVE StockInv'
    OBVIOUS
  <1>k. o'.kind = o.kind
    BY KindKept
  <1> SUFFICES ASSUME o.kind = "regular" PROVE StockInv'
    BY <1>k DEF StockInv, StockBackOnlyOnce
  <1>t. o \in Order /\ pc \in [Procs -> Steps]
    BY DEF TypeOK
  <1>1. ASSUME NEW p \in Procs, Compensate(p) PROVE StockInv'
    <2>1. pc' = [pc EXCEPT ![p] = "restoreStock"] /\ UNCHANGED <<o, stock>>
      BY <1>1, <1>t DEF Compensate, Goto, StockInv
    <2>2. \A q \in Procs : pc'[q] \in CompensationSteps => pc[q] \in CompensationSteps
      BY <1>1, <1>t, <2>1 DEF Compensate, CompensationSteps
    <2> QED
      BY <1>1, <1>t, <2>1, <2>2 DEF StockInv, StockBackOnlyOnce, Compensate, CompensationSteps
  <1>2. ASSUME NEW p \in Procs, RestoreStock(p) PROVE StockInv'
    <2>1. /\ pc[p] = "restoreStock" /\ pc' = [pc EXCEPT ![p] = "saveCompensated"]
          /\ stock = -1 /\ stock' = 0 /\ o' = o /\ ~o.released /\ o.ws = "CANCELLED"
      BY <1>2, <1>t DEF RestoreStock, Goto, StockInv, CompensationSteps
    <2>2. \A q \in Procs : pc'[q] \in CompensationSteps => q = p
      BY <1>t, <2>1 DEF StockInv, CompensationSteps
    <2>3. pc'[p] = "saveCompensated"
      BY <1>t, <2>1
    <2> QED
      BY <2>1, <2>2, <2>3 DEF StockInv, StockBackOnlyOnce, CompensationSteps
  <1>3. ASSUME NEW p \in Procs, SaveCompensated(p) \/ ReverseFinance(p) PROVE StockInv'
    <2>1. /\ pc[p] \in {"saveCompensated", "reverse"}
          /\ pc' \in {[pc EXCEPT ![p] = "idle"], [pc EXCEPT ![p] = "reverse"]}
      BY <1>3 DEF SaveCompensated, ReverseFinance, Goto
    <2>2. stock = 0 /\ stock' = 0 /\ o'.ws = o.ws /\ o.ws = "CANCELLED" /\ o'.kind = o.kind
      BY <1>3, <1>t, <2>1, SaveEffect DEF StockInv, CompensationSteps
    <2>3. \A q \in Procs : pc'[q] \in CompensationSteps => q = p /\ pc'[q] = "reverse"
      BY <1>t, <2>1 DEF StockInv, CompensationSteps
    <2> QED
      BY <2>2, <2>3 DEF StockInv, StockBackOnlyOnce, CompensationSteps
  <1>4. ASSUME PaymentFailed PROVE StockInv'
    <2>1. /\ stock = -1 /\ ~o.released /\ stock' = 0 /\ o'.ws = "CANCELLED"
          /\ pc' = pc /\ \A q \in Procs : pc[q] \notin CompensationSteps
      BY <1>4, <1>t DEF PaymentFailed, Cancelled, Order, StockInv, StockBackOnlyOnce
    <2> QED
      BY <2>1 DEF StockInv, StockBackOnlyOnce, CompensationSteps
  <1> QED
    BY <1>1, <1>2, <1>3, <1>4, StockEffect, StockUntouchedKeeps, CancelsByKeeps

\* The stock of an order is given back at most once, and only if the order is
\* cancelled, however many handlers try to cancel it and wherever they crash.
THEOREM StockCorrect == Spec => []StockBackOnlyOnce
  <1>1. StockInv => StockBackOnlyOnce
    BY DEF StockInv
  <1> QED
    BY <1>1, InitType, StepType, InitRider, RiderStep, InitStock, StockStep, PTL DEF Spec

(***************************************************************************)
(* Delivered and cancelled are final, and the workflow implements            *)
(* OrderLifecycle.                                                           *)
(***************************************************************************)
\* No step of an order other than a WhatsApp order leaves a terminal status.
LEMMA TerminalStep ==
  TypeOK /\ RiderInv /\ [Next]_vars =>
    (o.kind # "manual" /\ o.ws \in Terminal => o'.ws = o.ws)
  <1> SUFFICES ASSUME TypeOK, RiderInv, [Next]_vars, o.kind # "manual", o.ws \in Terminal
               PROVE  o'.ws = o.ws
    OBVIOUS
  <1>t. o \in Order
    BY DEF TypeOK
  <1>1. ASSUME NEW p \in Procs,
               AfterPlace(p) \/ MoveOrderToSellerPending(p) \/ BroadcastPaidExpress(p)
        PROVE  o'.ws = o.ws
    BY <1>1 DEF AfterPlace, MoveOrderToSellerPending, BroadcastPaidExpress, AfterPlaceExpress, Terminal
  <1>2. ASSUME NEW p \in Procs, SellerAcceptSave(p) PROVE FALSE
    BY <1>2 DEF SellerAcceptSave, RiderInv, Saving
  <1>3. ASSUME NEW p \in Procs,
               \/ SellerTimeoutWrite(p) \/ DeliveryTimeoutExtend(p) \/ DeliveryTimeoutGiveUp(p)
        PROVE  o'.ws = o.ws
    BY <1>3 DEF SellerTimeoutWrite, DeliveryTimeoutExtend, DeliveryTimeoutGiveUp, Terminal
  <1>4. ASSUME NEW p \in Procs,
               \/ Compensate(p) \/ RestoreStock(p) \/ SaveCompensated(p) \/ ReverseFinance(p)
               \/ Crash(p) \/ PaymentPending(p) \/ PaymentPendingWrite(p) \/ PaymentCaptured(p)
        PROVE  o'.ws = o.ws
    BY <1>4, <1>t, SaveEffect DEF Compensate, RestoreStock, Crash, PaymentPending,
       PaymentPendingWrite, PaymentCaptured, Order
  <1>5. ASSUME NEW p \in Procs, SellerAccept(p) \/ SellerReject(p) \/ CustomerCancel(p)
        PROVE  FALSE
    BY <1>5 DEF SellerAccept, SellerReject, CustomerCancel, Terminal
  <1>6. ASSUME NEW p \in Procs, JobRuns(p) \/ Sweep(p) PROVE o'.ws = o.ws
    BY <1>6 DEF JobRuns, SellerJobRuns, DeliveryJobRuns, Sweep, SweepSellerPending,
       SweepDeliverySearch, SweepPaymentTimeout, SellerTimeoutRead, DeliveryTimeoutRead, Terminal
  <1>7. ASSUME NEW r \in Riders, Rider(r) PROVE FALSE
    BY <1>7 DEF Rider, DeliveryAccept, RiderCancelAssignment, MarkArrivedAtStore, ConfirmPickup,
       VerifyPickupOtpAndConfirm, VerifyHandoffOtpAndDeliver, PrePickup, Terminal
  <1>8. ASSUME PaymentFailed \/ WindowCloses \/ UNCHANGED vars PROVE o'.ws = o.ws
    BY <1>8, <1>t DEF PaymentFailed, WindowCloses, vars, Order, Terminal
  <1> QED
    BY <1>1, <1>2, <1>3, <1>4, <1>5, <1>6, <1>7, <1>8 DEF Next, Request, Continue

\* Delivered and cancelled are final, whatever other handlers still have to do.
THEOREM TerminalCorrect == Spec => TerminalIsFinal
  <1>1. TypeOK /\ RiderInv /\ [Next]_vars
          => [o.kind # "manual" /\ o.ws \in Terminal => o'.ws = o.ws]_vars
    BY TerminalStep
  <1> QED
    BY <1>1, InitType, StepType, InitRider, RiderStep, PTL DEF Spec, TerminalIsFinal

(***************************************************************************)
(* The rider who backed out. Only a save of a compensation can bring them    *)
(* back, after the stock's return was recorded or for an express order, and  *)
(* the order of such a save is cancelled unless it is a WhatsApp order.       *)
(***************************************************************************)
BackedInv ==
  /\ BackedOutRiderNeverBack
  /\ \A p \in Procs : pc[p] = "reverse" => o.released \/ o.kind = "express"

\* What the steps other than a compensation's saves do to the rider.
RiderKept ==
  /\ (o'.rider = o.rider /\ o'.skipped = o.skipped) \/ o'.rider \notin o'.skipped
  /\ o.released => o'.released
  /\ \A p \in Procs : pc'[p] = "reverse" => pc[p] = "reverse"

LEMMA InitBacked == Init => BackedInv
  BY DEF Init, Placed, BackedInv, BackedOutRiderNeverBack

\* A compensation's saves aside, every step keeps the rider or names one who did
\* not back out.
LEMMA RiderEffect ==
  ASSUME TypeOK, [Next]_vars
  PROVE  RiderKept \/ \E p \in Procs : SaveCompensated(p) \/ ReverseFinance(p)
  <1>t. o \in Order /\ pc \in [Procs -> Steps]
    BY DEF TypeOK
  <1>1. ASSUME NEW p \in Procs, AfterPlace(p) \/ BroadcastPaidExpress(p) PROVE RiderKept
    BY <1>1, <1>t DEF AfterPlace, BroadcastPaidExpress, AfterPlaceExpress, SearchStarted, Goto,
       Order, RiderKept
  <1>2. ASSUME NEW p \in Procs,
               \/ PaymentPending(p) \/ PaymentPendingWrite(p) \/ PaymentCaptured(p)
               \/ MoveOrderToSellerPending(p)
        PROVE  RiderKept
    BY <1>2, <1>t DEF PaymentPending, PaymentPendingWrite, PaymentCaptured,
       MoveOrderToSellerPending, Goto, Order, RiderKept
  <1>3. ASSUME NEW p \in Procs, SellerAccept(p) \/ SellerAcceptSave(p) \/ SellerReject(p)
        PROVE  RiderKept
    BY <1>3, <1>t DEF SellerAccept, SellerAcceptSave, SellerReject, SearchStarted, Cancelled,
       Goto, Order, RiderKept
  <1>4. ASSUME NEW r \in Riders, DeliveryAccept(r) PROVE RiderKept
    BY <1>4, <1>t DEF DeliveryAccept, Order, RiderKept
  <1>5. ASSUME NEW r \in Riders, RiderCancelAssignment(r) PROVE RiderKept
    <2>1. o'.rider = NoRider /\ o'.skipped = o.skipped \cup {r} /\ o'.released = o.released
      BY <1>5, <1>t DEF RiderCancelAssignment, SearchStarted, Order
    <2>2. o'.rider \notin o'.skipped
      BY <1>t, <2>1, RidersAssumption DEF Order
    <2> QED
      BY <1>5, <2>1, <2>2 DEF RiderCancelAssignment, RiderKept
  <1>6. ASSUME NEW r \in Riders,
               \/ MarkArrivedAtStore(r) \/ ConfirmPickup(r)
               \/ VerifyPickupOtpAndConfirm(r) \/ VerifyHandoffOtpAndDeliver(r)
        PROVE  RiderKept
    BY <1>6, <1>t DEF MarkArrivedAtStore, ConfirmPickup, VerifyPickupOtpAndConfirm,
       VerifyHandoffOtpAndDeliver, Order, RiderKept
  <1>7. ASSUME NEW p \in Procs,
               \/ CustomerCancel(p) \/ SweepPaymentTimeout(p) \/ SellerTimeoutWrite(p)
               \/ DeliveryTimeoutGiveUp(p) \/ DeliveryTimeoutExtend(p)
        PROVE  RiderKept
    BY <1>7, <1>t DEF CustomerCancel, SweepPaymentTimeout, SellerTimeoutWrite,
       DeliveryTimeoutGiveUp, DeliveryTimeoutExtend, Cancelled, Goto, Order, RiderKept
  <1>8. ASSUME NEW p \in Procs,
               \/ SellerTimeoutRead(p) \/ DeliveryTimeoutRead(p) \/ Compensate(p)
               \/ RestoreStock(p) \/ Crash(p)
        PROVE  RiderKept
    BY <1>8, <1>t DEF SellerTimeoutRead, DeliveryTimeoutRead, Compensate, RestoreStock, Crash,
       Goto, RiderKept
  <1>9. ASSUME PaymentFailed \/ WindowCloses \/ UNCHANGED vars PROVE RiderKept
    BY <1>9, <1>t DEF PaymentFailed, WindowCloses, vars, Cancelled, Order, RiderKept
  <1> QED
    BY <1>1, <1>2, <1>3, <1>4, <1>5, <1>6, <1>7, <1>8, <1>9
       DEF Next, Request, JobRuns, Rider, Continue, Sweep, SellerJobRuns, DeliveryJobRuns,
           SweepSellerPending, SweepDeliverySearch

LEMMA BackedStep == TypeOK /\ RiderInv /\ BackedInv /\ [Next]_vars => BackedInv'
  <1> SUFFICES ASSUME TypeOK, RiderInv, BackedInv, [Next]_vars PROVE BackedInv'
    OBVIOUS
  <1>t. o \in Order /\ pc \in [Procs -> Steps] /\ o'.kind = o.kind
    BY KindKept DEF TypeOK
  <1>c. o.kind # "manual" /\ o.ws = "CANCELLED" => o'.ws = "CANCELLED"
    BY TerminalStep DEF Terminal
  <1>1. CASE RiderKept
    BY <1>t, <1>c, <1>1 DEF BackedInv, BackedOutRiderNeverBack, RiderKept
  <1>2. ASSUME NEW p \in Procs, SaveCompensated(p) PROVE BackedInv'
    <2>1. o'.released \/ o'.kind = "express"
      BY <1>2, <1>t DEF SaveCompensated, SavedWith, Order
    <2>2. o.kind # "manual" => o'.ws = "CANCELLED"
      BY <1>2, <1>c DEF SaveCompensated, RiderInv, CompensationSteps
    <2> QED
      BY <1>t, <2>1, <2>2 DEF BackedInv, BackedOutRiderNeverBack
  <1>3. ASSUME NEW p \in Procs, ReverseFinance(p) PROVE BackedInv'
    <2>1. o.released \/ o.kind = "express"
      BY <1>3 DEF ReverseFinance, BackedInv
    <2>2. o.released => o'.released
      BY <1>3, <1>t, SaveEffect
    <2>3. o.kind # "manual" => o'.ws = "CANCELLED"
      BY <1>3, <1>c DEF ReverseFinance, RiderInv, CompensationSteps
    <2> QED
      BY <1>t, <2>1, <2>2, <2>3 DEF BackedInv, BackedOutRiderNeverBack
  <1> QED
    BY <1>1, <1>2, <1>3, RiderEffect

\* A rider who backed out is named again only by the compensation of a
\* cancellation, through any number of rounds, and on an order that stays
\* cancelled unless it is a WhatsApp order.
THEOREM BackedOutCorrect == Spec => []BackedOutRiderNeverBack
  <1>1. BackedInv => BackedOutRiderNeverBack
    BY DEF BackedInv
  <1> QED
    BY <1>1, InitType, StepType, InitRider, RiderStep, InitBacked, BackedStep, PTL DEF Spec

\* What a step does to the stock: it keeps it, or gives it back to a cancelled
\* order; a delivery keeps it.
LEMMA StockMoves ==
  ASSUME TypeOK, RiderInv, StockInv, [Next]_vars, o.kind = "regular"
  PROVE  stock' = stock \/ (stock = -1 /\ stock' = 0 /\ o'.ws = "CANCELLED")
  <1>t. o \in Order
    BY DEF TypeOK
  <1>1. ASSUME NEW p \in Procs, RestoreStock(p) PROVE stock = -1 /\ stock' = 0 /\ o'.ws = "CANCELLED"
    BY <1>1 DEF RestoreStock, StockInv, CompensationSteps
  <1>2. ASSUME PaymentFailed PROVE stock = -1 /\ stock' = 0 /\ o'.ws = "CANCELLED"
    BY <1>2, <1>t DEF PaymentFailed, Cancelled, Order, StockInv, StockBackOnlyOnce
  <1> QED
    BY <1>1, <1>2, StockEffect DEF StockUntouched, CancelsBy, Compensate, SaveCompensated,
       ReverseFinance

\* Each step is a step of OrderLifecycle or leaves it as it is.
LEMMA LifecycleStep ==
  TypeOK /\ RiderInv /\ StockInv /\ [Next]_vars => [Lifecycle!Next]_(Lifecycle!vars)
  <1> SUFFICES ASSUME TypeOK, RiderInv, StockInv, [Next]_vars
               PROVE  [Lifecycle!Next]_(Lifecycle!vars)
    OBVIOUS
  <1>k. o'.kind = o.kind
    BY KindKept
  <1>m. CASE o.kind = "manual"
    BY <1>k, <1>m DEF Lifecycle!vars
  <1>n. CASE o.kind # "manual"
    <2>1. o.ws \in Terminal => o'.ws = o.ws
      BY <1>n, TerminalStep
    <2>2. o.kind = "regular" => stock' = stock \/ (stock = -1 /\ stock' = 0 /\ o'.ws = "CANCELLED")
      BY StockMoves
    <2>3. CASE o'.ws = o.ws /\ (o.kind = "regular" => stock' = stock)
      BY <1>k, <2>3 DEF Lifecycle!vars
    <2>4. CASE o.ws = "CANCELLED" /\ o'.ws = o.ws /\ o.kind = "regular" /\ stock = -1 /\ stock' = 0
      BY <1>k, <2>4 DEF Lifecycle!Next, Lifecycle!ReturnStock
    <2>5. CASE o.ws \notin Terminal /\ o'.ws = "DELIVERED"
      BY <1>k, <1>n, <2>2, <2>5 DEF Lifecycle!Next, Lifecycle!Deliver, Terminal
    <2>6. CASE o.ws \notin Terminal /\ o'.ws = "CANCELLED"
      BY <1>k, <1>n, <2>6 DEF Lifecycle!Next, Lifecycle!Cancel, Terminal
    <2>7. CASE o.ws \notin Terminal /\ o'.ws \notin Terminal
      BY <1>k, <1>n, <2>2, <2>7 DEF Lifecycle!vars, Terminal
    <2> QED
      BY <2>1, <2>2, <2>3, <2>4, <2>5, <2>6, <2>7 DEF Terminal
  <1> QED
    BY <1>m, <1>n

\* The workflow implements the abstract life of an order: delivered or cancelled
\* for good, the stock returned once and only after a cancellation.
THEOREM Implementation == Spec => ImplementsLifecycle
  <1>1. Init => Lifecycle!Init
    BY DEF Init, Placed, Lifecycle!Init
  <1> QED
    BY <1>1, LifecycleStep, InitType, StepType, InitRider, RiderStep, InitStock, StockStep, PTL
       DEF Spec, ImplementsLifecycle, Lifecycle!Spec

(***************************************************************************)
(* The seller's window, timeouts and the table of transitions: who may take *)
(* an order from one status to another.                                      *)
(***************************************************************************)
\* A timeout handler that has read the order finds the window closed when it
\* writes, for the seller's window never opens a second time.
WindowInv ==
  \A p \in Procs : pc[p] = "sellerTimeout" =>
    o.ws # "CREATED" /\ (o.ws = "SELLER_PENDING" => o.sellerWin # "open")

\* A step that sends nobody to sellerTimeout, and neither starts the wait for the
\* seller nor opens the window.
WindowUntouched ==
  /\ o'.ws \in {"CREATED", "SELLER_PENDING"} => o'.ws = o.ws
  /\ o'.sellerWin = "open" => o.sellerWin = "open"
  /\ \A p \in Procs : pc'[p] = "sellerTimeout" => pc[p] = "sellerTimeout"

LEMMA InitWindow == Init => WindowInv
  BY DEF Init, WindowInv

LEMMA WindowUntouchedKeeps == WindowInv /\ WindowUntouched => WindowInv'
  BY DEF WindowInv, WindowUntouched

\* The window is opened before the first timeout handler runs, and stays as it is
\* while one has read but not written.
LEMMA WindowStep == TypeOK /\ WindowInv /\ [Next]_vars => WindowInv'
  <1> SUFFICES ASSUME TypeOK, WindowInv, [Next]_vars PROVE WindowInv'
    OBVIOUS
  <1>t. o \in Order /\ pc \in [Procs -> Steps]
    BY DEF TypeOK
  <1> USE WindowUntouchedKeeps
  <1>1. ASSUME NEW p \in Procs, AfterPlace(p) \/ BroadcastPaidExpress(p) PROVE WindowUntouched
    <2>1. CASE UNCHANGED o
      BY <1>1, <1>t, <2>1 DEF AfterPlace, BroadcastPaidExpress, Goto, WindowUntouched
    <2>2. CASE o' = [SearchStarted(o) EXCEPT !.sellerWin = "none"]
      BY <1>1, <1>t, <2>2 DEF AfterPlace, BroadcastPaidExpress, SearchStarted, Goto, Order,
         WindowUntouched
    <2> QED
      BY <1>1, <2>1, <2>2 DEF AfterPlace, BroadcastPaidExpress, AfterPlaceExpress
  <1>2. ASSUME NEW p \in Procs, MoveOrderToSellerPending(p) PROVE WindowInv'
    <2>1. CASE UNCHANGED o
      <3>1. WindowUntouched
        BY <1>2, <1>t, <2>1 DEF MoveOrderToSellerPending, Goto, WindowUntouched
      <3> QED
        BY <3>1
    <2>2. CASE o.ws = "CREATED" /\ Goto(p, "idle")
      BY <1>t, <2>2 DEF WindowInv, Goto
    <2> QED
      BY <1>2, <2>1, <2>2 DEF MoveOrderToSellerPending
  <1>3. ASSUME NEW p \in Procs,
               PaymentPending(p) \/ PaymentPendingWrite(p) \/ PaymentCaptured(p)
        PROVE  WindowUntouched
    BY <1>3, <1>t DEF PaymentPending, PaymentPendingWrite, PaymentCaptured, Goto, Order, WindowUntouched
  <1>3a. ASSUME NEW p \in Procs, SaveCompensated(p) \/ ReverseFinance(p) PROVE WindowUntouched
    <2>1. \A q \in Procs : pc'[q] = "sellerTimeout" => pc[q] = "sellerTimeout"
      BY <1>3a, <1>t DEF SaveCompensated, ReverseFinance, Goto
    <2> QED
      BY <1>3a, <1>t, <2>1, SaveEffect DEF WindowUntouched
  <1>4. ASSUME NEW p \in Procs, SellerAccept(p) \/ SellerAcceptSave(p) PROVE WindowUntouched
    BY <1>4, <1>t DEF SellerAccept, SellerAcceptSave, SearchStarted, Goto, Order, WindowUntouched
  <1>5. ASSUME NEW r \in Riders, Rider(r) PROVE WindowUntouched
    BY <1>5, <1>t DEF Rider, DeliveryAccept, RiderCancelAssignment, MarkArrivedAtStore,
       ConfirmPickup, VerifyPickupOtpAndConfirm, VerifyHandoffOtpAndDeliver, SearchStarted,
       Order, WindowUntouched
  <1>6. ASSUME NEW p \in Procs,
               \/ SellerReject(p) \/ CustomerCancel(p) \/ SweepPaymentTimeout(p)
               \/ SellerTimeoutWrite(p) \/ DeliveryTimeoutGiveUp(p) \/ DeliveryTimeoutExtend(p)
        PROVE  WindowUntouched
    BY <1>6, <1>t DEF SellerReject, CustomerCancel, SweepPaymentTimeout, SellerTimeoutWrite,
       DeliveryTimeoutGiveUp, DeliveryTimeoutExtend, Cancelled, Goto, Order, WindowUntouched
  <1>7. ASSUME NEW p \in Procs, SellerTimeoutRead(p) PROVE WindowInv'
    BY <1>7, <1>t DEF SellerTimeoutRead, Goto, WindowInv
  <1>8. ASSUME NEW p \in Procs,
               DeliveryTimeoutRead(p) \/ Compensate(p) \/ RestoreStock(p) \/ Crash(p)
        PROVE  WindowUntouched
    BY <1>8, <1>t DEF DeliveryTimeoutRead, Compensate, RestoreStock, Crash, Goto, WindowUntouched
  <1>9. ASSUME PaymentFailed \/ WindowCloses \/ UNCHANGED vars PROVE WindowUntouched
    BY <1>9, <1>t DEF PaymentFailed, WindowCloses, vars, Cancelled, Order, WindowUntouched
  <1> QED
    BY <1>1, <1>2, <1>3, <1>3a, <1>4, <1>5, <1>6, <1>7, <1>8, <1>9
       DEF Next, Request, JobRuns, Continue, Sweep, SellerJobRuns, DeliveryJobRuns,
           SweepSellerPending, SweepDeliverySearch

\* Only these steps cancel, each from the statuses of its filter.
LEMMA WhoCancels ==
  ASSUME TypeOK, [Next]_vars, o.ws # "CANCELLED", o'.ws = "CANCELLED"
  PROVE  \/ \E p \in Workers : CustomerCancel(p)
         \/ o.ws = "SELLER_PENDING" /\ \E p \in Workers : SellerReject(p)
         \/ o.ws = "SELLER_PENDING" /\ \E p \in Procs : pc[p] = "sellerTimeout"
         \/ o.ws \in {"CREATED", "DELIVERY_SEARCH"}
  <1>t. o \in Order
    BY DEF TypeOK
  <1>1. ASSUME NEW p \in Procs,
               \/ AfterPlace(p) \/ BroadcastPaidExpress(p) \/ MoveOrderToSellerPending(p)
        PROVE  FALSE
    BY <1>1, <1>t DEF AfterPlace, BroadcastPaidExpress, AfterPlaceExpress,
       MoveOrderToSellerPending, SearchStarted, Order
  <1>2. ASSUME NEW p \in Procs,
               \/ PaymentPending(p) \/ PaymentPendingWrite(p) \/ PaymentCaptured(p)
               \/ SellerAccept(p) \/ SellerAcceptSave(p) \/ DeliveryTimeoutExtend(p)
               \/ SaveCompensated(p) \/ ReverseFinance(p)
        PROVE  FALSE
    BY <1>2, <1>t, SaveEffect DEF PaymentPending, PaymentPendingWrite, PaymentCaptured, SellerAccept,
       SellerAcceptSave, DeliveryTimeoutExtend, SearchStarted, Order
  <1>3. ASSUME NEW r \in Riders, Rider(r) PROVE FALSE
    BY <1>3, <1>t DEF Rider, DeliveryAccept, RiderCancelAssignment, MarkArrivedAtStore,
       ConfirmPickup, VerifyPickupOtpAndConfirm, VerifyHandoffOtpAndDeliver, SearchStarted, Order
  <1>4. ASSUME NEW p \in Procs,
               \/ SellerTimeoutRead(p) \/ DeliveryTimeoutRead(p) \/ Compensate(p)
               \/ RestoreStock(p) \/ Crash(p)
        PROVE  FALSE
    BY <1>4 DEF SellerTimeoutRead, DeliveryTimeoutRead, Compensate, RestoreStock, Crash
  <1>5. ASSUME WindowCloses \/ UNCHANGED vars PROVE FALSE
    BY <1>5, <1>t DEF WindowCloses, vars, Order
  <1>6. ASSUME NEW p \in Workers, SellerReject(p) PROVE o.ws = "SELLER_PENDING"
    BY <1>6 DEF SellerReject
  <1>7. ASSUME NEW p \in Procs, SellerTimeoutWrite(p)
        PROVE  o.ws = "SELLER_PENDING" /\ pc[p] = "sellerTimeout"
    BY <1>7 DEF SellerTimeoutWrite
  <1>8. ASSUME NEW p \in Procs, DeliveryTimeoutGiveUp(p) PROVE o.ws = "DELIVERY_SEARCH"
    BY <1>8 DEF DeliveryTimeoutGiveUp
  <1>9. ASSUME SweepPaymentTimeout(Sweeper) \/ PaymentFailed PROVE o.ws = "CREATED"
    BY <1>9 DEF SweepPaymentTimeout, PaymentFailed
  <1> QED
    BY <1>1, <1>2, <1>3, <1>4, <1>5, <1>6, <1>7, <1>8, <1>9
       DEF Next, Request, JobRuns, Continue, Sweep, SellerJobRuns, DeliveryJobRuns,
           SweepSellerPending, SweepDeliverySearch

\* Before the deadline nobody but the seller and the customer cancels an order that
\* waits for the seller, although the timeout handler reads, then writes.
THEOREM WindowCorrect == Spec => SellerGetsWholeWindow
  <1>1. TypeOK /\ WindowInv /\ [Next]_vars
          => [(o.ws = "SELLER_PENDING" /\ o.sellerWin = "open" /\ o'.ws = "CANCELLED")
                => \E p \in Workers : SellerReject(p) \/ CustomerCancel(p)]_vars
    BY WhoCancels DEF WindowInv
  <1> QED
    BY <1>1, InitType, StepType, InitWindow, WindowStep, PTL DEF Spec, SellerGetsWholeWindow

\* No timeout and no late seller cancels an order that a rider has accepted.
THEOREM AssignedOrderSpared == Spec => TimeoutSparesAssignedOrder
  <1>1. TypeOK /\ [Next]_vars
          => [(o.ws \in WithRider /\ o'.ws = "CANCELLED")
                => \E p \in Workers : CustomerCancel(p)]_vars
    BY WhoCancels DEF WithRider, PrePickup
  <1> QED
    BY <1>1, InitType, StepType, PTL DEF Spec, TimeoutSparesAssignedOrder

\* The table's row of each status that a handler finds an order in.
LEMMA Table ==
  /\ TRANSITIONS["CREATED"] = {"SELLER_PENDING"}
  /\ TRANSITIONS["SELLER_PENDING"] = {"SELLER_ACCEPTED", "DELIVERY_SEARCH", "CANCELLED"}
  /\ TRANSITIONS["DELIVERY_SEARCH"] = {"DELIVERY_ASSIGNED", "CANCELLED"}
  /\ TRANSITIONS["DELIVERY_ASSIGNED"] = {"PICKUP_READY", "OUT_FOR_DELIVERY", "CANCELLED"}
  /\ TRANSITIONS["PICKUP_READY"] = {"OUT_FOR_DELIVERY", "CANCELLED"}
  /\ TRANSITIONS["OUT_FOR_DELIVERY"] = {"DELIVERED", "CANCELLED"}
  BY DEF TRANSITIONS, WORKFLOW_STATUS, Terminal

\* The customer's cancellation is allowed from every status short of the end that
\* occurs.
LEMMA CancelAllowed ==
  ASSUME NEW from \in WORKFLOW_STATUS \ Terminal
  PROVE  "CANCELLED" \in TRANSITIONS[from] \/ <<from, "CANCELLED">> \in UnlistedMoves(o.kind)
  BY DEF TRANSITIONS, WORKFLOW_STATUS, Terminal, UnlistedMoves

Accounted(from, to) == CanTransition(from, to) \/ <<from, to>> \in UnlistedMoves(o.kind)

\* Every status change of an order is in the table or among the unlisted moves of
\* its kind.
LEMMA StatusStep ==
  ASSUME TypeOK, RiderInv, [Next]_vars
  PROVE  Accounted(o.ws, o'.ws)
  <1>t. o \in Order /\ o.ws \in WORKFLOW_STATUS
    BY DEF TypeOK, Order
  <1>e. o'.ws = o.ws => Accounted(o.ws, o'.ws)
    BY DEF Accounted, CanTransition
  <1> USE Table
  <1>1. ASSUME NEW p \in Procs, AfterPlace(p) \/ BroadcastPaidExpress(p)
        PROVE  Accounted(o.ws, o'.ws)
    <2>1. CASE UNCHANGED o
      BY <1>e, <2>1
    <2>2. CASE /\ o' = [SearchStarted(o) EXCEPT !.sellerWin = "none"]
               /\ o.ws \in {"SELLER_PENDING", "DELIVERY_SEARCH"}
      BY <1>t, <2>2 DEF SearchStarted, Order, Accounted, CanTransition
    <2> QED
      BY <1>1, <2>1, <2>2 DEF AfterPlace, BroadcastPaidExpress, AfterPlaceExpress
  <1>2. ASSUME NEW p \in Procs, MoveOrderToSellerPending(p) PROVE Accounted(o.ws, o'.ws)
    BY <1>2, <1>t, <1>e DEF MoveOrderToSellerPending, Order, Accounted, CanTransition
  <1>3. ASSUME NEW p \in Procs, SellerAccept(p) PROVE Accounted(o.ws, o'.ws)
    BY <1>3, <1>t DEF SellerAccept, SearchStarted, Order, Accounted, CanTransition
  <1>4. ASSUME NEW p \in Procs, SellerAcceptSave(p) PROVE Accounted(o.ws, o'.ws)
    <2>1. o.kind = "manual" /\ o.ws \in {"DELIVERY_SEARCH", "CANCELLED"}
      BY <1>4 DEF SellerAcceptSave, RiderInv, Saving
    <2>2. o'.ws = "DELIVERY_ASSIGNED"
      BY <1>4, <1>t DEF SellerAcceptSave, Order
    <2> QED
      BY <2>1, <2>2 DEF Accounted, CanTransition, UnlistedMoves
  <1>5. ASSUME NEW p \in Procs,
               \/ SellerReject(p) \/ CustomerCancel(p) \/ SweepPaymentTimeout(p)
               \/ SellerTimeoutWrite(p) \/ DeliveryTimeoutGiveUp(p) \/ PaymentFailed
        PROVE  Accounted(o.ws, o'.ws)
    <2> SUFFICES o'.ws = o.ws \/ (o.ws \notin Terminal /\ o'.ws = "CANCELLED")
      BY <1>t, <1>e, CancelAllowed DEF Accounted, CanTransition
    <2>1. Cancelled(o).ws = "CANCELLED"
      BY <1>t DEF Cancelled, Order
    <2>2. \/ o' = o
          \/ /\ o' = Cancelled(o) \/ o'.ws = "CANCELLED"
             /\ o.ws \in {"CREATED", "SELLER_PENDING", "DELIVERY_SEARCH"} \/ o.ws \notin Terminal
      <3>1. CASE SellerReject(p)
        BY <3>1 DEF SellerReject
      <3>2. CASE CustomerCancel(p)
        BY <3>2 DEF CustomerCancel
      <3>3. CASE SweepPaymentTimeout(p)
        BY <3>3 DEF SweepPaymentTimeout
      <3>4. CASE SellerTimeoutWrite(p)
        BY <3>4 DEF SellerTimeoutWrite
      <3>5. CASE DeliveryTimeoutGiveUp(p)
        BY <3>5 DEF DeliveryTimeoutGiveUp
      <3>6. CASE PaymentFailed
        BY <1>t, <3>6 DEF PaymentFailed, Cancelled, Order
      <3> QED
        BY <1>5, <3>1, <3>2, <3>3, <3>4, <3>5, <3>6
    <2> QED
      BY <2>1, <2>2 DEF Terminal
  <1>6. ASSUME NEW r \in Riders, DeliveryAccept(r) PROVE Accounted(o.ws, o'.ws)
    BY <1>6, <1>t DEF DeliveryAccept, Order, Accounted, CanTransition
  <1>7. ASSUME NEW r \in Riders, RiderCancelAssignment(r) PROVE Accounted(o.ws, o'.ws)
    BY <1>7, <1>t DEF RiderCancelAssignment, SearchStarted, PrePickup, Order, Accounted, UnlistedMoves
  <1>8. ASSUME NEW r \in Riders,
               \/ MarkArrivedAtStore(r) \/ ConfirmPickup(r)
               \/ VerifyPickupOtpAndConfirm(r) \/ VerifyHandoffOtpAndDeliver(r)
        PROVE  Accounted(o.ws, o'.ws)
    BY <1>8, <1>t DEF MarkArrivedAtStore, ConfirmPickup, VerifyPickupOtpAndConfirm,
       VerifyHandoffOtpAndDeliver, PrePickup, Order, Accounted, CanTransition
  <1>9. ASSUME NEW p \in Procs,
               \/ PaymentPending(p) \/ PaymentPendingWrite(p) \/ PaymentCaptured(p)
               \/ DeliveryTimeoutExtend(p) \/ SaveCompensated(p) \/ ReverseFinance(p) \/ WindowCloses
        PROVE  Accounted(o.ws, o'.ws)
    BY <1>9, <1>t, <1>e, SaveEffect DEF PaymentPending, PaymentPendingWrite, PaymentCaptured,
       DeliveryTimeoutExtend, WindowCloses, Order
  <1>10. ASSUME NEW p \in Procs,
                \/ SellerTimeoutRead(p) \/ DeliveryTimeoutRead(p) \/ Compensate(p)
                \/ RestoreStock(p) \/ Crash(p)
         PROVE  Accounted(o.ws, o'.ws)
    BY <1>10, <1>e DEF SellerTimeoutRead, DeliveryTimeoutRead, Compensate, RestoreStock, Crash
  <1>11. ASSUME UNCHANGED vars PROVE Accounted(o.ws, o'.ws)
    BY <1>11, <1>e DEF vars
  <1>12. Sweeper \in Procs /\ Workers \subseteq Procs
    OBVIOUS
  <1> QED
    BY <1>1, <1>2, <1>3, <1>4, <1>5, <1>6, <1>7, <1>8, <1>9, <1>10, <1>11, <1>12
       DEF Next, Request, JobRuns, Rider, Continue, Sweep, SellerJobRuns, DeliveryJobRuns,
           SweepSellerPending, SweepDeliverySearch

\* Whatever ran since a handler's read, the status it writes is one the table of
\* orderStateMachine.js allows from the status it replaces, but for three moves and,
\* for a WhatsApp order, a fourth.
THEOREM TransitionsCorrect == Spec => TransitionsAccountedFor
  <1>1. TypeOK /\ RiderInv /\ [Next]_vars
          => [CanTransition(o.ws, o'.ws) \/ <<o.ws, o'.ws>> \in UnlistedMoves(o.kind)]_vars
    BY StatusStep DEF Accounted
  <1> QED
    BY <1>1, InitType, StepType, InitRider, RiderStep, PTL DEF Spec, TransitionsAccountedFor
=============================================================================
