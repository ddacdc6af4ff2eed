-------------------------------- MODULE JobLock --------------------------------
(***************************************************************************)
(* distributedScheduler.js: every scheduler process runs a job on its own       *)
(* interval, behind a lock in Redis that lives for two intervals.                *)
(*                                                                           *)
(* A run is one execution of executeJob. Runs of different processes overlap,    *)
(* and so do runs of one process, because setInterval waits for nobody. The       *)
(* value of the lock names the run. Without Redis (not in production, says the    *)
(* code) there is no lock at all; that is not modelled.                           *)
(***************************************************************************)
EXTENDS Integers, FiniteSets

CONSTANTS
  Runs,
  MaxExpired     \* locks that expire before they are given back

ASSUME RunsAssumption ==
  /\ IsFiniteSet(Runs) /\ "none" \notin Runs
  /\ MaxExpired \in Nat

VARIABLES
  lock,     \* the run that the lock in Redis names, or "none"
  pc,       \* what each run does next
  expired

vars == <<lock, pc, expired>>

Init ==
  /\ lock = "none"
  /\ pc = [r \in Runs |-> "idle"]
  /\ expired = 0

Goes(r, step) == pc' = [pc EXCEPT ![r] = step]

\* Mutant: SET without NX.
AcquireTaken(r) ==
  /\ pc[r] = "idle"
  /\ lock' = r
  /\ Goes(r, "run")
  /\ UNCHANGED expired

\* acquireLock: SET NX PX. A run that does not get the lock returns.
Acquire(r) ==
  /\ pc[r] = "idle" /\ lock = "none"
  /\ lock' = r
  /\ Goes(r, "run")
  /\ UNCHANGED expired

\* The handler returns.
Finish(r) ==
  /\ pc[r] = "run"
  /\ Goes(r, "read")
  /\ UNCHANGED <<lock, expired>>

\* releaseLock, first half: whose lock is it?
ReadLock(r) ==
  /\ pc[r] = "read"
  /\ Goes(r, IF lock = r THEN "delete" ELSE "idle")
  /\ UNCHANGED <<lock, expired>>

\* releaseLock, second half.
DeleteLock(r) ==
  /\ pc[r] = "delete"
  /\ lock' = "none"
  /\ Goes(r, "idle")
  /\ UNCHANGED expired

\* The handler throws, Redis refuses, or the process dies: the lock stays.
Fails(r) ==
  /\ pc[r] # "idle"
  /\ Goes(r, "idle")
  /\ UNCHANGED <<lock, expired>>

\* Mutant: SET without PX.
LivesForEver == FALSE /\ UNCHANGED vars

\* Two intervals are over. Only the expiry under a run that has not finished
\* counts: the other is what the expiry is for.
Expires ==
  /\ lock # "none"
  /\ lock' = "none"
  /\ IF pc[lock] = "idle" THEN UNCHANGED expired
     ELSE expired < MaxExpired /\ expired' = expired + 1
  /\ UNCHANGED pc

Step(r) == Finish(r) \/ ReadLock(r) \/ DeleteLock(r)

Next ==
  \/ \E r \in Runs : Acquire(r) \/ Step(r) \/ Fails(r)
  \/ Expires

Spec == Init /\ [][Next]_vars

\* Intervals fire, handlers end, and time passes.
Fairness ==
  /\ \A r \in Runs : WF_vars(Acquire(r)) /\ WF_vars(Step(r) \/ Fails(r))
  /\ WF_vars(Expires)

FairSpec == Spec /\ Fairness

(***************************************************************************)
(* Properties.                                                               *)
(***************************************************************************)
\* Every variable holds a value of its type.
TypeOK ==
  /\ lock \in Runs \cup {"none"}
  /\ pc \in [Runs -> {"idle", "run", "read", "delete"}]
  /\ expired \in 0..MaxExpired

Running == {r \in Runs : pc[r] = "run"}

\* Every lock that expires too early lets in one run more, and no other way leads
\* there: not a late release, a failed handler or a dead process.
OverlapNeedsExpiry == Cardinality(Running) <= 1 + expired

\* However many runs fail, the job is run again and again.
JobRunsAgain == []<>(Running # {})

\* A job is executed by one instance at a time.
SingleExecution == Cardinality(Running) <= 1

\* A run deletes the lock only if it is its own.
OnlyOwnLockDeleted ==
  [][\A r \in Runs : DeleteLock(r) => lock = r]_vars
================================================================================
