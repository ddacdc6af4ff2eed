----------------------------- MODULE JobLockProofs -----------------------------
(***************************************************************************)
(* Proofs about JobLock, for any finite number of runs and of early expiries.  *)
(***************************************************************************)
EXTENDS JobLock, FiniteSetTheorems, TLAPS

(***************************************************************************)
(* Counting.                                                                 *)
(***************************************************************************)
LEMMA OneMore ==
  ASSUME NEW S, IsFiniteSet(S), NEW x, NEW T, T \subseteq S \cup {x}
  PROVE  Cardinality(T) <= Cardinality(S) + 1
<1>1. IsFiniteSet(S \cup {x}) /\ Cardinality(S \cup {x}) \in {Cardinality(S), Cardinality(S) + 1}
  BY FS_AddElement
<1>2. IsFiniteSet(T) /\ Cardinality(T) <= Cardinality(S \cup {x})
  BY <1>1, FS_Subset
<1>3. Cardinality(S) \in Nat /\ Cardinality(T) \in Nat
  BY <1>2, FS_CardinalityType
<1> QED
  BY <1>1, <1>2, <1>3

LEMMA OneForAnother ==
  ASSUME NEW S, IsFiniteSet(S), NEW x \in S, NEW y, NEW T, T \subseteq (S \ {x}) \cup {y}
  PROVE  Cardinality(T) <= Cardinality(S)
<1>1. IsFiniteSet(S \ {x}) /\ Cardinality(S \ {x}) = Cardinality(S) - 1
  BY FS_RemoveElement
<1>2. Cardinality(T) <= Cardinality(S \ {x}) + 1
  BY <1>1, OneMore
<1>3. Cardinality(S) \in Nat /\ Cardinality(T) \in Nat
  <2>1. IsFiniteSet((S \ {x}) \cup {y})
    BY <1>1, FS_AddElement
  <2>2. IsFiniteSet(T)
    BY <2>1, FS_Subset
  <2> QED
    BY <2>2, FS_CardinalityType
<1> QED
  BY <1>1, <1>2, <1>3

(***************************************************************************)
(* Types.                                                                    *)
(***************************************************************************)
\* The lock names a run, every run is at a step of executeJob, and no more locks
\* expire early than is assumed.
THEOREM TypeCorrect == Spec => []TypeOK
<1>1. Init => TypeOK
  BY RunsAssumption DEF Init, TypeOK
<1>2. TypeOK /\ [Next]_vars => TypeOK'
  <2> SUFFICES ASSUME TypeOK, [Next]_vars PROVE TypeOK'
    OBVIOUS
  <2> USE DEF TypeOK, Goes
  <2>1. ASSUME NEW r \in Runs, Acquire(r) \/ Step(r) \/ Fails(r) PROVE TypeOK'
    BY <2>1 DEF Acquire, Step, Finish, ReadLock, DeleteLock, Fails
  <2>2. CASE Expires
    <3>1. CASE pc[lock] = "idle"
      BY <2>2, <3>1 DEF Expires
    <3>2. CASE pc[lock] # "idle"
      BY <2>2, <3>2, RunsAssumption DEF Expires
    <3> QED
      BY <3>1, <3>2
  <2>3. CASE UNCHANGED vars
    BY <2>3 DEF vars
  <2> QED
    BY <2>1, <2>2, <2>3 DEF Next
<1> QED
  BY <1>1, <1>2, PTL DEF Spec

(***************************************************************************)
(* The inductive invariant. A run is loose when it may still do what only the  *)
(* owner of the lock should: execute the job, or delete the lock.              *)
(***************************************************************************)
Loose == {r \in Runs : pc[r] \in {"run", "delete"} /\ lock # r}

\* Each loose run goes back to an early expiry of its own: the deletion of
\* another's lock makes one run loose and ends one that was.
LooseInv == TypeOK /\ Cardinality(Loose) <= expired

LEMMA LooseFinite == IsFiniteSet(Loose) /\ Cardinality(Loose) \in Nat
<1>1. IsFiniteSet(Loose)
  BY RunsAssumption, FS_Subset DEF Loose
<1> QED
  BY <1>1, FS_CardinalityType

LEMMA LooseStep ==
  ASSUME LooseInv, TypeOK', [Next]_vars
  PROVE  LooseInv'
<1> USE DEF LooseInv
<1>0. expired \in Nat /\ expired' \in Nat
  BY RunsAssumption DEF TypeOK
<1>1. ASSUME Loose' \subseteq Loose, expired' = expired PROVE LooseInv'
  <2>1. Cardinality(Loose') <= Cardinality(Loose) /\ Cardinality(Loose') \in Nat
    BY <1>1, LooseFinite, FS_Subset, FS_CardinalityType
  <2> QED
    BY <1>0, <1>1, <2>1, LooseFinite
<1>2. ASSUME NEW r \in Runs, Acquire(r) PROVE LooseInv'
  <2>1. Loose' \subseteq Loose
    BY <1>2, RunsAssumption DEF Acquire, Goes, Loose, TypeOK
  <2> QED
    BY <1>1, <1>2, <2>1 DEF Acquire
<1>3. ASSUME NEW r \in Runs, Finish(r) \/ ReadLock(r) \/ Fails(r) PROVE LooseInv'
  <2>1. Loose' \subseteq Loose
    BY <1>3 DEF Finish, ReadLock, Fails, Goes, Loose, TypeOK
  <2> QED
    BY <1>1, <1>3, <2>1 DEF Finish, ReadLock, Fails
<1>4. ASSUME NEW r \in Runs, DeleteLock(r) PROVE LooseInv'
  <2>1. CASE lock = r
    <3>1. Loose' \subseteq Loose
      BY <1>4, <2>1, RunsAssumption DEF DeleteLock, Goes, Loose, TypeOK
    <3> QED
      BY <1>1, <1>4, <3>1 DEF DeleteLock
  <2>2. CASE lock # r
    <3>1. r \in Loose
      BY <1>4, <2>2 DEF DeleteLock, Loose
    <3>2. Loose' \subseteq (Loose \ {r}) \cup {lock}
      BY <1>4, <2>2 DEF DeleteLock, Goes, Loose, TypeOK
    <3>3. Cardinality(Loose') <= Cardinality(Loose)
      BY <3>1, <3>2, LooseFinite, OneForAnother
    <3>4. Cardinality(Loose') \in Nat
      <4>1. IsFiniteSet((Loose \ {r}) \cup {lock})
        BY LooseFinite, FS_Subset, FS_AddElement
      <4> QED
        BY <3>2, <4>1, FS_Subset, FS_CardinalityType
    <3> QED
      BY <1>0, <1>4, <3>3, <3>4, LooseFinite DEF DeleteLock
  <2> QED
    BY <2>1, <2>2
<1>5. CASE Expires
  <2>1. CASE pc[lock] = "idle"
    <3>1. Loose' \subseteq Loose
      BY <1>5, <2>1 DEF Expires, Loose, TypeOK
    <3> QED
      BY <1>1, <1>5, <2>1, <3>1 DEF Expires
  <2>2. CASE pc[lock] # "idle"
    <3>1. Loose' \subseteq Loose \cup {lock}
      BY <1>5 DEF Expires, Loose, TypeOK
    <3>2. Cardinality(Loose') <= Cardinality(Loose) + 1
      BY <3>1, LooseFinite, OneMore
    <3>3. IsFiniteSet(Loose \cup {lock})
      BY LooseFinite, FS_AddElement
    <3>4. Cardinality(Loose') \in Nat
      BY <3>1, <3>3, FS_Subset, FS_CardinalityType
    <3>5. expired' = expired + 1
      BY <1>5, <2>2 DEF Expires
    <3> QED
      BY <1>0, <3>2, <3>4, <3>5, LooseFinite
  <2> QED
    BY <2>1, <2>2
<1>6. CASE UNCHANGED vars
  BY <1>1, <1>6 DEF vars, Loose
<1> QED
  BY <1>2, <1>3, <1>4, <1>5, <1>6 DEF Next, Step

\* distributedScheduler runs a job twice at a time only as often as a lock has
\* expired under a run: neither a late deletion nor a failed handler adds to it.
THEOREM OverlapCorrect == Spec => []OverlapNeedsExpiry
<1>1. Init => LooseInv
  <2>1. ASSUME Init PROVE Loose = {}
    BY <2>1 DEF Init, Loose
  <2> QED
    BY <2>1, RunsAssumption, FS_EmptySet DEF Init, LooseInv, TypeOK
<1>2. LooseInv => OverlapNeedsExpiry
  <2> SUFFICES ASSUME LooseInv PROVE OverlapNeedsExpiry
    OBVIOUS
  <2>1. Running \subseteq Loose \cup {lock}
    BY DEF Running, Loose
  <2>2. Cardinality(Running) <= Cardinality(Loose) + 1
    BY <2>1, LooseFinite, OneMore
  <2>3. IsFiniteSet(Running)
    BY RunsAssumption, FS_Subset DEF Running
  <2>4. Cardinality(Running) \in Nat /\ expired \in Nat
    BY <2>3, FS_CardinalityType, RunsAssumption DEF LooseInv, TypeOK
  <2> QED
    BY <2>2, <2>4, LooseFinite DEF LooseInv, OverlapNeedsExpiry
<1> QED
  BY <1>1, <1>2, TypeCorrect, LooseStep, PTL DEF Spec
================================================================================
