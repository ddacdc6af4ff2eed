--------------------------- MODULE CheckoutProofs ----------------------------
(***************************************************************************)
(* Proofs about Checkout, for every number of requests, keys and baskets,    *)
(* every stock and wallet, and every number of faults, early lock expiries    *)
(* and expired records.                                                       *)
(***************************************************************************)
EXTENDS Checkout, FiniteSetTheorems, TLAPS

(***************************************************************************)
(* Types.                                                                    *)
(***************************************************************************)
LEMMA NewRequestType ==
  ASSUME NEW k \in Keys \cup {NoKey}, NEW b \in Baskets, NEW n \in 0..MaxRetries
  PROVE  /\ NewRequest(k, b) \in Request
         /\ [NewRequest(k, b) EXCEPT !.tries = n] \in Request
         /\ [NewRequest(k, b) EXCEPT !.pc = "idle"] \in Request
<1>1. NewRequest(k, b) \in Request
  BY BoundAssumption DEF NewRequest, Request, Steps, Failures, Answers
<1>2. [NewRequest(k, b) EXCEPT !.tries = n] \in Request
  BY <1>1 DEF Request
<1>3. [NewRequest(k, b) EXCEPT !.pc = "idle"] \in Request
  BY <1>1 DEF Request, Steps
<1> QED
  BY <1>1, <1>2, <1>3

LEMMA TypeInit == Init => TypeOK
<1> SUFFICES ASSUME Init PROVE TypeOK
  OBVIOUS
<1>1. req \in [Requests -> Request]
  <2>1. PICK basket \in [Requests -> Baskets] :
          req = [r \in Requests |-> [NewRequest(NoKey, basket[r]) EXCEPT !.pc = "idle"]]
    BY DEF Init
  <2>2. ASSUME NEW r \in Requests
        PROVE  [NewRequest(NoKey, basket[r]) EXCEPT !.pc = "idle"] \in Request
    <3>1. basket[r] \in Baskets /\ 0 \in 0..MaxRetries
      BY BoundAssumption
    <3> QED
      BY <3>1, NewRequestType
  <2> QED
    BY <2>1, <2>2
<1> QED
  BY <1>1, StockAssumption, BoundAssumption DEF Init, TypeOK

\* A request record keeps its type when fields are overwritten.
LEMMA Updates ==
  ASSUME NEW q \in Request, NEW p \in Steps, NEW a \in Answers,
         NEW o \in Baskets \cup {None}, NEW w \in Failures,
         NEW v \in {"result", "error"}, NEW e \in BOOLEAN, NEW t \in BOOLEAN
  PROVE  /\ [q EXCEPT !.pc = p] \in Request
         /\ [q EXCEPT !.pc = p, !.answer = a, !.order = o] \in Request
         /\ [q EXCEPT !.pc = p, !.saves = v, !.answer = a, !.order = o] \in Request
         /\ [q EXCEPT !.pc = p, !.stale = t, !.enough = e] \in Request
         /\ [q EXCEPT !.stale = t] \in Request
         /\ Placed(q) \in Request
         /\ Failed(q, w) \in Request
<1>1. [q EXCEPT !.pc = p] \in Request
  BY DEF Request
<1>2. [q EXCEPT !.pc = p, !.answer = a, !.order = o] \in Request
  BY DEF Request
<1>3. [q EXCEPT !.pc = p, !.saves = v, !.answer = a, !.order = o] \in Request
  BY DEF Request
<1>4. [q EXCEPT !.pc = p, !.stale = t, !.enough = e] \in Request
  BY DEF Request
<1>5. [q EXCEPT !.stale = t] \in Request
  BY DEF Request
<1>6. Placed(q) \in Request
  BY DEF Request, Placed, Steps, Answers
<1>7. Failed(q, w) \in Request
  BY DEF Request, Failed, Steps, Answers
<1> QED
  BY <1>1, <1>2, <1>3, <1>4, <1>5, <1>6, <1>7

LEMMA Effects ==
  ASSUME TypeOK, NEW r \in Requests, NEW q \in Request, Becomes(r, q)
  PROVE  /\ req' \in [Requests -> Request]
         /\ req'[r] = q
         /\ \A p \in Requests : p # r => req'[p] = req[p]
BY DEF TypeOK, Becomes

\* The fields of a request.
LEMMA Fields ==
  ASSUME TypeOK, NEW r \in Requests
  PROVE  /\ req[r] \in Request
         /\ Key(r) \in Keys \cup {NoKey}
         /\ req[r].key = Key(r)
         /\ req[r].basket \in Baskets
         /\ req[r].order \in Baskets \cup {None}
         /\ req[r].tries \in 0..MaxRetries
BY DEF TypeOK, Request, Key

(***************************************************************************)
(* The inductive invariant: what is true of each request, and of the orders  *)
(* that MongoDB and Redis hold.                                               *)
(***************************************************************************)
\* The steps a request takes before its transaction is decided.
Early == {"idle", "check", "lock", "find", "begin", "commit"}

Bought(r) == \E s \in sold : s.by = r

\* Only a request with a key comes to Redis and to the look for its order.
Keyed(q) == q.pc \in {"check", "lock", "find", "store"} => q.key \in Keys

\* Nothing is known to an undecided request of how it will end.
Undecided(q) ==
  q.pc \in Early => q.why = "no" /\ q.saves = "result" /\ q.answer = "none"

\* What an open transaction read still holds unless it is marked as stale.
Fresh(q) ==
  q.pc = "commit" /\ q.enough /\ ~q.stale => stock > 0 /\ money > 0

\* A request that placed an order is past its transaction and has not failed.
GoesOn(q) ==
  q.pc \in {"store", "unlock", "done"} /\ q.why = "no" /\ q.saves = "result"

\* An answer tells of an order that was placed, and only such an answer is cached.
Truthful(r, q) ==
  /\ q.answer = "placed" => \E s \in sold : s.by = r /\ s.key = q.key
  /\ q.answer = "duplicate" => q.key \in Keys /\ OrdersUnder(q.key) # {}
  /\ q.pc = "store" /\ q.saves = "result" => q.answer \in Good

Fits(r, q) ==
  /\ Keyed(q)
  /\ Undecided(q)
  /\ Fresh(q)
  /\ Bought(r) => GoesOn(q)
  /\ Truthful(r, q)

Inv ==
  /\ TypeOK
  /\ NeverOversold
  /\ \A k \in Keys : group[k] # None => OrdersUnder(k) # {}
  /\ \A k \in Keys : result[k] # None => OrdersUnder(k) # {}
  /\ \A r \in Requests : Fits(r, req[r])

LEMMA InvInit == Init => Inv
<1> SUFFICES ASSUME Init PROVE Inv
  OBVIOUS
<1>1. PICK basket \in [Requests -> Baskets] :
        req = [r \in Requests |-> [NewRequest(NoKey, basket[r]) EXCEPT !.pc = "idle"]]
  BY DEF Init
<1>2. ASSUME NEW r \in Requests PROVE Fits(r, req[r])
  <2>1. /\ req[r].pc = "idle" /\ req[r].why = "no"
        /\ req[r].saves = "result" /\ req[r].answer = "none"
    BY <1>1 DEF NewRequest
  <2> QED
    BY <2>1 DEF Init, Fits, Keyed, Undecided, Fresh, Bought, Truthful
<1>3. /\ stock \in Nat /\ money \in Nat
      /\ \A k \in Keys : group[k] = None /\ result[k] = None
  BY StockAssumption DEF Init
<1>4. NeverOversold
  BY <1>3 DEF NeverOversold
<1> QED
  BY <1>2, <1>3, <1>4, TypeInit DEF Inv

\* The types of everything but the requests.
StoreTypes ==
  /\ stock \in Int /\ money \in Int
  /\ group \in [Keys -> Baskets \cup {None}]
  /\ sold \subseteq [by : Requests, key : Keys \cup {NoKey}, basket : Baskets]
  /\ started \subseteq Requests
  /\ lock \in [Keys -> Requests \cup {None}]
  /\ result \in [Keys -> [order : Baskets \cup {None}, sum : Baskets] \cup {None}]
  /\ error \in [Keys -> Baskets \cup {None}]
  /\ faults \in 0..MaxFaults /\ slow \in 0..MaxSlow /\ days \in 0..MaxDays

\* A step that places no order: one request moves to a record that fits.
LEMMA OneMoves ==
  ASSUME Inv, UNCHANGED <<stock, money, sold>>, StoreTypes',
         NEW r \in Requests, NEW q \in Request, Becomes(r, q), Fits(r, q),
         \A k \in Keys : group'[k] # None => OrdersUnder(k) # {},
         \A k \in Keys : result'[k] # None => OrdersUnder(k) # {}
  PROVE  Inv'
<1>1. TypeOK'
  BY Effects DEF Inv, StoreTypes, TypeOK
<1>2. NeverOversold' /\ \A k \in Keys : OrdersUnder(k)' = OrdersUnder(k)
  BY DEF Inv, NeverOversold, OrdersUnder
<1>3. ASSUME NEW p \in Requests PROVE Fits(p, req[p])'
  <2>1. Fits(p, req'[p])
    BY Effects DEF Inv
  <2> QED
    BY <1>2, <2>1 DEF Fits, Keyed, Undecided, Fresh, Bought, GoesOn, Truthful, OrdersUnder
<1> QED
  BY <1>1, <1>2, <1>3 DEF Inv

\* A step that changes no request and places no order.
LEMMA NoneMoves ==
  ASSUME Inv, UNCHANGED <<stock, money, sold, req>>, StoreTypes',
         \A k \in Keys : group'[k] # None => OrdersUnder(k) # {},
         \A k \in Keys : result'[k] # None => OrdersUnder(k) # {}
  PROVE  Inv'
<1>1. TypeOK'
  BY DEF Inv, StoreTypes, TypeOK
<1>2. NeverOversold' /\ \A k \in Keys : OrdersUnder(k)' = OrdersUnder(k)
  BY DEF Inv, NeverOversold, OrdersUnder
<1>3. ASSUME NEW p \in Requests PROVE Fits(p, req[p])'
  BY <1>2 DEF Inv, Fits, Keyed, Undecided, Fresh, Bought, GoesOn, Truthful, OrdersUnder
<1> QED
  BY <1>1, <1>2, <1>3 DEF Inv

LEMMA QuietTypes ==
  ASSUME TypeOK, UNCHANGED <<store, started, redis, bounds>>
  PROVE  StoreTypes'
BY DEF TypeOK, StoreTypes, store, redis, bounds

\* A step of one request that changes nothing but that request.
LEMMA OnlyOneMoves ==
  ASSUME Inv, UNCHANGED <<store, started, redis, bounds>>,
         NEW r \in Requests, NEW q \in Request, Becomes(r, q), Fits(r, q)
  PROVE  Inv'
<1>1. /\ UNCHANGED <<stock, money, sold>>
      /\ \A k \in Keys : group'[k] # None => OrdersUnder(k) # {}
      /\ \A k \in Keys : result'[k] # None => OrdersUnder(k) # {}
  BY DEF Inv, store, redis
<1>2. StoreTypes'
  BY QuietTypes DEF Inv
<1> QED
  BY <1>1, <1>2, OneMoves

LEMMA ArriveStep ==
  ASSUME Inv, NEW r \in Requests, Arrive(r)
  PROVE  Inv'
<1>1. PICK k \in Keys \cup {NoKey} : Becomes(r, NewRequest(k, req[r].basket))
  BY DEF Arrive
<1> DEFINE q == NewRequest(k, req[r].basket)
<1>2. q \in Request
  <2>1. req[r].basket \in Baskets /\ 0 \in 0..MaxRetries
    BY Fields, BoundAssumption DEF Inv
  <2> QED
    BY <2>1, NewRequestType
<1>3. ~Bought(r)
  BY DEF Arrive, At, Inv, Fits, GoesOn
<1>4. Fits(r, q)
  BY <1>3, NoKeyAssumption DEF NewRequest, Fits, Keyed, Undecided, Fresh, Truthful
<1> QED
  BY <1>1, <1>2, <1>4, OnlyOneMoves DEF Arrive

\* A request that is answered at its first look at Redis, or breaks off.
LEMMA RepliesFits ==
  ASSUME Inv, NEW r \in Requests, NEW a \in Answers, NEW o \in Baskets \cup {None},
         Bought(r) => GoesOn(req[r]),
         a # "placed",
         a = "duplicate" => Key(r) \in Keys /\ OrdersUnder(Key(r)) # {}
  PROVE  LET q == [req[r] EXCEPT !.pc = "done", !.answer = a, !.order = o]
         IN  q \in Request /\ Fits(r, q)
<1> DEFINE q == [req[r] EXCEPT !.pc = "done", !.answer = a, !.order = o]
<1>1. req[r] \in Request /\ req[r].key = Key(r)
  BY Fields DEF Inv
<1>2. q \in Request
  BY <1>1, Updates DEF Steps, Failures
<1>3. /\ q.pc = "done" /\ q.answer = a /\ q.key = req[r].key
      /\ q.why = req[r].why /\ q.saves = req[r].saves
  BY <1>1 DEF Request
<1>4. Fits(r, q)
  BY <1>1, <1>3 DEF Fits, Keyed, Undecided, Fresh, GoesOn, Truthful, Early
<1> QED
  BY <1>2, <1>4

\* A request that goes on in the same state of knowledge.
LEMMA GoesFits ==
  ASSUME Inv, NEW r \in Requests, NEW p \in Steps \ {"commit"},
         p \in {"check", "lock", "find", "store"} => Key(r) \in Keys,
         p \in Early => req[r].pc \in Early,
         Bought(r) => p \in {"store", "unlock", "done"},
         p = "store" => req[r].pc = "store"
  PROVE  [req[r] EXCEPT !.pc = p] \in Request /\ Fits(r, [req[r] EXCEPT !.pc = p])
<1> DEFINE q == [req[r] EXCEPT !.pc = p]
<1>1. req[r] \in Request /\ req[r].key = Key(r) /\ Fits(r, req[r])
  BY Fields DEF Inv
<1>2. q \in Request
  BY <1>1 DEF Request
<1>3. /\ q.pc = p /\ q.answer = req[r].answer /\ q.key = req[r].key
      /\ q.why = req[r].why /\ q.saves = req[r].saves
  BY <1>1 DEF Request
<1>4. Fits(r, q)
  BY <1>1, <1>3 DEF Fits, Keyed, Undecided, Fresh, GoesOn, Truthful
<1> QED
  BY <1>2, <1>4

LEMMA CheckStep ==
  ASSUME Inv, NEW r \in Requests, Check(r)
  PROVE  Inv'
<1>1. /\ Key(r) \in Keys /\ Key(r) = req[r].key /\ ~Bought(r)
      /\ req[r].pc = "check" /\ UNCHANGED <<store, started, redis, bounds>>
  BY DEF Check, At, Inv, Fits, Keyed, GoesOn, Key
<1>2. ASSUME NEW a \in Answers, NEW o \in Baskets \cup {None}, Replies(r, a, o),
             a # "placed", a = "duplicate" => result[Key(r)] # None
      PROVE  Inv'
  <2>1. a = "duplicate" => Key(r) \in Keys /\ OrdersUnder(Key(r)) # {}
    BY <1>1, <1>2 DEF Inv
  <2> DEFINE q == [req[r] EXCEPT !.pc = "done", !.answer = a, !.order = o]
  <2>2. q \in Request /\ Fits(r, q)
    BY <1>1, <1>2, <2>1, RepliesFits
  <2>3. Becomes(r, q)
    BY <1>2 DEF Replies
  <2> HIDE DEF q
  <2> QED
    BY <1>1, <2>2, <2>3, OnlyOneMoves
<1>3. ASSUME Goes(r, "lock") PROVE Inv'
  BY <1>1, <1>3, GoesFits, OnlyOneMoves DEF Goes, Steps, Early
<1>4. CASE error[Key(r)] # None
  BY <1>2, <1>4 DEF Check, Answers
<1>5. CASE error[Key(r)] = None /\ result[Key(r)] # None
  <2>1. result[Key(r)].order \in Baskets \cup {None}
    BY <1>1, <1>5 DEF Inv, TypeOK
  <2> QED
    BY <1>2, <1>5, <2>1 DEF Check, Answers
<1>6. CASE error[Key(r)] = None /\ result[Key(r)] = None
  BY <1>2, <1>3, <1>6 DEF Check, Answers
<1> QED
  BY <1>4, <1>5, <1>6

LEMMA TakeLockStep ==
  ASSUME Inv, NEW r \in Requests, TakeLock(r)
  PROVE  Inv'
<1>1. /\ Key(r) \in Keys /\ ~Bought(r) /\ req[r].pc = "lock"
  BY DEF TakeLock, At, Inv, Fits, Keyed, GoesOn, Key
<1>2. /\ UNCHANGED <<stock, money, sold>>
      /\ \A k \in Keys : group'[k] # None => OrdersUnder(k) # {}
      /\ \A k \in Keys : result'[k] # None => OrdersUnder(k) # {}
  BY DEF TakeLock, Inv, store
<1>3. StoreTypes'
  BY <1>1 DEF TakeLock, Inv, TypeOK, StoreTypes, store, bounds
<1>4. CASE Goes(r, "find")
  <2> DEFINE q == [req[r] EXCEPT !.pc = "find"]
  <2>1. q \in Request /\ Fits(r, q)
    BY <1>1, GoesFits DEF Steps, Early
  <2>2. Becomes(r, q)
    BY <1>4 DEF Goes
  <2> HIDE DEF q
  <2> QED
    BY <1>2, <1>3, <2>1, <2>2, OneMoves
<1>5. CASE Replies(r, "busy", None)
  <2> DEFINE q == [req[r] EXCEPT !.pc = "done", !.answer = "busy", !.order = None]
  <2>1. q \in Request /\ Fits(r, q)
    BY <1>1, RepliesFits DEF Answers
  <2>2. Becomes(r, q)
    BY <1>5 DEF Replies
  <2> HIDE DEF q
  <2> QED
    BY <1>2, <1>3, <2>1, <2>2, OneMoves
<1> QED
  BY <1>4, <1>5 DEF TakeLock

\* The order that was found becomes the answer.
LEMMA FoundStep ==
  ASSUME Inv, NEW r \in Requests, Key(r) \in Keys, group[Key(r)] # None,
         ~Bought(r), FoundDuplicate(r), UNCHANGED <<store, started, redis, bounds>>
  PROVE  Inv'
<1> DEFINE q == [req[r] EXCEPT !.pc = "store", !.saves = "result",
                               !.answer = "duplicate", !.order = group[Key(r)]]
<1>1. req[r] \in Request /\ req[r].key = Key(r) /\ group[Key(r)] \in Baskets \cup {None}
  BY Fields DEF Inv, TypeOK
<1>2. q \in Request
  <2>1. "store" \in Steps /\ "duplicate" \in Answers /\ "no" \in Failures
    BY DEF Steps, Answers, Failures
  <2> QED
    BY <1>1, <2>1, Updates
<1>3. /\ q.pc = "store" /\ q.answer = "duplicate" /\ q.key = req[r].key
  BY <1>1 DEF Request
<1>4. OrdersUnder(Key(r)) # {}
  BY DEF Inv
<1>5. Fits(r, q)
  BY <1>1, <1>3, <1>4 DEF Fits, Keyed, Undecided, Fresh, Truthful, Early, Good
<1>6. Becomes(r, q)
  BY DEF FoundDuplicate
<1> HIDE DEF q
<1> QED
  BY <1>2, <1>5, <1>6, OnlyOneMoves

LEMMA FindExistingStep ==
  ASSUME Inv, NEW r \in Requests, FindExisting(r)
  PROVE  Inv'
<1>1. /\ Key(r) \in Keys /\ ~Bought(r) /\ req[r].pc = "find"
      /\ UNCHANGED <<store, started, redis, bounds>>
  BY DEF FindExisting, At, Inv, Fits, Keyed, GoesOn, Key
<1>2. CASE group[Key(r)] # None
  BY <1>1, <1>2, FoundStep DEF FindExisting
<1>3. CASE Goes(r, "begin")
  BY <1>1, <1>3, GoesFits, OnlyOneMoves DEF Goes, Steps, Early
<1> QED
  BY <1>2, <1>3 DEF FindExisting

LEMMA BeginStep ==
  ASSUME Inv, NEW r \in Requests, Begin(r)
  PROVE  Inv'
<1> DEFINE q == [req[r] EXCEPT !.pc = "commit", !.stale = FALSE,
                               !.enough = stock > 0 /\ money > 0]
<1>1. req[r] \in Request /\ req[r].key = Key(r) /\ Fits(r, req[r]) /\ req[r].pc = "begin"
  BY Fields DEF Inv, Begin, At
<1>2. (stock > 0 /\ money > 0) \in BOOLEAN
  OBVIOUS
<1>3. q \in Request
  BY <1>1, <1>2 DEF Request, Steps
<1>4. /\ q.pc = "commit" /\ q.answer = req[r].answer /\ q.why = req[r].why
      /\ q.saves = req[r].saves /\ q.enough = (stock > 0 /\ money > 0)
  BY <1>1 DEF Request
<1>5. Fits(r, q)
  BY <1>1, <1>4 DEF Fits, Keyed, Undecided, Fresh, GoesOn, Truthful, Early
<1>6. Becomes(r, q)
  BY DEF Begin
<1> HIDE DEF q
<1> QED
  BY <1>3, <1>5, <1>6, OnlyOneMoves DEF Begin

LEMMA AbortStep ==
  ASSUME Inv, NEW r \in Requests, Abort(r)
  PROVE  Inv'
<1>1. PICK why \in Failures : Becomes(r, Failed(req[r], why))
  BY DEF Abort
<1> DEFINE q == Failed(req[r], why)
<1>2. /\ req[r] \in Request /\ req[r].key = Key(r) /\ Key(r) \in Keys \cup {NoKey}
      /\ Fits(r, req[r]) /\ req[r].pc = "commit"
  BY Fields DEF Inv, Abort, InTransaction, At
<1>3. q \in Request
  BY <1>2 DEF Request, Failed, Steps, Answers
<1>4. /\ q.pc \in {"store", "unlock"} /\ (q.pc = "store" => q.key # NoKey)
      /\ q.answer = "error" /\ q.saves = "error" /\ q.key = req[r].key
  BY <1>2 DEF Request, Failed
<1>5. ~Bought(r)
  BY <1>2 DEF Fits, GoesOn
<1>6. Fits(r, q)
  BY <1>2, <1>4, <1>5 DEF Fits, Keyed, Undecided, Fresh, Truthful, Early
<1>7. Becomes(r, q) /\ UNCHANGED <<store, started, redis, bounds>>
  BY <1>1 DEF Abort
<1> HIDE DEF q
<1> QED
  BY <1>3, <1>6, <1>7, OnlyOneMoves

LEMMA CacheStep ==
  ASSUME Inv, NEW r \in Requests, Cache(r)
  PROVE  Inv'
<1>1. /\ Key(r) \in Keys /\ Key(r) = req[r].key /\ req[r].pc = "store"
      /\ req[r].basket \in Baskets /\ req[r].order \in Baskets \cup {None}
      /\ Goes(r, "unlock")
  BY Fields DEF Cache, At, Inv, Fits, Keyed
<1>2. [req[r] EXCEPT !.pc = "unlock"] \in Request /\ Fits(r, [req[r] EXCEPT !.pc = "unlock"])
  BY <1>1, GoesFits DEF Steps, Early
<1>3. Becomes(r, [req[r] EXCEPT !.pc = "unlock"])
  BY <1>1 DEF Goes
<1>4. UNCHANGED <<stock, money, sold>> /\ \A k \in Keys : group'[k] # None => OrdersUnder(k) # {}
  BY DEF Cache, store, Inv
<1>5. CASE req[r].saves = "result"
  <2>1. OrdersUnder(Key(r)) # {}
    BY <1>1, <1>5 DEF Inv, Fits, Truthful, Good, OrdersUnder
  <2>2. result' = [result EXCEPT ![Key(r)] = [order |-> req[r].order, sum |-> req[r].basket]]
    BY <1>5 DEF Cache
  <2>3. \A k \in Keys : result'[k] # None => OrdersUnder(k) # {}
    BY <2>1, <2>2 DEF Inv, TypeOK
  <2>4. StoreTypes'
    BY <1>1, <1>5, <2>2 DEF Cache, Inv, TypeOK, StoreTypes, store, bounds
  <2> QED
    BY <1>2, <1>3, <1>4, <2>3, <2>4, OneMoves
<1>6. CASE req[r].saves # "result"
  <2>1. \A k \in Keys : result'[k] # None => OrdersUnder(k) # {}
    BY <1>6 DEF Inv, Cache
  <2>2. StoreTypes'
    BY <1>1, <1>6 DEF Cache, Inv, TypeOK, StoreTypes, store, bounds
  <2> QED
    BY <1>2, <1>3, <1>4, <2>1, <2>2, OneMoves
<1> QED
  BY <1>5, <1>6

LEMMA UnlockStep ==
  ASSUME Inv, NEW r \in Requests, Unlock(r)
  PROVE  Inv'
<1>1. req[r].pc = "unlock" /\ Fits(r, req[r])
  BY DEF Unlock, At, Inv
<1>2. PICK p \in {"lookup", "done"} :
        Goes(r, p) /\ (p = "lookup" => req[r].why \in Duplicated)
  BY DEF Unlock
<1>3. Bought(r) => p = "done"
  BY <1>1, <1>2 DEF Fits, GoesOn, Duplicated
<1>4. /\ [req[r] EXCEPT !.pc = p] \in Request
      /\ Fits(r, [req[r] EXCEPT !.pc = p])
  BY <1>3, GoesFits DEF Steps, Early
<1>5. Becomes(r, [req[r] EXCEPT !.pc = p])
  BY <1>2 DEF Goes
<1>6. /\ UNCHANGED <<stock, money, sold>>
      /\ \A k \in Keys : group'[k] # None => OrdersUnder(k) # {}
      /\ \A k \in Keys : result'[k] # None => OrdersUnder(k) # {}
  BY DEF Unlock, Inv, store
<1>7. StoreTypes'
  BY DEF Unlock, DropsLock, Inv, TypeOK, StoreTypes, store, bounds
<1> QED
  BY <1>4, <1>5, <1>6, <1>7, OneMoves

LEMMA LookupStep ==
  ASSUME Inv, NEW r \in Requests, Lookup(r)
  PROVE  Inv'
<1>1. /\ req[r].pc = "lookup" /\ Fits(r, req[r]) /\ ~Bought(r)
      /\ UNCHANGED <<store, started, redis, bounds>>
      /\ Key(r) \in Keys \cup {NoKey} /\ req[r].basket \in Baskets
      /\ req[r].tries \in 0..MaxRetries
  BY Fields DEF Lookup, At, Inv, Fits, GoesOn
<1>2. CASE Key(r) # NoKey /\ ~KeyIsFree(r)
  BY <1>1, <1>2, FoundStep DEF Lookup, KeyIsFree
<1>3. CASE /\ req[r].tries < MaxRetries
           /\ Becomes(r, [NewRequest(Key(r), req[r].basket) EXCEPT !.tries = req[r].tries + 1])
  <2> DEFINE q == [NewRequest(Key(r), req[r].basket) EXCEPT !.tries = req[r].tries + 1]
  <2>1. req[r].tries + 1 \in 0..MaxRetries
    BY <1>1, <1>3, BoundAssumption
  <2>2. q \in Request
    BY <1>1, <2>1, NewRequestType
  <2>3. Fits(r, q)
    BY <1>1, NoKeyAssumption DEF NewRequest, Fits, Keyed, Undecided, Fresh, Truthful
  <2> HIDE DEF q
  <2> QED
    BY <1>1, <1>3, <2>2, <2>3, OnlyOneMoves DEF q
<1>4. CASE Replies(r, "error", None)
  <2>1. /\ [req[r] EXCEPT !.pc = "done", !.answer = "error", !.order = None] \in Request
        /\ Fits(r, [req[r] EXCEPT !.pc = "done", !.answer = "error", !.order = None])
    BY <1>1, RepliesFits DEF Answers
  <2> QED
    BY <1>1, <1>4, <2>1, OnlyOneMoves DEF Replies
<1> QED
  BY <1>2, <1>3, <1>4 DEF Lookup

LEMMA BreaksStep ==
  ASSUME Inv, NEW r \in Requests, Breaks(r)
  PROVE  Inv'
<1>1. Fits(r, req[r])
  BY DEF Inv
<1>2. /\ [req[r] EXCEPT !.pc = "done", !.answer = "broken", !.order = None] \in Request
      /\ Fits(r, [req[r] EXCEPT !.pc = "done", !.answer = "broken", !.order = None])
  BY <1>1, RepliesFits DEF Answers, Fits
<1>3. /\ UNCHANGED <<stock, money, sold>>
      /\ \A k \in Keys : group'[k] # None => OrdersUnder(k) # {}
      /\ \A k \in Keys : result'[k] # None => OrdersUnder(k) # {}
  BY DEF Breaks, Inv, store, redis
<1>4. StoreTypes'
  BY BoundAssumption DEF Breaks, Inv, TypeOK, StoreTypes, store, redis
<1> QED
  BY <1>2, <1>3, <1>4, OneMoves DEF Breaks, Replies

LEMMA TimeStep ==
  ASSUME Inv, NEW k \in Keys,
         \/ LockExpires(k) \/ LockExpiresEarly(k) \/ ErrorExpires(k)
         \/ ResultExpires(k) \/ RecordExpires(k)
  PROVE  Inv'
<1>1. UNCHANGED <<stock, money, sold, req>>
  BY DEF LockExpires, LockExpiresEarly, ErrorExpires, ResultExpires, RecordExpires, store
<1>2. StoreTypes'
  BY BoundAssumption DEF LockExpires, LockExpiresEarly, ErrorExpires, ResultExpires,
     RecordExpires, Inv, TypeOK, StoreTypes, store, redis, bounds
<1>3. \A j \in Keys : group'[j] # None => OrdersUnder(j) # {}
  BY DEF LockExpires, LockExpiresEarly, ErrorExpires, ResultExpires, RecordExpires,
     Inv, TypeOK, store
<1>4. \A j \in Keys : result'[j] # None => OrdersUnder(j) # {}
  BY DEF LockExpires, LockExpiresEarly, ErrorExpires, ResultExpires, RecordExpires,
     Inv, TypeOK, redis
<1> QED
  BY <1>1, <1>2, <1>3, <1>4, NoneMoves

\* The one step that places an order: nobody else's knowledge is harmed, since
\* every other open transaction is marked as stale.
LEMMA CommitStep ==
  ASSUME Inv, NEW r \in Requests, Commit(r)
  PROVE  Inv'
<1>1. /\ req[r] \in Request /\ req[r].key = Key(r) /\ Key(r) \in Keys \cup {NoKey}
      /\ Fits(r, req[r]) /\ req[r].pc = "commit" /\ req[r].basket \in Baskets
  BY Fields DEF Inv, Commit, InTransaction, At
<1>2. stock > 0 /\ money > 0 /\ stock \in Int /\ money \in Int
  BY <1>1 DEF Fits, Fresh, Commit, Inv, TypeOK
<1>3. NeverOversold'
  BY <1>2 DEF Commit, NeverOversold
<1>4. Order(r) \in [by : Requests, key : Keys \cup {NoKey}, basket : Baskets]
  BY <1>1 DEF Order
<1>5. sold' = sold \cup {Order(r)} /\ Order(r).by = r /\ Order(r).key = req[r].key
  BY <1>1 DEF Commit, Order
<1>6. req' = [q \in Requests |->
        IF q = r THEN Placed(req[r])
        ELSE IF InTransaction(q) THEN [req[q] EXCEPT !.stale = TRUE] ELSE req[q]]
  BY DEF Commit, Committed
<1>7. \A q \in Requests : req[q] \in Request /\ [req[q] EXCEPT !.stale = TRUE] \in Request
  <2>1. ASSUME NEW q \in Requests PROVE [req[q] EXCEPT !.stale = TRUE] \in Request
    <3>1. req[q] \in Request
      BY Fields DEF Inv
    <3> QED
      BY <3>1 DEF Request
  <2> QED
    BY <2>1, Fields DEF Inv
<1>8. Placed(req[r]) \in Request
  BY <1>1 DEF Request, Placed, Steps, Answers
<1>9. req' \in [Requests -> Request]
  BY <1>6, <1>7, <1>8
<1>10. TypeOK'
  BY <1>1, <1>2, <1>4, <1>5, <1>9 DEF Commit, Inv, TypeOK, redis, bounds
<1>11. \A k \in Keys : group'[k] # None => OrdersUnder(k)' # {}
  <2> SUFFICES ASSUME NEW k \in Keys, group'[k] # None
               PROVE  \E s \in sold' : s.key = k
    BY DEF OrdersUnder
  <2>1. CASE k = Key(r)
    BY <1>1, <1>5, <2>1
  <2>2. CASE k # Key(r)
    BY <1>5, <2>2 DEF Commit, Inv, OrdersUnder
  <2> QED
    BY <2>1, <2>2
<1>12. \A k \in Keys : result'[k] # None => OrdersUnder(k)' # {}
  BY <1>5 DEF Commit, Inv, OrdersUnder, redis
<1>13. Fits(r, req[r])'
  <2>1. /\ req'[r].pc = (IF req[r].key = NoKey THEN "unlock" ELSE "store")
        /\ req'[r].answer = "placed" /\ req'[r].key = req[r].key
        /\ req'[r].why = req[r].why /\ req'[r].saves = req[r].saves
    BY <1>1, <1>6 DEF Placed, Request
  <2>2. req[r].why = "no" /\ req[r].saves = "result"
    BY <1>1 DEF Fits, Undecided, Early
  <2> QED
    BY <1>1, <1>5, <2>1, <2>2 DEF Fits, Keyed, Undecided, Fresh, GoesOn, Truthful, Early, Good
<1>14. ASSUME NEW p \in Requests, p # r PROVE Fits(p, req[p])'
  <2>1. /\ Fits(p, req[p]) /\ req[p] \in Request
        /\ req'[p] = IF InTransaction(p) THEN [req[p] EXCEPT !.stale = TRUE] ELSE req[p]
    BY <1>6, <1>7, <1>14 DEF Inv
  <2>2. /\ req'[p].pc = req[p].pc /\ req'[p].answer = req[p].answer
        /\ req'[p].why = req[p].why /\ req'[p].saves = req[p].saves
        /\ req'[p].key = req[p].key
        /\ req[p].pc = "commit" => req'[p].stale
    BY <2>1 DEF Request, InTransaction, At
  <2>3. Bought(p)' <=> Bought(p)
    BY <1>5, <1>14 DEF Bought
  <2>4. /\ OrdersUnder(req[p].key) # {} => OrdersUnder(req[p].key)' # {}
        /\ (\E s \in sold : s.by = p /\ s.key = req[p].key)
             => (\E s \in sold' : s.by = p /\ s.key = req[p].key)
    BY <1>5, <2>2 DEF OrdersUnder
  <2>5. Keyed(req[p])' /\ Undecided(req[p])' /\ Fresh(req[p])'
    BY <2>1, <2>2 DEF Fits, Keyed, Undecided, Fresh
  <2>6. Bought(p)' => GoesOn(req[p])'
    BY <2>1, <2>2, <2>3 DEF Fits, GoesOn
  <2>7. Truthful(p, req[p])'
    BY <2>1, <2>2, <2>4 DEF Fits, Truthful, OrdersUnder
  <2> QED
    BY <2>5, <2>6, <2>7 DEF Fits
<1> QED
  BY <1>3, <1>10, <1>11, <1>12, <1>13, <1>14 DEF Inv

LEMMA InvStep == Inv /\ [Next]_vars => Inv'
<1> SUFFICES ASSUME Inv, [Next]_vars PROVE Inv'
  OBVIOUS
<1>1. CASE \E r \in Requests : Arrive(r) \/ RequestStep(r) \/ Breaks(r)
  BY <1>1, ArriveStep, CheckStep, TakeLockStep, FindExistingStep, BeginStep, CommitStep,
     AbortStep, CacheStep, UnlockStep, LookupStep, BreaksStep DEF RequestStep
<1>2. CASE \E k \in Keys : \/ LockExpires(k) \/ LockExpiresEarly(k)
                           \/ ErrorExpires(k) \/ ResultExpires(k) \/ RecordExpires(k)
  BY <1>2, TimeStep
<1>3. CASE UNCHANGED vars
  <2>1. /\ UNCHANGED <<store, started, redis, bounds>>
        /\ UNCHANGED <<stock, money, sold, req>>
        /\ \A k \in Keys : group'[k] # None => OrdersUnder(k) # {}
        /\ \A k \in Keys : result'[k] # None => OrdersUnder(k) # {}
    BY <1>3 DEF vars, store, redis, Inv
  <2> QED
    BY <2>1, QuietTypes, NoneMoves DEF Inv
<1> QED
  BY <1>1, <1>2, <1>3 DEF Next

\* However requests interleave, repeat, break off or lose their lock, every
\* variable keeps its type: no request retries more often than it may.
THEOREM TypeCorrect == Spec => []TypeOK
<1> QED
  BY InvInit, InvStep, PTL DEF Spec, Inv

\* Neither stock nor wallet is ever taken below nothing, for any number of
\* checkouts that checked their snapshots at the same time.
THEOREM NeverOversoldCorrect == Spec => []NeverOversold
<1> QED
  BY InvInit, InvStep, PTL DEF Spec, Inv

\* A request that was told of a failure of its own has placed nothing.
THEOREM ErrorCorrect == Spec => []ErrorMeansNoOrder
<1>1. Inv => ErrorMeansNoOrder
  BY DEF Inv, Fits, Bought, GoesOn, ErrorMeansNoOrder
<1> QED
  BY <1>1, InvInit, InvStep, PTL DEF Spec

(***************************************************************************)
(* One order per key.                                                        *)
(***************************************************************************)
\* Every order under a key but the remembered one needed its record deleted.
Counted ==
  /\ IsFiniteSet(sold)
  /\ \A k \in Keys :
       Cardinality(OrdersUnder(k)) <= days + (IF group[k] = None THEN 0 ELSE 1)

LEMMA CountedInit == Init => Counted
<1> SUFFICES ASSUME Init PROVE Counted
  OBVIOUS
<1>1. sold = {} /\ days = 0 /\ \A k \in Keys : OrdersUnder(k) = {}
  BY DEF Init, OrdersUnder
<1>2. IsFiniteSet(sold) /\ \A k \in Keys : Cardinality(OrdersUnder(k)) = 0
  BY <1>1, FS_EmptySet
<1> QED
  BY <1>1, <1>2 DEF Counted

LEMMA CountedStep == Inv /\ Counted /\ [Next]_vars => Counted'
<1> SUFFICES ASSUME Inv, Counted, [Next]_vars PROVE Counted'
  OBVIOUS
<1>t. /\ days \in Nat
      /\ \A k \in Keys : IsFiniteSet(OrdersUnder(k)) /\ Cardinality(OrdersUnder(k)) \in Nat
  <2>1. \A k \in Keys : OrdersUnder(k) \subseteq sold
    BY DEF OrdersUnder
  <2>2. \A k \in Keys : IsFiniteSet(OrdersUnder(k))
    BY <2>1, FS_Subset DEF Counted
  <2>3. days \in Nat
    BY BoundAssumption DEF Inv, TypeOK
  <2> QED
    BY <2>2, <2>3, FS_CardinalityType
<1>1. ASSUME NEW r \in Requests, Commit(r) PROVE Counted'
  <2>1. /\ sold' = sold \cup {Order(r)} /\ Order(r).key = Key(r) /\ days' = days
        /\ group' = [k \in Keys |-> IF k = Key(r) THEN req[r].basket ELSE group[k]]
        /\ req[r].basket \in Baskets /\ Key(r) \in Keys \cup {NoKey}
    BY <1>1, Fields DEF Commit, Order, Inv, bounds
  <2>2. IsFiniteSet(sold')
    BY <2>1, FS_AddElement DEF Counted
  <2>3. ASSUME NEW k \in Keys
        PROVE  Cardinality(OrdersUnder(k)') <= days' + (IF group'[k] = None THEN 0 ELSE 1)
    <3>1. CASE k # Key(r)
      <4>1. OrdersUnder(k)' = OrdersUnder(k)
        BY <2>1, <3>1 DEF OrdersUnder
      <4> QED
        BY <2>1, <3>1, <4>1 DEF Counted
    <3>2. CASE k = Key(r)
      <4>1. group[k] = None /\ group'[k] # None
        BY <1>1, <2>1, <3>2, NoKeyAssumption, NoneAssumption DEF Commit, KeyIsFree
      <4>2. OrdersUnder(k)' = OrdersUnder(k) \cup {Order(r)}
        BY <2>1, <3>2 DEF OrdersUnder
      <4>3. Cardinality(OrdersUnder(k)') <= Cardinality(OrdersUnder(k)) + 1
        BY <1>t, <4>2, FS_AddElement
      <4>4. Cardinality(OrdersUnder(k)) <= days
        BY <1>t, <4>1 DEF Counted
      <4>5. Cardinality(OrdersUnder(k)') \in Nat
        BY <1>t, <4>2, FS_AddElement, FS_CardinalityType
      <4> QED
        BY <1>t, <2>1, <4>1, <4>3, <4>4, <4>5
    <3> QED
      BY <3>1, <3>2
  <2> QED
    BY <2>2, <2>3 DEF Counted
<1>2. ASSUME UNCHANGED sold,
             \A k \in Keys : \/ days' = days /\ group'[k] = group[k]
                             \/ days' = days + 1
      PROVE  Counted'
  <2>1. \A k \in Keys : OrdersUnder(k)' = OrdersUnder(k)
    BY <1>2 DEF OrdersUnder
  <2>2. ASSUME NEW k \in Keys
        PROVE  Cardinality(OrdersUnder(k)') <= days' + (IF group'[k] = None THEN 0 ELSE 1)
    BY <1>2, <1>t, <2>1 DEF Counted
  <2> QED
    BY <1>2, <2>2 DEF Counted
<1>3. CASE \E r \in Requests : Arrive(r) \/ RequestStep(r) \/ Breaks(r)
  BY <1>1, <1>2, <1>3 DEF RequestStep, Arrive, Check, TakeLock, FindExisting, Begin,
     Abort, Cache, Unlock, Lookup, Breaks, store, bounds
<1>4. CASE \E k \in Keys : \/ LockExpires(k) \/ LockExpiresEarly(k)
                           \/ ErrorExpires(k) \/ ResultExpires(k) \/ RecordExpires(k)
  BY <1>2, <1>4 DEF LockExpires, LockExpiresEarly, ErrorExpires, ResultExpires,
     RecordExpires, store, bounds
<1>5. CASE UNCHANGED vars
  BY <1>2, <1>5 DEF vars, store, bounds
<1> QED
  BY <1>3, <1>4, <1>5 DEF Next

\* One order per idempotency key, for any number of repeated requests and any
\* lock expiry, as long as the record of the first is not deleted.
THEOREM OneOrderCorrect == Spec => []OneOrderPerKey
<1>1. Inv /\ Counted => OneOrderPerKey
  <2> SUFFICES ASSUME Inv, Counted, NEW k \in Keys
               PROVE  Cardinality(OrdersUnder(k)) <= 1 + days
    BY DEF OneOrderPerKey
  <2>1. OrdersUnder(k) \subseteq sold
    BY DEF OrdersUnder
  <2>2. Cardinality(OrdersUnder(k)) \in Nat
    BY <2>1, FS_Subset, FS_CardinalityType DEF Counted
  <2> QED
    BY <2>2, BoundAssumption DEF Counted, Inv, TypeOK
<1> QED
  BY <1>1, InvInit, InvStep, CountedInit, CountedStep, PTL DEF Spec

(***************************************************************************)
(* The checkout implements the service.                                      *)
(***************************************************************************)
Told == [r \in Requests |->
           IF At(r, "done") /\ req[r].answer \in Good THEN req[r].answer ELSE "nothing"]
Open == {k \in Keys : group[k] # None}

\* A step that takes no money and hears nothing new is no step of the service.
LEMMA Stutters ==
  ASSUME UNCHANGED <<stock, money, sold>>, Open' = Open, Told' = Told
  PROVE  UNCHANGED Service!vars
BY DEF Service!vars, Open, Told

LEMMA QuietReplies ==
  ASSUME TypeOK, NEW r \in Requests, NEW q, Becomes(r, q),
         ~At(r, "done"), q.pc # "done" \/ q.answer \notin Good
  PROVE  Told' = Told
<1>1. req' = [req EXCEPT ![r] = q] /\ req \in [Requests -> Request]
  BY DEF Becomes, TypeOK
<1> QED
  BY <1>1 DEF Told, At

LEMMA GoodReply ==
  ASSUME TypeOK, NEW r \in Requests, NEW q, Becomes(r, q),
         ~At(r, "done"), q.pc = "done", q.answer \in Good
  PROVE  Told[r] = "nothing" /\ Told' = [Told EXCEPT ![r] = q.answer]
<1>1. req' = [req EXCEPT ![r] = q] /\ req \in [Requests -> Request]
  BY DEF Becomes, TypeOK
<1> QED
  BY <1>1 DEF Told, At

LEMMA ServiceInit == Init => Service!Init
<1> SUFFICES ASSUME Init PROVE Service!Init
  OBVIOUS
<1>1. PICK basket \in [Requests -> Baskets] :
        req = [r \in Requests |-> [NewRequest(NoKey, basket[r]) EXCEPT !.pc = "idle"]]
  BY DEF Init
<1>2. \A r \in Requests : req[r].pc = "idle"
  BY <1>1 DEF NewRequest
<1>3. Told = [r \in Requests |-> "nothing"] /\ Open = {}
  BY <1>2 DEF Told, Open, At, Init
<1> QED
  BY <1>3, StockAssumption DEF Service!Init, Init, Told, Open

\* The commit is the instant in which the order is placed.
LEMMA CommitPlaces ==
  ASSUME Inv, NEW r \in Requests, Commit(r)
  PROVE  Service!Place(r, Key(r), req[r].basket)
<1>1. /\ req[r] \in Request /\ req[r].key = Key(r) /\ Key(r) \in Keys \cup {NoKey}
      /\ Fits(r, req[r]) /\ req[r].pc = "commit" /\ req[r].basket \in Baskets
  BY Fields DEF Inv, Commit, InTransaction, At
<1>2. stock > 0 /\ money > 0 /\ ~Bought(r)
  BY <1>1 DEF Fits, Fresh, GoesOn, Commit
<1>3. Key(r) \notin Open
  BY NoKeyAssumption DEF Open, Commit, KeyIsFree
<1>4. Open' = Open \cup ({Key(r)} \ {NoKey})
  BY <1>1, NoKeyAssumption, NoneAssumption DEF Open, Commit
<1>5. Told' = Told
  <2>1. ASSUME NEW q \in Requests
        PROVE  (At(q, "done") <=> At(q, "done")')
               /\ (At(q, "done") => req'[q].answer = req[q].answer)
    <3>1. req[q] \in Request
      BY Fields DEF Inv
    <3>2. req'[q] = IF q = r THEN Placed(req[r])
                    ELSE IF InTransaction(q) THEN [req[q] EXCEPT !.stale = TRUE] ELSE req[q]
      BY DEF Commit, Committed
    <3> QED
      BY <1>1, <3>1, <3>2 DEF Placed, At, InTransaction, Request
  <2> QED
    BY <2>1 DEF Told
<1> QED
  BY <1>2, <1>3, <1>4, <1>5 DEF Service!Place, Told, Open, Commit, Order, Bought

LEMMA QuietStepStutters ==
  ASSUME Inv, UNCHANGED store, Told' = Told
  PROVE  UNCHANGED Service!vars
BY Stutters DEF store, Open

\* A request that ends is told nothing, its own order or the order of its key.
LEMMA EndingTells ==
  ASSUME Inv, NEW r \in Requests, NEW q, Becomes(r, q), UNCHANGED store,
         ~At(r, "done"), q.pc = "done",
         q.answer = "placed" => Bought(r),
         q.answer = "duplicate" => Key(r) \in Keys /\ OrdersUnder(Key(r)) # {}
  PROVE  [Service!Next]_(Service!vars)
<1>1. CASE q.answer \notin Good
  BY <1>1, QuietReplies, QuietStepStutters DEF Inv
<1>2. CASE q.answer \in Good
  <2>1. Told[r] = "nothing" /\ Told' = [Told EXCEPT ![r] = q.answer]
    BY <1>2, GoodReply DEF Inv
  <2>2. UNCHANGED <<stock, money, sold>> /\ Open' = Open
    BY DEF store, Open
  <2>3. CASE q.answer = "placed"
    <3>1. Service!TellPlaced(r)
      BY <2>1, <2>2, <2>3 DEF Service!TellPlaced, Told, Open, Bought
    <3> QED
      BY <3>1 DEF Service!Next
  <2>4. CASE q.answer = "duplicate"
    <3>1. PICK k \in Keys : k = Key(r)
      BY <2>4
    <3>2. Service!TellDuplicate(r, k)
      BY <2>1, <2>2, <2>4, <3>1 DEF Service!TellDuplicate, Told, Open, OrdersUnder
    <3> QED
      BY <3>2 DEF Service!Next
  <2> QED
    BY <1>2, <2>3, <2>4 DEF Good
<1> QED
  BY <1>1, <1>2

\* Each step is a step of the service or changes nothing that it promises.
LEMMA ServiceStep == Inv /\ [Next]_vars => [Service!Next]_(Service!vars)
<1> SUFFICES ASSUME Inv, [Next]_vars PROVE [Service!Next]_(Service!vars)
  OBVIOUS
<1> DEFINE Goal == [Service!Next]_(Service!vars)
<1>q. ASSUME NEW r \in Requests, NEW p \in Steps \ {"done"}, Goes(r, p),
             ~At(r, "done"), UNCHANGED store
      PROVE  Goal
  <2>1. [req[r] EXCEPT !.pc = p].pc # "done"
    BY <1>q, Fields DEF Inv, Request
  <2> QED
    BY <1>q, <2>1, QuietReplies, QuietStepStutters DEF Goes, Inv
<1>a. ASSUME NEW r \in Requests, NEW a \in Answers, NEW o, Replies(r, a, o),
             ~At(r, "done"), UNCHANGED store, a # "placed",
             a = "duplicate" => Key(r) \in Keys /\ OrdersUnder(Key(r)) # {}
      PROVE  Goal
  <2> DEFINE q == [req[r] EXCEPT !.pc = "done", !.answer = a, !.order = o]
  <2>1. q.pc = "done" /\ q.answer = a /\ Becomes(r, q)
    BY <1>a, Fields DEF Inv, Request, Replies
  <2> HIDE DEF q
  <2> QED
    BY <1>a, <2>1, EndingTells
<1>f. ASSUME NEW r \in Requests, FoundDuplicate(r), ~At(r, "done"), UNCHANGED store
      PROVE  Goal
  <2> DEFINE q == [req[r] EXCEPT !.pc = "store", !.saves = "result",
                                 !.answer = "duplicate", !.order = group[Key(r)]]
  <2>1. q.pc # "done" /\ Becomes(r, q)
    BY <1>f, Fields DEF Inv, Request, FoundDuplicate
  <2> HIDE DEF q
  <2> QED
    BY <1>f, <2>1, QuietReplies, QuietStepStutters DEF Inv
<1>n. ASSUME NEW r \in Requests, NEW q, Becomes(r, q), q.pc # "done",
             ~At(r, "done"), UNCHANGED store
      PROVE  Goal
  BY <1>n, QuietReplies, QuietStepStutters DEF Inv
<1>1. ASSUME NEW r \in Requests, Arrive(r) PROVE Goal
  BY <1>1, <1>n DEF Arrive, At, NewRequest
<1>2. ASSUME NEW r \in Requests, Check(r) PROVE Goal
  <2>1. /\ Key(r) \in Keys /\ ~At(r, "done") /\ UNCHANGED store
        /\ result[Key(r)] # None => OrdersUnder(Key(r)) # {}
    BY <1>2 DEF Check, At, Inv, Fits, Keyed, Key
  <2>2. CASE Goes(r, "lock")
    BY <2>1, <2>2, <1>q DEF Steps
  <2>3. CASE \E a \in Answers, o \in Baskets \cup {None} :
               Replies(r, a, o) /\ a # "placed" /\ (a = "duplicate" => result[Key(r)] # None)
    BY <2>1, <2>3, <1>a
  <2>4. CASE error[Key(r)] # None
    BY <1>2, <2>3, <2>4 DEF Check, Answers
  <2>5. CASE error[Key(r)] = None /\ result[Key(r)] # None
    <3>1. result[Key(r)].order \in Baskets \cup {None}
      BY <2>1, <2>5 DEF Inv, TypeOK
    <3> QED
      BY <1>2, <2>3, <2>5, <3>1 DEF Check, Answers
  <2>6. CASE error[Key(r)] = None /\ result[Key(r)] = None
    BY <1>2, <2>2, <2>3, <2>6 DEF Check, Answers
  <2> QED
    BY <2>4, <2>5, <2>6
<1>3. ASSUME NEW r \in Requests, TakeLock(r) PROVE Goal
  BY <1>3, <1>q, <1>a DEF TakeLock, At, Steps, Answers
<1>4. ASSUME NEW r \in Requests, FindExisting(r) PROVE Goal
  BY <1>4, <1>q, <1>f DEF FindExisting, At, Steps
<1>5. ASSUME NEW r \in Requests, Begin(r) PROVE Goal
  <2> DEFINE q == [req[r] EXCEPT !.pc = "commit", !.stale = FALSE,
                                 !.enough = stock > 0 /\ money > 0]
  <2>1. q.pc # "done" /\ Becomes(r, q)
    BY <1>5, Fields DEF Inv, Request, Begin
  <2> HIDE DEF q
  <2> QED
    BY <1>5, <2>1, <1>n DEF Begin, At
<1>6. ASSUME NEW r \in Requests, Commit(r) PROVE Goal
  <2>1. PICK k \in Keys \cup {NoKey}, b \in Baskets : k = Key(r) /\ b = req[r].basket
    BY Fields DEF Inv
  <2>2. Service!Place(r, k, b)
    BY <1>6, <2>1, CommitPlaces DEF Service!Place
  <2> QED
    BY <2>2 DEF Service!Next
<1>7. ASSUME NEW r \in Requests, Abort(r) PROVE Goal
  <2>1. PICK why \in Failures : Becomes(r, Failed(req[r], why))
    BY <1>7 DEF Abort
  <2>2. Failed(req[r], why).pc # "done"
    BY Fields DEF Inv, Request, Failed
  <2> QED
    BY <1>7, <2>1, <2>2, <1>n DEF Abort, InTransaction, At
<1>8. ASSUME NEW r \in Requests, Cache(r) PROVE Goal
  BY <1>8, <1>q DEF Cache, At, Steps
<1>9. ASSUME NEW r \in Requests, Unlock(r) PROVE Goal
  <2>1. ~At(r, "done") /\ UNCHANGED store /\ Fits(r, req[r])
    BY <1>9 DEF Unlock, At, Inv
  <2>2. CASE Goes(r, "lookup")
    BY <2>1, <2>2, <1>q DEF Steps
  <2>3. CASE Goes(r, "done")
    <3> DEFINE q == [req[r] EXCEPT !.pc = "done"]
    <3>1. q.pc = "done" /\ q.answer = req[r].answer /\ Becomes(r, q) /\ req[r].key = Key(r)
      BY <2>3, Fields DEF Inv, Request, Goes
    <3> HIDE DEF q
    <3>2. /\ q.answer = "placed" => Bought(r)
          /\ q.answer = "duplicate" => Key(r) \in Keys /\ OrdersUnder(Key(r)) # {}
      BY <2>1, <3>1 DEF Fits, Truthful, Bought
    <3> QED
      BY <2>1, <3>1, <3>2, EndingTells
  <2> QED
    BY <1>9, <2>2, <2>3 DEF Unlock
<1>10. ASSUME NEW r \in Requests, Lookup(r) PROVE Goal
  <2>1. ~At(r, "done") /\ UNCHANGED store
    BY <1>10 DEF Lookup, At
  <2>2. CASE FoundDuplicate(r)
    BY <2>1, <2>2, <1>f
  <2>3. CASE Becomes(r, [NewRequest(Key(r), req[r].basket) EXCEPT !.tries = req[r].tries + 1])
    <3>1. [NewRequest(Key(r), req[r].basket) EXCEPT !.tries = req[r].tries + 1].pc # "done"
      BY DEF NewRequest
    <3> QED
      BY <2>1, <2>3, <3>1, <1>n
  <2>4. CASE Replies(r, "error", None)
    BY <2>1, <2>4, <1>a DEF Answers
  <2> QED
    BY <1>10, <2>2, <2>3, <2>4 DEF Lookup
<1>11. ASSUME NEW r \in Requests, Breaks(r) PROVE Goal
  BY <1>11, <1>a DEF Breaks, Running, At, Answers
<1>12. ASSUME NEW k \in Keys, RecordExpires(k) PROVE Goal
  <2>1. Open' = Open \ {k}
    BY <1>12 DEF RecordExpires, Open, Inv, TypeOK
  <2>2. Told' = Told
    BY <1>12 DEF RecordExpires, Told, At
  <2>3. Service!Forget(k)
    BY <1>12, <2>1, <2>2 DEF Service!Forget, RecordExpires, Open, Told
  <2> QED
    BY <2>3 DEF Service!Next
<1>13. ASSUME NEW k \in Keys,
              LockExpires(k) \/ LockExpiresEarly(k) \/ ErrorExpires(k) \/ ResultExpires(k)
       PROVE  Goal
  <2>1. UNCHANGED store /\ UNCHANGED req
    BY <1>13 DEF LockExpires, LockExpiresEarly, ErrorExpires, ResultExpires
  <2> QED
    BY <2>1, QuietStepStutters DEF Told, At
<1>14. CASE UNCHANGED vars
  BY <1>14, QuietStepStutters DEF vars, Told, At
<1> QED
  BY <1>1, <1>2, <1>3, <1>4, <1>5, <1>6, <1>7, <1>8, <1>9, <1>10, <1>11, <1>12, <1>13,
     <1>14 DEF Next, RequestStep

\* Redis, the lock and the transaction together do what the service promises,
\* whatever the interleaving and whatever breaks off.
THEOREM Implementation == Spec => ImplementsService
<1> QED
  BY ServiceInit, ServiceStep, InvInit, InvStep, PTL
     DEF Spec, ImplementsService, Service!Spec
=============================================================================
