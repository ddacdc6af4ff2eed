------------------------------ MODULE Checkout ------------------------------
(***************************************************************************)
(* Placing an order: placeOrderAtomic of orderPlacementService.js over        *)
(* idempotencyService.js.                                                     *)
(*                                                                           *)
(* The requests of one customer, with or without an idempotency key, go       *)
(* through three Redis entries per key (a lock of 60 s without an owner, a     *)
(* cached result of 24 h, a cached error of 1 h), one snapshot transaction of  *)
(* MongoDB and the unique index of checkoutGroup. Each await is a step: any     *)
(* other request may run between two of them.                                  *)
(*                                                                           *)
(* A basket stands for the payload and for its checksum. Every order takes one *)
(* unit of one product and one unit of wallet money, so that two transactions   *)
(* open at the same time always write the same documents.                       *)
(***************************************************************************)
EXTENDS Integers, FiniteSets

CONSTANTS
  Requests,   \* calls of placeOrderAtomic
  Keys,       \* idempotency keys
  NoKey,      \* a request without the header
  Baskets,    \* the payloads
  None,       \* an absent document or Redis entry
  Stock,      \* units in stock at first, at most
  Money,      \* units in the wallet at first
  MaxRetries, \* how often a colliding id is drawn again (2 in the code)
  MaxFaults,  \* requests that break off: Redis or MongoDB fails, or the process
  MaxSlow,    \* locks that expire while their request is still running
  MaxDays     \* checkouts whose record reaches its time to live

ASSUME StockAssumption == Stock \in Nat /\ Money \in Nat
ASSUME BoundAssumption ==
  MaxRetries \in Nat /\ MaxFaults \in Nat /\ MaxSlow \in Nat /\ MaxDays \in Nat
ASSUME NoKeyAssumption == NoKey \notin Keys
ASSUME NoneAssumption == None \notin Requests /\ None \notin Baskets

Steps == {"idle", "check", "lock", "find", "begin", "commit", "store", "unlock",
          "lookup", "done"}
Failures == {"no", "short", "conflict", "taken", "clash", "retryable"}
Duplicated == {"taken", "clash"}
Answers == {"none", "placed", "duplicate", "busy", "mismatch", "error", "broken"}
Good == {"placed", "duplicate"}

VARIABLES
  stock, money,
  group,    \* per key, the basket of the checkout group that MongoDB holds
  sold,     \* the rows of the orders' money and stock, which nothing deletes
  started,  \* the requests whose order afterPlaceOrderV2 was called for
  lock,     \* per key, the request whose timestamp is the value of the lock
  result,   \* per key, the cached result
  error,    \* per key, the checksum of the cached error
  req,      \* what each request will do next and what it knows
  faults, slow, days

store == <<stock, money, group, sold>>
redis == <<lock, result, error>>
bounds == <<faults, slow, days>>
vars == <<store, started, redis, req, bounds>>

Request ==
  [pc : Steps, key : Keys \cup {NoKey}, basket : Baskets, enough : BOOLEAN,
   stale : BOOLEAN, saves : {"result", "error"}, why : Failures,
   tries : 0..MaxRetries, answer : Answers, order : Baskets \cup {None}]

NewRequest(k, b) ==
  [pc |-> IF k = NoKey THEN "begin" ELSE "check", key |-> k, basket |-> b,
   enough |-> FALSE, stale |-> FALSE, saves |-> "result", why |-> "no",
   tries |-> 0, answer |-> "none", order |-> None]

Init ==
  /\ stock \in 0..Stock /\ money = Money
  /\ group = [k \in Keys |-> None]
  /\ sold = {} /\ started = {}
  /\ lock = [k \in Keys |-> None]
  /\ result = [k \in Keys |-> None]
  /\ error = [k \in Keys |-> None]
  /\ \E basket \in [Requests -> Baskets] :
       req = [r \in Requests |-> [NewRequest(NoKey, basket[r]) EXCEPT !.pc = "idle"]]
  /\ faults = 0 /\ slow = 0 /\ days = 0

At(r, step) == req[r].pc = step
Key(r) == req[r].key
InTransaction(r) == At(r, "commit")

Becomes(r, q) == req' = [req EXCEPT ![r] = q]

\* The request has its reply; the answer says which.
Replies(r, answer, order) ==
  Becomes(r, [req[r] EXCEPT !.pc = "done", !.answer = answer, !.order = order])

Goes(r, step) == Becomes(r, [req[r] EXCEPT !.pc = step])

(***************************************************************************)
(* The request arrives and asks Redis.                                       *)
(***************************************************************************)
Arrive(r) ==
  /\ At(r, "idle")
  /\ \E k \in Keys \cup {NoKey} :
       Becomes(r, NewRequest(k, req[r].basket))
  /\ UNCHANGED <<store, started, redis, bounds>>

\* checkIdempotency: the cached error comes before the cached result, and the
\* lock counts only when neither is there.
Check(r) ==
  /\ At(r, "check")
  /\ LET k == Key(r) IN
       \/ /\ error[k] # None
          /\ Replies(r, IF error[k] = req[r].basket THEN "error" ELSE "mismatch", None)
       \/ /\ error[k] = None /\ result[k] # None
          /\ IF result[k].sum = req[r].basket
             THEN Replies(r, "duplicate", result[k].order)
             ELSE Replies(r, "mismatch", None)
       \/ /\ error[k] = None /\ result[k] = None
          /\ IF lock[k] # None THEN Replies(r, "busy", None) ELSE Goes(r, "lock")
  /\ UNCHANGED <<store, started, redis, bounds>>

\* acquireIdempotencyLock: SET NX.
TakeLock(r) ==
  /\ At(r, "lock")
  /\ IF lock[Key(r)] = None
     THEN lock' = [lock EXCEPT ![Key(r)] = r] /\ Goes(r, "find")
     ELSE UNCHANGED lock /\ Replies(r, "busy", None)
  /\ UNCHANGED <<store, started, result, error, bounds>>

\* Mutant: an order that was found is reported as placed by this request.
FoundCountsAsPlaced(r) ==
  Becomes(r, [req[r] EXCEPT !.pc = "store", !.saves = "result",
                            !.answer = "placed", !.order = group[Key(r)]])

\* The order that MongoDB holds under the key, whatever its basket, will be the
\* answer, and is cached with the checksum of this request.
FoundDuplicate(r) ==
  Becomes(r, [req[r] EXCEPT !.pc = "store", !.saves = "result",
                            !.answer = "duplicate", !.order = group[Key(r)]])

\* findExistingCheckoutByIdempotency, before the transaction.
FindExisting(r) ==
  /\ At(r, "find")
  /\ IF group[Key(r)] # None THEN FoundDuplicate(r) ELSE Goes(r, "begin")
  /\ UNCHANGED <<store, started, redis, bounds>>

(***************************************************************************)
(* The transaction.                                                          *)
(***************************************************************************)
\* startTransaction: stock and wallet are read from the snapshot.
Begin(r) ==
  /\ At(r, "begin")
  /\ Becomes(r, [req[r] EXCEPT !.pc = "commit", !.stale = FALSE,
                               !.enough = stock > 0 /\ money > 0])
  /\ UNCHANGED <<store, started, redis, bounds>>

\* Mutant: the index on customer and key is not unique.
KeyNeedNotBeFree(r) == TRUE

\* The unique index of checkoutGroup on customer and key.
KeyIsFree(r) == Key(r) # NoKey => group[Key(r)] = None

Order(r) == [by |-> r, key |-> Key(r), basket |-> req[r].basket]

\* Without a key there is nothing to cache.
Placed(q) ==
  [q EXCEPT !.pc = IF q.key = NoKey THEN "unlock" ELSE "store",
            !.enough = FALSE, !.answer = "placed", !.order = q.basket]

\* Mutant: nobody's transaction is told that what it read has changed.
CommittedUnnoticed(r) ==
  Becomes(r, Placed(req[r]))

\* The request goes on to cache its result; every other open transaction has
\* read documents that are now out of date.
Committed(r) ==
  req' = [q \in Requests |->
    IF q = r THEN Placed(req[r])
    ELSE IF InTransaction(q) THEN [req[q] EXCEPT !.stale = TRUE] ELSE req[q]]

\* commitTransaction.
Commit(r) ==
  /\ InTransaction(r)
  /\ req[r].enough /\ ~req[r].stale
  /\ KeyIsFree(r)
  /\ stock' = stock - 1 /\ money' = money - 1
  /\ group' = [k \in Keys |-> IF k = Key(r) THEN req[r].basket ELSE group[k]]
  /\ sold' = sold \cup {Order(r)}
  /\ Committed(r)
  /\ UNCHANGED <<started, redis, bounds>>

\* Another transaction that may have written the same documents, or drawn the
\* same public order id.
Contended(r) ==
  req[r].stale \/ \E q \in Requests \ {r} : InTransaction(q)

\* Why a transaction does not commit: not enough stock or money, a write
\* conflict, the unique index on the key or on an id, a failure that
\* isRetryableError recognises.
MayFail(r, why) ==
  \/ why = "short" /\ ~req[r].enough
  \/ why = "conflict" /\ req[r].enough /\ Contended(r)
  \/ why = "taken" /\ req[r].enough /\ ~KeyIsFree(r)
  \/ why = "clash" /\ req[r].enough /\ Contended(r)
  \/ why = "retryable"

\* The lock will be released or the error cached. A conflict and a duplicate key
\* count as non-retryable, so they are cached too. Without a key neither happens.
Failed(q, why) ==
  [q EXCEPT !.pc = IF q.key = NoKey \/ why = "retryable" THEN "unlock" ELSE "store",
            !.saves = "error", !.why = why, !.answer = "error",
            !.enough = FALSE, !.stale = FALSE]

\* The catch block: abortTransaction, and what follows from the error.
Abort(r) ==
  /\ InTransaction(r)
  /\ \E why \in Failures :
       /\ MayFail(r, why)
       /\ Becomes(r, Failed(req[r], why))
  /\ UNCHANGED <<store, started, redis, bounds>>

(***************************************************************************)
(* The end of the request.                                                   *)
(***************************************************************************)
\* setex of the result or of the error.
Cache(r) ==
  /\ At(r, "store")
  /\ LET k == Key(r) IN
       IF req[r].saves = "result"
       THEN /\ result' = [result EXCEPT ![k] = [order |-> req[r].order, sum |-> req[r].basket]]
            /\ UNCHANGED error
       ELSE /\ error' = [error EXCEPT ![k] = req[r].basket]
            /\ UNCHANGED result
  /\ Goes(r, "unlock")
  /\ UNCHANGED <<store, started, lock, bounds>>

\* del of the lock, whoever holds it by now.
DropsLock(r) ==
  lock' = [k \in Keys |-> IF k = Key(r) THEN None ELSE lock[k]]

\* After a duplicate key the existing order is looked for, or the placement is
\* tried again; every other request is over. A new order starts its workflow.
Unlock(r) ==
  /\ At(r, "unlock")
  /\ DropsLock(r)
  /\ Goes(r, IF req[r].saves = "error" /\ req[r].why \in Duplicated
             THEN "lookup" ELSE "done")
  /\ started' = IF req[r].answer = "placed" THEN started \cup {r} ELSE started
  /\ UNCHANGED <<store, result, error, bounds>>

\* Mutant: retries of a colliding id are not counted.
RetriesWithoutEnd(r) ==
  /\ At(r, "lookup")
  /\ IF Key(r) # NoKey /\ ~KeyIsFree(r) THEN FoundDuplicate(r)
     ELSE IF req[r].why = "clash"
     THEN Becomes(r, NewRequest(Key(r), req[r].basket))
     ELSE Replies(r, "error", None)
  /\ UNCHANGED <<store, started, redis, bounds>>

\* The handler of error 11000. A retry goes through Redis again, where it
\* finds the error that it has just cached.
Lookup(r) ==
  /\ At(r, "lookup")
  /\ IF Key(r) # NoKey /\ ~KeyIsFree(r) THEN FoundDuplicate(r)
     ELSE IF req[r].why = "clash" /\ req[r].tries < MaxRetries
     THEN Becomes(r, [NewRequest(Key(r), req[r].basket) EXCEPT !.tries = req[r].tries + 1])
     ELSE Replies(r, "error", None)
  /\ UNCHANGED <<store, started, redis, bounds>>

(***************************************************************************)
(* Faults and time.                                                          *)
(***************************************************************************)
Running(r) == req[r].pc \notin {"idle", "done"}

\* Mutant: a request that breaks off after its commit caches an error as well.
BreaksWithError(r) ==
  /\ Running(r) /\ ~InTransaction(r)
  /\ faults < MaxFaults
  /\ faults' = faults + 1
  /\ Becomes(r, Failed(req[r], "conflict"))
  /\ UNCHANGED <<store, started, redis, slow, days>>

\* Redis or MongoDB fails outside the transaction, or the process dies: nothing
\* more is done. After the commit the same holds although the catch block runs,
\* because abortTransaction throws on a transaction that has committed.
Breaks(r) ==
  /\ Running(r)
  /\ faults < MaxFaults
  /\ faults' = faults + 1
  /\ Replies(r, "broken", None)
  /\ UNCHANGED <<store, started, redis, slow, days>>

\* Mutant: the lock is set without a time to live.
LockHasNoExpiry(k) == FALSE

\* The lock of a request that is over expires.
LockExpires(k) ==
  /\ lock[k] # None
  /\ ~Running(lock[k])
  /\ lock' = [lock EXCEPT ![k] = None]
  /\ UNCHANGED <<store, started, result, error, req, bounds>>

\* The lock of a request that is still at work expires.
LockExpiresEarly(k) ==
  /\ lock[k] # None
  /\ Running(lock[k])
  /\ slow < MaxSlow
  /\ slow' = slow + 1
  /\ lock' = [lock EXCEPT ![k] = None]
  /\ UNCHANGED <<store, started, result, error, req, faults, days>>

ErrorExpires(k) ==
  /\ error[k] # None
  /\ error' = [error EXCEPT ![k] = None]
  /\ UNCHANGED <<store, started, lock, result, req, bounds>>

\* A day later the cached result and the record of the checkout are gone.
ResultExpires(k) ==
  /\ result[k] # None
  /\ days < MaxDays
  /\ result' = [result EXCEPT ![k] = None]
  /\ days' = days + 1
  /\ UNCHANGED <<store, started, lock, error, req, faults, slow>>

\* The index with expireAfterSeconds 0 on placement.idempotencyKeyExpiry deletes
\* the checkout group, and its twin of models/order.js the orders.
RecordExpires(k) ==
  /\ group[k] # None
  /\ days < MaxDays
  /\ group' = [group EXCEPT ![k] = None]
  /\ days' = days + 1
  /\ UNCHANGED <<stock, money, sold, started, redis, req, faults, slow>>

RequestStep(r) ==
  \/ Check(r) \/ TakeLock(r) \/ FindExisting(r) \/ Begin(r)
  \/ Commit(r) \/ Abort(r) \/ Cache(r) \/ Unlock(r) \/ Lookup(r)

Next ==
  \/ \E r \in Requests : Arrive(r) \/ RequestStep(r) \/ Breaks(r)
  \/ \E k \in Keys : \/ LockExpires(k) \/ LockExpiresEarly(k)
                     \/ ErrorExpires(k) \/ ResultExpires(k) \/ RecordExpires(k)

Spec == Init /\ [][Next]_vars

\* A request that runs goes on, and an abandoned lock reaches its time to live.
Fairness ==
  /\ \A r \in Requests : WF_vars(RequestStep(r))
  /\ \A k \in Keys : WF_vars(LockExpires(k))

FairSpec == Spec /\ Fairness

(***************************************************************************)
(* Properties.                                                               *)
(***************************************************************************)
\* Every variable holds a value of its type.
TypeOK ==
  /\ stock \in Int /\ money \in Int
  /\ group \in [Keys -> Baskets \cup {None}]
  /\ sold \subseteq [by : Requests, key : Keys \cup {NoKey}, basket : Baskets]
  /\ started \subseteq Requests
  /\ lock \in [Keys -> Requests \cup {None}]
  /\ result \in [Keys -> [order : Baskets \cup {None}, sum : Baskets] \cup {None}]
  /\ error \in [Keys -> Baskets \cup {None}]
  /\ req \in [Requests -> Request]
  /\ faults \in 0..MaxFaults /\ slow \in 0..MaxSlow /\ days \in 0..MaxDays

\* Checkouts that run together never take stock or wallet money that is not
\* there, although each of them checked a snapshot.
NeverOversold == stock >= 0 /\ money >= 0

OrdersUnder(k) == {s \in sold : s.key = k}

\* A key pays for one order, however often its request is repeated, however
\* its lock expires, and whoever deletes it: a second order needs the record of
\* the first to have been deleted.
OneOrderPerKey == \A k \in Keys : Cardinality(OrdersUnder(k)) <= 1 + days

\* An attempt that committed is never answered, or remembered, as an attempt
\* that failed: an error of its own means that it placed nothing.
ErrorMeansNoOrder ==
  \A r \in Requests : req[r].why # "no" => \A s \in sold : s.by # r

Service ==
  INSTANCE CheckoutService WITH
    open <- {k \in Keys : group[k] # None},
    told <- [r \in Requests |->
      IF At(r, "done") /\ req[r].answer \in Good THEN req[r].answer ELSE "nothing"]

\* The implementation with Redis, the lock and the transaction behaves as the
\* service does: an order is placed in one instant, once per key, and nobody
\* hears of an order that was not placed.
ImplementsService == Service!Spec

\* Every request that arrived is answered.
RequestsAnswered ==
  \A r \in Requests : Running(r) ~> At(r, "done")

\* No key stays locked, even if its holder broke off.
LockGivenBack == \A k \in Keys : []<>(lock[k] = None)

\* A repeated request is answered with the order that the key already placed,
\* and not with an error.
RetryFindsOrder ==
  [][\A r \in Requests :
       At(r, "check") /\ At(r, "done")' /\ req'[r].answer = "error" =>
         \A q \in Requests :
           At(q, "done") /\ Key(q) = Key(r) /\ Key(r) # NoKey
             /\ req[q].basket = req[r].basket => req[q].answer \notin Good]_vars

\* A key that is used again with another payload is refused: nobody is answered
\* with an order for another basket.
OrderIsWhatWasAsked ==
  \A r \in Requests :
    At(r, "done") /\ req[r].answer \in Good => req[r].order = req[r].basket

\* An order that was placed stays in the database.
OrdersStay == [][\A k \in Keys : group[k] # None => group'[k] = group[k]]_vars
=============================================================================
