--------------------------- MODULE CodCashProofs ---------------------------
(***************************************************************************)
(* Proofs about CodCash, for any riders, calls, amounts and number of       *)
(* orders.                                                                  *)
(***************************************************************************)
EXTENDS CodCash, TLAPS, FiniteSetTheorems

(***************************************************************************)
(* Induction on the natural numbers, in the form of least elements.         *)
(***************************************************************************)
Below == {pair \in Nat \X Nat : pair[1] < pair[2]}

LEMMA BelowWellFounded == IsWellFoundedOn(Below, Nat)
BY NatLessThanWellFounded DEF OpToRel, Below

LEMMA Least ==
  ASSUME NEW T, T \subseteq Nat, T # {}
  PROVE  \E x \in T : \A y \in T : x <= y
<1>1. PICK x \in T : \A y \in T : ~(<<y, x>> \in Below)
  BY BelowWellFounded, WFMin
<1>2. ASSUME NEW y \in T PROVE x <= y
  <2>1. x \in Nat /\ y \in Nat
    OBVIOUS
  <2>2. y < x => <<y, x>> \in Below
    BY <2>1 DEF Below
  <2> QED
    BY <1>1, <2>1, <2>2
<1> QED
  BY <1>1, <1>2

\* A set of places that contains 0, and with each place the next, is all of 0..N.
LEMMA Upwards ==
  ASSUME NEW N \in Nat, NEW S, 0 \in S,
         \A n \in 1..N : n - 1 \in S => n \in S
  PROVE  0..N \subseteq S
<1> DEFINE T == (0..N) \ S
<1>1. ASSUME T # {} PROVE FALSE
  <2>1. T \subseteq Nat
    OBVIOUS
  <2>2. PICK n \in T : \A y \in T : n <= y
    <3> HIDE DEF T
    <3> QED BY <1>1, <2>1, Least
  <2>3. n \in 1..N /\ n - 1 \in 0..N /\ ~(n <= n - 1)
    BY <2>2
  <2>4. n - 1 \in S
    BY <2>2, <2>3
  <2> QED
    BY <2>2, <2>3, <2>4
<1> QED
  BY <1>1

(***************************************************************************)
(* Sums of functions on 1..N, of which Total is one.                        *)
(***************************************************************************)
\* s holds the sums of f up to each place.
Adds(f, s, n) ==
  /\ s \in [0..n -> Int]
  /\ s[0] = 0
  /\ \A i \in 1..n : s[i] = s[i - 1] + f[i]

LEMMA NumOrdersNat == NumOrders \in Nat
BY CashAssumption

LEMMA AddsOneMore ==
  ASSUME NEW N \in Nat, NEW f \in [1..N -> Int], NEW n \in 1..N,
         NEW s, Adds(f, s, n - 1)
  PROVE  \E t : Adds(f, t, n)
<1> DEFINE t == [i \in 0..n |-> IF i = n THEN s[n - 1] + f[n] ELSE s[i]]
<1>1. n \in Nat /\ n # 0 /\ n - 1 \in 0..(n - 1) /\ f[n] \in Int
  OBVIOUS
<1>2. s[n - 1] \in Int
  BY <1>1 DEF Adds
<1>3. t \in [0..n -> Int]
  <2>1. \A i \in 0..n : i # n => i \in 0..(n - 1)
    BY <1>1
  <2> QED BY <1>1, <1>2, <2>1 DEF Adds
<1>4. t[0] = 0
  BY <1>1 DEF Adds
<1>5. ASSUME NEW i \in 1..n PROVE t[i] = t[i - 1] + f[i]
  <2>1. i \in 0..n /\ i - 1 \in 0..n /\ i - 1 # n
    BY <1>1
  <2>2. t[i - 1] = s[i - 1]
    BY <2>1
  <2>3. CASE i = n
    BY <2>1, <2>2, <2>3
  <2>4. CASE i # n
    <3>1. i \in 1..(n - 1)
      BY <1>1, <2>4
    <3>2. t[i] = s[i]
      BY <2>1, <2>4
    <3> QED BY <2>2, <3>1, <3>2 DEF Adds
  <2> QED BY <2>3, <2>4
<1> HIDE DEF t
<1> QED BY <1>3, <1>4, <1>5 DEF Adds

LEMMA SumsExist ==
  ASSUME NEW N \in Nat, NEW f \in [1..N -> Int]
  PROVE  \E s : Adds(f, s, N)
<1> DEFINE S == {n \in 0..N : \E s : Adds(f, s, n)}
<1>1. 0 \in S
  <2>1. Adds(f, [i \in 0..0 |-> 0], 0)
    BY DEF Adds
  <2> QED BY <2>1
<1>2. ASSUME NEW n \in 1..N, n - 1 \in S PROVE n \in S
  <2>1. PICK s : Adds(f, s, n - 1)
    BY <1>2
  <2>2. n \in 0..N
    OBVIOUS
  <2> QED BY <2>1, <2>2, AddsOneMore
<1>3. 0..N \subseteq S
  <2> HIDE DEF S
  <2> QED BY <1>1, <1>2, Upwards
<1>4. N \in 0..N
  OBVIOUS
<1> QED BY <1>3, <1>4

\* Functions f and g on 1..n differ at k, by d.
DifferAt(f, g, n, k, d) ==
  /\ f \in [1..n -> Int] /\ g \in [1..n -> Int]
  /\ g[k] = f[k] + d
  /\ \A i \in 1..n : i # k => g[i] = f[i]

\* Changing one value by d changes the sum by d.
LEMMA SumsChange ==
  ASSUME NEW N \in Nat, NEW f, NEW g, NEW s, NEW t, NEW k \in 1..N, NEW d \in Int,
         DifferAt(f, g, N, k, d), Adds(f, s, N), Adds(g, t, N)
  PROVE  t[N] = s[N] + d
<1> /\ f \in [1..N -> Int] /\ g \in [1..N -> Int]
    /\ g[k] = f[k] + d
    /\ \A i \in 1..N : i # k => g[i] = f[i]
  BY DEF DifferAt
<1> DEFINE Diff(n) == IF n < k THEN 0 ELSE d
           S == {n \in 0..N : t[n] = s[n] + Diff(n)}
<1>1. 0 \in S
  <2>1. 0 < k /\ 0 \in 0..N
    OBVIOUS
  <2>2. t[0] = 0 /\ s[0] = 0
    BY DEF Adds
  <2> QED BY <2>1, <2>2
<1>2. ASSUME NEW n \in 1..N, n - 1 \in S PROVE n \in S
  <2>1. n \in 0..N /\ n - 1 \in 0..N
    OBVIOUS
  <2>2. s[n] = s[n - 1] + f[n] /\ t[n] = t[n - 1] + g[n]
    BY DEF Adds
  <2>3. s[n - 1] \in Int /\ f[n] \in Int
    BY <2>1 DEF Adds
  <2>4. t[n - 1] = s[n - 1] + Diff(n - 1)
    BY <1>2
  <2>5. CASE n = k
    BY <2>1, <2>2, <2>3, <2>4, <2>5
  <2>6. CASE n # k
    <3>1. g[n] = f[n] /\ Diff(n) = Diff(n - 1)
      BY <2>1, <2>6
    <3>2. Diff(n) \in Int
      OBVIOUS
    <3>3. t[n] = s[n] + Diff(n)
      <4> HIDE DEF Diff
      <4> QED BY <2>2, <2>3, <2>4, <3>1, <3>2
    <3> QED BY <2>1, <3>3
  <2> QED BY <2>5, <2>6
<1>3. N \in S
  <2> HIDE DEF S
  <2>1. 0..N \subseteq S
    BY <1>1, <1>2, Upwards
  <2> QED BY <2>1
<1> QED BY <1>3

\* The sum of natural numbers is one, and not less than any of them.
LEMMA SumsAbove ==
  ASSUME NEW N \in Nat, NEW f \in [1..N -> Nat], NEW s, Adds(f, s, N)
  PROVE  s[N] \in Nat /\ \A i \in 1..N : f[i] <= s[N]
<1> DEFINE S == {n \in 0..N : s[n] \in Nat /\ \A i \in 1..n : f[i] <= s[n]}
<1>1. 0 \in S
  BY DEF Adds
<1>2. ASSUME NEW n \in 1..N, n - 1 \in S PROVE n \in S
  <2>1. n \in 0..N /\ n \in Nat /\ f[n] \in Nat /\ s[n] = s[n - 1] + f[n]
    BY DEF Adds
  <2>2. s[n - 1] \in Nat /\ \A i \in 1..(n - 1) : f[i] <= s[n - 1]
    BY <1>2
  <2>3. ASSUME NEW i \in 1..n PROVE f[i] <= s[n]
    <3>1. i \in 1..N /\ f[i] \in Nat
      OBVIOUS
    <3>2. i = n \/ i \in 1..(n - 1)
      BY <2>1
    <3> QED BY <2>1, <2>2, <3>1, <3>2
  <2> QED BY <2>1, <2>2, <2>3
<1>3. N \in S
  <2> HIDE DEF S
  <2>1. 0..N \subseteq S
    BY <1>1, <1>2, Upwards
  <2> QED BY <2>1
<1> QED BY <1>3

LEMMA TotalAdds ==
  ASSUME NEW f \in [Orders -> Int]
  PROVE  \E s : Adds(f, s, NumOrders) /\ Total(f) = s[NumOrders]
<1> DEFINE Def(s) == [n \in 0..NumOrders |-> IF n = 0 THEN 0 ELSE s[n - 1] + f[n]]
           upTo == CHOOSE s : s = Def(s)
<1>1. \E s : s = Def(s)
  <2>1. PICK s : Adds(f, s, NumOrders)
    BY NumOrdersNat, SumsExist DEF Orders
  <2>2. ASSUME NEW n \in 0..NumOrders PROVE s[n] = Def(s)[n]
    <3>1. n # 0 => n \in 1..NumOrders
      BY NumOrdersNat
    <3> QED BY <2>1, <3>1 DEF Adds
  <2>3. s = Def(s)
    BY <2>1, <2>2 DEF Adds
  <2> QED BY <2>3
<1>2. upTo = Def(upTo)
  BY <1>1
<1>3. Total(f) = upTo[NumOrders]
  BY DEF Total
<1>4. Adds(f, upTo, NumOrders)
  <2> HIDE DEF upTo
  <2>1. upTo[0] = 0
    BY <1>2, NumOrdersNat
  <2>2. ASSUME NEW i \in 1..NumOrders PROVE upTo[i] = upTo[i - 1] + f[i]
    <3>1. i \in 0..NumOrders /\ i # 0
      BY NumOrdersNat
    <3> QED BY <1>2, <3>1
  <2> DEFINE S == {n \in 0..NumOrders : upTo[n] \in Int}
  <2>3. 0 \in S
    BY <2>1, NumOrdersNat
  <2>4. ASSUME NEW n \in 1..NumOrders, n - 1 \in S PROVE n \in S
    <3>1. n \in 0..NumOrders /\ f[n] \in Int
      BY NumOrdersNat DEF Orders
    <3> QED BY <2>2, <2>4, <3>1
  <2>5. 0..NumOrders \subseteq S
    <3> HIDE DEF S
    <3> QED BY <2>3, <2>4, NumOrdersNat, Upwards
  <2>6. upTo \in [0..NumOrders -> Int]
    BY <1>2, <2>5
  <2> QED BY <2>1, <2>2, <2>6 DEF Adds
<1> QED BY <1>3, <1>4

\* Changing one value by d changes the total by d.
LEMMA TotalChanges ==
  ASSUME NEW f \in [Orders -> Int], NEW g \in [Orders -> Int],
         NEW k \in Orders, NEW d \in Int,
         g[k] = f[k] + d,
         \A o \in Orders : o # k => g[o] = f[o]
  PROVE  Total(g) = Total(f) + d
<1>1. PICK s : Adds(f, s, NumOrders) /\ Total(f) = s[NumOrders]
  BY TotalAdds
<1>2. PICK t : Adds(g, t, NumOrders) /\ Total(g) = t[NumOrders]
  BY TotalAdds
<1>3. DifferAt(f, g, NumOrders, k, d) /\ k \in 1..NumOrders
  BY DEF Orders, DifferAt
<1>4. t[NumOrders] = s[NumOrders] + d
  BY <1>1, <1>2, <1>3, NumOrdersNat, SumsChange
<1> QED BY <1>1, <1>2, <1>4

LEMMA TotalAbove ==
  ASSUME NEW f \in [Orders -> Nat]
  PROVE  Total(f) \in Nat /\ \A o \in Orders : f[o] <= Total(f)
<1>1. f \in [Orders -> Int]
  OBVIOUS
<1>2. PICK s : Adds(f, s, NumOrders) /\ Total(f) = s[NumOrders]
  BY <1>1, TotalAdds
<1> QED BY <1>2, NumOrdersNat, SumsAbove DEF Orders

LEMMA SumsZero ==
  ASSUME NEW N \in Nat, NEW f, \A i \in 1..N : f[i] = 0, NEW s, Adds(f, s, N)
  PROVE  s[N] = 0
<1> DEFINE S == {n \in 0..N : s[n] = 0}
<1>1. 0 \in S
  BY DEF Adds
<1>2. ASSUME NEW n \in 1..N, n - 1 \in S PROVE n \in S
  <2>1. n \in 0..N /\ f[n] = 0 /\ s[n] = s[n - 1] + f[n]
    BY DEF Adds
  <2> QED BY <1>2, <2>1
<1>3. N \in S
  <2> HIDE DEF S
  <2>1. 0..N \subseteq S
    BY <1>1, <1>2, Upwards
  <2> QED BY <2>1
<1> QED BY <1>3

LEMMA TotalZero ==
  ASSUME NEW f \in [Orders -> Int], \A o \in Orders : f[o] = 0
  PROVE  Total(f) = 0
<1>1. PICK s : Adds(f, s, NumOrders) /\ Total(f) = s[NumOrders]
  BY TotalAdds
<1> QED BY <1>1, NumOrdersNat, SumsZero DEF Orders

(***************************************************************************)
(* Totals of functions that are nowhere above one another.                  *)
(***************************************************************************)
LEMMA SumsOrdered ==
  ASSUME NEW N \in Nat, NEW f \in [1..N -> Int], NEW g \in [1..N -> Int],
         \A i \in 1..N : f[i] <= g[i],
         NEW s, NEW t, Adds(f, s, N), Adds(g, t, N)
  PROVE  s[N] <= t[N]
<1> DEFINE S == {n \in 0..N : s[n] <= t[n]}
<1>1. 0 \in S
  BY DEF Adds
<1>2. ASSUME NEW n \in 1..N, n - 1 \in S PROVE n \in S
  <2>1. n \in 0..N /\ n - 1 \in 0..N
    OBVIOUS
  <2>2. /\ s[n] = s[n - 1] + f[n] /\ t[n] = t[n - 1] + g[n]
        /\ s[n - 1] \in Int /\ t[n - 1] \in Int /\ f[n] \in Int /\ g[n] \in Int
    BY <2>1 DEF Adds
  <2>3. s[n - 1] <= t[n - 1] /\ f[n] <= g[n]
    BY <1>2
  <2> QED BY <2>1, <2>2, <2>3
<1>3. N \in S
  <2> HIDE DEF S
  <2>1. 0..N \subseteq S
    BY <1>1, <1>2, Upwards
  <2> QED BY <2>1
<1> QED BY <1>3

LEMMA TotalOrdered ==
  ASSUME NEW f \in [Orders -> Nat], NEW g \in [Orders -> Nat],
         \A o \in Orders : f[o] <= g[o]
  PROVE  Total(f) <= Total(g)
<1>1. f \in [Orders -> Int] /\ g \in [Orders -> Int]
  OBVIOUS
<1>2. PICK s : Adds(f, s, NumOrders) /\ Total(f) = s[NumOrders]
  BY <1>1, TotalAdds
<1>3. PICK t : Adds(g, t, NumOrders) /\ Total(g) = t[NumOrders]
  BY <1>1, TotalAdds
<1> QED BY <1>1, <1>2, <1>3, NumOrdersNat, SumsOrdered DEF Orders

(***************************************************************************)
(* The inductive invariant: what a document says of its cash fits together, *)
(* the ledger rows fit the documents, and a submission never wants more     *)
(* than its list still has.                                                 *)
(***************************************************************************)
Doc(o) ==
  /\ orders[o].remitted <= orders[o].collected
  /\ o \notin Express /\ ~orders[o].marked => orders[o].collected = 0
  /\ orders[o].paymentStatus = "COD_RECONCILED" => orders[o].collected = orders[o].remitted

Rows(r, o) ==
  /\ debits[r][o] <= orders[o].remitted
  /\ o \notin Express /\ credits[r][o] > 0 =>
       orders[o].marked /\ credits[r][o] = orders[o].collected

EnoughDue(c) == pc[c].at = "submit" => pc[c].left <= Total(pc[c].due)

IInv ==
  /\ TypeOK
  /\ \A o \in Orders : Doc(o)
  /\ \A r \in Riders, o \in Orders : Rows(r, o)
  /\ \A c \in Calls : EnoughDue(c)

AcceptCall == [at : {"accept"}, order : Orders, rider : Riders]
SettleCall == [at : {"settle"}, order : Orders]
MoneyCall == [at : {"collect", "reconcile"}, order : Orders, amount : Nat \ {0},
              partner : Riders \cup {none}]
SubmitCall == [at : {"submit"}, rider : Riders, due : [Orders -> Nat], left : Nat, done : Nat]

LEMMA KindOfCall ==
  ASSUME TypeOK, NEW c \in Calls
  PROVE  /\ pc[c].at = "accept" => pc[c] \in AcceptCall
         /\ pc[c].at = "settle" => pc[c] \in SettleCall
         /\ pc[c].at \in {"collect", "reconcile"} => pc[c] \in MoneyCall
         /\ pc[c].at = "submit" => pc[c] \in SubmitCall
<1>1. pc[c] \in Call
  BY DEF TypeOK
<1> QED
  BY <1>1 DEF Call, Idle, AcceptCall, SettleCall, MoneyCall, SubmitCall

LEMMA AllKinds == Call = {Idle} \cup AcceptCall \cup SettleCall \cup MoneyCall \cup SubmitCall
BY DEF Call, AcceptCall, SettleCall, MoneyCall, SubmitCall

\* What a submission does next.
LEMMA NextPiece ==
  ASSUME IInv, NEW c \in Calls, pc[c].at = "submit", pc[c].left > 0
  PROVE  /\ NextDue(pc[c]) \in Orders /\ pc[c].due[NextDue(pc[c])] > 0
         /\ Wanted(pc[c]) \in Nat \ {0}
         /\ Wanted(pc[c]) <= pc[c].left /\ Wanted(pc[c]) <= pc[c].due[NextDue(pc[c])]
         /\ Submitted(pc[c]) \in SubmitCall
         /\ Submitted(pc[c]).left <= Total(Submitted(pc[c]).due)
         /\ Submitted(pc[c]).rider = pc[c].rider
         /\ Submitted(pc[c]).done = pc[c].done + Wanted(pc[c])
         /\ Submitted(pc[c]).due = [pc[c].due EXCEPT ![NextDue(pc[c])] = 0]
<1> DEFINE p == pc[c]
           D == {o \in Orders : p.due[o] > 0}
           n == NextDue(p)
<1>1. p \in SubmitCall /\ p.left <= Total(p.due)
  BY KindOfCall DEF IInv, EnoughDue
<1>2. p.due \in [Orders -> Nat] /\ p.due \in [Orders -> Int] /\ p.left \in Nat /\ p.done \in Nat
  BY <1>1 DEF SubmitCall
<1>3. D # {}
  <2>1. CASE D = {}
    <3>1. \A o \in Orders : p.due[o] = 0
      BY <1>2, <2>1
    <3>2. Total(p.due) = 0
      <4> HIDE DEF p
      <4> QED BY <1>2, <3>1, TotalZero
    <3> QED BY <1>1, <1>2, <3>2
  <2> QED BY <2>1
<1>4. n \in D
  <2>1. D \subseteq Nat
    BY NumOrdersNat DEF Orders
  <2>2. \E x \in D : \A y \in D : x <= y
    <3> HIDE DEF D
    <3> QED BY <1>3, <2>1, Least
  <2>3. n = Min(D)
    BY DEF NextDue
  <2> HIDE DEF D, n
  <2> QED BY <2>2, <2>3 DEF Min
<1>5. n \in Orders /\ p.due[n] \in Nat /\ p.due[n] > 0
  BY <1>2, <1>4
<1>6. Wanted(p) \in Nat \ {0} /\ Wanted(p) <= p.left /\ Wanted(p) <= p.due[n]
  <2> HIDE DEF p, n
  <2>1. Wanted(p) = IF p.due[n] < p.left THEN p.due[n] ELSE p.left
    BY DEF Wanted, n
  <2>2. p.left > 0
    BY DEF p
  <2> QED BY <1>2, <1>5, <2>1, <2>2
<1>7. Submitted(p) = [p EXCEPT !.due = [p.due EXCEPT ![n] = 0], !.left = p.left - Wanted(p),
                               !.done = p.done + Wanted(p)]
  <2> HIDE DEF p
  <2> QED BY <1>1 DEF Submitted, SubmitCall, n
<1> DEFINE due == [p.due EXCEPT ![n] = 0]
<1>8. due \in [Orders -> Nat] /\ due \in [Orders -> Int]
  <2> HIDE DEF p, n
  <2>1. due \in [Orders -> Nat]
    BY <1>2
  <2> HIDE DEF due
  <2> QED BY <2>1
<1>9. /\ Submitted(p) \in SubmitCall
      /\ Submitted(p).due = due /\ Submitted(p).left = p.left - Wanted(p)
      /\ Submitted(p).rider = p.rider /\ Submitted(p).done = p.done + Wanted(p)
  <2> HIDE DEF due, n
  <2>1. p.left - Wanted(p) \in Nat /\ p.done + Wanted(p) \in Nat
    BY <1>2, <1>6
  <2>2. Submitted(p) = [p EXCEPT !.due = due, !.left = p.left - Wanted(p),
                                 !.done = p.done + Wanted(p)]
    BY <1>7 DEF due
  <2> HIDE DEF p
  <2> QED BY <1>1, <1>8, <2>1, <2>2 DEF SubmitCall
<1>10. Total(due) = Total(p.due) + (0 - p.due[n])
  <2>1. due[n] = p.due[n] + (0 - p.due[n])
    BY <1>2, <1>5
  <2>2. \A o \in Orders : o # n => due[o] = p.due[o]
    BY <1>2
  <2>3. 0 - p.due[n] \in Int
    BY <1>5
  <2> HIDE DEF due, n, p
  <2> QED BY <1>2, <1>5, <1>8, <2>1, <2>2, <2>3, TotalChanges
<1>11. p.left - Wanted(p) <= Total(due)
  <2>1. Total(p.due) \in Nat /\ Total(due) \in Nat
    <3> HIDE DEF due, p
    <3> QED BY <1>2, <1>8, TotalAbove
  <2> HIDE DEF due, p, n
  <2>2. Wanted(p) = p.due[n] \/ Wanted(p) = p.left
    BY DEF Wanted, n
  <2> QED BY <1>1, <1>2, <1>5, <1>6, <1>10, <2>1, <2>2
<1> QED BY <1>5, <1>6, <1>9, <1>11

(***************************************************************************)
(* What a step does to the cash: nothing, whatever becomes of the orders     *)
(* and their riders, or one of two things.                                  *)
(***************************************************************************)
SameCash(x) ==
  /\ orders'[x].collected = orders[x].collected /\ orders'[x].remitted = orders[x].remitted
  /\ orders'[x].marked = orders[x].marked
  /\ orders'[x].paymentStatus = orders[x].paymentStatus

GoesOn ==
  /\ orders' \in [Orders -> Order] /\ \A x \in Orders : SameCash(x)
  /\ UNCHANGED <<cash, admin, credits, debits>>

Collected(o, p, net) ==
  /\ orders' \in [Orders -> Order] /\ \A x \in Orders : x # o => SameCash(x)
  /\ ~orders[o].marked /\ orders'[o].marked
  /\ orders'[o].collected = orders[o].collected + net
  /\ orders'[o].remitted = orders[o].remitted
  /\ orders'[o].paymentStatus = "CASH_COLLECTED"
  /\ cash' = [cash EXCEPT ![p] = @ + net]
  /\ credits' = [credits EXCEPT ![p][o] = @ + net]
  /\ UNCHANGED <<admin, debits>>

HandedOver(o, p, q) ==
  /\ q <= Pending(o)
  /\ orders' \in [Orders -> Order] /\ \A x \in Orders : x # o => SameCash(x)
  /\ orders'[o].marked = orders[o].marked
  /\ orders'[o].collected = orders[o].collected
  /\ orders'[o].remitted = orders[o].remitted + q
  /\ orders'[o].paymentStatus = "COD_RECONCILED" => q = Pending(o)
  /\ cash' = [cash EXCEPT ![p] = AtLeastZero(@ - q)]
  /\ debits' = [debits EXCEPT ![p][o] = @ + q]
  /\ admin' = admin + q
  /\ UNCHANGED credits

Effect ==
  \/ GoesOn
  \/ \E o \in Orders, p \in Riders, net \in Nat : Collected(o, p, net)
  \/ \E o \in Orders, p \in Riders, q \in Nat \ {0} : HandedOver(o, p, q)

LEMMA NetNat == ASSUME NEW amount \in Nat PROVE Net(amount) \in Nat
BY CashAssumption DEF Net, AtLeastZero

LEMMA OrderType ==
  ASSUME TypeOK, NEW o \in Orders
  PROVE  /\ orders \in [Orders -> Order] /\ orders[o] \in Order
         /\ orders[o].ws \in {"search", "assigned", "out", "delivered"}
         /\ orders[o].rider \in Riders \cup {none} /\ orders[o].partner \in Riders \cup {none}
         /\ orders[o].skipped \in SUBSET Riders
         /\ orders[o].collected \in Nat /\ orders[o].remitted \in Nat
         /\ orders[o].marked \in BOOLEAN
<1>1. orders \in [Orders -> Order] /\ orders[o] \in Order
  BY DEF TypeOK
<1> QED
  BY <1>1 DEF Order

\* What one order becomes, the others staying as they are.
LEMMA OneOrder ==
  ASSUME TypeOK, NEW o \in Orders, NEW doc \in Order, orders' = [orders EXCEPT ![o] = doc]
  PROVE  /\ orders' \in [Orders -> Order] /\ orders'[o] = doc
         /\ \A x \in Orders : x # o => orders'[x] = orders[x]
BY OrderType

LEMMA SavedKeeps ==
  ASSUME NEW doc \in Order
  PROVE  /\ Saved(doc) \in Order
         /\ Saved(doc).collected = doc.collected /\ Saved(doc).remitted = doc.remitted
         /\ Saved(doc).marked = doc.marked /\ Saved(doc).paymentStatus = doc.paymentStatus
<1> DEFINE rider == IF doc.rider = none THEN doc.partner ELSE doc.rider
           partner == IF doc.partner = none THEN doc.rider ELSE doc.partner
<1>1. rider \in Riders \cup {none} /\ partner \in Riders \cup {none}
  BY DEF Order
<1>2. Saved(doc) = [doc EXCEPT !.rider = rider, !.partner = partner]
  BY DEF Saved, Order
<1> HIDE DEF rider, partner
<1> QED BY <1>1, <1>2 DEF Order

\* A document whose cash stays as it is.
LEMMA DocGoesOn ==
  ASSUME TypeOK, NEW o \in Orders, NEW doc \in Order, orders' = [orders EXCEPT ![o] = doc],
         doc.collected = orders[o].collected, doc.remitted = orders[o].remitted,
         doc.marked = orders[o].marked, doc.paymentStatus = orders[o].paymentStatus,
         UNCHANGED <<cash, admin, credits, debits>>
  PROVE  GoesOn
BY OneOrder DEF GoesOn, SameCash

LEMMA NothingGoesOn ==
  ASSUME TypeOK, UNCHANGED <<orders, cash, admin, credits, debits>>
  PROVE  Effect
BY DEF TypeOK, Effect, GoesOn, SameCash

LEMMA AcceptEffect ==
  ASSUME TypeOK, NEW c \in Calls, AcceptWrites(c)
  PROVE  Effect
<1> DEFINE o == pc[c].order
           r == pc[c].rider
           doc == [orders[o] EXCEPT !.ws = "assigned", !.status = "open", !.rider = r,
                                    !.partner = r]
<1>1. o \in Orders /\ r \in Riders
  BY KindOfCall DEF AcceptWrites, AcceptCall
<1>2. UNCHANGED <<cash, admin, credits, debits>>
  BY DEF AcceptWrites, Money
<1>3. CASE orders' = orders
  BY <1>2, <1>3, NothingGoesOn
<1>4. CASE orders' # orders
  <2>1. orders' = [orders EXCEPT ![o].ws = "assigned", ![o].status = "open",
                                 ![o].rider = r, ![o].partner = r]
    BY <1>4 DEF AcceptWrites
  <2> HIDE DEF o, r
  <2>2. orders' = [orders EXCEPT ![o] = doc] /\ doc \in Order
        /\ doc.collected = orders[o].collected /\ doc.remitted = orders[o].remitted
        /\ doc.marked = orders[o].marked /\ doc.paymentStatus = orders[o].paymentStatus
    BY <1>1, <2>1, OrderType DEF Order
  <2> HIDE DEF doc
  <2> QED BY <1>1, <1>2, <2>2, DocGoesOn DEF Effect
<1> QED BY <1>3, <1>4

\* A document whose stage is written, or that loses its rider.
Alike(new, doc) ==
  /\ new \in Order
  /\ new.collected = doc.collected /\ new.remitted = doc.remitted
  /\ new.marked = doc.marked /\ new.paymentStatus = doc.paymentStatus

LEMMA StageWritten ==
  ASSUME NEW doc \in Order, NEW ws \in {"search", "assigned", "out", "delivered"},
         NEW status \in {"open", "delivered"}, NEW new,
         new = [doc EXCEPT !.ws = ws, !.status = status]
  PROVE  Alike(new, doc)
<1>1. new \in Order
  BY DEF Order
<1>2. new.collected = doc.collected /\ new.remitted = doc.remitted
  BY DEF Order
<1>3. new.marked = doc.marked /\ new.paymentStatus = doc.paymentStatus
  BY DEF Order
<1> QED BY <1>1, <1>2, <1>3 DEF Alike

LEMMA RiderLost ==
  ASSUME NEW doc \in Order, NEW skipped \in SUBSET Riders, NEW new,
         new = [doc EXCEPT !.ws = "search", !.status = "open", !.rider = none,
                           !.skipped = skipped]
  PROVE  Alike(new, doc)
<1>1. new \in Order
  BY DEF Order
<1>2. new.collected = doc.collected /\ new.remitted = doc.remitted
  BY DEF Order
<1>3. new.marked = doc.marked /\ new.paymentStatus = doc.paymentStatus
  BY DEF Order
<1> QED BY <1>1, <1>2, <1>3 DEF Alike

LEMMA AlikeEffect ==
  ASSUME TypeOK, NEW o \in Orders, NEW new, Alike(new, orders[o]),
         orders' = [orders EXCEPT ![o] = new], UNCHANGED <<cash, admin, credits, debits>>
  PROVE  Effect
BY DocGoesOn DEF Effect, Alike

LEMMA RideEffect ==
  ASSUME TypeOK, NEW o \in Orders,
         \/ RidesOn(o, "assigned") \/ RidesOn(o, "out")
         \/ BacksOut(o)
         \/ \E c \in Calls : HandoffDelivers(c, o)
  PROVE  Effect
<1>1. UNCHANGED <<cash, admin, credits, debits>>
  BY DEF RidesOn, BacksOut, HandoffDelivers, Money
<1>2. orders[o] \in Order /\ orders \in [Orders -> Order]
  BY OrderType
<1>3. ASSUME BacksOut(o) PROVE Effect
  <2> DEFINE skipped == orders[o].skipped \cup {orders[o].rider}
             new == [orders[o] EXCEPT !.ws = "search", !.status = "open", !.rider = none,
                                      !.skipped = skipped]
  <2>1. skipped \in SUBSET Riders
    BY <1>3, OrderType DEF BacksOut
  <2>2. orders' = [orders EXCEPT ![o] = new]
    BY <1>2, <1>3 DEF BacksOut
  <2> HIDE DEF skipped
  <2>3. Alike(new, orders[o])
    BY <1>2, <2>1, RiderLost
  <2> HIDE DEF new
  <2> QED BY <1>1, <2>2, <2>3, AlikeEffect
<1>4. ASSUME NEW ws \in {"assigned", "out", "delivered"}, NEW status \in {"open", "delivered"},
             orders' = [orders EXCEPT ![o].ws = ws, ![o].status = status]
      PROVE  Effect
  <2> DEFINE new == [orders[o] EXCEPT !.ws = ws, !.status = status]
  <2>1. orders' = [orders EXCEPT ![o] = new]
    BY <1>2, <1>4
  <2>2. Alike(new, orders[o])
    BY <1>2, StageWritten
  <2> HIDE DEF new
  <2> QED BY <1>1, <2>1, <2>2, AlikeEffect
<1>5. ASSUME NEW c \in Calls, HandoffDelivers(c, o) PROVE Effect
  BY <1>4, <1>5 DEF HandoffDelivers
<1>6. ASSUME RidesOn(o, "assigned") \/ RidesOn(o, "out") PROVE Effect
  BY <1>4, <1>6 DEF RidesOn
<1> QED BY <1>3, <1>5, <1>6

\* What settleDeliveredOrder leaves of the document.
LEMMA SettlementKeeps ==
  ASSUME NEW doc \in Order
  PROVE  /\ AfterSettlement(doc) \in Order
         /\ AfterSettlement(doc).collected = doc.collected
         /\ AfterSettlement(doc).remitted = doc.remitted
         /\ AfterSettlement(doc).marked = doc.marked
         /\ AfterSettlement(doc).paymentStatus = doc.paymentStatus
         /\ AfterSettlement(doc).rider \in Riders \cup {none}
<1> DEFINE new == [doc EXCEPT !.status = "delivered", !.applied = TRUE]
<1>1. new \in Order /\ new.collected = doc.collected /\ new.remitted = doc.remitted
      /\ new.marked = doc.marked /\ new.paymentStatus = doc.paymentStatus
  BY DEF Order
<1>2. AfterSettlement(doc) = IF doc.applied THEN doc ELSE Saved(new)
  BY DEF AfterSettlement
<1> HIDE DEF new
<1>3. AfterSettlement(doc) \in Order
  BY <1>1, <1>2, SavedKeeps
<1> QED BY <1>1, <1>2, <1>3, SavedKeeps DEF Order

LEMMA SettlesEffect ==
  ASSUME TypeOK, NEW c \in Calls, Settles(c)
  PROVE  Effect
<1>1. pc[c].order \in Orders
  BY KindOfCall DEF Settles, SettleCall
<1>2. /\ orders' = [orders EXCEPT ![pc[c].order] = AfterSettlement(orders[pc[c].order])]
      /\ UNCHANGED <<cash, admin, credits, debits>>
  BY DEF Settles, Money
<1>3. orders[pc[c].order] \in Order
  BY <1>1, OrderType
<1> QED BY <1>1, <1>2, <1>3, SettlementKeeps, DocGoesOn DEF Effect

LEMMA CollectEffect ==
  ASSUME TypeOK, NEW o \in Orders, NEW p \in Riders, NEW net \in Nat,
         ~orders[o].marked, Collect(o, p, net), UNCHANGED <<admin, debits>>
  PROVE  Effect
<1> DEFINE partner == IF none \in {orders[o].rider, orders[o].partner}
                      THEN p ELSE orders[o].partner
           doc == [orders[o] EXCEPT !.rider = p, !.partner = partner, !.marked = TRUE,
                     !.collected = orders[o].collected + net, !.paymentStatus = "CASH_COLLECTED"]
<1>1. /\ orders[o] \in Order /\ partner \in Riders \cup {none}
      /\ orders[o].collected + net \in Nat
  BY OrderType
<1>2. orders' = [orders EXCEPT ![o] = doc]
  BY DEF Collect
<1> HIDE DEF partner
<1>3. /\ doc \in Order /\ doc.marked = TRUE /\ doc.collected = orders[o].collected + net
      /\ doc.remitted = orders[o].remitted /\ doc.paymentStatus = "CASH_COLLECTED"
  BY <1>1 DEF Order
<1> HIDE DEF doc
<1>4. Collected(o, p, net)
  BY <1>2, <1>3, OneOrder DEF Collect, Collected, SameCash
<1> QED BY <1>4 DEF Effect

LEMMA ReconcileEffect ==
  ASSUME TypeOK, NEW o \in Orders, NEW p \in Riders, NEW q \in Nat \ {0},
         Reconcilable(o, q, p), Reconcile(o, q, p), UNCHANGED credits
  PROVE  HandedOver(o, p, q)
<1> DEFINE paymentStatus == IF q = Pending(o) THEN "COD_RECONCILED" ELSE "PARTIALLY_REMITTED"
           doc == [orders[o] EXCEPT !.remitted = orders[o].remitted + q,
                                    !.paymentStatus = paymentStatus]
<1>1. orders[o] \in Order /\ orders[o].remitted + q \in Nat
  BY OrderType
<1>2. orders' = [orders EXCEPT ![o] = Saved(doc)]
  BY DEF Reconcile
<1>3. /\ paymentStatus \in {"COD_RECONCILED", "PARTIALLY_REMITTED"}
      /\ paymentStatus = "COD_RECONCILED" => q = Pending(o)
  OBVIOUS
<1> HIDE DEF paymentStatus
<1>4. /\ doc \in Order /\ doc.marked = orders[o].marked /\ doc.collected = orders[o].collected
      /\ doc.remitted = orders[o].remitted + q /\ doc.paymentStatus = paymentStatus
  BY <1>1, <1>3 DEF Order
<1> HIDE DEF doc
<1>5. /\ Saved(doc) \in Order /\ Saved(doc).marked = orders[o].marked
      /\ Saved(doc).collected = orders[o].collected
      /\ Saved(doc).remitted = orders[o].remitted + q
      /\ Saved(doc).paymentStatus = "COD_RECONCILED" => q = Pending(o)
  BY <1>3, <1>4, SavedKeeps
<1>6. /\ orders' \in [Orders -> Order] /\ orders'[o] = Saved(doc)
      /\ \A x \in Orders : x # o => orders'[x] = orders[x]
  BY <1>2, <1>5, OneOrder
<1>7. q <= Pending(o)
  BY DEF Reconcilable
<1>8. /\ cash' = [cash EXCEPT ![p] = AtLeastZero(@ - q)]
      /\ debits' = [debits EXCEPT ![p][o] = @ + q] /\ admin' = admin + q
  BY DEF Reconcile
<1> QED BY <1>5, <1>6, <1>7, <1>8 DEF HandedOver, SameCash

LEMMA StepHasEffect ==
  ASSUME IInv, Next
  PROVE  Effect
<1> USE DEF Money
<1>1. TypeOK
  BY DEF IInv
<1>2. ASSUME NEW c \in Calls, NEW o \in Orders, NEW r, NEW amount, NEW partner,
             \/ AcceptChecks(c, r, o) \/ DeliveredRequested(c, o)
             \/ MarkCollected(c, o, amount, partner) \/ ReconcileRequested(c, o, amount, partner)
             \/ SubmitReads(c, r, amount)
      PROVE  Effect
  <2>1. UNCHANGED <<orders, cash, admin, credits, debits>>
    BY <1>2 DEF AcceptChecks, DeliveredRequested, MarkCollected, ReconcileRequested, SubmitReads
  <2> QED BY <1>1, <2>1, NothingGoesOn
<1>3. ASSUME NEW c \in Calls, SubmitRecords(c) \/ Fails(c) PROVE Effect
  BY <1>1, <1>3, NothingGoesOn DEF SubmitRecords, Fails
<1>4. ASSUME NEW amount, SettleRiderCash(amount) PROVE Effect
  BY <1>1, <1>4, NothingGoesOn DEF SettleRiderCash
<1>5. ASSUME NEW c \in Calls, NEW o \in Orders, HandoffDelivers(c, o) PROVE Effect
  BY <1>1, <1>5, RideEffect
<1>6. ASSUME Ride PROVE Effect
  BY <1>1, <1>6, RideEffect DEF Ride
<1>7. ASSUME NEW c \in Calls, CollectsCod(c) PROVE Effect
  <2> DEFINE o == pc[c].order
             p == IF orders[o].rider # none THEN orders[o].rider ELSE pc[c].partner
             net == Net(pc[c].amount)
  <2>1. o \in Orders /\ p \in Riders \cup {none} /\ net \in Nat
    BY <1>1, <1>7, KindOfCall, OrderType, NetNat DEF CollectsCod, MoneyCall
  <2>2. UNCHANGED <<admin, debits>>
    BY <1>7 DEF CollectsCod
  <2>3. CASE Collectable(o) /\ p # none
    <3>1. Collect(o, p, net) /\ ~orders[o].marked
      BY <1>7, <2>3 DEF CollectsCod, Collectable
    <3> HIDE DEF o, p, net
    <3> QED BY <1>1, <2>1, <2>2, <2>3, <3>1, CollectEffect
  <2>4. CASE ~(Collectable(o) /\ p # none)
    <3>1. UNCHANGED <<orders, cash, admin, credits, debits>>
      BY <1>7, <2>2, <2>4 DEF CollectsCod
    <3> QED BY <1>1, <3>1, NothingGoesOn
  <2> QED BY <2>3, <2>4
<1>8. ASSUME NEW c \in Calls, Reconciles(c) PROVE Effect
  <2> DEFINE o == pc[c].order
             p == IF pc[c].partner # none THEN pc[c].partner ELSE orders[o].rider
             q == pc[c].amount
  <2>1. o \in Orders /\ p \in Riders \cup {none} /\ q \in Nat \ {0} /\ UNCHANGED credits
    BY <1>1, <1>8, KindOfCall, OrderType DEF Reconciles, MoneyCall
  <2>2. CASE Reconcilable(o, q, p)
    <3>1. Reconcile(o, q, p)
      BY <1>8, <2>2 DEF Reconciles
    <3> HIDE DEF o, p, q
    <3>2. p \in Riders
      BY <2>1, <2>2 DEF Reconcilable
    <3>3. HandedOver(o, p, q)
      BY <1>1, <2>1, <2>2, <3>1, <3>2, ReconcileEffect
    <3> QED BY <2>1, <3>2, <3>3 DEF Effect
  <2>3. CASE ~Reconcilable(o, q, p)
    <3>1. UNCHANGED <<orders, cash, admin, credits, debits>>
      BY <1>8, <2>1, <2>3 DEF Reconciles
    <3> QED BY <1>1, <3>1, NothingGoesOn
  <2> QED BY <2>2, <2>3
<1>9. ASSUME NEW c \in Calls, Submits(c) PROVE Effect
  <2> DEFINE o == NextDue(pc[c])
             p == pc[c].rider
             q == Wanted(pc[c])
  <2>1. o \in Orders /\ p \in Riders /\ q \in Nat \ {0}
    <3>1. pc[c].at = "submit" /\ pc[c].left > 0
      BY <1>9 DEF Submits
    <3> QED BY <1>1, <3>1, KindOfCall, NextPiece DEF SubmitCall
  <2>2. UNCHANGED credits
    BY <1>9 DEF Submits
  <2>3. CASE Reconcilable(o, q, p)
    <3>1. Reconcile(o, q, p)
      BY <1>9, <2>3 DEF Submits
    <3> HIDE DEF o, p, q
    <3>2. HandedOver(o, p, q)
      BY <1>1, <2>1, <2>2, <2>3, <3>1, ReconcileEffect
    <3> QED BY <2>1, <3>2 DEF Effect
  <2>4. CASE ~Reconcilable(o, q, p)
    <3>1. UNCHANGED <<orders, cash, admin, credits, debits>>
      BY <1>9, <2>2, <2>4 DEF Submits
    <3> QED BY <1>1, <3>1, NothingGoesOn
  <2> QED BY <2>3, <2>4
<1>10. ASSUME NEW c \in Calls, Request(c) PROVE Effect
  BY <1>2, <1>5, <1>10 DEF Request
<1>11. ASSUME NEW c \in Calls, Submission(c) PROVE Effect
  <2>1. PICK r \in Riders : \E amount : SubmitReads(c, r, amount)
    BY <1>11 DEF Submission
  <2>2. UNCHANGED <<orders, cash, admin, credits, debits>>
    BY <2>1 DEF SubmitReads
  <2> QED BY <1>1, <2>2, NothingGoesOn
<1>12. ASSUME NEW c \in Calls, Continue(c) PROVE Effect
  BY <1>1, <1>3, <1>7, <1>8, <1>9, <1>12, AcceptEffect, SettlesEffect DEF Continue
<1> QED BY <1>4, <1>6, <1>10, <1>11, <1>12 DEF Next

(***************************************************************************)
(* The invariant is inductive.                                              *)
(***************************************************************************)
MoneyOK ==
  /\ orders' \in [Orders -> Order] /\ \A o \in Orders : Doc(o)'
  /\ \A r \in Riders, o \in Orders : Rows(r, o)'
  /\ cash' \in [Riders -> Nat] /\ admin' \in Nat
  /\ credits' \in [Riders -> [Orders -> Nat]] /\ debits' \in [Riders -> [Orders -> Nat]]

\* One entry of the ledger grows.
LEMMA RowGrows ==
  ASSUME NEW f \in [Riders -> [Orders -> Nat]], NEW r \in Riders, NEW o \in Orders, NEW n \in Nat,
         NEW g, g = [f EXCEPT ![r][o] = @ + n]
  PROVE  /\ g \in [Riders -> [Orders -> Nat]]
         /\ g[r][o] = f[r][o] + n
         /\ \A x \in Orders : x # o => g[r][x] = f[r][x]
         /\ \A y \in Riders : y # r => g[y] = f[y]
OBVIOUS

LEMMA MoneyKept ==
  ASSUME IInv, Effect
  PROVE  MoneyOK
<1>1. /\ TypeOK /\ (\A o \in Orders : Doc(o)) /\ (\A r \in Riders, o \in Orders : Rows(r, o))
      /\ orders \in [Orders -> Order] /\ cash \in [Riders -> Nat] /\ admin \in Nat
      /\ credits \in [Riders -> [Orders -> Nat]] /\ debits \in [Riders -> [Orders -> Nat]]
  BY DEF IInv, TypeOK
<1>2. ASSUME NEW x \in Orders, SameCash(x) PROVE Doc(x)'
  BY <1>1, <1>2 DEF SameCash, Doc
<1>3. ASSUME NEW r \in Riders, NEW x \in Orders, SameCash(x),
             credits'[r][x] = credits[r][x], debits'[r][x] = debits[r][x]
      PROVE  Rows(r, x)'
  BY <1>1, <1>3 DEF SameCash, Rows
<1>4. CASE GoesOn
  BY <1>1, <1>2, <1>3, <1>4 DEF GoesOn, MoneyOK
<1>5. ASSUME NEW o \in Orders, NEW p \in Riders, NEW net \in Nat, Collected(o, p, net)
      PROVE  MoneyOK
  <2>1. /\ Doc(o) /\ orders[o].collected \in Nat /\ orders[o].remitted \in Nat
        /\ ~orders[o].marked /\ orders'[o].marked
        /\ orders'[o].collected = orders[o].collected + net
        /\ orders'[o].remitted = orders[o].remitted
        /\ orders'[o].paymentStatus = "CASH_COLLECTED"
        /\ \A x \in Orders : x # o => SameCash(x)
        /\ orders' \in [Orders -> Order] /\ admin' = admin /\ debits' = debits
    BY <1>1, <1>5, OrderType DEF Collected
  <2>2. Doc(o)'
    BY <2>1 DEF Doc
  <2>3. /\ credits' \in [Riders -> [Orders -> Nat]]
        /\ credits'[p][o] = credits[p][o] + net
        /\ \A x \in Orders : x # o => credits'[p][x] = credits[p][x]
        /\ \A r \in Riders : r # p => credits'[r] = credits[r]
    <3>1. credits' = [credits EXCEPT ![p][o] = @ + net]
      BY <1>5 DEF Collected
    <3> DEFINE new == credits'
    <3> HIDE DEF new
    <3>2. new = [credits EXCEPT ![p][o] = @ + net]
      BY <3>1 DEF new
    <3>3. /\ new \in [Riders -> [Orders -> Nat]] /\ new[p][o] = credits[p][o] + net
          /\ \A x \in Orders : x # o => new[p][x] = credits[p][x]
          /\ \A r \in Riders : r # p => new[r] = credits[r]
      BY <1>1, <3>2, RowGrows
    <3> QED BY <3>3 DEF new
  <2>4. cash' \in [Riders -> Nat]
    BY <1>1, <1>5 DEF Collected
  <2>5. ASSUME NEW r \in Riders PROVE Rows(r, o)'
    <3>1. Rows(r, o) /\ credits[r][o] \in Nat
      BY <1>1
    \* Nobody has a row of an order that is not marked, express orders apart.
    <3>2. o \notin Express => orders[o].collected = 0 /\ ~(credits[r][o] > 0)
      BY <2>1, <3>1 DEF Doc, Rows
    <3>3. credits[r][o] \in Nat /\ (r = p \/ credits'[r][o] = credits[r][o])
      BY <1>1, <2>3
    <3>4. o \notin Express /\ credits'[r][o] > 0 => credits'[r][o] = orders'[o].collected
      BY <2>1, <2>3, <3>2, <3>3
    <3> QED BY <2>1, <3>1, <3>4 DEF Rows
  <2>6. ASSUME NEW x \in Orders PROVE Doc(x)' /\ \A r \in Riders : Rows(r, x)'
    <3>1. CASE x = o
      BY <2>2, <2>5, <3>1
    <3>2. CASE x # o
      <4>1. \A r \in Riders : credits'[r][x] = credits[r][x] /\ debits'[r][x] = debits[r][x]
        BY <2>1, <2>3, <3>2
      <4> QED BY <1>2, <1>3, <2>1, <3>2, <4>1
    <3> QED BY <3>1, <3>2
  <2> QED BY <1>1, <2>1, <2>3, <2>4, <2>6 DEF MoneyOK
<1>6. ASSUME NEW o \in Orders, NEW p \in Riders, NEW q \in Nat \ {0}, HandedOver(o, p, q)
      PROVE  MoneyOK
  <2>1. /\ Doc(o) /\ orders[o].collected \in Nat /\ orders[o].remitted \in Nat
        /\ q <= orders[o].collected - orders[o].remitted
        /\ orders'[o].marked = orders[o].marked
        /\ orders'[o].collected = orders[o].collected
        /\ orders'[o].remitted = orders[o].remitted + q
        /\ orders'[o].paymentStatus = "COD_RECONCILED" => q = orders[o].collected - orders[o].remitted
        /\ \A x \in Orders : x # o => SameCash(x)
        /\ orders' \in [Orders -> Order] /\ admin' = admin + q /\ credits' = credits
    BY <1>1, <1>6, OrderType DEF HandedOver, Pending
  <2>2. Doc(o)'
    BY <2>1 DEF Doc
  <2>3. /\ debits' \in [Riders -> [Orders -> Nat]]
        /\ debits'[p][o] = debits[p][o] + q
        /\ \A x \in Orders : x # o => debits'[p][x] = debits[p][x]
        /\ \A r \in Riders : r # p => debits'[r] = debits[r]
    <3>1. debits' = [debits EXCEPT ![p][o] = @ + q]
      BY <1>6 DEF HandedOver
    <3> DEFINE new == debits'
    <3> HIDE DEF new
    <3>2. new = [debits EXCEPT ![p][o] = @ + q] /\ q \in Nat
      BY <3>1 DEF new
    <3>3. /\ new \in [Riders -> [Orders -> Nat]] /\ new[p][o] = debits[p][o] + q
          /\ \A x \in Orders : x # o => new[p][x] = debits[p][x]
          /\ \A r \in Riders : r # p => new[r] = debits[r]
      BY <1>1, <3>2, RowGrows
    <3> QED BY <3>3 DEF new
  <2>4. cash' \in [Riders -> Nat] /\ admin' \in Nat
    <3>1. AtLeastZero(cash[p] - q) \in Nat
      BY <1>1 DEF AtLeastZero
    <3> QED BY <1>1, <1>6, <2>1, <3>1 DEF HandedOver
  <2>5. ASSUME NEW r \in Riders PROVE Rows(r, o)'
    <3>1. Rows(r, o) /\ debits[r][o] \in Nat /\ (r = p \/ debits'[r][o] = debits[r][o])
      BY <1>1, <2>3
    <3>2. debits'[r][o] <= orders'[o].remitted
      BY <2>1, <2>3, <3>1 DEF Rows
    <3> QED BY <2>1, <3>1, <3>2 DEF Rows
  <2>6. ASSUME NEW x \in Orders PROVE Doc(x)' /\ \A r \in Riders : Rows(r, x)'
    <3>1. CASE x = o
      BY <2>2, <2>5, <3>1
    <3>2. CASE x # o
      <4>1. \A r \in Riders : credits'[r][x] = credits[r][x] /\ debits'[r][x] = debits[r][x]
        BY <2>1, <2>3, <3>2
      <4> QED BY <1>2, <1>3, <2>1, <3>2, <4>1
    <3> QED BY <3>1, <3>2
  <2> QED BY <1>1, <2>1, <2>3, <2>4, <2>6 DEF MoneyOK
<1> QED BY <1>4, <1>5, <1>6 DEF Effect

(***************************************************************************)
(* The calls.                                                               *)
(***************************************************************************)
CallsOK ==
  /\ pc' \in [Calls -> Call] /\ \A c \in Calls : EnoughDue(c)'
  /\ slips' \in [Riders -> Nat] /\ settled' \in Nat

LEMMA GoesTo ==
  ASSUME IInv, NEW c \in Calls, NEW step \in Call, Goto(c, step),
         step.at = "submit" => step.left <= Total(step.due)
  PROVE  pc' \in [Calls -> Call] /\ \A x \in Calls : EnoughDue(x)'
<1>1. pc \in [Calls -> Call] /\ \A x \in Calls : EnoughDue(x)
  BY DEF IInv, TypeOK
<1>2. pc' = [pc EXCEPT ![c] = step]
  BY DEF Goto
<1>3. ASSUME NEW x \in Calls PROVE EnoughDue(x)'
  <2>1. CASE x = c
    <3>1. pc'[x] = step
      BY <1>1, <1>2, <2>1
    <3> QED BY <3>1 DEF EnoughDue
  <2>2. CASE x # c
    <3>1. pc'[x] = pc[x]
      BY <1>1, <1>2, <2>2
    <3> QED BY <1>1, <3>1 DEF EnoughDue
  <2> QED BY <2>1, <2>2
<1> QED BY <1>1, <1>2, <1>3

LEMMA EndsKept ==
  ASSUME IInv, NEW c \in Calls, Ends(c)
  PROVE  pc' \in [Calls -> Call] /\ \A x \in Calls : EnoughDue(x)'
<1>1. Idle \in Call /\ Idle.at # "submit"
  BY DEF Call, Idle
<1> QED BY <1>1, GoesTo DEF Ends

\* What a rider has pending is a list of natural numbers.
LEMMA DueTyped ==
  ASSUME TypeOK, \A o \in Orders : Doc(o), NEW r
  PROVE  Due(r) \in [Orders -> Nat]
<1>1. ASSUME NEW o \in Orders PROVE Pending(o) \in Nat
  <2>1. /\ orders[o].remitted <= orders[o].collected
        /\ orders[o].collected \in Nat /\ orders[o].remitted \in Nat
    BY OrderType DEF Doc
  <2> QED BY <2>1 DEF Pending
<1> QED BY <1>1 DEF Due

LEMMA CallsKept ==
  ASSUME IInv, Next
  PROVE  CallsOK
<1> USE DEF Money, CallsOK
<1>1. /\ TypeOK /\ \A o \in Orders : Doc(o)
      /\ \A x \in Calls : EnoughDue(x)
      /\ pc \in [Calls -> Call] /\ slips \in [Riders -> Nat] /\ settled \in Nat
  BY DEF IInv, TypeOK
<1>2. ASSUME NEW c \in Calls, NEW o \in Orders, NEW r \in Riders, AcceptChecks(c, r, o)
      PROVE  CallsOK
  <2> DEFINE step == [at |-> "accept", order |-> o, rider |-> r]
  <2>1. step \in Call /\ step.at # "submit"
    BY DEF Call
  <2>2. Goto(c, step) /\ UNCHANGED <<slips, settled>>
    BY <1>2 DEF AcceptChecks
  <2> HIDE DEF step
  <2> QED BY <1>1, <2>1, <2>2, GoesTo
<1>3. ASSUME NEW c \in Calls, NEW o \in Orders, HandoffDelivers(c, o) \/ DeliveredRequested(c, o)
      PROVE  CallsOK
  <2> DEFINE step == [at |-> "settle", order |-> o]
  <2>1. step \in Call /\ step.at # "submit"
    BY DEF Call
  <2>2. Goto(c, step) /\ UNCHANGED <<slips, settled>>
    BY <1>3 DEF HandoffDelivers, DeliveredRequested
  <2> HIDE DEF step
  <2> QED BY <1>1, <2>1, <2>2, GoesTo
<1>4. ASSUME NEW c \in Calls, NEW o \in Orders, NEW amount \in Nat \ {0},
             NEW partner \in Riders \cup {none}, MarkCollected(c, o, amount, partner)
      PROVE  CallsOK
  <2> DEFINE step == [at |-> "collect", order |-> o, amount |-> amount, partner |-> partner]
  <2>1. step \in Call /\ step.at # "submit"
    BY DEF Call
  <2>2. Goto(c, step) /\ UNCHANGED <<slips, settled>>
    BY <1>4 DEF MarkCollected
  <2> HIDE DEF step
  <2> QED BY <1>1, <2>1, <2>2, GoesTo
<1>5. ASSUME NEW c \in Calls, NEW o \in Orders, NEW amount \in Nat \ {0},
             NEW partner \in Riders \cup {none}, ReconcileRequested(c, o, amount, partner)
      PROVE  CallsOK
  <2> DEFINE step == [at |-> "reconcile", order |-> o, amount |-> amount, partner |-> partner]
  <2>1. step \in Call /\ step.at # "submit"
    BY DEF Call
  <2>2. Goto(c, step) /\ UNCHANGED <<slips, settled>>
    BY <1>5 DEF ReconcileRequested
  <2> HIDE DEF step
  <2> QED BY <1>1, <2>1, <2>2, GoesTo
<1>6. ASSUME Ride PROVE CallsOK
  <2>1. pc' = pc /\ slips' = slips /\ settled' = settled
    BY <1>6 DEF Ride, RidesOn, BacksOut
  <2>2. ASSUME NEW c \in Calls PROVE EnoughDue(c)'
    BY <1>1, <2>1 DEF EnoughDue
  <2> QED BY <1>1, <2>1, <2>2
<1>7. ASSUME NEW c \in Calls, NEW r \in Riders, NEW amount \in Int, amount > 0,
             SubmitReads(c, r, amount)
      PROVE  CallsOK
  <2> DEFINE step == [at |-> "submit", rider |-> r, due |-> Due(r), left |-> amount, done |-> 0]
  <2>1. Due(r) \in [Orders -> Nat] /\ amount <= Total(Due(r))
    BY <1>1, <1>7, DueTyped DEF SubmitReads
  <2>2. step \in Call /\ step.left <= Total(step.due)
    BY <1>7, <2>1 DEF Call
  <2>3. Goto(c, step) /\ UNCHANGED <<slips, settled>>
    BY <1>7 DEF SubmitReads
  <2> HIDE DEF step
  <2> QED BY <1>1, <2>2, <2>3, GoesTo
<1>8. ASSUME NEW c \in Calls, AcceptWrites(c) \/ CollectsCod(c) \/ Reconciles(c) \/ Fails(c)
      PROVE  CallsOK
  <2>1. Ends(c) /\ UNCHANGED <<slips, settled>>
    BY <1>8 DEF AcceptWrites, CollectsCod, Reconciles, Fails
  <2> QED BY <1>1, <2>1, EndsKept
<1>9. ASSUME NEW c \in Calls, Settles(c) PROVE CallsOK
  <2> DEFINE o == pc[c].order
             step == [at |-> "collect", order |-> o, amount |-> Gross,
                      partner |-> AfterSettlement(orders[o]).rider]
  <2>1. o \in Orders
    BY <1>1, <1>9, KindOfCall DEF Settles, SettleCall
  <2>2. UNCHANGED <<slips, settled>> /\ (Ends(c) \/ Goto(c, step))
    BY <1>9 DEF Settles
  <2>3. AfterSettlement(orders[o]).rider \in Riders \cup {none}
    BY <1>1, <2>1, OrderType, SettlementKeeps
  <2> HIDE DEF o
  <2>4. step \in Call /\ step.at # "submit"
    BY <2>1, <2>3, CashAssumption DEF Call
  <2> HIDE DEF step
  <2> QED BY <1>1, <2>2, <2>4, GoesTo, EndsKept
<1>10. ASSUME NEW c \in Calls, Submits(c) PROVE CallsOK
  <2>1. /\ pc[c].at = "submit" /\ pc[c].left > 0
        /\ UNCHANGED <<slips, settled>>
        /\ Ends(c) \/ Goto(c, Submitted(pc[c]))
    BY <1>10 DEF Submits, AfterError
  <2>2. Submitted(pc[c]) \in Call /\ Submitted(pc[c]).left <= Total(Submitted(pc[c]).due)
    BY <2>1, NextPiece, AllKinds
  <2> QED BY <1>1, <2>1, <2>2, GoesTo, EndsKept
<1>11. ASSUME NEW c \in Calls, SubmitRecords(c) PROVE CallsOK
  <2>1. pc[c] \in SubmitCall /\ Ends(c) /\ UNCHANGED settled
    BY <1>1, <1>11, KindOfCall DEF SubmitRecords
  <2>2. slips' \in [Riders -> Nat]
    BY <1>1, <1>11, <2>1 DEF SubmitRecords, SubmitCall
  <2> QED BY <1>1, <2>1, <2>2, EndsKept
<1>12. ASSUME NEW amount \in Amounts, SettleRiderCash(amount) PROVE CallsOK
  <2>1. settled' \in Nat
    BY <1>1, <1>12, CashAssumption DEF SettleRiderCash
  <2>2. pc' = pc /\ slips' = slips
    BY <1>12 DEF SettleRiderCash
  <2>3. ASSUME NEW c \in Calls PROVE EnoughDue(c)'
    BY <1>1, <2>2 DEF EnoughDue
  <2> QED BY <1>1, <2>1, <2>2, <2>3
<1>13. ASSUME NEW c \in Calls, NEW r \in Riders,
              NEW amount \in (Amounts \cup {Total(Due(r))}) \ {0}, SubmitReads(c, r, amount)
       PROVE  CallsOK
  <2>1. Total(Due(r)) \in Nat
    BY <1>1, DueTyped, TotalAbove
  <2>2. amount \in Int /\ amount > 0
    BY <1>13, <2>1, CashAssumption
  <2> QED BY <1>7, <1>13, <2>2
<1>14. Amounts \cup {Gross} \subseteq Nat \ {0}
  BY CashAssumption
<1>15. ASSUME NEW c \in Calls, Request(c) PROVE CallsOK
  BY <1>2, <1>3, <1>4, <1>5, <1>14, <1>15 DEF Request
<1>16. ASSUME NEW c \in Calls, Submission(c) PROVE CallsOK
  BY <1>13, <1>16 DEF Submission
<1>17. ASSUME NEW c \in Calls, Continue(c) PROVE CallsOK
  BY <1>8, <1>9, <1>10, <1>11, <1>17 DEF Continue
<1> QED BY <1>6, <1>12, <1>15, <1>16, <1>17 DEF Next

LEMMA Inductive == IInv /\ [Next]_vars => IInv'
<1> SUFFICES ASSUME IInv, [Next]_vars PROVE IInv'
  OBVIOUS
<1>1. CASE Next
  <2>1. MoneyOK /\ CallsOK
    BY <1>1, StepHasEffect, MoneyKept, CallsKept
  <2> QED BY <2>1 DEF MoneyOK, CallsOK, IInv, TypeOK
<1>2. CASE UNCHANGED vars
  <2>1. /\ orders' = orders /\ cash' = cash /\ admin' = admin /\ credits' = credits
        /\ debits' = debits /\ slips' = slips /\ settled' = settled /\ pc' = pc
    BY <1>2 DEF vars, Money
  <2>2. TypeOK'
    BY <2>1 DEF IInv, TypeOK
  <2>3. (\A o \in Orders : Doc(o)') /\ \A r \in Riders, o \in Orders : Rows(r, o)'
    BY <2>1 DEF IInv, Doc, Rows
  <2>4. \A c \in Calls : EnoughDue(c)'
    BY <2>1 DEF IInv, EnoughDue
  <2> QED BY <2>2, <2>3, <2>4 DEF IInv
<1> QED BY <1>1, <1>2

LEMMA Initially == Init => IInv
<1> SUFFICES ASSUME Init PROVE IInv
  OBVIOUS
<1>1. orders \in [Orders -> Order]
  BY CashAssumption DEF Init, Order
<1>2. /\ cash \in [Riders -> Nat] /\ admin \in Nat /\ slips \in [Riders -> Nat]
      /\ settled \in Nat
      /\ credits \in [Riders -> [Orders -> Nat]] /\ debits \in [Riders -> [Orders -> Nat]]
  BY DEF Init
<1>3. pc \in [Calls -> Call] /\ \A c \in Calls : pc[c] = Idle
  BY DEF Init, Call
<1>4. \A c \in Calls : EnoughDue(c)
  BY <1>3 DEF EnoughDue, Idle
<1>5. ASSUME NEW o \in Orders PROVE Doc(o) /\ \A r \in Riders : Rows(r, o)
  <2>1. /\ orders[o].remitted = 0 /\ orders[o].marked = FALSE
        /\ orders[o].collected = IF o \in Express THEN Gross ELSE 0
        /\ orders[o].paymentStatus = "PENDING_CASH_COLLECTION"
        /\ \A r \in Riders : credits[r][o] = 0 /\ debits[r][o] = 0
    BY <1>5 DEF Init
  <2> QED BY <2>1, CashAssumption DEF Doc, Rows
<1> QED BY <1>1, <1>2, <1>3, <1>4, <1>5 DEF IInv, TypeOK

LEMMA Always == Spec => []IInv
BY Initially, Inductive, PTL DEF Spec

\* No call, order or wallet ever holds anything but what the code puts there;
\* in particular no wallet and no pending amount is ever negative.
THEOREM TypeCorrect == Spec => []TypeOK
<1>1. IInv => TypeOK
  BY DEF IInv
<1> QED BY <1>1, Always, PTL

(***************************************************************************)
(* The cash of an order is collected once.                                  *)
(***************************************************************************)
StaysCollected(o) == orders[o].marked =>
  /\ orders'[o].marked
  /\ orders'[o].collected = orders[o].collected
  /\ orders[o].paymentStatus = "COD_RECONCILED" => orders'[o].paymentStatus = "COD_RECONCILED"

LEMMA EffectCollectsOnce ==
  ASSUME IInv, Effect, NEW x \in Orders
  PROVE  StaysCollected(x)
<1>1. TypeOK /\ Doc(x) /\ orders[x].collected \in Nat /\ orders[x].remitted \in Nat
  BY OrderType DEF IInv
<1>2. SameCash(x) => StaysCollected(x)
  BY DEF SameCash, StaysCollected
<1>3. CASE GoesOn
  BY <1>2, <1>3 DEF GoesOn
<1>4. ASSUME NEW o \in Orders, NEW p \in Riders, NEW net \in Nat, Collected(o, p, net)
      PROVE  StaysCollected(x)
  BY <1>2, <1>4 DEF Collected, StaysCollected
<1>5. ASSUME NEW o \in Orders, NEW p \in Riders, NEW q \in Nat \ {0}, HandedOver(o, p, q)
      PROVE  StaysCollected(x)
  <2>1. CASE x # o
    BY <1>2, <1>5, <2>1 DEF HandedOver
  <2>2. CASE x = o
    <3>1. q <= orders[x].collected - orders[x].remitted
      BY <1>5, <2>2 DEF HandedOver, Pending
    \* What is reconciled has nothing pending that could be handed over.
    <3>2. orders[x].paymentStatus # "COD_RECONCILED"
      BY <1>1, <3>1 DEF Doc
    <3> QED BY <1>5, <2>2, <3>2 DEF HandedOver, StaysCollected
  <2> QED BY <2>1, <2>2
<1> QED BY <1>3, <1>4, <1>5 DEF Effect

\* Whoever tries, in whatever order, and whoever has the order by then: its cash is
\* collected once, and what was collected and reconciled stays reconciled.
THEOREM CollectedOnceCorrect == Spec => CollectedOnce
<1> DEFINE Once == \A o \in Orders : StaysCollected(o)
<1>1. IInv /\ [Next]_vars => [Once]_orders
  <2>1. ASSUME IInv, Next PROVE Once
    BY <2>1, StepHasEffect, EffectCollectsOnce
  <2>2. UNCHANGED vars => UNCHANGED orders
    BY DEF vars
  <2> QED BY <2>1, <2>2
<1>2. [][Once]_orders <=> CollectedOnce
  BY DEF CollectedOnce, StaysCollected
<1> HIDE DEF Once
<1> QED BY <1>1, <1>2, Always, PTL DEF Spec

(***************************************************************************)
(* Wallets, ledger and orders agree.  The ledger's rows of a rider and what *)
(* the orders show as remitted are summed up; a step changes one entry.      *)
(***************************************************************************)
Remitted == [o \in Orders |-> orders[o].remitted]

Wallet(r) ==
  /\ cash[r] >= Total(credits[r]) - Total(debits[r])
  /\ RemitsHisOwn(r) => cash[r] = Total(credits[r]) - Total(debits[r])

CInv ==
  /\ admin = Total(Remitted)
  /\ \A r \in Riders : Wallet(r)

LEMMA RemittedTyped ==
  ASSUME orders \in [Orders -> Order]
  PROVE  Remitted \in [Orders -> Nat] /\ Remitted \in [Orders -> Int] /\ Total(Remitted) \in Nat
<1>1. \A o \in Orders : orders[o].remitted \in Nat
  BY DEF Order
<1>2. Remitted \in [Orders -> Nat]
  BY <1>1 DEF Remitted
<1>3. Remitted \in [Orders -> Int]
  BY <1>2
<1> QED BY <1>2, <1>3, TotalAbove

LEMMA RemittedNext ==
  ASSUME MoneyOK
  PROVE  Remitted' \in [Orders -> Nat] /\ Remitted' \in [Orders -> Int]
<1>1. \A o \in Orders : orders'[o].remitted \in Nat
  BY DEF MoneyOK, Order
<1>2. Remitted' \in [Orders -> Nat]
  BY <1>1 DEF Remitted
<1> QED BY <1>2

LEMMA RowsTyped ==
  ASSUME NEW f \in [Riders -> [Orders -> Nat]], NEW r \in Riders
  PROVE  f[r] \in [Orders -> Nat] /\ f[r] \in [Orders -> Int] /\ Total(f[r]) \in Nat
<1>1. f[r] \in [Orders -> Nat]
  OBVIOUS
<1>2. f[r] \in [Orders -> Int]
  BY <1>1
<1> QED BY <1>1, <1>2, TotalAbove

\* Nothing was remitted of an order whose cash was not collected, express orders apart.
LEMMA CollectedWallets ==
  ASSUME IInv, MoneyOK, NEW o \in Orders, NEW p \in Riders, NEW net \in Nat,
         Collected(o, p, net), NEW r \in Riders, Wallet(r)
  PROVE  Wallet(r)'
<1>1. /\ cash \in [Riders -> Nat]
      /\ credits \in [Riders -> [Orders -> Nat]] /\ debits \in [Riders -> [Orders -> Nat]]
      /\ Doc(o) /\ Rows(r, o) /\ orders[o].remitted \in Nat /\ orders[o].collected \in Nat
  BY OrderType DEF IInv, TypeOK
<1>2. /\ cash' = [cash EXCEPT ![p] = @ + net] /\ credits' = [credits EXCEPT ![p][o] = @ + net]
      /\ debits' = debits /\ ~orders[o].marked
  BY DEF Collected
<1> DEFINE new == credits'
<1>3. /\ new \in [Riders -> [Orders -> Nat]]
      /\ Total(new[p]) = Total(credits[p]) + net
      /\ \A y \in Riders : y # p => new[y] = credits[y]
      /\ \A x \in Orders : x # o => new[p][x] = credits[p][x]
  <2>1. new = [credits EXCEPT ![p][o] = @ + net]
    BY <1>2
  <2> HIDE DEF new
  <2>2. /\ new \in [Riders -> [Orders -> Nat]] /\ new[p][o] = credits[p][o] + net
        /\ \A x \in Orders : x # o => new[p][x] = credits[p][x]
        /\ \A y \in Riders : y # p => new[y] = credits[y]
    BY <1>1, <2>1, RowGrows
  <2> DEFINE a == credits[p]
             b == new[p]
  <2>3. /\ a \in [Orders -> Int] /\ b \in [Orders -> Int] /\ net \in Int
        /\ b[o] = a[o] + net /\ \A x \in Orders : x # o => b[x] = a[x]
    BY <1>1, <2>2, RowsTyped
  <2> HIDE DEF a, b
  <2>4. Total(b) = Total(a) + net
    BY <2>3, TotalChanges
  <2> QED BY <2>2, <2>4 DEF a, b
<1>4. /\ Total(credits[r]) \in Nat /\ Total(debits[r]) \in Nat /\ cash[r] \in Nat
      /\ debits[r][o] \in Nat
  BY <1>1, RowsTyped
<1>5. RemitsHisOwn(r)' => RemitsHisOwn(r)
  <2> SUFFICES ASSUME RemitsHisOwn(r)', NEW x \in Orders, debits[r][x] > 0
               PROVE  x \notin Express /\ credits[r][x] > 0
    BY DEF RemitsHisOwn
  <2>1. x \notin Express /\ new[r][x] > 0
    BY <1>2 DEF RemitsHisOwn
  <2>2. x # o
    <3>1. o \notin Express => debits[r][o] <= 0
      BY <1>1, <1>2, <1>4 DEF Doc, Rows
    <3> QED BY <1>4, <2>1, <3>1
  <2>3. new[r][x] = credits[r][x]
    <3> HIDE DEF new
    <3> QED BY <1>3, <2>2
  <2> QED BY <2>1, <2>3
<1>6. CASE r = p
  <2>1. cash'[r] = cash[r] + net /\ Total(new[r]) = Total(credits[r]) + net
    BY <1>1, <1>2, <1>3, <1>6
  <2>2. /\ cash'[r] >= Total(new[r]) - Total(debits[r])
        /\ RemitsHisOwn(r)' => cash'[r] = Total(new[r]) - Total(debits[r])
    <3> HIDE DEF new
    <3> QED BY <1>4, <1>5, <2>1 DEF Wallet
  <2> QED BY <1>2, <2>2 DEF Wallet
<1>7. CASE r # p
  <2>1. cash'[r] = cash[r] /\ new[r] = credits[r]
    BY <1>1, <1>2, <1>3, <1>7
  <2>2. /\ cash'[r] >= Total(new[r]) - Total(debits[r])
        /\ RemitsHisOwn(r)' => cash'[r] = Total(new[r]) - Total(debits[r])
    <3> HIDE DEF new
    <3> QED BY <1>5, <2>1 DEF Wallet
  <2> QED BY <1>2, <2>2 DEF Wallet
<1> QED BY <1>6, <1>7

\* A rider who remits only what he collected has it in his wallet.
LEMMA HandedOverWallets ==
  ASSUME IInv, MoneyOK, NEW o \in Orders, NEW p \in Riders, NEW q \in Nat \ {0},
         HandedOver(o, p, q), NEW r \in Riders, Wallet(r)
  PROVE  Wallet(r)'
<1>1. /\ cash \in [Riders -> Nat]
      /\ credits \in [Riders -> [Orders -> Nat]] /\ debits \in [Riders -> [Orders -> Nat]]
  BY DEF IInv, TypeOK
<1>2. /\ cash' = [cash EXCEPT ![p] = AtLeastZero(@ - q)]
      /\ debits' = [debits EXCEPT ![p][o] = @ + q] /\ credits' = credits
  BY DEF HandedOver
<1> DEFINE new == debits'
<1>3. /\ new \in [Riders -> [Orders -> Nat]]
      /\ Total(new[p]) = Total(debits[p]) + q
      /\ \A y \in Riders : y # p => new[y] = debits[y]
      /\ new[p][o] = debits[p][o] + q
      /\ \A x \in Orders : x # o => new[p][x] = debits[p][x]
  <2>1. new = [debits EXCEPT ![p][o] = @ + q] /\ q \in Nat
    BY <1>2
  <2> HIDE DEF new
  <2>2. /\ new \in [Riders -> [Orders -> Nat]] /\ new[p][o] = debits[p][o] + q
        /\ \A x \in Orders : x # o => new[p][x] = debits[p][x]
        /\ \A y \in Riders : y # p => new[y] = debits[y]
    BY <1>1, <2>1, RowGrows
  <2> DEFINE a == debits[p]
             b == new[p]
  <2>3. /\ a \in [Orders -> Int] /\ b \in [Orders -> Int] /\ q \in Int
        /\ b[o] = a[o] + q /\ \A x \in Orders : x # o => b[x] = a[x]
    BY <1>1, <2>2, RowsTyped
  <2> HIDE DEF a, b
  <2>4. Total(b) = Total(a) + q
    BY <2>3, TotalChanges
  <2> QED BY <2>2, <2>4 DEF a, b
<1>4. Total(credits[r]) \in Nat /\ Total(debits[r]) \in Nat /\ cash[r] \in Nat
  BY <1>1, RowsTyped
<1>5. RemitsHisOwn(r)' => RemitsHisOwn(r)
  <2> SUFFICES ASSUME RemitsHisOwn(r)', NEW x \in Orders, debits[r][x] > 0
               PROVE  x \notin Express /\ credits[r][x] > 0
    BY DEF RemitsHisOwn
  <2>1. new[r][x] > 0
    <3>1. debits[r][x] \in Nat /\ debits[p][o] \in Nat
      BY <1>1
    <3> HIDE DEF new
    <3>2. new[r][x] >= debits[r][x]
      <4>1. CASE r = p /\ x = o
        BY <1>3, <3>1, <4>1
      <4>2. CASE r = p /\ x # o
        BY <1>3, <3>1, <4>2
      <4>3. CASE r # p
        BY <1>3, <3>1, <4>3
      <4> QED BY <4>1, <4>2, <4>3
    <3>3. new[r][x] \in Nat
      BY <1>3
    <3> QED BY <3>1, <3>2, <3>3
  <2> QED BY <1>2, <2>1 DEF RemitsHisOwn
<1>6. CASE r = p
  <2>1. cash'[r] = AtLeastZero(cash[r] - q) /\ Total(new[r]) = Total(debits[r]) + q
    BY <1>1, <1>2, <1>3, <1>6
  <2>2. RemitsHisOwn(r)' => Total(new[r]) <= Total(credits[r])
    <3> SUFFICES ASSUME RemitsHisOwn(r)' PROVE Total(new[r]) <= Total(credits[r])
      OBVIOUS
    <3>1. ASSUME NEW x \in Orders PROVE new[r][x] <= credits[r][x]
      <4>1. new[r][x] \in Nat /\ credits[r][x] \in Nat
        <5> HIDE DEF new
        <5> QED BY <1>1, <1>3
      <4>2. CASE new[r][x] = 0
        <5> HIDE DEF new
        <5> QED BY <4>1, <4>2
      <4>3. CASE new[r][x] > 0
        <5>1. x \notin Express /\ credits[r][x] > 0
          BY <1>2, <4>3 DEF RemitsHisOwn
        <5>2. Rows(r, x)' /\ Doc(x)' /\ orders'[x].remitted \in Nat /\ orders'[x].collected \in Nat
          BY DEF MoneyOK, Order
        <5>3. /\ new[r][x] <= orders'[x].remitted
              /\ orders'[x].remitted <= orders'[x].collected
              /\ credits[r][x] = orders'[x].collected
          BY <1>2, <5>1, <5>2 DEF Rows, Doc
        <5> HIDE DEF new
        <5> QED BY <4>1, <5>2, <5>3
      <4> QED
        <5> HIDE DEF new
        <5> QED BY <4>1, <4>2, <4>3
    <3>2. new[r] \in [Orders -> Nat] /\ credits[r] \in [Orders -> Nat]
      <4> HIDE DEF new
      <4> QED BY <1>1, <1>3
    <3> HIDE DEF new
    <3> QED BY <3>1, <3>2, TotalOrdered
  <2>3. /\ cash'[r] >= Total(credits[r]) - Total(new[r])
        /\ RemitsHisOwn(r)' => cash'[r] = Total(credits[r]) - Total(new[r])
    <3> HIDE DEF new
    <3> QED BY <1>4, <1>5, <2>1, <2>2 DEF Wallet, AtLeastZero
  <2> QED BY <1>2, <2>3 DEF Wallet
<1>7. CASE r # p
  <2>1. cash'[r] = cash[r] /\ new[r] = debits[r]
    BY <1>1, <1>2, <1>3, <1>7
  <2>2. /\ cash'[r] >= Total(credits[r]) - Total(new[r])
        /\ RemitsHisOwn(r)' => cash'[r] = Total(credits[r]) - Total(new[r])
    <3> HIDE DEF new
    <3> QED BY <1>5, <2>1 DEF Wallet
  <2> QED BY <1>2, <2>2 DEF Wallet
<1> QED BY <1>6, <1>7

LEMMA AdminKept ==
  ASSUME IInv, MoneyOK, Effect, admin = Total(Remitted)
  PROVE  admin' = Total(Remitted')
<1>1. orders \in [Orders -> Order] /\ admin \in Nat
  BY DEF IInv, TypeOK
<1>2. ASSUME admin' = admin, \A x \in Orders : orders'[x].remitted = orders[x].remitted
      PROVE  admin' = Total(Remitted')
  <2>1. Remitted' = Remitted
    BY <1>2 DEF Remitted
  <2> QED BY <1>2, <2>1
<1>3. CASE GoesOn
  BY <1>2, <1>3 DEF GoesOn, SameCash
<1>4. ASSUME NEW o \in Orders, NEW p \in Riders, NEW net \in Nat, Collected(o, p, net)
      PROVE  admin' = Total(Remitted')
  <2>1. \A x \in Orders : orders'[x].remitted = orders[x].remitted
    BY <1>4 DEF Collected, SameCash
  <2> QED BY <1>2, <1>4, <2>1 DEF Collected
<1>5. ASSUME NEW o \in Orders, NEW p \in Riders, NEW q \in Nat \ {0}, HandedOver(o, p, q)
      PROVE  admin' = Total(Remitted')
  <2> DEFINE f == Remitted
             g == Remitted'
  <2>1. f \in [Orders -> Int] /\ g \in [Orders -> Int] /\ q \in Int
    BY <1>1, RemittedTyped, RemittedNext
  <2>2. g[o] = f[o] + q /\ \A x \in Orders : x # o => g[x] = f[x]
    BY <1>5 DEF HandedOver, SameCash, Remitted
  <2> HIDE DEF f, g
  <2>3. Total(g) = Total(f) + q
    BY <2>1, <2>2, TotalChanges
  <2>4. admin' = admin + q
    BY <1>5 DEF HandedOver
  <2> QED BY <2>3, <2>4 DEF f, g
<1> QED BY <1>3, <1>4, <1>5 DEF Effect

LEMMA CashKept ==
  ASSUME IInv, CInv, Next
  PROVE  CInv'
<1>1. Effect /\ MoneyOK
  BY StepHasEffect, MoneyKept
<1>2. ASSUME NEW r \in Riders PROVE Wallet(r)'
  <2>1. Wallet(r)
    BY DEF CInv
  <2>2. CASE GoesOn
    BY <2>1, <2>2 DEF GoesOn, Wallet, RemitsHisOwn
  <2> QED BY <1>1, <2>1, <2>2, CollectedWallets, HandedOverWallets DEF Effect
<1>3. admin' = Total(Remitted')
  BY <1>1, AdminKept DEF CInv
<1> QED BY <1>2, <1>3 DEF CInv

LEMMA CashInitially == ASSUME Init PROVE CInv
<1>1. /\ IInv /\ orders \in [Orders -> Order]
      /\ credits \in [Riders -> [Orders -> Nat]] /\ debits \in [Riders -> [Orders -> Nat]]
  BY Initially DEF IInv, TypeOK
<1>2. Total(Remitted) = 0
  <2>1. \A o \in Orders : Remitted[o] = 0
    BY DEF Init, Remitted
  <2> QED BY <1>1, <2>1, RemittedTyped, TotalZero
<1>3. ASSUME NEW r \in Riders PROVE Wallet(r)
  <2>1. \A o \in Orders : credits[r][o] = 0 /\ debits[r][o] = 0
    BY DEF Init
  <2>2. Total(credits[r]) = 0 /\ Total(debits[r]) = 0
    BY <1>1, <2>1, RowsTyped, TotalZero
  <2>3. cash[r] = 0
    BY DEF Init
  <2> QED BY <2>2, <2>3 DEF Wallet
<1>4. admin = 0
  BY DEF Init
<1> QED BY <1>2, <1>3, <1>4 DEF CInv

\* Express orders, riders who back out of collected orders and requests that name
\* another rider included: the administrator has what the orders show as remitted, no
\* order remits more than was collected, no wallet is short of its rows in the ledger,
\* and the wallet of a rider who remits only his own collections is exact.
THEOREM CashCorrect == Spec => []CashAccounted
<1>1. IInv /\ CInv /\ [Next]_vars => CInv'
  <2> SUFFICES ASSUME IInv, CInv, [Next]_vars PROVE CInv'
    OBVIOUS
  <2>1. CASE UNCHANGED vars
    <3>1. /\ orders' = orders /\ cash' = cash /\ admin' = admin
          /\ credits' = credits /\ debits' = debits
      BY <2>1 DEF vars, Money
    <3> QED BY <3>1 DEF CInv, Wallet, Remitted, RemitsHisOwn
  <2> QED BY <2>1, CashKept
<1>2. IInv /\ CInv => CashAccounted
  BY DEF IInv, Doc, CInv, Wallet, Remitted, CashAccounted
<1> QED BY <1>1, <1>2, CashInitially, Always, PTL DEF Spec

(***************************************************************************)
(* Submissions are backed.  A submission that has not recorded its          *)
(* Transaction has a claim to what it handed over so far; a rider's          *)
(* Transactions and the claims of all his submissions under way are never    *)
(* more than the ledger's rows of what was remitted in his name.  The calls  *)
(* are numbered to add up the claims.                                        *)
(***************************************************************************)
NumCalls == Cardinality(Calls)
Numbered == CHOOSE f : f \in Bijection(1..NumCalls, Calls)

LEMMA CallsNumbered ==
  /\ NumCalls \in Nat
  /\ Numbered \in [1..NumCalls -> Calls]
  /\ \A c \in Calls : \E i \in 1..NumCalls :
       Numbered[i] = c /\ \A j \in 1..NumCalls : j # i => Numbered[j] # c
<1>1. NumCalls \in Nat /\ \E f : f \in Bijection(1..NumCalls, Calls)
  BY CashAssumption, FS_CardinalityType DEF NumCalls, ExistsBijection
<1>2. Numbered \in Bijection(1..NumCalls, Calls)
  BY <1>1 DEF Numbered
<1> QED BY <1>1, <1>2 DEF Bijection, Injection, Surjection, IsInjective

ClaimOf(r, step) == IF step.at = "submit" /\ step.rider = r THEN step.done ELSE 0

\* The claims of rider r's submissions when the calls stand at p.
Claims(r, p) == [i \in 1..NumCalls |-> ClaimOf(r, p[Numbered[i]])]
Claimed(r, p) == (CHOOSE s : Adds(Claims(r, p), s, NumCalls))[NumCalls]

LEMMA ClaimNat == ASSUME NEW r, NEW step \in Call PROVE ClaimOf(r, step) \in Nat
BY DEF ClaimOf, Call, Idle

LEMMA ClaimedAdds ==
  ASSUME NEW r, NEW p \in [Calls -> Call]
  PROVE  /\ Claims(r, p) \in [1..NumCalls -> Nat] /\ Claims(r, p) \in [1..NumCalls -> Int]
         /\ Claimed(r, p) \in Nat
         /\ \E s : Adds(Claims(r, p), s, NumCalls) /\ Claimed(r, p) = s[NumCalls]
<1>1. \A i \in 1..NumCalls : ClaimOf(r, p[Numbered[i]]) \in Nat
  BY CallsNumbered, ClaimNat
<1>2. Claims(r, p) \in [1..NumCalls -> Nat]
  BY <1>1 DEF Claims
<1>3. Claims(r, p) \in [1..NumCalls -> Int]
  BY <1>2
<1>4. \E s : Adds(Claims(r, p), s, NumCalls)
  BY <1>3, CallsNumbered, SumsExist
<1>5. PICK s : Adds(Claims(r, p), s, NumCalls) /\ Claimed(r, p) = s[NumCalls]
  BY <1>4 DEF Claimed
<1>6. Claimed(r, p) \in Nat
  BY <1>2, <1>5, CallsNumbered, SumsAbove
<1> QED BY <1>2, <1>3, <1>5, <1>6

\* A call that goes on changes the claims by its own.
LEMMA ClaimedChanges ==
  ASSUME NEW r, NEW p \in [Calls -> Call], NEW c \in Calls, NEW step \in Call,
         NEW q, q = [p EXCEPT ![c] = step]
  PROVE  Claimed(r, q) = Claimed(r, p) + (ClaimOf(r, step) - ClaimOf(r, p[c]))
<1>1. q \in [Calls -> Call]
  OBVIOUS
<1>2. PICK i \in 1..NumCalls :
        Numbered[i] = c /\ \A j \in 1..NumCalls : j # i => Numbered[j] # c
  BY CallsNumbered
<1>3. PICK s : Adds(Claims(r, p), s, NumCalls) /\ Claimed(r, p) = s[NumCalls]
  BY ClaimedAdds
<1>4. PICK t : Adds(Claims(r, q), t, NumCalls) /\ Claimed(r, q) = t[NumCalls]
  BY <1>1, ClaimedAdds
<1>5. ClaimOf(r, step) \in Nat /\ ClaimOf(r, p[c]) \in Nat
  BY ClaimNat
<1> DEFINE d == ClaimOf(r, step) - ClaimOf(r, p[c])
<1>6. d \in Int /\ Claims(r, q)[i] = Claims(r, p)[i] + d
  BY <1>2, <1>5 DEF Claims
<1>7. ASSUME NEW j \in 1..NumCalls, j # i PROVE Claims(r, q)[j] = Claims(r, p)[j]
  <2>1. Numbered[j] \in Calls /\ Numbered[j] # c
    BY <1>2, <1>7, CallsNumbered
  <2> QED BY <2>1 DEF Claims
<1>8. Claims(r, p) \in [1..NumCalls -> Int] /\ Claims(r, q) \in [1..NumCalls -> Int]
  BY <1>1, ClaimedAdds
<1>9. DifferAt(Claims(r, p), Claims(r, q), NumCalls, i, d)
  BY <1>6, <1>7, <1>8 DEF DifferAt
<1>10. t[NumCalls] = s[NumCalls] + d
  <2>1. NumCalls \in Nat
    BY CallsNumbered
  <2> HIDE DEF d
  <2> QED BY <1>3, <1>4, <1>6, <1>9, <2>1, SumsChange
<1> QED BY <1>3, <1>4, <1>10

(***************************************************************************)
(* What was remitted in a rider's name only grows.                           *)
(***************************************************************************)
Given(r) == Total(debits[r])

LEMMA GivenTyped ==
  ASSUME TypeOK, NEW r \in Riders
  PROVE  debits[r] \in [Orders -> Nat] /\ debits[r] \in [Orders -> Int] /\ Given(r) \in Nat
<1>1. debits \in [Riders -> [Orders -> Nat]]
  BY DEF TypeOK
<1> QED BY <1>1, RowsTyped DEF Given

LEMMA GivenNext ==
  ASSUME MoneyOK, NEW r \in Riders
  PROVE  debits'[r] \in [Orders -> Nat] /\ debits'[r] \in [Orders -> Int] /\ Given(r)' \in Nat
<1> DEFINE new == debits'
<1>1. new \in [Riders -> [Orders -> Nat]]
  BY DEF MoneyOK
<1>2. Given(r)' = Total(new[r])
  BY DEF Given
<1> HIDE DEF new
<1>3. new[r] \in [Orders -> Nat] /\ new[r] \in [Orders -> Int] /\ Total(new[r]) \in Nat
  BY <1>1, RowsTyped
<1> QED BY <1>2, <1>3 DEF new

\* By what is handed over in his name.
LEMMA GivenAdds ==
  ASSUME TypeOK, MoneyOK, NEW o \in Orders, NEW p \in Riders, NEW q \in Nat,
         debits' = [debits EXCEPT ![p][o] = @ + q]
  PROVE  Given(p)' = Given(p) + q /\ \A r \in Riders : r # p => Given(r)' = Given(r)
<1> DEFINE new == debits'
<1>1. new = [debits EXCEPT ![p][o] = @ + q] /\ debits \in [Riders -> [Orders -> Nat]]
  BY DEF TypeOK
<1> HIDE DEF new
<1>2. /\ new \in [Riders -> [Orders -> Nat]] /\ new[p][o] = debits[p][o] + q
      /\ \A x \in Orders : x # o => new[p][x] = debits[p][x]
      /\ \A r \in Riders : r # p => new[r] = debits[r]
  BY <1>1, RowGrows
<1> DEFINE a == debits[p]
           b == new[p]
<1>3. /\ a \in [Orders -> Int] /\ b \in [Orders -> Int] /\ q \in Int
      /\ b[o] = a[o] + q /\ \A x \in Orders : x # o => b[x] = a[x]
  BY <1>1, <1>2, RowsTyped
<1> HIDE DEF a, b
<1>4. Total(b) = Total(a) + q
  BY <1>3, TotalChanges
<1>5. Given(p)' = Total(b) /\ Given(p) = Total(a)
  BY DEF Given, a, b, new
<1>6. ASSUME NEW r \in Riders, r # p PROVE Given(r)' = Given(r)
  <2>1. debits'[r] = debits[r]
    BY <1>2, <1>6 DEF new
  <2> QED BY <2>1 DEF Given
<1> QED BY <1>4, <1>5, <1>6

LEMMA GivenGrows ==
  ASSUME TypeOK, MoneyOK, Effect, NEW r \in Riders
  PROVE  Given(r) <= Given(r)'
<1>1. Given(r) \in Nat
  BY GivenTyped
<1>2. CASE debits' = debits
  <2>1. Given(r)' = Given(r)
    BY <1>2 DEF Given
  <2> QED BY <1>1, <2>1
<1>3. ASSUME NEW o \in Orders, NEW p \in Riders, NEW q \in Nat \ {0}, HandedOver(o, p, q)
      PROVE  Given(r) <= Given(r)'
  <2>1. q \in Nat /\ debits' = [debits EXCEPT ![p][o] = @ + q]
    BY <1>3 DEF HandedOver
  <2>2. Given(p)' = Given(p) + q /\ (r # p => Given(r)' = Given(r))
    BY <2>1, GivenAdds
  <2> QED BY <1>1, <2>1, <2>2
<1> QED BY <1>2, <1>3 DEF Effect, GoesOn, Collected

(***************************************************************************)
(* What the calls do to the claims.                                         *)
(***************************************************************************)
\* Call c goes on to something else than a submission, or reads the list of one,
\* or hands over what is due of an order, or records what it handed over.
GoesElsewhere(c) == UNCHANGED slips /\ \E step : step.at # "submit" /\ Goto(c, step)

Lists(c) == UNCHANGED slips /\ \E step :
  /\ step.at = "submit" /\ step.rider \in Riders /\ step.due = Due(step.rider) /\ step.done = 0
  /\ Goto(c, step)

HandsOver(c) ==
  /\ pc[c].at = "submit" /\ pc[c].left > 0
  /\ Reconcilable(NextDue(pc[c]), Wanted(pc[c]), pc[c].rider)
  /\ Reconcile(NextDue(pc[c]), Wanted(pc[c]), pc[c].rider)
  /\ Goto(c, Submitted(pc[c]))
  /\ UNCHANGED slips

Turn(c) == GoesElsewhere(c) \/ Lists(c) \/ HandsOver(c) \/ SubmitRecords(c)

LEMMA IdleElsewhere == ASSUME NEW c, Ends(c), UNCHANGED slips PROVE Turn(c)
BY DEF Ends, Idle, GoesElsewhere, Turn

LEMMA CallsTurn ==
  ASSUME Next
  PROVE  UNCHANGED <<pc, slips>> \/ \E c \in Calls : Turn(c)
<1> USE DEF Money
<1>1. ASSUME NEW c \in Calls, NEW o, NEW r, AcceptChecks(c, r, o) PROVE Turn(c)
  <2> DEFINE step == [at |-> "accept", order |-> o, rider |-> r]
  <2>1. step.at # "submit" /\ Goto(c, step) /\ UNCHANGED slips
    BY <1>1 DEF AcceptChecks
  <2> HIDE DEF step
  <2> QED BY <2>1 DEF GoesElsewhere, Turn
<1>2. ASSUME NEW c \in Calls, NEW o, HandoffDelivers(c, o) \/ DeliveredRequested(c, o) PROVE Turn(c)
  <2> DEFINE step == [at |-> "settle", order |-> o]
  <2>1. step.at # "submit" /\ Goto(c, step) /\ UNCHANGED slips
    BY <1>2 DEF HandoffDelivers, DeliveredRequested
  <2> HIDE DEF step
  <2> QED BY <2>1 DEF GoesElsewhere, Turn
<1>3. ASSUME NEW c \in Calls, NEW o, NEW amount, NEW partner,
             MarkCollected(c, o, amount, partner)
      PROVE  Turn(c)
  <2> DEFINE step == [at |-> "collect", order |-> o, amount |-> amount, partner |-> partner]
  <2>1. step.at # "submit" /\ Goto(c, step) /\ UNCHANGED slips
    BY <1>3 DEF MarkCollected
  <2> HIDE DEF step
  <2> QED BY <2>1 DEF GoesElsewhere, Turn
<1>4. ASSUME NEW c \in Calls, NEW o, NEW amount, NEW partner,
             ReconcileRequested(c, o, amount, partner)
      PROVE  Turn(c)
  <2> DEFINE step == [at |-> "reconcile", order |-> o, amount |-> amount, partner |-> partner]
  <2>1. step.at # "submit" /\ Goto(c, step) /\ UNCHANGED slips
    BY <1>4 DEF ReconcileRequested
  <2> HIDE DEF step
  <2> QED BY <2>1 DEF GoesElsewhere, Turn
<1>5. ASSUME NEW c \in Calls, NEW r \in Riders, NEW amount, SubmitReads(c, r, amount) PROVE Turn(c)
  <2> DEFINE step == [at |-> "submit", rider |-> r, due |-> Due(r), left |-> amount, done |-> 0]
  <2>1. /\ step.at = "submit" /\ step.rider \in Riders
        /\ step.due = Due(step.rider) /\ step.done = 0
        /\ Goto(c, step) /\ UNCHANGED slips
    BY <1>5 DEF SubmitReads
  <2> HIDE DEF step
  <2>2. Lists(c)
    BY <2>1 DEF Lists
  <2> QED BY <2>2 DEF Turn
<1>6. ASSUME NEW c \in Calls, Settles(c) PROVE Turn(c)
  <2> DEFINE o == pc[c].order
             step == [at |-> "collect", order |-> o, amount |-> Gross,
                      partner |-> AfterSettlement(orders[o]).rider]
  <2>1. /\ step.at # "submit" /\ UNCHANGED slips
        /\ Ends(c) \/ Goto(c, step)
    BY <1>6 DEF Settles
  <2> HIDE DEF step
  <2> QED BY <2>1, IdleElsewhere DEF GoesElsewhere, Turn
<1>7. ASSUME NEW c \in Calls, AcceptWrites(c) \/ CollectsCod(c) \/ Reconciles(c) \/ Fails(c)
      PROVE  Turn(c)
  <2>1. Ends(c) /\ UNCHANGED slips
    BY <1>7 DEF AcceptWrites, CollectsCod, Reconciles, Fails
  <2> QED BY <2>1, IdleElsewhere
<1>8. ASSUME NEW c \in Calls, Submits(c) PROVE Turn(c)
  <2>1. CASE Reconcilable(NextDue(pc[c]), Wanted(pc[c]), pc[c].rider)
    BY <1>8, <2>1 DEF Submits, HandsOver, Turn
  <2>2. CASE ~Reconcilable(NextDue(pc[c]), Wanted(pc[c]), pc[c].rider)
    <3>1. Ends(c) /\ UNCHANGED slips
      BY <1>8, <2>2 DEF Submits, AfterError
    <3> QED BY <3>1, IdleElsewhere
  <2> QED BY <2>1, <2>2
<1>9. ASSUME NEW amount, SettleRiderCash(amount) PROVE UNCHANGED <<pc, slips>>
  BY <1>9 DEF SettleRiderCash
<1>10. ASSUME Ride PROVE UNCHANGED <<pc, slips>>
  BY <1>10 DEF Ride, RidesOn, BacksOut
<1>11. ASSUME NEW c \in Calls, Request(c) PROVE Turn(c)
  BY <1>1, <1>2, <1>3, <1>4, <1>11 DEF Request
<1>12. ASSUME NEW c \in Calls, Submission(c) PROVE Turn(c)
  BY <1>5, <1>12 DEF Submission
<1>13. ASSUME NEW c \in Calls, Continue(c) PROVE Turn(c)
  BY <1>6, <1>7, <1>8, <1>13 DEF Continue, Turn
<1> QED BY <1>9, <1>10, <1>11, <1>12, <1>13 DEF Next

BackedInv == \A r \in Riders : slips[r] + Claimed(r, pc) <= Given(r)

LEMMA BackedInitially == ASSUME Init PROVE BackedInv
<1>1. IInv /\ TypeOK /\ pc \in [Calls -> Call] /\ \A c \in Calls : pc[c] = Idle
  BY Initially DEF Init, IInv, TypeOK
<1>2. ASSUME NEW r \in Riders PROVE slips[r] + Claimed(r, pc) <= Given(r)
  <2>1. \A i \in 1..NumCalls : Claims(r, pc)[i] = 0
    BY <1>1, CallsNumbered DEF Claims, ClaimOf, Idle
  <2>2. PICK s : Adds(Claims(r, pc), s, NumCalls) /\ Claimed(r, pc) = s[NumCalls]
    BY <1>1, ClaimedAdds
  <2>3. Claimed(r, pc) = 0
    BY <2>1, <2>2, CallsNumbered, SumsZero
  <2>4. slips[r] = 0
    BY DEF Init
  <2>5. Given(r) \in Nat
    BY <1>1, GivenTyped
  <2> QED BY <2>3, <2>4, <2>5
<1> QED BY <1>2 DEF BackedInv

LEMMA BackedKept ==
  ASSUME IInv, BackedInv, Next
  PROVE  BackedInv'
<1>1. /\ TypeOK /\ pc \in [Calls -> Call] /\ pc' \in [Calls -> Call]
      /\ slips \in [Riders -> Nat]
  BY CallsKept DEF IInv, TypeOK, CallsOK
<1>2. Effect /\ MoneyOK
  BY StepHasEffect, MoneyKept
<1>3. ASSUME NEW r \in Riders
      PROVE  /\ Given(r) \in Nat /\ Given(r)' \in Nat
             /\ Given(r) <= Given(r)'
             /\ Claimed(r, pc) \in Nat /\ Claimed(r, pc') \in Nat /\ slips[r] \in Nat
             /\ slips[r] + Claimed(r, pc) <= Given(r)
  <2>1. Claimed(r, pc) \in Nat /\ Claimed(r, pc') \in Nat
    BY <1>1, ClaimedAdds
  <2>2. Given(r) \in Nat /\ Given(r)' \in Nat
    BY <1>1, <1>2, GivenTyped, GivenNext
  <2> QED BY <1>1, <1>2, <2>1, <2>2, GivenGrows DEF BackedInv
<1> DEFINE Backed(r) == slips'[r] + Claimed(r, pc') <= Given(r)'
<1>4. ASSUME NEW c \in Calls, NEW step, Goto(c, step), NEW r \in Riders
      PROVE  /\ step \in Call /\ pc[c] \in Call
             /\ ClaimOf(r, step) \in Nat /\ ClaimOf(r, pc[c]) \in Nat
             /\ Claimed(r, pc') = Claimed(r, pc) + (ClaimOf(r, step) - ClaimOf(r, pc[c]))
  <2>1. pc' = [pc EXCEPT ![c] = step]
    BY <1>4 DEF Goto
  <2>2. step = pc'[c]
    BY <1>1, <2>1
  <2>3. step \in Call /\ pc[c] \in Call
    BY <1>1, <2>2
  <2>4. ClaimOf(r, step) \in Nat /\ ClaimOf(r, pc[c]) \in Nat
    BY <2>3, ClaimNat
  <2>5. Claimed(r, pc') = Claimed(r, pc) + (ClaimOf(r, step) - ClaimOf(r, pc[c]))
    <3> DEFINE p == pc
               q == pc'
    <3>1. p \in [Calls -> Call] /\ q = [p EXCEPT ![c] = step]
      BY <1>1, <2>1
    <3> HIDE DEF p, q
    <3>2. Claimed(r, q) = Claimed(r, p) + (ClaimOf(r, step) - ClaimOf(r, p[c]))
      BY <2>3, <3>1, ClaimedChanges
    <3> QED BY <3>2 DEF p, q
  <2> QED BY <2>3, <2>4, <2>5
<1>5. ASSUME UNCHANGED <<pc, slips>>, NEW r \in Riders PROVE Backed(r)
  BY <1>3, <1>5
\* A call that claims nothing afterwards, and recorded nothing.
<1>6. ASSUME NEW c \in Calls, NEW step, Goto(c, step), NEW r \in Riders,
             ClaimOf(r, step) = 0, UNCHANGED slips
      PROVE  Backed(r)
  BY <1>3, <1>4, <1>6
<1>7. ASSUME NEW c \in Calls, GoesElsewhere(c), NEW r \in Riders PROVE Backed(r)
  <2>1. PICK step : step.at # "submit" /\ Goto(c, step)
    BY <1>7 DEF GoesElsewhere
  <2>2. ClaimOf(r, step) = 0
    BY <2>1 DEF ClaimOf
  <2> QED BY <1>6, <1>7, <2>1, <2>2 DEF GoesElsewhere
<1>8. ASSUME NEW c \in Calls, Lists(c), NEW r \in Riders PROVE Backed(r)
  <2>1. PICK step : step.done = 0 /\ Goto(c, step)
    BY <1>8 DEF Lists
  <2>2. ClaimOf(r, step) = 0
    BY <2>1 DEF ClaimOf
  <2> QED BY <1>6, <1>8, <2>1, <2>2 DEF Lists
<1>9. ASSUME NEW c \in Calls, HandsOver(c), NEW r \in Riders PROVE Backed(r)
  <2> DEFINE step == Submitted(pc[c])
             q == Wanted(pc[c])
             o == NextDue(pc[c])
  <2>1. /\ pc[c].at = "submit" /\ pc[c].left > 0 /\ UNCHANGED slips
        /\ Reconcilable(o, q, pc[c].rider) /\ Reconcile(o, q, pc[c].rider)
        /\ Goto(c, step)
    BY <1>9 DEF HandsOver
  <2>2. /\ pc[c] \in SubmitCall /\ step \in SubmitCall
        /\ step.rider = pc[c].rider /\ step.done = pc[c].done + q
        /\ o \in Orders /\ q \in Nat \ {0}
    BY <1>1, <2>1, KindOfCall, NextPiece
  <2>3. step.at = "submit" /\ pc[c].rider \in Riders /\ pc[c].done \in Nat
    BY <2>2 DEF SubmitCall
  <2>4. debits' = [debits EXCEPT ![pc[c].rider][o] = @ + q]
    BY <2>1 DEF Reconcile
  <2> HIDE DEF step, q, o
  <2>5. CASE r = pc[c].rider
    <3>1. ClaimOf(r, step) = ClaimOf(r, pc[c]) + q
      BY <2>1, <2>2, <2>3, <2>5 DEF ClaimOf
    <3>2. Given(r)' = Given(r) + q
      BY <1>1, <1>2, <2>2, <2>3, <2>4, <2>5, GivenAdds
    <3>3. Claimed(r, pc') = Claimed(r, pc) + (ClaimOf(r, step) - ClaimOf(r, pc[c]))
          /\ ClaimOf(r, pc[c]) \in Nat
      BY <1>4, <2>1
    <3>4. Claimed(r, pc') = Claimed(r, pc) + q
      BY <1>3, <2>2, <3>1, <3>3
    <3> QED BY <1>3, <2>1, <2>2, <3>2, <3>4
  <2>6. CASE r # pc[c].rider
    <3>1. ClaimOf(r, step) = 0
      BY <2>2, <2>6 DEF ClaimOf
    <3> QED BY <1>6, <2>1, <3>1
  <2> QED BY <2>5, <2>6
<1>10. ASSUME NEW c \in Calls, SubmitRecords(c), NEW r \in Riders PROVE Backed(r)
  <2>1. /\ pc[c].at = "submit" /\ Goto(c, Idle)
        /\ slips' = [slips EXCEPT ![pc[c].rider] = @ + pc[c].done]
        /\ debits' = debits
    BY <1>10 DEF SubmitRecords, Ends
  <2>2. ClaimOf(r, Idle) = 0
    BY DEF ClaimOf, Idle
  <2>3. /\ Claimed(r, pc') = Claimed(r, pc) + (0 - ClaimOf(r, pc[c]))
        /\ ClaimOf(r, pc[c]) \in Nat
    BY <1>4, <2>1, <2>2
  <2>4. slips'[r] = slips[r] + ClaimOf(r, pc[c])
    <3>1. pc[c].rider \in Riders /\ pc[c].done \in Nat
      BY <1>1, <2>1, KindOfCall DEF SubmitCall
    <3> QED BY <1>1, <2>1, <3>1 DEF ClaimOf
  <2> QED BY <1>3, <2>3, <2>4
<1>11. \A r \in Riders : Backed(r)
  <2> HIDE DEF Backed
  <2> QED BY <1>5, <1>7, <1>8, <1>9, <1>10, CallsTurn DEF Turn
<1> QED BY <1>11 DEF BackedInv

\* Whatever submissions run at once, work off the same orders or die half-way, and
\* whoever has the orders by then: the "Cash Settlement" Transactions of a rider's
\* submissions never add up to more than the ledger says was remitted in his name.
THEOREM SubmissionsCorrect == Spec => []SubmissionsBacked
<1>1. IInv /\ BackedInv /\ [Next]_vars => BackedInv'
  <2> SUFFICES ASSUME IInv, BackedInv, [Next]_vars PROVE BackedInv'
    OBVIOUS
  <2>1. CASE UNCHANGED vars
    <3>1. debits' = debits /\ slips' = slips /\ pc' = pc
      BY <2>1 DEF vars, Money
    <3> QED BY <3>1 DEF BackedInv, Given
  <2> QED BY <2>1, BackedKept
<1>2. IInv /\ BackedInv => SubmissionsBacked
  <2> SUFFICES ASSUME IInv, BackedInv, NEW r \in Riders
               PROVE  slips[r] <= Given(r)
    BY DEF SubmissionsBacked, Given
  <2>1. /\ slips[r] \in Nat /\ Claimed(r, pc) \in Nat /\ Given(r) \in Nat
    BY ClaimedAdds, GivenTyped DEF IInv, TypeOK
  <2> QED BY <2>1 DEF BackedInv
<1> QED BY <1>1, <1>2, BackedInitially, Always, PTL DEF Spec

=============================================================================
