----------------------------- MODULE OpsProofs -----------------------------
(***************************************************************************)
(* What the other proofs rest on: facts about sums over finite sets, about *)
(* a sequence less one element, about the ledger's methods and about the   *)
(* breaker's methods, for every set of ids, every budget and any           *)
(* thresholds.                                                             *)
(***************************************************************************)
EXTENDS BudgetOps, BreakerOps, Functions, SequencesExt, SequenceTheorems, FiniteSetTheorems,
        WellFoundedInduction, TLAPS

----------------------------------------------------------------------------
(* Sums.  The library defines a sum by recursion over a finite set.  What  *)
(* it adds up to is proved by taking a minimal counterexample among the    *)
(* subsets of the set, which are well founded.                             *)

(* Among sets of subsets of a finite set, one is minimal.                  *)
LEMMA MinimalSubset ==
  ASSUME NEW S, IsFiniteSet(S), NEW D \in SUBSET (SUBSET S), D # {}
  PROVE  \E T \in D : \A U \in D : U \subseteq T => U = T
<1>1. IsWellFoundedOn(StrictSubsetOrdering(S), SUBSET S)
  BY FS_StrictSubsetOrderingWellFounded, FS_FiniteSubsetsOfFinite
<1>2. PICK T \in D : \A U \in D : ~(<<U, T>> \in StrictSubsetOrdering(S))
  BY <1>1, WFMin
<1>3. \A U \in D : U \subseteq T => U = T
  BY <1>2 DEF StrictSubsetOrdering
<1>4. QED
  BY <1>3

(* m gives the subsets of S what f adds up to on them.                     *)
Measures(m, f, S) ==
  /\ m \in [SUBSET S -> Int]
  /\ m[{}] = 0
  /\ \A T \in SUBSET S, x \in S : x \in T => m[T] = f[x] + m[T \ {x}]

LEMMA MeasureExists ==
  ASSUME NEW S, IsFiniteSet(S), NEW f \in [S -> Int]
  PROVE  \E m : Measures(m, f, S)
<1> DEFINE D == {T \in SUBSET S : ~ \E m : Measures(m, f, T)}
<1> SUFFICES ASSUME D # {} PROVE FALSE
  BY DEF Measures
<1>1. PICK T \in D : \A U \in D : U \subseteq T => U = T
  <2>1. D \in SUBSET (SUBSET S)
    OBVIOUS
  <2> HIDE DEF D
  <2>2. QED
    BY <2>1, MinimalSubset
<1>2. T # {}
  <2>1. Measures([U \in {{}} |-> 0], f, {})
    BY DEF Measures
  <2>2. QED
    BY <2>1
<1>3. PICK a \in T : TRUE
  BY <1>2
<1>4. PICK m : Measures(m, f, T \ {a})
  BY <1>1, <1>3
<1> DEFINE n == [U \in SUBSET T |-> IF a \in U THEN f[a] + m[U \ {a}] ELSE m[U]]
<1>5. \A U \in SUBSET T : /\ U \ {a} \in SUBSET (T \ {a})
                          /\ a \notin U => U \in SUBSET (T \ {a}) /\ U \ {a} = U
  OBVIOUS
<1>6. n \in [SUBSET T -> Int] /\ n[{}] = 0
  BY <1>1, <1>3, <1>4, <1>5 DEF Measures
<1>7. ASSUME NEW U \in SUBSET T, NEW x \in T, x \in U PROVE n[U] = f[x] + n[U \ {x}]
  <2>1. CASE x = a
    BY <2>1, <1>7, <1>5
  <2>2. CASE x # a
    <3>1. U \ {x} \in SUBSET T /\ x \in T \ {a}
      BY <2>2
    <3>2. CASE a \in U
      <4>1. (U \ {x}) \ {a} = (U \ {a}) \ {x} /\ a \in U \ {x} /\ x \in U \ {a}
        BY <1>7, <2>2, <3>2
      <4>2. m[U \ {a}] = f[x] + m[(U \ {a}) \ {x}]
        BY <1>4, <1>5, <3>1, <4>1 DEF Measures
      <4>3. m[(U \ {a}) \ {x}] \in Int /\ f[x] \in Int /\ f[a] \in Int
        BY <1>1, <1>3, <1>4, <1>5, <3>1, <4>1 DEF Measures
      <4>4. n[U] = f[a] + m[U \ {a}] /\ n[U \ {x}] = f[a] + m[(U \ {a}) \ {x}]
        BY <3>1, <3>2, <4>1
      <4>5. QED
        BY <4>2, <4>3, <4>4
    <3>3. CASE a \notin U
      BY <3>1, <3>3, <1>7, <1>4, <1>5 DEF Measures
    <3>4. QED
      BY <3>2, <3>3
  <2>3. QED
    BY <2>1, <2>2
<1>8. Measures(n, f, T)
  BY <1>6, <1>7 DEF Measures
<1>9. QED
  BY <1>8, <1>1

(* SumFunctionOnSet adds up f, whatever the order it takes.                *)
LEMMA SumMeasured ==
  ASSUME NEW S, IsFiniteSet(S), NEW f, NEW m, Measures(m, f, S)
  PROVE  SumFunctionOnSet(f, S) = m[S]
<1> DEFINE Some(s) == CHOOSE x \in s : TRUE
           Folds(g) == g = [s \in SUBSET S |-> IF s = {} THEN 0 ELSE f[Some(s)] + g[s \ {Some(s)}]]
           iter == CHOOSE g : Folds(g)
<1>1. SumFunctionOnSet(f, S) = iter[S]
  BY DEF SumFunctionOnSet, FoldFunctionOnSet, MapThenFoldSet
<1>2. \A s \in SUBSET S : s # {} => Some(s) \in s
  OBVIOUS
<1> HIDE DEF Some
<1>3. Folds(m)
  <2>1. m = [s \in SUBSET S |-> m[s]]
    BY DEF Measures
  <2>2. \A s \in SUBSET S : m[s] = IF s = {} THEN 0 ELSE f[Some(s)] + m[s \ {Some(s)}]
    BY <1>2 DEF Measures
  <2>3. QED
    BY <2>1, <2>2
<1>4. Folds(iter)
  BY <1>3
<1> HIDE DEF iter
<1> DEFINE D == {T \in SUBSET S : iter[T] # m[T]}
<1>5. ASSUME D # {} PROVE FALSE
  <2>1. D \in SUBSET (SUBSET S)
    OBVIOUS
  <2>2. PICK T \in D : \A U \in D : U \subseteq T => U = T
    <3> HIDE DEF D
    <3>1. QED
      BY <1>5, <2>1, MinimalSubset
  <2> DEFINE rest == T \ {Some(T)}
  <2>3. CASE T = {}
    BY <2>3, <2>2, <1>4 DEF Measures
  <2>4. CASE T # {}
    <3>1. Some(T) \in T /\ rest \in SUBSET S /\ rest \subseteq T /\ rest # T
      BY <2>4, <2>2, <1>2
    <3>2. iter[rest] = m[rest]
      BY <3>1, <2>2
    <3>3. iter[T] = f[Some(T)] + iter[rest] /\ m[T] = f[Some(T)] + m[rest]
      BY <1>3, <1>4, <2>2, <2>4
    <3>4. QED
      BY <3>2, <3>3, <2>2
  <2>5. QED
    BY <2>3, <2>4
<1>6. QED
  BY <1>1, <1>5

(* Changing one value changes the sum by as much.                          *)
LEMMA SumUpdate ==
  ASSUME NEW S, IsFiniteSet(S), NEW f \in [S -> Int], NEW x \in S, NEW v \in Int
  PROVE  SumFunction([f EXCEPT ![x] = v]) = SumFunction(f) - f[x] + v
<1> DEFINE g == [f EXCEPT ![x] = v]
<1>1. g \in [S -> Int] /\ DOMAIN f = S /\ DOMAIN g = S
  OBVIOUS
<1>2. PICK m : Measures(m, f, S)
  BY MeasureExists
<1>3. SumFunction(f) = m[S]
  BY <1>1, <1>2, SumMeasured DEF SumFunction
<1> DEFINE n == [T \in SUBSET S |-> IF x \in T THEN m[T] - f[x] + v ELSE m[T]]
<1>4. n \in [SUBSET S -> Int] /\ n[{}] = 0
  BY <1>2 DEF Measures
<1>5. ASSUME NEW T \in SUBSET S, NEW y \in S, y \in T PROVE n[T] = g[y] + n[T \ {y}]
  <2>1. m[T] = f[y] + m[T \ {y}] /\ T \ {y} \in SUBSET S
    BY <1>2, <1>5 DEF Measures
  <2>2. m[T] \in Int /\ m[T \ {y}] \in Int /\ f[x] \in Int /\ f[y] \in Int
    BY <1>2, <2>1 DEF Measures
  <2>3. CASE x = y
    <3>1. n[T] = m[T] - f[x] + v /\ n[T \ {y}] = m[T \ {y}] /\ g[y] = v
      BY <2>1, <2>3, <1>5
    <3>2. QED
      BY <3>1, <2>1, <2>2, <2>3
  <2>4. CASE x # y
    <3>1. g[y] = f[y]
      BY <2>4
    <3>2. CASE x \in T
      <4>1. n[T] = m[T] - f[x] + v /\ n[T \ {y}] = m[T \ {y}] - f[x] + v
        BY <2>1, <2>4, <3>2
      <4>2. QED
        BY <4>1, <3>1, <2>1, <2>2
    <3>3. CASE x \notin T
      BY <2>1, <3>1, <3>3
    <3>4. QED
      BY <3>2, <3>3
  <2>5. QED
    BY <2>3, <2>4
<1>6. Measures(n, g, S)
  BY <1>4, <1>5 DEF Measures
<1>7. SumFunction(g) = n[S]
  BY <1>1, <1>6, SumMeasured DEF SumFunction
<1>8. QED
  BY <1>3, <1>7

LEMMA SumZero ==
  ASSUME NEW S, IsFiniteSet(S)
  PROVE  SumFunction([s \in S |-> 0]) = 0
<1> DEFINE f == [s \in S |-> 0]
           m == [T \in SUBSET S |-> 0]
<1>1. Measures(m, f, S)
  BY DEF Measures
<1>2. SumFunctionOnSet(f, S) = m[S] /\ DOMAIN f = S
  BY <1>1, SumMeasured
<1>3. QED
  BY <1>2 DEF SumFunction

(* No part is larger than a sum of natural numbers.                        *)
LEMMA SumBounds ==
  ASSUME NEW S, IsFiniteSet(S), NEW f \in [S -> Nat]
  PROVE  SumFunction(f) \in Nat /\ \A x \in S : f[x] <= SumFunction(f)
<1>1. PICK m : Measures(m, f, S)
  <2>1. f \in [S -> Int]
    OBVIOUS
  <2>2. QED
    BY <2>1, MeasureExists
<1>2. SumFunction(f) = m[S]
  BY <1>1, SumMeasured DEF SumFunction
<1> DEFINE D == {T \in SUBSET S : ~ m[T] >= 0}
<1>3. ASSUME D # {} PROVE FALSE
  <2>1. D \in SUBSET (SUBSET S)
    OBVIOUS
  <2>2. PICK T \in D : \A U \in D : U \subseteq T => U = T
    <3> HIDE DEF D
    <3>1. QED
      BY <1>3, <2>1, MinimalSubset
  <2>3. T \in SUBSET S /\ ~ m[T] >= 0
    BY <2>2
  <2>4. m[{}] = 0 /\ 0 >= 0
    BY <1>1 DEF Measures
  <2>5. PICK x \in T : TRUE
    BY <2>3, <2>4
  <2>6. m[T] = f[x] + m[T \ {x}] /\ m[T \ {x}] \in Int /\ f[x] \in Nat
    BY <1>1, <2>3, <2>5 DEF Measures
  <2>7. m[T \ {x}] >= 0
    BY <2>2, <2>3, <2>5
  <2>8. QED
    BY <2>3, <2>6, <2>7
<1>4. \A T \in SUBSET S : m[T] \in Nat
  BY <1>1, <1>3 DEF Measures
<1>5. \A x \in S : m[S] = f[x] + m[S \ {x}] /\ m[S \ {x}] \in Nat /\ f[x] \in Nat
  BY <1>1, <1>4 DEF Measures
<1>6. S \in SUBSET S /\ m[S] \in Nat
  BY <1>4
<1>7. ASSUME NEW x \in S PROVE f[x] <= m[S]
  <2>1. m[S] = f[x] + m[S \ {x}] /\ m[S \ {x}] \in Nat /\ f[x] \in Nat
    BY <1>5
  <2>2. \A a, b, c \in Nat : a = b + c => b <= a
    OBVIOUS
  <2>3. QED
    BY <1>6, <2>1, <2>2
<1>8. QED
  BY <1>2, <1>6, <1>7

----------------------------------------------------------------------------
(* The reservations.                                                       *)
AmountsHeld(res) == [id \in Ids |-> AtLeastZero(res[id])]

SumsTo(res, n) == n = SumFunction(AmountsHeld(res))

LEMMA AmountsType ==
  ASSUME NEW res \in [Ids -> Nat \cup {NoRes}]
  PROVE  /\ AmountsHeld(res) \in [Ids -> Nat] /\ AmountsHeld(res) \in [Ids -> Int]
         /\ SumFunction(AmountsHeld(res)) \in Nat
<1>1. \A id \in Ids : AtLeastZero(res[id]) \in Nat
  BY DEF AtLeastZero, NoRes
<1>2. AmountsHeld(res) \in [Ids -> Nat] /\ AmountsHeld(res) \in [Ids -> Int]
  BY <1>1 DEF AmountsHeld
<1>3. QED
  BY <1>2, SumBounds, BudgetAssumption

(* The reservations of an empty tracker sum to 0.                          *)
LEMMA EmptySums == SumsTo(EmptyTracker.res, EmptyTracker.reserved)
<1>1. AmountsHeld(EmptyTracker.res) = [id \in Ids |-> 0]
  BY DEF AmountsHeld, EmptyTracker, NoRes, AtLeastZero
<1>2. QED
  BY <1>1, SumZero, BudgetAssumption DEF SumsTo, EmptyTracker

(* One more reservation adds its amount to the sum.                        *)
LEMMA ReserveSums ==
  ASSUME NEW res \in [Ids -> Nat \cup {NoRes}], NEW n \in Nat, SumsTo(res, n),
         NEW id \in Ids, res[id] = NoRes, NEW cost \in Nat
  PROVE  SumsTo([res EXCEPT ![id] = cost], n + cost)
<1>1. AmountsHeld([res EXCEPT ![id] = cost]) = [AmountsHeld(res) EXCEPT ![id] = cost]
  <2>1. \A i \in Ids : AtLeastZero([res EXCEPT ![id] = cost][i]) =
                       [AmountsHeld(res) EXCEPT ![id] = cost][i]
    BY DEF AmountsHeld, AtLeastZero
  <2>2. QED
    BY <2>1 DEF AmountsHeld
<1>2. AmountsHeld(res)[id] = 0
  BY DEF AmountsHeld, AtLeastZero, NoRes
<1>3. SumFunction([AmountsHeld(res) EXCEPT ![id] = cost]) = n - 0 + cost
  <2>1. cost \in Int
    OBVIOUS
  <2>2. QED
    BY <2>1, <1>2, AmountsType, SumUpdate, BudgetAssumption DEF SumsTo
<1>4. QED
  BY <1>1, <1>3 DEF SumsTo

(* No reservation is larger than the sum, and giving one back leaves the   *)
(* sum of the others: Math.max(0, ...) never has anything to clamp.        *)
LEMMA DropSums ==
  ASSUME NEW res \in [Ids -> Nat \cup {NoRes}], NEW n \in Nat, SumsTo(res, n),
         NEW id \in Ids, res[id] # NoRes
  PROVE  /\ res[id] <= n
         /\ SumsTo([res EXCEPT ![id] = NoRes], n - res[id])
<1>1. AmountsHeld([res EXCEPT ![id] = NoRes]) = [AmountsHeld(res) EXCEPT ![id] = 0]
  <2>1. \A i \in Ids : AtLeastZero([res EXCEPT ![id] = NoRes][i]) =
                       [AmountsHeld(res) EXCEPT ![id] = 0][i]
    BY DEF AmountsHeld, AtLeastZero, NoRes
  <2>2. QED
    BY <2>1 DEF AmountsHeld
<1>2. AmountsHeld(res)[id] = res[id] /\ res[id] \in Nat
  BY DEF AmountsHeld, AtLeastZero, NoRes
<1>3. SumFunction([AmountsHeld(res) EXCEPT ![id] = 0]) = n - res[id] + 0
  <2>1. 0 \in Int
    OBVIOUS
  <2>2. QED
    BY <2>1, <1>2, AmountsType, SumUpdate, BudgetAssumption DEF SumsTo
<1>4. res[id] <= n
  BY <1>2, AmountsType, SumBounds, BudgetAssumption DEF SumsTo
<1>5. QED
  BY <1>1, <1>2, <1>3, <1>4 DEF SumsTo

----------------------------------------------------------------------------
(* The tracker's methods: each keeps the ledger sound and moves the        *)
(* committed cost by what it says.                                         *)

Ledger(t) == t \in TrackerType /\ SumsTo(t.res, t.reserved)

LEMMA EmptyLedger == Ledger(EmptyTracker) /\ Committed(EmptyTracker) = 0
<1>1. EmptyTracker \in TrackerType
  BY DEF EmptyTracker, TrackerType
<1>2. QED
  BY <1>1, EmptySums DEF Ledger, Committed, EmptyTracker

(* A tracker, field by field.                                              *)
LEMMA TrackerFields ==
  ASSUME NEW t, t \in TrackerType
  PROVE  /\ t.res \in [Ids -> Nat \cup {NoRes}]
         /\ t.reserved \in Nat /\ t.actual \in Nat /\ t.estimated \in Nat
         /\ t.warned \in BOOLEAN /\ t.exceeded \in BOOLEAN
BY DEF TrackerType

(* The two callback flags touch no amount.                                 *)
LEMMA CallbacksLedger ==
  ASSUME NEW t, Ledger(t)
  PROVE  Ledger(CheckCallbacks(t)) /\ Committed(CheckCallbacks(t)) = Committed(t)
<1>1. CheckCallbacks(t) \in TrackerType
  BY DEF Ledger, TrackerType, CheckCallbacks, Exhausted
<1>2. /\ CheckCallbacks(t).res = t.res
      /\ CheckCallbacks(t).reserved = t.reserved
      /\ CheckCallbacks(t).actual = t.actual
  BY DEF Ledger, TrackerType, CheckCallbacks
<1>3. QED
  BY <1>1, <1>2 DEF Ledger, Committed

LEMMA ReserveLedger ==
  ASSUME NEW t, Ledger(t), NEW id \in Ids, id \notin Active(t), NEW cost,
         CanReserve(t, cost)
  PROVE  /\ Ledger(Reserve(t, id, cost))
         /\ Committed(Reserve(t, id, cost)) = Committed(t) + cost
         /\ Committed(Reserve(t, id, cost)) <= SessionBudget
<1> DEFINE new == Reserve(t, id, cost)
<1>1. /\ t.res \in [Ids -> Nat \cup {NoRes}] /\ t.res[id] = NoRes
      /\ t.reserved \in Nat /\ t.actual \in Nat /\ cost \in Nat
  BY DEF Ledger, TrackerType, Active, CanReserve
<1>2. /\ new.res = [t.res EXCEPT ![id] = cost]
      /\ new.reserved = t.reserved + cost
      /\ new.actual = t.actual
  BY DEF Ledger, TrackerType, Reserve
<1>3. new \in TrackerType
  <2>1. /\ [t.res EXCEPT ![id] = cost] \in [Ids -> Nat \cup {NoRes}]
        /\ t.reserved + cost \in Nat /\ t.estimated + cost \in Nat
    BY <1>1, TrackerFields DEF Ledger
  <2>2. QED
    BY <2>1 DEF Ledger, TrackerType, Reserve
<1>4. SumsTo(new.res, new.reserved)
  BY <1>1, <1>2, ReserveSums DEF Ledger
<1>5. QED
  BY <1>1, <1>2, <1>3, <1>4 DEF Ledger, Committed, CanReserve

(* What is left when an active id gives its reservation back.              *)
LEMMA GivenBack ==
  ASSUME NEW t, Ledger(t), NEW id \in Ids, id \in Active(t)
  PROVE  /\ t.res[id] \in Nat
         /\ t.res[id] <= t.reserved
         /\ AtLeastZero(t.reserved - t.res[id]) = t.reserved - t.res[id]
         /\ t.reserved - t.res[id] \in Nat
         /\ SumsTo([t.res EXCEPT ![id] = NoRes], t.reserved - t.res[id])
<1>1. /\ t.res \in [Ids -> Nat \cup {NoRes}] /\ t.res[id] # NoRes
      /\ t.reserved \in Nat
  BY DEF Ledger, TrackerType, Active
<1>2. t.res[id] <= t.reserved /\ SumsTo([t.res EXCEPT ![id] = NoRes], t.reserved - t.res[id])
  BY <1>1, DropSums DEF Ledger
<1>3. QED
  BY <1>1, <1>2 DEF AtLeastZero

LEMMA SettleLedger ==
  ASSUME NEW t, Ledger(t), NEW id \in Ids, id \in Active(t), NEW cost \in Nat
  PROVE  /\ Ledger(Settle(t, id, cost))
         /\ Committed(Settle(t, id, cost)) = Committed(t) - t.res[id] + cost
<1> DEFINE given == [t EXCEPT !.res[id] = NoRes,
                              !.reserved = AtLeastZero(@ - t.res[id]),
                              !.actual = @ + cost]
<1>1. Settle(t, id, cost) = CheckCallbacks(given)
  BY DEF Settle, Active
<1>2. given \in TrackerType
  <2>1. AtLeastZero(t.reserved - t.res[id]) \in Nat
    BY GivenBack
  <2>2. /\ [t.res EXCEPT ![id] = NoRes] \in [Ids -> Nat \cup {NoRes}]
        /\ t.actual + cost \in Nat
    BY TrackerFields DEF Ledger
  <2>3. QED
    BY <2>1, <2>2 DEF Ledger, TrackerType
<1>3. /\ given.res = [t.res EXCEPT ![id] = NoRes]
      /\ given.reserved = t.reserved - t.res[id]
      /\ given.actual = t.actual + cost
  BY GivenBack DEF Ledger, TrackerType
<1>4. Ledger(given)
  BY <1>2, <1>3, GivenBack DEF Ledger
<1>5. Committed(given) = Committed(t) - t.res[id] + cost
  <2>1. t.actual \in Nat /\ t.reserved \in Nat /\ t.res[id] \in Nat
    BY GivenBack DEF Ledger, TrackerType
  <2>2. QED
    BY <1>3, <2>1 DEF Committed
<1>6. QED
  BY <1>1, <1>4, <1>5, CallbacksLedger

LEMMA ReleaseLedger ==
  ASSUME NEW t, Ledger(t), NEW id \in Ids
  PROVE  /\ Ledger(Release(t, id))
         /\ Committed(Release(t, id)) <= Committed(t)
<1>0. Committed(t) \in Nat
  BY DEF Ledger, TrackerType, Committed
<1>1. CASE id \notin Active(t)
  BY <1>0, <1>1 DEF Release, Active
<1>2. CASE id \in Active(t)
  <2> DEFINE new == Release(t, id)
  <2>1. new = [t EXCEPT !.res[id] = NoRes,
                        !.reserved = AtLeastZero(@ - t.res[id]),
                        !.estimated = AtLeastZero(@ - t.res[id])]
    BY <1>2 DEF Release, Active
  <2>2. AtLeastZero(t.estimated - t.res[id]) \in Nat
    BY <1>2, GivenBack DEF Ledger, TrackerType, AtLeastZero
  <2>3. new \in TrackerType
    <3>1. AtLeastZero(t.reserved - t.res[id]) \in Nat
      BY <1>2, GivenBack
    <3>2. [t.res EXCEPT ![id] = NoRes] \in [Ids -> Nat \cup {NoRes}]
      BY TrackerFields DEF Ledger
    <3>3. QED
      BY <2>1, <2>2, <3>1, <3>2 DEF Ledger, TrackerType
  <2>4. /\ new.res = [t.res EXCEPT ![id] = NoRes]
        /\ new.reserved = t.reserved - t.res[id]
        /\ new.actual = t.actual
    BY <1>2, <2>1, GivenBack DEF Ledger, TrackerType
  <2>5. QED
    BY <1>2, <2>3, <2>4, GivenBack DEF Ledger, TrackerType, Committed
<1>3. QED
  BY <1>1, <1>2

(* What one call of the ledger does to the amounts it keeps.               *)
LEMMA SettleAmounts ==
  ASSUME NEW t, Ledger(t), NEW id \in Active(t), NEW cost \in Nat
  PROVE  /\ Settle(t, id, cost).estimated = t.estimated
         /\ Settle(t, id, cost).actual = t.actual + cost
         /\ Settle(t, id, cost).reserved = t.reserved - t.res[id]
<1>1. id \in Ids /\ t \in TrackerType
  BY DEF Active, Ledger
<1>2. AtLeastZero(t.reserved - t.res[id]) = t.reserved - t.res[id]
  BY <1>1, GivenBack
<1>3. QED
  BY <1>1, <1>2 DEF Settle, Active, CheckCallbacks, TrackerType

(* Reserving and releasing charge nothing.                                 *)
LEMMA NothingCharged ==
  ASSUME NEW t \in TrackerType, NEW id, NEW cost
  PROVE  Reserve(t, id, cost).actual = t.actual /\ Release(t, id).actual = t.actual
<1>1. Reserve(t, id, cost).actual = t.actual
  BY DEF Reserve, TrackerType
<1>2. Release(t, id).actual = t.actual
  BY DEF Release, TrackerType
<1>3. QED
  BY <1>1, <1>2

LEMMA RecordLedger ==
  ASSUME NEW t, Ledger(t), NEW estimate \in Nat, NEW cost \in Nat
  PROVE  /\ Ledger(Record(t, estimate, cost))
         /\ Committed(Record(t, estimate, cost)) = Committed(t) + cost
<1> DEFINE new == [t EXCEPT !.estimated = @ + estimate, !.actual = @ + cost]
<1>1. new \in TrackerType
  <2>1. t.estimated + estimate \in Nat /\ t.actual + cost \in Nat
    BY TrackerFields DEF Ledger
  <2>2. QED
    BY <2>1 DEF Ledger, TrackerType
<1>2. new.res = t.res /\ new.reserved = t.reserved /\ new.actual = t.actual + cost
  BY DEF Ledger, TrackerType
<1>3. Ledger(new) /\ Committed(new) = Committed(t) + cost
  BY <1>1, <1>2 DEF Ledger, Committed, TrackerType
<1>4. QED
  BY <1>3, CallbacksLedger DEF Record

----------------------------------------------------------------------------
(* The breaker's methods: what each does to the fields that matter, and    *)
(* the invariant that each keeps.                                          *)

(* A breaker, field by field.                                              *)
LEMMA BreakerFields ==
  ASSUME NEW b \in BreakerType
  PROVE  /\ b.state \in CircuitStates /\ b.cooled \in BOOLEAN
         /\ b.failures \in 0..FailureThreshold
         /\ b.failures \in Nat /\ b.failures <= FailureThreshold
         /\ b.successes \in Nat /\ b.halfOpenCalls \in Nat
BY BreakerAssumption DEF BreakerType

(* _transitionTo(), field by field.                                        *)
LEMMA TransitionFields ==
  ASSUME NEW b \in BreakerType, NEW s \in CircuitStates
  PROVE  /\ TransitionTo(b, s) \in BreakerType
         /\ TransitionTo(b, s).state = s
         /\ TransitionTo(b, s).failures = IF s = "closed" THEN 0 ELSE b.failures
         /\ TransitionTo(b, s).successes = IF s = "open" THEN b.successes ELSE 0
         /\ TransitionTo(b, s).halfOpenCalls = IF s = "open" THEN b.halfOpenCalls ELSE 0
         /\ TransitionTo(b, s).cooled = b.cooled
<1> DEFINE f == IF s = "closed" THEN 0 ELSE b.failures
           n == IF s = "open" THEN b.successes ELSE 0
           h == IF s = "open" THEN b.halfOpenCalls ELSE 0
<1>1. f \in 0..FailureThreshold /\ n \in Nat /\ h \in Nat
  BY BreakerFields, BreakerAssumption
<1>2. TransitionTo(b, s) =
        [b EXCEPT !.state = s, !.failures = f, !.successes = n, !.halfOpenCalls = h]
  BY DEF TransitionTo
<1> HIDE DEF f, n, h
<1>3. /\ TransitionTo(b, s) \in BreakerType
      /\ TransitionTo(b, s).state = s /\ TransitionTo(b, s).cooled = b.cooled
      /\ TransitionTo(b, s).failures = f /\ TransitionTo(b, s).successes = n
      /\ TransitionTo(b, s).halfOpenCalls = h
  BY <1>1, <1>2 DEF BreakerType
<1>4. QED
  BY <1>3 DEF f, n, h

(* Each method maps breakers to breakers.                                  *)
LEMMA AdmitType ==
  ASSUME NEW b \in BreakerType
  PROVE  Admit(b) \in BreakerType
<1>1. "half_open" \in CircuitStates /\ b.halfOpenCalls + 1 \in Nat
  BY BreakerFields DEF CircuitStates
<1>2. [b EXCEPT !.halfOpenCalls = @ + 1] \in BreakerType
  BY <1>1 DEF BreakerType
<1>3. QED
  BY <1>1, <1>2, TransitionFields, BreakerFields DEF Admit, CircuitStates

LEMMA SuccessType ==
  ASSUME NEW b \in BreakerType
  PROVE  RecordSuccess(b) \in BreakerType
<1> DEFINE counted == [b EXCEPT !.successes = @ + 1, !.halfOpenCalls = Decrement(@)]
<1>1. /\ b.successes + 1 \in Nat /\ Decrement(b.halfOpenCalls) \in Nat
      /\ 0 \in 0..FailureThreshold /\ "closed" \in CircuitStates
  BY BreakerFields, BreakerAssumption DEF Decrement, CircuitStates
<1>2. counted \in BreakerType /\ [b EXCEPT !.failures = 0] \in BreakerType
  BY <1>1 DEF BreakerType
<1>3. RecordSuccess(b) \in {TransitionTo(counted, "closed"), counted, [b EXCEPT !.failures = 0]}
  BY DEF RecordSuccess
<1> HIDE DEF counted
<1>4. QED
  BY <1>1, <1>2, <1>3, TransitionFields

LEMMA FailureType ==
  ASSUME NEW b \in BreakerType
  PROVE  RecordFailure(b) \in BreakerType
<1> DEFINE failed == [b EXCEPT !.failures = IF @ < FailureThreshold THEN @ + 1 ELSE @,
                               !.cooled = FALSE]
           given == [failed EXCEPT !.halfOpenCalls = Decrement(@)]
<1>1. /\ "open" \in CircuitStates
      /\ (IF b.failures < FailureThreshold THEN b.failures + 1 ELSE b.failures)
            \in 0..FailureThreshold
  BY BreakerFields, BreakerAssumption DEF CircuitStates
<1>2. failed \in BreakerType
  BY <1>1 DEF BreakerType
<1>3. RecordFailure(b) \in {TransitionTo(given, "open"), TransitionTo(failed, "open"), failed}
  BY DEF RecordFailure
<1> HIDE DEF failed
<1>4. Decrement(failed.halfOpenCalls) \in Nat
  BY <1>2, BreakerFields DEF Decrement
<1>5. given \in BreakerType
  BY <1>2, <1>4 DEF BreakerType
<1> HIDE DEF given
<1>6. QED
  BY <1>1, <1>2, <1>3, <1>5, TransitionFields

LEMMA CoolType ==
  ASSUME NEW b \in BreakerType
  PROVE  Cool(b) \in BreakerType
BY DEF Cool, BreakerType

(* Only recordFailure() counts a failure or opens a circuit.               *)
LEMMA OthersDoNotFail ==
  ASSUME NEW b \in BreakerType,
         NEW c \in {Admit(b), RecordSuccess(b), Cool(b)}
  PROVE  c.failures <= b.failures /\ (c.state = "open" => b.state = "open")
<1> DEFINE counted == [b EXCEPT !.successes = @ + 1, !.halfOpenCalls = Decrement(@)]
<1>0. /\ b.failures \in Nat /\ b.state \in CircuitStates
      /\ "half_open" \in CircuitStates /\ "closed" \in CircuitStates
  BY BreakerFields DEF CircuitStates
<1>1. CASE c = Admit(b)
  <2>1. \/ c = b
        \/ c = TransitionTo(b, "half_open")
        \/ c = [b EXCEPT !.halfOpenCalls = @ + 1]
    BY <1>0, <1>1 DEF Admit, CircuitStates
  <2>2. [b EXCEPT !.halfOpenCalls = @ + 1].failures = b.failures
        /\ [b EXCEPT !.halfOpenCalls = @ + 1].state = b.state
    BY DEF BreakerType
  <2>3. /\ TransitionTo(b, "half_open").failures = b.failures
        /\ TransitionTo(b, "half_open").state = "half_open"
    BY <1>0, TransitionFields
  <2>4. \A n \in Nat : n <= n
    OBVIOUS
  <2>5. c.failures = b.failures /\ (c.state = "open" => b.state = "open")
    BY <2>1, <2>2, <2>3
  <2>6. QED
    BY <1>0, <2>4, <2>5
<1>2. CASE c = RecordSuccess(b)
  <2>1. c \in {TransitionTo(counted, "closed"), counted, [b EXCEPT !.failures = 0]}
    BY <1>2 DEF RecordSuccess
  <2>2. counted.failures = b.failures /\ counted.state = b.state
    BY DEF BreakerType
  <2>3. /\ [b EXCEPT !.failures = 0].failures = 0
        /\ [b EXCEPT !.failures = 0].state = b.state
    BY DEF BreakerType
  <2>4. counted \in BreakerType
    <3>1. b.successes + 1 \in Nat /\ Decrement(b.halfOpenCalls) \in Nat
      BY BreakerFields DEF Decrement
    <3>2. QED
      BY <3>1 DEF BreakerType
  <2> HIDE DEF counted
  <2>5. /\ TransitionTo(counted, "closed").failures = 0
        /\ TransitionTo(counted, "closed").state = "closed"
    BY <1>0, <2>4, TransitionFields
  <2>6. c.failures \in {0, b.failures} /\ (c.state = "open" => b.state = "open")
    BY <2>1, <2>2, <2>3, <2>5
  <2>7. \A n \in Nat : 0 <= n /\ n <= n
    OBVIOUS
  <2>8. QED
    BY <1>0, <2>6, <2>7
<1>3. CASE c = Cool(b)
  BY <1>0, <1>3 DEF Cool, BreakerType
<1>4. QED
  BY <1>1, <1>2, <1>3

----------------------------------------------------------------------------
(* What every method keeps true of a breaker: TypeOK's and                 *)
(* CountersInRange's part in it.                                           *)
Sane(b) ==
  /\ b \in BreakerType
  /\ b.halfOpenCalls <= HalfOpenMaxCalls
  /\ b.state = "closed" =>
       b.failures < FailureThreshold /\ b.successes = 0 /\ b.halfOpenCalls = 0
  /\ b.state = "half_open" => b.successes < SuccessThreshold

(* A new breaker, and one closed by hand, is sane.                         *)
LEMMA ClosedSane == Sane(ClosedBreaker)
BY BreakerAssumption DEF Sane, ClosedBreaker, BreakerType, CircuitStates

LEMMA ResetSane ==
  ASSUME NEW b, Sane(b)
  PROVE  /\ Sane(TransitionTo(b, "closed"))
         /\ TransitionTo(b, "closed").state = "closed"
         /\ TransitionTo(b, "closed").cooled = b.cooled
<1>1. "closed" \in CircuitStates /\ b \in BreakerType
  BY DEF CircuitStates, Sane
<1>2. QED
  BY <1>1, TransitionFields, BreakerAssumption DEF Sane, BreakerType

(* isAvailable(): a closed breaker is left alone, an open one starts its   *)
(* half-open period, a half-open one counts the call.                      *)
LEMMA AdmitSane ==
  ASSUME NEW b, Sane(b), IsAvailable(b)
  PROVE  /\ Sane(Admit(b))
         /\ Admit(b).cooled = b.cooled
         /\ b.state = "closed" => Admit(b) = b
         /\ b.state = "open" =>
              b.cooled /\ Admit(b).state = "half_open" /\ Admit(b).halfOpenCalls = 0
         /\ b.state = "half_open" =>
              /\ Admit(b).state = "half_open"
              /\ Admit(b).halfOpenCalls = b.halfOpenCalls + 1
<1>1. "half_open" \in CircuitStates /\ b \in BreakerType /\ b.state \in CircuitStates
  BY DEF CircuitStates, Sane, BreakerType
<1>2. CASE b.state = "closed"
  BY <1>2 DEF Admit
<1>3. CASE b.state = "open"
  <2>1. Admit(b) = TransitionTo(b, "half_open")
    BY <1>3 DEF Admit
  <2>2. QED
    BY <2>1, <1>1, <1>3, TransitionFields, BreakerAssumption
      DEF Sane, BreakerType, IsAvailable
<1>4. CASE b.state = "half_open"
  <2>1. Admit(b) = [b EXCEPT !.halfOpenCalls = b.halfOpenCalls + 1]
    BY <1>4 DEF Admit
  <2>2. b.halfOpenCalls < HalfOpenMaxCalls
    BY <1>4 DEF IsAvailable
  <2>3. QED
    BY <2>1, <2>2, <1>1, <1>4, BreakerAssumption DEF Sane, BreakerType
<1>5. QED
  BY <1>1, <1>2, <1>3, <1>4 DEF CircuitStates

(* recordSuccess(): a success closes a half-open circuit or leaves the     *)
(* state alone, and gives back at most one place.                          *)
LEMMA SuccessSane ==
  ASSUME NEW b, Sane(b)
  PROVE  /\ Sane(RecordSuccess(b))
         /\ RecordSuccess(b).cooled = b.cooled
         /\ RecordSuccess(b).state \in {b.state, "closed"}
         /\ b.state # "half_open" => RecordSuccess(b).state = b.state
         /\ RecordSuccess(b).state = "half_open" =>
              RecordSuccess(b).halfOpenCalls >= b.halfOpenCalls - 1
<1> DEFINE counted == [b EXCEPT !.successes = @ + 1, !.halfOpenCalls = Decrement(@)]
<1>1. "closed" \in CircuitStates /\ b \in BreakerType /\ b.state \in CircuitStates
  BY DEF CircuitStates, Sane, BreakerType
<1>2. CASE b.state # "half_open"
  <2>1. RecordSuccess(b) = [b EXCEPT !.failures = 0]
    BY <1>2 DEF RecordSuccess
  <2>2. QED
    BY <2>1, <1>1, <1>2, BreakerAssumption DEF Sane, BreakerType
<1>3. CASE b.state = "half_open"
  <2>1. /\ counted \in BreakerType
        /\ counted.state = b.state /\ counted.cooled = b.cooled
        /\ counted.failures = b.failures /\ counted.successes = b.successes + 1
        /\ counted.halfOpenCalls <= HalfOpenMaxCalls
        /\ counted.halfOpenCalls >= b.halfOpenCalls - 1
    <3>1. /\ b.successes + 1 \in Nat /\ Decrement(b.halfOpenCalls) \in Nat
          /\ Decrement(b.halfOpenCalls) <= HalfOpenMaxCalls
          /\ Decrement(b.halfOpenCalls) >= b.halfOpenCalls - 1
      BY <1>1, BreakerFields, BreakerAssumption DEF Sane, Decrement
    <3>2. QED
      BY <3>1, <1>1 DEF BreakerType
  <2>2. RecordSuccess(b) =
          IF counted.successes >= SuccessThreshold
          THEN TransitionTo(counted, "closed") ELSE counted
    BY <1>3 DEF RecordSuccess
  <2> HIDE DEF counted
  <2>3. CASE counted.successes >= SuccessThreshold
    <3>1. RecordSuccess(b) = TransitionTo(counted, "closed")
      BY <2>2, <2>3
    <3>2. QED
      BY <3>1, <2>1, <1>1, <1>3, TransitionFields, BreakerAssumption DEF Sane
  <2>4. CASE ~(counted.successes >= SuccessThreshold)
    <3>1. RecordSuccess(b) = counted
      BY <2>2, <2>4
    <3>2. counted.successes < SuccessThreshold
      BY <2>1, <2>4, BreakerAssumption DEF BreakerType
    <3>3. QED
      BY <3>1, <3>2, <2>1, <1>1, <1>3 DEF Sane
  <2>5. QED
    BY <2>3, <2>4
<1>4. QED
  BY <1>2, <1>3

(* recordFailure(): it restarts the cooldown, opens the circuit or leaves  *)
(* the state alone, and a half-open circuit never survives it.             *)
LEMMA FailureSane ==
  ASSUME NEW b, Sane(b)
  PROVE  /\ Sane(RecordFailure(b))
         /\ RecordFailure(b).cooled = FALSE
         /\ RecordFailure(b).state \in {b.state, "open"}
         /\ RecordFailure(b).state # "half_open"
<1> DEFINE failed == [b EXCEPT !.failures = IF @ < FailureThreshold THEN @ + 1 ELSE @,
                               !.cooled = FALSE]
           given == [failed EXCEPT !.halfOpenCalls = Decrement(@)]
<1>1. "open" \in CircuitStates /\ b \in BreakerType /\ b.state \in CircuitStates
  BY DEF CircuitStates, Sane, BreakerType
<1>2. /\ failed \in BreakerType
      /\ failed.state = b.state /\ failed.cooled = FALSE
      /\ failed.failures \in 0..FailureThreshold
      /\ failed.successes = b.successes /\ failed.halfOpenCalls = b.halfOpenCalls
  <2>1. (IF b.failures < FailureThreshold THEN b.failures + 1 ELSE b.failures)
          \in 0..FailureThreshold
    BY <1>1, BreakerFields, BreakerAssumption
  <2>2. QED
    BY <2>1, <1>1 DEF BreakerType
<1>3. RecordFailure(b) =
        IF b.state = "half_open" THEN TransitionTo(given, "open")
        ELSE IF failed.failures = FailureThreshold
             THEN TransitionTo(failed, "open") ELSE failed
  BY DEF RecordFailure
<1>4. Decrement(b.halfOpenCalls) \in Nat /\ Decrement(b.halfOpenCalls) <= HalfOpenMaxCalls
  BY <1>1, BreakerAssumption DEF Sane, BreakerType, Decrement
<1>5. given = [failed EXCEPT !.halfOpenCalls = Decrement(b.halfOpenCalls)]
  BY <1>2
<1> HIDE DEF failed, given
<1>6. CASE b.state = "half_open"
  <2>1. /\ given \in BreakerType
        /\ given.cooled = FALSE
        /\ given.halfOpenCalls <= HalfOpenMaxCalls
    BY <1>2, <1>4, <1>5 DEF BreakerType
  <2>2. RecordFailure(b) = TransitionTo(given, "open")
    BY <1>3, <1>6
  <2>3. QED
    BY <2>1, <2>2, <1>1, TransitionFields DEF Sane
<1>7. CASE b.state # "half_open" /\ failed.failures = FailureThreshold
  <2>1. RecordFailure(b) = TransitionTo(failed, "open")
    BY <1>3, <1>7
  <2>2. QED
    BY <2>1, <1>1, <1>2, TransitionFields DEF Sane
<1>8. CASE b.state # "half_open" /\ failed.failures # FailureThreshold
  <2>1. RecordFailure(b) = failed
    BY <1>3, <1>8
  <2>2. QED
    BY <2>1, <1>2, <1>8, BreakerAssumption DEF Sane
<1>9. QED
  BY <1>6, <1>7, <1>8

(* The cooldown's end changes nothing but the answer to "has it passed".   *)
LEMMA CoolSane ==
  ASSUME NEW b, Sane(b)
  PROVE  Sane(Cool(b)) /\ Cool(b).state = b.state /\ Cool(b).cooled = TRUE
BY DEF Sane, BreakerType, Cool

----------------------------------------------------------------------------
(* A sequence less one element, as splice(at, 1) leaves an array.          *)
LEMMA RemovedFacts ==
  ASSUME NEW S, NEW s \in Seq(S), NEW at \in DOMAIN s
  PROVE  /\ RemoveAt(s, at) \in Seq(S) /\ DOMAIN RemoveAt(s, at) = 1..(Len(s) - 1)
         /\ DOMAIN s = 1..Len(s) /\ Len(s) \in Nat
         /\ \A i \in 1..(Len(s) - 1) : RemoveAt(s, at)[i] = IF i < at THEN s[i] ELSE s[i + 1]
<1> DEFINE a == SubSeq(s, 1, at - 1)
           b == SubSeq(s, at + 1, Len(s))
<1>1. at \in 1..Len(s) /\ Len(s) \in Nat /\ DOMAIN s = 1..Len(s) /\ \A i \in 1..Len(s) : s[i] \in S
  OBVIOUS
<1>2. a \in Seq(S) /\ Len(a) = at - 1 /\ \A i \in 1..(at - 1) : a[i] = s[i]
  BY <1>1
<1>3. b \in Seq(S) /\ Len(b) = Len(s) - at
      /\ \A i \in 1..(Len(s) - (at + 1) + 1) : b[i] = s[at + 1 + i - 1]
  <2>1. at + 1 \in Int /\ Len(s) \in Int /\ \A i \in (at + 1)..Len(s) : s[i] \in S
    BY <1>1
  <2>2. /\ b \in Seq(S) /\ Len(b) = IF at + 1 <= Len(s) THEN Len(s) - (at + 1) + 1 ELSE 0
        /\ \A i \in 1..(Len(s) - (at + 1) + 1) : b[i] = s[at + 1 + i - 1]
    BY <2>1, SubSeqProperties
  <2> HIDE DEF b
  <2>3. QED
    BY <1>1, <2>2
<1> HIDE DEF a, b
<1>4. /\ a \o b \in Seq(S) /\ Len(a \o b) = Len(s) - 1
      /\ \A i \in 1..(Len(s) - 1) : (a \o b)[i] = IF i <= at - 1 THEN a[i] ELSE b[i - (at - 1)]
  <2>1. /\ a \o b \in Seq(S) /\ Len(a \o b) = Len(a) + Len(b)
        /\ \A i \in 1..(Len(a) + Len(b)) :
             (a \o b)[i] = IF i <= Len(a) THEN a[i] ELSE b[i - Len(a)]
    BY <1>2, <1>3, ConcatProperties
  <2>2. Len(a) + Len(b) = Len(s) - 1
    BY <1>1, <1>2, <1>3
  <2>3. QED
    BY <1>2, <2>1, <2>2
<1>5. ASSUME NEW i \in 1..(Len(s) - 1)
      PROVE  (a \o b)[i] = IF i < at THEN s[i] ELSE s[i + 1]
  <2>1. CASE i < at
    <3>1. i <= at - 1 /\ i \in 1..(at - 1)
      BY <1>1, <2>1
    <3>2. QED
      BY <1>2, <1>4, <2>1, <3>1
  <2>2. CASE ~(i < at)
    <3> DEFINE k == i - (at - 1)
    <3>1. ~(i <= at - 1) /\ k \in 1..(Len(s) - (at + 1) + 1) /\ at + 1 + k - 1 = i + 1
      BY <1>1, <2>2
    <3>2. (a \o b)[i] = b[k]
      BY <1>4, <3>1
    <3>3. b[k] = s[at + 1 + k - 1]
      BY <1>3, <3>1
    <3>4. QED
      BY <2>2, <3>1, <3>2, <3>3
  <2>3. QED
    BY <2>1, <2>2
<1>6. RemoveAt(s, at) = a \o b
  BY DEF RemoveAt, a, b
<1>7. DOMAIN (a \o b) = 1..(Len(s) - 1)
  BY <1>4
<1>8. QED
  BY <1>1, <1>4, <1>5, <1>6, <1>7, Zenon
=============================================================================
