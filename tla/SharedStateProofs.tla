------------------------- MODULE SharedStateProofs -------------------------
(***************************************************************************)
(* Theorems about the two objects that every request shares, each under    *)
(* any sequence of calls.                                                  *)
(*                                                                         *)
(* The budget tracker, for every finite set of ids, every budget and every *)
(* cost, NaN and the infinities included.  CommittedWithinOverrun is not   *)
(* inductive: settle() and release() lower _totalReserved by an amount     *)
(* that only the reservations map knows, so the inductive invariant adds   *)
(* that the total is the sum of the map (OpsProofs, SumsTo).  LedgerAgrees *)
(* needs it too, and that the tables hold no estimate below zero until one *)
(* is recorded (NoDebits): then an estimate given back is part of what is  *)
(* reserved, and Math.max(0, ...) clamps nothing in release().             *)
(*                                                                         *)
(* One circuit breaker, for any callers and any thresholds: its invariant, *)
(* from the methods' (OpsProofs, Sane), the bound on the probes, and that  *)
(* it implements CircuitContract.  The bound on the probes is inductive    *)
(* once the invariant adds that only a half-open circuit has probes.       *)
(***************************************************************************)
EXTENDS BudgetTracker, CircuitBreaker, OpsProofs

IInv ==
  /\ TypeOK
  /\ SumsTo(tracker.res, tracker.reserved)
  /\ CommittedWithinOverrun

LEMMA SumTyped ==
  ASSUME NEW S, IsFiniteSet(S), NEW f \in [S -> Int]
  PROVE  SumFunction(f) \in Int
<1>1. PICK m : Measures(m, f, S)
  BY MeasureExists
<1>2. SumFunction(f) = m[S]
  BY <1>1, SumMeasured DEF SumFunction
<1>3. QED
  BY <1>1, <1>2 DEF Measures

(* A number is an integer, or it has no finite part but 0.                 *)
LEMMA Parts ==
  ASSUME NEW n \in Int \cup NonFinite
  PROVE  /\ FinitePart(n) \in Int /\ OddPart(n) \in SUBSET NonFinite
         /\ n \in Int => FinitePart(n) = n /\ OddPart(n) = {}
         /\ n \notin Int => FinitePart(n) = 0 /\ OddPart(n) = {n}
<1>1. \A k \in Int : k \notin NonFinite
  BY TrackerAssumption
<1>2. QED
  BY <1>1 DEF FinitePart, OddPart

LEMMA SafeActualType ==
  ASSUME NEW cost \in Actuals
  PROVE  SafeActual(cost) \in Nat
<1>1. cost \in Int \/ cost \in NonFinite
  BY TrackerAssumption
<1>2. CASE cost \in NonFinite
  BY <1>2, BudgetAssumption DEF SafeActual
<1>3. CASE cost \in Int /\ cost \notin NonFinite
  <2>1. cost # Infinity
    BY <1>3 DEF NonFinite
  <2>2. QED
    BY <1>3, <2>1 DEF SafeActual, AtLeastZero
<1>4. QED
  BY <1>1, <1>2, <1>3

(* The tables.                                                             *)
UsageType == [estimated : Int, actual : Int, requests : Nat]

(* Pushing a cost event keeps the tables typed.                            *)
LEMMA PushType ==
  ASSUME TypeOK, NEW p \in Providers, NEW ph \in Phases,
         NEW estimate \in Int \cup NonFinite, NEW cost \in Int \cup NonFinite,
         Push(p, ph, estimate, cost)
  PROVE  /\ byProvider' \in [Providers -> UsageType]
         /\ byPhase' \in [Phases -> Int]
         /\ eventCount' \in Nat
<1> DEFINE used == [estimated |-> byProvider[p].estimated + FinitePart(estimate),
                    actual |-> byProvider[p].actual + FinitePart(cost),
                    requests |-> byProvider[p].requests + 1]
<1>1. byProvider \in [Providers -> UsageType] /\ byPhase \in [Phases -> Int] /\ eventCount \in Nat
  BY DEF TypeOK, UsageType
<1>2. FinitePart(estimate) \in Int /\ FinitePart(cost) \in Int
  BY Parts
<1>3. used \in UsageType
  <2>1. byProvider[p] \in UsageType
    BY <1>1
  <2>2. QED
    BY <1>2, <2>1 DEF UsageType
<1>4. byProvider' = [byProvider EXCEPT ![p] = used]
  BY DEF Push
<1>5. byProvider' \in [Providers -> UsageType]
  BY <1>1, <1>3, <1>4
<1>6. byPhase' \in [Phases -> Int] /\ eventCount' \in Nat
  BY <1>1, <1>2 DEF Push
<1>7. QED
  BY <1>5, <1>6

(* The tracker's record, field by field.                                   *)
LEMMA BooksFields ==
  ASSUME NEW t \in BooksType
  PROVE  /\ t.res \in [Ids -> Nat \cup {NoRes}]
         /\ t.reserved \in Nat /\ t.actual \in Int /\ t.estimated \in Int
         /\ t.warned \in BOOLEAN /\ t.exceeded \in BOOLEAN
BY DEF BooksType

(* What the callbacks leave alone, and what they never let pass.           *)
LEMMA CheckedAmounts ==
  ASSUME TypeOK, NEW t \in BooksType, NEW terms \in SUBSET NonFinite
  PROVE  LET u == Checked(CheckCallbacks(t), terms) IN
         /\ u \in BooksType
         /\ u.res = t.res /\ u.reserved = t.reserved
         /\ u.actual = t.actual /\ u.estimated = t.estimated
         /\ Reaches(10 * u.actual, terms, 8 * SessionBudget) => u.warned
         /\ Reaches(u.actual, terms, SessionBudget) => u.exceeded
<1> DEFINE c == CheckCallbacks(t)
           u == Checked(c, terms)
<1>1. /\ t.actual \in Int /\ t.reserved \in Nat /\ SessionBudget \in Nat
      /\ Committed(t) = t.actual + t.reserved
  BY BudgetAssumption DEF BooksType, Committed
<1>2. /\ c \in BooksType
      /\ c.res = t.res /\ c.reserved = t.reserved
      /\ c.actual = t.actual /\ c.estimated = t.estimated
      /\ c.warned = (t.warned \/ 10 * Committed(t) >= 8 * SessionBudget)
      /\ c.exceeded = (t.exceeded \/ Exhausted(t))
  BY DEF CheckCallbacks, BooksType, Exhausted
<1>3. CASE terms = {}
  <2>1. u = c
    BY <1>3 DEF Checked
  <2>2. 10 * t.actual >= 8 * SessionBudget => 10 * Committed(t) >= 8 * SessionBudget
    BY <1>1
  <2>3. t.actual >= SessionBudget => Exhausted(t)
    BY <1>1 DEF Exhausted
  <2>4. Reaches(10 * u.actual, terms, 8 * SessionBudget) => 10 * t.actual >= 8 * SessionBudget
    BY <1>2, <1>3, <2>1 DEF Reaches
  <2>5. Reaches(u.actual, terms, SessionBudget) => t.actual >= SessionBudget
    BY <1>2, <1>3, <2>1 DEF Reaches
  <2> HIDE DEF u, c
  <2>6. QED
    BY <1>2, <2>1, <2>2, <2>3, <2>4, <2>5 DEF u, c
<1>4. CASE terms # {}
  <2>1. tracker.warned \in BOOLEAN /\ tracker.exceeded \in BOOLEAN
    BY BooksFields DEF TypeOK
  <2>2. u = [c EXCEPT !.warned = tracker.warned \/ terms = {Infinity},
                      !.exceeded = tracker.exceeded \/ terms = {Infinity}]
    BY <1>4 DEF Checked
  <2> HIDE DEF u, c
  <2>3. /\ u \in BooksType
        /\ u.res = c.res /\ u.reserved = c.reserved
        /\ u.actual = c.actual /\ u.estimated = c.estimated
        /\ u.warned = (tracker.warned \/ terms = {Infinity})
        /\ u.exceeded = (tracker.exceeded \/ terms = {Infinity})
    BY <1>2, <2>1, <2>2 DEF BooksType
  <2>4. \A n, m : Reaches(n, terms, m) => terms = {Infinity}
    BY <1>4 DEF Reaches
  <2>5. QED
    BY <1>2, <2>3, <2>4 DEF u, c
<1>5. QED
  BY <1>3, <1>4

----------------------------------------------------------------------------
(* What each call does to the tracker's amounts.                           *)

LEMMA ReserveBooks ==
  ASSUME IInv, NEW id \in Ids, NEW c \in Estimates, DoReserve(id, c)
  PROVE  /\ c \in Nat
         /\ tracker' \in BooksType
         /\ SumsTo(tracker'.res, tracker'.reserved)
         /\ tracker'.reserved = tracker.reserved + c
         /\ tracker'.estimated = tracker.estimated + c
         /\ tracker'.actual = tracker.actual
         /\ tracker'.warned = tracker.warned /\ tracker'.exceeded = tracker.exceeded
         /\ odd.actual = {} => Committed(tracker') <= SessionBudget
<1>1. /\ tracker \in BooksType /\ SumsTo(tracker.res, tracker.reserved)
      /\ tracker.res[id] = NoRes
  BY DEF IInv, TypeOK, DoReserve, Active
<1>2. tracker' = Reserve(tracker, id, c) /\ MayReserve(c)
  BY DEF DoReserve
<1>3. c \in Nat /\ (odd.actual = {} => CanReserve(tracker, c))
  <2>1. CASE odd.actual = {}
    BY <1>2, <2>1 DEF MayReserve, CanReserve
  <2>2. CASE odd.actual # {}
    <3>1. c \in 0 .. PerRequestBudget
      BY <1>2, <2>2 DEF MayReserve
    <3>2. QED
      BY <2>2, <3>1, BudgetAssumption
  <2>3. QED
    BY <2>1, <2>2
<1>4. /\ tracker'.res = [tracker.res EXCEPT ![id] = c]
      /\ tracker'.reserved = tracker.reserved + c
      /\ tracker'.estimated = tracker.estimated + c
      /\ tracker'.actual = tracker.actual
      /\ tracker'.warned = tracker.warned /\ tracker'.exceeded = tracker.exceeded
  BY <1>1, <1>2 DEF Reserve, BooksType
<1>5. tracker' \in BooksType
  <2>1. /\ [tracker.res EXCEPT ![id] = c] \in [Ids -> Nat \cup {NoRes}]
        /\ tracker.reserved + c \in Nat /\ tracker.estimated + c \in Int
    BY <1>1, <1>3, BooksFields
  <2>2. QED
    BY <1>1, <1>2, <2>1 DEF Reserve, BooksType
<1>6. SumsTo(tracker'.res, tracker'.reserved)
  BY <1>1, <1>3, <1>4, ReserveSums, BooksFields
<1>7. odd.actual = {} => Committed(tracker') <= SessionBudget
  <2>1. tracker.actual \in Int /\ tracker.reserved \in Nat /\ SessionBudget \in Nat
    BY <1>1, BooksFields, BudgetAssumption
  <2>2. QED
    BY <1>3, <1>4, <2>1 DEF Committed, CanReserve
<1>8. QED
  BY <1>3, <1>4, <1>5, <1>6, <1>7

(* What is left when an active id gives its reservation back.              *)
LEMMA BooksGivenBack ==
  ASSUME IInv, NEW id \in Active(tracker)
  PROVE  /\ id \in Ids /\ tracker.res[id] \in Nat
         /\ tracker.res[id] <= tracker.reserved
         /\ AtLeastZero(tracker.reserved - tracker.res[id]) = tracker.reserved - tracker.res[id]
         /\ tracker.reserved - tracker.res[id] \in Nat
         /\ [tracker.res EXCEPT ![id] = NoRes] \in [Ids -> Nat \cup {NoRes}]
         /\ SumsTo([tracker.res EXCEPT ![id] = NoRes], tracker.reserved - tracker.res[id])
<1>1. /\ id \in Ids /\ tracker.res[id] # NoRes /\ tracker.reserved \in Nat
      /\ tracker.res \in [Ids -> Nat \cup {NoRes}]
      /\ SumsTo(tracker.res, tracker.reserved)
  BY BooksFields DEF Active, IInv, TypeOK
<1>2. /\ tracker.res[id] <= tracker.reserved
      /\ SumsTo([tracker.res EXCEPT ![id] = NoRes], tracker.reserved - tracker.res[id])
  BY <1>1, DropSums
<1>3. QED
  BY <1>1, <1>2 DEF AtLeastZero

LEMMA SettleBooks ==
  ASSUME IInv, NEW id \in Ids, NEW c \in Actuals, NEW p \in Providers,
         NEW ph \in Phases, DoSettle(id, c, p, ph)
  PROVE  /\ id \in Active(tracker) /\ SafeActual(c) \in Nat /\ tracker.res[id] \in Nat
         /\ tracker' \in BooksType
         /\ SumsTo(tracker'.res, tracker'.reserved)
         /\ tracker'.reserved = tracker.reserved - tracker.res[id]
         /\ tracker'.estimated = tracker.estimated
         /\ tracker'.actual = tracker.actual + SafeActual(c)
         /\ SpendNotified'
<1> DEFINE actual == SafeActual(c)
           left == tracker.reserved - tracker.res[id]
           without == [tracker.res EXCEPT ![id] = NoRes]
           given == [tracker EXCEPT !.res = without, !.reserved = left,
                                    !.actual = tracker.actual + actual]
<1>1. actual \in Nat /\ id \in Active(tracker) /\ TypeOK /\ tracker \in BooksType
  BY SafeActualType DEF DoSettle, IInv, TypeOK
<1>2. /\ tracker.res[id] \in Nat /\ AtLeastZero(tracker.reserved - tracker.res[id]) = left
      /\ left \in Nat /\ without \in [Ids -> Nat \cup {NoRes}] /\ SumsTo(without, left)
  BY <1>1, BooksGivenBack
<1>3. tracker' = Checked(CheckCallbacks(given), odd.actual)
  <2>1. Settle(tracker, id, actual) = CheckCallbacks(given)
    BY <1>1, <1>2 DEF Settle, Active, BooksType
  <2>2. QED
    BY <2>1 DEF DoSettle
<1>0. tracker.actual + actual \in Int
  BY <1>1, BooksFields
<1> HIDE DEF actual, without, left
<1>4. /\ given \in BooksType
      /\ given.res = without /\ given.reserved = left
      /\ given.estimated = tracker.estimated /\ given.actual = tracker.actual + actual
  BY <1>0, <1>1, <1>2 DEF BooksType
<1>5. odd' = odd /\ odd.actual \in SUBSET NonFinite
  BY <1>1 DEF DoSettle, TypeOK, OddType
<1> HIDE DEF given
<1>6. /\ tracker' \in BooksType
      /\ tracker'.res = given.res /\ tracker'.reserved = given.reserved
      /\ tracker'.actual = given.actual /\ tracker'.estimated = given.estimated
      /\ Reaches(10 * tracker'.actual, odd.actual, 8 * SessionBudget) => tracker'.warned
      /\ Reaches(tracker'.actual, odd.actual, SessionBudget) => tracker'.exceeded
  BY <1>1, <1>3, <1>4, <1>5, CheckedAmounts
<1>7. SpendNotified'
  BY <1>5, <1>6 DEF SpendNotified, Reaches
<1>8. QED
  BY <1>1, <1>2, <1>4, <1>6, <1>7 DEF actual, left, without

LEMMA ReleaseBooks ==
  ASSUME IInv, NEW id \in Ids, DoRelease(id)
  PROVE  /\ id \in Active(tracker) /\ tracker.res[id] \in Nat
         /\ tracker' \in BooksType
         /\ SumsTo(tracker'.res, tracker'.reserved)
         /\ tracker'.reserved = tracker.reserved - tracker.res[id]
         /\ tracker'.actual = tracker.actual
         /\ tracker'.warned = tracker.warned /\ tracker'.exceeded = tracker.exceeded
         /\ odd.estimated # {NegInfinity} =>
              tracker'.estimated = AtLeastZero(tracker.estimated - tracker.res[id])
<1> DEFINE left == tracker.reserved - tracker.res[id]
           without == [tracker.res EXCEPT ![id] = NoRes]
           kept == AtLeastZero(tracker.estimated - tracker.res[id])
           released == Release(tracker, id)
<1>1. id \in Active(tracker) /\ tracker \in BooksType
  BY DEF DoRelease, IInv, TypeOK
<1>2. /\ tracker.res[id] \in Nat /\ AtLeastZero(tracker.reserved - tracker.res[id]) = left
      /\ left \in Nat /\ without \in [Ids -> Nat \cup {NoRes}] /\ SumsTo(without, left)
  BY <1>1, BooksGivenBack
<1>3. kept \in Int
  BY <1>1, <1>2, BooksFields DEF AtLeastZero
<1>4. released = [tracker EXCEPT !.res = without, !.reserved = left, !.estimated = kept]
  BY <1>1, <1>2 DEF Release, Active, BooksType
<1> HIDE DEF left, without, kept, released
<1>5. /\ released \in BooksType
      /\ released.res = without /\ released.reserved = left /\ released.estimated = kept
      /\ released.actual = tracker.actual
      /\ released.warned = tracker.warned /\ released.exceeded = tracker.exceeded
  BY <1>1, <1>2, <1>3, <1>4 DEF BooksType
<1>6. tracker' = IF odd.estimated = {NegInfinity}
                 THEN [released EXCEPT !.estimated = 0] ELSE released
  BY DEF DoRelease, released
<1>7. /\ tracker' \in BooksType
      /\ tracker'.res = without /\ tracker'.reserved = left
      /\ tracker'.actual = tracker.actual
      /\ tracker'.warned = tracker.warned /\ tracker'.exceeded = tracker.exceeded
      /\ odd.estimated # {NegInfinity} => tracker'.estimated = kept
  BY <1>5, <1>6 DEF BooksType
<1>8. QED
  BY <1>1, <1>2, <1>7 DEF left, without, kept

(* What record() makes of the non-finite terms.                            *)
LEMMA RecordOdd ==
  ASSUME TypeOK, NEW e \in Recorded, NEW c \in Recorded, NEW p \in Providers,
         NEW ph \in Phases, DoRecord(e, c, p, ph)
  PROVE  /\ e \in Int \cup NonFinite /\ c \in Int \cup NonFinite
         /\ odd' \in OddType
         /\ odd'.estimated = odd.estimated \cup OddPart(e)
         /\ odd'.actual = odd.actual \cup OddPart(c)
         /\ odd'.byProvider = [odd.byProvider EXCEPT
              ![p] = [estimated |-> odd.byProvider[p].estimated \cup OddPart(e),
                      actual |-> odd.byProvider[p].actual \cup OddPart(c)]]
         /\ odd'.byPhase = [odd.byPhase EXCEPT ![ph] = odd.byPhase[ph] \cup OddPart(c)]
<1> DEFINE used == [estimated |-> odd.byProvider[p].estimated \cup OddPart(e),
                    actual |-> odd.byProvider[p].actual \cup OddPart(c)]
           providers == [odd.byProvider EXCEPT ![p] = used]
           phases == [odd.byPhase EXCEPT ![ph] = odd.byPhase[ph] \cup OddPart(c)]
<1>1. e \in Int \cup NonFinite /\ c \in Int \cup NonFinite
  BY TrackerAssumption
<1>2. OddPart(e) \in SUBSET NonFinite /\ OddPart(c) \in SUBSET NonFinite
  BY <1>1, Parts
<1>3. odd \in OddType
  BY DEF TypeOK
<1>4. odd' = [odd EXCEPT !.estimated = odd.estimated \cup OddPart(e),
                         !.actual = odd.actual \cup OddPart(c),
                         !.byProvider = providers, !.byPhase = phases]
  BY <1>3 DEF DoRecord, OddType
<1>5. /\ odd.estimated \cup OddPart(e) \in SUBSET NonFinite
      /\ odd.actual \cup OddPart(c) \in SUBSET NonFinite
      /\ phases \in [Phases -> SUBSET NonFinite]
  BY <1>2, <1>3 DEF OddType
<1>6. providers \in [Providers -> [estimated : SUBSET NonFinite, actual : SUBSET NonFinite]]
  <2>1. odd.byProvider[p] \in [estimated : SUBSET NonFinite, actual : SUBSET NonFinite]
    BY <1>3 DEF OddType
  <2>2. used \in [estimated : SUBSET NonFinite, actual : SUBSET NonFinite]
    BY <1>2, <2>1
  <2> HIDE DEF used
  <2>3. QED
    BY <1>3, <2>2 DEF OddType
<1> HIDE DEF providers, phases
<1>7. /\ odd' \in OddType
      /\ odd'.estimated = odd.estimated \cup OddPart(e)
      /\ odd'.actual = odd.actual \cup OddPart(c)
      /\ odd'.byProvider = providers /\ odd'.byPhase = phases
  BY <1>3, <1>4, <1>5, <1>6 DEF OddType
<1>8. QED
  BY <1>1, <1>7 DEF providers, phases

LEMMA RecordBooks ==
  ASSUME IInv, NEW e \in Recorded, NEW c \in Recorded, NEW p \in Providers,
         NEW ph \in Phases, DoRecord(e, c, p, ph)
  PROVE  /\ tracker' \in BooksType
         /\ tracker'.res = tracker.res /\ tracker'.reserved = tracker.reserved
         /\ tracker'.estimated = tracker.estimated + FinitePart(e)
         /\ tracker'.actual = tracker.actual + FinitePart(c)
         /\ SpendNotified'
<1> DEFINE added == [tracker EXCEPT !.estimated = @ + FinitePart(e),
                                    !.actual = @ + FinitePart(c)]
<1>1. TypeOK /\ tracker \in BooksType
  BY DEF IInv, TypeOK
<1>2. /\ FinitePart(e) \in Int /\ FinitePart(c) \in Int /\ odd' \in OddType
      /\ odd'.actual \in SUBSET NonFinite
  BY <1>1, RecordOdd, Parts DEF OddType
<1>3. /\ added \in BooksType /\ added.res = tracker.res /\ added.reserved = tracker.reserved
      /\ added.estimated = tracker.estimated + FinitePart(e)
      /\ added.actual = tracker.actual + FinitePart(c)
  <2>1. tracker.estimated + FinitePart(e) \in Int /\ tracker.actual + FinitePart(c) \in Int
    BY <1>1, <1>2, BooksFields
  <2>2. QED
    BY <1>1, <2>1 DEF BooksType
<1>4. tracker' = Checked(CheckCallbacks(added), odd'.actual)
  BY DEF DoRecord, Record
<1> HIDE DEF added
<1> DEFINE terms == odd'.actual
<1>5. /\ tracker' \in BooksType
      /\ tracker'.res = added.res /\ tracker'.reserved = added.reserved
      /\ tracker'.actual = added.actual /\ tracker'.estimated = added.estimated
      /\ Reaches(10 * tracker'.actual, terms, 8 * SessionBudget) => tracker'.warned
      /\ Reaches(tracker'.actual, terms, SessionBudget) => tracker'.exceeded
  <2>1. terms \in SUBSET NonFinite /\ tracker' = Checked(CheckCallbacks(added), terms)
    BY <1>2, <1>4
  <2> HIDE DEF terms
  <2>2. QED
    BY <1>1, <1>3, <2>1, CheckedAmounts
<1>6. SpendNotified'
  BY <1>5 DEF SpendNotified, Reaches
<1>7. QED
  BY <1>3, <1>5, <1>6

----------------------------------------------------------------------------
LEMMA EmptyBooks ==
  /\ EmptyTracker \in BooksType /\ SumsTo(EmptyTracker.res, EmptyTracker.reserved)
  /\ Committed(EmptyTracker) = 0 /\ EmptyTracker.actual = 0
  /\ NothingOdd \in OddType /\ NothingOdd.actual = {}
  /\ [p \in Providers |-> NoUsage] \in [Providers -> UsageType]
  /\ [ph \in Phases |-> 0] \in [Phases -> Int]
<1>1. /\ EmptyTracker \in BooksType /\ Committed(EmptyTracker) = 0
      /\ EmptyTracker.actual = 0
  BY DEF EmptyTracker, BooksType, Committed
<1>2. NothingOdd \in OddType /\ NothingOdd.actual = {}
  BY DEF NothingOdd, OddType
<1>3. NoUsage \in UsageType
  BY DEF NoUsage, UsageType
<1>4. /\ [p \in Providers |-> NoUsage] \in [Providers -> UsageType]
      /\ [ph \in Phases |-> 0] \in [Phases -> Int]
  BY <1>3
<1>5. QED
  BY <1>1, <1>2, <1>4, EmptySums

LEMMA InitInv == Init => IInv
<1> SUFFICES ASSUME Init PROVE IInv
  OBVIOUS
<1>1. TypeOK
  <2>1. tracker.actual >= 0 /\ NegInfinity \notin odd.actual
    BY EmptyBooks DEF Init
  <2>2. negative \in BOOLEAN /\ refunded \in BOOLEAN
    BY DEF Init
  <2>3. QED
    BY <2>1, <2>2, EmptyBooks DEF Init, TypeOK, UsageType
<1>2. CommittedWithinOverrun
  BY EmptyBooks, BudgetAssumption DEF Init, CommittedWithinOverrun
<1>3. QED
  BY <1>1, <1>2, EmptyBooks DEF IInv, Init

LEMMA NextInv == IInv /\ [Next]_vars => IInv'
<1> SUFFICES ASSUME IInv, [Next]_vars PROVE IInv'
  OBVIOUS
<1>0. /\ TypeOK /\ tracker \in BooksType /\ overrun \in Nat /\ SessionBudget \in Nat
      /\ SumsTo(tracker.res, tracker.reserved)
      /\ tracker.actual \in Int /\ tracker.reserved \in Nat
      /\ odd.actual = {} => tracker.actual + tracker.reserved <= SessionBudget + overrun
      /\ odd \in OddType /\ negative \in BOOLEAN /\ refunded \in BOOLEAN
      /\ ~refunded => tracker.actual >= 0 /\ NegInfinity \notin odd.actual
      /\ byProvider \in [Providers -> UsageType] /\ byPhase \in [Phases -> Int]
      /\ eventCount \in Nat
  BY BudgetAssumption, BooksFields
     DEF IInv, TypeOK, CommittedWithinOverrun, Committed, UsageType
<1>1. ASSUME NEW id \in Ids, NEW c \in Estimates, DoReserve(id, c)
      PROVE  IInv'
  <2>1. /\ tracker' \in BooksType /\ SumsTo(tracker'.res, tracker'.reserved)
        /\ odd.actual = {} => Committed(tracker') <= SessionBudget
        /\ tracker'.actual = tracker.actual /\ tracker'.reserved \in Nat
    BY <1>1, ReserveBooks, BooksFields
  <2>2. UNCHANGED <<byProvider, byPhase, odd, eventCount, overrun, negative, refunded>>
    BY <1>1 DEF DoReserve
  <2>3. TypeOK'
    BY <1>0, <2>1, <2>2 DEF TypeOK, UsageType
  <2>4. CommittedWithinOverrun'
    BY <1>0, <2>1, <2>2 DEF CommittedWithinOverrun, Committed
  <2>5. QED
    BY <2>1, <2>3, <2>4 DEF IInv
<1>2. ASSUME NEW id \in Ids, NEW c \in Actuals, NEW p \in Providers,
             NEW ph \in Phases, DoSettle(id, c, p, ph)
      PROVE  IInv'
  <2> DEFINE actual == SafeActual(c)
             reserved == tracker.res[id]
  <2>1. /\ actual \in Nat /\ reserved \in Nat
        /\ tracker' \in BooksType /\ SumsTo(tracker'.res, tracker'.reserved)
        /\ tracker'.reserved = tracker.reserved - reserved
        /\ tracker'.actual = tracker.actual + actual
    BY <1>2, SettleBooks
  <2>2. /\ overrun' = overrun + AtLeastZero(actual - reserved)
        /\ odd' = odd /\ negative' = negative /\ refunded' = refunded
        /\ Push(p, ph, reserved, actual)
    BY <1>2 DEF DoSettle
  <2> HIDE DEF actual, reserved
  <2>3. overrun' \in Nat /\ actual - reserved <= overrun' - overrun
    BY <1>0, <2>1, <2>2 DEF AtLeastZero
  <2>4. /\ byProvider' \in [Providers -> UsageType] /\ byPhase' \in [Phases -> Int]
        /\ eventCount' \in Nat
    BY <1>0, <2>1, <2>2, PushType
  <2>5. TypeOK'
    BY <1>0, <2>1, <2>2, <2>3, <2>4 DEF TypeOK, UsageType
  <2>6. CommittedWithinOverrun'
    BY <1>0, <2>1, <2>2, <2>3 DEF CommittedWithinOverrun, Committed
  <2>7. QED
    BY <2>1, <2>5, <2>6 DEF IInv
<1>3. ASSUME NEW id \in Ids, DoRelease(id)
      PROVE  IInv'
  <2>1. /\ tracker.res[id] \in Nat
        /\ tracker' \in BooksType /\ SumsTo(tracker'.res, tracker'.reserved)
        /\ tracker'.reserved = tracker.reserved - tracker.res[id]
        /\ tracker'.actual = tracker.actual
    BY <1>3, ReleaseBooks
  <2>2. UNCHANGED <<byProvider, byPhase, eventCount, overrun, negative, refunded>>
    BY <1>3 DEF DoRelease
  <2>3. odd' \in OddType /\ odd'.actual = odd.actual
    BY <1>0, <1>3 DEF DoRelease, OddType
  <2>4. TypeOK'
    BY <1>0, <2>1, <2>2, <2>3 DEF TypeOK, UsageType
  <2>5. CommittedWithinOverrun'
    BY <1>0, <2>1, <2>2, <2>3 DEF CommittedWithinOverrun, Committed
  <2>6. QED
    BY <2>1, <2>4, <2>5 DEF IInv
<1>4. ASSUME NEW e \in Recorded, NEW c \in Recorded, NEW p \in Providers,
             NEW ph \in Phases, DoRecord(e, c, p, ph)
      PROVE  IInv'
  <2> DEFINE n == FinitePart(c)
  <2>1. /\ tracker' \in BooksType /\ tracker'.res = tracker.res
        /\ tracker'.reserved = tracker.reserved /\ tracker'.actual = tracker.actual + n
    BY <1>4, RecordBooks
  <2>2. /\ e \in Int \cup NonFinite /\ c \in Int \cup NonFinite
        /\ odd' \in OddType /\ odd'.actual = odd.actual \cup OddPart(c)
    BY <1>0, <1>4, RecordOdd
  <2>3. n \in Int
    BY <2>2, Parts
  <2>4. /\ overrun' = overrun + AtLeastZero(n) /\ negative' \in BOOLEAN
        /\ refunded' = (refunded \/ c = NegInfinity \/ n < 0) /\ Push(p, ph, e, c)
    BY <1>0, <1>4 DEF DoRecord
  <2> HIDE DEF n
  <2>5. overrun' \in Nat /\ n <= overrun' - overrun
    BY <1>0, <2>3, <2>4 DEF AtLeastZero
  <2>6. /\ byProvider' \in [Providers -> UsageType] /\ byPhase' \in [Phases -> Int]
        /\ eventCount' \in Nat
    BY <1>0, <2>2, <2>4, PushType
  <2>7. TypeOK'
    <3>1. ASSUME ~refunded'
          PROVE  ~refunded /\ c # NegInfinity /\ ~(n < 0)
      BY <2>4, <3>1, Zenon
    <3>2. ASSUME ~refunded'
          PROVE  tracker'.actual >= 0 /\ NegInfinity \notin odd'.actual
      <4>1. tracker.actual >= 0 /\ NegInfinity \notin odd.actual
        BY <1>0, <3>1, <3>2, Zenon
      <4>2. n >= 0
        BY <2>3, <3>1, <3>2
      <4>3. NegInfinity \notin OddPart(c)
        BY <3>1, <3>2 DEF OddPart
      <4>4. QED
        BY <1>0, <2>1, <2>2, <2>3, <4>1, <4>2, <4>3
    <3>3. refunded' \in BOOLEAN
      BY <1>0, <2>4
    <3>4. QED
      BY <1>0, <2>1, <2>2, <2>4, <2>5, <2>6, <3>2, <3>3 DEF TypeOK, UsageType
  <2>8. odd'.actual = {} => odd.actual = {}
    BY <2>2
  <2>9. CommittedWithinOverrun'
    BY <1>0, <2>1, <2>3, <2>5, <2>8 DEF CommittedWithinOverrun, Committed
  <2>10. QED
    BY <1>0, <2>1, <2>7, <2>9 DEF IInv
<1>5. CASE Reset
  <2>1. TypeOK'
    <3>1. tracker'.actual >= 0 /\ NegInfinity \notin odd'.actual
      BY <1>5, EmptyBooks DEF Reset
    <3>2. negative' \in BOOLEAN /\ refunded' \in BOOLEAN
      BY <1>5 DEF Reset
    <3>3. QED
      BY <1>5, <3>1, <3>2, EmptyBooks DEF Reset, TypeOK, UsageType
  <2>2. CommittedWithinOverrun'
    BY <1>0, <1>5, EmptyBooks DEF Reset, CommittedWithinOverrun
  <2>3. QED
    BY <1>5, <2>1, <2>2, EmptyBooks DEF Reset, IInv
<1>6. CASE UNCHANGED vars
  BY <1>6 DEF vars, IInv, TypeOK, CommittedWithinOverrun
<1>7. QED
  BY <1>1, <1>2, <1>3, <1>4, <1>5, <1>6 DEF Next

(* The tracker is always well formed: what is reserved is never negative,  *)
(* whatever numbers its callers pass, and what was spent is not either     *)
(* until record() is given a negative cost.                                *)
THEOREM TypeCorrect == Spec => []TypeOK
<1>1. IInv => TypeOK
  BY DEF IInv
<1>2. QED
  BY InitInv, NextInv, <1>1, PTL DEF Spec

(* The session budget cannot be overcommitted by any interleaving of       *)
(* reservations: what exceeds it was charged above a reservation.          *)
THEOREM BudgetRespected == Spec => []CommittedWithinOverrun
<1>1. IInv => CommittedWithinOverrun
  BY DEF IInv
<1>2. QED
  BY InitInv, NextInv, <1>1, PTL DEF Spec

LEMMA NotifiedInit == Init => SpendNotified
<1> SUFFICES ASSUME Init PROVE SpendNotified
  OBVIOUS
<1>1. tracker.actual = 0 /\ odd.actual = {} /\ SessionBudget \in Nat \ {0}
  BY BudgetAssumption, EmptyBooks DEF Init, EmptyTracker
<1>2. ~ 10 * 0 >= 8 * SessionBudget /\ ~ 0 >= SessionBudget
  BY <1>1
<1>3. QED
  BY <1>1, <1>2 DEF SpendNotified, Reaches

LEMMA NotifiedNext == IInv /\ SpendNotified /\ [Next]_vars => SpendNotified'
<1> SUFFICES ASSUME IInv, SpendNotified, [Next]_vars PROVE SpendNotified'
  OBVIOUS
<1>1. ASSUME NEW id \in Ids, NEW c \in Estimates, DoReserve(id, c)
      PROVE  SpendNotified'
  <2>1. /\ tracker'.actual = tracker.actual /\ tracker'.warned = tracker.warned
        /\ tracker'.exceeded = tracker.exceeded /\ odd' = odd
    BY <1>1, ReserveBooks DEF DoReserve
  <2>2. QED
    BY <2>1 DEF SpendNotified
<1>2. ASSUME NEW id \in Ids, NEW c \in Actuals, NEW p \in Providers,
             NEW ph \in Phases, DoSettle(id, c, p, ph)
      PROVE  SpendNotified'
  BY <1>2, SettleBooks
<1>3. ASSUME NEW id \in Ids, DoRelease(id)
      PROVE  SpendNotified'
  <2>1. /\ tracker'.actual = tracker.actual /\ tracker'.warned = tracker.warned
        /\ tracker'.exceeded = tracker.exceeded
    BY <1>3, ReleaseBooks
  <2>2. odd'.actual = odd.actual
    BY <1>3 DEF DoRelease, IInv, TypeOK, OddType
  <2>3. QED
    BY <2>1, <2>2 DEF SpendNotified
<1>4. ASSUME NEW e \in Recorded, NEW c \in Recorded, NEW p \in Providers,
             NEW ph \in Phases, DoRecord(e, c, p, ph)
      PROVE  SpendNotified'
  BY <1>4, RecordBooks
<1>5. CASE Reset
  <2>1. tracker'.actual = 0 /\ odd'.actual = {} /\ SessionBudget \in Nat \ {0}
    BY <1>5, BudgetAssumption, EmptyBooks DEF Reset, EmptyTracker
  <2>2. ~ 10 * 0 >= 8 * SessionBudget /\ ~ 0 >= SessionBudget
    BY <2>1
  <2>3. QED
    BY <2>1, <2>2 DEF SpendNotified, Reaches
<1>6. CASE UNCHANGED vars
  BY <1>6 DEF vars, SpendNotified
<1>7. QED
  BY <1>1, <1>2, <1>3, <1>4, <1>5, <1>6 DEF Next

(* Whatever the order of calls, no charge crosses 80% or 100% of the       *)
(* session budget without its callback having fired.                       *)
THEOREM SpendersNotified == Spec => []SpendNotified
BY InitInv, NextInv, NotifiedInit, NotifiedNext, PTL DEF Spec

----------------------------------------------------------------------------
(* _totalReserved never drifts from the reservations it stands for.        *)
THEOREM ReservationsAddUp == Spec => []ReservedIsSum
<1>1. IInv => ReservedIsSum
  BY DEF IInv, SumsTo, AmountsHeld, ReservedIsSum, Amount
<1>2. QED
  BY InitInv, NextInv, <1>1, PTL DEF Spec

(* The sums of the tables are numbers, and an event adds to each what it   *)
(* says.                                                                   *)
LEMMA TotalsType ==
  ASSUME TypeOK
  PROVE  /\ TotalOf(byProvider, "estimated") \in Int
         /\ TotalOf(byProvider, "actual") \in Int
         /\ TotalOf(byProvider, "requests") \in Int
         /\ SumFunction(byPhase) \in Int
<1>1. ASSUME NEW f \in {"estimated", "actual", "requests"}
      PROVE  TotalOf(byProvider, f) \in Int
  <2>1. [p \in Providers |-> byProvider[p][f]] \in [Providers -> Int]
    BY <1>1 DEF TypeOK
  <2>2. QED
    BY <2>1, SumTyped, TrackerAssumption DEF TotalOf
<1>2. byPhase \in [Phases -> Int]
  BY DEF TypeOK
<1>3. QED
  BY <1>1, <1>2, SumTyped, TrackerAssumption

LEMMA PushTotals ==
  ASSUME TypeOK, NEW p \in Providers, NEW ph \in Phases,
         NEW estimate \in Int \cup NonFinite, NEW cost \in Int \cup NonFinite,
         Push(p, ph, estimate, cost)
  PROVE  /\ TotalOf(byProvider', "estimated") =
              TotalOf(byProvider, "estimated") + FinitePart(estimate)
         /\ TotalOf(byProvider', "actual") =
              TotalOf(byProvider, "actual") + FinitePart(cost)
         /\ TotalOf(byProvider', "requests") = TotalOf(byProvider, "requests") + 1
         /\ SumFunction(byPhase') = SumFunction(byPhase) + FinitePart(cost)
<1> DEFINE used == [estimated |-> byProvider[p].estimated + FinitePart(estimate),
                    actual |-> byProvider[p].actual + FinitePart(cost),
                    requests |-> byProvider[p].requests + 1]
           column(f) == [q \in Providers |-> byProvider[q][f]]
<1>0. FinitePart(estimate) \in Int /\ FinitePart(cost) \in Int
  BY Parts
<1>1. byProvider \in [Providers -> UsageType] /\ byPhase \in [Phases -> Int]
  BY DEF TypeOK, UsageType
<1>2. byProvider' = [byProvider EXCEPT ![p] = used]
  BY DEF Push
<1>3. ASSUME NEW f \in {"estimated", "actual", "requests"}, NEW n \in Int,
             used[f] = byProvider[p][f] + n
      PROVE  TotalOf(byProvider', f) = TotalOf(byProvider, f) + n
  <2>1. column(f) \in [Providers -> Int] /\ column(f)[p] \in Int /\ used[f] \in Int
    BY <1>1, <1>3 DEF UsageType
  <2>2. [q \in Providers |-> byProvider'[q][f]] = [column(f) EXCEPT ![p] = used[f]]
    BY <1>1, <1>2
  <2>3. TotalOf(byProvider', f) = TotalOf(byProvider, f) - column(f)[p] + used[f]
    <3> HIDE DEF used
    <3>1. QED
      BY <2>1, <2>2, SumUpdate, TrackerAssumption DEF TotalOf
  <2>4. TotalOf(byProvider, f) \in Int
    BY <1>3, TotalsType
  <2>5. QED
    BY <1>3, <2>1, <2>3, <2>4
<1>4. SumFunction(byPhase') = SumFunction(byPhase) + FinitePart(cost)
  <2> DEFINE n == byPhase[ph] + FinitePart(cost)
  <2>1. byPhase' = [byPhase EXCEPT ![ph] = n]
    BY DEF Push
  <2>2. byPhase \in [Phases -> Int] /\ byPhase[ph] \in Int /\ n \in Int
    BY <1>0, <1>1
  <2>3. SumFunction([byPhase EXCEPT ![ph] = n]) = SumFunction(byPhase) - byPhase[ph] + n
    <3> HIDE DEF n
    <3>1. QED
      BY <2>2, SumUpdate, TrackerAssumption
  <2>4. QED
    BY <1>0, <2>1, <2>2, <2>3, TotalsType
<1>5. QED
  BY <1>0, <1>3, <1>4

(* One member of a family of sets grows, and their union with it.          *)
Joined(f, S) == UNION {f[y] : y \in S}

LEMMA UnionGrows ==
  ASSUME NEW S, NEW x \in S, NEW T, NEW f, NEW g, g[x] = f[x] \cup T,
         \A y \in S : y # x => g[y] = f[y]
  PROVE  Joined(g, S) = Joined(f, S) \cup T
<1>1. ASSUME NEW v \in Joined(g, S) PROVE v \in Joined(f, S) \cup T
  <2>1. PICK y \in S : v \in g[y]
    BY <1>1 DEF Joined
  <2>2. QED
    BY <2>1 DEF Joined
<1>2. ASSUME NEW v \in Joined(f, S) PROVE v \in Joined(g, S)
  <2>1. PICK y \in S : v \in f[y]
    BY <1>2 DEF Joined
  <2>2. v \in g[y]
    BY <2>1
  <2>3. QED
    BY <2>1, <2>2 DEF Joined
<1>3. T \subseteq Joined(g, S)
  BY DEF Joined
<1>4. QED
  BY <1>1, <1>2, <1>3

(* The non-finite terms reach the tables as they reach the totals.         *)
LEMMA RecordTerms ==
  ASSUME TypeOK, NEW e \in Recorded, NEW c \in Recorded, NEW p \in Providers,
         NEW ph \in Phases, DoRecord(e, c, p, ph)
  PROVE  /\ OddTermsOf("estimated")' = OddTermsOf("estimated") \cup OddPart(e)
         /\ OddTermsOf("actual")' = OddTermsOf("actual") \cup OddPart(c)
         /\ Joined(odd'.byPhase, Phases) = Joined(odd.byPhase, Phases) \cup OddPart(c)
<1> DEFINE column(o, f) == [q \in Providers |-> o[q][f]]
           used == [estimated |-> odd.byProvider[p].estimated \cup OddPart(e),
                    actual |-> odd.byProvider[p].actual \cup OddPart(c)]
<1>1. /\ odd'.byProvider = [odd.byProvider EXCEPT ![p] = used]
      /\ odd'.byPhase = [odd.byPhase EXCEPT ![ph] = odd.byPhase[ph] \cup OddPart(c)]
  BY RecordOdd
<1>0. DOMAIN odd.byProvider = Providers /\ DOMAIN odd.byPhase = Phases
  BY DEF TypeOK, OddType
<1>2. ASSUME NEW f \in {"estimated", "actual"}, NEW T,
             used[f] = odd.byProvider[p][f] \cup T
      PROVE  OddTermsOf(f)' = OddTermsOf(f) \cup T
  <2> DEFINE before == column(odd.byProvider, f)
             after == column(odd'.byProvider, f)
  <2>1. after[p] = before[p] \cup T /\ \A q \in Providers : q # p => after[q] = before[q]
    BY <1>0, <1>1, <1>2
  <2>2. Joined(before, Providers) = OddTermsOf(f) /\ Joined(after, Providers) = OddTermsOf(f)'
    BY DEF Joined, OddTermsOf
  <2> HIDE DEF before, after
  <2>3. Joined(after, Providers) = Joined(before, Providers) \cup T
    BY <2>1, UnionGrows
  <2>4. QED
    BY <2>2, <2>3
<1>3. Joined(odd'.byPhase, Phases) = Joined(odd.byPhase, Phases) \cup OddPart(c)
  <2>1. /\ odd'.byPhase[ph] = odd.byPhase[ph] \cup OddPart(c)
        /\ \A q \in Phases : q # ph => odd'.byPhase[q] = odd.byPhase[q]
    BY <1>0, <1>1
  <2> DEFINE before == odd.byPhase
             after == odd'.byPhase
  <2>2. Joined(after, Phases) = Joined(before, Phases) \cup OddPart(c)
    <3>1. after[ph] = before[ph] \cup OddPart(c) /\ \A q \in Phases : q # ph => after[q] = before[q]
      BY <2>1
    <3> HIDE DEF before, after
    <3>2. QED
      BY <3>1, UnionGrows
  <2>3. QED
    BY <2>2
<1>4. QED
  BY <1>2, <1>3

(* Until an estimate below zero is recorded, none is in the tables.        *)
NoDebits ==
  ~negative =>
    /\ NegInfinity \notin odd.estimated
    /\ \A p \in Providers : byProvider[p].estimated >= 0

LEMMA DebitsInit == Init => NoDebits
BY DEF Init, NoDebits, NothingOdd, NoUsage

LEMMA DebitsNext == IInv /\ NoDebits /\ [Next]_vars => NoDebits'
<1> SUFFICES ASSUME IInv, NoDebits, [Next]_vars PROVE NoDebits'
  OBVIOUS
<1>0. /\ TypeOK /\ byProvider \in [Providers -> UsageType]
      /\ \A q \in Providers : byProvider[q].estimated \in Int
  BY DEF IInv, TypeOK, UsageType
<1>1. ASSUME NEW p \in Providers, NEW ph, NEW e \in Int \cup NonFinite, NEW c,
             Push(p, ph, e, c), NoDebits, FinitePart(e) >= 0, ~negative,
             NEW q \in Providers
      PROVE  byProvider'[q].estimated >= 0
  <2>1. FinitePart(e) \in Int /\ byProvider[q].estimated \in Int /\ byProvider[q].estimated >= 0
    BY <1>0, <1>1, Parts DEF NoDebits
  <2>2. byProvider'[q].estimated =
          IF q = p THEN byProvider[q].estimated + FinitePart(e) ELSE byProvider[q].estimated
    BY <1>0, <1>1 DEF Push
  <2>3. QED
    BY <1>1, <2>1, <2>2
<1>2. ASSUME NEW id \in Ids, NEW c \in Estimates, DoReserve(id, c)
      PROVE  NoDebits'
  BY <1>2 DEF DoReserve, NoDebits
<1>3. ASSUME NEW id \in Ids, NEW c \in Actuals, NEW p \in Providers,
             NEW ph \in Phases, DoSettle(id, c, p, ph)
      PROVE  NoDebits'
  <2>1. tracker.res[id] \in Nat
    BY <1>3, SettleBooks
  <2>2. tracker.res[id] \in Int /\ FinitePart(tracker.res[id]) >= 0
    BY <2>1, Parts
  <2>3. /\ Push(p, ph, tracker.res[id], SafeActual(c))
        /\ odd' = odd /\ negative' = negative
    BY <1>3 DEF DoSettle
  <2>4. ~negative => \A q \in Providers : byProvider'[q].estimated >= 0
    BY <1>1, <2>2, <2>3
  <2>5. QED
    BY <2>3, <2>4 DEF NoDebits
<1>4. ASSUME NEW id \in Ids, DoRelease(id)
      PROVE  NoDebits'
  <2>1. odd'.estimated \subseteq odd.estimated
    BY <1>0, <1>4 DEF DoRelease, TypeOK, OddType
  <2>2. byProvider' = byProvider /\ negative' = negative
    BY <1>4 DEF DoRelease
  <2>3. QED
    BY <2>1, <2>2 DEF NoDebits
<1>5. ASSUME NEW e \in Recorded, NEW c \in Recorded, NEW p \in Providers,
             NEW ph \in Phases, DoRecord(e, c, p, ph)
      PROVE  NoDebits'
  <2>1. /\ e \in Int \cup NonFinite
        /\ odd'.estimated = odd.estimated \cup OddPart(e)
    BY <1>0, <1>5, RecordOdd
  <2>2. /\ Push(p, ph, e, c)
        /\ negative' = (negative \/ e = NegInfinity \/ FinitePart(e) < 0)
    BY <1>5 DEF DoRecord
  <2>3. FinitePart(e) \in Int
    BY <2>1, Parts
  <2>4. ~negative' => ~negative /\ e # NegInfinity /\ FinitePart(e) >= 0
    <3>1. ~negative' => ~negative /\ e # NegInfinity /\ ~ FinitePart(e) < 0
      BY <2>2, Zenon
    <3>2. ~ FinitePart(e) < 0 => FinitePart(e) >= 0
      BY <2>3
    <3>3. QED
      BY <3>1, <3>2
  <2>5. e # NegInfinity => NegInfinity \notin OddPart(e)
    BY DEF OddPart
  <2>6. ~negative' => \A q \in Providers : byProvider'[q].estimated >= 0
    BY <1>1, <2>1, <2>2, <2>4
  <2>7. QED
    BY <2>1, <2>4, <2>5, <2>6 DEF NoDebits
<1>6. CASE Reset
  BY <1>6 DEF Reset, NoDebits, NothingOdd, NoUsage
<1>7. CASE UNCHANGED vars
  BY <1>7 DEF vars, NoDebits
<1>8. QED
  BY <1>2, <1>3, <1>4, <1>5, <1>6, <1>7 DEF Next

(* Then the estimates of the tables are no less than 0 together.           *)
LEMMA EstimatesAboveZero ==
  ASSUME TypeOK, NoDebits, ~negative
  PROVE  TotalOf(byProvider, "estimated") >= 0
<1>1. [p \in Providers |-> byProvider[p].estimated] \in [Providers -> Nat]
  BY DEF TypeOK, NoDebits
<1>2. TotalOf(byProvider, "estimated") \in Nat
  BY <1>1, SumBounds, TrackerAssumption DEF TotalOf
<1>3. QED
  BY <1>2

LEMMA EmptyTotals ==
  /\ \A f \in {"estimated", "actual", "requests"} :
       TotalOf([p \in Providers |-> NoUsage], f) = 0
  /\ SumFunction([ph \in Phases |-> 0]) = 0
  /\ \A f \in {"estimated", "actual"} :
       UNION {NothingOdd.byProvider[p][f] : p \in Providers} = {}
  /\ UNION {NothingOdd.byPhase[ph] : ph \in Phases} = {}
  /\ NothingOdd.actual = {} /\ NothingOdd.estimated = {}
<1>1. ASSUME NEW f \in {"estimated", "actual", "requests"}
      PROVE  TotalOf([p \in Providers |-> NoUsage], f) = 0
  <2>1. [p \in Providers |-> [q \in Providers |-> NoUsage][p][f]] = [p \in Providers |-> 0]
    BY <1>1 DEF NoUsage
  <2>2. QED
    BY <2>1, SumZero, TrackerAssumption DEF TotalOf
<1>2. /\ \A f \in {"estimated", "actual"} : \A p \in Providers :
           NothingOdd.byProvider[p][f] = {}
      /\ \A ph \in Phases : NothingOdd.byPhase[ph] = {}
      /\ NothingOdd.actual = {} /\ NothingOdd.estimated = {}
  BY DEF NothingOdd
<1>3. QED
  BY <1>1, <1>2, SumZero, TrackerAssumption

LEMMA AgreesInit == Init => LedgerAgrees
BY EmptyTotals
   DEF Init, LedgerAgrees, EmptyTracker, OddTermsOf, SameSum

LEMMA AgreesNext == IInv /\ NoDebits /\ LedgerAgrees /\ [Next]_vars => LedgerAgrees'
<1> SUFFICES ASSUME IInv, NoDebits, LedgerAgrees, [Next]_vars PROVE LedgerAgrees'
  OBVIOUS
<1> DEFINE est == TotalOf(byProvider, "estimated")
           act == TotalOf(byProvider, "actual")
           req == TotalOf(byProvider, "requests")
           phs == SumFunction(byPhase)
           oddEst == OddTermsOf("estimated")
           oddAct == OddTermsOf("actual")
           oddPhs == Joined(odd.byPhase, Phases)
<1>0. /\ TypeOK /\ est \in Int /\ act \in Int /\ req \in Int /\ phs \in Int
      /\ SameSum(tracker.actual, odd.actual, act, oddAct)
      /\ SameSum(tracker.actual, odd.actual, phs, oddPhs)
      /\ eventCount = req
      /\ ~negative => SameSum(tracker.estimated, odd.estimated, tracker.reserved + est, oddEst)
      /\ oddEst = {} => odd.estimated = {} /\ tracker.estimated >= tracker.reserved + est
  BY TotalsType DEF IInv, LedgerAgrees, Joined
<1>1. tracker.reserved \in Nat /\ tracker.estimated \in Int /\ tracker.actual \in Int
  BY <1>0, BooksFields DEF TypeOK
(* A call that changes the amounts by these numbers keeps them agreeing.   *)
<1>2. ASSUME odd' = odd, negative' = negative, NEW r \in Int, NEW n \in Int, NEW a \in Int,
             NEW k \in Int,
             tracker'.reserved = tracker.reserved + r,
             tracker'.actual = tracker.actual + a,
             TotalOf(byProvider', "estimated") = est + n,
             TotalOf(byProvider', "actual") = act + a,
             TotalOf(byProvider', "requests") = req + k,
             SumFunction(byPhase') = phs + a,
             eventCount' = eventCount + k,
             ~negative /\ oddEst = {} => tracker'.estimated = tracker.estimated + r + n,
             oddEst = {} => tracker'.estimated >= tracker.estimated + r + n
      PROVE  LedgerAgrees'
  <2>1. oddEst' = oddEst /\ oddAct' = oddAct /\ oddPhs' = oddPhs
    BY <1>2 DEF OddTermsOf
  <2> HIDE DEF est, act, req, phs, oddEst, oddAct, oddPhs
  <2>2. SameSum(tracker'.actual, odd'.actual, act + a, oddAct)
    BY <1>0, <1>1, <1>2 DEF SameSum
  <2>3. SameSum(tracker'.actual, odd'.actual, phs + a, oddPhs)
    BY <1>0, <1>1, <1>2 DEF SameSum
  <2>4. eventCount' = req + k
    BY <1>0, <1>2
  <2>5. ~negative' => SameSum(tracker'.estimated, odd'.estimated,
                              tracker'.reserved + (est + n), oddEst)
    BY <1>0, <1>1, <1>2 DEF SameSum
  <2>6. oddEst = {} =>
          odd'.estimated = {} /\ tracker'.estimated >= tracker'.reserved + (est + n)
    <3>1. SUFFICES ASSUME oddEst = {}
                   PROVE  odd'.estimated = {} /\ tracker'.estimated >= tracker'.reserved + (est + n)
      OBVIOUS
    <3>2. tracker'.estimated >= tracker.estimated + r + n /\ odd'.estimated = {}
      BY <1>0, <1>2, <3>1
    <3>3. tracker.estimated >= tracker.reserved + est
      BY <1>0, <3>1
    <3>4. tracker.estimated + r + n >= tracker.reserved + r + (est + n)
      BY <1>0, <1>1, <1>2, <3>3
    <3>5. tracker'.reserved + (est + n) = tracker.reserved + r + (est + n)
      BY <1>2
    <3>6. tracker'.estimated \in Int
      BY <3>2, NextInv, BooksFields DEF IInv, TypeOK
    <3>7. QED
      BY <1>0, <1>1, <1>2, <3>2, <3>4, <3>5, <3>6
  <2>7. QED
    BY <1>2, <2>1, <2>2, <2>3, <2>4, <2>5, <2>6
       DEF LedgerAgrees, Joined, est, act, req, phs, oddEst, oddAct, oddPhs
<1>3. ASSUME NEW id \in Ids, NEW c \in Estimates, DoReserve(id, c)
      PROVE  LedgerAgrees'
  <2>1. /\ tracker'.estimated = tracker.estimated + c
        /\ tracker'.reserved = tracker.reserved + c
        /\ tracker'.actual = tracker.actual /\ c \in Nat
    BY <1>3, ReserveBooks
  <2>2. UNCHANGED <<byProvider, byPhase, odd, eventCount, negative>>
    BY <1>3 DEF DoReserve
  <2> DEFINE z == 0
  <2>3. /\ z \in Int /\ c \in Int
        /\ tracker'.actual = tracker.actual + z
        /\ TotalOf(byProvider', "estimated") = est + z
        /\ TotalOf(byProvider', "actual") = act + z
        /\ TotalOf(byProvider', "requests") = req + z
        /\ SumFunction(byPhase') = phs + z /\ eventCount' = eventCount + z
        /\ tracker'.estimated = tracker.estimated + c + z
        /\ tracker'.estimated >= tracker.estimated + c + z
    BY <1>0, <1>1, <2>1, <2>2
  <2> HIDE DEF est, act, req, phs, oddEst, z
  <2>4. QED
    BY <1>2, <2>1, <2>2, <2>3
<1>4. ASSUME NEW id \in Ids, NEW c \in Actuals, NEW p \in Providers,
             NEW ph \in Phases, DoSettle(id, c, p, ph)
      PROVE  LedgerAgrees'
  <2> DEFINE actual == SafeActual(c)
             reserved == tracker.res[id]
             given == 0 - reserved
  <2>1. /\ actual \in Nat /\ reserved \in Nat
        /\ tracker'.reserved = tracker.reserved - reserved
        /\ tracker'.estimated = tracker.estimated
        /\ tracker'.actual = tracker.actual + actual
    BY <1>4, SettleBooks
  <2>2. /\ Push(p, ph, reserved, actual) /\ odd' = odd /\ negative' = negative
        /\ eventCount' = eventCount + 1
    BY <1>4 DEF DoSettle, Push
  <2> HIDE DEF actual, reserved
  <2>3. FinitePart(reserved) = reserved /\ FinitePart(actual) = actual
    BY <2>1, Parts
  <2>4. /\ TotalOf(byProvider', "estimated") = est + reserved
        /\ TotalOf(byProvider', "actual") = act + actual
        /\ TotalOf(byProvider', "requests") = req + 1
        /\ SumFunction(byPhase') = phs + actual
    BY <1>0, <2>1, <2>2, <2>3, PushTotals
  <2>5. /\ given \in Int /\ tracker'.reserved = tracker.reserved + given
        /\ tracker'.estimated = tracker.estimated + given + reserved
        /\ tracker'.estimated >= tracker.estimated + given + reserved
    BY <1>1, <2>1
  <2> HIDE DEF est, act, req, phs, oddEst, given
  <2>6. QED
    BY <1>2, <2>1, <2>2, <2>4, <2>5
<1>5. ASSUME NEW id \in Ids, DoRelease(id)
      PROVE  LedgerAgrees'
  <2> DEFINE amount == tracker.res[id]
             given == 0 - amount
             z == 0
  <2>1. /\ amount \in Nat /\ amount <= tracker.reserved
        /\ tracker'.reserved = tracker.reserved - amount
        /\ tracker'.actual = tracker.actual
        /\ odd.estimated # {NegInfinity} =>
             tracker'.estimated = AtLeastZero(tracker.estimated - amount)
    BY <1>5, ReleaseBooks, BooksGivenBack
  <2>2. UNCHANGED <<byProvider, byPhase, eventCount, negative>>
    BY <1>5 DEF DoRelease
  <2>3. CASE odd.estimated # {NegInfinity}
    <3>1. odd' = odd
      BY <1>5, <2>3 DEF DoRelease
    <3>2. /\ given \in Int /\ z \in Int /\ tracker'.reserved = tracker.reserved + given
          /\ tracker'.actual = tracker.actual + z
          /\ TotalOf(byProvider', "estimated") = est + z
          /\ TotalOf(byProvider', "actual") = act + z
          /\ TotalOf(byProvider', "requests") = req + z
          /\ SumFunction(byPhase') = phs + z /\ eventCount' = eventCount + z
      BY <1>0, <1>1, <2>1, <2>2
    <3>3. tracker'.estimated >= tracker.estimated + given + z
      BY <1>1, <2>1, <2>3 DEF AtLeastZero
    <3>4. ~negative /\ oddEst = {} => tracker'.estimated = tracker.estimated + given + z
      <4>1. SUFFICES ASSUME ~negative, oddEst = {}
                     PROVE  tracker'.estimated = tracker.estimated + given + z
        OBVIOUS
      <4>2. est >= 0
        BY <1>0, <4>1, EstimatesAboveZero
      <4>3. tracker.estimated >= tracker.reserved + est
        BY <1>0, <4>1
      <4>4. tracker.estimated >= amount
        BY <1>0, <1>1, <2>1, <4>2, <4>3
      <4>5. QED
        BY <1>1, <2>1, <2>3, <4>4 DEF AtLeastZero
    <3> HIDE DEF est, act, req, phs, oddEst, given, z
    <3>5. QED
      BY <1>2, <2>2, <3>1, <3>2, <3>3, <3>4
  <2>4. CASE odd.estimated = {NegInfinity}
    <3>1. negative /\ oddEst # {}
      BY <1>0, <2>4 DEF NoDebits
    <3>2. odd' = [odd EXCEPT !.estimated = {}]
      BY <1>5, <2>4 DEF DoRelease
    <3>3. /\ odd'.byProvider = odd.byProvider /\ odd'.byPhase = odd.byPhase
          /\ odd'.actual = odd.actual
      BY <1>0, <3>2 DEF TypeOK, OddType
    <3>4. oddEst' = oddEst /\ oddAct' = oddAct /\ oddPhs' = oddPhs
      BY <3>3 DEF OddTermsOf
    <3>5. QED
      BY <1>0, <2>1, <2>2, <3>1, <3>3, <3>4 DEF LedgerAgrees, Joined, SameSum
  <2>5. QED
    BY <2>3, <2>4
<1>6. ASSUME NEW e \in Recorded, NEW c \in Recorded, NEW p \in Providers,
             NEW ph \in Phases, DoRecord(e, c, p, ph)
      PROVE  LedgerAgrees'
  <2> DEFINE n == FinitePart(e)
             m == FinitePart(c)
  <2>1. /\ tracker'.reserved = tracker.reserved
        /\ tracker'.estimated = tracker.estimated + n
        /\ tracker'.actual = tracker.actual + m
    BY <1>6, RecordBooks
  <2>2. /\ e \in Int \cup NonFinite /\ c \in Int \cup NonFinite
        /\ odd'.estimated = odd.estimated \cup OddPart(e)
        /\ odd'.actual = odd.actual \cup OddPart(c)
    BY <1>0, <1>6, RecordOdd
  <2>3. /\ Push(p, ph, e, c) /\ eventCount' = eventCount + 1
        /\ ~negative' => ~negative
    BY <1>6 DEF DoRecord, Push
  <2>4. /\ TotalOf(byProvider', "estimated") = est + n
        /\ TotalOf(byProvider', "actual") = act + m
        /\ TotalOf(byProvider', "requests") = req + 1
        /\ SumFunction(byPhase') = phs + m
    BY <1>0, <2>2, <2>3, PushTotals
  <2>5. /\ oddEst' = oddEst \cup OddPart(e)
        /\ oddAct' = oddAct \cup OddPart(c)
        /\ oddPhs' = oddPhs \cup OddPart(c)
    BY <1>0, <1>6, RecordTerms
  <2>6. n \in Int /\ m \in Int
    BY <2>2, Parts
  <2> HIDE DEF est, act, req, phs, oddEst, oddAct, oddPhs, n, m
  <2>7. SameSum(tracker'.actual, odd'.actual, act + m, oddAct')
    BY <1>0, <1>1, <2>1, <2>2, <2>5, <2>6 DEF SameSum
  <2>8. SameSum(tracker'.actual, odd'.actual, phs + m, oddPhs')
    BY <1>0, <1>1, <2>1, <2>2, <2>5, <2>6 DEF SameSum
  <2>9. ~negative' => SameSum(tracker'.estimated, odd'.estimated,
                              tracker'.reserved + (est + n), oddEst')
    BY <1>0, <1>1, <2>1, <2>2, <2>3, <2>5, <2>6 DEF SameSum
  <2>10. oddEst' = {} =>
           odd'.estimated = {} /\ tracker'.estimated >= tracker'.reserved + (est + n)
    BY <1>0, <1>1, <2>1, <2>2, <2>5, <2>6
  <2>11. QED
    BY <1>0, <2>3, <2>4, <2>7, <2>8, <2>9, <2>10
       DEF LedgerAgrees, Joined, oddEst, oddAct, oddPhs
<1>7. CASE Reset
  BY <1>7, EmptyTotals DEF Reset, LedgerAgrees, EmptyTracker, OddTermsOf, SameSum
<1>8. CASE UNCHANGED vars
  BY <1>8 DEF vars, LedgerAgrees, OddTermsOf
<1>9. QED
  BY <1>3, <1>4, <1>5, <1>6, <1>7, <1>8 DEF Next

(* What was charged is the same number in the report's totals, its         *)
(* providers and its phases, whatever numbers are recorded; and so is what *)
(* is estimated, until an estimate below zero is recorded.                 *)
THEOREM AccountsAgree == Spec => []LedgerAgrees
BY InitInv, NextInv, DebitsInit, DebitsNext, AgreesInit, AgreesNext, PTL DEF Spec

-----------------------------------------------------------------------------
(* The inductive invariant of the machine: the breaker is sane, only a     *)
(* half-open circuit has probes, and they are accounted for.               *)
BreakerIInv ==
  /\ Sane(breaker)
  /\ call \in [Callers -> {"idle", "early", "probe"}]
  /\ strays \in Nat
  /\ leaked \in BOOLEAN
  /\ resets \in BOOLEAN
  /\ breaker.state # "half_open" => Probes = {}
  /\ ProbesAccounted

(* Probes are a finite number of callers, and one more or less of them     *)
(* changes their number by one.                                            *)
LEMMA ProbesFinite == IsFiniteSet(Probes) /\ Cardinality(Probes) \in Nat
BY CallersAssumption, FS_Subset, FS_CardinalityType DEF Probes

LEMMA BreakerStart == BreakerInit => BreakerIInv
<1> SUFFICES ASSUME BreakerInit PROVE BreakerIInv
  OBVIOUS
<1>1. Sane(breaker) /\ breaker.state = "closed"
  BY ClosedSane DEF BreakerInit, ClosedBreaker
<1>2. Probes = {}
  BY DEF BreakerInit, Probes
<1>3. QED
  BY <1>1, <1>2 DEF BreakerInit, BreakerIInv, ProbesAccounted

LEMMA StartKeeps ==
  ASSUME BreakerIInv, NEW c \in Callers, Start(c)
  PROVE  BreakerIInv'
<1> DEFINE admitted == Admit(breaker)
<1>1. Sane(breaker) /\ IsAvailable(breaker)
  BY DEF BreakerIInv, Start
<1>2. Sane(admitted) /\ breaker' = admitted
  BY <1>1, AdmitSane DEF Start, Become
<1>3. /\ call' \in [Callers -> {"idle", "early", "probe"}]
      /\ strays' \in Nat /\ leaked' \in BOOLEAN /\ resets' \in BOOLEAN
  BY DEF BreakerIInv, Start, Become
<1>4. breaker.state \in {"closed", "open", "half_open"}
  BY <1>1 DEF Sane, BreakerType, CircuitStates
<1>5. CASE breaker.state = "closed"
  <2>1. admitted = breaker /\ admitted.state = "closed"
    BY <1>1, <1>5, AdmitSane
  <2>2. Probes' = {}
    BY <2>1, <1>5 DEF BreakerIInv, Start, Become, Probes
  <2>3. QED
    BY <1>2, <1>3, <2>1, <2>2 DEF BreakerIInv, ProbesAccounted
<1>6. CASE breaker.state = "open"
  <2>1. admitted.state = "half_open" /\ admitted.halfOpenCalls = 0
    BY <1>1, <1>6, AdmitSane
  <2>2. Probes' = {c}
    BY <2>1, <1>2, <1>6 DEF BreakerIInv, Start, Become, Probes
  <2>3. strays' = 0
    BY <2>1, <1>6 DEF Start
  <2>4. Cardinality(Probes') = 1
    BY <2>2, FS_Singleton
  <2>5. QED
    BY <1>2, <1>3, <2>1, <2>3, <2>4 DEF BreakerIInv, ProbesAccounted
<1>7. CASE breaker.state = "half_open"
  <2>1. /\ admitted.state = "half_open"
        /\ admitted.halfOpenCalls = breaker.halfOpenCalls + 1
    BY <1>1, <1>7, AdmitSane
  <2>2. Probes' = Probes \cup {c}
    BY <2>1, <1>7 DEF BreakerIInv, Start, Become, Probes
  <2>3. strays' = strays
    BY <2>1, <1>7 DEF Start
  <2>4. Cardinality(Probes') <= Cardinality(Probes) + 1
    <3>1. Cardinality(Probes \cup {c}) =
            IF c \in Probes THEN Cardinality(Probes) ELSE Cardinality(Probes) + 1
      BY ProbesFinite, FS_AddElement
    <3>2. QED
      BY <3>1, <2>2, ProbesFinite
  <2>5. Cardinality(Probes) <= breaker.halfOpenCalls + 1 + strays
    BY <1>7 DEF BreakerIInv, ProbesAccounted
  <2>6. breaker.halfOpenCalls \in Nat /\ strays \in Nat /\ Cardinality(Probes') \in Nat
    BY <1>1, <2>2, ProbesFinite, FS_AddElement, FS_CardinalityType
      DEF BreakerIInv, Sane, BreakerType
  <2>7. ProbesAccounted'
    BY <1>2, <2>1, <2>3, <2>4, <2>5, <2>6, ProbesFinite DEF ProbesAccounted
  <2>8. QED
    BY <1>2, <1>3, <2>1, <2>7 DEF BreakerIInv
<1>8. QED
  BY <1>4, <1>5, <1>6, <1>7

LEMMA SucceedKeeps ==
  ASSUME BreakerIInv, NEW c \in Callers, Succeed(c)
  PROVE  BreakerIInv'
<1> DEFINE b == RecordSuccess(breaker)
<1>1. Sane(breaker)
  BY DEF BreakerIInv
<1>2. Sane(b) /\ breaker' = b
  BY <1>1, SuccessSane DEF Succeed, Become
<1>3. /\ call' \in [Callers -> {"idle", "early", "probe"}]
      /\ strays' \in Nat /\ leaked' \in BOOLEAN /\ resets' \in BOOLEAN
  BY DEF BreakerIInv, Succeed, Become
<1>4. CASE b.state # "half_open"
  <2>1. Probes' = {}
    BY <1>1, <1>4, SuccessSane DEF BreakerIInv, Succeed, Become, Probes
  <2>2. QED
    BY <1>2, <1>3, <1>4, <2>1 DEF BreakerIInv, ProbesAccounted
<1>5. CASE b.state = "half_open"
  <2>1. breaker.state = "half_open" /\ b.halfOpenCalls >= breaker.halfOpenCalls - 1
    BY <1>1, <1>5, SuccessSane
  <2>2. Probes' = Probes \ {c}
    BY <2>1, <1>5 DEF BreakerIInv, Succeed, Become, Probes
  <2>3. /\ c \in Probes => Cardinality(Probes') = Cardinality(Probes) - 1 /\ strays' = strays
        /\ c \notin Probes => Cardinality(Probes') = Cardinality(Probes) /\ strays' = strays + 1
    BY <2>2, <1>5, ProbesFinite, FS_RemoveElement DEF BreakerIInv, Succeed, Probes
  <2>4. Cardinality(Probes) <= breaker.halfOpenCalls + 1 + strays
    BY <2>1 DEF BreakerIInv, ProbesAccounted
  <2>5. breaker.halfOpenCalls \in Nat /\ b.halfOpenCalls \in Nat /\ strays \in Nat
    BY <1>1, <1>2 DEF BreakerIInv, Sane, BreakerType
  <2>6. ProbesAccounted'
    BY <1>2, <2>1, <2>3, <2>4, <2>5, ProbesFinite DEF ProbesAccounted
  <2>7. QED
    BY <1>2, <1>3, <1>5, <2>6 DEF BreakerIInv
<1>6. QED
  BY <1>4, <1>5

LEMMA FailKeeps ==
  ASSUME BreakerIInv, NEW c \in Callers, Fail(c)
  PROVE  BreakerIInv'
<1>1. /\ Sane(breaker) /\ Sane(RecordFailure(breaker))
      /\ RecordFailure(breaker).state # "half_open"
      /\ breaker' = RecordFailure(breaker)
  BY FailureSane DEF BreakerIInv, Fail, Become
<1>2. /\ call' \in [Callers -> {"idle", "early", "probe"}]
      /\ strays' \in Nat /\ leaked' \in BOOLEAN /\ resets' \in BOOLEAN
  BY DEF BreakerIInv, Fail, Become
<1>3. Probes' = {}
  BY <1>1 DEF BreakerIInv, Fail, Become, Probes
<1>4. QED
  BY <1>1, <1>2, <1>3 DEF BreakerIInv, ProbesAccounted

LEMMA AbandonKeeps ==
  ASSUME BreakerIInv, NEW c \in Callers, Abandon(c)
  PROVE  BreakerIInv'
<1>1. /\ call' \in [Callers -> {"idle", "early", "probe"}]
      /\ leaked' \in BOOLEAN /\ UNCHANGED <<breaker, strays, resets>>
  BY DEF BreakerIInv, Abandon
<1>2. Probes' \subseteq Probes
  BY DEF BreakerIInv, Abandon, Probes
<1>3. Cardinality(Probes') <= Cardinality(Probes) /\ Cardinality(Probes') \in Nat
  BY <1>2, ProbesFinite, FS_Subset, FS_CardinalityType
<1>4. breaker.halfOpenCalls \in Nat /\ strays \in Nat
  BY DEF BreakerIInv, Sane, BreakerType
<1>5. ProbesAccounted'
  BY <1>1, <1>3, <1>4, ProbesFinite DEF BreakerIInv, ProbesAccounted
<1>6. QED
  BY <1>1, <1>2, <1>5 DEF BreakerIInv

LEMMA ResetKeeps == BreakerIInv /\ ResetAll => BreakerIInv'
<1> SUFFICES ASSUME BreakerIInv, ResetAll PROVE BreakerIInv'
  OBVIOUS
<1>1. Sane(breaker') /\ breaker'.state = "closed"
  BY ResetSane DEF BreakerIInv, ResetAll
<1>2. call' \in [Callers -> {"idle", "early", "probe"}] /\ Probes' = {}
  BY DEF BreakerIInv, ResetAll, Probes
<1>3. QED
  BY <1>1, <1>2 DEF BreakerIInv, ResetAll, ProbesAccounted

LEMMA BreakerStep == BreakerIInv /\ [BreakerNext]_breakerVars => BreakerIInv'
<1> SUFFICES ASSUME BreakerIInv, [BreakerNext]_breakerVars PROVE BreakerIInv'
  OBVIOUS
<1>1. CASE \E c \in Callers : Start(c) \/ Succeed(c) \/ Fail(c) \/ Abandon(c)
  BY <1>1, StartKeeps, SucceedKeeps, FailKeeps, AbandonKeeps
<1>2. CASE CoolDown
  <2>1. Sane(breaker') /\ breaker'.state = breaker.state
    BY <1>2, CoolSane DEF BreakerIInv, CoolDown
  <2>2. breaker'.halfOpenCalls = breaker.halfOpenCalls
    BY <1>2 DEF BreakerIInv, Sane, BreakerType, CoolDown, Cool
  <2>3. QED
    BY <1>2, <2>1, <2>2 DEF BreakerIInv, CoolDown, ProbesAccounted, Probes
<1>3. CASE ResetAll
  BY <1>3, ResetKeeps
<1>4. CASE UNCHANGED breakerVars
  BY <1>4 DEF BreakerIInv, breakerVars, ProbesAccounted, Probes
<1>5. QED
  BY <1>1, <1>2, <1>3, <1>4 DEF BreakerNext

THEOREM BreakerInvariant == BreakerSpec => []BreakerIInv
BY BreakerStart, BreakerStep, PTL DEF BreakerSpec

(* The state is well typed: _halfOpenCalls never goes negative, however    *)
(* many late answers give back places they never took.                     *)
THEOREM BreakerTyped == BreakerSpec => []BreakerTypeOK
<1>1. BreakerIInv => BreakerTypeOK
  BY DEF BreakerIInv, BreakerTypeOK, Sane
<1>2. QED
  BY <1>1, BreakerInvariant, PTL

(* No counter is ever past a threshold on which the breaker should have    *)
(* acted, for any thresholds and any order of answers.                     *)
THEOREM CountersCorrect == BreakerSpec => []CountersInRange
<1>1. BreakerIInv => CountersInRange
  BY DEF BreakerIInv, Sane, CountersInRange
<1>2. QED
  BY <1>1, BreakerInvariant, PTL

(* The calls in flight to a recovering provider are bounded by the count,  *)
(* the one uncounted probe and the stray answers.                          *)
THEOREM ProbesBounded == BreakerSpec => []ProbesAccounted
<1>1. BreakerIInv => ProbesAccounted
  BY DEF BreakerIInv
<1>2. QED
  BY <1>1, BreakerInvariant, PTL

----------------------------------------------------------------------------
(* Every step of the breaker is one of the contract's or a stutter.        *)
LEMMA StepRefines == BreakerIInv /\ [BreakerNext]_breakerVars => [Contract!CNext]_Contract!cvars
<1> SUFFICES ASSUME BreakerIInv, [BreakerNext]_breakerVars PROVE [Contract!CNext]_Contract!cvars
  OBVIOUS
<1> USE DEF Contract!CNext, Contract!cvars
<1>1. Sane(breaker) /\ breaker.state \in {"closed", "open", "half_open"}
  BY DEF BreakerIInv, Sane, BreakerType, CircuitStates
<1>2. ASSUME NEW c \in Callers, Start(c) PROVE [Contract!CNext]_Contract!cvars
  <2>1. breaker' = Admit(breaker) /\ IsAvailable(breaker) /\ UNCHANGED resets
    BY <1>2 DEF Start, Become
  <2>2. QED
    BY <2>1, <1>1, AdmitSane DEF Contract!Probe
<1>3. ASSUME NEW c \in Callers, Succeed(c) PROVE [Contract!CNext]_Contract!cvars
  <2>1. breaker' = RecordSuccess(breaker) /\ UNCHANGED resets
    BY <1>3 DEF Succeed, Become
  <2>2. QED
    BY <2>1, <1>1, SuccessSane DEF Contract!Recover
<1>4. ASSUME NEW c \in Callers, Fail(c) PROVE [Contract!CNext]_Contract!cvars
  <2>1. breaker' = RecordFailure(breaker) /\ UNCHANGED resets
    BY <1>4 DEF Fail, Become
  <2>2. QED
    BY <2>1, <1>1, FailureSane DEF Contract!Trip, Contract!FailAgain
<1>5. ASSUME NEW c \in Callers, Abandon(c) PROVE [Contract!CNext]_Contract!cvars
  BY <1>5 DEF Abandon
<1>6. CASE CoolDown
  BY <1>1, <1>6, CoolSane DEF CoolDown, Contract!CooldownPasses
<1>7. CASE ResetAll
  BY <1>1, <1>7, ResetSane DEF ResetAll, Contract!ManualReset
<1>8. CASE UNCHANGED breakerVars
  BY <1>8 DEF breakerVars
<1>9. QED
  BY <1>2, <1>3, <1>4, <1>5, <1>6, <1>7, <1>8 DEF BreakerNext

(* The breaker implements its contract: an open circuit closes only        *)
(* through a cooldown and a half-open period, or by hand.                  *)
THEOREM Refinement == BreakerSpec => ImplementsContract
<1>1. BreakerInit => Contract!CInit
  BY DEF BreakerInit, ClosedBreaker, Contract!CInit
<1>2. QED
  BY <1>1, StepRefines, BreakerInvariant, PTL DEF BreakerSpec, ImplementsContract, Contract!CSpec
=============================================================================
