--------------------------- MODULE BudgetTracker ---------------------------
(***************************************************************************)
(* src/cost/tracker.ts as a state machine: any interleaving of the public  *)
(* calls, in any order and with any id, as concurrent requests make them.  *)
(* What the report() getter shows is derived from these variables.         *)
(***************************************************************************)
EXTENDS BudgetOps, Functions

CONSTANTS
  Estimates,      \* the estimates reserve() is called with
  Actuals,        \* the costs settle() is called with
  Recorded,       \* the estimates and costs record() is called with
  NaN, Infinity, NegInfinity,  \* the numbers that are not finite
  Providers, Phases,
  MaxEvents       \* bound: cost events before the next reset()

NonFinite == {NaN, Infinity, NegInfinity}

ASSUME TrackerAssumption ==
  /\ Estimates \cup Actuals \cup Recorded \subseteq Int \cup NonFinite
  /\ NonFinite \cap Int = {}
  /\ Cardinality(NonFinite) = 3
  /\ IsFiniteSet(Providers) /\ IsFiniteSet(Phases)
  /\ MaxEvents \in Nat

(* A sum of numbers is kept in two parts: the sum of its finite terms, in  *)
(* tracker and the tables, and the set of its non-finite terms, in odd.    *)
(* With no such term it is finite; with Infinity alone it is Infinity,     *)
(* with NegInfinity alone NegInfinity; otherwise it is NaN.                *)
VARIABLES
  tracker,
  byProvider,  \* _byProvider: what each provider was charged
  byPhase,     \* _byPhase
  odd,         \* the non-finite terms of the totals and of the tables
  eventCount,  \* _events.length
  overrun,     \* history: what was charged beyond any reservation
  negative,    \* history: record() was given an estimate below zero
  refunded     \* history: record() was given a cost below zero

vars == <<tracker, byProvider, byPhase, odd, eventCount, overrun, negative, refunded>>

NoUsage == [estimated |-> 0, actual |-> 0, requests |-> 0]

NothingOdd ==
  [estimated |-> {}, actual |-> {},
   byProvider |-> [p \in Providers |-> [estimated |-> {}, actual |-> {}]],
   byPhase |-> [ph \in Phases |-> {}]]

BooksType ==
  [res : [Ids -> Nat \cup {NoRes}],
   reserved : Nat, actual : Int, estimated : Int,
   warned : BOOLEAN, exceeded : BOOLEAN]

OddType ==
  [estimated : SUBSET NonFinite, actual : SUBSET NonFinite,
   byProvider : [Providers -> [estimated : SUBSET NonFinite,
                               actual : SUBSET NonFinite]],
   byPhase : [Phases -> SUBSET NonFinite]]

(* Every total and table has its type, and what was spent is not below     *)
(* zero until record() is given such a cost: settle() never makes it so.   *)
TypeOK ==
  /\ tracker \in BooksType
  /\ byProvider \in
       [Providers -> [estimated : Int, actual : Int, requests : Nat]]
  /\ byPhase \in [Phases -> Int]
  /\ odd \in OddType
  /\ eventCount \in Nat
  /\ overrun \in Nat
  /\ negative \in BOOLEAN /\ refunded \in BOOLEAN
  /\ ~refunded => tracker.actual >= 0 /\ NegInfinity \notin odd.actual

Init ==
  /\ tracker = EmptyTracker
  /\ byProvider = [p \in Providers |-> NoUsage]
  /\ byPhase = [ph \in Phases |-> 0]
  /\ odd = NothingOdd
  /\ eventCount = 0
  /\ overrun = 0
  /\ negative = FALSE /\ refunded = FALSE

(* The two parts of a number.                                              *)
FinitePart(n) == IF n \in NonFinite THEN 0 ELSE n
OddPart(n) == {n} \cap NonFinite

(* Mutant: a negative cost is charged as it is.                            *)
SafeActualUnclamped(cost) ==
  IF cost = Infinity THEN SessionBudget
  ELSE IF cost \in NonFinite THEN 0 ELSE cost

(* What settle() charges: negative and NaN count as 0, Infinity as the     *)
(* whole session budget.                                                   *)
SafeActual(cost) ==
  IF cost = Infinity THEN SessionBudget
  ELSE IF cost \in NonFinite THEN 0 ELSE AtLeastZero(cost)

(* The cost event that settle() and record() push and total up.            *)
Push(p, ph, estimate, cost) ==
  /\ eventCount' = eventCount + 1
  /\ byProvider' = [byProvider EXCEPT
       ![p] = [estimated |-> @.estimated + FinitePart(estimate),
               actual |-> @.actual + FinitePart(cost),
               requests |-> @.requests + 1]]
  /\ byPhase' = [byPhase EXCEPT ![ph] = @ + FinitePart(cost)]

(* reserve()'s checks.  A comparison with NaN is false, so that a spend of *)
(* NaN refuses nothing.                                                    *)
MayReserve(cost) ==
  /\ cost \notin NonFinite
  /\ odd.actual # {Infinity}
  /\ IF odd.actual = {} THEN CanReserve(tracker, cost)
     ELSE cost \in 0 .. PerRequestBudget

(* What _checkBudgetCallbacks() makes of a total with non-finite terms:    *)
(* Infinity reaches every threshold, NaN and NegInfinity none.             *)
Checked(t, terms) ==
  IF terms = {} THEN t
  ELSE [t EXCEPT !.warned = tracker.warned \/ terms = {Infinity},
                 !.exceeded = tracker.exceeded \/ terms = {Infinity}]

----------------------------------------------------------------------------
(* reserve(): null when a check fails, an exception for a duplicate id;    *)
(* neither changes anything.                                               *)
DoReserve(id, cost) ==
  /\ id \notin Active(tracker)
  /\ MayReserve(cost)
  /\ tracker' = Reserve(tracker, id, cost)
  /\ UNCHANGED <<byProvider, byPhase, odd, eventCount, overrun, negative, refunded>>

DoSettle(id, cost, p, ph) ==
  LET actual == SafeActual(cost)
      reserved == tracker.res[id]
  IN  /\ id \in Active(tracker)
      /\ eventCount < MaxEvents
      /\ tracker' = Checked(Settle(tracker, id, actual), odd.actual)
      /\ Push(p, ph, reserved, actual)
      /\ overrun' = overrun + AtLeastZero(actual - reserved)
      /\ UNCHANGED <<odd, negative, refunded>>

(* release(): Math.max(0, ...) leaves NaN and Infinity as they are and     *)
(* makes 0 of NegInfinity.                                                 *)
DoRelease(id) ==
  LET lost == odd.estimated = {NegInfinity}
      released == Release(tracker, id)
  IN  /\ id \in Active(tracker)
      /\ tracker' = IF lost THEN [released EXCEPT !.estimated = 0] ELSE released
      /\ odd' = IF lost THEN [odd EXCEPT !.estimated = {}] ELSE odd
      /\ UNCHANGED <<byProvider, byPhase, eventCount, overrun, negative, refunded>>

(* record() checks nothing: whatever number it is given is added.          *)
DoRecord(estimate, cost, p, ph) ==
  /\ eventCount < MaxEvents
  /\ odd' = [odd EXCEPT
       !.estimated = @ \cup OddPart(estimate),
       !.actual = @ \cup OddPart(cost),
       !.byProvider[p] = [estimated |-> @.estimated \cup OddPart(estimate),
                          actual |-> @.actual \cup OddPart(cost)],
       !.byPhase[ph] = @ \cup OddPart(cost)]
  /\ tracker' =
       Checked(Record(tracker, FinitePart(estimate), FinitePart(cost)), odd'.actual)
  /\ Push(p, ph, estimate, cost)
  /\ overrun' = overrun + AtLeastZero(FinitePart(cost))
  /\ negative' = (negative \/ estimate = NegInfinity \/ FinitePart(estimate) < 0)
  /\ refunded' = (refunded \/ cost = NegInfinity \/ FinitePart(cost) < 0)

(* reset(): forgets the reservations of requests still in flight too;      *)
(* their later settle() or release() then finds nothing.                   *)
Reset ==
  /\ tracker' = EmptyTracker
  /\ byProvider' = [p \in Providers |-> NoUsage]
  /\ byPhase' = [ph \in Phases |-> 0]
  /\ odd' = NothingOdd
  /\ eventCount' = 0
  /\ overrun' = 0
  /\ negative' = FALSE /\ refunded' = FALSE

Next ==
  \/ \E id \in Ids, c \in Estimates : DoReserve(id, c)
  \/ \E id \in Ids, c \in Actuals, p \in Providers, ph \in Phases :
       DoSettle(id, c, p, ph)
  \/ \E id \in Ids : DoRelease(id)
  \/ \E e \in Recorded, c \in Recorded, p \in Providers, ph \in Phases :
       DoRecord(e, c, p, ph)
  \/ Reset

Spec == Init /\ [][Next]_vars

----------------------------------------------------------------------------
Amount(t, id) == AtLeastZero(t.res[id])

TotalOf(usage, field) == SumFunction([p \in Providers |-> usage[p][field]])

OddTermsOf(field) == UNION {odd.byProvider[p][field] : p \in Providers}

(* Two sums are the same number.                                           *)
SameSum(n, terms, m, others) == terms = others /\ (terms = {} => n = m)

(* A sum is at least n.                                                    *)
Reaches(sum, terms, n) == terms = {Infinity} \/ (terms = {} /\ sum >= n)

(* _totalReserved is maintained by increments and decrements, clamped at 0, *)
(* apart from the _reservations map: the two never drift, whatever the     *)
(* order of reserve, settle, release and reset, so the clamp never hides   *)
(* money.                                                                  *)
ReservedIsSum ==
  tracker.reserved = SumFunction([id \in Ids |-> Amount(tracker, id)])

(* The report's totals are kept in four places.  What was charged is the   *)
(* same in all of them, whatever record() is given.  What is estimated but *)
(* not charged is what is reserved, as long as record() is given no        *)
(* estimate below zero: after one, release()'s Math.max(0, ...) can cut    *)
(* the total off from the tables, and then it is too high, never too low.  *)
LedgerAgrees ==
  /\ SameSum(tracker.actual, odd.actual,
             TotalOf(byProvider, "actual"), OddTermsOf("actual"))
  /\ SameSum(tracker.actual, odd.actual,
             SumFunction(byPhase), UNION {odd.byPhase[ph] : ph \in Phases})
  /\ eventCount = TotalOf(byProvider, "requests")
  /\ ~negative =>
       SameSum(tracker.estimated, odd.estimated,
               tracker.reserved + TotalOf(byProvider, "estimated"),
               OddTermsOf("estimated"))
  /\ OddTermsOf("estimated") = {} =>
       /\ odd.estimated = {}
       /\ tracker.estimated >= tracker.reserved + TotalOf(byProvider, "estimated")

(* Concurrent requests cannot commit more than the session budget between  *)
(* them; only a charge above its own reservation (a settle() with a higher *)
(* actual cost, a record()) exceeds it, and by that much at most.  It is   *)
(* so until record() is given a cost that is not finite.                   *)
CommittedWithinOverrun ==
  odd.actual = {} => Committed(tracker) <= SessionBudget + overrun

(* Money that was really spent never passes 80% or 100% of the session     *)
(* budget silently: the callback has fired by then.  A spend of NaN is no  *)
(* longer compared with anything.                                          *)
SpendNotified ==
  /\ Reaches(10 * tracker.actual, odd.actual, 8 * SessionBudget) => tracker.warned
  /\ Reaches(tracker.actual, odd.actual, SessionBudget) => tracker.exceeded

(* docs/cost-and-budget.md and the comment on release(): totalEstimated is *)
(* the sum of the estimates of the requests in flight.                     *)
EstimatedIsInFlight == tracker.estimated = tracker.reserved

============================================================================
