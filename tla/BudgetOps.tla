----------------------------- MODULE BudgetOps -----------------------------
(***************************************************************************)
(* The reservation ledger of src/cost/tracker.ts as operators on a         *)
(* "tracker" record.  Each operator is one synchronous method of           *)
(* BudgetTracker: JavaScript runs it without interleaving, so a caller     *)
(* uses it inside one atomic action.                                       *)
(*                                                                         *)
(* Costs are natural numbers (the code's dollars in some smallest unit).   *)
(* A tracker without a session budget never rejects and never notifies;    *)
(* only the limited one is modelled.                                       *)
(***************************************************************************)
EXTENDS Integers, FiniteSets

CONSTANTS
  Ids,              \* the request ids that may hold a reservation
  SessionBudget,    \* BudgetConfig.sessionBudget
  PerRequestBudget  \* BudgetConfig.perRequestBudget

ASSUME BudgetAssumption ==
  /\ IsFiniteSet(Ids)
  /\ SessionBudget \in Nat \ {0}
  /\ PerRequestBudget \in Nat

NoRes == -1  \* the id is not a key of the _reservations map

TrackerType ==
  [res : [Ids -> Nat \cup {NoRes}],
   reserved : Nat, actual : Nat, estimated : Nat,
   warned : BOOLEAN, exceeded : BOOLEAN]

EmptyTracker ==
  [res |-> [id \in Ids |-> NoRes],
   reserved |-> 0, actual |-> 0, estimated |-> 0,
   warned |-> FALSE, exceeded |-> FALSE]

Active(t) == {id \in Ids : t.res[id] # NoRes}

Committed(t) == t.actual + t.reserved

Exhausted(t) == Committed(t) >= SessionBudget

AtLeastZero(n) == IF n < 0 THEN 0 ELSE n  \* Math.max(0, n)

----------------------------------------------------------------------------
(* Mutant: the session check looks at settled costs only.                  *)
CanReserveIgnoringReserved(t, cost) ==
  cost \in Nat /\ cost <= PerRequestBudget /\ t.actual + cost <= SessionBudget

(* Mutant: a negative estimate is not refused.                             *)
CanReserveBelowZero(t, cost) ==
  cost <= PerRequestBudget /\ Committed(t) + cost <= SessionBudget

(* reserve(): the checks it makes, in one step with what it then does.     *)
CanReserve(t, cost) ==
  /\ cost \in Nat
  /\ cost <= PerRequestBudget
  /\ Committed(t) + cost <= SessionBudget

Reserve(t, id, cost) ==
  [t EXCEPT !.res[id] = cost, !.reserved = @ + cost, !.estimated = @ + cost]

(* _checkBudgetCallbacks(): each callback fires once, at 80% and at 100%   *)
(* of the session budget, and only when settle() or record() asks.         *)
CheckCallbacks(t) ==
  [t EXCEPT !.warned = @ \/ 10 * Committed(t) >= 8 * SessionBudget,
            !.exceeded = @ \/ Exhausted(t)]

(* Mutant: the actual cost is taken off the reserved total.                *)
SettleByActual(t, id, cost) ==
  IF t.res[id] = NoRes THEN t
  ELSE CheckCallbacks([t EXCEPT !.res[id] = NoRes,
                                !.reserved = AtLeastZero(@ - cost),
                                !.actual = @ + cost])

(* settle(): a no-op for an id that holds no reservation.                  *)
Settle(t, id, cost) ==
  IF t.res[id] = NoRes THEN t
  ELSE CheckCallbacks([t EXCEPT !.res[id] = NoRes,
                                !.reserved = AtLeastZero(@ - t.res[id]),
                                !.actual = @ + cost])

(* Mutant: a release keeps the estimate.                                   *)
ReleaseKeepingEstimate(t, id) ==
  IF t.res[id] = NoRes THEN t
  ELSE [t EXCEPT !.res[id] = NoRes, !.reserved = AtLeastZero(@ - t.res[id])]

(* release(): gives the reservation and its estimate back.                 *)
Release(t, id) ==
  IF t.res[id] = NoRes THEN t
  ELSE [t EXCEPT !.res[id] = NoRes,
                 !.reserved = AtLeastZero(@ - t.res[id]),
                 !.estimated = AtLeastZero(@ - t.res[id])]

(* Mutant: the legacy path does not look at the thresholds.                *)
RecordSilently(t, estimate, cost) ==
  [t EXCEPT !.estimated = @ + estimate, !.actual = @ + cost]

(* record(): the legacy way in, without a reservation.                     *)
Record(t, estimate, cost) ==
  CheckCallbacks([t EXCEPT !.estimated = @ + estimate, !.actual = @ + cost])
============================================================================
