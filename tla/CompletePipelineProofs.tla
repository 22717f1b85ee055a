----------------------- MODULE CompletePipelineProofs -----------------------
(***************************************************************************)
(* Theorems about RequestPipeline.runComplete() for any number of requests *)
(* with any routes, any budget, any policy and any breakers: the session   *)
(* budget holds, reservations live exactly as long as they are needed, and *)
(* each request has one outcome.  The invariant proved adds what these     *)
(* need to be inductive: a reservation has the price of its entry, the     *)
(* ledger adds up, and a request that waits before its first attempt or in *)
(* a backoff is trying its primary.                                        *)
(***************************************************************************)
EXTENDS CompletePipeline, ExecutionCoreProofs

Waits == {"new", "plugin", "call", "skip", "sleep", "done"}

OnPrimary == \A r \in Requests : pc[r] \in {"new", "plugin", "sleep"} => cand[r] = 1

IInv ==
  /\ TypeOK
  /\ Priced(tracker)
  /\ WithinBudget
  /\ OnPrimary
  /\ ReservationLifecycle
  /\ OneTerminalOutcome

----------------------------------------------------------------------------
LEMMA BreakersAreTyped == IInv => breaker \in [Providers -> BreakerType]
BY DEF IInv, TypeOK, CoreTypeOK

(* A step of request r that leaves the other requests and their            *)
(* reservations alone keeps the lifecycle if it keeps r's.                 *)
LEMMA LifecycleOf ==
  ASSUME IInv, NEW r \in Requests,
         \A s \in Requests \ {r} : pc'[s] = pc[s] /\ cand'[s] = cand[s],
         \A s \in Requests \ {r} : \A k \in Entries(s) :
           <<s, k>> \in Active(tracker)' <=> <<s, k>> \in Active(tracker),
         \A k \in Entries(r) : <<r, k>> \in Active(tracker)' <=> HoldsReservation(r, k)',
         pc'[r] \in {"new", "plugin", "sleep"} => cand'[r] = 1
  PROVE  ReservationLifecycle' /\ OnPrimary'
<1>1. \A s \in Requests : \A k \in Entries(s) :
        <<s, k>> \in Active(tracker)' <=> HoldsReservation(s, k)'
  BY DEF IInv, ReservationLifecycle, HoldsReservation, Entries
<1>2. OnPrimary'
  BY DEF IInv, OnPrimary
<1>3. QED
  BY <1>1, <1>2 DEF ReservationLifecycle, Entries

(* A request that holds no reservation and moves to a pc that needs none.  *)
LEMMA MoveInv ==
  ASSUME IInv, NEW r \in Requests, pc[r] \in {"new", "plugin"},
         NEW w \in {"plugin", "done"}, pc' = [pc EXCEPT ![r] = w],
         UNCHANGED <<attempt, cand, masked, terminal, served, sigVars, tracker>>,
         breaker' \in [Providers -> BreakerType]
  PROVE  IInv'
<1>1. TypeOK'
  BY DEF IInv, TypeOK, CoreTypeOK, sigVars
<1>2. ReservationLifecycle' /\ OnPrimary'
  <2>1. \A k \in Entries(r) : <<r, k>> \in Active(tracker)' <=> HoldsReservation(r, k)'
    BY DEF IInv, TypeOK, ReservationLifecycle, HoldsReservation, Entries
  <2>2. \A s \in Requests \ {r} : pc'[s] = pc[s] /\ cand'[s] = cand[s]
    BY DEF IInv, TypeOK
  <2>3. Active(tracker)' = Active(tracker)
    BY DEF Active
  <2>4. pc'[r] \in {"new", "plugin", "sleep"} => cand'[r] = 1
    BY DEF IInv, OnPrimary
  <2>5. QED
    BY <2>1, <2>2, <2>3, <2>4, LifecycleOf
<1>3. OneTerminalOutcome'
  BY OutcomeKept DEF IInv, TypeOK
<1>4. QED
  BY <1>1, <1>2, <1>3 DEF IInv, WithinBudget

(* A request that fails for good, its fallback's reservation given back.   *)
LEMMA EndFailedInv ==
  ASSUME IInv, NEW r \in Requests, pc[r] # "done",
         NEW t, Priced(t), Committed(t) <= SessionBudget,
         \A s \in Requests \ {r} : \A k \in Entries(s) :
           <<s, k>> \in Active(t) <=> <<s, k>> \in Active(tracker),
         \A k \in Entries(r) : <<r, k>> \in Active(t) => k = 1,
         NEW b \in [Providers -> BreakerType], NEW m \in BOOLEAN, EndFailed(r, t, b, m)
  PROVE  IInv'
<1>1. /\ CoreTypeOK' /\ Priced(tracker')
      /\ Active(tracker') = Active(t) \ {<<r, 1>>}
      /\ Committed(tracker') <= Committed(t)
  BY EndFailedEffect DEF IInv, TypeOK
<1>2. TypeOK'
  BY <1>1 DEF IInv, TypeOK, EndFailed
<1>3. WithinBudget'
  <2>1. Committed(tracker') \in Nat /\ Committed(t) \in Nat
    BY <1>1, CommittedType DEF Priced
  <2>2. QED
    BY <1>1, <2>1, BudgetAssumption DEF WithinBudget
<1>4. ReservationLifecycle' /\ OnPrimary'
  <2>1. pc'[r] = "done" /\ UNCHANGED cand
    BY DEF IInv, TypeOK, EndFailed
  <2>2. \A k \in Entries(r) : <<r, k>> \in Active(tracker)' <=> HoldsReservation(r, k)'
    BY <1>1, <2>1 DEF HoldsReservation
  <2>3. \A s \in Requests \ {r} : pc'[s] = pc[s] /\ cand'[s] = cand[s]
    BY <2>1 DEF IInv, TypeOK, EndFailed
  <2>4. \A s \in Requests \ {r} : \A k \in Entries(s) :
          <<s, k>> \in Active(tracker)' <=> <<s, k>> \in Active(tracker)
    BY <1>1
  <2>5. QED
    BY <2>1, <2>2, <2>3, <2>4, LifecycleOf
<1>5. OneTerminalOutcome'
  BY OutcomeFailed DEF IInv, TypeOK
<1>6. QED
  BY <1>1, <1>2, <1>3, <1>4, <1>5 DEF IInv

LEMMA FailInv ==
  ASSUME IInv, NEW r \in Requests, pc[r] # "done",
         NEW t, Priced(t), Committed(t) <= SessionBudget,
         \A s \in Requests \ {r} : \A k \in Entries(s) :
           <<s, k>> \in Active(t) <=> <<s, k>> \in Active(tracker),
         \A k \in Entries(r) : <<r, k>> \in Active(t) => k = 1,
         NEW b \in [Providers -> BreakerType], NEW m \in BOOLEAN, FailWith(r, t, b, m)
  PROVE  IInv'
BY FailWithEnds, EndFailedInv

(* A request that goes on to its next fallback, or fails for want of one.  *)
LEMMA FallbackInv ==
  ASSUME IInv, NEW r \in Requests, pc[r] # "done", NEW k \in Nat \ {0},
         NEW t, Priced(t), Committed(t) <= SessionBudget,
         \A s \in Requests \ {r} : \A j \in Entries(s) :
           <<s, j>> \in Active(t) <=> <<s, j>> \in Active(tracker),
         \A j \in Entries(r) : <<r, j>> \notin Active(t),
         NEW b \in [Providers -> BreakerType], NEW m \in BOOLEAN,
         FallbackFrom(r, k, t, b, m, FallbackWait(r))
  PROVE  IInv'
<1>1. CASE \E mm \in BOOLEAN : FailWith(r, t, b, mm)
  BY <1>1, FailInv
<1>2. ASSUME NEW j \in Entries(r),
             CoreTypeOK', Priced(tracker'),
             Active(tracker') = Active(t) \cup {<<r, j>>},
             Committed(tracker') <= SessionBudget,
             pc' = [pc EXCEPT ![r] = FallbackWait(r)],
             cand' = [cand EXCEPT ![r] = j],
             UNCHANGED <<attempt, terminal, served, sigVars>>
      PROVE  IInv'
  <2>1. FallbackWait(r) \in {"call", "skip"}
    BY DEF FallbackWait
  <2>2. /\ pc'[r] \in {"call", "skip"} /\ cand'[r] = j
        /\ \A s \in Requests \ {r} : pc'[s] = pc[s] /\ cand'[s] = cand[s]
    BY <1>2, <2>1 DEF IInv, TypeOK, CoreTypeOK
  <2>3. TypeOK'
    BY <1>2, <2>1 DEF IInv, TypeOK
  <2>4. ReservationLifecycle' /\ OnPrimary'
    <3>1. \A i \in Entries(r) : <<r, i>> \in Active(tracker)' <=> HoldsReservation(r, i)'
      BY <1>2, <2>2 DEF HoldsReservation
    <3>2. \A s \in Requests \ {r} : \A i \in Entries(s) :
            <<s, i>> \in Active(tracker)' <=> <<s, i>> \in Active(tracker)
      BY <1>2
    <3>3. QED
      BY <2>2, <3>1, <3>2, LifecycleOf
  <2>5. OneTerminalOutcome'
    BY <1>2, OutcomeKept DEF IInv, TypeOK
  <2>6. QED
    BY <1>2, <2>3, <2>4, <2>5 DEF IInv, WithinBudget
<1>3. QED
  BY <1>1, <1>2, FallbackFromEffect DEF IInv, TypeOK

----------------------------------------------------------------------------
(* What a request may hold before a step, given where it waits.            *)
LEMMA HeldBy ==
  ASSUME IInv, NEW r \in Requests
  PROVE  /\ pc[r] \in {"new", "plugin", "done"} =>
              \A k \in Entries(r) : <<r, k>> \notin Active(tracker)
         /\ pc[r] \in {"call", "skip", "sleep"} =>
              \A k \in Entries(r) : <<r, k>> \in Active(tracker) <=> k = cand[r]
         /\ cand[r] \in Entries(r)
<1>1. \A k \in Entries(r) : <<r, k>> \in Active(tracker) <=> HoldsReservation(r, k)
  BY DEF IInv, ReservationLifecycle, Entries
<1>2. pc[r] = "sleep" => cand[r] = 1
  BY DEF IInv, OnPrimary
<1>3. cand[r] \in Entries(r)
  BY PrimaryExists DEF IInv, TypeOK, CoreTypeOK, Entries
<1>4. QED
  BY <1>1, <1>2, <1>3 DEF HoldsReservation

LEMMA ReserveAndCallInv ==
  ASSUME IInv, NEW r \in Requests, ReserveAndCall(r)
  PROVE  IInv'
<1>1. 1 \in Entries(r) /\ cand[r] = 1 /\ <<r, 1>> \notin Active(tracker)
  BY HeldBy, PrimaryExists DEF ReserveAndCall, IInv, OnPrimary
<1>2. /\ Priced(tracker')
      /\ Active(tracker') = Active(tracker) \cup {<<r, 1>>}
      /\ Committed(tracker') <= SessionBudget
  BY <1>1, ReservePriced DEF IInv, ReserveAndCall
<1>3. PrimaryWait(r) \in {"call", "skip"}
  BY DEF PrimaryWait
<1>4. TypeOK'
  BY <1>2, <1>3 DEF IInv, TypeOK, CoreTypeOK, ReserveAndCall, Priced, Ledger, sigVars
<1>5. /\ pc'[r] \in {"call", "skip"} /\ cand'[r] = 1
      /\ \A s \in Requests \ {r} : pc'[s] = pc[s] /\ cand'[s] = cand[s]
  BY <1>1, <1>3 DEF IInv, TypeOK, ReserveAndCall
<1>6. \A k \in Entries(r) : <<r, k>> \in Active(tracker)' <=> HoldsReservation(r, k)'
  BY <1>2, <1>5, HeldBy DEF HoldsReservation, ReserveAndCall
<1>7. \A s \in Requests \ {r} : \A k \in Entries(s) :
        <<s, k>> \in Active(tracker)' <=> <<s, k>> \in Active(tracker)
  BY <1>2
<1>8. ReservationLifecycle' /\ OnPrimary'
  BY <1>5, <1>6, <1>7, LifecycleOf
<1>9. OneTerminalOutcome'
  BY OutcomeKept DEF IInv, TypeOK, ReserveAndCall
<1>10. QED
  BY <1>2, <1>4, <1>8, <1>9 DEF IInv, WithinBudget

(* A primary that goes on to a repair, to a backoff or to a retry keeps    *)
(* what it holds.                                                          *)
LEMMA ChainInv ==
  ASSUME IInv, NEW r \in Requests, cand[r] = 1, pc[r] \in {"call", "sleep"},
         NEW w \in {"call", "skip", "sleep"}, pc' = [pc EXCEPT ![r] = w],
         attempt' \in [Requests -> Nat], breaker' \in [Providers -> BreakerType],
         UNCHANGED <<cand, masked, terminal, served, sigVars, tracker>>
  PROVE  IInv'
<1>1. TypeOK'
  BY DEF IInv, TypeOK, CoreTypeOK, sigVars
<1>2. Active(tracker)' = Active(tracker)
  BY DEF Active
<1>3. /\ pc'[r] \in {"call", "skip", "sleep"} /\ cand'[r] = 1
      /\ \A s \in Requests \ {r} : pc'[s] = pc[s] /\ cand'[s] = cand[s]
  BY DEF IInv, TypeOK
<1>4. \A k \in Entries(r) : <<r, k>> \in Active(tracker)' <=> HoldsReservation(r, k)'
  BY <1>2, <1>3, HeldBy DEF HoldsReservation
<1>5. ReservationLifecycle' /\ OnPrimary'
  BY <1>2, <1>3, <1>4, LifecycleOf
<1>6. OneTerminalOutcome'
  BY OutcomeKept DEF IInv, TypeOK
<1>7. QED
  BY <1>1, <1>5, <1>6 DEF IInv, WithinBudget

(* An answer settles what was reserved, at the price it was reserved at.   *)
LEMMA AnswersInv ==
  ASSUME IInv, NEW r \in Requests, Answers(r)
  PROVE  IInv'
<1> DEFINE id == <<r, cand[r]>>
           cost == CostOf(r, cand[r])
           t == Settle(tracker, id, cost)
<1>1. /\ cand[r] \in Entries(r) /\ id \in Ids /\ cost \in Nat
      /\ id \in Active(tracker) /\ tracker.res[id] = cost
  BY HeldBy, EntryFacts DEF Answers, IInv, Priced
<1>2. /\ Priced(t) /\ Active(t) = Active(tracker) \ {id}
      /\ Committed(t) = Committed(tracker) - cost + cost
  BY <1>1, SettlePriced DEF IInv
<1>3. CompleteWith(r, t)
  BY DEF Answers
<1> HIDE DEF t, cost
<1>4. CoreTypeOK'
  BY <1>2, <1>3, CompleteWithEffect DEF IInv, TypeOK
<1>5. TypeOK'
  BY <1>3, <1>4 DEF IInv, TypeOK, CompleteWith
<1>6. Committed(tracker) \in Nat /\ Committed(t) = Committed(tracker)
  BY <1>1, <1>2, CommittedType DEF IInv, Priced
<1>7. tracker' = t
  BY <1>3 DEF CompleteWith
<1>8. WithinBudget'
  BY <1>6, <1>7 DEF IInv, WithinBudget
<1>9. /\ pc'[r] = "done"
      /\ \A s \in Requests \ {r} : pc'[s] = pc[s] /\ cand'[s] = cand[s]
  BY <1>3 DEF CompleteWith, IInv, TypeOK
<1>10. \A k \in Entries(r) : <<r, k>> \in Active(tracker)' <=> HoldsReservation(r, k)'
  BY <1>2, <1>7, <1>9, HeldBy DEF HoldsReservation, Answers
<1>11. \A s \in Requests \ {r} : \A k \in Entries(s) :
        <<s, k>> \in Active(tracker)' <=> <<s, k>> \in Active(tracker)
  BY <1>2, <1>7
<1>12. ReservationLifecycle' /\ OnPrimary'
  BY <1>9, <1>10, <1>11, LifecycleOf
<1>13. OneTerminalOutcome'
  BY <1>3, OutcomeCompleted DEF IInv, TypeOK, Answers
<1>14. QED
  BY <1>2, <1>5, <1>7, <1>8, <1>12, <1>13 DEF IInv

(* The tracker after the reservation of the entry being tried is released. *)
LEMMA ReleasedCandidate ==
  ASSUME IInv, NEW r \in Requests, pc[r] \in {"call", "skip", "sleep"}
  PROVE  LET t == Release(tracker, <<r, cand[r]>>)
         IN  /\ Priced(t) /\ Committed(t) <= SessionBudget
             /\ \A s \in Requests \ {r} : \A k \in Entries(s) :
                  <<s, k>> \in Active(t) <=> <<s, k>> \in Active(tracker)
             /\ \A k \in Entries(r) : <<r, k>> \notin Active(t)
<1> DEFINE t == Release(tracker, <<r, cand[r]>>)
<1>1. cand[r] \in Entries(r) /\ <<r, cand[r]>> \in Ids
  BY HeldBy, EntryFacts
<1>2. /\ Priced(t) /\ Active(t) = Active(tracker) \ {<<r, cand[r]>>}
      /\ Committed(t) <= Committed(tracker)
  BY <1>1, ReleasePriced DEF IInv
<1> HIDE DEF t
<1>3. Committed(t) <= SessionBudget
  <2>1. Committed(t) \in Nat /\ Committed(tracker) \in Nat
    BY <1>2, CommittedType DEF IInv, Priced
  <2>2. QED
    BY <1>2, <2>1, BudgetAssumption DEF IInv, WithinBudget
<1>4. /\ \A s \in Requests \ {r} : \A k \in Entries(s) :
           <<s, k>> \in Active(t) <=> <<s, k>> \in Active(tracker)
      /\ \A k \in Entries(r) : <<r, k>> \notin Active(t)
  BY <1>2, HeldBy
<1>5. QED
  BY <1>2, <1>3, <1>4 DEF t

(* A primary holds nothing but its own reservation.                        *)
LEMMA PrimaryFailInv ==
  ASSUME IInv, NEW r \in Requests, pc[r] \in {"call", "skip", "sleep"}, cand[r] = 1,
         NEW b \in [Providers -> BreakerType],
         FailWith(r, tracker, b, FALSE) \/ EndFailed(r, tracker, b, FALSE)
  PROVE  IInv'
<1>1. \A k \in Entries(r) : <<r, k>> \in Active(tracker) => k = 1
  BY HeldBy
<1>2. /\ Priced(tracker) /\ Committed(tracker) <= SessionBudget
      /\ FALSE \in BOOLEAN /\ pc[r] # "done"
  BY DEF IInv, WithinBudget
<1>3. QED
  BY <1>1, <1>2, FailInv, EndFailedInv

LEMMA PrimaryFailsInv ==
  ASSUME IInv, NEW r \in Requests, NEW kind, PrimaryFails(r, kind)
  PROVE  IInv'
<1>1. pc[r] \in {"call", "skip", "sleep"} /\ pc[r] # "done" /\ cand[r] = 1
  BY DEF PrimaryFails
<1>2. CASE AllowFallback
  <2> DEFINE t == Release(tracker, <<r, cand[r]>>)
  <2>1. FallbackFrom(r, 2, t, breaker, FALSE, FallbackWait(r))
    BY <1>2, <1>1 DEF PrimaryFails
  <2>2. /\ Priced(t) /\ Committed(t) <= SessionBudget
        /\ \A s \in Requests \ {r} : \A k \in Entries(s) :
             <<s, k>> \in Active(t) <=> <<s, k>> \in Active(tracker)
        /\ \A k \in Entries(r) : <<r, k>> \notin Active(t)
    BY <1>1, ReleasedCandidate
  <2> HIDE DEF t
  <2>3. 2 \in Nat \ {0} /\ FALSE \in BOOLEAN
    OBVIOUS
  <2>4. QED
    BY <1>1, <2>1, <2>2, <2>3, BreakersAreTyped, FallbackInv
<1>3. CASE ~AllowFallback
  BY <1>1, <1>3, BreakersAreTyped, PrimaryFailInv DEF PrimaryFails
<1>4. QED
  BY <1>2, <1>3

(* A fallback that gives its reservation back and either fails the request *)
(* or makes room for the next candidate, whatever it told the breakers.    *)
LEMMA FallbackOverInv ==
  ASSUME IInv, NEW r \in Requests, pc[r] \in {"call", "skip"},
         NEW b \in [Providers -> BreakerType], NEW m \in BOOLEAN,
         \/ FailWith(r, Release(tracker, <<r, cand[r]>>), b, m)
         \/ FallbackFrom(r, cand[r] + 1, Release(tracker, <<r, cand[r]>>), b, m,
                         FallbackWait(r))
  PROVE  IInv'
<1> DEFINE t == Release(tracker, <<r, cand[r]>>)
<1>1. /\ Priced(t) /\ Committed(t) <= SessionBudget
      /\ \A s \in Requests \ {r} : \A k \in Entries(s) :
           <<s, k>> \in Active(t) <=> <<s, k>> \in Active(tracker)
      /\ \A k \in Entries(r) : <<r, k>> \notin Active(t)
  BY ReleasedCandidate
<1>2. cand[r] + 1 \in Nat \ {0} /\ pc[r] # "done"
  BY DEF IInv, TypeOK, CoreTypeOK
<1>3. \/ FailWith(r, t, b, m)
      \/ FallbackFrom(r, cand[r] + 1, t, b, m, FallbackWait(r))
  OBVIOUS
<1> HIDE DEF t
<1>4. CASE FailWith(r, t, b, m)
  BY <1>1, <1>2, <1>4, FailInv
<1>5. CASE FallbackFrom(r, cand[r] + 1, t, b, m, FallbackWait(r))
  BY <1>1, <1>2, <1>5, FallbackInv
<1>6. QED
  BY <1>3, <1>4, <1>5

LEMMA FallbackFailsInv ==
  ASSUME IInv, NEW r \in Requests, FallbackFails(r)
  PROVE  IInv'
<1>1. /\ masked[r] \in BOOLEAN /\ FALSE \in BOOLEAN
      /\ breaker \in [Providers -> BreakerType]
  BY DEF IInv, TypeOK, CoreTypeOK
<1>2. QED
  BY <1>1, FallbackOverInv DEF FallbackFails

(* An answer that does not validate: the repair keeps the reservation, any *)
(* other way out gives it back.                                            *)
LEMMA InvalidInv ==
  ASSUME IInv, NEW r \in Requests, Invalid(r)
  PROVE  IInv'
<1>1. Answered(r) \in [Providers -> BreakerType] /\ pc[r] = "call" /\ masked[r] \in BOOLEAN
  BY AnsweredTyped
    DEF IInv, TypeOK, CoreTypeOK, Invalid, InvalidRepaired, InvalidForGood,
                       FallbackNotJson, FallbackInvalid
<1>2. CASE InvalidRepaired(r)
  <2>1. PrimaryWait(r) \in {"call", "skip", "sleep"} /\ attempt' \in [Requests -> Nat]
    BY <1>2 DEF PrimaryWait, InvalidRepaired, IInv, TypeOK, CoreTypeOK
  <2>2. QED
    BY <1>1, <1>2, <2>1, ChainInv DEF InvalidRepaired
<1>3. CASE InvalidForGood(r)
  BY <1>1, <1>3, PrimaryFailInv DEF InvalidForGood
<1>4. CASE FallbackNotJson(r)
  BY <1>1, <1>4, FallbackOverInv DEF FallbackNotJson
<1>5. ASSUME NEW m \in {masked[r], FALSE}, FallbackInvalid(r, m) PROVE IInv'
  <2>1. m \in BOOLEAN
    BY <1>1
  <2>2. QED
    BY <1>1, <1>5, <2>1, FallbackOverInv DEF FallbackInvalid
<1>6. QED
  BY <1>2, <1>3, <1>4, <1>5 DEF Invalid

(* Steps of a request's surroundings change nothing that the invariant     *)
(* speaks of, types apart.                                                 *)
LEMMA SurroundingsInv ==
  ASSUME IInv, UNCHANGED <<pc, attempt, cand, masked, terminal, served, tracker>>,
         cancelled' \in [Requests -> BOOLEAN], expired' \in [Requests -> BOOLEAN],
         breaker' \in [Providers -> BreakerType]
  PROVE  IInv'
<1>1. TypeOK'
  BY DEF IInv, TypeOK, CoreTypeOK
<1>2. Active(tracker)' = Active(tracker) /\ Committed(tracker)' = Committed(tracker)
  BY DEF Active, Committed
<1>3. ReservationLifecycle' /\ OnPrimary'
  BY <1>2 DEF IInv, ReservationLifecycle, HoldsReservation, OnPrimary
<1>4. QED
  BY <1>1, <1>2, <1>3 DEF IInv, WithinBudget, OneTerminalOutcome

LEMMA InitInv == Init => IInv
<1> SUFFICES ASSUME Init PROVE IInv
  OBVIOUS
<1>1. tracker = EmptyTracker /\ Ledger(tracker) /\ Committed(tracker) = 0
  BY EmptyLedger DEF Init, CoreInit
<1>2. Active(tracker) = {}
  BY <1>1 DEF Active, EmptyTracker
<1>3. Priced(tracker)
  BY <1>1, <1>2 DEF Priced
<1>4. TypeOK
  <2>1. \A r \in Requests : 1 <= Len(Route[r])
    BY PrimaryExists DEF Entries
  <2>2. breaker \in [Providers -> BreakerType]
    BY PolicyAssumption DEF Init, CoreInit
  <2>3. tracker \in TrackerType
    BY <1>1 DEF Ledger
  <2>4. <<>> \in Seq({"completed", "failed"})
    OBVIOUS
  <2>5. QED
    BY <2>1, <2>2, <2>3, <2>4 DEF Init, CoreInit, TypeOK, CoreTypeOK
<1>5. ReservationLifecycle /\ OnPrimary
  BY <1>2 DEF Init, CoreInit, ReservationLifecycle, HoldsReservation, OnPrimary
<1>6. OneTerminalOutcome
  <2>1. Len(<<>>) <= 1 /\ <<>> # <<"completed">>
    OBVIOUS
  <2>2. QED
    BY <2>1 DEF Init, CoreInit, OneTerminalOutcome
<1>7. QED
  BY <1>1, <1>3, <1>4, <1>5, <1>6, BudgetAssumption DEF IInv, WithinBudget

(* The steps of one request.                                               *)
LEMMA RequestInv ==
  ASSUME IInv, NEW r \in Requests,
         Prepare(r) \/ Refuse(r) \/ Hooks(r) \/ Attempt(r) \/ Sleeping(r)
           \/ Cancel(r) \/ Expire(r)
  PROVE  IInv'
<1>1. CASE Prepare(r)
  <2>1. breaker' \in [Providers -> BreakerType]
    BY <1>1, PrimaryExists, EntryFacts, BreakersTyped
      DEF Prepare, IInv, TypeOK, CoreTypeOK
  <2>2. QED
    BY <1>1, <2>1, MoveInv DEF Prepare
<1>2. CASE Refuse(r)
  BY <1>2, MoveInv DEF Refuse, IInv, TypeOK, CoreTypeOK
<1>3. CASE Reject(r)
  BY <1>3, MoveInv DEF Reject, IInv, TypeOK, CoreTypeOK
<1>4. CASE Hooks(r)
  BY <1>3, <1>4, ReserveAndCallInv DEF Hooks, PluginThrows, BudgetRejects
<1>5. CASE Attempt(r)
  <2>1. CASE PrimaryFailsCancelled(r)
    BY <2>1, BreakersAreTyped, PrimaryFailInv DEF PrimaryFailsCancelled
  <2>2. ASSUME NEW kind \in ErrorKinds, PrimaryRetries(r, kind) PROVE IInv'
    BY <2>2, ChainInv DEF PrimaryRetries, BackOff, IInv, TypeOK, CoreTypeOK
  <2>3. QED
    BY <1>5, <2>1, <2>2, AnswersInv, InvalidInv, PrimaryFailsInv, FallbackFailsInv
      DEF Attempt
<1>6. CASE Sleeping(r)
  <2>1. cand[r] = 1 /\ pc[r] = "sleep"
    BY <1>6 DEF Sleeping, SleepEnds, SleepAborted, IInv, OnPrimary
  <2>2. CASE SleepEnds(r)
    <3>1. attempt' \in [Requests -> Nat]
      BY <2>2 DEF SleepEnds, IInv, TypeOK, CoreTypeOK
    <3>2. breaker' \in [Providers -> BreakerType]
      BY <2>2, BreakersAreTyped DEF SleepEnds
    <3>3. QED
      BY <2>1, <2>2, <3>1, <3>2, ChainInv DEF SleepEnds
  <2>3. CASE SleepAborted(r)
    BY <2>1, <2>3, BreakersAreTyped, PrimaryFailInv DEF SleepAborted
  <2>4. QED
    BY <1>6, <2>2, <2>3 DEF Sleeping
<1>7. CASE Cancel(r)
  BY <1>7, SurroundingsInv DEF Cancel, reqVars, IInv, TypeOK, CoreTypeOK
<1>8. CASE Expire(r)
  BY <1>8, SurroundingsInv DEF Expire, reqVars, IInv, TypeOK, CoreTypeOK
<1>9. QED
  BY <1>1, <1>2, <1>4, <1>5, <1>6, <1>7, <1>8

LEMMA NextInv == IInv /\ [Next]_coreVars => IInv'
<1> SUFFICES ASSUME IInv, [Next]_coreVars PROVE IInv'
  OBVIOUS
<1>1. ASSUME NEW p \in Providers, CoolDown(p) PROVE IInv'
  <2>1. breaker' \in [Providers -> BreakerType]
    BY <1>1, BreakersTyped DEF CoolDown, IInv, TypeOK, CoreTypeOK
  <2>2. QED
    BY <1>1, <2>1, SurroundingsInv
      DEF CoolDown, reqVars, sigVars, IInv, TypeOK, CoreTypeOK
<1>2. CASE UNCHANGED coreVars
  BY <1>2, SurroundingsInv DEF coreVars, reqVars, sigVars, IInv, TypeOK, CoreTypeOK
<1>3. QED
  BY <1>1, <1>2, RequestInv DEF Next, AllDone

THEOREM Invariant == Spec => []IInv
BY InitInv, NextInv, PTL DEF Spec

----------------------------------------------------------------------------
(* The state is well typed, the reservation map and the breakers included. *)
THEOREM TypeCorrect == Spec => []TypeOK
<1>1. IInv => TypeOK
  BY DEF IInv
<1>2. QED
  BY <1>1, Invariant, PTL

(* However many requests cross, and whatever their retries and fallbacks,  *)
(* the session budget is never overcommitted.                              *)
THEOREM BudgetRespected == Spec => []WithinBudget
<1>1. IInv => WithinBudget
  BY DEF IInv
<1>2. QED
  BY <1>1, Invariant, PTL

(* No path through retries, fallbacks and cancellations leaks a            *)
(* reservation, holds two, or gives one up early.                          *)
THEOREM ReservationsLive == Spec => []ReservationLifecycle
<1>1. IInv => ReservationLifecycle
  BY DEF IInv
<1>2. QED
  BY <1>1, Invariant, PTL

(* A request ends in one terminal event at most, and in request.completed  *)
(* exactly when its caller gets a result.                                  *)
THEOREM OneOutcome == Spec => []OneTerminalOutcome
<1>1. IInv => OneTerminalOutcome
  BY DEF IInv
<1>2. QED
  BY <1>1, Invariant, PTL

----------------------------------------------------------------------------
(* A request's step is its own affair: the others wait where they waited.  *)
(* First its fallback loop, then any step.                                 *)
LEMMA FallbackOthersWait ==
  ASSUME TypeOK, NEW r \in Requests, NEW s \in Requests \ {r},
         NEW k, NEW t, NEW b, NEW m, NEW w, FallbackFrom(r, k, t, b, m, w)
  PROVE  pc'[s] = pc[s] /\ attempt'[s] = attempt[s] /\ cand'[s] = cand[s]
<1>1. /\ pc' \in {[pc EXCEPT ![r] = "done"], [pc EXCEPT ![r] = w]}
      /\ attempt' = attempt
      /\ cand'[s] = cand[s]
  BY FallbackWaits DEF TypeOK
<1>2. QED
  BY <1>1 DEF TypeOK

LEMMA OthersWait ==
  ASSUME TypeOK, NEW r \in Requests, NEW s \in Requests \ {r},
         Prepare(r) \/ Refuse(r) \/ Hooks(r) \/ Attempt(r) \/ Sleeping(r)
           \/ Cancel(r) \/ Expire(r)
  PROVE  pc'[s] = pc[s] /\ attempt'[s] = attempt[s] /\ cand'[s] = cand[s]
<1>1. CASE Prepare(r) \/ Refuse(r) \/ Hooks(r)
  BY <1>1
    DEF TypeOK, CoreTypeOK, Prepare, Refuse, Hooks, PluginThrows,
        BudgetRejects, Reject, ReserveAndCall
<1>2. CASE Sleeping(r)
  BY <1>2 DEF TypeOK, CoreTypeOK, Sleeping, SleepEnds, SleepAborted, FailWith, EndFailed
<1>3. CASE Cancel(r) \/ Expire(r)
  BY <1>3 DEF TypeOK, CoreTypeOK, Cancel, Expire, reqVars
<1>4. CASE Answers(r) \/ PrimaryFailsCancelled(r)
  BY <1>4
    DEF TypeOK, CoreTypeOK, Answers, CompleteWith, PrimaryFailsCancelled,
        FailWith, EndFailed
<1>5. ASSUME NEW kind \in ErrorKinds, PrimaryRetries(r, kind)
      PROVE  pc'[s] = pc[s] /\ attempt'[s] = attempt[s] /\ cand'[s] = cand[s]
  BY <1>5 DEF TypeOK, CoreTypeOK, PrimaryRetries, BackOff
<1>6. ASSUME NEW kind \in ErrorKinds, PrimaryFails(r, kind)
      PROVE  pc'[s] = pc[s] /\ attempt'[s] = attempt[s] /\ cand'[s] = cand[s]
  <2>1. CASE AllowFallback
    BY <1>6, <2>1, FallbackOthersWait DEF PrimaryFails
  <2>2. CASE ~AllowFallback
    BY <1>6, <2>2 DEF TypeOK, CoreTypeOK, PrimaryFails, FailWith, EndFailed
  <2>3. QED
    BY <2>1, <2>2
<1>7. CASE FallbackFails(r)
  <2>1. CASE cancelled[r]
    BY <1>7, <2>1 DEF TypeOK, CoreTypeOK, FallbackFails, FailWith, EndFailed
  <2>2. CASE ~cancelled[r]
    BY <1>7, <2>2, FallbackOthersWait DEF FallbackFails
  <2>3. QED
    BY <2>1, <2>2
<1>8. CASE InvalidRepaired(r) \/ InvalidForGood(r) \/ FallbackNotJson(r)
  BY <1>8
    DEF TypeOK, CoreTypeOK, InvalidRepaired, InvalidForGood, FallbackNotJson,
        FailWith, EndFailed
<1>9. ASSUME NEW m, FallbackInvalid(r, m)
      PROVE  pc'[s] = pc[s] /\ attempt'[s] = attempt[s] /\ cand'[s] = cand[s]
  <2>1. CASE cancelled[r]
    BY <1>9, <2>1 DEF TypeOK, CoreTypeOK, FallbackInvalid, FailWith, EndFailed
  <2>2. CASE ~cancelled[r]
    BY <1>9, <2>2, FallbackOthersWait DEF FallbackInvalid
  <2>3. QED
    BY <2>1, <2>2
<1>10. QED
  BY <1>1, <1>2, <1>3, <1>4, <1>5, <1>6, <1>7, <1>8, <1>9 DEF Attempt, Invalid

(* A cancelled request's own steps do not call an adapter.                 *)
LEMMA CancelledStep ==
  ASSUME TypeOK, NEW r \in Requests, cancelled[r],
         Prepare(r) \/ Refuse(r) \/ Hooks(r) \/ Attempt(r) \/ Sleeping(r)
           \/ Cancel(r) \/ Expire(r)
  PROVE  ~CallsAdapter(r)
<1> USE DEF TypeOK, CallsAdapter
<1>1. CASE Prepare(r) \/ Refuse(r) \/ Hooks(r)
  BY <1>1 DEF Prepare, Refuse, Hooks, PluginThrows, BudgetRejects, Reject,
              ReserveAndCall, PrimaryWait
<1>2. CASE Sleeping(r)
  BY <1>2 DEF Sleeping, SleepEnds, SleepAborted, FailWith, EndFailed
<1>3. CASE Cancel(r) \/ Expire(r)
  BY <1>3 DEF Cancel, Expire, reqVars
<1>4. CASE Answers(r) \/ PrimaryFailsCancelled(r)
  BY <1>4 DEF Answers, CompleteWith, PrimaryFailsCancelled, FailWith, EndFailed
<1>5. CASE FallbackFails(r)
  BY <1>5 DEF FallbackFails, FailWith, EndFailed
<1>6. CASE Invalid(r)
  BY <1>6 DEF Invalid, InvalidRepaired, PrimaryWait, InvalidForGood, FallbackNotJson,
              FallbackInvalid, FailWith, EndFailed
<1>7. QED
  BY <1>1, <1>2, <1>3, <1>4, <1>5, <1>6 DEF Attempt, PrimaryRetries, PrimaryFails

(* Once the caller has cancelled, no attempt of its request begins: not a  *)
(* first one, not a retry after a backoff, not a fallback.                 *)
THEOREM CancelStopsAttempts == Spec => NoAttemptAfterCancel
<1>1. TypeOK /\ [Next]_coreVars =>
        [\A r \in Requests : cancelled[r] => ~CallsAdapter(r)]_coreVars
  <2> SUFFICES ASSUME TypeOK, Next, NEW r \in Requests, cancelled[r]
               PROVE  ~CallsAdapter(r) \/ UNCHANGED coreVars
    OBVIOUS
  <2>1. ASSUME NEW s \in Requests,
               Prepare(s) \/ Refuse(s) \/ Hooks(s) \/ Attempt(s) \/ Sleeping(s)
                 \/ Cancel(s) \/ Expire(s)
        PROVE  ~CallsAdapter(r)
    <3>1. CASE s = r
      BY <2>1, <3>1, CancelledStep
    <3>2. CASE s # r
      BY <2>1, <3>2, OthersWait DEF CallsAdapter
    <3>3. QED
      BY <3>1, <3>2
  <2>2. ASSUME NEW p \in Providers, CoolDown(p) PROVE ~CallsAdapter(r)
    BY <2>2 DEF CoolDown, reqVars, CallsAdapter
  <2>3. QED
    BY <2>1, <2>2 DEF Next, AllDone
<1>2. QED
  BY <1>1, TypeCorrect, PTL DEF Spec, NoAttemptAfterCancel

----------------------------------------------------------------------------
(* What one step charges, and what the breakers hear of it.                *)
Charges(r) == Answers(r) \/ (tracker'.actual = tracker.actual /\ served' = served)

Told(r) == TerminalFailuresOnly /\ Charges(r)

LEMMA ToldQuietly ==
  ASSUME IInv, NEW r \in Requests, breaker' \in [Providers -> BreakerType],
         Quiet(breaker, breaker'), tracker' = tracker, served' = served
  PROVE  Told(r)
BY QuietHears, BreakersAreTyped DEF Told, Charges

LEMMA ToldOfFailure ==
  ASSUME IInv, NEW r \in Requests, pc[r] # "done",
         NEW t \in {tracker, Release(tracker, <<r, cand[r]>>)},
         NEW b \in {breaker, Answered(r)}, NEW m, NEW k \in Nat \ {0}, NEW waiting,
         FailWith(r, t, b, m) \/ FallbackFrom(r, k, t, b, m, waiting)
  PROVE  Told(r)
<1>1. CoreTypeOK /\ OneTerminalOutcome /\ tracker \in TrackerType
  BY DEF IInv, TypeOK, CoreTypeOK
<1>2. b \in [Providers -> BreakerType] /\ Quiet(breaker, b)
  <2>1. Quiet(breaker, breaker)
    BY <1>1, BreakersAreTyped, BreakerFields DEF Quiet
  <2>2. QED
    BY <1>1, <2>1, BreakersAreTyped, AnsweredTyped, AnsweredQuiet
<1>3. t \in TrackerType /\ t.actual = tracker.actual
  <2>1. cand[r] \in Entries(r)
    BY <1>1, PrimaryExists DEF CoreTypeOK, Entries
  <2>2. Priced(Release(tracker, <<r, cand[r]>>))
    BY <2>1, EntryFacts, ReleasePriced DEF IInv
  <2>3. QED
    BY <1>1, <2>2, NothingCharged DEF Priced, Ledger
<1>4. TerminalFailuresOnly
  BY <1>1, <1>2, FailWithHears, FallbackHears
<1>5. tracker'.actual = t.actual /\ served' = served
  BY <1>3, EndFailedCharges, FallbackCharges
<1>6. QED
  BY <1>3, <1>4, <1>5 DEF Told, Charges

LEMMA StepTold ==
  ASSUME IInv, NEW r \in Requests,
         Prepare(r) \/ Refuse(r) \/ Hooks(r) \/ Attempt(r) \/ Sleeping(r)
           \/ Cancel(r) \/ Expire(r)
  PROVE  Told(r)
<1>1. /\ CoreTypeOK /\ breaker \in [Providers -> BreakerType]
      /\ ProviderOf(r, 1) \in Providers /\ cand[r] + 1 \in Nat \ {0} /\ 2 \in Nat \ {0}
  <2>1. cand[r] + 1 \in Nat \ {0} /\ 2 \in Nat \ {0}
    BY DEF IInv, TypeOK, CoreTypeOK
  <2>2. ProviderOf(r, 1) \in Providers
    BY PrimaryExists, EntryFacts
  <2>3. QED
    BY <2>1, <2>2, BreakersAreTyped DEF IInv, TypeOK
<1>2. Quiet(breaker, breaker)
  BY <1>1, QuietSteps
<1>3. Answered(r) \in [Providers -> BreakerType] /\ Quiet(breaker, Answered(r))
  BY <1>1, AnsweredTyped, AnsweredQuiet
<1>4. CASE Prepare(r)
  <2>1. breaker' = [breaker EXCEPT ![ProviderOf(r, 1)] = Admit(@)]
    BY <1>4 DEF Prepare
  <2>2. breaker' \in [Providers -> BreakerType] /\ Quiet(breaker, breaker')
    BY <1>1, <2>1, BreakersTyped, QuietSteps
  <2>3. QED
    BY <1>4, <2>2, ToldQuietly DEF Prepare
<1>5. CASE Refuse(r) \/ Cancel(r) \/ Expire(r)
  BY <1>1, <1>2, <1>5, ToldQuietly DEF Refuse, Cancel, Expire, reqVars
<1>6. CASE Hooks(r)
  <2>1. CASE Reject(r)
    BY <1>1, <1>2, <2>1, ToldQuietly DEF Reject
  <2>2. CASE ReserveAndCall(r)
    <3>1. tracker'.actual = tracker.actual /\ served' = served /\ breaker' = breaker
      BY <1>1, <2>2, NothingCharged DEF ReserveAndCall, CoreTypeOK
    <3>2. QED
      BY <1>1, <1>2, <3>1, QuietHears DEF Told, Charges
  <2>3. QED
    BY <1>6, <2>1, <2>2 DEF Hooks, PluginThrows, BudgetRejects
<1>7. CASE Answers(r)
  <2>1. breaker' = Answered(r)
    BY <1>7 DEF Answers, CompleteWith
  <2>2. QED
    BY <1>1, <1>3, <1>7, <2>1, QuietHears DEF Told, Charges
<1>8. CASE Invalid(r)
  <2>1. CASE InvalidRepaired(r)
    BY <1>1, <1>3, <2>1, ToldQuietly DEF InvalidRepaired
  <2>2. CASE InvalidForGood(r)
    <3>1. EndFailed(r, tracker, Answered(r), FALSE)
      BY <2>2 DEF InvalidForGood
    <3>2. tracker'.actual = tracker.actual /\ served' = served /\ breaker' = Answered(r)
      BY <1>1, <3>1, EndFailedCharges DEF EndFailed, CoreTypeOK
    <3>3. QED
      BY <1>1, <1>3, <3>2, QuietHears DEF Told, Charges
  <2>3. CASE FallbackNotJson(r)
    BY <1>1, <2>3, ToldOfFailure DEF FallbackNotJson
  <2>4. ASSUME NEW m, FallbackInvalid(r, m) PROVE Told(r)
    BY <1>1, <2>4, ToldOfFailure DEF FallbackInvalid
  <2>5. QED
    BY <1>8, <2>1, <2>2, <2>3, <2>4 DEF Invalid
<1>9. CASE PrimaryFailsCancelled(r)
  BY <1>1, <1>9, ToldOfFailure DEF PrimaryFailsCancelled
<1>10. ASSUME NEW kind, PrimaryRetries(r, kind) PROVE Told(r)
  BY <1>1, <1>2, <1>10, ToldQuietly DEF PrimaryRetries, BackOff
<1>11. ASSUME NEW kind, PrimaryFails(r, kind) PROVE Told(r)
  <2>1. pc[r] # "done" /\ Release(tracker, <<r, 1>>) = Release(tracker, <<r, cand[r]>>)
    BY <1>11 DEF PrimaryFails
  <2>2. CASE AllowFallback
    BY <1>1, <1>11, <2>1, <2>2, ToldOfFailure DEF PrimaryFails
  <2>3. CASE ~AllowFallback
    BY <1>1, <1>11, <2>1, <2>3, ToldOfFailure DEF PrimaryFails
  <2>4. QED
    BY <2>2, <2>3
<1>12. CASE FallbackFails(r)
  <2>1. CASE cancelled[r]
    BY <1>1, <1>12, <2>1, ToldOfFailure DEF FallbackFails
  <2>2. CASE ~cancelled[r]
    BY <1>1, <1>12, <2>2, ToldOfFailure DEF FallbackFails
  <2>3. QED
    BY <2>1, <2>2
<1>13. CASE Sleeping(r)
  <2>1. CASE SleepEnds(r)
    BY <1>1, <1>2, <2>1, ToldQuietly DEF SleepEnds
  <2>2. CASE SleepAborted(r)
    BY <1>1, <2>2, ToldOfFailure DEF SleepAborted
  <2>3. QED
    BY <1>13, <2>1, <2>2 DEF Sleeping
<1>14. QED
  BY <1>4, <1>5, <1>6, <1>7, <1>8, <1>9, <1>10, <1>11, <1>12, <1>13 DEF Attempt

(* Steps of the world around the requests.                                 *)
LEMMA WorldTold ==
  ASSUME IInv, (\E p \in Providers : CoolDown(p)) \/ UNCHANGED coreVars
  PROVE  TerminalFailuresOnly /\ tracker' = tracker /\ served' = served
<1>1. ASSUME NEW p \in Providers, CoolDown(p)
      PROVE  TerminalFailuresOnly /\ tracker' = tracker /\ served' = served
  <2>1. breaker' \in [Providers -> BreakerType] /\ Quiet(breaker, breaker')
    BY <1>1, BreakersAreTyped, BreakersTyped, QuietSteps DEF CoolDown
  <2>2. QED
    BY <1>1, <2>1, BreakersAreTyped, QuietHears DEF CoolDown, reqVars
<1>2. CASE UNCHANGED coreVars
  <2>1. breaker' = breaker /\ tracker' = tracker /\ served' = served
    BY <1>2 DEF coreVars, reqVars
  <2>2. Quiet(breaker, breaker)
    BY BreakersAreTyped, BreakerFields DEF Quiet
  <2>3. QED
    BY <2>1, <2>2, BreakersAreTyped, QuietHears
<1>3. QED
  BY <1>1, <1>2

(* A breaker counts a failure, or opens, only in the step in which a       *)
(* request of its own provider fails for good without being cancelled.     *)
THEOREM FailuresHeardOnce == Spec => FailuresAreTerminal
<1>1. IInv /\ [Next]_coreVars =>
        [\A p \in Providers : HearsFailure(p) =>
           \E r \in Requests : /\ ProviderOf(r, 1) = p
                               /\ ~cancelled[r]
                               /\ terminal'[r] # terminal[r]
                               /\ terminal'[r] = <<"failed">>]_coreVars
  BY StepTold, WorldTold DEF Next, AllDone, Told, TerminalFailuresOnly
<1>2. QED
  BY <1>1, Invariant, PTL DEF Spec, FailuresAreTerminal

----------------------------------------------------------------------------
(* ChargedOnce is inductive together with the entry that served a request  *)
(* being one of its route.                                                 *)
ServedExists == \A r \in Requests : served[r] # 0 => served[r] \in Entries(r)

ChargedInv == ServedExists /\ ChargedOnce

LEMMA ChargedInit == Init => ChargedInv
<1> SUFFICES ASSUME Init PROVE ChargedInv
  OBVIOUS
<1>1. [r \in Requests |-> ServedCost(r)] = [r \in Requests |-> 0]
  BY DEF Init, CoreInit, ServedCost
<1>2. SumFunction([r \in Requests |-> ServedCost(r)]) = 0
  BY <1>1, SumZero, RouteAssumption
<1>3. tracker.actual = 0
  BY DEF Init, CoreInit, EmptyTracker
<1>4. ServedExists
  BY DEF Init, CoreInit, ServedExists
<1>5. QED
  BY <1>2, <1>3, <1>4 DEF ChargedInv, ChargedOnce

LEMMA ChargedKept ==
  ASSUME ChargedInv, tracker'.actual = tracker.actual, served' = served
  PROVE  ChargedInv'
<1>1. [r \in Requests |-> ServedCost(r)]' = [r \in Requests |-> ServedCost(r)]
  BY DEF ServedCost
<1>2. QED
  BY <1>1 DEF ChargedInv, ChargedOnce, ServedExists

LEMMA ChargedAnswer ==
  ASSUME IInv, ChargedInv, NEW r \in Requests, Answers(r)
  PROVE  ChargedInv'
<1> DEFINE id == <<r, cand[r]>>
<1>1. /\ cand[r] \in Entries(r) /\ id \in Active(tracker) /\ CostOf(r, cand[r]) \in Nat
  BY HeldBy, EntryFacts DEF Answers
<1>2. served[r] = 0
  BY DEF Answers, IInv, OneTerminalOutcome
<1>3. /\ served' = [served EXCEPT ![r] = cand[r]]
      /\ tracker' = Settle(tracker, id, CostOf(r, cand[r]))
  BY DEF Answers, CompleteWith
<1>4. tracker'.actual = tracker.actual + CostOf(r, cand[r])
  BY <1>1, <1>3, SettleAmounts DEF IInv, Priced
<1>5. SumFunction([s \in Requests |-> ServedCost(s)])' =
        SumFunction([s \in Requests |-> ServedCost(s)]) + CostOf(r, cand[r])
  BY <1>1, <1>2, <1>3, ServedAddsPrice DEF IInv, TypeOK, ChargedInv, ServedExists
<1>6. ChargedOnce'
  BY <1>4, <1>5 DEF ChargedInv, ChargedOnce
<1>7. ServedExists'
  BY <1>1, <1>3 DEF ChargedInv, ServedExists, IInv, TypeOK, CoreTypeOK
<1>8. QED
  BY <1>6, <1>7 DEF ChargedInv

LEMMA ChargedNext == IInv /\ ChargedInv /\ [Next]_coreVars => ChargedInv'
<1> SUFFICES ASSUME IInv, ChargedInv, [Next]_coreVars PROVE ChargedInv'
  OBVIOUS
<1>1. ASSUME NEW r \in Requests,
             Prepare(r) \/ Refuse(r) \/ Hooks(r) \/ Attempt(r) \/ Sleeping(r)
               \/ Cancel(r) \/ Expire(r)
      PROVE  ChargedInv'
  BY <1>1, StepTold, ChargedAnswer, ChargedKept DEF Told, Charges
<1>2. CASE (\E p \in Providers : CoolDown(p)) \/ UNCHANGED coreVars
  BY <1>2, WorldTold, ChargedKept
<1>3. QED
  BY <1>1, <1>2 DEF Next, AllDone

(* The session is charged exactly the prices of the entries that served    *)
(* the requests, whatever was retried, repaired, cancelled or failed.      *)
THEOREM ChargesMatchAnswers == Spec => []ChargedOnce
<1>1. ChargedInv => ChargedOnce
  BY DEF ChargedInv
<1>2. QED
  BY <1>1, InitInv, NextInv, ChargedInit, ChargedNext, PTL DEF Spec
=============================================================================
