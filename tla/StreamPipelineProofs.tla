------------------------ MODULE StreamPipelineProofs ------------------------
(***************************************************************************)
(* Theorems about RequestPipeline.runStream() for any number of streams    *)
(* with any routes, policies, breakers and usage reports: the budget holds *)
(* up to what usage chunks cost beyond their reservations, no reservation  *)
(* outlives its attempt, each stream has one outcome, and nothing is       *)
(* repeated after a visible chunk of the primary.                          *)
(***************************************************************************)
EXTENDS StreamPipeline, ExecutionCoreProofs

(* A stream that waits before its first attempt or in a backoff is trying  *)
(* its primary, and so is one whose primary's chunks were seen; that one   *)
(* never waits in a backoff.                                               *)
OnPrimary ==
  \A r \in Requests :
    /\ pc[r] \in {"new", "plugin", "sleep"} => cand[r] = 1
    /\ FirstChunkEmitted(r) => cand[r] = 1 /\ pc[r] # "sleep"

IInv ==
  /\ TypeOK
  /\ Priced(tracker)
  /\ CommittedWithinOverrun
  /\ OnPrimary
  /\ ReservationLifecycle
  /\ OneTerminalOutcome

May(r, k) ==
  cand[r] = k /\ (pc[r] \in {"call", "yield"} \/ (pc[r] = "sleep" /\ k = 1))

----------------------------------------------------------------------------
LEMMA BreakersAreTyped == IInv => breaker \in [Providers -> BreakerType]
BY DEF IInv, TypeOK, CoreTypeOK

(* A step of stream r that leaves the other streams and their reservations *)
(* alone keeps the lifecycle if it keeps r's.                              *)
LEMMA LifecycleOf ==
  ASSUME IInv, NEW r \in Requests,
         \A s \in Requests \ {r} :
           pc'[s] = pc[s] /\ cand'[s] = cand[s] /\ seen'[s] = seen[s],
         \A s \in Requests \ {r} : \A k \in Entries(s) :
           <<s, k>> \in Active(tracker)' => <<s, k>> \in Active(tracker),
         \A k \in Entries(r) : <<r, k>> \in Active(tracker)' => May(r, k)',
         pc'[r] \in {"new", "plugin", "sleep"} => cand'[r] = 1,
         1 \in seen'[r] => cand'[r] = 1 /\ pc'[r] # "sleep"
  PROVE  ReservationLifecycle' /\ OnPrimary'
<1>1. \A s \in Requests : \A k \in Entries(s) :
        <<s, k>> \in Active(tracker)' => May(s, k)'
  BY DEF IInv, ReservationLifecycle, May, Entries
<1>2. OnPrimary'
  BY DEF IInv, OnPrimary, FirstChunkEmitted
<1>3. QED
  BY <1>1, <1>2 DEF ReservationLifecycle, May, Entries

(* What a stream may hold before a step, given where it waits.             *)
LEMMA HeldBy ==
  ASSUME IInv, NEW r \in Requests
  PROVE  /\ pc[r] \in {"new", "plugin", "done"} =>
              \A k \in Entries(r) : <<r, k>> \notin Active(tracker)
         /\ \A k \in Entries(r) : <<r, k>> \in Active(tracker) => k = cand[r]
         /\ cand[r] \in Entries(r)
<1>1. \A k \in Entries(r) : <<r, k>> \in Active(tracker) => May(r, k)
  BY DEF IInv, ReservationLifecycle, May, Entries
<1>2. cand[r] \in Entries(r)
  BY PrimaryExists DEF IInv, TypeOK, CoreTypeOK, Entries
<1>3. QED
  BY <1>1, <1>2 DEF May

(* A stream that moves on and holds no more than before, where it moves to *)
(* permitting it.                                                          *)
LEMMA MoveInv ==
  ASSUME IInv, NEW r \in Requests, pc[r] # "done",
         NEW w \in {"plugin", "call", "yield", "sleep", "done"},
         pc' = [pc EXCEPT ![r] = w],
         UNCHANGED <<cand, masked, terminal, served, sigVars>>,
         attempt' \in [Requests -> Nat],
         breaker' \in [Providers -> BreakerType],
         seen' \in [Requests -> SUBSET Nat], overrun' \in Nat,
         \A s \in Requests \ {r} : seen'[s] = seen[s],
         w \in {"plugin", "sleep"} => cand[r] = 1,
         1 \in seen'[r] => cand[r] = 1 /\ w # "sleep",
         Priced(tracker'), CommittedWithinOverrun',
         Active(tracker') \subseteq Active(tracker),
         w \in {"plugin", "done"} => \A k \in Entries(r) : <<r, k>> \notin Active(tracker')
  PROVE  IInv'
<1>1. TypeOK'
  BY DEF IInv, TypeOK, CoreTypeOK, sigVars, Priced, Ledger
<1>2. /\ pc'[r] = w /\ cand'[r] = cand[r]
      /\ \A s \in Requests \ {r} :
           pc'[s] = pc[s] /\ cand'[s] = cand[s] /\ seen'[s] = seen[s]
  BY DEF IInv, TypeOK
<1>3. \A k \in Entries(r) : <<r, k>> \in Active(tracker)' => May(r, k)'
  BY <1>2, HeldBy DEF May
<1>4. ReservationLifecycle' /\ OnPrimary'
  BY <1>2, <1>3, LifecycleOf
<1>5. OneTerminalOutcome'
  BY OutcomeKept DEF IInv, TypeOK
<1>6. QED
  BY <1>1, <1>4, <1>5 DEF IInv

(* A stream that fails for good, its fallback's reservation given back.    *)
LEMMA FailInv ==
  ASSUME IInv, NEW r \in Requests, pc[r] # "done",
         NEW t, Priced(t), Committed(t) <= SessionBudget + overrun,
         Active(t) \subseteq Active(tracker),
         \A k \in Entries(r) : <<r, k>> \in Active(t) => k = 1,
         NEW m \in BOOLEAN, FailWith(r, t, breaker, m), UNCHANGED <<seen, overrun>>
  PROVE  IInv'
<1>0. PICK b \in [Providers -> BreakerType] : EndFailed(r, t, b, m)
  BY BreakersAreTyped, FailWithEnds
<1>1. /\ CoreTypeOK' /\ Priced(tracker')
      /\ Active(tracker') = Active(t) \ {<<r, 1>>}
      /\ Committed(tracker') <= Committed(t)
  BY <1>0, EndFailedEffect DEF IInv, TypeOK
<1>2. TypeOK'
  BY <1>0, <1>1 DEF IInv, TypeOK, EndFailed
<1>3. CommittedWithinOverrun'
  <2>1. Committed(tracker') \in Nat /\ Committed(t) \in Nat /\ overrun \in Nat
    BY <1>1, CommittedType DEF Priced, IInv, TypeOK
  <2>2. QED
    BY <1>1, <2>1, BudgetAssumption DEF CommittedWithinOverrun
<1>4. /\ pc'[r] = "done" /\ UNCHANGED cand
      /\ \A s \in Requests \ {r} :
           pc'[s] = pc[s] /\ cand'[s] = cand[s] /\ seen'[s] = seen[s]
  BY <1>0 DEF IInv, TypeOK, EndFailed
<1>5. \A k \in Entries(r) : <<r, k>> \in Active(tracker)' => May(r, k)'
  BY <1>1
<1>6. 1 \in seen'[r] => cand'[r] = 1
  BY <1>4 DEF IInv, OnPrimary, FirstChunkEmitted
<1>7. ReservationLifecycle' /\ OnPrimary'
  BY <1>1, <1>4, <1>5, <1>6, LifecycleOf
<1>8. OneTerminalOutcome'
  BY <1>0, OutcomeFailed DEF IInv, TypeOK
<1>9. QED
  BY <1>1, <1>2, <1>3, <1>7, <1>8 DEF IInv

(* A stream that goes on to its next fallback, or fails for want of one.   *)
LEMMA FallbackInv ==
  ASSUME IInv, NEW r \in Requests, pc[r] # "done", 1 \notin seen[r], NEW k \in Nat \ {0},
         NEW t, Priced(t), Committed(t) <= SessionBudget + overrun,
         Active(t) \subseteq Active(tracker),
         \A j \in Entries(r) : <<r, j>> \notin Active(t),
         NEW m \in BOOLEAN, FallbackFrom(r, k, t, breaker, m, "call"),
         UNCHANGED <<seen, overrun>>
  PROVE  IInv'
<1>1. CASE \E mm \in BOOLEAN : FailWith(r, t, breaker, mm)
  BY <1>1, FailInv
<1>2. ASSUME NEW j \in Entries(r),
             CoreTypeOK', Priced(tracker'),
             Active(tracker') = Active(t) \cup {<<r, j>>},
             Committed(tracker') <= SessionBudget,
             pc' = [pc EXCEPT ![r] = "call"],
             cand' = [cand EXCEPT ![r] = j],
             UNCHANGED <<attempt, terminal, served, sigVars>>
      PROVE  IInv'
  <2>1. /\ pc'[r] = "call" /\ cand'[r] = j
        /\ \A s \in Requests \ {r} :
             pc'[s] = pc[s] /\ cand'[s] = cand[s] /\ seen'[s] = seen[s]
    BY <1>2 DEF IInv, TypeOK, CoreTypeOK
  <2>2. TypeOK'
    BY <1>2 DEF IInv, TypeOK
  <2>3. \A i \in Entries(r) : <<r, i>> \in Active(tracker)' => May(r, i)'
    BY <1>2, <2>1 DEF May
  <2>4. ReservationLifecycle' /\ OnPrimary'
    BY <1>2, <2>1, <2>3, LifecycleOf
  <2>5. OneTerminalOutcome'
    BY <1>2, OutcomeKept DEF IInv, TypeOK
  <2>6. CommittedWithinOverrun'
    <3>1. Committed(tracker') \in Nat /\ overrun \in Nat
      BY <1>2, CommittedType DEF Priced, IInv, TypeOK
    <3>2. QED
      BY <1>2, <3>1, BudgetAssumption DEF CommittedWithinOverrun
  <2>7. QED
    BY <1>2, <2>2, <2>4, <2>5, <2>6 DEF IInv
<1>3. QED
  BY <1>1, <1>2, BreakersAreTyped, FallbackFromEffect DEF IInv, TypeOK

----------------------------------------------------------------------------
(* Settling the entry being streamed commits no more than the cost beyond  *)
(* its reservation, and leaves nothing reserved.                           *)
LEMMA SettledCandidate ==
  ASSUME IInv, NEW r \in Requests, NEW cost \in Nat
  PROVE  LET id == <<r, cand[r]>>
             t == Settle(tracker, id, cost)
         IN  /\ Priced(t)
             /\ Active(t) \subseteq Active(tracker)
             /\ \A k \in Entries(r) : <<r, k>> \notin Active(t)
             /\ id \in Active(tracker) =>
                  Committed(t) = Committed(tracker) - CostOf(r, cand[r]) + cost
             /\ id \notin Active(tracker) => t = tracker
<1> DEFINE id == <<r, cand[r]>>
           t == Settle(tracker, id, cost)
<1>1. cand[r] \in Entries(r) /\ id \in Ids
  BY HeldBy, EntryFacts
<1>2. id \in Active(tracker) => tracker.res[id] = CostOf(r, cand[r])
  BY <1>1 DEF IInv, Priced
<1>3. /\ Priced(t) /\ Active(t) = Active(tracker) \ {id}
      /\ id \in Active(tracker) =>
           Committed(t) = Committed(tracker) - tracker.res[id] + cost
      /\ id \notin Active(tracker) => t = tracker
  BY <1>1, SettlePriced DEF IInv
<1> HIDE DEF t
<1>4. \A k \in Entries(r) : <<r, k>> \notin Active(t)
  BY <1>3, HeldBy
<1>5. QED
  BY <1>2, <1>3, <1>4 DEF t

(* Where delivering a chunk may leave seen.                                *)
LEMMA DeliverSeen ==
  ASSUME IInv, NEW r \in Requests, Deliver(r)
  PROVE  /\ seen' \in [Requests -> SUBSET Nat]
         /\ \A s \in Requests \ {r} : seen'[s] = seen[s]
         /\ 1 \in seen'[r] => cand[r] = 1
BY DEF Deliver, IInv, TypeOK, CoreTypeOK, OnPrimary, FirstChunkEmitted

LEMMA ChunkInv ==
  ASSUME IInv, NEW r \in Requests, Chunk(r)
  PROVE  IInv'
<1>1. /\ pc[r] = "call" /\ pc' = [pc EXCEPT ![r] = "yield"]
      /\ UNCHANGED <<attempt, cand, masked, terminal, served, sigVars, breaker, tracker, overrun>>
  BY DEF Chunk, Deliver
<1>2. /\ Priced(tracker') /\ CommittedWithinOverrun'
      /\ Active(tracker') \subseteq Active(tracker)
  BY <1>1 DEF IInv, CommittedWithinOverrun, Committed
<1>3. /\ attempt' \in [Requests -> Nat] /\ breaker' \in [Providers -> BreakerType]
      /\ overrun' \in Nat
  BY <1>1 DEF IInv, TypeOK, CoreTypeOK
<1>4. QED
  BY <1>1, <1>2, <1>3, DeliverSeen, MoveInv DEF Chunk

LEMMA UsageChunkInv ==
  ASSUME IInv, NEW r \in Requests, NEW cost \in UsageCosts, UsageChunk(r, cost)
  PROVE  IInv'
<1> DEFINE id == <<r, cand[r]>>
           t == Settle(tracker, id, cost)
           reserved == CostOf(r, cand[r])
<1>1. cost \in Nat /\ reserved \in Nat /\ overrun \in Nat /\ cand[r] \in Entries(r)
  BY UsageAssumption, HeldBy, EntryFacts DEF IInv, TypeOK
<1>2. /\ Priced(t) /\ Active(t) \subseteq Active(tracker)
      /\ id \in Active(tracker) => Committed(t) = Committed(tracker) - reserved + cost
      /\ id \notin Active(tracker) => t = tracker
  BY <1>1, SettledCandidate
<1>3. /\ pc[r] = "call" /\ pc' = [pc EXCEPT ![r] = "yield"] /\ tracker' = t
      /\ UNCHANGED <<attempt, cand, masked, terminal, served, sigVars, breaker>>
      /\ Deliver(r)
  BY DEF UsageChunk, Deliver
<1>4. id \in Active(tracker) => Reserved(r) = reserved
  BY <1>1 DEF IInv, Priced, Reserved, AtLeastZero
<1>5. overrun' = IF id \in Active(tracker)
                 THEN overrun + AtLeastZero(cost - Reserved(r)) ELSE overrun
  BY DEF UsageChunk
<1>6. Committed(tracker) \in Nat /\ Committed(t) \in Nat
  BY <1>2, CommittedType DEF IInv, Priced
<1> HIDE DEF t, reserved
<1>7. overrun' \in Nat /\ CommittedWithinOverrun'
  <2>1. CASE id \in Active(tracker)
    <3>1. overrun' = overrun + AtLeastZero(cost - reserved)
      BY <1>4, <1>5, <2>1
    <3>2. AtLeastZero(cost - reserved) \in Nat /\ AtLeastZero(cost - reserved) >= cost - reserved
      BY <1>1 DEF AtLeastZero
    <3>3. Committed(tracker) <= SessionBudget + overrun
      BY DEF IInv, CommittedWithinOverrun
    <3>4. QED
      BY <1>1, <1>2, <1>3, <1>6, <2>1, <3>1, <3>2, <3>3, BudgetAssumption
        DEF CommittedWithinOverrun
  <2>2. CASE id \notin Active(tracker)
    BY <1>1, <1>2, <1>3, <1>5, <2>2 DEF IInv, CommittedWithinOverrun
  <2>3. QED
    BY <2>1, <2>2
<1>8. attempt' \in [Requests -> Nat] /\ breaker' \in [Providers -> BreakerType]
  BY <1>3 DEF IInv, TypeOK, CoreTypeOK
<1>9. QED
  BY <1>2, <1>3, <1>7, <1>8, DeliverSeen, MoveInv

LEMMA StreamEndsInv ==
  ASSUME IInv, NEW r \in Requests, StreamEnds(r), UNCHANGED <<seen, overrun>>
  PROVE  IInv'
<1> DEFINE id == <<r, cand[r]>>
           cost == CostOf(r, cand[r])
           t == Settle(tracker, id, cost)
<1>1. cost \in Nat /\ cand[r] \in Entries(r) /\ pc[r] = "call"
  BY HeldBy, EntryFacts DEF StreamEnds
<1>2. /\ Priced(t) /\ Active(t) \subseteq Active(tracker)
      /\ \A k \in Entries(r) : <<r, k>> \notin Active(t)
      /\ id \in Active(tracker) => Committed(t) = Committed(tracker) - cost + cost
      /\ id \notin Active(tracker) => t = tracker
  BY <1>1, SettledCandidate
<1>3. CompleteWith(r, t)
  BY DEF StreamEnds
<1> HIDE DEF t, cost
<1>4. Committed(t) = Committed(tracker)
  BY <1>1, <1>2, CommittedType DEF IInv, Priced
<1>5. CoreTypeOK'
  BY <1>2, <1>3, CompleteWithEffect DEF IInv, TypeOK
<1>6. /\ tracker' = t /\ pc' = [pc EXCEPT ![r] = "done"]
      /\ UNCHANGED <<attempt, cand, masked, sigVars>>
  BY <1>3 DEF CompleteWith
<1>7. TypeOK'
  BY <1>5, <1>6 DEF IInv, TypeOK
<1>8. CommittedWithinOverrun'
  BY <1>4, <1>6 DEF IInv, CommittedWithinOverrun
<1>9. /\ pc'[r] = "done" /\ (1 \in seen'[r] => cand'[r] = 1)
      /\ \A s \in Requests \ {r} :
           pc'[s] = pc[s] /\ cand'[s] = cand[s] /\ seen'[s] = seen[s]
  BY <1>6 DEF IInv, TypeOK, OnPrimary, FirstChunkEmitted
<1>10. ReservationLifecycle' /\ OnPrimary'
  BY <1>2, <1>6, <1>9, LifecycleOf
<1>11. OneTerminalOutcome'
  BY <1>1, <1>3, OutcomeCompleted DEF IInv, TypeOK
<1>12. QED
  BY <1>2, <1>6, <1>7, <1>8, <1>10, <1>11 DEF IInv

(* The tracker after the reservation of the entry being tried is released. *)
LEMMA ReleasedCandidate ==
  ASSUME IInv, NEW r \in Requests
  PROVE  LET t == Release(tracker, <<r, cand[r]>>)
         IN  /\ Priced(t) /\ Committed(t) <= SessionBudget + overrun
             /\ Active(t) \subseteq Active(tracker)
             /\ \A k \in Entries(r) : <<r, k>> \notin Active(t)
<1> DEFINE t == Release(tracker, <<r, cand[r]>>)
<1>1. cand[r] \in Entries(r) /\ <<r, cand[r]>> \in Ids
  BY HeldBy, EntryFacts
<1>2. /\ Priced(t) /\ Active(t) = Active(tracker) \ {<<r, cand[r]>>}
      /\ Committed(t) <= Committed(tracker)
  BY <1>1, ReleasePriced DEF IInv
<1> HIDE DEF t
<1>3. Committed(t) <= SessionBudget + overrun
  <2>1. Committed(t) \in Nat /\ Committed(tracker) \in Nat /\ overrun \in Nat
    BY <1>2, CommittedType DEF IInv, Priced, TypeOK
  <2>2. QED
    BY <1>2, <2>1, BudgetAssumption DEF IInv, CommittedWithinOverrun
<1>4. \A k \in Entries(r) : <<r, k>> \notin Active(t)
  BY <1>2, HeldBy
<1>5. QED
  BY <1>2, <1>3, <1>4 DEF t

----------------------------------------------------------------------------
LEMMA ReserveAndStreamInv ==
  ASSUME IInv, NEW r \in Requests, ReserveAndStream(r), UNCHANGED <<seen, overrun>>
  PROVE  IInv'
<1>1. 1 \in Entries(r) /\ cand[r] = 1 /\ <<r, 1>> \notin Active(tracker)
  BY HeldBy, PrimaryExists DEF ReserveAndStream, IInv, OnPrimary
<1>2. /\ Priced(tracker')
      /\ Active(tracker') = Active(tracker) \cup {<<r, 1>>}
      /\ Committed(tracker') <= SessionBudget
  BY <1>1, ReservePriced DEF IInv, ReserveAndStream
<1>3. TypeOK'
  BY <1>2 DEF IInv, TypeOK, CoreTypeOK, ReserveAndStream, Priced, Ledger, sigVars
<1>4. CommittedWithinOverrun'
  <2>1. Committed(tracker') \in Nat /\ overrun \in Nat
    BY <1>2, CommittedType DEF Priced, IInv, TypeOK
  <2>2. QED
    BY <1>2, <2>1, BudgetAssumption DEF CommittedWithinOverrun
<1>5. /\ pc'[r] = "call" /\ cand'[r] = 1
      /\ \A s \in Requests \ {r} :
           pc'[s] = pc[s] /\ cand'[s] = cand[s] /\ seen'[s] = seen[s]
  BY <1>1 DEF IInv, TypeOK, ReserveAndStream
<1>6. \A k \in Entries(r) : <<r, k>> \in Active(tracker)' => May(r, k)'
  BY <1>2, <1>5, HeldBy DEF May, ReserveAndStream
<1>7. \A s \in Requests \ {r} : \A k \in Entries(s) :
        <<s, k>> \in Active(tracker)' => <<s, k>> \in Active(tracker)
  BY <1>2
<1>8. ReservationLifecycle' /\ OnPrimary'
  BY <1>5, <1>6, <1>7, LifecycleOf
<1>9. OneTerminalOutcome'
  BY OutcomeKept DEF IInv, TypeOK, ReserveAndStream
<1>10. QED
  BY <1>2, <1>3, <1>4, <1>8, <1>9 DEF IInv

(* A stream that moves on with its tracker untouched.                      *)
LEMMA KeepInv ==
  ASSUME IInv, NEW r \in Requests, pc[r] # "done",
         NEW w \in {"plugin", "call", "sleep", "done"}, pc' = [pc EXCEPT ![r] = w],
         UNCHANGED <<cand, masked, terminal, served, sigVars, tracker, seen, overrun>>,
         attempt' \in [Requests -> Nat],
         breaker' \in [Providers -> BreakerType],
         w = "sleep" => cand[r] = 1 /\ 1 \notin seen[r],
         w \in {"plugin", "done"} => pc[r] \in {"new", "plugin"}
  PROVE  IInv'
<1>1. /\ Priced(tracker') /\ CommittedWithinOverrun'
      /\ Active(tracker') \subseteq Active(tracker)
  BY DEF IInv, CommittedWithinOverrun, Committed
<1>2. seen' \in [Requests -> SUBSET Nat] /\ overrun' \in Nat
  BY DEF IInv, TypeOK
<1>3. w \in {"plugin", "done"} => \A k \in Entries(r) : <<r, k>> \notin Active(tracker')
  BY HeldBy
<1>4. /\ w \in {"plugin", "sleep"} => cand[r] = 1
      /\ 1 \in seen'[r] => cand[r] = 1 /\ w # "sleep"
  BY DEF IInv, OnPrimary, FirstChunkEmitted
<1>5. QED
  BY <1>1, <1>2, <1>3, <1>4, MoveInv

(* A consumer that leaves takes the reservation with it.                   *)
LEMMA LeaveInv ==
  ASSUME IInv, NEW r \in Requests, Leave(r), UNCHANGED <<seen, overrun>>
  PROVE  IInv'
<1> DEFINE t == Release(tracker, <<r, cand[r]>>)
<1>1. /\ Priced(t) /\ Committed(t) <= SessionBudget + overrun
      /\ Active(t) \subseteq Active(tracker)
      /\ \A k \in Entries(r) : <<r, k>> \notin Active(t)
  BY ReleasedCandidate
<1>2. /\ pc[r] = "yield" /\ tracker' = t /\ pc' = [pc EXCEPT ![r] = "done"]
      /\ UNCHANGED <<attempt, cand, masked, terminal, served, sigVars, breaker>>
  BY DEF Leave
<1> HIDE DEF t
<1>3. /\ attempt' \in [Requests -> Nat] /\ breaker' \in [Providers -> BreakerType]
      /\ seen' \in [Requests -> SUBSET Nat] /\ overrun' \in Nat
  BY <1>2 DEF IInv, TypeOK, CoreTypeOK
<1>4. 1 \in seen'[r] => cand[r] = 1
  BY DEF IInv, OnPrimary, FirstChunkEmitted
<1>5. CommittedWithinOverrun'
  BY <1>1, <1>2 DEF CommittedWithinOverrun
<1>6. QED
  BY <1>1, <1>2, <1>3, <1>4, <1>5, MoveInv

(* A primary holds nothing but its own reservation.                        *)
LEMMA PrimaryFailInv ==
  ASSUME IInv, NEW r \in Requests, pc[r] # "done", cand[r] = 1,
         FailWith(r, tracker, breaker, FALSE), UNCHANGED <<seen, overrun>>
  PROVE  IInv'
<1>1. \A k \in Entries(r) : <<r, k>> \in Active(tracker) => k = 1
  BY HeldBy
<1>2. QED
  BY <1>1, FailInv DEF IInv, CommittedWithinOverrun

LEMMA PrimaryFailsInv ==
  ASSUME IInv, NEW r \in Requests, NEW kind, PrimaryFails(r, kind),
         UNCHANGED <<seen, overrun>>
  PROVE  IInv'
<1>1. pc[r] # "done" /\ cand[r] = 1 /\ 1 \notin seen[r]
  BY DEF PrimaryFails, MustFail, FirstChunkEmitted
<1>2. CASE AllowFallback
  <2> DEFINE t == Release(tracker, <<r, cand[r]>>)
  <2>1. FallbackFrom(r, 2, t, breaker, FALSE, "call")
    BY <1>2, <1>1 DEF PrimaryFails
  <2>2. /\ Priced(t) /\ Committed(t) <= SessionBudget + overrun
        /\ Active(t) \subseteq Active(tracker)
        /\ \A k \in Entries(r) : <<r, k>> \notin Active(t)
    BY ReleasedCandidate
  <2> HIDE DEF t
  <2>3. 2 \in Nat \ {0} /\ FALSE \in BOOLEAN
    OBVIOUS
  <2>4. QED
    BY <1>1, <2>1, <2>2, <2>3, FallbackInv
<1>3. CASE ~AllowFallback
  BY <1>1, <1>3, PrimaryFailInv DEF PrimaryFails
<1>4. QED
  BY <1>2, <1>3

LEMMA FallbackFailsInv ==
  ASSUME IInv, NEW r \in Requests, FallbackFails(r), UNCHANGED <<seen, overrun>>
  PROVE  IInv'
<1> DEFINE t == Release(tracker, <<r, cand[r]>>)
<1>1. /\ Priced(t) /\ Committed(t) <= SessionBudget + overrun
      /\ Active(t) \subseteq Active(tracker)
      /\ \A k \in Entries(r) : <<r, k>> \notin Active(t)
  BY ReleasedCandidate
<1>2. /\ FALSE \in BOOLEAN /\ cand[r] + 1 \in Nat \ {0} /\ pc[r] # "done"
      /\ 1 \notin seen[r]
  BY DEF IInv, TypeOK, CoreTypeOK, FallbackFails, OnPrimary, FirstChunkEmitted
<1>3. \/ FailWith(r, t, breaker, FALSE)
      \/ FallbackFrom(r, cand[r] + 1, t, breaker, FALSE, "call")
  BY DEF FallbackFails
<1> HIDE DEF t
<1>4. CASE FailWith(r, t, breaker, FALSE)
  BY <1>1, <1>2, <1>4, FailInv
<1>5. CASE FallbackFrom(r, cand[r] + 1, t, breaker, FALSE, "call")
  BY <1>1, <1>2, <1>5, FallbackInv
<1>6. QED
  BY <1>3, <1>4, <1>5

(* Steps of a stream's surroundings change nothing that the invariant      *)
(* speaks of, types apart.                                                 *)
LEMMA SurroundingsInv ==
  ASSUME IInv,
         UNCHANGED <<pc, attempt, cand, masked, terminal, served, tracker, seen, overrun>>,
         cancelled' \in [Requests -> BOOLEAN], expired' \in [Requests -> BOOLEAN],
         breaker' \in [Providers -> BreakerType]
  PROVE  IInv'
<1>1. TypeOK'
  BY DEF IInv, TypeOK, CoreTypeOK
<1>2. Active(tracker)' = Active(tracker) /\ Committed(tracker)' = Committed(tracker)
  BY DEF Active, Committed
<1>3. ReservationLifecycle' /\ OnPrimary'
  BY <1>2 DEF IInv, ReservationLifecycle, OnPrimary, FirstChunkEmitted
<1>4. QED
  BY <1>1, <1>2, <1>3 DEF IInv, CommittedWithinOverrun, OneTerminalOutcome

LEMMA InitInv == Init => IInv
<1> SUFFICES ASSUME Init PROVE IInv
  OBVIOUS
<1>1. tracker = EmptyTracker /\ Ledger(tracker) /\ Committed(tracker) = 0
  BY EmptyLedger DEF Init, CoreInit
<1>2. Active(tracker) = {}
  BY <1>1 DEF Active, EmptyTracker
<1>3. Priced(tracker)
  BY <1>1, <1>2 DEF Priced
<1>4. TypeOK
  <2>1. \A r \in Requests : 1 <= Len(Route[r])
    BY PrimaryExists DEF Entries
  <2>2. breaker \in [Providers -> BreakerType]
    BY PolicyAssumption DEF Init, CoreInit
  <2>3. tracker \in TrackerType
    BY <1>1 DEF Ledger
  <2>4. <<>> \in Seq({"completed", "failed"})
    OBVIOUS
  <2>5. QED
    BY <2>1, <2>2, <2>3, <2>4 DEF Init, CoreInit, TypeOK, CoreTypeOK
<1>5. ReservationLifecycle /\ OnPrimary
  BY <1>2 DEF Init, CoreInit, ReservationLifecycle, OnPrimary, FirstChunkEmitted
<1>6. OneTerminalOutcome
  <2>1. Len(<<>>) <= 1 /\ <<>> # <<"completed">>
    OBVIOUS
  <2>2. QED
    BY <2>1 DEF Init, CoreInit, OneTerminalOutcome
<1>7. CommittedWithinOverrun
  BY <1>1, BudgetAssumption DEF Init, CommittedWithinOverrun
<1>8. QED
  BY <1>3, <1>4, <1>5, <1>6, <1>7 DEF IInv

(* The steps of one stream that deliver no chunk.                          *)
LEMMA OtherInv ==
  ASSUME IInv, NEW r \in Requests, Other(r)
  PROVE  IInv'
<1>0. UNCHANGED <<seen, overrun>>
  BY DEF Other
<1>1. CASE Prepare(r)
  <2>1. breaker' \in [Providers -> BreakerType]
    BY <1>1, PrimaryExists, EntryFacts, BreakersTyped DEF Prepare, IInv, TypeOK, CoreTypeOK
  <2>2. attempt' \in [Requests -> Nat]
    BY <1>1 DEF Prepare, IInv, TypeOK, CoreTypeOK
  <2>3. QED
    BY <1>0, <1>1, <2>1, <2>2, KeepInv DEF Prepare
<1>2. CASE Refuse(r)
  BY <1>0, <1>2, KeepInv DEF Refuse, IInv, TypeOK, CoreTypeOK
<1>3. CASE Reject(r)
  BY <1>0, <1>3, KeepInv DEF Reject, IInv, TypeOK, CoreTypeOK
<1>4. CASE Hooks(r)
  BY <1>0, <1>3, <1>4, ReserveAndStreamInv DEF Hooks, PluginThrows, BudgetRejects
<1>5. CASE Failure(r)
  <2>1. CASE PrimaryFailsForGood(r)
    BY <1>0, <2>1, PrimaryFailInv DEF PrimaryFailsForGood
  <2>2. ASSUME NEW kind \in ErrorKinds, PrimaryRetries(r, kind) PROVE IInv'
    BY <1>0, <2>2, KeepInv
      DEF PrimaryRetries, MustFail, FirstChunkEmitted, BackOff, IInv, TypeOK, CoreTypeOK
  <2>3. QED
    BY <1>0, <1>5, <2>1, <2>2, PrimaryFailsInv, FallbackFailsInv DEF Failure
<1>6. CASE Sleeping(r)
  <2>1. cand[r] = 1 /\ pc[r] = "sleep"
    BY <1>6 DEF Sleeping, SleepEnds, SleepAborted, IInv, OnPrimary
  <2>2. CASE SleepEnds(r)
    <3>1. attempt' \in [Requests -> Nat] /\ breaker' \in [Providers -> BreakerType]
      BY <2>2 DEF SleepEnds, IInv, TypeOK, CoreTypeOK
    <3>2. QED
      BY <1>0, <2>1, <2>2, <3>1, KeepInv DEF SleepEnds
  <2>3. CASE SleepAborted(r)
    BY <1>0, <2>1, <2>3, PrimaryFailInv DEF SleepAborted
  <2>4. QED
    BY <1>6, <2>2, <2>3 DEF Sleeping
<1>7. CASE Pull(r)
  BY <1>0, <1>7, KeepInv DEF Pull, IInv, TypeOK, CoreTypeOK
<1>8. CASE Cancel(r) \/ Expire(r)
  BY <1>0, <1>8, SurroundingsInv DEF Cancel, Expire, reqVars, IInv, TypeOK, CoreTypeOK
<1>9. QED
  BY <1>0, <1>1, <1>2, <1>4, <1>5, <1>6, <1>7, <1>8, StreamEndsInv, LeaveInv DEF Other

LEMMA NextInv == IInv /\ [Next]_vars => IInv'
<1> SUFFICES ASSUME IInv, [Next]_vars PROVE IInv'
  OBVIOUS
<1>1. ASSUME NEW p \in Providers, CoolDown(p), UNCHANGED <<seen, overrun>> PROVE IInv'
  <2>1. breaker' \in [Providers -> BreakerType]
    BY <1>1, BreakersTyped DEF CoolDown, IInv, TypeOK, CoreTypeOK
  <2>2. QED
    BY <1>1, <2>1, SurroundingsInv DEF CoolDown, reqVars, sigVars, IInv, TypeOK, CoreTypeOK
<1>2. CASE UNCHANGED coreVars /\ UNCHANGED <<seen, overrun>>
  BY <1>2, SurroundingsInv DEF coreVars, reqVars, sigVars, IInv, TypeOK, CoreTypeOK
<1>3. CASE UNCHANGED vars
  BY <1>2, <1>3 DEF vars
<1>4. QED
  BY <1>1, <1>2, <1>3, ChunkInv, UsageChunkInv, OtherInv DEF Next, AllDone

THEOREM Invariant == Spec => []IInv
BY InitInv, NextInv, PTL DEF Spec

----------------------------------------------------------------------------
(* The state is well typed, the reservation map and the breakers included. *)
THEOREM TypeCorrect == Spec => []TypeOK
<1>1. IInv => TypeOK
  BY DEF IInv
<1>2. QED
  BY <1>1, Invariant, PTL

(* However many streams cross, the session budget is overcommitted by no   *)
(* more than their usage chunks cost beyond the estimates.                 *)
THEOREM BudgetRespected == Spec => []CommittedWithinOverrun
<1>1. IInv => CommittedWithinOverrun
  BY DEF IInv
<1>2. QED
  BY <1>1, Invariant, PTL

(* Whether a stream ends, fails or is left by its consumer, no reservation *)
(* outlives the attempt it was made for.                                   *)
THEOREM ReservationsLive == Spec => []ReservationLifecycle
<1>1. IInv => ReservationLifecycle
  BY DEF IInv
<1>2. QED
  BY <1>1, Invariant, PTL

(* A stream ends in one terminal event at most.                            *)
THEOREM OneOutcome == Spec => []OneTerminalOutcome
<1>1. IInv => OneTerminalOutcome
  BY DEF IInv
<1>2. QED
  BY <1>1, Invariant, PTL

----------------------------------------------------------------------------
Step(r) == Chunk(r) \/ (\E cost \in UsageCosts : UsageChunk(r, cost)) \/ Other(r)

SameAttempt(s) == attempt'[s] = attempt[s] /\ cand'[s] = cand[s]

(* What a step may do to attempt and cand, stream by stream.               *)
LEMMA StepAttempts ==
  ASSUME IInv, NEW r \in Requests, Step(r)
  PROVE  /\ \A s \in Requests \ {r} : SameAttempt(s)
         /\ cancelled[r] \/ FirstChunkEmitted(r) => SameAttempt(r)
         /\ expired[r] => cand'[r] = cand[r]
<1> DEFINE Frugal == /\ \A s \in Requests \ {r} : SameAttempt(s)
                     /\ cancelled[r] \/ FirstChunkEmitted(r) => SameAttempt(r)
                     /\ expired[r] => cand'[r] = cand[r]
<1>1. CASE UNCHANGED <<attempt, cand>>
  BY <1>1 DEF SameAttempt
<1>2. CASE Deliver(r)
  BY <1>1, <1>2 DEF Deliver
<1>3. CASE Prepare(r) \/ Refuse(r) \/ Hooks(r)
  BY <1>1, <1>3 DEF Prepare, Refuse, Hooks, PluginThrows, BudgetRejects, Reject,
                    ReserveAndStream
<1>4. CASE SleepEnds(r)
  <2>1. ~cancelled[r] /\ ~FirstChunkEmitted(r)
    BY <1>4 DEF SleepEnds, IInv, OnPrimary
  <2>2. QED
    BY <2>1, <1>4 DEF SleepEnds, SameAttempt, IInv, TypeOK, CoreTypeOK
<1>5. CASE SleepAborted(r) \/ PrimaryFailsForGood(r)
  BY <1>1, <1>5 DEF SleepAborted, PrimaryFailsForGood, FailWith, EndFailed
<1>6. CASE StreamEnds(r) \/ Pull(r) \/ Leave(r) \/ Cancel(r) \/ Expire(r)
  BY <1>1, <1>6 DEF StreamEnds, CompleteWith, Pull, Leave, Cancel, Expire, reqVars
<1>7. ASSUME NEW kind \in ErrorKinds, PrimaryRetries(r, kind) PROVE Frugal
  BY <1>1, <1>7 DEF PrimaryRetries, BackOff
<1>8. ASSUME ~cancelled[r], ~FirstChunkEmitted(r), ~expired[r],
             NEW k, NEW t, NEW m, FallbackFrom(r, k, t, breaker, m, "call")
      PROVE  Frugal
  <2>1. attempt' = attempt /\ \A s \in Requests \ {r} : cand'[s] = cand[s]
    BY <1>8, FallbackWaits DEF IInv, TypeOK
  <2>2. QED
    BY <1>8, <2>1 DEF SameAttempt
<1>9. ASSUME NEW kind \in ErrorKinds, PrimaryFails(r, kind) PROVE Frugal
  <2>1. ~cancelled[r] /\ ~FirstChunkEmitted(r) /\ ~expired[r]
    BY <1>9 DEF PrimaryFails, MustFail, SignalAborted
  <2>2. CASE FailWith(r, tracker, breaker, FALSE)
    BY <1>1, <2>2 DEF FailWith, EndFailed
  <2>3. QED
    BY <1>8, <1>9, <2>1, <2>2 DEF PrimaryFails
<1>10. CASE FallbackFails(r)
  <2>1. ~FirstChunkEmitted(r)
    BY <1>10 DEF FallbackFails, IInv, OnPrimary, TypeOK, CoreTypeOK
  <2>2. CASE SignalAborted(r)
    BY <1>1, <1>10, <2>2 DEF FallbackFails, FailWith, EndFailed
  <2>3. CASE ~SignalAborted(r)
    BY <1>8, <1>10, <2>1, <2>3 DEF FallbackFails, SignalAborted
  <2>4. QED
    BY <2>2, <2>3
<1>11. QED
  BY <1>2, <1>3, <1>4, <1>5, <1>6, <1>7, <1>9, <1>10
    DEF Step, Chunk, UsageChunk, Other, Failure, Sleeping

(* After a visible chunk of the primary, or once the caller has cancelled, *)
(* no retry and no fallback begins; after the deadline no fallback does.   *)
THEOREM VisibleOutputIsFinal == Spec => NoFurtherAttempt
<1> DEFINE Final(r) ==
       /\ cancelled[r] \/ FirstChunkEmitted(r) =>
            attempt'[r] = attempt[r] /\ cand'[r] = cand[r]
       /\ expired[r] => cand'[r] = cand[r]
<1>1. IInv /\ [Next]_vars => [\A r \in Requests : Final(r)]_vars
  <2> SUFFICES ASSUME IInv, Next, NEW r \in Requests PROVE Final(r)
    OBVIOUS
  <2>1. CASE UNCHANGED <<attempt, cand>>
    BY <2>1
  <2>2. ASSUME NEW s \in Requests, Step(s) PROVE Final(r)
    BY <2>2, StepAttempts DEF SameAttempt
  <2>3. ASSUME NEW p \in Providers, CoolDown(p) PROVE Final(r)
    BY <2>1, <2>3 DEF CoolDown, reqVars
  <2>4. CASE AllDone
    BY <2>1, <2>4 DEF AllDone, coreVars, reqVars
  <2>5. QED
    BY <2>2, <2>3, <2>4 DEF Next, Step
<1>2. QED
  BY <1>1, Invariant, PTL DEF Spec, NoFurtherAttempt

----------------------------------------------------------------------------
(* What the breakers hear of one step.                                     *)
LEMMA QuietlyTold ==
  ASSUME IInv, NEW p \in Providers,
         breaker' \in {breaker, [breaker EXCEPT ![p] = Admit(@)],
                       [breaker EXCEPT ![p] = RecordSuccess(@)],
                       [breaker EXCEPT ![p] = Cool(@)]}
  PROVE  TerminalFailuresOnly
<1>1. breaker \in [Providers -> BreakerType]
  BY BreakersAreTyped
<1>2. breaker' \in [Providers -> BreakerType]
  BY <1>1, BreakersTyped
<1>3. Quiet(breaker, breaker')
  BY <1>1, QuietSteps
<1>4. QED
  BY <1>1, <1>2, <1>3, QuietHears

LEMMA FailureTold ==
  ASSUME IInv, NEW r \in Requests, pc[r] # "done", NEW t, NEW m, NEW k \in Nat \ {0},
         FailWith(r, t, breaker, m) \/ FallbackFrom(r, k, t, breaker, m, "call")
  PROVE  TerminalFailuresOnly
<1>1. CoreTypeOK /\ OneTerminalOutcome
  BY DEF IInv, TypeOK
<1>2. breaker \in [Providers -> BreakerType] /\ Quiet(breaker, breaker)
  BY BreakersAreTyped, BreakerFields DEF Quiet
<1>3. QED
  BY <1>1, <1>2, FailWithHears, FallbackHears

LEMMA StepTold ==
  ASSUME IInv, NEW r \in Requests, Step(r)
  PROVE  TerminalFailuresOnly
<1>1. cand[r] \in Entries(r) /\ 1 \in Entries(r)
  BY HeldBy, PrimaryExists
<1>2. ProviderOf(r, 1) \in Providers /\ ProviderOf(r, cand[r]) \in Providers
  BY <1>1, EntryFacts
<1>3. cand[r] + 1 \in Nat \ {0} /\ 2 \in Nat \ {0}
  BY DEF IInv, TypeOK, CoreTypeOK
<1>4. CASE breaker' = breaker
  BY <1>2, <1>4, QuietlyTold
<1>5. CASE Deliver(r) \/ Refuse(r) \/ Hooks(r) \/ SleepEnds(r) \/ Pull(r) \/ Leave(r)
             \/ Cancel(r) \/ Expire(r)
  BY <1>4, <1>5 DEF Deliver, Refuse, Hooks, PluginThrows, BudgetRejects, Reject,
                    ReserveAndStream, SleepEnds, Pull, Leave, Cancel, Expire
<1>6. CASE Prepare(r)
  BY <1>2, <1>6, QuietlyTold DEF Prepare
<1>7. CASE StreamEnds(r)
  BY <1>2, <1>7, QuietlyTold DEF StreamEnds, CompleteWith, Answered
<1>8. CASE SleepAborted(r) \/ PrimaryFailsForGood(r)
  BY <1>3, <1>8, FailureTold DEF SleepAborted, PrimaryFailsForGood
<1>9. ASSUME NEW kind, PrimaryRetries(r, kind) PROVE TerminalFailuresOnly
  BY <1>4, <1>9 DEF PrimaryRetries, BackOff
<1>10. ASSUME NEW kind, PrimaryFails(r, kind) PROVE TerminalFailuresOnly
  BY <1>3, <1>10, FailureTold DEF PrimaryFails
<1>11. CASE FallbackFails(r)
  BY <1>3, <1>11, FailureTold DEF FallbackFails
<1>12. QED
  BY <1>5, <1>6, <1>7, <1>8, <1>9, <1>10, <1>11
    DEF Step, Chunk, UsageChunk, Other, Failure, Sleeping

(* A breaker counts a failure, or opens, only in the step in which a       *)
(* stream of its own provider fails for good without being cancelled.      *)
THEOREM FailuresHeardOnce == Spec => FailuresAreTerminal
<1> DEFINE Right(p) ==
       HearsFailure(p) =>
         \E r \in Requests : /\ ProviderOf(r, 1) = p
                             /\ ~cancelled[r]
                             /\ terminal'[r] # terminal[r]
                             /\ terminal'[r] = <<"failed">>
<1>1. IInv /\ [Next]_vars => [\A p \in Providers : Right(p)]_coreVars
  <2> SUFFICES ASSUME IInv, [Next]_vars, NEW p \in Providers
               PROVE  Right(p) \/ UNCHANGED coreVars
    OBVIOUS
  <2>1. CASE TerminalFailuresOnly
    BY <2>1 DEF TerminalFailuresOnly
  <2>2. ASSUME NEW q \in Providers, CoolDown(q) PROVE TerminalFailuresOnly
    BY <2>2, QuietlyTold DEF CoolDown
  <2>3. CASE UNCHANGED coreVars
    BY <2>3
  <2>4. QED
    BY <2>1, <2>2, <2>3, StepTold DEF Next, AllDone, vars, Step
<1>2. QED
  BY <1>1, Invariant, PTL DEF Spec, FailuresAreTerminal
=============================================================================
