------------------------- MODULE ExecutionCoreProofs -------------------------
(***************************************************************************)
(* What the steps shared by the pipelines do to the tracker, the breakers  *)
(* and the terminal events, for any requests, routes, budgets, thresholds  *)
(* and policies.  A tracker is "priced" when its ledger adds up and each   *)
(* reservation it holds has the price of the entry it was made for.        *)
(***************************************************************************)
EXTENDS ExecutionCore, OpsProofs

Entries(r) == 1..Len(Route[r])

Priced(t) ==
  /\ Ledger(t)
  /\ \A r \in Requests : \A k \in Entries(r) :
       <<r, k>> \in Active(t) => t.res[<<r, k>>] = CostOf(r, k)

(* Every entry of a route has an id, a price and a provider.               *)
LEMMA EntryFacts ==
  ASSUME NEW r \in Requests, NEW k \in Entries(r)
  PROVE  <<r, k>> \in Ids /\ CostOf(r, k) \in Nat /\ ProviderOf(r, k) \in Providers
<1>1. Route[r] \in Seq(Target) /\ Route[r][k] \in Target
  BY RouteAssumption DEF Entries
<1>2. <<r, k>> \in Ids
  BY RouteAssumption DEF Entries
<1>3. QED
  BY <1>1, <1>2 DEF Target, CostOf, ProviderOf

(* The first entry of a route exists.                                      *)
LEMMA PrimaryExists ==
  ASSUME NEW r \in Requests
  PROVE  1 \in Entries(r) /\ Len(Route[r]) \in Nat
<1>1. Route[r] \in Seq(Target) /\ Route[r] # <<>>
  BY RouteAssumption
<1>2. QED
  BY <1>1 DEF Entries

LEMMA CommittedType ==
  ASSUME NEW t, Ledger(t)
  PROVE  Committed(t) \in Nat
BY TrackerFields DEF Ledger, Committed

(* reserve() adds one reservation, within the session budget.              *)
LEMMA ReservePriced ==
  ASSUME NEW t, Priced(t), NEW r \in Requests, NEW k \in Entries(r),
         <<r, k>> \notin Active(t), CanReserve(t, CostOf(r, k))
  PROVE  LET new == Reserve(t, <<r, k>>, CostOf(r, k))
         IN  /\ Priced(new)
             /\ Active(new) = Active(t) \cup {<<r, k>>}
             /\ Committed(new) <= SessionBudget
<1> DEFINE id == <<r, k>>
           new == Reserve(t, id, CostOf(r, k))
<1>1. id \in Ids /\ CostOf(r, k) \in Nat
  BY EntryFacts
<1>2. Ledger(new) /\ Committed(new) <= SessionBudget
  BY <1>1, ReserveLedger DEF Priced
<1>3. t.res \in [Ids -> Nat \cup {NoRes}]
  BY TrackerFields DEF Priced, Ledger
<1>4. new.res = [t.res EXCEPT ![id] = CostOf(r, k)]
  BY DEF Reserve, Priced, Ledger, TrackerType
<1>5. Active(new) = Active(t) \cup {id}
  BY <1>1, <1>3, <1>4 DEF Active, NoRes
<1>6. \A s \in Requests : \A j \in Entries(s) :
        <<s, j>> \in Active(new) => new.res[<<s, j>>] = CostOf(s, j)
  <2> SUFFICES ASSUME NEW s \in Requests, NEW j \in Entries(s), <<s, j>> \in Active(new)
               PROVE  new.res[<<s, j>>] = CostOf(s, j)
    OBVIOUS
  <2> HIDE DEF new
  <2>1. CASE <<s, j>> = id
    BY <1>1, <1>3, <1>4, <2>1
  <2>2. CASE <<s, j>> # id
    BY <1>3, <1>4, <1>5, <2>2, EntryFacts DEF Priced
  <2>3. QED
    BY <2>1, <2>2
<1>7. QED
  BY <1>2, <1>5, <1>6 DEF Priced

(* A tracker that lost one reservation is priced if its ledger adds up.    *)
LEMMA DropPriced ==
  ASSUME NEW t, Priced(t), NEW id \in Ids, NEW new, Ledger(new),
         new.res = [t.res EXCEPT ![id] = NoRes]
  PROVE  Priced(new) /\ Active(new) = Active(t) \ {id}
<1>1. t.res \in [Ids -> Nat \cup {NoRes}]
  BY TrackerFields DEF Priced, Ledger
<1>2. Active(new) = Active(t) \ {id}
  BY <1>1 DEF Active
<1>3. \A i \in Active(new) : new.res[i] = t.res[i]
  BY <1>1, <1>2 DEF Active
<1>4. QED
  BY <1>2, <1>3 DEF Priced

(* release() drops the reservation, if there is one, and commits nothing.  *)
LEMMA ReleasePriced ==
  ASSUME NEW t, Priced(t), NEW id \in Ids
  PROVE  /\ Priced(Release(t, id))
         /\ Active(Release(t, id)) = Active(t) \ {id}
         /\ Committed(Release(t, id)) <= Committed(t)
<1>1. Ledger(Release(t, id)) /\ Committed(Release(t, id)) <= Committed(t)
  BY ReleaseLedger DEF Priced
<1>2. CASE t.res[id] = NoRes
  BY <1>1, <1>2 DEF Release, Active
<1>3. CASE t.res[id] # NoRes
  <2>1. Release(t, id).res = [t.res EXCEPT ![id] = NoRes]
    BY <1>3 DEF Release, Priced, Ledger, TrackerType
  <2>2. QED
    BY <1>1, <2>1, DropPriced
<1>4. QED
  BY <1>2, <1>3

(* settle() drops the reservation; what it commits changes by the          *)
(* difference between the cost and the reserved amount.                    *)
LEMMA SettlePriced ==
  ASSUME NEW t, Priced(t), NEW id \in Ids, NEW cost \in Nat
  PROVE  /\ Priced(Settle(t, id, cost))
         /\ Active(Settle(t, id, cost)) = Active(t) \ {id}
         /\ id \in Active(t) =>
              Committed(Settle(t, id, cost)) = Committed(t) - t.res[id] + cost
         /\ id \notin Active(t) => Settle(t, id, cost) = t
<1>1. CASE id \notin Active(t)
  BY <1>1 DEF Settle, Active
<1>2. CASE id \in Active(t)
  <2>1. /\ Ledger(Settle(t, id, cost))
        /\ Committed(Settle(t, id, cost)) = Committed(t) - t.res[id] + cost
    BY <1>2, SettleLedger DEF Priced
  <2>2. Settle(t, id, cost).res = [t.res EXCEPT ![id] = NoRes]
    BY <1>2 DEF Settle, Active, CheckCallbacks, Priced, Ledger, TrackerType
  <2>3. QED
    BY <1>2, <2>1, <2>2, DropPriced
<1>3. QED
  BY <1>1, <1>2

----------------------------------------------------------------------------
(* A breaker's report, to whichever provider it goes, keeps the breakers   *)
(* typed.                                                                  *)
LEMMA BreakersTyped ==
  ASSUME NEW b \in [Providers -> BreakerType], NEW p \in Providers
  PROVE  /\ [b EXCEPT ![p] = RecordFailure(@)] \in [Providers -> BreakerType]
         /\ [b EXCEPT ![p] = RecordSuccess(@)] \in [Providers -> BreakerType]
         /\ [b EXCEPT ![p] = Admit(@)] \in [Providers -> BreakerType]
         /\ [b EXCEPT ![p] = Cool(@)] \in [Providers -> BreakerType]
<1>1. b[p] \in BreakerType
  OBVIOUS
<1>2. /\ RecordFailure(b[p]) \in BreakerType
      /\ RecordSuccess(b[p]) \in BreakerType
      /\ Admit(b[p]) \in BreakerType
      /\ Cool(b[p]) \in BreakerType
  BY <1>1, FailureType, SuccessType, AdmitType, CoolType
<1>3. QED
  BY <1>2

(* So does the executor's report of an answer.                             *)
LEMMA AnsweredTyped ==
  ASSUME CoreTypeOK, NEW r \in Requests
  PROVE  Answered(r) \in [Providers -> BreakerType]
<1>1. cand[r] \in Entries(r) /\ breaker \in [Providers -> BreakerType]
  BY PrimaryExists DEF CoreTypeOK, Entries
<1>2. QED
  BY <1>1, EntryFacts, BreakersTyped DEF Answered

(* A failed request gives its primary's reservation back, emits one event  *)
(* and ends.                                                               *)
LEMMA EndFailedEffect ==
  ASSUME CoreTypeOK, NEW r \in Requests, NEW t, Priced(t),
         NEW b \in [Providers -> BreakerType], NEW m \in BOOLEAN, EndFailed(r, t, b, m)
  PROVE  /\ CoreTypeOK'
         /\ Priced(tracker')
         /\ Active(tracker') = Active(t) \ {<<r, 1>>}
         /\ Committed(tracker') <= Committed(t)
<1>1. <<r, 1>> \in Ids
  BY PrimaryExists, EntryFacts
<1>2. /\ Priced(tracker')
      /\ Active(tracker') = Active(t) \ {<<r, 1>>}
      /\ Committed(tracker') <= Committed(t)
  BY <1>1, ReleasePriced DEF EndFailed
<1>3. tracker' \in TrackerType
  BY <1>2 DEF Priced, Ledger
<1>4. terminal' \in [Requests -> Seq({"completed", "failed"})]
  BY DEF EndFailed, CoreTypeOK
<1>5. masked' \in [Requests -> BOOLEAN]
  BY DEF EndFailed, CoreTypeOK
<1>6. QED
  BY <1>2, <1>3, <1>4, <1>5 DEF EndFailed, CoreTypeOK, sigVars

(* The terminal failure is such an end, with typed breakers.               *)
LEMMA FailWithEnds ==
  ASSUME NEW r \in Requests, NEW t, NEW b \in [Providers -> BreakerType], NEW m,
         FailWith(r, t, b, m)
  PROVE  \E bb \in [Providers -> BreakerType] : EndFailed(r, t, bb, m)
<1>1. ProviderOf(r, 1) \in Providers
  BY PrimaryExists, EntryFacts
<1>2. RecordTerminalFailure(r, b, m) \in [Providers -> BreakerType]
  BY <1>1, BreakersTyped DEF RecordTerminalFailure
<1>3. QED
  BY <1>2 DEF FailWith

(* The fallback loop either fails the request or reserves, within the      *)
(* session budget, for one entry of its route and waits there.             *)
LEMMA FallbackFromEffect ==
  ASSUME CoreTypeOK, NEW r \in Requests, NEW k \in Nat \ {0}, NEW t, Priced(t),
         \A j \in Entries(r) : <<r, j>> \notin Active(t),
         NEW b \in [Providers -> BreakerType], NEW m \in BOOLEAN, NEW waiting,
         FallbackFrom(r, k, t, b, m, waiting)
  PROVE  \/ \E mm \in BOOLEAN : FailWith(r, t, b, mm)
         \/ \E j \in Entries(r) :
              /\ j >= k
              /\ CoreTypeOK'
              /\ Priced(tracker')
              /\ Active(tracker') = Active(t) \cup {<<r, j>>}
              /\ Committed(tracker') <= SessionBudget
              /\ pc' = [pc EXCEPT ![r] = waiting]
              /\ cand' = [cand EXCEPT ![r] = j]
              /\ UNCHANGED <<attempt, terminal, served, sigVars>>
<1>1. CASE FailWith(r, t, b, m \/ Affordable(r, k, t) # {})
  <2>1. (m \/ Affordable(r, k, t) # {}) \in BOOLEAN
    OBVIOUS
  <2>2. QED
    BY <1>1, <2>1
<1>2. CASE ~FailWith(r, t, b, m \/ Affordable(r, k, t) # {})
  <2>1. PICK j \in Usable(r, k, t, b) :
          /\ tracker' = Reserve(t, <<r, j>>, CostOf(r, j))
          /\ breaker' = [b EXCEPT ![ProviderOf(r, j)] = Admit(@)]
          /\ cand' = [cand EXCEPT ![r] = j]
          /\ masked' = [masked EXCEPT ![r] = m \/ {i \in Affordable(r, k, t) : i < j} # {}]
          /\ pc' = [pc EXCEPT ![r] = waiting]
          /\ UNCHANGED <<attempt, terminal, served, sigVars>>
    BY <1>2 DEF FallbackFrom
  <2>2. j \in k..Len(Route[r]) /\ CanReserve(t, CostOf(r, j))
    BY <2>1 DEF Usable, Affordable
  <2>3. j \in Entries(r) /\ j >= k /\ j \in Nat \ {0} /\ j <= Len(Route[r])
    BY <2>2, PrimaryExists DEF Entries
  <2>4. /\ Priced(tracker')
        /\ Active(tracker') = Active(t) \cup {<<r, j>>}
        /\ Committed(tracker') <= SessionBudget
    BY <2>1, <2>2, <2>3, ReservePriced
  <2>5. breaker' \in [Providers -> BreakerType]
    BY <2>1, <2>3, EntryFacts, BreakersTyped DEF CoreTypeOK
  <2>6. tracker' \in TrackerType
    BY <2>4 DEF Priced, Ledger
  <2>7. cand' \in [Requests -> Nat \ {0}] /\ \A s \in Requests : cand'[s] <= Len(Route[s])
    BY <2>1, <2>3 DEF CoreTypeOK
  <2>8. masked' \in [Requests -> BOOLEAN]
    BY <2>1 DEF CoreTypeOK
  <2>9. CoreTypeOK'
    BY <2>1, <2>5, <2>6, <2>7, <2>8 DEF CoreTypeOK, sigVars
  <2>10. QED
    BY <2>1, <2>3, <2>4, <2>9
<1>3. QED
  BY <1>1, <1>2

(* The fallback loop leaves the request done or waiting as it was told.    *)
LEMMA FallbackWaits ==
  ASSUME CoreTypeOK, NEW r \in Requests, NEW k, NEW t, NEW b, NEW m, NEW waiting,
         FallbackFrom(r, k, t, b, m, waiting)
  PROVE  /\ pc' \in {[pc EXCEPT ![r] = "done"], [pc EXCEPT ![r] = waiting]}
         /\ attempt' = attempt
         /\ \A s \in Requests \ {r} : cand'[s] = cand[s]
<1>1. CASE FailWith(r, t, b, m \/ Affordable(r, k, t) # {})
  BY <1>1 DEF FailWith, EndFailed
<1>2. CASE ~FailWith(r, t, b, m \/ Affordable(r, k, t) # {})
  <2>1. PICK j \in Usable(r, k, t, b) :
          /\ cand' = [cand EXCEPT ![r] = j]
          /\ pc' = [pc EXCEPT ![r] = waiting]
          /\ attempt' = attempt
    BY <1>2 DEF FallbackFrom
  <2>2. QED
    BY <2>1 DEF CoreTypeOK
<1>3. QED
  BY <1>1, <1>2

(* A request answered by the entry it was trying is served by that entry.  *)
LEMMA CompleteWithEffect ==
  ASSUME CoreTypeOK, NEW r \in Requests, NEW t, Priced(t), CompleteWith(r, t)
  PROVE  CoreTypeOK' /\ served'[r] \in Nat \ {0}
<1>1. cand[r] \in Entries(r) /\ cand[r] \in Nat \ {0}
  BY PrimaryExists DEF CoreTypeOK, Entries
<1>2. breaker' \in [Providers -> BreakerType]
  BY AnsweredTyped DEF CompleteWith
<1>3. tracker' \in TrackerType
  BY DEF CompleteWith, Priced, Ledger
<1>4. terminal' \in [Requests -> Seq({"completed", "failed"})]
  BY DEF CompleteWith, CoreTypeOK
<1>5. served' \in [Requests -> Nat] /\ served'[r] = cand[r]
  BY <1>1 DEF CompleteWith, CoreTypeOK
<1>6. QED
  BY <1>1, <1>2, <1>3, <1>4, <1>5 DEF CompleteWith, CoreTypeOK, sigVars

----------------------------------------------------------------------------
(* OneTerminalOutcome is kept by a step of request r that emits nothing,   *)
(* by a terminal failure and by an answer.  "waits" are the pipeline's pcs.*)
LEMMA OutcomeKept ==
  ASSUME OneTerminalOutcome, NEW r \in Requests, pc[r] # "done",
         NEW waits, pc \in [Requests -> waits],
         NEW w, pc' = [pc EXCEPT ![r] = w], UNCHANGED <<terminal, served>>
  PROVE  OneTerminalOutcome'
<1>1. terminal[r] = <<>>
  BY DEF OneTerminalOutcome
<1>2. \A s \in Requests : terminal'[s] # <<>> => pc'[s] = "done"
  BY <1>1 DEF OneTerminalOutcome
<1>3. QED
  BY <1>2 DEF OneTerminalOutcome

LEMMA OutcomeFailed ==
  ASSUME CoreTypeOK, OneTerminalOutcome, NEW r \in Requests, pc[r] # "done",
         NEW waits, pc \in [Requests -> waits],
         NEW t, NEW b, NEW m, EndFailed(r, t, b, m)
  PROVE  OneTerminalOutcome'
<1>1. terminal[r] = <<>> /\ served[r] = 0
  BY DEF OneTerminalOutcome
<1>2. terminal'[r] = <<"failed">> /\ served'[r] = 0 /\ pc'[r] = "done"
  BY <1>1 DEF EndFailed, CoreTypeOK
<1>3. <<"failed">> # <<"completed">> /\ Len(<<"failed">>) <= 1
  OBVIOUS
<1>4. \A s \in Requests \ {r} :
        terminal'[s] = terminal[s] /\ served'[s] = served[s] /\ pc'[s] = pc[s]
  BY DEF EndFailed, CoreTypeOK
<1>5. QED
  BY <1>2, <1>3, <1>4 DEF OneTerminalOutcome

LEMMA OutcomeCompleted ==
  ASSUME CoreTypeOK, OneTerminalOutcome, NEW r \in Requests, pc[r] # "done",
         NEW waits, pc \in [Requests -> waits],
         NEW t, CompleteWith(r, t)
  PROVE  OneTerminalOutcome'
<1>1. terminal[r] = <<>>
  BY DEF OneTerminalOutcome
<1>2. terminal'[r] = <<"completed">> /\ served'[r] = cand[r] /\ pc'[r] = "done"
  BY <1>1 DEF CompleteWith, CoreTypeOK
<1>3. cand[r] # 0 /\ Len(<<"completed">>) <= 1 /\ <<"completed">> # <<>>
  BY DEF CoreTypeOK
<1>4. \A s \in Requests \ {r} :
        terminal'[s] = terminal[s] /\ served'[s] = served[s] /\ pc'[s] = pc[s]
  BY DEF CompleteWith, CoreTypeOK
<1>5. QED
  BY <1>2, <1>3, <1>4 DEF OneTerminalOutcome

----------------------------------------------------------------------------
(* What a step charges.  A failure, a reservation and a release charge     *)
(* nothing, whatever tracker "t" they start from.                          *)
LEMMA EndFailedCharges ==
  ASSUME NEW r \in Requests, NEW t \in TrackerType, NEW b, NEW m,
         FailWith(r, t, b, m) \/ EndFailed(r, t, b, m)
  PROVE  tracker'.actual = t.actual /\ served' = served
BY NothingCharged DEF FailWith, EndFailed

LEMMA FallbackCharges ==
  ASSUME NEW r \in Requests, NEW k, NEW t \in TrackerType, NEW b, NEW m, NEW waiting,
         FallbackFrom(r, k, t, b, m, waiting)
  PROVE  tracker'.actual = t.actual /\ served' = served
<1>1. CASE FailWith(r, t, b, m \/ Affordable(r, k, t) # {})
  BY <1>1, EndFailedCharges
<1>2. CASE ~FailWith(r, t, b, m \/ Affordable(r, k, t) # {})
  <2>1. PICK j : tracker' = Reserve(t, <<r, j>>, CostOf(r, j)) /\ served' = served
    BY <1>2 DEF FallbackFrom
  <2>2. QED
    BY <2>1, NothingCharged
<1>3. QED
  BY <1>1, <1>2

(* The sum over the requests changes by the price of the one just served.  *)
LEMMA ServedAddsPrice ==
  ASSUME CoreTypeOK, NEW r \in Requests, served[r] = 0,
         \A s \in Requests : served[s] # 0 => served[s] \in Entries(s),
         NEW k \in Entries(r), served' = [served EXCEPT ![r] = k]
  PROVE  SumFunction([s \in Requests |-> ServedCost(s)])' =
           SumFunction([s \in Requests |-> ServedCost(s)]) + CostOf(r, k)
<1> DEFINE f == [s \in Requests |-> ServedCost(s)]
           g == [s \in Requests |-> IF served'[s] = 0 THEN 0 ELSE CostOf(s, served'[s])]
<1>1. f \in [Requests -> Nat] /\ f[r] = 0
  <2>1. \A s \in Requests : ServedCost(s) \in Nat
    BY EntryFacts DEF ServedCost
  <2>2. QED
    BY <2>1 DEF ServedCost
<1>2. CostOf(r, k) \in Nat /\ k # 0
  <2>1. k # 0
    BY PrimaryExists DEF Entries
  <2>2. QED
    BY <2>1, EntryFacts
<1>3. g = [f EXCEPT ![r] = CostOf(r, k)]
  <2>1. \A s \in Requests : g[s] = [f EXCEPT ![r] = CostOf(r, k)][s]
    BY <1>2 DEF ServedCost, CoreTypeOK
  <2>2. QED
    BY <2>1
<1>4. SumFunction(f) \in Nat
  BY <1>1, SumBounds, RouteAssumption
<1>5. f \in [Requests -> Int] /\ CostOf(r, k) \in Int
  BY <1>1, <1>2
<1>6. SumFunction([f EXCEPT ![r] = CostOf(r, k)]) = SumFunction(f) - f[r] + CostOf(r, k)
  <2> HIDE DEF f
  <2>1. QED
    BY <1>5, SumUpdate, RouteAssumption
<1>7. [s \in Requests |-> ServedCost(s)]' = g
  BY DEF ServedCost
<1>8. SumFunction(g) = SumFunction(f) + CostOf(r, k)
  <2> HIDE DEF f, g
  <2>1. QED
    BY <1>1, <1>2, <1>3, <1>4, <1>6
<1>9. SumFunction([s \in Requests |-> ServedCost(s)])' =
        SumFunction([s \in Requests |-> ServedCost(s)]')
  OBVIOUS
<1>10. QED
  BY <1>7, <1>8, <1>9

----------------------------------------------------------------------------
(* What a breaker hears.  "Quiet" is a change of the breakers in which none*)
(* counts a failure and none opens.                                        *)
Quiet(b, c) ==
  \A p \in Providers :
    c[p].failures <= b[p].failures /\ (c[p].state = "open" => b[p].state = "open")

TerminalFailuresOnly ==
  \A p \in Providers : HearsFailure(p) =>
    \E r \in Requests : /\ ProviderOf(r, 1) = p
                        /\ ~cancelled[r]
                        /\ terminal'[r] # terminal[r]
                        /\ terminal'[r] = <<"failed">>

LEMMA QuietSteps ==
  ASSUME NEW b \in [Providers -> BreakerType], NEW p \in Providers
  PROVE  /\ Quiet(b, b)
         /\ Quiet(b, [b EXCEPT ![p] = Admit(@)])
         /\ Quiet(b, [b EXCEPT ![p] = RecordSuccess(@)])
         /\ Quiet(b, [b EXCEPT ![p] = Cool(@)])
<1>1. \A q \in Providers : b[q] \in BreakerType /\ b[q].failures \in Nat
  BY BreakerFields
<1>2. ASSUME NEW c \in {Admit(b[p]), RecordSuccess(b[p]), Cool(b[p])}
      PROVE  Quiet(b, [b EXCEPT ![p] = c])
  <2>1. c.failures <= b[p].failures /\ (c.state = "open" => b[p].state = "open")
    BY <1>1, OthersDoNotFail
  <2>2. QED
    BY <1>1, <2>1 DEF Quiet
<1>3. Quiet(b, b)
  BY <1>1 DEF Quiet
<1>4. QED
  BY <1>2, <1>3

LEMMA QuietTransitive ==
  ASSUME NEW b \in [Providers -> BreakerType], NEW c \in [Providers -> BreakerType],
         NEW d \in [Providers -> BreakerType], Quiet(b, c), Quiet(c, d)
  PROVE  Quiet(b, d)
<1>1. \A p \in Providers : /\ b[p].failures \in Nat /\ c[p].failures \in Nat
                          /\ d[p].failures \in Nat
  BY BreakerFields
<1>2. QED
  BY <1>1 DEF Quiet

(* A quiet step has nothing to answer for.                                 *)
LEMMA QuietHears ==
  ASSUME breaker \in [Providers -> BreakerType], breaker' \in [Providers -> BreakerType],
         Quiet(breaker, breaker')
  PROVE  TerminalFailuresOnly
<1>1. \A p \in Providers : breaker[p].failures \in Nat /\ breaker'[p].failures \in Nat
  BY BreakerFields
<1>2. \A p \in Providers : ~HearsFailure(p)
  BY <1>1 DEF Quiet, HearsFailure
<1>3. QED
  BY <1>2 DEF TerminalFailuresOnly

(* A request that fails for good tells its primary's breaker, unless its   *)
(* caller cancelled, and emits request.failed in the same step.            *)
LEMMA FailWithHears ==
  ASSUME CoreTypeOK, OneTerminalOutcome, NEW r \in Requests, pc[r] # "done",
         NEW t, NEW b \in [Providers -> BreakerType], Quiet(breaker, b), NEW m,
         FailWith(r, t, b, m)
  PROVE  TerminalFailuresOnly
<1>1. terminal[r] = <<>>
  BY DEF OneTerminalOutcome
<1>2. terminal'[r] # terminal[r] /\ terminal'[r] = <<"failed">>
  BY <1>1 DEF FailWith, EndFailed, CoreTypeOK
<1>3. breaker' = RecordTerminalFailure(r, b, m)
  BY DEF FailWith, EndFailed
<1>4. \A p \in Providers : b[p].failures \in Nat /\ breaker[p].failures \in Nat
  BY BreakerFields DEF CoreTypeOK
<1>5. CASE cancelled[r] \/ m
  BY <1>3, <1>5, QuietHears DEF RecordTerminalFailure, CoreTypeOK
<1>6. CASE ~(cancelled[r] \/ m)
  <2>1. breaker' = [b EXCEPT ![ProviderOf(r, 1)] = RecordFailure(@)]
    BY <1>3, <1>6 DEF RecordTerminalFailure
  <2>2. \A p \in Providers : p # ProviderOf(r, 1) => breaker'[p] = b[p]
    BY <2>1
  <2>3. \A p \in Providers : p # ProviderOf(r, 1) => ~HearsFailure(p)
    BY <1>4, <2>2 DEF HearsFailure, Quiet
  <2>4. QED
    BY <1>2, <1>6, <2>3 DEF TerminalFailuresOnly
<1>7. QED
  BY <1>5, <1>6

(* The fallback loop is quiet, or it is such a failure.                    *)
LEMMA FallbackHears ==
  ASSUME CoreTypeOK, OneTerminalOutcome, NEW r \in Requests, pc[r] # "done",
         NEW k \in Nat \ {0}, NEW t, NEW b \in [Providers -> BreakerType], Quiet(breaker, b),
         NEW m, NEW waiting, FallbackFrom(r, k, t, b, m, waiting)
  PROVE  TerminalFailuresOnly
<1>1. CASE FailWith(r, t, b, m \/ Affordable(r, k, t) # {})
  BY <1>1, FailWithHears
<1>2. CASE ~FailWith(r, t, b, m \/ Affordable(r, k, t) # {})
  <2>1. PICK j \in Usable(r, k, t, b) : breaker' = [b EXCEPT ![ProviderOf(r, j)] = Admit(@)]
    BY <1>2 DEF FallbackFrom
  <2>2. j \in Entries(r)
    <3>1. j \in k..Len(Route[r])
      BY <2>1 DEF Usable, Affordable
    <3>2. QED
      BY <3>1, PrimaryExists DEF Entries
  <2>3. ProviderOf(r, j) \in Providers
    BY <2>2, EntryFacts
  <2>4. breaker' \in [Providers -> BreakerType] /\ Quiet(b, breaker')
    BY <2>1, <2>3, BreakersTyped, QuietSteps
  <2>5. QED
    BY <2>4, QuietTransitive, QuietHears DEF CoreTypeOK
<1>3. QED
  BY <1>1, <1>2

(* The executor's report of an answer is quiet.                            *)
LEMMA AnsweredQuiet ==
  ASSUME CoreTypeOK, NEW r \in Requests
  PROVE  Quiet(breaker, Answered(r))
<1>1. cand[r] \in Entries(r) /\ breaker \in [Providers -> BreakerType]
  BY PrimaryExists DEF CoreTypeOK, Entries
<1>2. QED
  BY <1>1, EntryFacts, QuietSteps DEF Answered
=============================================================================
