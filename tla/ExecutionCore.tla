--------------------------- MODULE ExecutionCore ---------------------------
(***************************************************************************)
(* What every logical request of src/core/execution shares, whichever      *)
(* pipeline runs it: its record of progress, the client's one budget       *)
(* tracker, the process-wide circuit breakers, its two abort signals, and  *)
(* the steps the pipelines have in common (preparation, the plugin hook,   *)
(* the reservation, one attempt, the terminal failure).                    *)
(*                                                                         *)
(* A request runs from one await to the next without interleaving, so an   *)
(* action covers exactly that stretch of code.  Between two awaits the     *)
(* other requests, the caller's cancellation and the deadline may step in. *)
(***************************************************************************)
EXTENDS BudgetOps, BreakerOps, Sequences, FiniteSetsExt

CONSTANTS
  Requests,
  Providers,
  Route,               \* Route[r][1] is the primary, the rest the router's fallbacks
  MaxRetries,
  RetryNetworkErrors,  \* retry.retryableNetworkErrors
  AllowFallback,
  MaxFallbackCost,
  EarlierBreakers      \* states in which earlier traffic may have left a breaker

Target == [provider : Providers, cost : Nat]

ASSUME RouteAssumption ==
  /\ IsFiniteSet(Requests)
  /\ Route \in [Requests -> Seq(Target) \ {<<>>}]
  /\ Ids = UNION {{r} \X (1..Len(Route[r])) : r \in Requests}

ASSUME PolicyAssumption ==
  /\ MaxRetries \in Nat
  /\ RetryNetworkErrors \in BOOLEAN
  /\ AllowFallback \in BOOLEAN
  /\ MaxFallbackCost \in Nat
  /\ EarlierBreakers \subseteq BreakerType

VARIABLES
  pc,         \* where the request waits
  attempt,    \* the pipeline's attempt counter
  cand,       \* the entry of Route being tried; 1 is the primary
  masked,     \* primaryError is a CircuitBreakerOpenError of a fallback
  cancelled,  \* callerSignal.aborted
  expired,    \* the scoped timeout fired: prepared.signal is aborted by it
  terminal,   \* the terminal events emitted, in order
  served,     \* the entry of Route whose answer was returned; 0 for none
  tracker,    \* the client's BudgetTracker
  breaker     \* the registry's breakers, by provider

reqVars == <<pc, attempt, cand, masked, terminal, served>>
sigVars == <<cancelled, expired>>
coreVars == <<reqVars, sigVars, tracker, breaker>>

(* What an adapter's error looks like to the retry policy: a TypeError or  *)
(* an AbortError; another Error that reads like a transport failure; an    *)
(* HTTP status among retryableStatuses; anything else.                     *)
ErrorKinds == {"network", "transport", "status", "fatal"}

CoreTypeOK ==
  /\ attempt \in [Requests -> Nat]
  /\ cand \in [Requests -> Nat \ {0}]
  /\ \A r \in Requests : cand[r] <= Len(Route[r])
  /\ masked \in [Requests -> BOOLEAN]
  /\ cancelled \in [Requests -> BOOLEAN]
  /\ expired \in [Requests -> BOOLEAN]
  /\ terminal \in [Requests -> Seq({"completed", "failed"})]
  /\ served \in [Requests -> Nat]
  /\ tracker \in TrackerType
  /\ breaker \in [Providers -> BreakerType]

CoreInit ==
  /\ pc = [r \in Requests |-> "new"]
  /\ attempt = [r \in Requests |-> 0]
  /\ cand = [r \in Requests |-> 1]
  /\ masked = [r \in Requests |-> FALSE]
  /\ cancelled = [r \in Requests |-> FALSE]
  /\ expired = [r \in Requests |-> FALSE]
  /\ terminal = [r \in Requests |-> <<>>]
  /\ served = [r \in Requests |-> 0]
  /\ tracker = EmptyTracker
  /\ breaker \in [Providers -> EarlierBreakers]

ProviderOf(r, k) == Route[r][k].provider
CostOf(r, k) == Route[r][k].cost

InFlight(r) == pc[r] \notin {"new", "done"}

(* prepared.signal: aborted with the caller's signal or by the deadline.   *)
SignalAborted(r) == cancelled[r] \/ expired[r]

----------------------------------------------------------------------------
(* The world around a request.                                             *)

(* The caller aborts its signal, before or during the request.             *)
Cancel(r) ==
  /\ pc[r] # "done"
  /\ ~cancelled[r]
  /\ cancelled' = [cancelled EXCEPT ![r] = TRUE]
  /\ UNCHANGED <<reqVars, expired, tracker, breaker>>

(* Mutant: the timer does not run while an adapter is being called.        *)
ExpireBetweenCalls(r) ==
  /\ InFlight(r)
  /\ pc[r] # "call"
  /\ ~SignalAborted(r)
  /\ expired' = [expired EXCEPT ![r] = TRUE]
  /\ UNCHANGED <<reqVars, cancelled, tracker, breaker>>

(* The scoped timeout fires.  It is armed by prepare(), disarmed when the  *)
(* caller aborts and when the pipeline disposes of it.                     *)
Expire(r) ==
  /\ InFlight(r)
  /\ ~SignalAborted(r)
  /\ expired' = [expired EXCEPT ![r] = TRUE]
  /\ UNCHANGED <<reqVars, cancelled, tracker, breaker>>

CoolDown(p) ==
  /\ breaker[p].state = "open"
  /\ ~breaker[p].cooled
  /\ breaker' = [breaker EXCEPT ![p] = Cool(@)]
  /\ UNCHANGED <<reqVars, sigVars, tracker>>

(* Every request is over: the only state in which nothing is left to do.   *)
AllDone ==
  /\ \A r \in Requests : pc[r] = "done"
  /\ UNCHANGED coreVars

----------------------------------------------------------------------------
(* prepare(): the breaker admits the request, or CircuitBreakerOpenError   *)
(* leaves the pipeline before its try block.                               *)
Prepare(r) ==
  LET p == ProviderOf(r, 1)
  IN  /\ pc[r] = "new"
      /\ IsAvailable(breaker[p])
      /\ breaker' = [breaker EXCEPT ![p] = Admit(@)]
      /\ pc' = [pc EXCEPT ![r] = "plugin"]
      /\ UNCHANGED <<attempt, cand, masked, terminal, served, sigVars, tracker>>

Refuse(r) ==
  /\ pc[r] = "new"
  /\ ~IsAvailable(breaker[ProviderOf(r, 1)])
  /\ pc' = [pc EXCEPT ![r] = "done"]
  /\ UNCHANGED <<attempt, cand, masked, terminal, served, sigVars, tracker, breaker>>

(* A plugin's onRequest hook throws, or the reservation is rejected: both  *)
(* leave through the finally block, with no terminal event.                *)
Reject(r) ==
  /\ pc[r] = "plugin"
  /\ pc' = [pc EXCEPT ![r] = "done"]
  /\ UNCHANGED <<attempt, cand, masked, terminal, served, sigVars, tracker, breaker>>

PluginThrows(r) == Reject(r)

BudgetRejects(r) == ~CanReserve(tracker, CostOf(r, 1)) /\ Reject(r)

----------------------------------------------------------------------------
(* shouldRetry() and shouldRetryNetworkError(): "networkKinds" are the     *)
(* errors this pipeline takes for network errors.                          *)
CanRetry(r, kind, networkKinds) ==
  /\ attempt[r] < MaxRetries
  /\ \/ kind = "status"
     \/ kind \in networkKinds /\ RetryNetworkErrors

(* The breakers after executeComplete() got an answer from the adapter:    *)
(* the success is recorded before the pipeline looks at the answer.        *)
Answered(r) == [breaker EXCEPT ![ProviderOf(r, cand[r])] = RecordSuccess(@)]

(* Mutant: request.failed is emitted before request.completed.             *)
CompleteWithTwoEvents(r, t) ==
  /\ tracker' = t
  /\ breaker' = Answered(r)
  /\ terminal' = [terminal EXCEPT ![r] = @ \o <<"failed", "completed">>]
  /\ served' = [served EXCEPT ![r] = cand[r]]
  /\ pc' = [pc EXCEPT ![r] = "done"]
  /\ UNCHANGED <<attempt, cand, masked, sigVars>>

(* The request is answered by the entry it was trying, settled in t.       *)
CompleteWith(r, t) ==
  /\ tracker' = t
  /\ breaker' = Answered(r)
  /\ terminal' = [terminal EXCEPT ![r] = Append(@, "completed")]
  /\ served' = [served EXCEPT ![r] = cand[r]]
  /\ pc' = [pc EXCEPT ![r] = "done"]
  /\ UNCHANGED <<attempt, cand, masked, sigVars>>

(* Mutant: a cancelled request counts against its provider.                *)
RecordTerminalFailureAlways(r, b, isMasked) ==
  IF isMasked THEN b ELSE [b EXCEPT ![ProviderOf(r, 1)] = RecordFailure(@)]

(* recordTerminalFailure(): what a request that fails for good does to its *)
(* primary's breaker.  It says nothing when the caller cancelled, and      *)
(* recordFailure() ignores a CircuitBreakerOpenError, which primaryError   *)
(* is once a fallback's circuit was found open.                            *)
RecordTerminalFailure(r, b, isMasked) ==
  IF cancelled[r] \/ isMasked THEN b
  ELSE [b EXCEPT ![ProviderOf(r, 1)] = RecordFailure(@)]

(* A failed request ends: release, request.failed, throw.  "t" and "b" are *)
(* the tracker and the breakers as the same stretch of code left them.     *)
EndFailed(r, t, b, isMasked) ==
  /\ tracker' = Release(t, <<r, 1>>)
  /\ breaker' = b
  /\ terminal' = [terminal EXCEPT ![r] = Append(@, "failed")]
  /\ masked' = [masked EXCEPT ![r] = isMasked]
  /\ pc' = [pc EXCEPT ![r] = "done"]
  /\ UNCHANGED <<attempt, cand, served, sigVars>>

(* The terminal failure, which the primary's breaker hears of first.       *)
FailWith(r, t, b, isMasked) ==
  EndFailed(r, t, RecordTerminalFailure(r, b, isMasked), isMasked)

(* The fallback candidates from entry k on that the budget and             *)
(* maxFallbackCost allow, and those among them whose circuit admits.       *)
Affordable(r, k, t) ==
  {j \in k..Len(Route[r]) : /\ CostOf(r, j) <= MaxFallbackCost
                            /\ CanReserve(t, CostOf(r, j))}
Usable(r, k, t, b) ==
  {j \in Affordable(r, k, t) : IsAvailable(b[ProviderOf(r, j)])}

(* The fallback loop up to its next await, from entry k on: candidates     *)
(* that are too dear are skipped, those whose circuit is open give their   *)
(* reservation back and leave their error behind, and the first usable one *)
(* is tried: "waiting" is where it then waits.  When none is left the      *)
(* request fails for good.                                                 *)
FallbackFrom(r, k, t, b, isMasked, waiting) ==
  LET usable == Usable(r, k, t, b)
      opened(j) == {i \in Affordable(r, k, t) : i < j}
  IN  \/ /\ usable = {}
         /\ FailWith(r, t, b, isMasked \/ Affordable(r, k, t) # {})
      \/ \E j \in usable :
           /\ \A i \in usable : j <= i
           /\ tracker' = Reserve(t, <<r, j>>, CostOf(r, j))
           /\ breaker' = [b EXCEPT ![ProviderOf(r, j)] = Admit(@)]
           /\ cand' = [cand EXCEPT ![r] = j]
           /\ masked' = [masked EXCEPT ![r] = isMasked \/ opened(j) # {}]
           /\ pc' = [pc EXCEPT ![r] = waiting]
           /\ UNCHANGED <<attempt, terminal, served, sigVars>>

(* calculateBackoff() and sleep(): the wait before the next attempt.       *)
BackOff(r) ==
  /\ pc' = [pc EXCEPT ![r] = "sleep"]
  /\ UNCHANGED <<attempt, cand, masked, terminal, served, sigVars, tracker, breaker>>

(* sleep() rejects when the caller aborts.                                 *)
SleepAborted(r) ==
  /\ pc[r] = "sleep"
  /\ cancelled[r]
  /\ FailWith(r, tracker, breaker, FALSE)

----------------------------------------------------------------------------
(* Properties of every pipeline.                                           *)

(* However requests interleave, what is charged and what is reserved stay  *)
(* within the session budget (when each settles no more than it reserved). *)
WithinBudget == Committed(tracker) <= SessionBudget

(* The session is charged exactly once for each request that was served,   *)
(* at the price of the entry that served it, and never for an attempt that *)
(* failed, was cancelled, or was repeated.                                 *)
ServedCost(r) == IF served[r] = 0 THEN 0 ELSE CostOf(r, served[r])

ChargedOnce == tracker.actual = SumFunction([r \in Requests |-> ServedCost(r)])

(* A request emits at most one terminal event over all its attempts, and   *)
(* request.completed exactly when its caller gets a result.                *)
OneTerminalOutcome ==
  \A r \in Requests :
    /\ Len(terminal[r]) <= 1
    /\ terminal[r] # <<>> => pc[r] = "done"
    /\ terminal[r] = <<"completed">> <=> served[r] # 0

(* A breaker hears of a failure only when a request whose primary it       *)
(* guards fails for good: never from an attempt that is retried, from a    *)
(* fallback candidate, or from a request its caller cancelled.             *)
HearsFailure(p) ==
  \/ breaker'[p].failures > breaker[p].failures
  \/ breaker'[p].state = "open" /\ breaker[p].state # "open"

FailuresAreTerminal ==
  [][\A p \in Providers : HearsFailure(p) =>
       \E r \in Requests : /\ ProviderOf(r, 1) = p
                           /\ ~cancelled[r]
                           /\ terminal'[r] # terminal[r]
                           /\ terminal'[r] = <<"failed">>]_coreVars

(* The adapter is called for request r in this step.                       *)
CallsAdapter(r) ==
  pc'[r] = "call" /\ <<pc[r], attempt[r], cand[r]>> # <<pc'[r], attempt'[r], cand'[r]>>

(* No attempt of any kind begins once the caller has cancelled.            *)
NoAttemptAfterCancel ==
  [][\A r \in Requests : cancelled[r] => ~CallsAdapter(r)]_coreVars

(* docs/architecture/execution.md:45: requestTimeoutMs is a deadline of    *)
(* the logical request, shared by its retry chain.  So no further retry is *)
(* scheduled once it has passed.                                           *)
NoRetryAfterDeadline ==
  [][\A r \in Requests : expired[r] /\ pc'[r] = "sleep" => pc[r] = "sleep"]_coreVars

(* README.md:199: half-open recovery.  Once no request is in flight, every *)
(* circuit still has a way to close: it is open, and its cooldown will     *)
(* pass, or it admits the next request.                                    *)
RecoveryPossible ==
  (\A r \in Requests : ~InFlight(r)) =>
    \A p \in Providers : breaker[p].state = "open" \/ IsAvailable(breaker[p])
============================================================================
