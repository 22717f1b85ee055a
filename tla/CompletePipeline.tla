------------------------- MODULE CompletePipeline -------------------------
(***************************************************************************)
(* RequestPipeline.runComplete() and, for the requests in Structured,      *)
(* runStructuredComplete(), for several concurrent requests on one client. *)
(* A request waits in pc "plugin" for the onRequest hooks, in "call" for   *)
(* the adapter of Route[r][cand[r]], in "skip" for the executor to answer  *)
(* without calling the adapter, and in "sleep" for its backoff.  The two   *)
(* differ in what they do with an answer, which a structured request       *)
(* validates, and in what they take for a network error.                   *)
(***************************************************************************)
EXTENDS ExecutionCore

CONSTANTS
  Structured,        \* the requests with an output schema
  MaxRepairAttempts  \* output.maxRepairAttempts

ASSUME StructuredAssumption ==
  Structured \subseteq Requests /\ MaxRepairAttempts \in Nat

TypeOK ==
  /\ CoreTypeOK
  /\ pc \in [Requests -> {"new", "plugin", "call", "skip", "sleep", "done"}]

(* runStructuredComplete() does not ask isNetworkFailure().                *)
NetworkKinds(r) == IF r \in Structured THEN {"network"} ELSE {"network", "transport"}

(* executeComplete() asks first whether its caller's signal is aborted: the*)
(* user's for the primary, prepared.signal for a fallback.                 *)
PrimaryWait(r) == IF cancelled[r] THEN "skip" ELSE "call"
FallbackWait(r) == IF SignalAborted(r) THEN "skip" ELSE "call"

----------------------------------------------------------------------------
ReserveAndCall(r) ==
  /\ pc[r] = "plugin"
  /\ CanReserve(tracker, CostOf(r, 1))
  /\ tracker' = Reserve(tracker, <<r, 1>>, CostOf(r, 1))
  /\ pc' = [pc EXCEPT ![r] = PrimaryWait(r)]
  /\ UNCHANGED <<attempt, cand, masked, terminal, served, sigVars, breaker>>

(* Mutant: the backoff does not listen to the caller's signal.             *)
SleepEndsRegardless(r) ==
  /\ pc[r] = "sleep"
  /\ attempt' = [attempt EXCEPT ![r] = @ + 1]
  /\ pc' = [pc EXCEPT ![r] = "call"]
  /\ UNCHANGED <<cand, masked, terminal, served, sigVars, tracker, breaker>>

SleepEnds(r) ==
  /\ pc[r] = "sleep"
  /\ ~cancelled[r]
  /\ attempt' = [attempt EXCEPT ![r] = @ + 1]
  /\ pc' = [pc EXCEPT ![r] = "call"]
  /\ UNCHANGED <<cand, masked, terminal, served, sigVars, tracker, breaker>>

(* Mutant: an answer of a fallback settles the primary's reservation.      *)
AnswersSettlingPrimary(r) ==
  /\ pc[r] = "call"
  /\ CompleteWith(r, Settle(tracker, <<r, 1>>, CostOf(r, cand[r])))

(* The adapter answers; the primary and a fallback settle their own        *)
(* reservation with the estimate it was made with.                         *)
Answers(r) ==
  /\ pc[r] = "call"
  /\ CompleteWith(r, Settle(tracker, <<r, cand[r]>>, CostOf(r, cand[r])))

(* An attempt of the primary failed.                                       *)
PrimaryFailsCancelled(r) ==
  /\ pc[r] \in {"call", "skip"}
  /\ cand[r] = 1
  /\ cancelled[r]
  /\ FailWith(r, tracker, breaker, FALSE)

PrimaryRetries(r, kind) ==
  /\ pc[r] = "call"
  /\ cand[r] = 1
  /\ ~cancelled[r]
  /\ CanRetry(r, kind, NetworkKinds(r))
  /\ BackOff(r)

PrimaryFails(r, kind) ==
  /\ pc[r] = "call"
  /\ cand[r] = 1
  /\ ~cancelled[r]
  /\ ~CanRetry(r, kind, NetworkKinds(r))
  /\ IF AllowFallback
     THEN FallbackFrom(r, 2, Release(tracker, <<r, 1>>), breaker, FALSE, FallbackWait(r))
     ELSE FailWith(r, tracker, breaker, FALSE)

(* Mutant: the finally block of the fallback loop does not release.        *)
FallbackFailsKeepingReservation(r) ==
  /\ pc[r] \in {"call", "skip"}
  /\ cand[r] > 1
  /\ IF cancelled[r]
     THEN FailWith(r, tracker, breaker, FALSE)
     ELSE FallbackFrom(r, cand[r] + 1, tracker, breaker, masked[r], FallbackWait(r))

(* Mutant: a failed candidate is not remembered and is tried again.        *)
FallbackFailsAgain(r) ==
  LET t == Release(tracker, <<r, cand[r]>>)
  IN  /\ pc[r] \in {"call", "skip"}
      /\ cand[r] > 1
      /\ IF cancelled[r]
         THEN FailWith(r, t, breaker, FALSE)
         ELSE FallbackFrom(r, cand[r], t, breaker, masked[r], FallbackWait(r))

(* An attempt of a fallback failed, or was never made.                     *)
FallbackFails(r) ==
  LET t == Release(tracker, <<r, cand[r]>>)
  IN  /\ pc[r] \in {"call", "skip"}
      /\ cand[r] > 1
      /\ IF cancelled[r]
         THEN FailWith(r, t, breaker, FALSE)
         ELSE FallbackFrom(r, cand[r] + 1, t, breaker, masked[r], FallbackWait(r))

----------------------------------------------------------------------------
(* An answer that does not validate.  The primary is asked to repair it,   *)
(* at once; repairs and retries share the attempt counter.                 *)
InvalidRepaired(r) ==
  /\ pc[r] = "call"
  /\ r \in Structured
  /\ cand[r] = 1
  /\ attempt[r] < MaxRepairAttempts
  /\ breaker' = Answered(r)
  /\ attempt' = [attempt EXCEPT ![r] = @ + 1]
  /\ pc' = [pc EXCEPT ![r] = PrimaryWait(r)]
  /\ UNCHANGED <<cand, masked, terminal, served, sigVars, tracker>>

(* ValidationError: the request fails, its breaker hears of successes only.*)
InvalidForGood(r) ==
  /\ pc[r] = "call"
  /\ r \in Structured
  /\ cand[r] = 1
  /\ attempt[r] >= MaxRepairAttempts
  /\ EndFailed(r, tracker, Answered(r), FALSE)

(* A fallback's answer is not repaired.  One that is not JSON ends the     *)
(* request with its error; one that does not fit the schema lets the next  *)
(* candidate try (and a validator that throws replaces primaryError).      *)
FallbackNotJson(r) ==
  /\ pc[r] = "call"
  /\ r \in Structured
  /\ cand[r] > 1
  /\ FailWith(r, Release(tracker, <<r, cand[r]>>), Answered(r), FALSE)

FallbackInvalid(r, isMasked) ==
  LET t == Release(tracker, <<r, cand[r]>>)
  IN  /\ pc[r] = "call"
      /\ r \in Structured
      /\ cand[r] > 1
      /\ IF cancelled[r]
         THEN FailWith(r, t, Answered(r), isMasked)
         ELSE FallbackFrom(r, cand[r] + 1, t, Answered(r), isMasked, FallbackWait(r))

----------------------------------------------------------------------------
Invalid(r) ==
  \/ InvalidRepaired(r)
  \/ InvalidForGood(r)
  \/ FallbackNotJson(r)
  \/ \E isMasked \in {masked[r], FALSE} : FallbackInvalid(r, isMasked)

Attempt(r) ==
  \/ Answers(r)
  \/ Invalid(r)
  \/ PrimaryFailsCancelled(r)
  \/ \E kind \in ErrorKinds : PrimaryRetries(r, kind) \/ PrimaryFails(r, kind)
  \/ FallbackFails(r)

Hooks(r) == PluginThrows(r) \/ BudgetRejects(r) \/ ReserveAndCall(r)

Sleeping(r) == SleepEnds(r) \/ SleepAborted(r)

Next ==
  \/ \E r \in Requests :
       Prepare(r) \/ Refuse(r) \/ Hooks(r) \/ Attempt(r) \/ Sleeping(r)
         \/ Cancel(r) \/ Expire(r)
  \/ \E p \in Providers : CoolDown(p)
  \/ AllDone

Init == CoreInit

Spec == Init /\ [][Next]_coreVars

(* The deadline's timer and the backoff's timer fire, the hooks return,    *)
(* and an adapter whose signal is aborted answers.  Nothing says that an   *)
(* adapter answers otherwise.                                              *)
Fairness ==
  \A r \in Requests :
    /\ WF_coreVars(Expire(r))
    /\ WF_coreVars(Sleeping(r))
    /\ WF_coreVars(Hooks(r))
    /\ WF_coreVars((SignalAborted(r) \/ pc[r] = "skip") /\ Attempt(r))

FairSpec == Spec /\ Fairness

----------------------------------------------------------------------------
(* A request holds a reservation exactly while it needs one: the primary's *)
(* through its whole retry chain, a candidate's while it is tried, never   *)
(* two, and none once it is done, whichever way it ended.                  *)
HoldsReservation(r, k) ==
  \/ pc[r] \in {"call", "skip"} /\ cand[r] = k
  \/ pc[r] = "sleep" /\ k = 1

ReservationLifecycle ==
  \A r \in Requests : \A k \in 1..Len(Route[r]) :
    <<r, k>> \in Active(tracker) <=> HoldsReservation(r, k)

(* Every request that starts ends: retries, fallbacks and backoffs are     *)
(* finite, and the deadline wakes an adapter that does not answer.         *)
Terminates == \A r \in Requests : pc[r] = "plugin" ~> pc[r] = "done"
============================================================================
