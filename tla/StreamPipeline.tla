-------------------------- MODULE StreamPipeline --------------------------
(***************************************************************************)
(* RequestPipeline.runStream() for several concurrent streams on one       *)
(* client.  The generator waits in pc "call" for the adapter's next chunk, *)
(* and in "yield" for its consumer, who may pull the next chunk, leave, or *)
(* simply never come back.  Nothing runs before the consumer's first pull. *)
(***************************************************************************)
EXTENDS ExecutionCore

CONSTANT UsageCosts  \* the costs that usage chunks report

ASSUME UsageAssumption == UsageCosts \subseteq Nat

VARIABLES
  seen,    \* the entries of Route whose chunks reached the consumer
  overrun  \* history: what usage chunks cost beyond their reservations

vars == <<coreVars, seen, overrun>>

TypeOK ==
  /\ CoreTypeOK
  /\ pc \in [Requests -> {"new", "plugin", "call", "yield", "sleep", "done"}]
  /\ seen \in [Requests -> SUBSET Nat]
  /\ overrun \in Nat

NetworkKinds == {"network", "transport"}

FirstChunkEmitted(r) == 1 \in seen[r]

(* What this attempt's reservation still holds: nothing once a usage chunk *)
(* has settled it (reservationActive).                                     *)
Reserved(r) == AtLeastZero(tracker.res[<<r, cand[r]>>])

----------------------------------------------------------------------------
ReserveAndStream(r) ==
  /\ pc[r] = "plugin"
  /\ CanReserve(tracker, CostOf(r, 1))
  /\ tracker' = Reserve(tracker, <<r, 1>>, CostOf(r, 1))
  /\ pc' = [pc EXCEPT ![r] = "call"]
  /\ UNCHANGED <<attempt, cand, masked, terminal, served, sigVars, breaker>>

SleepEnds(r) ==
  /\ pc[r] = "sleep"
  /\ ~cancelled[r]
  /\ attempt' = [attempt EXCEPT ![r] = @ + 1]
  /\ pc' = [pc EXCEPT ![r] = "call"]
  /\ UNCHANGED <<cand, masked, terminal, served, sigVars, tracker, breaker>>

(* executeStream() passes a chunk on unless the signal is aborted by then. *)
Deliver(r) ==
  /\ pc[r] = "call"
  /\ ~SignalAborted(r)
  /\ seen' = [seen EXCEPT ![r] = @ \cup {cand[r]}]
  /\ pc' = [pc EXCEPT ![r] = "yield"]
  /\ UNCHANGED <<attempt, cand, masked, terminal, served, sigVars, breaker>>

Chunk(r) == Deliver(r) /\ UNCHANGED <<tracker, overrun>>

(* The first usage chunk settles the reservation with its own cost, which  *)
(* may be more than was reserved.                                          *)
UsageChunk(r, cost) ==
  /\ Deliver(r)
  /\ tracker' = Settle(tracker, <<r, cand[r]>>, cost)
  /\ overrun' = IF <<r, cand[r]>> \in Active(tracker)
                THEN overrun + AtLeastZero(cost - Reserved(r)) ELSE overrun

(* The adapter's stream ends: settle the estimate if no usage chunk did.   *)
StreamEnds(r) ==
  /\ pc[r] = "call"
  /\ CompleteWith(r, Settle(tracker, <<r, cand[r]>>, CostOf(r, cand[r])))

----------------------------------------------------------------------------
(* The consumer.                                                           *)
Pull(r) ==
  /\ pc[r] = "yield"
  /\ pc' = [pc EXCEPT ![r] = "call"]
  /\ UNCHANGED <<attempt, cand, masked, terminal, served, sigVars, tracker, breaker>>

(* Mutant: leaving during a fallback releases the primary only.            *)
LeaveReleasingPrimary(r) ==
  /\ pc[r] = "yield"
  /\ tracker' = Release(tracker, <<r, 1>>)
  /\ pc' = [pc EXCEPT ![r] = "done"]
  /\ UNCHANGED <<attempt, cand, masked, terminal, served, sigVars, breaker>>

(* A break or return() runs the finally blocks, and nothing else: no       *)
(* terminal event, no word to the breaker.                                 *)
Leave(r) ==
  /\ pc[r] = "yield"
  /\ tracker' = Release(tracker, <<r, cand[r]>>)
  /\ pc' = [pc EXCEPT ![r] = "done"]
  /\ UNCHANGED <<attempt, cand, masked, terminal, served, sigVars, breaker>>

----------------------------------------------------------------------------
(* The primary's stream fails.  After a visible chunk or an abort that is  *)
(* the end; otherwise it may be retried or handed to a fallback.           *)
MustFail(r) == SignalAborted(r) \/ FirstChunkEmitted(r)

PrimaryFailsForGood(r) ==
  /\ pc[r] = "call"
  /\ cand[r] = 1
  /\ MustFail(r)
  /\ FailWith(r, tracker, breaker, FALSE)

(* Mutant: a visible chunk does not stop the retries.                      *)
PrimaryRetriesAnyway(r, kind) ==
  /\ pc[r] = "call"
  /\ cand[r] = 1
  /\ ~SignalAborted(r)
  /\ CanRetry(r, kind, NetworkKinds)
  /\ BackOff(r)

PrimaryRetries(r, kind) ==
  /\ pc[r] = "call"
  /\ cand[r] = 1
  /\ ~MustFail(r)
  /\ CanRetry(r, kind, NetworkKinds)
  /\ BackOff(r)

PrimaryFails(r, kind) ==
  /\ pc[r] = "call"
  /\ cand[r] = 1
  /\ ~MustFail(r)
  /\ ~CanRetry(r, kind, NetworkKinds)
  /\ IF AllowFallback
     THEN FallbackFrom(r, 2, Release(tracker, <<r, 1>>), breaker, FALSE, "call")
     ELSE FailWith(r, tracker, breaker, FALSE)

(* A fallback's stream fails, at once or after chunks: its error becomes   *)
(* primaryError, and unless the signal is aborted the next candidate is    *)
(* tried.                                                                  *)
FallbackFails(r) ==
  LET t == Release(tracker, <<r, cand[r]>>)
  IN  /\ pc[r] = "call"
      /\ cand[r] > 1
      /\ IF SignalAborted(r)
         THEN FailWith(r, t, breaker, FALSE)
         ELSE FallbackFrom(r, cand[r] + 1, t, breaker, FALSE, "call")

----------------------------------------------------------------------------
Failure(r) ==
  \/ PrimaryFailsForGood(r)
  \/ \E kind \in ErrorKinds : PrimaryRetries(r, kind) \/ PrimaryFails(r, kind)
  \/ FallbackFails(r)

Hooks(r) == PluginThrows(r) \/ BudgetRejects(r) \/ ReserveAndStream(r)

Sleeping(r) == SleepEnds(r) \/ SleepAborted(r)

(* Every step that neither delivers a chunk nor settles one.               *)
Other(r) ==
  /\ \/ Prepare(r) \/ Refuse(r) \/ Hooks(r) \/ StreamEnds(r) \/ Failure(r)
     \/ Sleeping(r) \/ Pull(r) \/ Leave(r) \/ Cancel(r) \/ Expire(r)
  /\ UNCHANGED <<seen, overrun>>

Next ==
  \/ \E r \in Requests :
       Chunk(r) \/ (\E cost \in UsageCosts : UsageChunk(r, cost)) \/ Other(r)
  \/ (\E p \in Providers : CoolDown(p)) /\ UNCHANGED <<seen, overrun>>
  \/ AllDone /\ UNCHANGED <<seen, overrun>>

Init ==
  /\ CoreInit
  /\ seen = [r \in Requests |-> {}]
  /\ overrun = 0

Spec == Init /\ [][Next]_vars

(* Timers fire, hooks return, and an adapter whose signal is aborted stops.*)
(* Nothing obliges the consumer to come back.                              *)
Fairness ==
  \A r \in Requests :
    /\ WF_vars(Expire(r) /\ UNCHANGED <<seen, overrun>>)
    /\ WF_vars(Sleeping(r) /\ UNCHANGED <<seen, overrun>>)
    /\ WF_vars(Hooks(r) /\ UNCHANGED <<seen, overrun>>)
    /\ WF_vars(SignalAborted(r) /\ (StreamEnds(r) \/ Failure(r))
                 /\ UNCHANGED <<seen, overrun>>)

FairSpec == Spec /\ Fairness

----------------------------------------------------------------------------
(* A reservation is held only for the entry being streamed (or waiting out *)
(* its backoff), whether the stream ended, failed or was left by its       *)
(* consumer at any chunk.                                                  *)
ReservationLifecycle ==
  \A r \in Requests : \A k \in 1..Len(Route[r]) :
    <<r, k>> \in Active(tracker) =>
      cand[r] = k /\ (pc[r] \in {"call", "yield"} \/ (pc[r] = "sleep" /\ k = 1))

(* Concurrent streams overcommit the session budget by no more than what   *)
(* their usage chunks cost beyond the estimates.                           *)
CommittedWithinOverrun == Committed(tracker) <= SessionBudget + overrun

(* docs/architecture/execution.md:74: once a chunk of the primary is       *)
(* visible, or the caller has cancelled, no retry and no fallback begins;  *)
(* and no fallback begins after the deadline.                              *)
NoFurtherAttempt ==
  [][\A r \in Requests :
       /\ cancelled[r] \/ FirstChunkEmitted(r) =>
            attempt'[r] = attempt[r] /\ cand'[r] = cand[r]
       /\ expired[r] => cand'[r] = cand[r]]_vars

(* A consumer that pulls gets an answer: a chunk, the end, or an error.    *)
PullsAreAnswered == \A r \in Requests : pc[r] = "call" ~> pc[r] \in {"yield", "done"}

(* README.md:291: visible stream output cannot be duplicated by a later    *)
(* fallback.  So all that a consumer ever sees comes from one entry.       *)
NoMixedOutput == \A r \in Requests : Cardinality(seen[r]) <= 1
============================================================================
