----------------------------- MODULE BreakerOps -----------------------------
(***************************************************************************)
(* The circuit breaker of src/reliability/circuit-breaker.ts as operators  *)
(* on a record.  Each operator is one synchronous method; time is the      *)
(* single question the code asks of the clock: "cooled" is TRUE once       *)
(* timeoutMs have passed since _lastFailureTime.                           *)
(*                                                                         *)
(* _failureCount grows without bound while the circuit is not closed, and  *)
(* only "has it reached failureThreshold" is ever asked of it, so the      *)
(* model's counter saturates there.  The statistics (_total..., times) are *)
(* reported and never read.                                                *)
(***************************************************************************)
EXTENDS Integers

CONSTANTS FailureThreshold, SuccessThreshold, HalfOpenMaxCalls

ASSUME BreakerAssumption ==
  /\ FailureThreshold \in Nat \ {0}
  /\ SuccessThreshold \in Nat \ {0}
  /\ HalfOpenMaxCalls \in Nat \ {0}

CircuitStates == {"closed", "open", "half_open"}

BreakerType ==
  [state : CircuitStates, failures : 0..FailureThreshold, successes : Nat,
   halfOpenCalls : Nat, cooled : BOOLEAN]

ClosedBreaker ==
  [state |-> "closed", failures |-> 0, successes |-> 0,
   halfOpenCalls |-> 0, cooled |-> FALSE]

(* Mutant: the Math.max(0, ...) around the half-open count is dropped.     *)
DecrementUnclamped(n) == n - 1

Decrement(n) == IF n = 0 THEN 0 ELSE n - 1  \* Math.max(0, n - 1)

----------------------------------------------------------------------------
(* Mutant: the failures that opened the circuit survive its closing.       *)
TransitionToKeepingFailures(b, s) ==
  [b EXCEPT !.state = s,
            !.successes = IF s = "open" THEN @ ELSE 0,
            !.halfOpenCalls = IF s = "open" THEN @ ELSE 0]

(* _transitionTo(): what entering each state forgets.                      *)
TransitionTo(b, s) ==
  [b EXCEPT !.state = s,
            !.failures = IF s = "closed" THEN 0 ELSE @,
            !.successes = IF s = "open" THEN @ ELSE 0,
            !.halfOpenCalls = IF s = "open" THEN @ ELSE 0]

(* Mutant: a half-open call is admitted without being counted.             *)
AdmitUncounted(b) == IF b.state = "open" THEN TransitionTo(b, "half_open") ELSE b

(* isAvailable(): the answer, and the breaker after the question.  The     *)
(* call that finds the circuit cooled opens the half-open period and is    *)
(* admitted without being counted among its calls.                         *)
IsAvailable(b) ==
  \/ b.state = "closed"
  \/ b.state = "open" /\ b.cooled
  \/ b.state = "half_open" /\ b.halfOpenCalls < HalfOpenMaxCalls

Admit(b) ==
  CASE b.state = "closed" -> b
    [] b.state = "open" -> TransitionTo(b, "half_open")
    [] b.state = "half_open" -> [b EXCEPT !.halfOpenCalls = @ + 1]

(* Mutant: a success closes the circuit whatever its state.                *)
RecordSuccessClosing(b) ==
  IF b.state = "half_open" /\ b.successes + 1 < SuccessThreshold
  THEN [b EXCEPT !.successes = @ + 1, !.halfOpenCalls = Decrement(@)]
  ELSE TransitionTo(b, "closed")

(* Mutant: a successful probe keeps its place among the half-open calls.   *)
RecordSuccessKeepingSlot(b) ==
  IF b.state = "half_open"
  THEN IF b.successes + 1 >= SuccessThreshold
       THEN TransitionTo(b, "closed") ELSE [b EXCEPT !.successes = @ + 1]
  ELSE [b EXCEPT !.failures = 0]

(* recordSuccess(): in half-open it gives a place back and may close the   *)
(* circuit; a late success finds an open circuit and only clears its       *)
(* failure count.                                                          *)
RecordSuccess(b) ==
  IF b.state = "half_open"
  THEN LET counted == [b EXCEPT !.successes = @ + 1,
                                !.halfOpenCalls = Decrement(@)]
       IN  IF counted.successes >= SuccessThreshold
           THEN TransitionTo(counted, "closed") ELSE counted
  ELSE [b EXCEPT !.failures = 0]

(* recordFailure(): callers do not pass it a CircuitBreakerOpenError,      *)
(* which the code ignores.                                                 *)
RecordFailure(b) ==
  LET failed == [b EXCEPT !.failures = IF @ < FailureThreshold THEN @ + 1 ELSE @,
                          !.cooled = FALSE]
  IN  IF b.state = "half_open"
      THEN TransitionTo([failed EXCEPT !.halfOpenCalls = Decrement(@)], "open")
      ELSE IF failed.failures = FailureThreshold
           THEN TransitionTo(failed, "open") ELSE failed

(* timeoutMs pass since the last recorded failure.                         *)
Cool(b) == [b EXCEPT !.cooled = TRUE]
============================================================================
