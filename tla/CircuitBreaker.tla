--------------------------- MODULE CircuitBreaker ---------------------------
(***************************************************************************)
(* One circuit breaker shared by concurrent callers, as the registry of    *)
(* src/reliability/circuit-breaker.ts shares it between every request to a *)
(* provider: a call is admitted at one time and its outcome reported at    *)
(* another, possibly in a different period of the circuit, or never.       *)
(***************************************************************************)
EXTENDS BreakerOps, FiniteSets

CONSTANT Callers

ASSUME CallersAssumption == IsFiniteSet(Callers)

VARIABLES
  breaker,
  call,    \* each caller's call: "idle", "early" or "probe"
  strays,  \* history: early calls counted as successes of this half-open period
  leaked,  \* history: a probe was never reported
  resets   \* history: flips with every manual reset

(* A call is a "probe" while the half-open period that admitted it lasts   *)
(* and "early" in any later period.                                        *)
breakerVars == <<breaker, call, strays, leaked, resets>>

BreakerTypeOK ==
  /\ breaker \in BreakerType
  /\ call \in [Callers -> {"idle", "early", "probe"}]
  /\ strays \in Nat
  /\ leaked \in BOOLEAN
  /\ resets \in BOOLEAN

BreakerInit ==
  /\ breaker = ClosedBreaker
  /\ call = [c \in Callers |-> "idle"]
  /\ strays = 0
  /\ leaked = FALSE
  /\ resets = FALSE

Probes == {c \in Callers : call[c] = "probe"}

(* The breaker becomes b and caller c's call becomes s; when that changes  *)
(* the state of the circuit, the calls in flight are no longer probes.     *)
Become(b, c, s) ==
  /\ breaker' = b
  /\ call' = [d \in Callers |->
       IF d = c THEN s
       ELSE IF b.state # breaker.state /\ call[d] = "probe" THEN "early"
       ELSE call[d]]

----------------------------------------------------------------------------
(* prepare() asks isAvailable(); a refused call is a stuttering step.      *)
Start(c) ==
  /\ call[c] = "idle"
  /\ IsAvailable(breaker)
  /\ LET admitted == Admit(breaker)
         kind == IF admitted.state = "half_open" THEN "probe" ELSE "early"
     IN  /\ Become(admitted, c, kind)
         /\ strays' = IF admitted.state = breaker.state THEN strays ELSE 0
  /\ UNCHANGED <<leaked, resets>>

Succeed(c) ==
  LET b == RecordSuccess(breaker)
  IN  /\ call[c] # "idle"
      /\ Become(b, c, "idle")
      /\ strays' = IF b.state # "half_open" THEN 0
                   ELSE IF call[c] = "early" THEN strays + 1 ELSE strays
      /\ UNCHANGED <<leaked, resets>>

Fail(c) ==
  /\ call[c] # "idle"
  /\ Become(RecordFailure(breaker), c, "idle")
  /\ strays' = 0
  /\ UNCHANGED <<leaked, resets>>

(* The request ends without a word to the breaker: it was cancelled, its   *)
(* budget was refused, a plugin threw, or a fallback served it.            *)
Abandon(c) ==
  /\ call[c] # "idle"
  /\ call' = [call EXCEPT ![c] = "idle"]
  /\ leaked' = (leaked \/ call[c] = "probe")
  /\ UNCHANGED <<breaker, strays, resets>>

CoolDown ==
  /\ breaker.state = "open"
  /\ breaker' = Cool(breaker)
  /\ UNCHANGED <<call, strays, leaked, resets>>

(* CircuitBreakerRegistry.resetAll(), an operator's manual intervention.   *)
ResetAll ==
  LET b == TransitionTo(breaker, "closed")
  IN  /\ breaker' = b
      /\ call' = [c \in Callers |-> IF call[c] = "probe" THEN "early" ELSE call[c]]
      /\ strays' = 0
      /\ resets' = ~resets
      /\ UNCHANGED leaked

BreakerNext ==
  \/ \E c \in Callers : Start(c) \/ Succeed(c) \/ Fail(c) \/ Abandon(c)
  \/ CoolDown
  \/ ResetAll

BreakerSpec == BreakerInit /\ [][BreakerNext]_breakerVars

(* Traffic keeps coming, a request ends (its deadline sees to that), and   *)
(* the clock runs.                                                         *)
FairBreakerSpec ==
  /\ BreakerSpec
  /\ WF_breakerVars(CoolDown)
  /\ \A c \in Callers : WF_breakerVars(Start(c)) /\ WF_breakerVars(Succeed(c) \/ Fail(c) \/ Abandon(c))

----------------------------------------------------------------------------
(* The circuit never sits past a threshold it should have acted on, and    *)
(* what an earlier period counted never reaches the next one: _transitionTo*)
(* forgets the right counters on every path, late answers included.        *)
CountersInRange ==
  /\ breaker.halfOpenCalls <= HalfOpenMaxCalls
  /\ breaker.state = "closed" =>
       /\ breaker.failures < FailureThreshold
       /\ breaker.successes = 0
       /\ breaker.halfOpenCalls = 0
  /\ breaker.state = "half_open" => breaker.successes < SuccessThreshold

(* The calls really in flight to a recovering provider are bounded by what *)
(* _halfOpenCalls says, plus the one probe isAvailable() does not count,   *)
(* plus one for every answer of an earlier period that gave back a place   *)
(* it never took.                                                          *)
ProbesAccounted ==
  breaker.state = "half_open" =>
    Cardinality(Probes) <= breaker.halfOpenCalls + 1 + strays

(* src/types/policy.ts:68 on halfOpenMaxCalls: "Max calls in half-open     *)
(* state".                                                                 *)
HalfOpenWithinMax ==
  breaker.state = "half_open" => Cardinality(Probes) <= HalfOpenMaxCalls

Contract == INSTANCE CircuitContract
              WITH state <- breaker.state, cooled <- breaker.cooled

(* However late the answers, the counters implement the contract: an open  *)
(* circuit closes only through a cooldown and a half-open period, or by    *)
(* hand.                                                                   *)
ImplementsContract == Contract!CSpec

(* While every probe is reported, the circuit gets stuck neither open nor  *)
(* half-open: it is always decided again.                                  *)
KeepsDeciding ==
  [](~leaked) => /\ (breaker.state = "open") ~> (breaker.state # "open")
                 /\ (breaker.state = "half_open") ~> (breaker.state # "half_open")
============================================================================
