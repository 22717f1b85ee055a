-------------------------- MODULE CircuitContract --------------------------
(***************************************************************************)
(* What a circuit breaker promises its callers, without counters: it may   *)
(* open on failures, it stays open until a cooldown has passed, it then    *)
(* lets probes through, and only a half-open circuit closes again.  A      *)
(* manual reset closes it from anywhere.                                   *)
(***************************************************************************)
VARIABLES
  state,
  cooled,
  resets  \* flips with every manual reset, so that nothing else passes for one

cvars == <<state, cooled, resets>>

CInit == state = "closed" /\ cooled = FALSE /\ resets = FALSE

Trip == state # "open" /\ state' = "open" /\ cooled' = FALSE /\ UNCHANGED resets

(* A failure that does not change the state restarts the cooldown.         *)
FailAgain == state # "half_open" /\ cooled' = FALSE /\ UNCHANGED <<state, resets>>

CooldownPasses == state = "open" /\ cooled' = TRUE /\ UNCHANGED <<state, resets>>

Probe == state = "open" /\ cooled /\ state' = "half_open" /\ UNCHANGED <<cooled, resets>>

Recover == state = "half_open" /\ state' = "closed" /\ UNCHANGED <<cooled, resets>>

ManualReset == state' = "closed" /\ resets' = ~resets /\ UNCHANGED cooled

CNext == Trip \/ FailAgain \/ CooldownPasses \/ Probe \/ Recover \/ ManualReset

CSpec == CInit /\ [][CNext]_cvars
============================================================================
