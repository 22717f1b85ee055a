------------------------ MODULE MCCompletePipeline ------------------------
(***************************************************************************)
(* Two requests that cross: each one's primary is the other's fallback, so *)
(* they meet at both breakers and at the budget, which is too small for    *)
(* both to reserve their dearest entry.  r1 asks for structured output and *)
(* has a second candidate on its own provider.                             *)
(***************************************************************************)
EXTENDS CompletePipeline, TLC

CONSTANTS r1, r2, openai, groq

To(provider, cost) == [provider |-> provider, cost |-> cost]

MCRoute ==
  r1 :> <<To(openai, 2), To(groq, 1), To(openai, 0)>> @@
  r2 :> <<To(groq, 2), To(openai, 3)>>

MCIds == UNION {{r} \X (1..Len(MCRoute[r])) : r \in Requests}

(* Earlier traffic left a circuit closed, or open (CoolDown may follow).   *)
OpenBreaker == [ClosedBreaker EXCEPT !.state = "open", !.failures = FailureThreshold]
MCEarlierBreakers == {ClosedBreaker, OpenBreaker}
============================================================================
