------------------------- MODULE MCStreamPipeline -------------------------
(***************************************************************************)
(* Two streams that meet at the budget and at one provider.  r1 has two    *)
(* fallbacks, so that a second one can follow a first that broke off; a    *)
(* usage chunk costs less than r1's first estimate and more than the rest. *)
(***************************************************************************)
EXTENDS StreamPipeline, TLC

CONSTANTS r1, r2, openai, groq

To(provider, cost) == [provider |-> provider, cost |-> cost]

MCRoute == r1 :> <<To(openai, 3), To(groq, 1), To(openai, 0)>> @@ r2 :> <<To(openai, 1)>>

MCIds == UNION {{r} \X (1..Len(MCRoute[r])) : r \in Requests}

(* Earlier traffic left a circuit closed, or open (CoolDown may follow).   *)
OpenBreaker == [ClosedBreaker EXCEPT !.state = "open", !.failures = FailureThreshold]
MCEarlierBreakers == {ClosedBreaker, OpenBreaker}
============================================================================
