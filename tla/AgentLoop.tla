----------------------------- MODULE AgentLoop -----------------------------
(***************************************************************************)
(* The loops that let a model run tools: the three agents of               *)
(* src/features/agent and streamText() of the client.  A model call and a  *)
(* tool are awaited, an approval may be; the caller's abort arrives at any *)
(* of these points.  One iteration of a loop is a step of its own, which   *)
(* is finer than the code: an abort between two iterations has the effect  *)
(* of one just before the first.                                           *)
(***************************************************************************)
EXTENDS Naturals, Sequences, FiniteSets

CONSTANTS
  Tools,       \* names a model may ask for
  Offered,     \* the tools the caller passed
  MaxSteps,
  Budgets,     \* sets of at most one amount: {} is no budget
  MaxCalls,    \* bound: calls in one answer
  MaxCost,     \* bound: cost of one answer
  ToolInputs   \* policy inputs to try: a client's and a narrower one

ASSUME AgentAssumption ==
  /\ Offered \subseteq Tools
  /\ MaxSteps \in Nat
  /\ MaxCalls \in Nat
  /\ MaxCost \in Nat
  /\ \A b \in Budgets : b \subseteq Nat
  /\ \A p \in ToolInputs : p.allow \subseteq SUBSET Tools /\ p.deny \subseteq Tools

----------------------------------------------------------------------------
(* The tool policy: allow is a set of at most one list, {} for undefined.  *)

(* An empty allowedTools in an input restricts nothing.                    *)
ToolPolicy(input) == [input EXCEPT !.allow = @ \ {{}}]

Permits(p, t) == t \notin p.deny /\ \A list \in p.allow : t \in list

(* narrow(): the lists intersect, and an empty intersection stays a list.  *)
Narrow(p, q) ==
  [allow |-> IF p.allow = {} THEN q.allow
             ELSE IF q.allow = {} THEN p.allow
             ELSE {a \cap b : a \in p.allow, b \in q.allow},
   deny |-> p.deny \cup q.deny]

(* checkAll() over the offered tools, before streamText() calls a model.   *)
AllPermitted(p) == \A t \in Offered : Permits(p, t)

----------------------------------------------------------------------------
(* The decisions in which the loops differ.                                *)
(*   checks    the abort signal is read at each iteration                  *)
(*   budgeted  a step starts only below the budget                         *)
(*   policed   "each": a call is checked; "offer": the offer is; or "no"   *)
(*   approves  the loop asks onApproval when there is one                  *)
(*   plans     one answer is the whole plan, and a summary follows it      *)
(*   streams   calls run while the answer still arrives                    *)
ToolLoop ==
  [checks |-> TRUE, budgeted |-> TRUE, policed |-> "each", approves |-> TRUE,
   plans |-> FALSE, streams |-> FALSE]
ReAct == [ToolLoop EXCEPT !.policed = "no"]
PlanAndExecute == [ToolLoop EXCEPT !.policed = "no", !.plans = TRUE]
StreamText ==
  [ToolLoop EXCEPT !.checks = FALSE, !.budgeted = FALSE, !.policed = "offer",
                   !.approves = FALSE, !.streams = TRUE]

Agents == {ToolLoop, ReAct, PlanAndExecute, StreamText}

VARIABLES
  agent,        \* the loop of this behaviour
  limits,       \* the two policy inputs its policy was made from
  budget,
  handler,      \* onApproval is set
  aphase,       \* where the loop waits
  step,         \* stepNum, or the index into the plan
  calls,        \* the calls of the answer still to be looked at
  spent,        \* totalCost
  aborted,      \* signal.aborted
  interrupted,
  log           \* history: what ran and when

agentVars == <<agent, limits, budget, handler, aphase, step, calls,
               spent, aborted, interrupted, log>>

agentConfig == <<agent, limits, budget, handler>>

ToolSet == ToolPolicy(limits.base)
Policy == Narrow(ToolSet, ToolPolicy(limits.narrower))

NoLog ==
  [ran |-> {}, rejected |-> FALSE, ranRejected |-> FALSE, ranAborted |-> 0,
   askedAborted |-> 0, askedBroke |-> 0]

AgentTypeOK ==
  /\ agent \in Agents
  /\ limits \in [base : ToolInputs, narrower : ToolInputs]
  /\ budget \in Budgets
  /\ handler \in BOOLEAN
  /\ aphase \in {"top", "model", "calls", "approval", "tool", "summary", "closing", "done",
                "threw"}
  /\ step \in Nat
  /\ calls \in Seq(Tools)
  /\ spent \in Nat
  /\ aborted \in BOOLEAN
  /\ interrupted \in BOOLEAN

(* Only the loop that checks calls and streamText() see a policy.          *)
AgentInit ==
  /\ agent \in Agents
  /\ limits \in [base : ToolInputs, narrower : ToolInputs]
  /\ agent.policed = "no" => limits.base = limits.narrower /\ Permits(ToolSet, "any")
  /\ budget \in Budgets
  /\ handler \in (IF agent.approves THEN BOOLEAN ELSE {FALSE})
  /\ aphase = (IF agent.policed = "offer" /\ ~AllPermitted(Policy) THEN "threw" ELSE "top")
  /\ step = 0
  /\ calls = <<>>
  /\ spent = 0
  /\ aborted \in BOOLEAN
  /\ interrupted = FALSE
  /\ log = NoLog

Broke == \E b \in budget : spent >= b

----------------------------------------------------------------------------
(* The top of the loop.  The planner's first answer is asked for at once,  *)
(* and its loop ends in a summary.                                         *)

LeaveLoop == IF agent.plans THEN "summary" ELSE "done"

(* A call of the model; the history counts those nobody should want.       *)
Ask(phase) ==
  /\ aphase' = phase
  /\ log' = [log EXCEPT !.askedAborted = IF aborted THEN @ + 1 ELSE @,
                        !.askedBroke = IF agent.budgeted /\ Broke THEN @ + 1 ELSE @]

StopHere == agent.checks /\ aborted

(* Mutant: an exhausted budget ends the loop only when an answer is final. *)
StartStepUnbudgeted ==
  /\ aphase = "top"
  /\ ~agent.plans
  /\ step < MaxSteps
  /\ ~StopHere
  /\ Ask("model")
  /\ UNCHANGED <<agentConfig, step, calls, spent, aborted, interrupted>>

StartStep ==
  /\ aphase = "top"
  /\ ~agent.plans
  /\ step < MaxSteps
  /\ ~StopHere
  /\ ~(agent.budgeted /\ Broke)
  /\ Ask("model")
  /\ UNCHANGED <<agentConfig, step, calls, spent, aborted, interrupted>>

StopAtTop ==
  /\ aphase = "top"
  /\ ~agent.plans
  /\ step = MaxSteps \/ StopHere \/ (agent.budgeted /\ Broke)
  /\ aphase' = "done"
  /\ interrupted' = (step < MaxSteps /\ StopHere)
  /\ UNCHANGED <<agentConfig, step, calls, spent, aborted, log>>

(* Phase 1 of the planner looks at neither the signal nor the budget.      *)
AskForPlan ==
  /\ aphase = "top"
  /\ agent.plans
  /\ Ask("model")
  /\ UNCHANGED <<agentConfig, step, calls, spent, aborted, interrupted>>

(* The answer: nothing to call, or the ReAct loop's "Final Answer:", is    *)
(* the end; the planner goes on to its loop whatever the plan holds.       *)
Answer(cost, asks) ==
  /\ aphase = "model"
  /\ spent' = spent + cost
  /\ calls' = asks
  /\ aphase' = IF asks = <<>> /\ ~agent.plans THEN "done" ELSE "calls"
  /\ UNCHANGED <<agentConfig, step, aborted, interrupted, log>>

(* The model call throws, or a plan does not parse: run() rethrows.        *)
ModelFails ==
  /\ aphase = "model"
  /\ aphase' = "threw"
  /\ UNCHANGED <<agentConfig, step, calls, spent, aborted, interrupted, log>>

----------------------------------------------------------------------------
(* The calls of an answer, or the steps of the plan.                       *)

Next1 == Head(calls)

(* A plan's loop runs over at most maxSteps steps.                         *)
More == calls # <<>> /\ (agent.plans => step < MaxSteps)

(* What the loop looks at before each call; a plan's step also has a budget*)
Stopped == StopHere \/ (agent.plans /\ Broke)

Runnable(t) == t \in Offered /\ (agent.policed = "each" => Permits(Policy, t))

Consume ==
  /\ calls' = Tail(calls)
  /\ step' = IF agent.plans THEN step + 1 ELSE step

(* The tool starts.                                                        *)
Execute(t) ==
  /\ aphase' = "tool"
  /\ log' = [log EXCEPT !.ran = @ \cup {t},
                        !.ranRejected = @ \/ log.rejected,
                        !.ranAborted = IF aborted THEN @ + 1 ELSE @]

(* An unknown or denied tool, or arguments streamText() cannot parse: an   *)
(* error record takes the place of a result.                               *)
RefuseCall ==
  /\ aphase = "calls" /\ More /\ ~Stopped
  /\ ~Runnable(Next1) \/ agent.streams
  /\ Consume
  /\ UNCHANGED <<agentConfig, aphase, spent, aborted, interrupted, log>>

StartCall ==
  /\ aphase = "calls" /\ More /\ ~Stopped
  /\ Runnable(Next1)
  /\ IF handler THEN aphase' = "approval" /\ UNCHANGED log ELSE Execute(Next1)
  /\ UNCHANGED <<agentConfig, step, calls, spent, aborted, interrupted>>

Approve ==
  /\ aphase = "approval"
  /\ Execute(Next1)
  /\ UNCHANGED <<agentConfig, step, calls, spent, aborted, interrupted>>

(* The user rejects the call: recorded (not by the planner), and the end   *)
(* of the loop.                                                            *)
Reject ==
  /\ aphase = "approval"
  /\ interrupted' = TRUE
  /\ calls' = <<>>
  /\ aphase' = "calls"
  /\ log' = [log EXCEPT !.rejected = TRUE]
  /\ UNCHANGED <<agentConfig, step, spent, aborted>>

(* The tool returns or throws; either is recorded.                         *)
ToolEnds ==
  /\ aphase = "tool"
  /\ Consume
  /\ aphase' = "calls"
  /\ UNCHANGED <<agentConfig, spent, aborted, interrupted, log>>

(* The abort, or a plan's exhausted budget, cuts the calls off.            *)
CutCalls ==
  /\ aphase = "calls" /\ More /\ Stopped
  /\ interrupted' = StopHere
  /\ calls' = <<>>
  /\ UNCHANGED <<agentConfig, aphase, step, spent, aborted, log>>

(* The stream that carries the calls breaks: streamText() rethrows.        *)
StreamBreaks ==
  /\ agent.streams
  /\ aphase = "calls"
  /\ aphase' = "threw"
  /\ UNCHANGED <<agentConfig, step, calls, spent, aborted, interrupted, log>>

(* The step is pushed.                                                     *)
EndStep ==
  /\ aphase = "calls" /\ ~More
  /\ step' = IF agent.plans THEN step ELSE step + 1
  /\ aphase' = IF agent.plans THEN "summary" ELSE IF interrupted THEN "done" ELSE "top"
  /\ UNCHANGED <<agentConfig, calls, spent, aborted, interrupted, log>>

(* The planner's last answer, asked for however its loop ended; an error   *)
(* of the model is swallowed.                                              *)
AskForSummary ==
  /\ aphase = "summary"
  /\ Ask("closing")
  /\ UNCHANGED <<agentConfig, step, calls, spent, aborted, interrupted>>

Summarise(cost) ==
  /\ aphase = "closing"
  /\ spent' = spent + cost
  /\ aphase' = "done"
  /\ UNCHANGED <<agentConfig, step, calls, aborted, interrupted, log>>

(* The caller aborts its signal.                                           *)
AbortAgent ==
  /\ aphase \notin {"done", "threw"}
  /\ ~aborted
  /\ aborted' = TRUE
  /\ UNCHANGED <<agentConfig, aphase, step, calls, spent, interrupted, log>>

CallLists == UNION {[1..n -> Tools] : n \in 0..MaxCalls}

AgentStep ==
  \/ StartStep \/ StopAtTop \/ AskForPlan \/ ModelFails
  \/ \E cost \in 0..MaxCost, asks \in CallLists : Answer(cost, asks)
  \/ RefuseCall \/ StartCall \/ Approve \/ Reject \/ ToolEnds \/ CutCalls
  \/ StreamBreaks \/ EndStep
  \/ AskForSummary \/ \E cost \in 0..MaxCost : Summarise(cost)

AgentNext == AgentStep \/ AbortAgent

AgentSpec == AgentInit /\ [][AgentNext]_agentVars

----------------------------------------------------------------------------
(* A tool runs only if it was offered and both policies permit it, however *)
(* they were combined, and none runs once the user has rejected a call.    *)
ToolsGoverned ==
  /\ log.ran \subseteq Offered
  /\ agent.policed # "no" =>
       \A t \in log.ran : Permits(ToolPolicy(limits.base), t)
                           /\ Permits(ToolPolicy(limits.narrower), t)
  /\ ~log.ranRejected

(* Where the loop reads the signal, an abort lets at most the one tool run *)
(* whose approval was pending, and neither it nor an exhausted budget lets *)
(* the model be asked again, but for the planner's two fixed calls.        *)
WorkAfterStopBounded ==
  /\ agent.checks => log.ranAborted <= 1
  /\ agent.checks => log.askedAborted <= IF agent.plans THEN 2 ELSE 0
  /\ log.askedBroke <= IF agent.plans THEN 2 ELSE 0

============================================================================
