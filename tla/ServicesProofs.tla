-------------------------- MODULE ServicesProofs ---------------------------
(***************************************************************************)
(* Theorems about the components around the pipelines, for every set of    *)
(* tools, plugins, users, roles, messages and requests and every bound.    *)
(*                                                                         *)
(* None of the properties is inductive.  That an agent executes no tool    *)
(* its permissions refuse follows from what its loop can have pending at   *)
(* each phase (AgentIInv); that a walk of the plugin array calls nothing   *)
(* twice, from where what it has called and passed over can stand while    *)
(* the array is spliced under it (RegistryIInv).  That no rate and no      *)
(* purse is overdrawn follows from what a limiter granted and still holds, *)
(* and from what requests in progress may yet cost, each of which adds up  *)
(* to what was available (AccessIInv); that a signature is not accepted    *)
(* twice too soon, from what the cache holds: the signatures of the latest *)
(* acceptances, in their order (ReplayIInv).  That alerts are timely needs *)
(* what is fired to be what was sent or already exceeded (MonitorsIInv).   *)
(* That the sinks agree needs the two numbers of events that each of them  *)
(* has counted so far, up to the event under way (ObserversIInv).  That a  *)
(* body is whole needs what is written of it at each moment: the calls in  *)
(* pending are those started once more than ended (RoutesIInv).  The calls *)
(* of the client itself are in ClientProofs.                               *)
(***************************************************************************)
EXTENDS Services, OpsProofs, WellFoundedInduction, SequenceTheorems, FiniteSetTheorems, TLAPS

(* The agents: what is logged, and which of it can still grow.             *)
LogRecord ==
  [ran : SUBSET Tools, rejected : BOOLEAN, ranRejected : BOOLEAN, ranAborted : Nat,
   askedAborted : Nat, askedBroke : Nat]

(* A call that waits for its approval or its end is one that may run.      *)
PendingRunnable ==
  aphase \in {"approval", "tool"} => calls # <<>> /\ Runnable(Head(calls))

(* streamText() has checked its offer, or has thrown before it ran a tool. *)
OfferChecked ==
  agent.policed = "offer" =>
    AllPermitted(Policy) \/ (aphase = "threw" /\ log.ran = {})

(* A rejection leaves no calls, and a loop that can only end.              *)
RejectionEnds ==
  log.rejected =>
    /\ interrupted /\ calls = <<>>
    /\ aphase \in {"calls", "summary", "closing", "done", "threw"}

(* Only an approval that was asked for before the abort outlasts it.       *)
OneApprovalOutlasts ==
  agent.checks =>
    /\ log.ranAborted > 0 => aborted
    /\ aphase = "approval" => log.ranAborted = 0

(* The planner asks once at the top, which it never returns to, and once   *)
(* for the summary, which no other loop writes.                            *)
Asks == IF ~agent.plans \/ aphase = "top" THEN 0
        ELSE IF aphase \in {"model", "calls", "approval", "tool", "summary"} THEN 1 ELSE 2
AsksCounted ==
  /\ agent.checks => log.askedAborted <= Asks
  /\ log.askedBroke <= Asks
  /\ aphase \in {"summary", "closing"} => agent.plans

AgentIInv ==
  /\ AgentTypeOK /\ log \in LogRecord
  /\ PendingRunnable /\ OfferChecked /\ RejectionEnds /\ OneApprovalOutlasts /\ AsksCounted
  /\ ToolsGoverned /\ WorkAfterStopBounded

(* A tool that the combined policy permits, each of the two permits.       *)
LEMMA NarrowPermits ==
  ASSUME NEW p, NEW q, NEW t, Permits(Narrow(p, q), t) PROVE Permits(p, t) /\ Permits(q, t)
<1> DEFINE n == Narrow(p, q)
<1>1. n.deny = p.deny \cup q.deny
  BY DEF Narrow
<1>2. t \notin p.deny /\ t \notin q.deny
  BY <1>1 DEF Permits
<1>3. CASE p.allow = {} \/ q.allow = {}
  <2>1. n.allow = IF p.allow = {} THEN q.allow ELSE p.allow
    BY <1>3 DEF Narrow
  <2>2. QED
    BY <1>2, <1>3, <2>1 DEF Permits
<1>4. CASE p.allow # {} /\ q.allow # {}
  <2>1. n.allow = {a \cap b : a \in p.allow, b \in q.allow}
    BY <1>4 DEF Narrow
  <2>2. \A a \in p.allow, b \in q.allow : a \cap b \in n.allow
    BY <2>1
  <2>3. \A a \in p.allow, b \in q.allow : t \in a \cap b
    BY <2>2 DEF Permits
  <2>4. QED
    BY <1>2, <1>4, <2>3 DEF Permits
<1>5. QED
  BY <1>3, <1>4

LEMMA LoopFacts ==
  ASSUME AgentIInv
  PROVE  /\ agent.checks \in BOOLEAN /\ agent.plans \in BOOLEAN /\ agent.budgeted \in BOOLEAN
         /\ agent.policed \in {"each", "offer", "no"}
         /\ step \in Nat /\ spent \in Nat /\ calls \in Seq(Tools) /\ log \in LogRecord
<1>1. agent \in Agents /\ log \in LogRecord
  BY DEF AgentIInv, AgentTypeOK
<1>2. /\ agent.checks \in BOOLEAN /\ agent.plans \in BOOLEAN /\ agent.budgeted \in BOOLEAN
      /\ agent.policed \in {"each", "offer", "no"}
  <2> DEFINE Sound(a) == /\ a.checks \in BOOLEAN /\ a.plans \in BOOLEAN /\ a.budgeted \in BOOLEAN
                         /\ a.policed \in {"each", "offer", "no"}
  <2>1. Sound(ToolLoop) /\ Sound(ReAct)
    BY DEF ToolLoop, ReAct
  <2>2. Sound(PlanAndExecute)
    BY DEF ToolLoop, PlanAndExecute
  <2>3. Sound(StreamText)
    BY DEF ToolLoop, StreamText
  <2>4. QED
    BY <1>1, <2>1, <2>2, <2>3 DEF Agents
<1>3. QED
  BY <1>1, <1>2 DEF AgentIInv, AgentTypeOK

(* What stays the same while the loop goes on.                             *)
LEMMA ConfigKeeps ==
  ASSUME UNCHANGED agentConfig
  PROVE  /\ UNCHANGED <<agent, limits, budget, handler>>
         /\ Policy' = Policy /\ \A t : Runnable(t)' <=> Runnable(t)
         /\ (\A t : Permits(Policy, t)' <=> Permits(Policy, t))
         /\ AllPermitted(Policy)' <=> AllPermitted(Policy)
<1>1. UNCHANGED <<agent, limits, budget, handler>>
  BY DEF agentConfig
<1>2. Policy' = Policy
  BY <1>1 DEF Policy, ToolSet
<1>3. QED
  BY <1>1, <1>2 DEF Runnable, Permits, AllPermitted

(* A tool runs only as a call that may.                                    *)
LEMMA ExecuteKeeps ==
  ASSUME AgentIInv, UNCHANGED <<agentConfig, step, calls, spent, aborted, interrupted>>,
         aphase \in {"calls", "approval"}, calls # <<>>, Runnable(Head(calls)),
         aphase = "calls" => ~(agent.checks /\ aborted), Execute(Head(calls))
  PROVE  AgentIInv'
<1> DEFINE t == Head(calls)
<1>1. /\ UNCHANGED <<agent, limits, budget, handler>> /\ Policy' = Policy
      /\ \A u : Runnable(u)' <=> Runnable(u)
      /\ AllPermitted(Policy)' <=> AllPermitted(Policy)
  BY ConfigKeeps
<1>2. /\ t \in Tools /\ t \in Offered /\ log \in LogRecord /\ calls \in Seq(Tools)
      /\ log.ranAborted \in Nat
  BY LoopFacts DEF Runnable, LogRecord
<1>3. /\ aphase' = "tool" /\ log'.ran = log.ran \cup {t} /\ log'.rejected = log.rejected
      /\ log'.ranRejected = (log.ranRejected \/ log.rejected)
      /\ log'.ranAborted = (IF aborted THEN log.ranAborted + 1 ELSE log.ranAborted)
      /\ log'.askedAborted = log.askedAborted /\ log'.askedBroke = log.askedBroke
  BY <1>2 DEF Execute, LogRecord
<1>4. log' \in LogRecord
  <2> DEFINE rejected == log.ranRejected \/ log.rejected
             aborts == IF aborted THEN log.ranAborted + 1 ELSE log.ranAborted
  <2>1. rejected \in BOOLEAN /\ aborts \in Nat /\ log.ran \cup {t} \in SUBSET Tools
    BY <1>2 DEF LogRecord
  <2>2. log' = [log EXCEPT !.ran = @ \cup {t}, !.ranRejected = rejected, !.ranAborted = aborts]
    BY DEF Execute
  <2> HIDE DEF rejected, aborts, t
  <2>3. QED
    BY <1>2, <2>1, <2>2 DEF LogRecord
<1>5. ~log.rejected
  BY DEF AgentIInv, RejectionEnds
<1>6. AgentTypeOK'
  BY <1>1, <1>3 DEF AgentIInv, AgentTypeOK
<1>7. PendingRunnable' /\ RejectionEnds'
  BY <1>1, <1>3, <1>5 DEF PendingRunnable, RejectionEnds
<1>8. agent.policed = "offer" => AllPermitted(Policy)
  BY DEF AgentIInv, OfferChecked
<1>9. OfferChecked'
  BY <1>1, <1>8 DEF OfferChecked
<1>10. OneApprovalOutlasts' /\ WorkAfterStopBounded'
  <2>1. agent.checks => log'.ranAborted <= 1 /\ (log'.ranAborted > 0 => aborted)
    BY <1>2, <1>3 DEF AgentIInv, OneApprovalOutlasts, WorkAfterStopBounded
  <2>2. OneApprovalOutlasts'
    BY <1>1, <1>3, <2>1 DEF OneApprovalOutlasts
  <2>3. WorkAfterStopBounded'
    BY <1>1, <1>3, <2>1 DEF AgentIInv, WorkAfterStopBounded
  <2>4. QED
    BY <2>2, <2>3
<1>11. AsksCounted'
  BY <1>1, <1>3 DEF AgentIInv, AsksCounted, Asks
<1>12. ToolsGoverned'
  <2>1. agent.policed # "no" => Permits(Policy, t)
    <3>1. CASE agent.policed = "each"
      BY <3>1 DEF Runnable
    <3>2. CASE agent.policed = "offer"
      BY <1>2, <1>8, <3>2 DEF AllPermitted
    <3>3. QED
      BY <3>1, <3>2, LoopFacts
  <2>2. agent.policed # "no" => Permits(ToolPolicy(limits.base), t)
                                /\ Permits(ToolPolicy(limits.narrower), t)
    BY <2>1, NarrowPermits DEF Policy, ToolSet
  <2> HIDE DEF t
  <2>3. agent.policed # "no" =>
          \A u \in log'.ran : Permits(ToolPolicy(limits.base), u)
                               /\ Permits(ToolPolicy(limits.narrower), u)
    BY <1>3, <2>2 DEF AgentIInv, ToolsGoverned
  <2>4. (\A u : Permits(ToolPolicy(limits.base), u)' <=> Permits(ToolPolicy(limits.base), u))
        /\ (\A u : Permits(ToolPolicy(limits.narrower), u)'
                     <=> Permits(ToolPolicy(limits.narrower), u))
    BY <1>1
  <2>5. log'.ran \subseteq Offered /\ ~log'.ranRejected
    BY <1>2, <1>3, <1>5 DEF AgentIInv, ToolsGoverned
  <2>6. QED
    BY <1>1, <2>3, <2>4, <2>5 DEF ToolsGoverned
<1>13. QED
  BY <1>4, <1>6, <1>7, <1>9, <1>10, <1>11, <1>12 DEF AgentIInv

(* The model is asked: at the top, or by the planner for its summary.      *)
LEMMA AskKeeps ==
  ASSUME AgentIInv, NEW phase \in {"model", "closing"}, Ask(phase),
         UNCHANGED <<agentConfig, step, calls, spent, aborted, interrupted>>,
         IF phase = "model"
         THEN aphase = "top" /\ (agent.plans \/ (~(agent.checks /\ aborted)
                                                 /\ ~(agent.budgeted /\ Broke)))
         ELSE aphase = "summary"
  PROVE  AgentIInv'
<1> DEFINE more == IF aborted THEN log.askedAborted + 1 ELSE log.askedAborted
           broke == IF agent.budgeted /\ Broke THEN log.askedBroke + 1 ELSE log.askedBroke
<1>1. /\ UNCHANGED <<agent, limits, budget, handler>> /\ Policy' = Policy
      /\ AllPermitted(Policy)' <=> AllPermitted(Policy)
  BY ConfigKeeps
<1>2. log \in LogRecord /\ log.askedAborted \in Nat /\ log.askedBroke \in Nat
      /\ agent.plans \in BOOLEAN
  BY LoopFacts DEF LogRecord
<1>3. more \in Nat /\ broke \in Nat
  BY <1>2
<1>4. aphase' = phase /\ log' = [log EXCEPT !.askedAborted = more, !.askedBroke = broke]
  BY DEF Ask
<1>5. agent.checks => more <= IF agent.plans THEN log.askedAborted + 1 ELSE 0
  <2>1. agent.checks /\ ~agent.plans => ~aborted /\ log.askedAborted = 0
    BY <1>2 DEF AgentIInv, AsksCounted, Asks
  <2>2. QED
    BY <1>2, <2>1
<1>6. broke <= IF agent.plans THEN log.askedBroke + 1 ELSE 0
  <2>1. ~agent.plans => ~(agent.budgeted /\ Broke) /\ log.askedBroke = 0
    BY <1>2 DEF AgentIInv, AsksCounted, Asks
  <2>2. QED
    BY <1>2, <2>1
<1> HIDE DEF more, broke
<1>7. /\ log' \in LogRecord /\ log'.ran = log.ran /\ log'.rejected = log.rejected
      /\ log'.ranRejected = log.ranRejected /\ log'.ranAborted = log.ranAborted
      /\ log'.askedAborted = more /\ log'.askedBroke = broke
  BY <1>2, <1>3, <1>4 DEF LogRecord
<1>8. AgentTypeOK'
  BY <1>1, <1>4 DEF AgentIInv, AgentTypeOK
<1>9. PendingRunnable' /\ RejectionEnds'
  <2>1. phase = "model" => ~log.rejected
    BY DEF AgentIInv, RejectionEnds
  <2>2. QED
    BY <1>4, <1>7, <2>1 DEF AgentIInv, PendingRunnable, RejectionEnds
<1>10. OfferChecked'
  <2>1. agent.policed = "offer" => AllPermitted(Policy)
    BY DEF AgentIInv, OfferChecked
  <2>2. QED
    BY <1>1, <2>1 DEF OfferChecked
<1>11. OneApprovalOutlasts'
  BY <1>1, <1>4, <1>7 DEF AgentIInv, OneApprovalOutlasts
<1>12. AsksCounted' /\ WorkAfterStopBounded'
  <2>1. agent.plans => /\ agent.checks => more <= IF phase = "model" THEN 1 ELSE 2
                       /\ broke <= IF phase = "model" THEN 1 ELSE 2
    BY <1>2, <1>3, <1>5, <1>6 DEF AgentIInv, AsksCounted, Asks
  <2>2. Asks' = IF ~agent.plans THEN 0 ELSE IF phase = "model" THEN 1 ELSE 2
    BY <1>1, <1>4 DEF Asks
  <2>3. agent.checks => more <= Asks'
    BY <1>2, <1>3, <1>5, <2>1, <2>2
  <2>4. broke <= Asks'
    BY <1>2, <1>3, <1>6, <2>1, <2>2
  <2>5. phase = "closing" => agent.plans
    BY DEF AgentIInv, AsksCounted
  <2>6. AsksCounted'
    BY <1>1, <1>4, <1>7, <2>3, <2>4, <2>5 DEF AsksCounted
  <2>7. Asks' <= (IF agent.plans THEN 2 ELSE 0) /\ Asks' \in Nat
    BY <2>2
  <2>8. WorkAfterStopBounded'
    <3>1. agent.checks => more <= IF agent.plans THEN 2 ELSE 0
      BY <1>3, <2>3, <2>7
    <3>2. broke <= IF agent.plans THEN 2 ELSE 0
      BY <1>3, <2>4, <2>7
    <3>3. QED
      BY <1>1, <1>7, <3>1, <3>2 DEF AgentIInv, WorkAfterStopBounded
  <2>9. QED
    BY <2>6, <2>8
<1>13. ToolsGoverned'
  BY <1>1, <1>7 DEF AgentIInv, ToolsGoverned, Permits, ToolPolicy
<1>14. QED
  BY <1>7, <1>8, <1>9, <1>10, <1>11, <1>12, <1>13 DEF AgentIInv

(* A step that runs no tool and asks nothing, and what it has to leave.    *)
LEMMA QuietLoopKeeps ==
  ASSUME AgentIInv, UNCHANGED <<agentConfig, log>>, AgentTypeOK', PendingRunnable',
         RejectionEnds', aphase # "threw",
         aphase' = "approval" =>
           aphase = "approval" \/ (agent.checks => ~aborted),
         aborted => aborted',
         aphase' \in {"summary", "closing"} => agent.plans,
         aphase' = "top" => aphase = "top" \/ ~agent.plans,
         aphase' \in {"model", "calls", "approval", "tool", "summary"} =>
           ~agent.plans \/ aphase \in {"model", "calls", "approval", "tool", "summary"}
  PROVE  AgentIInv'
<1>1. /\ UNCHANGED <<agent, limits, budget, handler, log>> /\ Policy' = Policy
      /\ AllPermitted(Policy)' <=> AllPermitted(Policy)
  BY ConfigKeeps
<1>2. log \in LogRecord /\ log.askedAborted \in Nat /\ log.askedBroke \in Nat
      /\ log.ranAborted \in Nat
  BY LoopFacts DEF LogRecord
<1>3. OfferChecked'
  BY <1>1 DEF AgentIInv, OfferChecked
<1>4. OneApprovalOutlasts'
  BY <1>1, <1>2 DEF AgentIInv, OneApprovalOutlasts
<1>5. AsksCounted'
  <2>1. Asks <= Asks' /\ Asks \in Nat /\ Asks' \in Nat
    BY <1>1 DEF Asks, AgentIInv, AgentTypeOK, AgentTypeOK
  <2>2. QED
    BY <1>1, <1>2, <2>1 DEF AgentIInv, AsksCounted
<1>6. ToolsGoverned' /\ WorkAfterStopBounded'
  BY <1>1 DEF AgentIInv, ToolsGoverned, Permits, ToolPolicy, WorkAfterStopBounded
<1>7. QED
  BY <1>1, <1>2, <1>3, <1>4, <1>5, <1>6 DEF AgentIInv

LEMMA AnswerKeeps ==
  ASSUME AgentIInv, NEW cost \in 0..MaxCost, NEW asks \in CallLists, Answer(cost, asks)
  PROVE  AgentIInv'
<1>1. /\ aphase = "model" /\ spent' = spent + cost /\ calls' = asks
      /\ aphase' = (IF asks = <<>> /\ ~agent.plans THEN "done" ELSE "calls")
      /\ UNCHANGED <<agentConfig, step, aborted, interrupted, log>>
      /\ UNCHANGED <<agent, limits, budget, handler>>
  BY DEF Answer, agentConfig
<1>2. asks \in Seq(Tools)
  BY DEF CallLists
<1>3. spent' \in Nat
  BY <1>1, LoopFacts, AgentAssumption
<1>4. AgentTypeOK'
  BY <1>1, <1>2, <1>3 DEF AgentIInv, AgentTypeOK
<1>5. PendingRunnable' /\ RejectionEnds'
  BY <1>1 DEF AgentIInv, PendingRunnable, RejectionEnds
<1>6. QED
  BY <1>1, <1>4, <1>5, QuietLoopKeeps

(* The call at the head is done with, run or refused.                      *)
LEMMA ConsumeKeeps ==
  ASSUME AgentIInv, Consume, calls # <<>>, aphase \in {"calls", "tool"}, aphase' = "calls",
         UNCHANGED <<agentConfig, spent, aborted, interrupted, log>>
  PROVE  AgentIInv'
<1>1. /\ calls' = Tail(calls) /\ step' = (IF agent.plans THEN step + 1 ELSE step)
      /\ UNCHANGED <<agent, limits, budget, handler, log>>
  BY DEF Consume, agentConfig
<1>2. calls' \in Seq(Tools) /\ step' \in Nat
  BY <1>1, LoopFacts
<1>3. AgentTypeOK'
  BY <1>1, <1>2 DEF AgentIInv, AgentTypeOK
<1>4. PendingRunnable' /\ RejectionEnds'
  BY <1>1 DEF AgentIInv, PendingRunnable, RejectionEnds
<1>5. QED
  BY <1>1, <1>3, <1>4, QuietLoopKeeps

LEMMA StartCallKeeps == ASSUME AgentIInv, StartCall PROVE AgentIInv'
<1>1. /\ aphase = "calls" /\ calls # <<>> /\ ~(agent.checks /\ aborted) /\ Runnable(Head(calls))
      /\ UNCHANGED <<agentConfig, step, calls, spent, aborted, interrupted>>
  BY DEF StartCall, More, Stopped, StopHere, Next1
<1>2. CASE Execute(Head(calls))
  BY <1>1, <1>2, ExecuteKeeps
<1>3. CASE aphase' = "approval" /\ UNCHANGED log
  <2>1. UNCHANGED <<agent, limits, budget, handler>> /\ \A t : Runnable(t)' <=> Runnable(t)
    BY <1>1, ConfigKeeps
  <2>2. AgentTypeOK'
    BY <1>1, <1>3, <2>1 DEF AgentIInv, AgentTypeOK
  <2>3. PendingRunnable'
    BY <1>1, <2>1 DEF PendingRunnable
  <2>4. RejectionEnds'
    BY <1>1, <1>3 DEF AgentIInv, RejectionEnds
  <2>5. QED
    BY <1>1, <1>3, <2>2, <2>3, <2>4, QuietLoopKeeps
<1>4. QED
  BY <1>2, <1>3 DEF StartCall, Next1

LEMMA ApproveKeeps == ASSUME AgentIInv, Approve PROVE AgentIInv'
<1>1. /\ aphase = "approval" /\ calls # <<>> /\ Runnable(Head(calls)) /\ Execute(Head(calls))
      /\ UNCHANGED <<agentConfig, step, calls, spent, aborted, interrupted>>
  BY DEF Approve, Next1, AgentIInv, PendingRunnable
<1>2. QED
  BY <1>1, ExecuteKeeps

LEMMA RejectKeeps == ASSUME AgentIInv, Reject PROVE AgentIInv'
<1>1. /\ aphase = "approval" /\ interrupted' = TRUE /\ calls' = <<>> /\ aphase' = "calls"
      /\ log' = [log EXCEPT !.rejected = TRUE]
      /\ UNCHANGED <<agentConfig, step, spent, aborted>>
  BY DEF Reject
<1>2. /\ UNCHANGED <<agent, limits, budget, handler>> /\ Policy' = Policy
      /\ AllPermitted(Policy)' <=> AllPermitted(Policy)
  BY <1>1, ConfigKeeps
<1>3. /\ log' \in LogRecord /\ log'.ran = log.ran /\ log'.ranRejected = log.ranRejected
      /\ log'.ranAborted = log.ranAborted /\ log'.askedAborted = log.askedAborted
      /\ log'.askedBroke = log.askedBroke
  BY <1>1, LoopFacts DEF LogRecord
<1>4. AgentTypeOK'
  BY <1>1, <1>2 DEF AgentIInv, AgentTypeOK
<1>5. PendingRunnable' /\ RejectionEnds' /\ OfferChecked'
  BY <1>1, <1>2, <1>3 DEF AgentIInv, PendingRunnable, RejectionEnds, OfferChecked
<1>6. OneApprovalOutlasts' /\ AsksCounted'
  BY <1>1, <1>2, <1>3 DEF AgentIInv, OneApprovalOutlasts, AsksCounted, Asks
<1>7. ToolsGoverned' /\ WorkAfterStopBounded'
  BY <1>2, <1>3 DEF AgentIInv, ToolsGoverned, Permits, ToolPolicy, WorkAfterStopBounded
<1>8. QED
  BY <1>3, <1>4, <1>5, <1>6, <1>7 DEF AgentIInv

(* The actions that only lead from one place to the next.                  *)
LEMMA MovingKeeps ==
  ASSUME AgentIInv,
         \/ StopAtTop \/ ModelFails \/ CutCalls \/ StreamBreaks \/ EndStep \/ AbortAgent
         \/ \E cost \in 0..MaxCost : Summarise(cost)
  PROVE  AgentIInv'
<1>1. CASE StopAtTop \/ ModelFails \/ StreamBreaks \/ AbortAgent
  <2>1. UNCHANGED <<agentConfig, step, calls, spent, log>>
        /\ UNCHANGED <<agent, limits, budget, handler>>
    BY <1>1 DEF StopAtTop, ModelFails, StreamBreaks, AbortAgent, agentConfig
  <2>2. \/ aphase = "top" /\ aphase' = "done" /\ interrupted' \in BOOLEAN /\ aborted' = aborted
        \/ aphase = "model" /\ aphase' = "threw" /\ UNCHANGED <<interrupted, aborted>>
        \/ aphase = "calls" /\ aphase' = "threw" /\ UNCHANGED <<interrupted, aborted>>
        \/ aphase \notin {"done", "threw"} /\ aborted' = TRUE /\ UNCHANGED <<aphase, interrupted>>
    BY <1>1 DEF StopAtTop, ModelFails, StreamBreaks, AbortAgent
  <2>3. AgentTypeOK'
    BY <2>1, <2>2 DEF AgentIInv, AgentTypeOK
  <2>4. PendingRunnable'
    <3>1. \A t : Runnable(t)' <=> Runnable(t)
      BY <2>1, ConfigKeeps
    <3>2. QED
      BY <2>1, <2>2, <3>1 DEF AgentIInv, PendingRunnable
  <2>5. RejectionEnds'
    BY <2>1, <2>2 DEF AgentIInv, RejectionEnds
  <2>6. QED
    BY <2>1, <2>2, <2>3, <2>4, <2>5, QuietLoopKeeps DEF AgentIInv, AsksCounted
<1>2. CASE CutCalls
  <2>1. /\ aphase = "calls" /\ calls # <<>> /\ calls' = <<>> /\ interrupted' = StopHere
        /\ UNCHANGED <<agentConfig, aphase, step, spent, aborted, log>>
        /\ UNCHANGED <<agent, limits, budget, handler>>
    BY <1>2 DEF CutCalls, More, agentConfig
  <2>2. interrupted' \in BOOLEAN
    BY <2>1 DEF StopHere
  <2>3. AgentTypeOK' /\ PendingRunnable' /\ RejectionEnds'
    BY <2>1, <2>2 DEF AgentIInv, AgentTypeOK, PendingRunnable, RejectionEnds
  <2>4. QED
    BY <2>1, <2>3, QuietLoopKeeps
<1>3. CASE EndStep
  <2>1. /\ aphase = "calls" /\ step' = (IF agent.plans THEN step ELSE step + 1)
        /\ aphase' = (IF agent.plans THEN "summary" ELSE IF interrupted THEN "done" ELSE "top")
        /\ UNCHANGED <<agentConfig, calls, spent, aborted, interrupted, log>>
        /\ UNCHANGED <<agent, limits, budget, handler>>
    BY <1>3 DEF EndStep, agentConfig
  <2>2. step' \in Nat
    BY <2>1, LoopFacts
  <2>3. AgentTypeOK' /\ PendingRunnable' /\ RejectionEnds'
    BY <2>1, <2>2 DEF AgentIInv, AgentTypeOK, PendingRunnable, RejectionEnds
  <2>4. QED
    BY <2>1, <2>3, QuietLoopKeeps
<1>4. ASSUME NEW cost \in 0..MaxCost, Summarise(cost) PROVE AgentIInv'
  <2>1. /\ aphase = "closing" /\ aphase' = "done" /\ spent' = spent + cost
        /\ UNCHANGED <<agentConfig, step, calls, aborted, interrupted, log>>
        /\ UNCHANGED <<agent, limits, budget, handler>>
    BY <1>4 DEF Summarise, agentConfig
  <2>2. spent' \in Nat
    BY <2>1, LoopFacts, AgentAssumption
  <2>3. AgentTypeOK' /\ PendingRunnable' /\ RejectionEnds'
    BY <2>1, <2>2 DEF AgentIInv, AgentTypeOK, PendingRunnable, RejectionEnds
  <2>4. QED
    BY <2>1, <2>3, QuietLoopKeeps
<1>5. QED
  BY <1>1, <1>2, <1>3, <1>4

LEMMA AgentsStart == AgentInit => AgentIInv
<1> SUFFICES ASSUME AgentInit PROVE AgentIInv
  OBVIOUS
<1>1. agent \in Agents /\ log = NoLog /\ calls = <<>> /\ step = 0 /\ spent = 0
      /\ aphase = (IF agent.policed = "offer" /\ ~AllPermitted(Policy) THEN "threw" ELSE "top")
      /\ interrupted = FALSE /\ handler \in BOOLEAN
  BY DEF AgentInit
<1>2. log \in LogRecord /\ log.ran = {} /\ ~log.rejected /\ ~log.ranRejected /\ log.ranAborted = 0
      /\ log.askedAborted = 0 /\ log.askedBroke = 0
  BY <1>1 DEF NoLog, LogRecord
<1>3. AgentTypeOK
  <2>1. limits \in [base : ToolInputs, narrower : ToolInputs] /\ budget \in Budgets
        /\ aborted \in BOOLEAN
    BY DEF AgentInit
  <2>2. aphase \in {"top", "threw"} /\ calls \in Seq(Tools) /\ step \in Nat /\ spent \in Nat
    BY <1>1
  <2>3. QED
    BY <1>1, <2>1, <2>2 DEF AgentTypeOK
<1>4. PendingRunnable /\ OfferChecked /\ RejectionEnds /\ OneApprovalOutlasts
  BY <1>1, <1>2 DEF PendingRunnable, OfferChecked, RejectionEnds, OneApprovalOutlasts
<1>5. AsksCounted
  BY <1>1, <1>2 DEF AsksCounted, Asks
<1>6. ToolsGoverned /\ WorkAfterStopBounded
  BY <1>2 DEF ToolsGoverned, WorkAfterStopBounded
<1>7. QED
  BY <1>2, <1>3, <1>4, <1>5, <1>6 DEF AgentIInv

LEMMA AgentsStep == AgentIInv /\ [AgentNext]_agentVars => AgentIInv'
<1> SUFFICES ASSUME AgentIInv, [AgentNext]_agentVars PROVE AgentIInv'
  OBVIOUS
<1>1. CASE StartStep \/ AskForPlan
  BY <1>1, AskKeeps DEF StartStep, AskForPlan, StopHere
<1>2. CASE AskForSummary
  BY <1>2, AskKeeps DEF AskForSummary
<1>3. ASSUME NEW cost \in 0..MaxCost, NEW asks \in CallLists, Answer(cost, asks)
      PROVE  AgentIInv'
  BY <1>3, AnswerKeeps
<1>4. CASE RefuseCall
  BY <1>4, ConsumeKeeps DEF RefuseCall, More
<1>5. CASE ToolEnds
  BY <1>5, ConsumeKeeps DEF ToolEnds, AgentIInv, PendingRunnable
<1>6. CASE StartCall \/ Approve \/ Reject
  BY <1>6, StartCallKeeps, ApproveKeeps, RejectKeeps
<1>7. CASE \/ StopAtTop \/ ModelFails \/ CutCalls \/ StreamBreaks \/ EndStep \/ AbortAgent
           \/ \E cost \in 0..MaxCost : Summarise(cost)
  BY <1>7, MovingKeeps
<1>8. CASE UNCHANGED agentVars
  <2>1. /\ UNCHANGED <<agent, limits, budget, handler, aphase, step, calls, spent, aborted,
                       interrupted, log>>
    BY <1>8 DEF agentVars
  <2>2. AgentTypeOK' /\ PendingRunnable' /\ OfferChecked' /\ RejectionEnds'
    BY <2>1
    DEF AgentIInv, AgentTypeOK, PendingRunnable, Runnable, OfferChecked, AllPermitted, Permits,
        Policy, ToolSet, RejectionEnds
  <2>3. OneApprovalOutlasts' /\ AsksCounted' /\ ToolsGoverned' /\ WorkAfterStopBounded'
    BY <2>1
    DEF AgentIInv, OneApprovalOutlasts, AsksCounted, Asks, ToolsGoverned, Permits, ToolPolicy,
        WorkAfterStopBounded
  <2>4. QED
    BY <2>1, <2>2, <2>3 DEF AgentIInv
<1>9. QED
  BY <1>1, <1>2, <1>3, <1>4, <1>5, <1>6, <1>7, <1>8 DEF AgentNext, AgentStep

----------------------------------------------------------------------------
(* The plugin registry: the array is in the order of registration, and a   *)
(* walk goes over it in that order, whatever is removed or added under it. *)
FireRecord ==
  [phase : {"new", "hook", "over", "threw"}, kind : FireKinds, next : Nat,
   had : SUBSET (1..MaxPlugins), called : Seq(1..MaxPlugins),
   missed : SUBSET (1..MaxPlugins), shifts : Nat]

Increasing(s) == \A i \in 1..(Len(s) - 1) : s[i] < s[i + 1]

InOrder ==
  /\ \A i, j \in DOMAIN plugins : i < j => plugins[i].id < plugins[j].id
  /\ \A i \in DOMAIN plugins : plugins[i].id <= pushed

(* What walk w has left behind without a call.                             *)
Passed(w) == {id \in w.had : \E i \in DOMAIN plugins : i < w.next /\ plugins[i].id = id}
               \ {w.called[k] : k \in DOMAIN w.called}

(* A walk: what is before the iterator was called, but for what the        *)
(* removals behind it shifted there; what is at it and after is later.     *)
Walking(w) ==
  /\ w.next >= 1
  /\ \A id \in w.had : id <= pushed
  /\ \A k \in DOMAIN w.called :
       /\ w.called[k] <= pushed
       /\ \A i \in DOMAIN plugins : i >= w.next => w.called[k] < plugins[i].id
  /\ Cardinality(Passed(w)) <= w.shifts

Walks ==
  \A f \in Fires :
    /\ fire[f].phase = "new" => fire[f] = NewFire
    /\ fire[f].phase = "hook" => Walking(fire[f])
    /\ Increasing(fire[f].called)
    /\ Cardinality(fire[f].missed) <= fire[f].shifts

(* Until calls of add() overlap, a name is in the array once or not at all,*)
(* and one whose old plugin is being destroyed is not.                     *)
NamesOnce ==
  doubled = {} =>
    /\ names = {plugins[i].name : i \in DOMAIN plugins}
    /\ \A i, j \in DOMAIN plugins : plugins[i].name = plugins[j].name => i = j
    /\ \A a \in Adders : adder[a] \cap names = {}
    /\ \A a, b \in Adders : a # b => adder[a] \cap adder[b] = {}

RegistryIInv == PluginsTypeOK /\ InOrder /\ Walks /\ NamesOnce

LEMMA LeastExists ==
  ASSUME NEW S \in SUBSET Nat, S # {} PROVE \E n \in S : \A k \in S : n <= k
<1>1. PICK n \in S : \A k \in S : ~(<<k, n>> \in OpToRel(<, Nat))
  BY NatLessThanWellFounded, WFMin
<1>2. \A k \in S : ~(k < n)
  BY <1>1 DEF OpToRel
<1>3. QED
  BY <1>2

LEMMA ElementsTyped ==
  ASSUME NEW S, NEW s \in Seq(S) PROVE \A k \in DOMAIN s : s[k] \in S
OBVIOUS

LEMMA RegistryFacts ==
  ASSUME RegistryIInv
  PROVE  /\ plugins \in Seq(Registration) /\ names \subseteq PluginNames /\ pushed \in Nat
         /\ adder \in [Adders -> SUBSET PluginNames] /\ fire \in [Fires -> FireRecord]
         /\ \A f \in Fires : fire[f] \in FireRecord
         /\ doubled \subseteq PluginNames
         /\ \A i \in DOMAIN plugins :
              /\ plugins[i].id \in 1..MaxPlugins /\ plugins[i].id \in Nat
              /\ plugins[i].name \in PluginNames
<1>1. PluginsTypeOK
  BY DEF RegistryIInv
<1>2. fire \in [Fires -> FireRecord] /\ pushed \in Nat
  BY <1>1, PluginsAssumption DEF PluginsTypeOK, FireRecord
<1>3. \A i \in DOMAIN plugins : plugins[i] \in Registration
  BY <1>1 DEF PluginsTypeOK
<1>4. QED
  BY <1>1, <1>2, <1>3, PluginsAssumption DEF PluginsTypeOK, Registration

LEMMA PassedFinite ==
  ASSUME NEW w \in FireRecord
  PROVE  /\ Passed(w) \subseteq 1..MaxPlugins /\ IsFiniteSet(Passed(w))
         /\ Cardinality(Passed(w)) \in Nat
<1>1. Passed(w) \subseteq w.had /\ w.had \subseteq 1..MaxPlugins
  BY DEF Passed, FireRecord
<1>2. IsFiniteSet(1..MaxPlugins)
  BY FS_Interval, PluginsAssumption
<1>3. QED
  BY <1>1, <1>2, FS_Subset, FS_CardinalityType

(* Calling the plugin at the iterator passes nothing over.                 *)
LEMMA CallInOrder ==
  ASSUME RegistryIInv, NEW w \in FireRecord, Walking(w), Increasing(w.called),
         w.next <= Len(plugins),
         NEW v, v = [w EXCEPT !.phase = "hook", !.next = @ + 1,
                              !.called = Append(@, plugins[w.next].id)]
  PROVE  /\ v \in FireRecord /\ Walking(v) /\ Increasing(v.called)
         /\ v.missed = w.missed /\ v.shifts = w.shifts /\ v.phase = "hook"
<1> DEFINE id == plugins[w.next].id
<1>1. /\ w.next \in Nat \ {0} /\ w.next \in DOMAIN plugins /\ id \in 1..MaxPlugins /\ id \in Nat
      /\ w.called \in Seq(1..MaxPlugins) /\ plugins \in Seq(Registration) /\ id <= pushed
      /\ pushed \in Nat
  BY RegistryFacts DEF FireRecord, Walking, RegistryIInv, InOrder
<1>2. /\ v.phase = "hook" /\ v.next = w.next + 1 /\ v.called = Append(w.called, id)
      /\ v.had = w.had /\ v.missed = w.missed /\ v.shifts = w.shifts /\ v.kind = w.kind
  BY DEF FireRecord
<1>3. v \in FireRecord
  <2>1. w.next + 1 \in Nat /\ Append(w.called, id) \in Seq(1..MaxPlugins)
    BY <1>1
  <2> HIDE DEF id
  <2>2. QED
    BY <2>1 DEF FireRecord, id
<1>4. DOMAIN v.called = 1..(Len(w.called) + 1) /\ v.called[Len(w.called) + 1] = id
      /\ Len(v.called) = Len(w.called) + 1 /\ Len(w.called) \in Nat
      /\ DOMAIN w.called = 1..Len(w.called)
      /\ \A k \in DOMAIN w.called : v.called[k] = w.called[k] /\ w.called[k] \in Nat
  <2>1. \A k \in DOMAIN w.called : w.called[k] \in 1..MaxPlugins
    BY <1>1, ElementsTyped
  <2> HIDE DEF id
  <2>2. QED
    BY <1>1, <1>2, <2>1, PluginsAssumption
<1>5. \A k \in DOMAIN w.called : w.called[k] < id
  BY <1>1 DEF Walking
<1> HIDE DEF id
<1>6. Increasing(v.called)
  BY <1>1, <1>4, <1>5 DEF Increasing
<1>7. \A i \in DOMAIN plugins : i >= v.next => id < plugins[i].id
  BY <1>1, <1>2 DEF RegistryIInv, InOrder, id
<1>8. \A k \in DOMAIN v.called :
        /\ v.called[k] <= pushed
        /\ \A i \in DOMAIN plugins : i >= v.next => v.called[k] < plugins[i].id
  <2> SUFFICES ASSUME NEW k \in DOMAIN v.called
               PROVE  /\ v.called[k] <= pushed
                      /\ \A i \in DOMAIN plugins : i >= v.next => v.called[k] < plugins[i].id
    OBVIOUS
  <2>1. CASE k = Len(w.called) + 1
    BY <1>1, <1>4, <1>7, <2>1
  <2>2. CASE k \in DOMAIN w.called
    <3>1. v.called[k] = w.called[k] /\ w.called[k] <= pushed
      BY <1>4, <2>2 DEF Walking
    <3>2. \A i \in DOMAIN plugins : i >= v.next => i >= w.next
      BY <1>1, <1>2
    <3>3. QED
      BY <2>2, <3>1, <3>2 DEF Walking
  <2>3. QED
    BY <1>4, <2>1, <2>2
<1>9. Passed(v) \subseteq Passed(w)
  <2> SUFFICES ASSUME NEW x \in Passed(v) PROVE x \in Passed(w)
    OBVIOUS
  <2>1. /\ x \in w.had /\ \A k \in DOMAIN v.called : x # v.called[k]
        /\ \E i \in DOMAIN plugins : i < v.next /\ plugins[i].id = x
    BY <1>2 DEF Passed
  <2>2. PICK i \in DOMAIN plugins : i < v.next /\ plugins[i].id = x
    BY <2>1
  <2>3. x # id
    BY <1>4, <2>1
  <2>4. i # w.next
    BY <2>2, <2>3 DEF id
  <2>5. i < w.next
    BY <1>1, <1>2, <2>2, <2>4
  <2>6. \A k \in DOMAIN w.called : x # w.called[k]
    BY <1>4, <2>1
  <2>7. QED
    BY <2>1, <2>2, <2>5, <2>6 DEF Passed
<1>10. Cardinality(Passed(v)) <= v.shifts
  <2>1. Cardinality(Passed(v)) <= Cardinality(Passed(w))
    BY <1>9, PassedFinite, FS_Subset
  <2>2. Cardinality(Passed(v)) \in Nat /\ Cardinality(Passed(w)) \in Nat /\ w.shifts \in Nat
    BY <1>3, PassedFinite DEF FireRecord
  <2>3. QED
    BY <1>2, <2>1, <2>2 DEF Walking
<1>11. Walking(v)
  <2>1. v.next >= 1 /\ \A x \in v.had : x <= pushed
    BY <1>1, <1>2 DEF Walking
  <2>2. QED
    BY <1>8, <1>10, <2>1 DEF Walking
<1>12. QED
  BY <1>2, <1>3, <1>6, <1>11

(* What a walk has missed at its end is what it left behind.               *)
LEMMA MissedIsPassed ==
  ASSUME RegistryIInv, NEW w \in FireRecord, Walking(w), ~(w.next <= Len(plugins)),
         NEW v, v = [w EXCEPT !.phase = "over",
                              !.missed = (w.had \cap IdsOf(plugins)) \ ToSet(w.called)]
  PROVE  /\ v \in FireRecord /\ v.phase = "over" /\ v.called = w.called
         /\ Cardinality(v.missed) <= v.shifts
<1> DEFINE missed == (w.had \cap IdsOf(plugins)) \ ToSet(w.called)
<1>1. missed = Passed(w)
  <2>1. w.next \in Nat /\ plugins \in Seq(Registration)
    BY RegistryFacts DEF FireRecord
  <2>2. \A i \in DOMAIN plugins : i < w.next
    BY <2>1
  <2>3. QED
    BY <2>2 DEF Passed, IdsOf, ToSet
<1>2. missed \subseteq 1..MaxPlugins /\ v = [w EXCEPT !.phase = "over", !.missed = missed]
  BY <1>1, PassedFinite
<1> HIDE DEF missed
<1>3. v \in FireRecord /\ v.phase = "over" /\ v.called = w.called /\ v.missed = missed
      /\ v.shifts = w.shifts
  BY <1>2 DEF FireRecord
<1>4. QED
  BY <1>1, <1>3 DEF Walking

LEMMA WalkingAlong ==
  ASSUME NEW v \in FireRecord, Walking(v), UNCHANGED <<plugins, pushed>> PROVE Walking(v)'
BY DEF Walking, Passed

LEMMA WalkingEmptied ==
  ASSUME NEW v \in FireRecord, Walking(v), plugins' = <<>>, pushed' = pushed PROVE Walking(v)'
<1>1. Passed(v)' = {}
  BY DEF Passed
<1>2. Cardinality(Passed(v))' <= v.shifts
  BY <1>1, FS_EmptySet DEF FireRecord
<1>3. QED
  BY <1>2 DEF Walking

(* A plugin pushed during a walk is none of those it had at its start.     *)
LEMMA WalkingPushed ==
  ASSUME RegistryIInv, NEW v \in FireRecord, Walking(v), NEW n \in PluginNames, Push(n)
  PROVE  Walking(v)'
<1>1. /\ plugins \in Seq(Registration) /\ pushed \in Nat /\ pushed' = pushed + 1
      /\ plugins' = Append(plugins, [id |-> pushed + 1, name |-> n])
  BY RegistryFacts DEF Push
<1>2. /\ DOMAIN plugins' = 1..(Len(plugins) + 1) /\ DOMAIN plugins = 1..Len(plugins)
      /\ Len(plugins) \in Nat /\ plugins'[Len(plugins) + 1].id = pushed + 1
      /\ \A i \in DOMAIN plugins : plugins'[i] = plugins[i]
  BY <1>1
<1>3. v.had \subseteq Nat /\ v.called \in Seq(1..MaxPlugins) /\ v.next \in Nat
  BY PluginsAssumption DEF FireRecord
<1>4. \A k \in DOMAIN v.called : v.called[k] \in Nat
  BY <1>3, ElementsTyped, PluginsAssumption
<1>5. \A id \in v.had : id <= pushed /\ id # pushed + 1 /\ id <= pushed + 1
  BY <1>1, <1>3 DEF Walking
<1>6. Passed(v)' = Passed(v)
  BY <1>2, <1>5 DEF Passed
<1>7. \A k \in DOMAIN v.called :
        v.called[k] <= pushed' /\ \A i \in DOMAIN plugins' : i >= v.next => v.called[k] < plugins'[i].id
  <2> SUFFICES ASSUME NEW k \in DOMAIN v.called
               PROVE  /\ v.called[k] <= pushed'
                      /\ \A i \in DOMAIN plugins' : i >= v.next => v.called[k] < plugins'[i].id
    OBVIOUS
  <2>0. pushed \in Nat /\ pushed' = pushed + 1
    BY <1>1
  <2>1. PICK c \in Nat : c = v.called[k]
    BY <1>4
  <2>2. c <= pushed /\ \A i \in DOMAIN plugins : i >= v.next => c < plugins[i].id
    BY <2>1 DEF Walking
  <2>3. ASSUME NEW i \in DOMAIN plugins', i >= v.next PROVE c < plugins'[i].id
    <3>1. CASE i = Len(plugins) + 1
      <4>1. plugins'[i].id = pushed + 1
        BY <1>2, <3>1
      <4>2. c < pushed + 1
        BY <2>0, <2>2
      <4>3. QED
        BY <4>1, <4>2
    <3>2. CASE i \in DOMAIN plugins
      <4>1. plugins'[i] = plugins[i]
        BY <1>2, <3>2
      <4>2. c < plugins[i].id
        BY <2>2, <2>3, <3>2, Zenon
      <4>3. QED
        BY <4>1, <4>2
    <3>3. QED
      BY <1>2, <3>1, <3>2
  <2>4. QED
    BY <2>0, <2>1, <2>2, <2>3
<1>8. QED
  BY <1>1, <1>5, <1>6, <1>7 DEF Walking

(* A removal behind the iterator lets one plugin slip past it.             *)
LEMMA WalkingSpliced ==
  ASSUME RegistryIInv, NEW v \in FireRecord, Walking(v), NEW at \in DOMAIN plugins,
         plugins' = RemoveAt(plugins, at), pushed' = pushed,
         NEW u, u = IF at < v.next THEN [v EXCEPT !.shifts = @ + 1] ELSE v
  PROVE  u \in FireRecord /\ Walking(u)'
<1>1. /\ plugins \in Seq(Registration) /\ v.next \in Nat /\ v.shifts \in Nat
      /\ \A i \in DOMAIN plugins : plugins[i].id \in Nat
  BY RegistryFacts DEF FireRecord
<1>2. /\ DOMAIN plugins' = 1..(Len(plugins) - 1) /\ DOMAIN plugins = 1..Len(plugins)
      /\ Len(plugins) \in Nat
      /\ \A i \in DOMAIN plugins' : plugins'[i] = IF i < at THEN plugins[i] ELSE plugins[i + 1]
  BY <1>1, RemovedFacts
<1>3. /\ u \in FireRecord /\ u.next = v.next /\ u.had = v.had /\ u.called = v.called
      /\ u.shifts = IF at < v.next THEN v.shifts + 1 ELSE v.shifts
  <2>1. CASE at < v.next
    <3>1. u = [v EXCEPT !.shifts = v.shifts + 1] /\ v.shifts + 1 \in Nat
      BY <1>1, <2>1
    <3>2. QED
      BY <2>1, <3>1 DEF FireRecord
  <2>2. CASE ~(at < v.next)
    BY <2>2
  <2>3. QED
    BY <2>1, <2>2
<1>4. \A k \in DOMAIN u.called :
        u.called[k] <= pushed' /\ \A i \in DOMAIN plugins' : i >= u.next => u.called[k] < plugins'[i].id
  <2> SUFFICES ASSUME NEW k \in DOMAIN v.called
               PROVE  /\ v.called[k] <= pushed
                      /\ \A i \in DOMAIN plugins' : i >= v.next => v.called[k] < plugins'[i].id
    BY <1>3
  <2>1. /\ v.called[k] <= pushed
        /\ \A i \in DOMAIN plugins : i >= v.next => v.called[k] < plugins[i].id
    BY DEF Walking
  <2>2. \A i \in DOMAIN plugins' : i \in DOMAIN plugins /\ i + 1 \in DOMAIN plugins
    BY <1>2
  <2>3. QED
    BY <1>1, <1>2, <2>1, <2>2
<1>5. Passed(u)' \subseteq (IF at < v.next /\ v.next \in DOMAIN plugins
                           THEN Passed(v) \cup {plugins[v.next].id} ELSE Passed(v))
  <2> SUFFICES ASSUME NEW x \in Passed(u)'
               PROVE  \/ x \in Passed(v)
                      \/ at < v.next /\ v.next \in DOMAIN plugins /\ x = plugins[v.next].id
    OBVIOUS
  <2>1. /\ x \in v.had /\ \A k \in DOMAIN v.called : x # v.called[k]
        /\ \E i \in DOMAIN plugins' : i < v.next /\ plugins'[i].id = x
    BY <1>3 DEF Passed
  <2>2. PICK i \in DOMAIN plugins' : i < v.next /\ plugins'[i].id = x
    BY <2>1
  <2>3. i \in DOMAIN plugins /\ i + 1 \in DOMAIN plugins
    BY <1>2
  <2>4. CASE i < at
    <3>1. plugins[i].id = x
      BY <1>2, <2>2, <2>4
    <3>2. QED
      BY <2>1, <2>2, <2>3, <3>1 DEF Passed
  <2>5. CASE ~(i < at)
    <3>1. plugins[i + 1].id = x
      BY <1>2, <2>2, <2>5
    <3>2. CASE i + 1 < v.next
      BY <2>1, <2>3, <3>1, <3>2 DEF Passed
    <3>3. CASE i + 1 = v.next
      BY <1>2, <2>3, <2>5, <3>1, <3>3
    <3>4. QED
      BY <1>1, <1>2, <2>2, <3>2, <3>3
  <2>6. QED
    BY <2>4, <2>5
<1>6. Cardinality(Passed(u)') <= u.shifts
  <2> DEFINE more == Passed(v) \cup {plugins[v.next].id}
  <2>1. /\ IsFiniteSet(Passed(v)) /\ Cardinality(Passed(v)) \in Nat
        /\ Cardinality(Passed(v)) <= v.shifts
    BY PassedFinite DEF Walking
  <2>2. IsFiniteSet(more) /\ Cardinality(more) <= Cardinality(Passed(v)) + 1
        /\ Cardinality(more) \in Nat
    <3>1. /\ IsFiniteSet(more)
          /\ \/ Cardinality(more) = Cardinality(Passed(v))
             \/ Cardinality(more) = Cardinality(Passed(v)) + 1
      BY <2>1, FS_AddElement
    <3>2. QED
      BY <2>1, <3>1
  <2>3. CASE at < v.next /\ v.next \in DOMAIN plugins
    <3>1. Passed(u)' \subseteq more
      BY <1>5, <2>3
    <3> HIDE DEF more
    <3>2. Cardinality(Passed(u)') <= Cardinality(more) /\ Cardinality(Passed(u)') \in Nat
      BY <2>2, <3>1, FS_Subset, FS_CardinalityType
    <3>3. QED
      BY <1>1, <1>3, <2>1, <2>2, <2>3, <3>2
  <2>4. CASE ~(at < v.next /\ v.next \in DOMAIN plugins)
    <3>1. Passed(u)' \subseteq Passed(v)
      BY <1>5, <2>4
    <3>2. Cardinality(Passed(u)') <= Cardinality(Passed(v)) /\ Cardinality(Passed(u)') \in Nat
      BY <2>1, <3>1, FS_Subset, FS_CardinalityType
    <3>3. QED
      BY <1>1, <1>3, <2>1, <3>2
  <2>5. QED
    BY <2>3, <2>4
<1>7. QED
  BY <1>3, <1>4, <1>6 DEF Walking

NamesTold ==
  /\ names = {plugins[i].name : i \in DOMAIN plugins}
  /\ \A i, j \in DOMAIN plugins : plugins[i].name = plugins[j].name => i = j

LEMMA SpliceKeeps ==
  ASSUME RegistryIInv, NEW n \in PluginNames, Registered(n), Splice(n), pushed' = pushed
  PROVE  /\ plugins' \in Seq(Registration) /\ names' \subseteq PluginNames
         /\ fire' \in [Fires -> FireRecord] /\ InOrder' /\ Walks'
         /\ n \notin names' /\ names' \subseteq names /\ (NamesTold => NamesTold')
<1> DEFINE at == CHOOSE i \in DOMAIN plugins :
                   plugins[i].name = n /\ \A j \in 1..(i - 1) : plugins[j].name # n
<1>1. /\ plugins \in Seq(Registration) /\ names \subseteq PluginNames /\ pushed \in Nat
      /\ fire \in [Fires -> FireRecord] /\ DOMAIN plugins = 1..Len(plugins)
  BY RegistryFacts
<1>2. at \in DOMAIN plugins /\ plugins[at].name = n
  <2> DEFINE S == {i \in DOMAIN plugins : plugins[i].name = n}
  <2>1. S \in SUBSET Nat /\ S # {}
    BY <1>1 DEF Registered
  <2>2. PICK i \in S : \A k \in S : i <= k
    BY <2>1, LeastExists
  <2>3. \A j \in 1..(i - 1) : plugins[j].name # n
    BY <1>1, <2>1, <2>2
  <2>4. QED
    BY <2>2, <2>3
<1>3. /\ plugins' = RemoveAt(plugins, at) /\ names' = names \ {n}
      /\ fire' = [f \in Fires |-> IF fire[f].phase = "hook" /\ at < fire[f].next
                                  THEN [fire[f] EXCEPT !.shifts = @ + 1] ELSE fire[f]]
  BY DEF Splice
<1> HIDE DEF at
<1>4. /\ plugins' \in Seq(Registration) /\ DOMAIN plugins' = 1..(Len(plugins) - 1)
      /\ Len(plugins) \in Nat
      /\ \A i \in DOMAIN plugins' : plugins'[i] = IF i < at THEN plugins[i] ELSE plugins[i + 1]
  BY <1>1, <1>2, <1>3, RemovedFacts
<1>5. InOrder'
  <2>1. \A i \in DOMAIN plugins' : i \in DOMAIN plugins /\ i + 1 \in DOMAIN plugins
    BY <1>1, <1>4
  <2>2. \A i \in DOMAIN plugins' : plugins'[i].id <= pushed'
    BY <1>4, <2>1 DEF RegistryIInv, InOrder
  <2>3. ASSUME NEW i \in DOMAIN plugins', NEW j \in DOMAIN plugins', i < j
        PROVE  plugins'[i].id < plugins'[j].id
    <3>1. (IF i < at THEN i ELSE i + 1) < (IF j < at THEN j ELSE j + 1)
      BY <1>1, <1>2, <1>4, <2>3
    <3>2. QED
      BY <1>4, <2>1, <3>1 DEF RegistryIInv, InOrder
  <2>4. QED
    BY <2>2, <2>3 DEF InOrder
<1>6. \A f \in Fires :
        /\ fire'[f] \in FireRecord /\ fire'[f].phase = fire[f].phase
        /\ fire'[f].called = fire[f].called /\ fire'[f].missed = fire[f].missed
        /\ fire'[f].shifts >= fire[f].shifts
        /\ fire[f].phase # "hook" => fire'[f] = fire[f]
  <2> SUFFICES ASSUME NEW f \in Fires
               PROVE  /\ fire'[f] \in FireRecord /\ fire'[f].phase = fire[f].phase
                      /\ fire'[f].called = fire[f].called /\ fire'[f].missed = fire[f].missed
                      /\ fire'[f].shifts >= fire[f].shifts
                      /\ fire[f].phase # "hook" => fire'[f] = fire[f]
    OBVIOUS
  <2>1. fire[f] \in FireRecord /\ fire[f].shifts \in Nat
    BY <1>1 DEF FireRecord
  <2>2. CASE fire[f].phase = "hook" /\ at < fire[f].next
    <3>1. fire'[f] = [fire[f] EXCEPT !.shifts = fire[f].shifts + 1]
          /\ fire[f].shifts + 1 \in Nat
      BY <1>3, <2>1, <2>2
    <3>2. QED
      BY <2>1, <2>2, <3>1 DEF FireRecord
  <2>3. CASE ~(fire[f].phase = "hook" /\ at < fire[f].next)
    BY <1>3, <2>1, <2>3
  <2>4. QED
    BY <2>2, <2>3
<1>7. ASSUME NEW f \in Fires, fire[f].phase = "hook" PROVE Walking(fire[f])'
  <2>1. PICK v : v = fire[f]
    OBVIOUS
  <2>2. PICK u : u = IF at < v.next THEN [v EXCEPT !.shifts = @ + 1] ELSE v
    OBVIOUS
  <2>3. fire'[f] = u
    BY <1>3, <1>7, <2>1, <2>2
  <2>4. v \in FireRecord /\ Walking(v)
    BY <1>1, <1>7, <2>1 DEF RegistryIInv, Walks
  <2>5. Walking(u)'
    BY <1>2, <1>3, <2>2, <2>4, WalkingSpliced
  <2>6. QED
    BY <2>3, <2>5 DEF Walking, Passed
<1>8. Walks'
  <2>1. \A f \in Fires : Cardinality(fire'[f].missed) <= fire'[f].shifts
    <3> SUFFICES ASSUME NEW f \in Fires PROVE Cardinality(fire'[f].missed) <= fire'[f].shifts
      OBVIOUS
    <3>1. Cardinality(fire[f].missed) <= fire[f].shifts /\ fire[f] \in FireRecord
      BY <1>1 DEF RegistryIInv, Walks
    <3>2. IsFiniteSet(fire[f].missed)
      <4>1. IsFiniteSet(1..MaxPlugins)
        BY PluginsAssumption, FS_Interval
      <4>2. fire[f].missed \subseteq 1..MaxPlugins
        BY <3>1 DEF FireRecord
      <4>3. QED
        BY <4>1, <4>2, FS_Subset
    <3>3. Cardinality(fire[f].missed) \in Nat
      BY <3>2, FS_CardinalityType
    <3>4. fire[f].shifts \in Nat /\ fire'[f].shifts \in Nat
      BY <1>6, <3>1 DEF FireRecord
    <3>5. QED
      BY <1>6, <3>1, <3>3, <3>4
  <2>2. \A f \in Fires : Increasing(fire'[f].called)
    BY <1>6 DEF RegistryIInv, Walks
  <2>3. QED
    BY <1>6, <1>7, <2>1, <2>2 DEF RegistryIInv, Walks
<1>9. ASSUME NamesTold PROVE NamesTold'
  <2>1. \A i \in DOMAIN plugins : plugins[i].name = n => i = at
    BY <1>2, <1>9 DEF NamesTold
  <2>2. \A i \in DOMAIN plugins' :
          /\ (IF i < at THEN i ELSE i + 1) \in DOMAIN plugins
          /\ (IF i < at THEN i ELSE i + 1) # at
          /\ plugins'[i] = plugins[IF i < at THEN i ELSE i + 1]
    BY <1>1, <1>2, <1>4
  <2>3. \A i \in DOMAIN plugins : i # at =>
          \E k \in DOMAIN plugins' : plugins'[k] = plugins[i]
    <3> SUFFICES ASSUME NEW i \in DOMAIN plugins, i # at
                 PROVE  \E k \in DOMAIN plugins' : plugins'[k] = plugins[i]
      OBVIOUS
    <3>1. CASE i < at
      BY <1>1, <1>2, <1>4, <3>1
    <3>2. CASE i > at
      <4>1. i - 1 \in DOMAIN plugins' /\ ~(i - 1 < at) /\ (i - 1) + 1 = i
        BY <1>1, <1>2, <1>4, <3>2
      <4>2. QED
        BY <1>4, <4>1
    <3>3. QED
      BY <1>1, <1>2, <3>1, <3>2
  <2>4. names' = {plugins'[i].name : i \in DOMAIN plugins'}
    <3>1. ASSUME NEW i \in DOMAIN plugins' PROVE plugins'[i].name \in names'
      BY <1>3, <1>9, <2>1, <2>2 DEF NamesTold
    <3>2. ASSUME NEW m \in names' PROVE \E i \in DOMAIN plugins' : plugins'[i].name = m
      <4>1. PICK i \in DOMAIN plugins : plugins[i].name = m
        BY <1>3, <1>9, <3>2 DEF NamesTold
      <4>2. i # at
        BY <1>2, <1>3, <3>2, <4>1
      <4>3. QED
        BY <2>3, <4>1, <4>2
    <3>3. QED
      BY <3>1, <3>2
  <2>5. ASSUME NEW i \in DOMAIN plugins', NEW j \in DOMAIN plugins',
               plugins'[i].name = plugins'[j].name
        PROVE  i = j
    <3>1. (IF i < at THEN i ELSE i + 1) = (IF j < at THEN j ELSE j + 1)
      BY <1>9, <2>2, <2>5 DEF NamesTold
    <3>2. QED
      BY <1>1, <1>2, <1>4, <3>1
  <2>6. QED
    BY <2>4, <2>5 DEF NamesTold
<1>10. QED
  BY <1>1, <1>3, <1>4, <1>5, <1>6, <1>8, <1>9

LEMMA PushKeeps ==
  ASSUME RegistryIInv, NEW n \in PluginNames, Push(n), fire' = fire
  PROVE  /\ plugins' \in Seq(Registration) /\ names' = names \cup {n} /\ pushed' \in 0..MaxPlugins
         /\ InOrder' /\ Walks' /\ (NamesTold /\ n \notin names => NamesTold')
<1>1. /\ plugins \in Seq(Registration) /\ pushed \in Nat /\ fire \in [Fires -> FireRecord]
      /\ \A i \in DOMAIN plugins : plugins[i].id \in Nat
  BY RegistryFacts
<1>2. /\ pushed < MaxPlugins /\ pushed' = pushed + 1 /\ names' = names \cup {n}
      /\ plugins' = Append(plugins, [id |-> pushed + 1, name |-> n])
  BY DEF Push
<1>3. [id |-> pushed + 1, name |-> n] \in Registration /\ pushed' \in 0..MaxPlugins
  BY <1>1, <1>2, PluginsAssumption DEF Registration
<1>4. /\ plugins' \in Seq(Registration)
      /\ DOMAIN plugins' = 1..(Len(plugins) + 1) /\ DOMAIN plugins = 1..Len(plugins)
      /\ Len(plugins) \in Nat /\ plugins'[Len(plugins) + 1] = [id |-> pushed + 1, name |-> n]
      /\ \A i \in DOMAIN plugins : plugins'[i] = plugins[i]
  BY <1>1, <1>2, <1>3
<1>5. InOrder'
  <2>1. /\ \A i \in DOMAIN plugins : plugins'[i].id <= pushed /\ plugins'[i].id \in Nat
        /\ plugins'[Len(plugins) + 1].id = pushed + 1
    BY <1>1, <1>4 DEF RegistryIInv, InOrder
  <2>2. \A i \in DOMAIN plugins' : plugins'[i].id <= pushed'
    BY <1>1, <1>2, <1>4, <2>1
  <2>3. ASSUME NEW i \in DOMAIN plugins', NEW j \in DOMAIN plugins', i < j
        PROVE  plugins'[i].id < plugins'[j].id
    <3>1. i \in DOMAIN plugins
      BY <1>4, <2>3
    <3>2. CASE j \in DOMAIN plugins
      BY <1>4, <2>3, <3>1, <3>2 DEF RegistryIInv, InOrder
    <3>3. CASE j = Len(plugins) + 1
      BY <1>1, <2>1, <3>1, <3>3
    <3>4. QED
      BY <1>4, <3>2, <3>3
  <2>4. QED
    BY <2>2, <2>3 DEF InOrder
<1>6. Walks'
  <2>1. ASSUME NEW f \in Fires, fire[f].phase = "hook" PROVE Walking(fire[f])'
    <3>1. PICK v : v = fire[f]
      OBVIOUS
    <3>2. v \in FireRecord /\ Walking(v)
      BY <1>1, <2>1, <3>1 DEF RegistryIInv, Walks
    <3>3. Walking(v)'
      BY <3>2, WalkingPushed
    <3>4. QED
      BY <3>1, <3>3 DEF Walking, Passed
  <2>2. QED
    BY <2>1 DEF RegistryIInv, Walks
<1>7. ASSUME NamesTold, n \notin names PROVE NamesTold'
  <2>1. names' = {plugins'[i].name : i \in DOMAIN plugins'}
    BY <1>2, <1>4, <1>7 DEF NamesTold
  <2>2. \A i \in DOMAIN plugins : plugins[i].name # n
    BY <1>7 DEF NamesTold
  <2>3. ASSUME NEW i \in DOMAIN plugins', NEW j \in DOMAIN plugins',
               plugins'[i].name = plugins'[j].name
        PROVE  i = j
    BY <1>4, <1>7, <2>2, <2>3 DEF NamesTold
  <2>4. QED
    BY <2>1, <2>3 DEF NamesTold
<1>8. QED
  BY <1>2, <1>3, <1>4, <1>5, <1>6, <1>7

(* A walk calls the next plugin or is over; destroyAll() empties the array *)
(* under the others.                                                       *)
LEMMA VisitKeeps ==
  ASSUME RegistryIInv, NEW f \in Fires, NEW w \in FireRecord, Walking(w), Increasing(w.called),
         Cardinality(w.missed) <= w.shifts, Visit(f, w), UNCHANGED <<pushed, adder, doubled>>
  PROVE  RegistryIInv'
<1>1. /\ plugins \in Seq(Registration) /\ names \subseteq PluginNames /\ pushed \in Nat
      /\ fire \in [Fires -> FireRecord]
  BY RegistryFacts
<1>2. CASE w.next <= Len(plugins)
  <2>1. PICK v : v = [w EXCEPT !.phase = "hook", !.next = @ + 1,
                               !.called = Append(@, plugins[w.next].id)]
    OBVIOUS
  <2>2. fire' = [fire EXCEPT ![f] = v] /\ UNCHANGED <<plugins, names, pushed, adder, doubled>>
    BY <1>2, <2>1 DEF Visit
  <2>3. /\ v \in FireRecord /\ Walking(v) /\ Increasing(v.called)
        /\ v.missed = w.missed /\ v.shifts = w.shifts /\ v.phase = "hook"
    BY <1>2, <2>1, CallInOrder
  <2>4. fire' \in [Fires -> FireRecord] /\ fire'[f] = v
        /\ \A g \in Fires : g # f => fire'[g] = fire[g]
    BY <1>1, <2>2, <2>3
  <2>5. PluginsTypeOK'
    BY <2>2, <2>4 DEF RegistryIInv, PluginsTypeOK, FireRecord
  <2>6. InOrder' /\ NamesOnce'
    BY <2>2 DEF RegistryIInv, InOrder, NamesOnce
  <2>7. Walks'
    <3>1. \A g \in Fires : fire'[g].phase = "hook" => Walking(fire'[g])
      BY <2>3, <2>4 DEF RegistryIInv, Walks
    <3>2. \A x : Walking(x)' <=> Walking(x)
      BY <2>2 DEF Walking, Passed
    <3>3. \A g \in Fires : fire'[g].phase = "hook" => Walking(fire[g])'
      BY <3>1, <2>2 DEF Walking, Passed
    <3>4. \A g \in Fires : /\ fire'[g].phase = "new" => fire'[g] = NewFire
                           /\ Increasing(fire'[g].called)
                           /\ Cardinality(fire'[g].missed) <= fire'[g].shifts
      BY <2>3, <2>4 DEF RegistryIInv, Walks
    <3>5. QED
      BY <3>3, <3>4 DEF Walks
  <2>8. QED
    BY <2>5, <2>6, <2>7 DEF RegistryIInv
<1>3. CASE ~(w.next <= Len(plugins))
  <2>1. PICK v : v = [w EXCEPT !.phase = "over",
                               !.missed = (w.had \cap IdsOf(plugins)) \ ToSet(w.called)]
    OBVIOUS
  <2>2. /\ fire' = [fire EXCEPT ![f] = v] /\ UNCHANGED <<pushed, adder, doubled>>
        /\ \/ plugins' = <<>> /\ names' = {}
           \/ UNCHANGED <<plugins, names>>
    BY <1>3, <2>1 DEF Visit
  <2>3. /\ v \in FireRecord /\ v.phase = "over" /\ v.called = w.called
        /\ Cardinality(v.missed) <= v.shifts
    BY <1>3, <2>1, MissedIsPassed
  <2>4. fire' \in [Fires -> FireRecord] /\ fire'[f] = v
        /\ \A g \in Fires : g # f => fire'[g] = fire[g]
    BY <1>1, <2>2, <2>3
  <2>5. PluginsTypeOK'
    <3>1. plugins' \in Seq(Registration) /\ names' \subseteq PluginNames
      <4>1. CASE plugins' = <<>> /\ names' = {}
        <5>1. <<>> \in Seq(Registration)
          OBVIOUS
        <5>2. QED
          BY <4>1, <5>1
      <4>2. CASE UNCHANGED <<plugins, names>>
        <5>1. plugins' = plugins /\ names' = names
          BY <4>2
        <5>2. QED
          BY <5>1, <1>1
      <4>3. QED
        BY <4>1, <4>2, <2>2
    <3>2. /\ pushed' \in 0..MaxPlugins /\ adder' \in [Adders -> SUBSET PluginNames]
          /\ doubled' \subseteq PluginNames
      BY <2>2 DEF RegistryIInv, PluginsTypeOK
    <3>3. QED
      BY <2>4, <3>1, <3>2 DEF PluginsTypeOK, FireRecord
  <2>6. InOrder'
    BY <2>2 DEF RegistryIInv, InOrder
  <2>7. NamesOnce'
    BY <2>2 DEF RegistryIInv, NamesOnce
  <2>8. Walks'
    <3>1. ASSUME NEW g \in Fires, fire'[g].phase = "hook" PROVE Walking(fire[g])'
      <4>1. g # f /\ fire'[g] = fire[g]
        BY <2>3, <2>4, <3>1
      <4>2. PICK x : x = fire[g]
        OBVIOUS
      <4>3. x \in FireRecord /\ Walking(x)
        BY <1>1, <3>1, <4>1, <4>2 DEF RegistryIInv, Walks
      <4>4. Walking(x)'
        BY <2>2, <4>3, WalkingAlong, WalkingEmptied
      <4>5. QED
        BY <4>1, <4>2, <4>4 DEF Walking, Passed
    <3>2. \A g \in Fires : /\ fire'[g].phase = "new" => fire'[g] = NewFire
                           /\ Increasing(fire'[g].called)
                           /\ Cardinality(fire'[g].missed) <= fire'[g].shifts
      BY <2>3, <2>4 DEF RegistryIInv, Walks
    <3>3. QED
      BY <3>1, <3>2 DEF Walks
  <2>9. QED
    BY <2>5, <2>6, <2>7, <2>8 DEF RegistryIInv
<1>4. QED
  BY <1>2, <1>3

LEMMA FireHooksKeeps ==
  ASSUME RegistryIInv, NEW f \in Fires, NEW kind \in FireKinds, FireHooks(f, kind)
  PROVE  RegistryIInv'
<1>1. PICK w : w = [fire[f] EXCEPT !.kind = kind, !.had = IdsOf(plugins)]
  OBVIOUS
<1>2. Visit(f, w) /\ UNCHANGED <<pushed, adder, doubled>> /\ fire[f].phase = "new"
  BY <1>1 DEF FireHooks
<1>3. fire[f] = NewFire /\ fire[f] \in FireRecord /\ Cardinality(fire[f].missed) <= fire[f].shifts
      /\ Increasing(fire[f].called)
  BY <1>2, RegistryFacts DEF RegistryIInv, Walks
<1>4. IdsOf(plugins) \subseteq 1..MaxPlugins
  BY RegistryFacts DEF IdsOf
<1>5. /\ w \in FireRecord /\ w.had = IdsOf(plugins) /\ w.next = 1 /\ w.called = <<>>
      /\ w.missed = fire[f].missed /\ w.shifts = fire[f].shifts /\ w.shifts = 0
  <2>1. fire[f].next = 1 /\ fire[f].called = <<>> /\ fire[f].shifts = 0
    BY <1>3 DEF NewFire
  <2>2. QED
    BY <1>1, <1>3, <1>4, <2>1 DEF FireRecord
<1>6. Walking(w)
  <2>1. Passed(w) = {}
    BY <1>5, RegistryFacts DEF Passed
  <2>2. Cardinality(Passed(w)) <= w.shifts
    BY <1>5, <2>1, FS_EmptySet
  <2>3. \A id \in w.had : id <= pushed
    BY <1>5 DEF IdsOf, RegistryIInv, InOrder
  <2>4. QED
    BY <1>5, <2>2, <2>3 DEF Walking
<1>7. Increasing(w.called)
  BY <1>5 DEF Increasing
<1>8. QED
  BY <1>2, <1>3, <1>5, <1>6, <1>7, VisitKeeps

LEMMA HookSettlesKeeps == ASSUME RegistryIInv, NEW f \in Fires, HookSettles(f) PROVE RegistryIInv'
<1>1. /\ Visit(f, fire[f]) /\ UNCHANGED <<pushed, adder, doubled>> /\ fire[f] \in FireRecord
      /\ Walking(fire[f]) /\ Increasing(fire[f].called)
      /\ Cardinality(fire[f].missed) <= fire[f].shifts
  BY RegistryFacts DEF HookSettles, RegistryIInv, Walks
<1>2. PICK w : w = fire[f]
  OBVIOUS
<1>3. /\ Visit(f, w) /\ w \in FireRecord /\ Walking(w) /\ Increasing(w.called)
      /\ Cardinality(w.missed) <= w.shifts
  BY <1>1, <1>2
<1>4. QED
  BY <1>1, <1>3, VisitKeeps

LEMMA HookThrowsKeeps ==
  ASSUME RegistryIInv, NEW f \in Fires, RequestHookThrows(f) PROVE RegistryIInv'
<1>1. /\ fire \in [Fires -> FireRecord] /\ fire[f] \in FireRecord
      /\ fire' = [fire EXCEPT ![f].phase = "threw"]
      /\ UNCHANGED <<plugins, names, pushed, adder, doubled>>
  BY RegistryFacts DEF RequestHookThrows
<1>2. /\ fire' \in [Fires -> FireRecord] /\ fire'[f].phase = "threw"
      /\ fire'[f].called = fire[f].called /\ fire'[f].missed = fire[f].missed
      /\ fire'[f].shifts = fire[f].shifts
      /\ \A g \in Fires : g # f => fire'[g] = fire[g]
  BY <1>1 DEF FireRecord
<1>3. PluginsTypeOK'
  BY <1>1, <1>2 DEF RegistryIInv, PluginsTypeOK, FireRecord
<1>4. InOrder' /\ NamesOnce'
  BY <1>1 DEF RegistryIInv, InOrder, NamesOnce
<1>5. Walks'
  <2>1. ASSUME NEW g \in Fires, fire'[g].phase = "hook" PROVE Walking(fire[g])'
    <3>1. g # f /\ fire'[g] = fire[g]
      BY <1>2, <2>1
    <3>2. Walking(fire[g])
      BY <2>1, <3>1 DEF RegistryIInv, Walks
    <3>3. QED
      BY <1>1, <3>1, <3>2 DEF Walking, Passed
  <2>2. \A g \in Fires : /\ fire'[g].phase = "new" => fire'[g] = NewFire
                         /\ Increasing(fire'[g].called)
                         /\ Cardinality(fire'[g].missed) <= fire'[g].shifts
    BY <1>2 DEF RegistryIInv, Walks
  <2>3. QED
    BY <2>1, <2>2 DEF Walks
<1>6. QED
  BY <1>3, <1>4, <1>5 DEF RegistryIInv

(* add(): a name that another call is replacing is an overlap.             *)
LEMMA AddPluginKeeps ==
  ASSUME RegistryIInv, NEW a \in Adders, NEW n \in PluginNames, AddPlugin(a, n)
  PROVE  RegistryIInv'
<1>1. /\ adder[a] = {} /\ adder \in [Adders -> SUBSET PluginNames]
      /\ doubled' = doubled \cup {m \in {n} : \E b \in Adders \ {a} : m \in adder[b]}
      /\ doubled' \subseteq PluginNames /\ fire \in [Fires -> FireRecord]
      /\ names \subseteq PluginNames /\ pushed \in 0..MaxPlugins
  BY RegistryFacts DEF AddPlugin, RegistryIInv, PluginsTypeOK
<1>2. ASSUME doubled' = {}
      PROVE  /\ doubled = {} /\ \A b \in Adders : n \notin adder[b]
             /\ NamesTold /\ \A b \in Adders : adder[b] \cap names = {}
             /\ \A b, c \in Adders : b # c => adder[b] \cap adder[c] = {}
  BY <1>1, <1>2 DEF RegistryIInv, NamesOnce, NamesTold
<1>3. CASE n \in names /\ Registered(n)
  <2>1. Splice(n) /\ adder' = [adder EXCEPT ![a] = {n}] /\ pushed' = pushed
    BY <1>3 DEF AddPlugin
  <2>2. /\ plugins' \in Seq(Registration) /\ names' \subseteq PluginNames
        /\ fire' \in [Fires -> FireRecord] /\ InOrder' /\ Walks'
        /\ n \notin names' /\ names' \subseteq names /\ (NamesTold => NamesTold')
    BY <1>3, <2>1, SpliceKeeps
  <2>3. adder' \in [Adders -> SUBSET PluginNames]
        /\ \A b \in Adders : adder'[b] = IF b = a THEN {n} ELSE adder[b]
    BY <1>1, <2>1
  <2>4. PluginsTypeOK'
    BY <1>1, <2>1, <2>2, <2>3 DEF PluginsTypeOK, FireRecord
  <2>5. NamesOnce'
    <3> SUFFICES ASSUME doubled' = {}
                 PROVE  /\ NamesTold' /\ \A b \in Adders : adder'[b] \cap names' = {}
                        /\ \A b, c \in Adders : b # c => adder'[b] \cap adder'[c] = {}
      BY DEF NamesOnce, NamesTold
    <3>1. NamesTold'
      BY <1>2, <2>2
    <3>2. \A b \in Adders : adder'[b] \cap names' = {}
      BY <1>2, <2>2, <2>3
    <3>3. \A b, c \in Adders : b # c => adder'[b] \cap adder'[c] = {}
      BY <1>2, <2>3
    <3>4. QED
      BY <3>1, <3>2, <3>3
  <2>6. QED
    BY <2>2, <2>4, <2>5 DEF RegistryIInv
<1>4. CASE ~(n \in names /\ Registered(n))
  <2>1. Push(n) /\ UNCHANGED <<adder, fire>>
    BY <1>4 DEF AddPlugin
  <2>2. /\ plugins' \in Seq(Registration) /\ names' = names \cup {n} /\ pushed' \in 0..MaxPlugins
        /\ InOrder' /\ Walks' /\ (NamesTold /\ n \notin names => NamesTold')
    BY <2>1, PushKeeps
  <2>3. PluginsTypeOK'
    BY <1>1, <2>1, <2>2 DEF PluginsTypeOK, FireRecord
  <2>4. NamesOnce'
    <3> SUFFICES ASSUME doubled' = {}
                 PROVE  /\ NamesTold' /\ \A b \in Adders : adder'[b] \cap names' = {}
                        /\ \A b, c \in Adders : b # c => adder'[b] \cap adder'[c] = {}
      BY DEF NamesOnce, NamesTold
    <3>1. n \notin names
      BY <1>2, <1>4 DEF NamesTold, Registered
    <3>2. NamesTold'
      BY <1>2, <2>2, <3>1
    <3>3. QED
      BY <1>2, <2>1, <2>2, <3>2
  <2>5. QED
    BY <2>2, <2>3, <2>4 DEF RegistryIInv
<1>5. QED
  BY <1>3, <1>4

LEMMA ReplaceKeeps == ASSUME RegistryIInv, NEW a \in Adders, Replace(a) PROVE RegistryIInv'
<1>1. PICK n \in adder[a] : /\ Push(n) /\ adder' = [adder EXCEPT ![a] = {}]
                            /\ UNCHANGED <<fire, doubled>>
  BY DEF Replace
<1>2. /\ n \in PluginNames /\ adder \in [Adders -> SUBSET PluginNames]
      /\ names \subseteq PluginNames /\ fire \in [Fires -> FireRecord]
      /\ doubled \subseteq PluginNames
  BY RegistryFacts
<1>3. /\ plugins' \in Seq(Registration) /\ names' = names \cup {n} /\ pushed' \in 0..MaxPlugins
      /\ InOrder' /\ Walks' /\ (NamesTold /\ n \notin names => NamesTold')
  BY <1>1, <1>2, PushKeeps
<1>4. adder' \in [Adders -> SUBSET PluginNames]
      /\ \A b \in Adders : adder'[b] = IF b = a THEN {} ELSE adder[b]
  BY <1>1, <1>2
<1>5. PluginsTypeOK'
  BY <1>1, <1>2, <1>3, <1>4 DEF PluginsTypeOK, FireRecord
<1>6. NamesOnce'
  <2> SUFFICES ASSUME doubled = {}
               PROVE  /\ NamesTold' /\ \A b \in Adders : adder'[b] \cap names' = {}
                      /\ \A b, c \in Adders : b # c => adder'[b] \cap adder'[c] = {}
    BY <1>1 DEF NamesOnce, NamesTold
  <2>1. /\ NamesTold /\ \A b \in Adders : adder[b] \cap names = {}
        /\ \A b, c \in Adders : b # c => adder[b] \cap adder[c] = {}
    BY DEF RegistryIInv, NamesOnce, NamesTold
  <2>2. n \notin names /\ \A b \in Adders : b # a => n \notin adder[b]
    BY <1>1, <2>1
  <2>3. NamesTold'
    BY <1>3, <2>1, <2>2
  <2>4. QED
    BY <1>3, <1>4, <2>1, <2>2, <2>3
<1>7. QED
  BY <1>3, <1>5, <1>6 DEF RegistryIInv

LEMMA RemovePluginKeeps ==
  ASSUME RegistryIInv, NEW n \in PluginNames, RemovePlugin(n) PROVE RegistryIInv'
<1>1. Registered(n) /\ Splice(n) /\ UNCHANGED <<pushed, adder, doubled>>
  BY DEF RemovePlugin
<1>2. /\ plugins' \in Seq(Registration) /\ names' \subseteq PluginNames
      /\ fire' \in [Fires -> FireRecord] /\ InOrder' /\ Walks'
      /\ n \notin names' /\ names' \subseteq names /\ (NamesTold => NamesTold')
  BY <1>1, SpliceKeeps
<1>3. PluginsTypeOK'
  BY <1>1, <1>2 DEF RegistryIInv, PluginsTypeOK, FireRecord
<1>4. NamesOnce'
  <2> SUFFICES ASSUME doubled = {}
               PROVE  /\ NamesTold' /\ \A b \in Adders : adder[b] \cap names' = {}
                      /\ \A b, c \in Adders : b # c => adder[b] \cap adder[c] = {}
    BY <1>1 DEF NamesOnce, NamesTold
  <2>1. /\ NamesTold /\ \A b \in Adders : adder[b] \cap names = {}
        /\ \A b, c \in Adders : b # c => adder[b] \cap adder[c] = {}
    BY DEF RegistryIInv, NamesOnce, NamesTold
  <2>2. QED
    BY <1>2, <2>1
<1>5. QED
  BY <1>2, <1>3, <1>4 DEF RegistryIInv

LEMMA RegistryStart == PluginsInit => RegistryIInv
<1> SUFFICES ASSUME PluginsInit PROVE RegistryIInv
  OBVIOUS
<1>1. NewFire \in FireRecord /\ NewFire.phase = "new" /\ NewFire.called = <<>>
      /\ NewFire.missed = {} /\ NewFire.shifts = 0
  BY DEF NewFire, FireRecord, FireKinds
<1>2. fire \in [Fires -> FireRecord] /\ \A f \in Fires : fire[f] = NewFire
  BY <1>1 DEF PluginsInit
<1>3. PluginsTypeOK
  BY <1>2, PluginsAssumption DEF PluginsInit, PluginsTypeOK, FireRecord
<1>4. InOrder /\ NamesOnce
  BY DEF PluginsInit, InOrder, NamesOnce
<1>5. Walks
  <2>1. Increasing(<<>>) /\ Cardinality({}) <= 0
    BY FS_EmptySet DEF Increasing
  <2>2. ASSUME NEW f \in Fires
        PROVE  /\ fire[f] = NewFire /\ fire[f].phase # "hook" /\ Increasing(fire[f].called)
               /\ Cardinality(fire[f].missed) <= fire[f].shifts
    <3>1. /\ fire[f] = NewFire /\ fire[f].phase = "new" /\ fire[f].called = <<>>
          /\ fire[f].missed = {} /\ fire[f].shifts = 0
      BY <1>1, <1>2
    <3>2. QED
      BY <2>1, <3>1
  <2>3. QED
    BY <2>2 DEF Walks
<1>6. QED
  BY <1>3, <1>4, <1>5 DEF RegistryIInv

LEMMA RegistryStep == RegistryIInv /\ [PluginsNext]_pluginVars => RegistryIInv'
<1> SUFFICES ASSUME RegistryIInv, [PluginsNext]_pluginVars PROVE RegistryIInv'
  OBVIOUS
<1>1. ASSUME NEW f \in Fires, NEW kind \in FireKinds, FireHooks(f, kind) PROVE RegistryIInv'
  BY <1>1, FireHooksKeeps
<1>2. ASSUME NEW f \in Fires, HookSettles(f) \/ RequestHookThrows(f) PROVE RegistryIInv'
  BY <1>2, HookSettlesKeeps, HookThrowsKeeps
<1>3. ASSUME NEW a \in Adders, NEW n \in PluginNames, AddPlugin(a, n) PROVE RegistryIInv'
  BY <1>3, AddPluginKeeps
<1>4. ASSUME NEW a \in Adders, Replace(a) PROVE RegistryIInv'
  BY <1>4, ReplaceKeeps
<1>5. ASSUME NEW n \in PluginNames, RemovePlugin(n) PROVE RegistryIInv'
  BY <1>5, RemovePluginKeeps
<1>6. CASE UNCHANGED pluginVars
  <2>1. UNCHANGED <<plugins, names, pushed, adder, fire, doubled>>
    BY <1>6 DEF pluginVars
  <2>2. PluginsTypeOK' /\ InOrder' /\ NamesOnce'
    BY <2>1 DEF RegistryIInv, PluginsTypeOK, InOrder, NamesOnce
  <2>3. Walks'
    <3>1. \A f \in Fires : Passed(fire[f])' = Passed(fire[f])
      BY <2>1 DEF Passed
    <3>2. \A f \in Fires : Walking(fire[f]) => Walking(fire[f])'
      BY <2>1, <3>1 DEF Walking
    <3>3. QED
      BY <2>1, <3>2 DEF RegistryIInv, Walks
  <2>4. QED
    BY <2>2, <2>3 DEF RegistryIInv
<1>7. QED
  BY <1>1, <1>2, <1>3, <1>4, <1>5, <1>6 DEF PluginsNext

LEMMA RegistryImplies == RegistryIInv => RegistryCoherent
BY DEF RegistryIInv, Walks, Increasing, NamesOnce, RegistryCoherent

----------------------------------------------------------------------------
(* Role-based access: what the limiter holds and has granted, and what is  *)
(* spent and still in progress, add up to what was available.              *)

(* One limiter per user; what it granted and still holds came with its     *)
(* making and with the ticks up to its last refill.                        *)
GrantsCovered ==
  \A u \in Users :
    /\ tally.born[u] <= tally.high
    /\ bucket[u] = {} => tally.granted[u] = 0
    /\ \A l, k \in bucket[u] : l = k
    /\ \A l \in bucket[u] :
         /\ tally.born[u] <= l.at /\ l.at <= tally.high
         /\ tally.granted[u] * Window + l.tokens <= Capacity * (Window + (l.at - tally.born[u]))

(* Every request in progress may still cost MaxCharge.                     *)
SpendCovered ==
  \A u \in Users :
    /\ running[u] <= tally.peak[u]
    /\ \A b \in policy.budget :
         strict => purses[u] + MaxCharge * running[u] <= Most(b - 1, 0) + MaxCharge * tally.peak[u]

AccessIInv ==
  AuthorizationTypeOK /\ clock <= tally.high /\ AllowedByPolicy /\ GrantsCovered /\ SpendCovered

----------------------------------------------------------------------------
(* What a decision without a reason to refuse has checked.                 *)

LEMMA BecauseEmpty ==
  ASSUME NEW why, NEW condition PROVE Because(why, condition) = {} <=> ~condition
BY DEF Because

LEMMA RoleAllows ==
  ASSUME NEW p, NEW r, NEW isStrict \in BOOLEAN
  PROVE  RoleRefusals(p, r, isStrict) = {} <=>
           /\ p.malformed \ {"budget"} = {}
           /\ ~(isStrict /\ Restricts(p.providers) /\ r.provider = "")
           /\ ~(r.provider # "" /\ \E l \in p.providers : l # {} /\ r.provider \notin l)
           /\ ~(isStrict /\ Restricts(p.models) /\ r.model = "")
           /\ ~(r.model # "" /\ \E l \in p.models : l # {} /\ \A m \in l : r.model \notin m)
           /\ ~(r.tool # "" /\ \E l \in p.denied : r.tool \in l)
           /\ ~(r.tool # "" /\ \E l \in p.tools : l # {} /\ r.tool \notin l)
           /\ ~(\E n \in p.tokens, want \in r.tokens : want > n)
<1> DEFINE A == Because("invalid", p.malformed \ {"budget"} # {})
           B == Because("unidentified", isStrict /\ Restricts(p.providers) /\ r.provider = "")
           C == Because("provider",
                  r.provider # "" /\ \E l \in p.providers : l # {} /\ r.provider \notin l)
           D == Because("unidentified", isStrict /\ Restricts(p.models) /\ r.model = "")
           E == Because("model",
                  r.model # "" /\ \E l \in p.models : l # {} /\ \A m \in l : r.model \notin m)
           F == Because("tool", r.tool # "" /\ \E l \in p.denied : r.tool \in l)
           G == Because("tool", r.tool # "" /\ \E l \in p.tools : l # {} /\ r.tool \notin l)
           H == Because("tokens", \E n \in p.tokens, want \in r.tokens : want > n)
<1>1. RoleRefusals(p, r, isStrict) = UNION {A, B, C, D, E, F, G, H}
  BY Zenon DEF RoleRefusals
<1>2. A = {} <=> p.malformed \ {"budget"} = {}
  BY Zenon, BecauseEmpty
<1>3. B = {} <=> ~(isStrict /\ Restricts(p.providers) /\ r.provider = "")
  BY Zenon, BecauseEmpty
<1>4. C = {} <=> ~(r.provider # "" /\ \E l \in p.providers : l # {} /\ r.provider \notin l)
  BY Zenon, BecauseEmpty
<1>5. D = {} <=> ~(isStrict /\ Restricts(p.models) /\ r.model = "")
  BY Zenon, BecauseEmpty
<1>6. E = {} <=> ~(r.model # "" /\ \E l \in p.models : l # {} /\ \A m \in l : r.model \notin m)
  BY Zenon, BecauseEmpty
<1>7. F = {} <=> ~(r.tool # "" /\ \E l \in p.denied : r.tool \in l)
  BY Zenon, BecauseEmpty
<1>8. G = {} <=> ~(r.tool # "" /\ \E l \in p.tools : l # {} /\ r.tool \notin l)
  BY Zenon, BecauseEmpty
<1>9. H = {} <=> ~(\E n \in p.tokens, want \in r.tokens : want > n)
  BY Zenon, BecauseEmpty
<1> HIDE DEF A, B, C, D, E, F, G, H
<1>10. UNION {A, B, C, D, E, F, G, H} = {} <=>
         A = {} /\ B = {} /\ C = {} /\ D = {} /\ E = {} /\ F = {} /\ G = {} /\ H = {}
  OBVIOUS
<1>11. QED
  BY Zenon, <1>1, <1>2, <1>3, <1>4, <1>5, <1>6, <1>7, <1>8, <1>9, <1>10

(* What a decision without a reason to refuse has found of the role, the   *)
(* purse and the request.                                                  *)
LEMMA RefusalsEmpty ==
  ASSUME NEW p, NEW request, NEW isStrict \in BOOLEAN, NEW purse,
         Refusals(TRUE, p, request, isStrict, purse) = {}
  PROVE  /\ \A b \in p.budget, s \in purse : ~(s >= b)
         /\ isStrict => request # {}
         /\ isStrict => (Budgeted(p) => purse # {})
         /\ \A r \in request : RoleRefusals(p, r, isStrict) = {}
<1> DEFINE A == Because("purse", isStrict /\ Budgeted(p) /\ purse = {})
           B == Because("budget", \E b \in p.budget, s \in purse : s >= b)
           C == Because("unidentified", isStrict /\ request = {})
           D == {RoleRefusals(p, r, isStrict) : r \in request}
<1>1. UNION ({A, B, C} \cup D) = {}
  BY Zenon DEF Refusals
<1>2. (\A d \in D : d = {}) => \A r \in request : RoleRefusals(p, r, isStrict) = {}
  OBVIOUS
<1> HIDE DEF A, B, C, D
<1>3. A = {} /\ B = {} /\ C = {} /\ \A d \in D : d = {}
  BY <1>1
<1> USE DEF A, B, C
<1>4. ~(isStrict /\ Budgeted(p) /\ purse = {})
  BY Zenon, <1>3, BecauseEmpty
<1>5. ~(\E b \in p.budget, s \in purse : s >= b)
  BY Zenon, <1>3, BecauseEmpty
<1>6. ~(isStrict /\ request = {})
  BY Zenon, <1>3, BecauseEmpty
<1>7. QED
  BY Zenon, <1>2, <1>3, <1>4, <1>5, <1>6

LEMMA PermissionIs ==
  ASSUME NEW p, NEW r, RoleRefusals(p, [r EXCEPT !.tool = ""], FALSE) = {}
  PROVE  CheckPermission(p, r)
<1>1. PICK q : q = [r EXCEPT !.tool = ""]
  OBVIOUS
<1> DEFINE A == Because("purse", FALSE /\ Budgeted(p) /\ {} = {})
           B == Because("budget", \E b \in p.budget, s \in {} : s >= b)
           C == Because("unidentified", FALSE /\ {q} = {})
           D == {RoleRefusals(p, x, FALSE) : x \in {q}}
<1>2. A = {} /\ B = {} /\ C = {}
  BY DEF Because
<1>3. \A d \in D : d = {}
  BY <1>1
<1>4. Refusals(TRUE, p, {q}, FALSE, {}) = UNION ({A, B, C} \cup D)
  BY Zenon DEF Refusals
<1> HIDE DEF A, B, C, D
<1>5. UNION ({A, B, C} \cup D) = {}
  BY <1>2, <1>3
<1>6. QED
  BY <1>1, <1>4, <1>5 DEF CheckPermission

(* Whatever the middleware lets through is within its policy.              *)
LEMMA ResolvedRequest ==
  ASSUME NEW w \in WireRequests, NEW r \in ResolveRequest(w)
  PROVE  /\ r = [provider |-> r.provider, model |-> r.model, tokens |-> r.tokens, tool |-> r.tool]
         /\ r.tokens = w.body.tokens
<1>1. r = [provider |-> IF w.body.provider # "" THEN w.body.provider ELSE w.url,
           model |-> w.body.model, tokens |-> w.body.tokens, tool |-> w.body.tool]
  BY Zenon DEF ResolveRequest
<1>2. QED
  BY <1>1

LEMMA PermissionFollows ==
  ASSUME NEW p, NEW r, NEW isStrict \in BOOLEAN,
         r = [provider |-> r.provider, model |-> r.model, tokens |-> r.tokens, tool |-> r.tool],
         RoleRefusals(p, r, isStrict) = {}
  PROVE  CheckPermission(p, r)
<1>1. PICK q : q = [r EXCEPT !.tool = ""]
  OBVIOUS
<1>2. q.provider = r.provider /\ q.model = r.model /\ q.tokens = r.tokens /\ q.tool = ""
  BY <1>1
<1>3. RoleRefusals(p, q, FALSE) = {}
  <2>1. /\ p.malformed \ {"budget"} = {}
        /\ ~(r.provider # "" /\ \E l \in p.providers : l # {} /\ r.provider \notin l)
        /\ ~(r.model # "" /\ \E l \in p.models : l # {} /\ \A m \in l : r.model \notin m)
        /\ ~(\E n \in p.tokens, want \in r.tokens : want > n)
    BY RoleAllows
  <2>2. QED
    BY <1>2, <2>1, RoleAllows
<1>4. QED
  BY <1>1, <1>3, PermissionIs

(* What AllowedByPolicy asks of one request, and of one decision.          *)
WithinPolicy(p, r, isStrict) ==
  /\ \A l \in p.providers : l = {} \/ r.provider \in l \cup {""}
  /\ \A l \in p.models : l = {} \/ r.model = "" \/ \E m \in l : r.model \in m
  /\ \A l \in p.tools : l = {} \/ r.tool \in l \cup {""}
  /\ \A l \in p.denied : r.tool \notin l \ {""}
  /\ \A n \in p.tokens, want \in r.tokens : want <= n
  /\ p.malformed \subseteq {"budget"}
  /\ CheckPermission(p, r)
  /\ isStrict => (Restricts(p.providers) => r.provider # "")
                 /\ (Restricts(p.models) => r.model # "")

Decided(p, isStrict, v) ==
  /\ Allowed(v) /\ v.known =>
       /\ \A r \in v.request : WithinPolicy(p, r, isStrict)
       /\ isStrict => v.request # {} /\ (Budgeted(p) => v.purse # {})
  /\ Allowed(v) /\ isStrict => v.known
  /\ Validates(p) => "invalid" \notin v.why

LEMMA DecidedIs == AllowedByPolicy <=> Decided(policy, strict, verdict)
BY DEF AllowedByPolicy, Decided, WithinPolicy

LEMMA DecisionAllowed ==
  ASSUME NEW p \in RolePolicies, NEW w \in WireRequests, NEW isStrict \in BOOLEAN, NEW purse,
         Refusals(TRUE, p, ResolveRequest(w), isStrict, purse) = {}
  PROVE  /\ \A r \in ResolveRequest(w) : WithinPolicy(p, r, isStrict)
         /\ isStrict => ResolveRequest(w) # {} /\ (Budgeted(p) => purse # {})
<1>1. PICK q : q = ResolveRequest(w)
  OBVIOUS
<1>2. ASSUME NEW r \in ResolveRequest(w) PROVE WithinPolicy(p, r, isStrict)
  <2>1. RoleRefusals(p, r, isStrict) = {}
    BY <1>1, RefusalsEmpty
  <2>2. /\ p.malformed \ {"budget"} = {}
        /\ ~(isStrict /\ Restricts(p.providers) /\ r.provider = "")
        /\ ~(r.provider # "" /\ \E l \in p.providers : l # {} /\ r.provider \notin l)
        /\ ~(isStrict /\ Restricts(p.models) /\ r.model = "")
        /\ ~(r.model # "" /\ \E l \in p.models : l # {} /\ \A m \in l : r.model \notin m)
        /\ ~(r.tool # "" /\ \E l \in p.denied : r.tool \in l)
        /\ ~(r.tool # "" /\ \E l \in p.tools : l # {} /\ r.tool \notin l)
        /\ ~(\E n \in p.tokens, want \in r.tokens : want > n)
    BY <2>1, RoleAllows
  <2>3. CheckPermission(p, r)
    BY <2>1, ResolvedRequest, PermissionFollows
  <2>4. \A n \in p.tokens, want \in r.tokens : want <= n
    <3>1. p.tokens \subseteq Nat /\ r.tokens \subseteq Int
      BY ResolvedRequest, AuthorizationAssumption
    <3>2. \A n \in p.tokens, want \in r.tokens : ~(want > n)
      BY <2>2
    <3>3. QED
      BY <3>1, <3>2
  <2>5. QED
    BY <2>2, <2>3, <2>4 DEF WithinPolicy
<1>3. isStrict => q # {} /\ (Budgeted(p) => purse # {})
  BY <1>1, RefusalsEmpty
<1>4. QED
  BY <1>1, <1>2, <1>3

----------------------------------------------------------------------------
(* The limiter, at the clock of the call.                                  *)

LEMMA Distributes ==
  ASSUME NEW c \in Int, NEW x \in Int, NEW y \in Int
  PROVE  c * (x + y) = c * x + c * y /\ c * x \in Int /\ c * y \in Int
OBVIOUS

LEMMA ProductsGrow ==
  ASSUME NEW c \in Nat, NEW x \in Int, NEW y \in Int, x <= y
  PROVE  c * x <= c * y
<1>1. c * (x + (y - x)) = c * x + c * (y - x) /\ c * x \in Int /\ c * (y - x) \in Int
  BY Distributes
<1>2. x + (y - x) = y /\ c * (y - x) >= 0
  OBVIOUS
<1>3. QED
  BY <1>1, <1>2

TallyRecord ==
  [granted : [Users -> 0..MaxAdmitted], high : 0..MaxClock,
   born : [Users -> 0..MaxClock], peak : [Users -> 0..MaxAdmitted]]

LEMMA AccessFacts ==
  ASSUME AccessIInv
  PROVE  /\ Capacity \in Nat \ {0} /\ Window \in Nat \ {0} /\ MaxCharge \in Nat
         /\ MaxClock \in Nat /\ MaxAdmitted \in Nat
         /\ policy \in RolePolicies /\ strict \in BOOLEAN /\ purseful \in BOOLEAN
         /\ clock \in 0..MaxClock /\ clock <= tally.high
         /\ bucket \in [Users -> SUBSET [tokens : 0..(Capacity * Window), at : 0..MaxClock]]
         /\ running \in [Users -> 0..MaxAdmitted]
         /\ purses \in [Users -> 0..(MaxAdmitted * MaxCharge)]
         /\ tally \in TallyRecord
BY AuthorizationAssumption DEF AccessIInv, AuthorizationTypeOK, TallyRecord

(* What a limiter made at time born still has, and has granted.            *)
Covers(l, granted, born) ==
  /\ born <= l.at /\ l.at <= tally.high
  /\ granted * Window + l.tokens <= Capacity * (Window + (l.at - born))

LEMMA LimiterHolds ==
  ASSUME AccessIInv, NEW u \in Users
  PROVE  /\ Limiter(u) \in [tokens : 0..(Capacity * Window), at : 0..MaxClock]
         /\ Covers(Limiter(u), tally.granted[u], IF bucket[u] = {} THEN clock ELSE tally.born[u])
<1>1. /\ Capacity \in Nat /\ Window \in Nat /\ Capacity * Window \in Nat /\ MaxClock \in Nat
      /\ clock \in 0..MaxClock /\ clock <= tally.high /\ tally.high \in 0..MaxClock
      /\ tally.granted[u] \in Nat /\ tally.born[u] \in 0..MaxClock
      /\ bucket[u] \subseteq [tokens : 0..(Capacity * Window), at : 0..MaxClock]
  BY AccessFacts DEF TallyRecord
<1>2. CASE bucket[u] = {}
  <2>1. PICK l : l = [tokens |-> Capacity * Window, at |-> clock]
    OBVIOUS
  <2>2. Limiter(u) = l
    BY <1>2, <2>1 DEF Limiter
  <2>3. l \in [tokens : 0..(Capacity * Window), at : 0..MaxClock]
    BY <1>1, <2>1
  <2>4. tally.granted[u] = 0
    BY <1>2 DEF AccessIInv, GrantsCovered
  <2>5. Window + (clock - clock) = Window /\ 0 * Window = 0
    BY <1>1
  <2>6. Covers(l, tally.granted[u], clock)
    BY <1>1, <2>1, <2>4, <2>5 DEF Covers
  <2>7. QED
    BY <1>2, <2>2, <2>3, <2>6
<1>3. CASE bucket[u] # {}
  <2>1. PICK l \in bucket[u] : TRUE
    BY <1>3
  <2>2. /\ l \in [tokens : 0..(Capacity * Window), at : 0..MaxClock]
        /\ Covers(l, tally.granted[u], tally.born[u])
        /\ (CHOOSE k \in bucket[u] : TRUE) = l
    BY <1>1, <2>1 DEF AccessIInv, GrantsCovered, Covers
  <2>3. Limiter(u) = Refill(l)
    BY <1>3, <2>2 DEF Limiter
  <2>4. CASE clock <= l.at
    <3>1. Limiter(u) = l
      BY <2>3, <2>4 DEF Refill
    <3>2. QED
      BY <1>3, <2>2, <3>1
  <2>5. CASE ~(clock <= l.at)
    <3>1. PICK n : n = Least(Capacity * Window, l.tokens + Capacity * (clock - l.at))
      OBVIOUS
    <3>2. PICK k : k = [tokens |-> n, at |-> clock]
      OBVIOUS
    <3>3. Limiter(u) = k
      BY <2>3, <2>5, <3>1, <3>2 DEF Refill
    <3>4. l.tokens \in 0..(Capacity * Window) /\ l.at \in 0..MaxClock
      BY <2>2
    <3>5. clock - l.at \in Nat /\ Capacity * (clock - l.at) \in Nat
      BY <1>1, <2>5, <3>4
    <3>6. n \in 0..(Capacity * Window) /\ n <= l.tokens + Capacity * (clock - l.at)
      BY <1>1, <3>1, <3>4, <3>5 DEF Least
    <3>7. k \in [tokens : 0..(Capacity * Window), at : 0..MaxClock]
      BY <1>1, <3>2, <3>6
    <3>8. Covers(k, tally.granted[u], tally.born[u])
      <4>1. /\ tally.born[u] <= l.at
            /\ tally.granted[u] * Window + l.tokens <= Capacity * (Window + (l.at - tally.born[u]))
        BY <2>2 DEF Covers
      <4>2. Capacity * ((Window + (l.at - tally.born[u])) + (clock - l.at))
              = Capacity * (Window + (l.at - tally.born[u])) + Capacity * (clock - l.at)
        BY <1>1, <3>4, Distributes
      <4>3. (Window + (l.at - tally.born[u])) + (clock - l.at) = Window + (clock - tally.born[u])
        BY <1>1, <3>4
      <4>4. tally.granted[u] * Window \in Int
            /\ Capacity * (Window + (l.at - tally.born[u])) \in Int
        BY <1>1, <3>4
      <4>5. tally.granted[u] * Window + n <= Capacity * (Window + (clock - tally.born[u]))
        BY <1>1, <3>4, <3>5, <3>6, <4>1, <4>2, <4>3, <4>4
      <4>6. QED
        BY <1>1, <2>5, <3>2, <3>4, <4>1, <4>5 DEF Covers
    <3>9. QED
      BY <1>3, <3>3, <3>7, <3>8
  <2>6. QED
    BY <2>4, <2>5
<1>4. QED
  BY <1>2, <1>3

----------------------------------------------------------------------------
(* The three actions.                                                      *)

(* A call of the middleware.                                               *)
LEMMA AuthorizeKeeps ==
  ASSUME AccessIInv, NEW who \in Askers, NEW asks, NEW w \in WireRequests, Authorize(who, asks, w)
  PROVE  AccessIInv'
<1> DEFINE
  name == IF asks = "" THEN IF policy.defaulted = "unset" THEN "default" ELSE policy.defaulted
          ELSE asks
  known == name = "limited"
  limited == known /\ policy.rated /\ who # {}
  purse == IF purseful /\ known THEN {purses[u] : u \in who} ELSE {}
  short == limited /\ \E u \in who : Limiter(u).tokens < Window
  why == IF short THEN {"rate"}
         ELSE Refusals(known, policy, ResolveRequest(w), strict, purse)
<1>1. /\ \A u \in who : tally.granted[u] < MaxAdmitted /\ running[u] < MaxAdmitted
      /\ verdict' = [why |-> why, known |-> known, request |-> ResolveRequest(w), purse |-> purse]
      /\ bucket' = [u \in Users |->
           IF limited /\ u \in who
           THEN {[Limiter(u) EXCEPT !.tokens = IF short THEN @ ELSE @ - Window]} ELSE bucket[u]]
      /\ running' = [u \in Users |-> IF u \in who /\ why = {} THEN running[u] + 1 ELSE running[u]]
      /\ tally' = [tally EXCEPT
           !.granted = [u \in Users |-> IF limited /\ ~short /\ u \in who THEN @[u] + 1 ELSE @[u]],
           !.born = [u \in Users |-> IF limited /\ u \in who /\ bucket[u] = {} THEN clock ELSE @[u]],
           !.peak = [u \in Users |-> Most(@[u], running'[u])]]
      /\ UNCHANGED <<policy, strict, purseful, clock, purses>>
  BY Zenon DEF Authorize
<1>2. /\ known \in BOOLEAN /\ limited \in BOOLEAN /\ short \in BOOLEAN
  OBVIOUS
<1>3. /\ short => limited
      /\ limited /\ ~short => \A u \in who : ~(Limiter(u).tokens < Window)
      /\ short => why = {"rate"}
      /\ ~short => why = Refusals(known, policy, ResolveRequest(w), strict, purse)
      /\ purse = {} \/ purse = {purses[u] : u \in who}
  OBVIOUS
<1> HIDE DEF name, known, limited, purse, short, why
<1>4. tally \in TallyRecord
  BY AccessFacts
<1>5. /\ tally'.granted = [u \in Users |->
           IF limited /\ ~short /\ u \in who THEN tally.granted[u] + 1 ELSE tally.granted[u]]
      /\ tally'.born = [u \in Users |->
           IF limited /\ u \in who /\ bucket[u] = {} THEN clock ELSE tally.born[u]]
      /\ tally'.peak = [u \in Users |-> Most(tally.peak[u], running'[u])]
      /\ tally'.high = tally.high
      /\ tally' = [granted |-> tally'.granted, high |-> tally'.high,
                   born |-> tally'.born, peak |-> tally'.peak]
  BY <1>1, <1>4 DEF TallyRecord
<1> DEFINE Box == [tokens : 0..(Capacity * Window), at : 0..MaxClock]
<1>6. who \subseteq Users
  BY DEF Askers
<1>7. ASSUME NEW u \in Users, limited, u \in who
      PROVE  \E l \in Box :
               /\ bucket'[u] = {l} /\ l.at = Limiter(u).at
               /\ l.tokens = IF short THEN Limiter(u).tokens ELSE Limiter(u).tokens - Window
  <2>1. PICK k : k = Limiter(u)
    OBVIOUS
  <2>2. k \in Box
    BY <2>1, LimiterHolds
  <2>3. PICK l : l = [k EXCEPT !.tokens = IF short THEN @ ELSE @ - Window]
    OBVIOUS
  <2>4. Capacity * Window \in Nat /\ Window \in Nat
    BY AccessFacts
  <2>5. k.tokens \in 0..(Capacity * Window) /\ k.at \in 0..MaxClock
    BY <2>2
  <2>6. ~short => k.tokens >= Window
    BY <1>3, <1>7, <2>1, <2>4, <2>5
  <2>7. /\ l.at = k.at
        /\ l.tokens = IF short THEN k.tokens ELSE k.tokens - Window
        /\ l = [tokens |-> l.tokens, at |-> l.at]
    BY <2>2, <2>3
  <2>8. l.tokens \in 0..(Capacity * Window)
    BY <2>4, <2>5, <2>6, <2>7
  <2>9. l \in Box
    BY <2>5, <2>7, <2>8
  <2>10. bucket'[u] = {l}
    BY <1>1, <1>7, <2>1, <2>3
  <2>11. QED
    BY <2>1, <2>7, <2>9, <2>10
<1>8. \A u \in Users : ~(limited /\ u \in who) => bucket'[u] = bucket[u]
  BY <1>1
<1>9. /\ \A u \in Users : running'[u] = IF u \in who /\ why = {} THEN running[u] + 1 ELSE running[u]
      /\ running' \in [Users -> 0..MaxAdmitted]
  BY <1>1, AccessFacts
<1>10. /\ tally'.granted \in [Users -> 0..MaxAdmitted]
       /\ tally'.born \in [Users -> 0..MaxClock]
       /\ tally'.peak \in [Users -> 0..MaxAdmitted]
       /\ tally' \in TallyRecord
  <2>1. tally'.granted \in [Users -> 0..MaxAdmitted]
    BY <1>1, <1>4, <1>5, AccessFacts DEF TallyRecord
  <2>2. tally'.born \in [Users -> 0..MaxClock]
    BY <1>4, <1>5, AccessFacts DEF TallyRecord
  <2>3. tally'.peak \in [Users -> 0..MaxAdmitted]
    BY <1>4, <1>5, <1>9, AccessFacts DEF TallyRecord, Most
  <2>4. tally'.high \in 0..MaxClock
    BY <1>4, <1>5 DEF TallyRecord
  <2>5. QED
    BY <1>5, <2>1, <2>2, <2>3, <2>4 DEF TallyRecord
<1>11. AuthorizationTypeOK'
  <2>1. \A u \in Users : bucket'[u] \in SUBSET Box
    BY <1>7, <1>8, AccessFacts
  <2>2. bucket' \in [Users -> SUBSET Box]
    BY <1>1, <2>1
  <2>3. /\ policy' \in RolePolicies /\ strict' \in BOOLEAN /\ purseful' \in BOOLEAN
        /\ clock' \in 0..MaxClock /\ purses' \in [Users -> 0..(MaxAdmitted * MaxCharge)]
    BY <1>1, AccessFacts
  <2>4. QED
    BY <1>9, <1>10, <2>2, <2>3 DEF AuthorizationTypeOK, TallyRecord
<1>12. (clock <= tally.high)'
  BY <1>1, <1>5, AccessFacts
<1>13. AllowedByPolicy'
  <2>1. PICK v : v = verdict'
    OBVIOUS
  <2>2. /\ v.why = why /\ v.known = known /\ v.request = ResolveRequest(w) /\ v.purse = purse
    BY <1>1, <2>1
  <2>3. policy \in RolePolicies /\ strict \in BOOLEAN /\ policy' = policy /\ strict' = strict
    BY <1>1, AccessFacts
  <2>4. Validates(policy) => "invalid" \notin why
    <3>1. SUFFICES ASSUME Validates(policy), ~short PROVE "invalid" \notin why
      BY <1>3
    <3>2. policy.malformed = {}
      BY <3>1 DEF Validates
    <3>3. why = Refusals(known, policy, ResolveRequest(w), strict, purse)
      BY <1>3, <3>1
    <3>4. \A r : "invalid" \notin RoleRefusals(policy, r, strict)
      BY <3>2 DEF RoleRefusals, Because
    <3>5. "invalid" \notin Refusals(known, policy, ResolveRequest(w), strict, purse)
      BY <3>4 DEF Refusals, Because
    <3>6. QED
      BY <3>3, <3>5
  <2>5. ASSUME why = {} PROVE ~short /\ Refusals(known, policy, ResolveRequest(w), strict, purse) = {}
    BY <1>3, <2>5
  <2>6. ASSUME why = {}, ~known PROVE ~strict
    <3>1. Refusals(known, policy, ResolveRequest(w), strict, purse) = Because("role", strict)
      BY <2>6 DEF Refusals
    <3>2. QED
      BY <2>5, <2>6, <3>1 DEF Because
  <2>7. ASSUME why = {}, known
        PROVE  Refusals(TRUE, policy, ResolveRequest(w), strict, purse) = {}
    <3>1. known = TRUE
      BY <1>2, <2>7
    <3>2. QED
      BY <2>5, <2>7, <3>1
  <2>8. Allowed(v) <=> why = {}
    BY <2>2 DEF Allowed
  <2>9. ASSUME why = {}, known
        PROVE  /\ \A r \in ResolveRequest(w) : WithinPolicy(policy, r, strict)
               /\ strict => ResolveRequest(w) # {} /\ (Budgeted(policy) => purse # {})
    BY <2>3, <2>7, <2>9, DecisionAllowed
  <2>10. Decided(policy, strict, v)
    BY <2>2, <2>4, <2>6, <2>8, <2>9 DEF Decided
  <2>11. Decided(policy, strict, verdict)'
    BY <2>1, <2>3, <2>10 DEF Decided, WithinPolicy
  <2>12. QED
    BY <2>11, DecidedIs, PTL
<1>14. GrantsCovered'
  <2> SUFFICES ASSUME NEW u \in Users
               PROVE  /\ tally'.born[u] <= tally'.high
                      /\ bucket'[u] = {} => tally'.granted[u] = 0
                      /\ \A l, k \in bucket'[u] : l = k
                      /\ \A l \in bucket'[u] :
                           /\ tally'.born[u] <= l.at /\ l.at <= tally'.high
                           /\ tally'.granted[u] * Window + l.tokens
                                <= Capacity * (Window + (l.at - tally'.born[u]))
    BY DEF GrantsCovered
  <2>1. CASE limited /\ u \in who
    <3>1. PICK l \in Box : /\ bucket'[u] = {l} /\ l.at = Limiter(u).at
                           /\ l.tokens = IF short THEN Limiter(u).tokens
                                        ELSE Limiter(u).tokens - Window
      BY <1>7, <2>1
    <3>2. PICK k : k = Limiter(u)
      OBVIOUS
    <3>3. PICK b : b = IF bucket[u] = {} THEN clock ELSE tally.born[u]
      OBVIOUS
    <3>4. PICK g : g = tally.granted[u]
      OBVIOUS
    <3>5. k \in Box /\ Covers(k, g, b)
      BY <3>2, <3>3, <3>4, LimiterHolds
    <3>6. /\ b \in 0..MaxClock /\ g \in Nat /\ Window \in Nat /\ MaxClock \in Nat
          /\ Capacity * Window \in Nat /\ Capacity \in Nat
      BY <3>3, <3>4, <1>4, AccessFacts DEF TallyRecord
    <3>7. k.tokens \in Nat /\ k.at \in Nat /\ l.at = k.at
      BY <3>1, <3>2, <3>5, <3>6
    <3>8. tally'.born[u] = b /\ tally'.high = tally.high
      BY <1>5, <2>1, <3>3
    <3>9. b <= k.at /\ k.at <= tally.high /\ g * Window + k.tokens <= Capacity * (Window + (k.at - b))
      BY <3>5 DEF Covers
    <3>10. tally.high \in Nat
      BY <1>4, AccessFacts DEF TallyRecord
    <3>11. tally'.granted[u] * Window + l.tokens = g * Window + k.tokens
      <4>1. CASE short
        <5>1. tally'.granted[u] = g /\ l.tokens = k.tokens
          BY <1>5, <3>1, <3>2, <3>4, <4>1
        <5>2. QED
          BY <5>1
      <4>2. CASE ~short
        <5>1. tally'.granted[u] = g + 1 /\ l.tokens = k.tokens - Window
          BY <1>5, <2>1, <3>1, <3>2, <3>4, <4>2
        <5>2. (g + 1) * Window = g * Window + Window /\ g * Window \in Nat
          BY <3>6
        <5>3. QED
          BY <3>6, <3>7, <5>1, <5>2
      <4>3. QED
        BY <4>1, <4>2
    <3>12. /\ tally'.born[u] <= l.at /\ l.at <= tally'.high
           /\ tally'.granted[u] * Window + l.tokens <= Capacity * (Window + (l.at - tally'.born[u]))
      BY <3>7, <3>8, <3>9, <3>11
    <3>13. tally'.born[u] <= tally'.high
      BY <3>6, <3>7, <3>8, <3>9, <3>10
    <3>14. QED
      BY <3>1, <3>12, <3>13
  <2>2. CASE ~(limited /\ u \in who)
    <3>1. /\ bucket'[u] = bucket[u] /\ tally'.born[u] = tally.born[u]
          /\ tally'.granted[u] = tally.granted[u] /\ tally'.high = tally.high
      BY <1>5, <1>8, <2>2
    <3>2. QED
      BY <3>1 DEF AccessIInv, GrantsCovered
  <2>3. QED
    BY <2>1, <2>2
<1>15. SpendCovered'
  <2> SUFFICES ASSUME NEW u \in Users
               PROVE  /\ running'[u] <= tally'.peak[u]
                      /\ \A b \in policy.budget :
                           strict => purses[u] + MaxCharge * running'[u]
                                       <= Most(b - 1, 0) + MaxCharge * tally'.peak[u]
    BY <1>1 DEF SpendCovered
  <2>1. /\ running[u] \in Nat /\ running'[u] \in Nat /\ tally.peak[u] \in Nat
        /\ purses[u] \in Nat /\ MaxCharge \in Nat /\ policy.budget \subseteq Int
    BY <1>9, AccessFacts, AuthorizationAssumption DEF TallyRecord
  <2>2. tally'.peak[u] = Most(tally.peak[u], running'[u])
    BY <1>5
  <2>3. /\ tally'.peak[u] \in Nat /\ running'[u] <= tally'.peak[u]
        /\ tally.peak[u] <= tally'.peak[u]
    BY <2>1, <2>2 DEF Most
  <2>4. ASSUME NEW b \in policy.budget, strict
        PROVE  purses[u] + MaxCharge * running'[u] <= Most(b - 1, 0) + MaxCharge * tally'.peak[u]
    <3>1. CASE u \in who /\ why = {}
      <4>1. ~short /\ known = TRUE
        <5>1. ~short /\ Refusals(known, policy, ResolveRequest(w), strict, purse) = {}
          BY <1>3, <3>1
        <5>2. CASE known = FALSE
          <6>1. Refusals(known, policy, ResolveRequest(w), strict, purse) = Because("role", strict)
            BY <5>2 DEF Refusals
          <6>2. QED
            BY <2>4, <5>1, <6>1 DEF Because
        <5>3. QED
          BY <1>2, <5>1, <5>2
      <4>2. Refusals(TRUE, policy, ResolveRequest(w), strict, purse) = {}
        BY <1>3, <3>1, <4>1
      <4>3. /\ \A c \in policy.budget, s \in purse : ~(s >= c)
            /\ strict => (Budgeted(policy) => purse # {})
        BY <4>2, AccessFacts, RefusalsEmpty
      <4>4. purse # {}
        BY <2>4, <4>3 DEF Budgeted
      <4>5. purses[u] \in purse
        BY <1>3, <3>1, <4>4
      <4>6. ~(purses[u] >= b)
        BY <4>3, <4>5
      <4>7. purses[u] <= Most(b - 1, 0) /\ Most(b - 1, 0) \in Nat
        BY <2>1, <4>6 DEF Most
      <4>8. /\ MaxCharge * running'[u] <= MaxCharge * tally'.peak[u]
            /\ MaxCharge * running'[u] \in Nat /\ MaxCharge * tally'.peak[u] \in Nat
        BY <2>1, <2>3, ProductsGrow
      <4>9. QED
        BY <2>1, <4>7, <4>8
    <3>2. CASE ~(u \in who /\ why = {})
      <4>1. running'[u] = running[u]
        BY <1>9, <3>2
      <4>2. purses[u] + MaxCharge * running[u] <= Most(b - 1, 0) + MaxCharge * tally.peak[u]
        BY <2>4 DEF AccessIInv, SpendCovered
      <4>3. /\ MaxCharge * tally.peak[u] <= MaxCharge * tally'.peak[u]
            /\ MaxCharge * tally.peak[u] \in Nat /\ MaxCharge * tally'.peak[u] \in Nat
            /\ MaxCharge * running[u] \in Nat
        BY <2>1, <2>3, ProductsGrow
      <4>4. Most(b - 1, 0) \in Int
        BY <2>1 DEF Most
      <4>5. QED
        BY <2>1, <4>1, <4>2, <4>3, <4>4
    <3>3. QED
      BY <3>1, <3>2
  <2>5. QED
    BY <2>3, <2>4
<1>16. QED
  BY <1>11, <1>12, <1>13, <1>14, <1>15 DEF AccessIInv

LEMMA NothingDecided ==
  ASSUME NEW p, NEW isStrict PROVE Decided(p, isStrict, NoVerdict)
BY DEF Decided, NoVerdict, Allowed

LEMMA RequestChargedKeeps ==
  ASSUME AccessIInv, NEW u \in Users, NEW cost \in 0..MaxCharge, RequestCharged(u, cost)
  PROVE  AccessIInv'
<1>1. /\ running[u] > 0 /\ purses[u] + cost <= MaxAdmitted * MaxCharge
      /\ running' = [running EXCEPT ![u] = @ - 1]
      /\ purses' = [purses EXCEPT ![u] = @ + cost]
      /\ verdict' = NoVerdict
      /\ UNCHANGED <<policy, strict, purseful, clock, bucket, tally>>
  BY DEF RequestCharged
<1>2. /\ running \in [Users -> 0..MaxAdmitted] /\ MaxAdmitted \in Nat /\ MaxCharge \in Nat
      /\ purses \in [Users -> 0..(MaxAdmitted * MaxCharge)] /\ MaxAdmitted * MaxCharge \in Nat
      /\ cost \in Nat /\ cost <= MaxCharge
  BY AccessFacts
<1>3. /\ running' \in [Users -> 0..MaxAdmitted]
      /\ purses' \in [Users -> 0..(MaxAdmitted * MaxCharge)]
      /\ running'[u] = running[u] - 1 /\ purses'[u] = purses[u] + cost
      /\ \A x \in Users : x # u => running'[x] = running[x] /\ purses'[x] = purses[x]
  BY <1>1, <1>2
<1>4. AuthorizationTypeOK'
  BY <1>1, <1>3 DEF AccessIInv, AuthorizationTypeOK
<1>5. AllowedByPolicy'
  <2>1. Decided(policy', strict', verdict')
    BY <1>1, NothingDecided
  <2>2. Decided(policy, strict, verdict)'
    BY <2>1
  <2>3. QED
    BY <2>2, DecidedIs, PTL
<1>6. (clock <= tally.high)' /\ GrantsCovered'
  BY <1>1 DEF AccessIInv, GrantsCovered
<1>7. SpendCovered'
  <2> SUFFICES ASSUME NEW x \in Users
               PROVE  /\ running'[x] <= tally.peak[x]
                      /\ \A b \in policy.budget :
                           strict => purses'[x] + MaxCharge * running'[x]
                                       <= Most(b - 1, 0) + MaxCharge * tally.peak[x]
    BY <1>1 DEF SpendCovered
  <2>1. /\ running[x] <= tally.peak[x]
        /\ \A b \in policy.budget :
             strict => purses[x] + MaxCharge * running[x]
                         <= Most(b - 1, 0) + MaxCharge * tally.peak[x]
    BY DEF AccessIInv, SpendCovered
  <2>2. CASE x # u
    <3>1. running'[x] = running[x] /\ purses'[x] = purses[x]
      BY <1>3, <2>2
    <3>2. QED
      BY <2>1, <3>1
  <2>3. CASE x = u
    <3>1. running[u] \in Nat \ {0} /\ tally.peak[u] \in Nat /\ purses[u] \in Nat
          /\ policy.budget \subseteq Int
      BY <1>1, <1>2, AccessFacts, AuthorizationAssumption DEF TallyRecord
    <3>2. /\ MaxCharge * ((running[u] - 1) + 1) = MaxCharge * (running[u] - 1) + MaxCharge * 1
          /\ MaxCharge * (running[u] - 1) \in Int /\ MaxCharge * 1 = MaxCharge
          /\ (running[u] - 1) + 1 = running[u]
      BY <1>2, <3>1, Distributes
    <3>3. purses'[u] + MaxCharge * running'[u] <= purses[u] + MaxCharge * running[u]
      BY <1>2, <1>3, <3>1, <3>2
    <3>4. ASSUME NEW b \in policy.budget, strict
          PROVE  purses'[u] + MaxCharge * running'[u]
                   <= Most(b - 1, 0) + MaxCharge * tally.peak[u]
      <4>1. purses[u] + MaxCharge * running[u] <= Most(b - 1, 0) + MaxCharge * tally.peak[u]
        BY <2>1, <2>3, <3>4
      <4>2. Most(b - 1, 0) \in Int /\ MaxCharge * tally.peak[u] \in Int
            /\ MaxCharge * running[u] \in Int
        BY <1>2, <3>1, Distributes DEF Most
      <4>3. QED
        BY <1>2, <1>3, <3>1, <3>2, <3>3, <4>1, <4>2
    <3>5. running'[u] <= tally.peak[u]
      BY <1>3, <2>1, <2>3, <3>1
    <3>6. QED
      BY <2>3, <3>4, <3>5
  <2>4. QED
    BY <2>2, <2>3
<1>8. QED
  BY <1>4, <1>5, <1>6, <1>7 DEF AccessIInv

LEMMA ClockMovesKeeps ==
  ASSUME AccessIInv, NEW t \in 0..MaxClock, ClockMoves(t) PROVE AccessIInv'
<1>1. /\ clock' = t /\ tally' = [tally EXCEPT !.high = Most(@, t)] /\ verdict' = NoVerdict
      /\ UNCHANGED <<policy, strict, purseful, bucket, running, purses>>
  BY DEF ClockMoves
<1>2. tally \in TallyRecord /\ MaxClock \in Nat /\ tally.high \in 0..MaxClock
  BY AccessFacts DEF TallyRecord
<1>3. /\ tally'.high = Most(tally.high, t) /\ tally'.granted = tally.granted
      /\ tally'.born = tally.born /\ tally'.peak = tally.peak
      /\ tally' = [granted |-> tally'.granted, high |-> tally'.high,
                   born |-> tally'.born, peak |-> tally'.peak]
  BY <1>1, <1>2 DEF TallyRecord
<1>4. tally'.high \in 0..MaxClock /\ tally.high <= tally'.high /\ t <= tally'.high
  BY <1>2, <1>3 DEF Most
<1>5. tally' \in TallyRecord
  BY <1>2, <1>3, <1>4 DEF TallyRecord
<1>6. AuthorizationTypeOK'
  BY <1>1, <1>5 DEF AccessIInv, AuthorizationTypeOK, TallyRecord
<1>7. (clock <= tally.high)'
  BY <1>1, <1>4
<1>8. AllowedByPolicy'
  <2>1. Decided(policy', strict', verdict')
    BY <1>1, NothingDecided
  <2>2. Decided(policy, strict, verdict)'
    BY <2>1
  <2>3. QED
    BY <2>2, DecidedIs, PTL
<1>9. GrantsCovered'
  <2> SUFFICES ASSUME NEW u \in Users
               PROVE  /\ tally.born[u] <= tally'.high
                      /\ \A l \in bucket[u] : l.at <= tally'.high
    BY <1>1, <1>3 DEF AccessIInv, GrantsCovered
  <2>1. /\ tally.born[u] \in 0..MaxClock
        /\ bucket[u] \subseteq [tokens : 0..(Capacity * Window), at : 0..MaxClock]
    BY AccessFacts DEF TallyRecord
  <2>2. tally.born[u] <= tally.high /\ \A l \in bucket[u] : l.at <= tally.high /\ l.at \in 0..MaxClock
    BY <2>1 DEF AccessIInv, GrantsCovered
  <2>3. QED
    BY <1>2, <1>4, <2>1, <2>2
<1>10. SpendCovered'
  BY <1>1, <1>3 DEF AccessIInv, SpendCovered
<1>11. QED
  BY <1>6, <1>7, <1>8, <1>9, <1>10 DEF AccessIInv

LEMMA AccessStart == AuthorizationInit => AccessIInv
<1> SUFFICES ASSUME AuthorizationInit PROVE AccessIInv
  OBVIOUS
<1>1. /\ Capacity \in Nat /\ Window \in Nat /\ MaxCharge \in Nat /\ MaxClock \in Nat
      /\ MaxAdmitted \in Nat /\ MaxAdmitted * MaxCharge \in Nat
  BY AuthorizationAssumption
<1>2. /\ tally = [granted |-> [u \in Users |-> 0], high |-> 0,
                  born |-> [u \in Users |-> 0], peak |-> [u \in Users |-> 0]]
      /\ clock = 0 /\ bucket = [u \in Users |-> {}] /\ running = [u \in Users |-> 0]
      /\ purses = [u \in Users |-> 0] /\ verdict = NoVerdict
      /\ policy \in RolePolicies /\ strict \in BOOLEAN /\ purseful \in BOOLEAN
  BY DEF AuthorizationInit
<1>3. /\ tally.high = 0
      /\ \A u \in Users : tally.granted[u] = 0 /\ tally.born[u] = 0 /\ tally.peak[u] = 0
  BY <1>2
<1>4. tally \in TallyRecord
  BY <1>1, <1>2 DEF TallyRecord
<1>5. /\ bucket \in [Users -> SUBSET [tokens : 0..(Capacity * Window), at : 0..MaxClock]]
      /\ running \in [Users -> 0..MaxAdmitted]
      /\ purses \in [Users -> 0..(MaxAdmitted * MaxCharge)]
      /\ clock \in 0..MaxClock
  BY <1>1, <1>2
<1>6. AuthorizationTypeOK
  BY <1>2, <1>4, <1>5 DEF AuthorizationTypeOK, TallyRecord
<1>7. clock <= tally.high
  BY <1>2, <1>3
<1>8. AllowedByPolicy
  BY <1>2, NothingDecided, DecidedIs
<1>9. GrantsCovered
  <2>1. \A u \in Users : bucket[u] = {}
    BY <1>2
  <2>2. ASSUME NEW u \in Users
        PROVE  bucket[u] = {} /\ tally.granted[u] = 0 /\ tally.born[u] <= tally.high
    <3>1. bucket[u] = {} /\ tally.granted[u] = 0 /\ tally.born[u] = 0 /\ tally.high = 0
      BY <1>3, <2>1
    <3>2. QED
      BY <3>1
  <2>3. QED
    BY Zenon, <2>2 DEF GrantsCovered
<1>10. SpendCovered
  <2>1. \A u \in Users : purses[u] = 0 /\ running[u] = 0 /\ tally.peak[u] = 0
    BY <1>2, <1>3
  <2>2. MaxCharge * 0 = 0
    BY <1>1
  <2>3. ASSUME NEW u \in Users, NEW b \in policy.budget
        PROVE  purses[u] + MaxCharge * running[u] <= Most(b - 1, 0) + MaxCharge * tally.peak[u]
    <3>1. b \in Int
      BY <1>2, AuthorizationAssumption
    <3>2. Most(b - 1, 0) \in Nat
      BY <3>1 DEF Most
    <3>3. 0 + MaxCharge * 0 <= Most(b - 1, 0) + MaxCharge * 0
      BY <2>2, <3>2
    <3>4. QED
      BY <2>1, <3>3
  <2>4. ASSUME NEW u \in Users PROVE running[u] <= tally.peak[u]
    <3>1. running[u] = 0 /\ tally.peak[u] = 0
      BY <2>1
    <3>2. QED
      BY <3>1
  <2>5. QED
    BY Zenon, <2>3, <2>4 DEF SpendCovered
<1>11. QED
  BY <1>6, <1>7, <1>8, <1>9, <1>10 DEF AccessIInv

LEMMA AccessStep == AccessIInv /\ [AuthorizationNext]_accessVars => AccessIInv'
<1> SUFFICES ASSUME AccessIInv, [AuthorizationNext]_accessVars PROVE AccessIInv'
  OBVIOUS
<1>1. ASSUME NEW who \in Askers, NEW asks, NEW w \in WireRequests, Authorize(who, asks, w)
      PROVE  AccessIInv'
  BY <1>1, AuthorizeKeeps
<1>2. ASSUME NEW u \in Users, NEW cost \in 0..MaxCharge, RequestCharged(u, cost) PROVE AccessIInv'
  BY <1>2, RequestChargedKeeps
<1>3. ASSUME NEW t \in 0..MaxClock, ClockMoves(t) PROVE AccessIInv'
  BY <1>3, ClockMovesKeeps
<1>4. CASE UNCHANGED accessVars
  <2>1. UNCHANGED <<policy, strict, purseful, clock, bucket, running, purses, verdict, tally>>
    BY <1>4 DEF accessVars
  <2>2. AllowedByPolicy'
    BY <2>1 DEF AccessIInv, AllowedByPolicy
  <2>3. QED
    BY <2>1, <2>2 DEF AccessIInv, AuthorizationTypeOK, GrantsCovered, SpendCovered
<1>5. QED
  BY <1>1, <1>2, <1>3, <1>4 DEF AuthorizationNext

LEMMA AccessImplies == AccessIInv => AllowedByPolicy /\ LimitsHold
<1> SUFFICES ASSUME AccessIInv, NEW u \in Users
             PROVE  /\ tally.granted[u] * Window <= Capacity * (Window + tally.high - tally.born[u])
                    /\ \A b \in policy.budget :
                         strict => purses[u] <= Most(b - 1, 0) + MaxCharge * tally.peak[u]
  BY DEF AccessIInv, LimitsHold
<1>1. /\ Capacity \in Nat /\ Window \in Nat /\ MaxCharge \in Nat /\ tally.high \in Nat
      /\ tally.granted[u] \in Nat /\ tally.born[u] \in Nat /\ tally.peak[u] \in Nat
      /\ running[u] \in Nat /\ purses[u] \in Nat /\ policy.budget \subseteq Int
      /\ tally.born[u] <= tally.high
      /\ bucket[u] \subseteq [tokens : 0..(Capacity * Window), at : 0..MaxClock]
  BY AccessFacts, AuthorizationAssumption DEF TallyRecord, AccessIInv, GrantsCovered
<1>2. tally.granted[u] * Window <= Capacity * (Window + tally.high - tally.born[u])
  <2>1. CASE bucket[u] = {}
    <3>1. tally.granted[u] = 0 /\ 0 * Window = 0
      BY <1>1, <2>1 DEF AccessIInv, GrantsCovered
    <3>2. Window + tally.high - tally.born[u] \in Nat
      BY <1>1
    <3>3. Capacity * (Window + tally.high - tally.born[u]) >= 0
      BY <1>1, <3>2
    <3>4. QED
      BY <3>1, <3>3
  <2>2. CASE bucket[u] # {}
    <3>1. PICK l \in bucket[u] : TRUE
      BY <2>2
    <3>2. /\ l.at <= tally.high
          /\ tally.granted[u] * Window + l.tokens <= Capacity * (Window + (l.at - tally.born[u]))
      BY <3>1 DEF AccessIInv, GrantsCovered
    <3>3. l.tokens \in Nat /\ l.at \in Nat
      <4>1. Capacity * Window \in Nat /\ MaxClock \in Nat
        BY <1>1, AccessFacts
      <4>2. QED
        BY <1>1, <3>1, <4>1
    <3>4. /\ Window + (l.at - tally.born[u]) <= Window + tally.high - tally.born[u]
          /\ Window + (l.at - tally.born[u]) \in Int
          /\ Window + tally.high - tally.born[u] \in Int
      BY <1>1, <3>2, <3>3
    <3>5. Capacity * (Window + (l.at - tally.born[u]))
            <= Capacity * (Window + tally.high - tally.born[u])
      BY <1>1, <3>4, ProductsGrow
    <3>6. /\ tally.granted[u] * Window \in Int
          /\ Capacity * (Window + (l.at - tally.born[u])) \in Int
          /\ Capacity * (Window + tally.high - tally.born[u]) \in Int
      BY <1>1, <3>4
    <3>7. QED
      BY <3>2, <3>3, <3>5, <3>6
  <2>3. QED
    BY <2>1, <2>2
<1>3. ASSUME NEW b \in policy.budget, strict
      PROVE  purses[u] <= Most(b - 1, 0) + MaxCharge * tally.peak[u]
  <2>1. purses[u] + MaxCharge * running[u] <= Most(b - 1, 0) + MaxCharge * tally.peak[u]
    BY <1>3 DEF AccessIInv, SpendCovered
  <2>2. MaxCharge * running[u] \in Nat /\ MaxCharge * tally.peak[u] \in Nat
        /\ Most(b - 1, 0) \in Int
    BY <1>1 DEF Most
  <2>3. QED
    BY <1>1, <2>1, <2>2
<1>4. QED
  BY <1>2, <1>3

----------------------------------------------------------------------------
(* Replay: the cache holds the signatures of the latest acceptances, the   *)
(* oldest first, as many as there were up to MaxEntries.                   *)
SeenIsLatest ==
  /\ Len(seen) <= MaxEntries /\ Len(seen) <= Len(accepted)
  /\ Len(seen) < MaxEntries => Len(seen) = Len(accepted)
  /\ \A k \in 1..Len(seen) : seen[k] = GuardKey(accepted[Len(accepted) - Len(seen) + k])

AcceptedSigned == \A i \in 1..Len(accepted) : signed[accepted[i].of] # {}

ReplayIInv ==
  /\ ReplayTypeOK /\ SeenIsLatest /\ AcceptedSigned
  /\ \A d \in refused : signed[d.of] # {}
  /\ ReplayBounded

----------------------------------------------------------------------------
(* Replay: the receiver and its cache.                                     *)

LEMMA ReplayFacts ==
  ASSUME ReplayIInv
  PROVE  /\ MaxEntries \in Nat \ {0} /\ profile \in {"v1", "v2"} /\ now \in Times
         /\ signed \in [Messages -> SUBSET Times] /\ refused \subseteq Deliveries
         /\ seen \in Seq(GuardKeys) /\ Len(seen) \in Nat /\ DOMAIN seen = 1..Len(seen)
         /\ accepted \in Seq(Deliveries) /\ Len(accepted) \in Nat
         /\ DOMAIN accepted = 1..Len(accepted)
         /\ \A i \in 1..Len(accepted) : accepted[i] \in Deliveries
BY ReplayAssumption DEF ReplayIInv, ReplayTypeOK

LEMMA KeyTyped ==
  ASSUME ReplayIInv, NEW d \in Deliveries, signed[d.of] # {}
  PROVE  GuardKey(d) \in GuardKeys
<1>1. PICK m \in Messages : m = d.of
  BY DEF Deliveries
<1>2. (CHOOSE t \in signed[m] : TRUE) \in Times
  BY <1>1, ReplayFacts
<1>3. (CHOOSE n \in Messages : TRUE) \in Messages
  OBVIOUS
<1>4. Signature(m) \in Signatures
  BY <1>2, <1>3 DEF Signature, Signatures
<1>5. QED
  BY <1>1, <1>4 DEF GuardKey, GuardKeys, Deliveries

(* A request once signed keeps its key.                                    *)
LEMMA KeysKept ==
  ASSUME UNCHANGED profile, NEW d, signed'[d.of] = signed[d.of]
  PROVE  GuardKey(d)' = GuardKey(d)
<1>1. PICK m : m = d.of
  OBVIOUS
<1>2. signed'[m] = signed[m]
  BY <1>1
<1>3. Signature(m)' = Signature(m)
  BY <1>2 DEF Signature
<1>4. QED
  BY <1>1, <1>3 DEF GuardKey

(* A step that accepts nothing and refuses at most what it may.            *)
LEMMA NothingAccepted ==
  ASSUME ReplayIInv, ReplayTypeOK', UNCHANGED <<profile, seen, accepted>>,
         \A m \in Messages : signed[m] # {} => signed'[m] = signed[m],
         \A d \in refused' :
           /\ signed'[d.of] # {}
           /\ \E i \in 1..Len(accepted) : GuardKey(accepted[i])' = GuardKey(d)'
           /\ profile = "v2" => \E i \in 1..Len(accepted) : accepted[i] = d
  PROVE  ReplayIInv'
<1>1. \A i \in 1..Len(accepted) :
        /\ signed[accepted[i].of] # {}
        /\ signed'[accepted[i].of] = signed[accepted[i].of]
  <2>1. ASSUME NEW i \in 1..Len(accepted)
        PROVE  /\ signed[accepted[i].of] # {}
               /\ signed'[accepted[i].of] = signed[accepted[i].of]
    <3>1. accepted[i] \in Deliveries /\ AcceptedSigned
      BY <2>1, ReplayFacts DEF ReplayIInv
    <3>2. PICK m \in Messages : m = accepted[i].of
      BY <3>1 DEF Deliveries
    <3>3. signed[m] # {}
      BY <2>1, <3>1, <3>2 DEF AcceptedSigned
    <3>4. signed'[m] = signed[m]
      BY <3>3
    <3>5. QED
      BY <3>2, <3>3, <3>4
  <2>2. QED
    BY <2>1
<1>2. \A i \in 1..Len(accepted) : GuardKey(accepted[i])' = GuardKey(accepted[i])
  <2>1. ASSUME NEW i \in 1..Len(accepted)
        PROVE  GuardKey(accepted[i])' = GuardKey(accepted[i])
    <3>1. PICK d : d = accepted[i]
      OBVIOUS
    <3>2. GuardKey(d)' = GuardKey(d)
      BY <1>1, <3>1, KeysKept
    <3>3. accepted'[i] = d
      BY <3>1
    <3>4. QED
      BY <3>1, <3>2, <3>3
  <2>2. QED
    BY <2>1
<1>3. SeenIsLatest'
  <2>1. \A k \in 1..Len(seen) : Len(accepted) - Len(seen) + k \in 1..Len(accepted)
    BY ReplayFacts DEF ReplayIInv, SeenIsLatest
  <2>2. QED
    BY <1>2, <2>1 DEF ReplayIInv, SeenIsLatest
<1>4. AcceptedSigned'
  BY <1>1 DEF AcceptedSigned
<1>5. ReplayBounded'
  <2>1. \A i, j \in 1..Len(accepted) :
          i < j /\ GuardKey(accepted[i])' = GuardKey(accepted[j])' => j - i > MaxEntries
    <3>1. DOMAIN accepted = 1..Len(accepted) /\ ReplayBounded
      BY ReplayFacts DEF ReplayIInv
    <3>2. QED
      BY <1>2, <3>1 DEF ReplayBounded
  <2>2. QED
    BY <2>1, ReplayFacts DEF ReplayBounded
<1>6. QED
  BY <1>3, <1>4, <1>5 DEF ReplayIInv

(* What is remembered, and where it stands in the cache.                   *)
LEMMA Remembered ==
  ASSUME ReplayIInv, NEW s \in GuardKeys
  PROVE  /\ Remember(s) \in Seq(GuardKeys)
         /\ Len(Remember(s)) = IF Len(seen) = MaxEntries THEN Len(seen) ELSE Len(seen) + 1
         /\ \A k \in 1..Len(Remember(s)) :
              Remember(s)[k] = LET at == k + Len(seen) + 1 - Len(Remember(s))
                               IN  IF at <= Len(seen) THEN seen[at] ELSE s
<1>1. PICK longer : longer = Append(seen, s)
  OBVIOUS
<1>2. /\ longer \in Seq(GuardKeys) /\ Len(longer) = Len(seen) + 1
      /\ \A k \in 1..(Len(seen) + 1) : longer[k] = IF k <= Len(seen) THEN seen[k] ELSE s
  BY <1>1, ReplayFacts
<1>3. Len(seen) <= MaxEntries /\ MaxEntries \in Nat \ {0} /\ Len(seen) \in Nat
  BY ReplayFacts DEF ReplayIInv, SeenIsLatest
<1>4. CASE Len(seen) = MaxEntries
  <2>1. Remember(s) = Tail(longer)
    BY <1>1, <1>2, <1>3, <1>4 DEF Remember
  <2>2. longer # <<>>
    BY <1>2, <1>3
  <2>3. /\ Tail(longer) \in Seq(GuardKeys) /\ Len(Tail(longer)) = Len(longer) - 1
        /\ \A k \in 1..Len(Tail(longer)) : Tail(longer)[k] = longer[k + 1]
    BY <1>2, <2>2
  <2>4. Len(Remember(s)) = Len(seen)
    BY <1>2, <1>3, <2>1, <2>3
  <2>5. ASSUME NEW k \in 1..Len(seen)
        PROVE  Remember(s)[k] = IF k + 1 <= Len(seen) THEN seen[k + 1] ELSE s
    <3>1. k + 1 \in 1..(Len(seen) + 1) /\ k \in 1..Len(Tail(longer))
      BY <1>3, <2>1, <2>4, <2>5
    <3>2. QED
      BY <1>2, <2>1, <2>3, <3>1
  <2>6. \A k \in 1..Len(seen) : k + Len(seen) + 1 - Len(seen) = k + 1
    BY <1>3
  <2>7. QED
    BY <1>4, <2>1, <2>3, <2>4, <2>5, <2>6
<1>5. CASE Len(seen) # MaxEntries
  <2>1. Remember(s) = longer
    BY <1>1, <1>2, <1>3, <1>5 DEF Remember
  <2>2. \A k \in 1..(Len(seen) + 1) : k + Len(seen) + 1 - (Len(seen) + 1) = k
    BY <1>3
  <2>3. QED
    BY <1>2, <1>5, <2>1, <2>2
<1>6. QED
  BY <1>4, <1>5

LEMMA DeliverKeeps ==
  ASSUME ReplayIInv, NEW d \in Deliveries, NEW changed, Deliver(d, changed)
  PROVE  ReplayIInv'
<1> DEFINE fresh == Verifies(changed) /\ Timely(Signature(d.of).date)
<1> HIDE DEF fresh
<1>1. signed[d.of] # {} /\ UNCHANGED <<profile, now, signed>>
  BY DEF Deliver
<1>2. PICK s : s = GuardKey(d)
  OBVIOUS
<1>3. s \in GuardKeys
  BY <1>1, <1>2, KeyTyped
<1>4. \A x : GuardKey(x)' = GuardKey(x)
  BY <1>1 DEF Signature, GuardKey
<1>5. CASE fresh /\ ~(\E i \in DOMAIN seen : seen[i] = s)
  <2>1. seen' = Remember(s) /\ accepted' = Append(accepted, d) /\ refused' = {}
    BY <1>2, <1>5 DEF Deliver, fresh
  <2>2. PICK n : n = Len(accepted)
    OBVIOUS
  <2>3. PICK e : e = Len(seen)
    OBVIOUS
  <2>4. /\ n \in Nat /\ e \in Nat /\ e <= MaxEntries /\ e <= n /\ MaxEntries \in Nat \ {0}
        /\ e < MaxEntries => e = n
        /\ \A k \in 1..e : seen[k] = GuardKey(accepted[n - e + k])
    BY <2>2, <2>3, ReplayFacts DEF ReplayIInv, SeenIsLatest
  <2>5. /\ accepted' \in Seq(Deliveries) /\ Len(accepted') = n + 1 /\ accepted'[n + 1] = d
        /\ \A i \in 1..n : accepted'[i] = accepted[i]
    BY <2>1, <2>2, ReplayFacts
  <2>6. /\ seen' \in Seq(GuardKeys) /\ Len(seen') = IF e = MaxEntries THEN e ELSE e + 1
        /\ \A k \in 1..Len(seen') :
             seen'[k] = LET at == k + e + 1 - Len(seen') IN IF at <= e THEN seen[at] ELSE s
    BY <1>3, <2>1, <2>3, Remembered
  <2>7. ReplayTypeOK'
    BY <1>1, <2>1, <2>5, <2>6 DEF ReplayIInv, ReplayTypeOK
  <2>8. SeenIsLatest'
    <3>1. /\ Len(seen') <= MaxEntries /\ Len(seen') <= Len(accepted')
          /\ Len(seen') < MaxEntries => Len(seen') = Len(accepted')
      BY <2>4, <2>5, <2>6
    <3>2. PICK l : l = Len(seen')
      OBVIOUS
    <3>3. n \in Nat /\ e \in Nat /\ e <= n /\ l \in Nat /\ (l = e \/ l = e + 1)
      BY <2>4, <2>6, <3>2
    <3>4. ASSUME NEW k \in 1..l
          PROVE  seen'[k] = GuardKey(accepted'[n + 1 - l + k])
      <4>1. PICK at : at = k + e + 1 - l
        OBVIOUS
      <4>2. at \in Int /\ 1 <= at /\ at <= e + 1 /\ n + 1 - l + k = n - e + at
        BY <3>3, <4>1
      <4>3. seen'[k] = IF at <= e THEN seen[at] ELSE s
        BY <2>6, <3>2, <4>1
      <4>4. CASE at <= e
        <5>1. at \in 1..e /\ n - e + at \in 1..n
          BY <3>3, <4>2, <4>4
        <5>2. seen[at] = GuardKey(accepted[n - e + at])
          BY <2>4, <5>1
        <5>3. accepted'[n - e + at] = accepted[n - e + at]
          BY <2>5, <5>1
        <5>4. seen'[k] = seen[at]
          BY <4>3, <4>4
        <5>5. QED
          BY <4>2, <5>2, <5>3, <5>4
      <4>5. CASE ~(at <= e)
        <5>1. n - e + at = n + 1
          BY <3>3, <4>2, <4>5
        <5>2. seen'[k] = s
          BY <4>3, <4>5
        <5>3. QED
          BY <1>2, <2>5, <4>2, <5>1, <5>2
      <4>6. QED
        BY <4>4, <4>5
    <3>5. ASSUME NEW k \in 1..Len(seen')
          PROVE  seen'[k] = GuardKey(accepted'[Len(accepted') - Len(seen') + k])
      <4>1. Len(accepted') = n + 1
        BY <2>5
      <4>2. k \in 1..l
        BY <3>2, <3>5
      <4>3. seen'[k] = GuardKey(accepted'[n + 1 - l + k])
        BY <3>4, <4>2
      <4>4. Len(accepted') - Len(seen') + k = n + 1 - l + k
        <5>1. Len(accepted') - Len(seen') = n + 1 - l
          BY <3>2, <3>3, <4>1
        <5>2. QED
          BY <3>3, <4>2, <5>1
      <4>5. QED
        BY <4>3, <4>4
    <3>6. QED
      BY <1>4, <3>1, <3>5 DEF SeenIsLatest
  <2>9. AcceptedSigned'
    BY <1>1, <2>2, <2>4, <2>5 DEF ReplayIInv, AcceptedSigned
  <2>10. ASSUME NEW i \in 1..(n + 1), NEW j \in 1..(n + 1), i < j,
                GuardKey(accepted'[i]) = GuardKey(accepted'[j])
         PROVE  j - i > MaxEntries
    <3>1. CASE j <= n
      <4>1. i \in 1..n /\ j \in 1..n
        BY <2>4, <2>10, <3>1
      <4>2. QED
        BY <2>2, <2>5, <2>10, <4>1, ReplayFacts DEF ReplayIInv, ReplayBounded
    <3>2. CASE ~(j <= n)
      <4>1. j = n + 1 /\ i \in 1..n /\ GuardKey(accepted[i]) = s
        <5>1. j = n + 1 /\ i \in 1..n
          BY <2>4, <2>10, <3>2
        <5>2. accepted'[j] = d /\ accepted'[i] = accepted[i]
          BY <2>5, <5>1
        <5>3. QED
          BY <1>2, <2>10, <5>1, <5>2
      <4>2. ASSUME i > n - e PROVE FALSE
        <5>1. i - (n - e) \in 1..e /\ n - e + (i - (n - e)) = i
          BY <2>4, <4>1, <4>2
        <5>2. seen[i - (n - e)] = s
          BY <2>4, <4>1, <5>1
        <5>3. QED
          BY <1>5, <2>3, <5>1, <5>2, ReplayFacts
      <4>3. QED
        BY <2>4, <4>1, <4>2
    <3>3. QED
      BY <3>1, <3>2
  <2>11. ReplayBounded'
    <3>1. DOMAIN accepted' = 1..(n + 1)
      BY <2>5
    <3>2. QED
      BY <1>4, <2>1, <2>10, <3>1 DEF ReplayBounded
  <2>12. QED
    BY <2>1, <2>7, <2>8, <2>9, <2>11 DEF ReplayIInv
<1>6. CASE ~(fresh /\ ~(\E i \in DOMAIN seen : seen[i] = s))
  <2>1. refused' = (IF fresh THEN {d} ELSE {}) /\ UNCHANGED <<seen, accepted>>
    BY <1>2, <1>6 DEF Deliver, fresh
  <2>2. ReplayTypeOK'
    BY <1>1, <2>1 DEF ReplayIInv, ReplayTypeOK
  <2>3. ASSUME NEW x \in refused'
        PROVE  /\ signed[x.of] # {} /\ \E i \in 1..Len(accepted) : GuardKey(accepted[i]) = GuardKey(x)
               /\ profile = "v2" => \E i \in 1..Len(accepted) : accepted[i] = x
    <3>1. x = d /\ \E i \in DOMAIN seen : seen[i] = s
      BY <1>6, <2>1, <2>3
    <3>2. PICK i \in 1..Len(seen) : seen[i] = s
      BY <3>1, ReplayFacts
    <3>3. /\ Len(accepted) - Len(seen) + i \in 1..Len(accepted)
          /\ seen[i] = GuardKey(accepted[Len(accepted) - Len(seen) + i])
      BY <3>2, ReplayFacts DEF ReplayIInv, SeenIsLatest
    <3>4. PICK y : y = accepted[Len(accepted) - Len(seen) + i]
      OBVIOUS
    <3>5. GuardKey(y) = GuardKey(d) /\ y \in Deliveries
      BY <1>2, <3>2, <3>3, <3>4, ReplayFacts
    <3>6. Signature(y.of) = Signature(d.of) /\ y.text = d.text
      BY <3>5 DEF GuardKey
    <3>7. profile = "v2" => y.of = d.of
      BY <3>6 DEF Signature
    <3>8. profile = "v2" => y = d
      BY <3>5, <3>6, <3>7 DEF Deliveries
    <3>9. QED
      BY <1>1, <3>1, <3>3, <3>4, <3>5, <3>8
  <2>4. QED
    BY <1>1, <1>4, <2>1, <2>2, <2>3, NothingAccepted
<1>7. QED
  BY <1>5, <1>6

LEMMA ReplayStart == ReplayInit => ReplayIInv
<1> SUFFICES ASSUME ReplayInit PROVE ReplayIInv
  OBVIOUS
<1>1. ReplayTypeOK
  BY ReplayAssumption DEF ReplayInit, ReplayTypeOK, Times
<1>2. Len(seen) = 0 /\ Len(accepted) = 0 /\ accepted = <<>>
  BY DEF ReplayInit
<1>3. SeenIsLatest /\ AcceptedSigned
  BY <1>2, ReplayAssumption DEF SeenIsLatest, AcceptedSigned
<1>4. ReplayBounded
  BY <1>2 DEF ReplayInit, ReplayBounded
<1>5. QED
  BY <1>1, <1>3, <1>4 DEF ReplayInit, ReplayIInv

LEMMA ReplayStep == ReplayIInv /\ [ReplayNext]_replayVars => ReplayIInv'
<1> SUFFICES ASSUME ReplayIInv, [ReplayNext]_replayVars PROVE ReplayIInv'
  OBVIOUS
<1>1. ASSUME NEW d \in Deliveries, NEW changed, Deliver(d, changed) PROVE ReplayIInv'
  BY <1>1, DeliverKeeps
<1>2. ASSUME Forget PROVE ReplayIInv'
  <2>1. /\ seen' = <<>> /\ accepted' = <<>> /\ refused' = {}
        /\ UNCHANGED <<profile, now, signed>>
    BY <1>2 DEF Forget
  <2>2. ReplayTypeOK'
    BY <2>1 DEF ReplayIInv, ReplayTypeOK
  <2>3. Len(seen') = 0 /\ Len(accepted') = 0 /\ DOMAIN accepted' = {}
    BY <2>1
  <2>4. SeenIsLatest' /\ AcceptedSigned'
    BY <2>3, ReplayFacts DEF SeenIsLatest, AcceptedSigned
  <2>5. ReplayBounded'
    BY <2>1, <2>3 DEF ReplayBounded
  <2>6. QED
    BY <2>1, <2>2, <2>4, <2>5 DEF ReplayIInv
<1>3. ASSUME NEW m \in Messages, NEW date \in Times, Sign(m, date) PROVE ReplayIInv'
  <2>1. /\ signed[m] = {} /\ signed' = [signed EXCEPT ![m] = {date}] /\ refused' = {}
        /\ UNCHANGED <<profile, now, seen, accepted>>
    BY <1>3 DEF Sign
  <2>2. \A x \in Messages : signed[x] # {} => signed'[x] = signed[x]
    BY <2>1, ReplayFacts
  <2>3. ReplayTypeOK'
    BY <2>1 DEF ReplayIInv, ReplayTypeOK
  <2>4. QED
    BY <2>1, <2>2, <2>3, NothingAccepted
<1>4. ASSUME NEW t \in Times, ReceiverClock(t) PROVE ReplayIInv'
  <2>1. now' = t /\ refused' = {} /\ UNCHANGED <<profile, signed, seen, accepted>>
    BY <1>4 DEF ReceiverClock
  <2>2. ReplayTypeOK'
    BY <2>1 DEF ReplayIInv, ReplayTypeOK
  <2>3. QED
    BY <2>1, <2>2, NothingAccepted
<1>5. CASE UNCHANGED replayVars
  <2>1. UNCHANGED <<profile, now, signed, seen, accepted, refused>>
    BY <1>5 DEF replayVars
  <2>2. \A x : GuardKey(x)' = GuardKey(x)
    BY <2>1 DEF Signature, GuardKey
  <2>3. ReplayTypeOK'
    BY <2>1 DEF ReplayIInv, ReplayTypeOK
  <2>4. \A x \in refused :
          /\ signed[x.of] # {} /\ \E i \in 1..Len(accepted) : GuardKey(accepted[i]) = GuardKey(x)
          /\ profile = "v2" => \E i \in 1..Len(accepted) : accepted[i] = x
    BY ReplayFacts DEF ReplayIInv, ReplayBounded
  <2>5. QED
    BY <2>1, <2>2, <2>3, <2>4, NothingAccepted
<1>6. QED
  BY <1>1, <1>2, <1>3, <1>4, <1>5 DEF ReplayNext

----------------------------------------------------------------------------
(* What deleting a listener from a Set leaves of the others.               *)
LEMMA FirstRemoved ==
  ASSUME NEW S, NEW s \in Seq(S), NEW l
  PROVE  /\ RemoveFirst(s, l) \in Seq(S)
         /\ \A i \in DOMAIN s :
              s[i] # l => \E j \in DOMAIN RemoveFirst(s, l) : RemoveFirst(s, l)[j] = s[i]
<1> DEFINE r == RemoveFirst(s, l)
<1>1. CASE ~ \E i \in 1..Len(s) : s[i] = l
  <2>1. r = s
    BY <1>1 DEF RemoveFirst
  <2>2. QED
    BY <2>1
<1>2. CASE \E i \in 1..Len(s) : s[i] = l
  <2> DEFINE I == {i \in 1..Len(s) : s[i] = l}
  <2>1. I # {} /\ I \subseteq Nat
    BY <1>2
  <2>2. Min(I) \in I
    <3>1. PICK n \in I : \A m \in I : n <= m
      BY <2>1, LeastExists
    <3>2. QED
      BY <3>1 DEF Min
  <2>3. SelectInSeq(s, LAMBDA v : v = l) = Min(I)
    BY <2>1 DEF SelectInSeq
  <2>4. PICK at : at = Min(I)
    OBVIOUS
  <2>5. at \in DOMAIN s /\ s[at] = l
    BY <2>2, <2>4
  <2>6. r = RemoveAt(s, at)
    BY <1>2, <2>3, <2>4 DEF RemoveFirst
  <2>7. /\ RemoveAt(s, at) \in Seq(S) /\ DOMAIN RemoveAt(s, at) = 1..(Len(s) - 1)
        /\ DOMAIN s = 1..Len(s) /\ Len(s) \in Nat
        /\ \A i \in 1..(Len(s) - 1) : RemoveAt(s, at)[i] = IF i < at THEN s[i] ELSE s[i + 1]
    BY <2>5, RemovedFacts
  <2> HIDE DEF r
  <2>8. ASSUME NEW i \in DOMAIN s, s[i] # l PROVE \E j \in DOMAIN r : r[j] = s[i]
    <3>1. i # at /\ i \in 1..Len(s) /\ at \in 1..Len(s)
      BY <2>5, <2>7, <2>8
    <3>2. CASE i < at
      <4>1. i \in 1..(Len(s) - 1) /\ r[i] = s[i]
        BY <2>6, <2>7, <3>1, <3>2
      <4>2. QED
        BY <2>6, <2>7, <4>1
    <3>3. CASE ~(i < at)
      <4>1. i - 1 \in 1..(Len(s) - 1) /\ ~(i - 1 < at) /\ i - 1 + 1 = i
        BY <2>7, <3>1, <3>3
      <4>2. r[i - 1] = s[i]
        BY <2>6, <2>7, <4>1
      <4>3. QED
        BY <2>6, <2>7, <4>1, <4>2
    <3>4. QED
      BY <3>2, <3>3
  <2>9. r \in Seq(S)
    BY <2>6, <2>7
  <2>10. QED
    BY <2>8, <2>9 DEF r
<1>3. QED
  BY <1>1, <1>2

(* Observers: how many of one's last requests failed.                      *)
Failures(q) == Cardinality({i \in DOMAIN q : ~q[i]})

LEMMA FailuresAppended ==
  ASSUME NEW q \in Seq(BOOLEAN), NEW ok \in BOOLEAN
  PROVE  /\ Failures(q) \in Nat
         /\ ok => Failures(Append(q, ok)) = Failures(q)
         /\ ~ok => Failures(Append(q, ok)) = Failures(q) + 1
<1> DEFINE F == {i \in DOMAIN q : ~q[i]}
           r == Append(q, ok)
           G == {i \in DOMAIN r : ~r[i]}
           n == Len(q) + 1
<1>1. /\ DOMAIN q = 1..Len(q) /\ Len(q) \in Nat /\ DOMAIN r = 1..n
      /\ r[n] = ok /\ \A i \in 1..Len(q) : r[i] = q[i]
  OBVIOUS
<1>2. IsFiniteSet(1..Len(q))
  BY <1>1, FS_Interval
<1>3. F \subseteq 1..Len(q)
  BY <1>1
<1>4. IsFiniteSet(F)
  BY <1>2, <1>3, FS_Subset
<1>5. Cardinality(F) \in Nat
  BY <1>4, FS_CardinalityType
<1>6. ASSUME ok PROVE G = F
  <2>1. \A i : i \in 1..n <=> i \in 1..Len(q) \/ i = n
    BY <1>1
  <2>2. QED
    BY <1>1, <1>6, <2>1
<1>7. ASSUME ~ok PROVE G = F \cup {n} /\ n \notin F
  <2>1. \A i : i \in 1..n <=> i \in 1..Len(q) \/ i = n
    BY <1>1
  <2>2. n \notin 1..Len(q)
    BY <1>1
  <2>3. QED
    BY <1>1, <1>7, <2>1, <2>2
<1>8. ASSUME ~ok PROVE Cardinality(G) = Cardinality(F) + 1
  BY <1>4, <1>7, <1>8, FS_AddElement
<1>9. QED
  BY <1>5, <1>6, <1>8 DEF Failures

LEMMA LatestFacts ==
  ASSUME NEW q \in Seq(BOOLEAN)
  PROVE  /\ Latest(MaxKept, q) \in Seq(BOOLEAN)
         /\ Len(Latest(MaxKept, q)) = IF Len(q) > MaxKept THEN MaxKept ELSE Len(q)
         /\ Len(q) <= MaxKept => Latest(MaxKept, q) = q
<1>1. MaxKept \in Nat \ {0} /\ Len(q) \in Nat
  BY ObserversAssumption
<1>2. \A i \in 1..Len(q) : q[i] \in BOOLEAN
  OBVIOUS
<1>3. CASE Len(q) > MaxKept
  <2> DEFINE b == Len(q) - MaxKept + 1
             r == SubSeq(q, b, Len(q))
  <2>1. b \in Int /\ Len(q) \in Int /\ \A i \in b..Len(q) : q[i] \in BOOLEAN
    BY <1>1, <1>2, <1>3
  <2>2. r \in Seq(BOOLEAN) /\ Len(r) = IF b <= Len(q) THEN Len(q) - b + 1 ELSE 0
    <3> HIDE DEF b
    <3>1. QED
      BY <2>1, SubSeqProperties
  <2>3. Latest(MaxKept, q) = r
    BY <1>3 DEF Latest
  <2>4. b <= Len(q) /\ Len(q) - b + 1 = MaxKept
    BY <1>1
  <2> HIDE DEF b, r
  <2>5. Len(r) = MaxKept
    BY <2>2, <2>4
  <2>6. QED
    BY <1>1, <1>3, <2>2, <2>3, <2>5
<1>4. CASE ~(Len(q) > MaxKept)
  <2>1. Latest(MaxKept, q) = SubSeq(q, 1, Len(q))
    BY <1>4 DEF Latest
  <2>2. SubSeq(q, 1, Len(q)) = q
    OBVIOUS
  <2>3. QED
    BY <1>4, <2>1, <2>2
<1>5. QED
  BY <1>3, <1>4

Told(k, e) == IF emission.event = e /\ k \in emission.told THEN 1 ELSE 0

ObserversTyped ==
  /\ sets \in Seq(Seq(Listeners))
  /\ current \in [Events -> 0..Len(sets)]
  /\ handles \subseteq [set : 1..Len(sets), listener : Listeners]
  /\ emission \in [event : Events \cup {"none"}, set : 0..Len(sets), told : SUBSET Listeners,
                   steady : SUBSET Listeners, inside : AppListeners \cup {"none"}]
  /\ sinks \in [requests : Seq(BOOLEAN), count : Nat, errors : Nat, level : Levels,
                info : Nat, error : Nat, together : BOOLEAN]

(* Who is to be told stands in the Set that the emission walks.            *)
WalkAlong ==
  /\ emission.event = "none" => emission.inside = "none"
  /\ emission.event # "none" =>
       emission.set \in DOMAIN sets /\ emission.steady \subseteq ElementsOf(emission.set)

(* The sinks stand in the Sets of both events until one of them leaves.    *)
SinksHeld ==
  sinks.together =>
    /\ \A e \in Events : current[e] # 0 /\ Sinks \subseteq ElementsOf(current[e])
    /\ emission.event # "none" => emission.set = current[emission.event]

(* What the sinks count is what had been emitted before the emission under *)
(* way, and that one with those who were told of it already.               *)
SinksCount(completed, failed) ==
  LET total == completed + failed + Told("dashboard", "completed") + Told("dashboard", "failed")
  IN  /\ Len(sinks.requests) = IF total > MaxKept THEN MaxKept ELSE total
      /\ total <= MaxKept => Failures(sinks.requests) = failed + Told("dashboard", "failed")
      /\ sinks.count = completed + Told("exporter", "completed")
      /\ sinks.errors = failed + Told("exporter", "failed")
      /\ sinks.error = failed + Told("logger", "failed")
      /\ sinks.info <= completed + Told("logger", "completed")

SinksCounted == sinks.together => \E completed, failed \in Nat : SinksCount(completed, failed)

ObserversIInv ==
  ObserversTyped /\ WalkAlong /\ SinksHeld /\ SinksCounted /\ EventsDelivered

LEMMA ToldIs ==
  ASSUME NEW k, NEW e
  PROVE  Told(k, e) \in {0, 1} /\ (Told(k, e) = 1 <=> emission.event = e /\ k \in emission.told)
BY DEF Told

(* What tells no sink, and takes none back, leaves their account alone.    *)
LEMMA CountAlong ==
  ASSUME SinksCounted, sinks'.together => sinks.together,
         emission'.event = emission.event,
         \A k \in Sinks : k \in emission'.told <=> k \in emission.told,
         sinks'.requests = sinks.requests, sinks'.count = sinks.count, sinks'.errors = sinks.errors,
         sinks'.error = sinks.error, sinks'.info = sinks.info
  PROVE  SinksCounted'
<1>1. \A k \in Sinks : \A e : Told(k, e)' = Told(k, e)
  BY DEF Told
<1>2. /\ "dashboard" \in Sinks /\ "exporter" \in Sinks /\ "logger" \in Sinks
  BY DEF Sinks
<1>3. ASSUME NEW completed \in Nat, NEW failed \in Nat, SinksCount(completed, failed)
      PROVE  SinksCount(completed, failed)'
  BY <1>1, <1>2, <1>3 DEF SinksCount
<1>4. QED
  BY <1>3 DEF SinksCounted

(* What takes no listener of an emission's Set leaves the walk sound.      *)
LEMMA ElementsTypedSets ==
  ASSUME ObserversTyped
  PROVE  /\ Len(sets) \in Nat /\ DOMAIN sets = 1..Len(sets)
         /\ \A s \in DOMAIN sets : sets[s] \in Seq(Listeners) /\ ElementsOf(s) \subseteq Listeners
         /\ "none" \notin Events /\ \A k \in Sinks : k \notin AppListeners
BY ObserversAssumption DEF ObserversTyped, ElementsOf, Events, Sinks

LEMMA ObserversStart == ObserversInit => ObserversIInv
<1> SUFFICES ASSUME ObserversInit PROVE ObserversIInv
  OBVIOUS
<1>1. DOMAIN sets = 1..2 /\ Len(sets) = 2 /\ \A s \in 1..2 : ElementsOf(s) = Sinks
  <2>1. \A s \in 1..2 : sets[s] = <<"logger", "exporter", "dashboard">>
    BY DEF ObserversInit
  <2>2. DOMAIN sets = 1..2 /\ Len(sets) = 2
    BY DEF ObserversInit
  <2>3. DOMAIN <<"logger", "exporter", "dashboard">> = 1..3
    OBVIOUS
  <2>4. \A i : i \in 1..3 <=> i = 1 \/ i = 2 \/ i = 3
    OBVIOUS
  <2>5. {<<"logger", "exporter", "dashboard">>[i] : i \in 1..3} = {"logger", "exporter", "dashboard"}
    BY <2>4
  <2>6. QED
    BY <2>1, <2>2, <2>3, <2>5 DEF ElementsOf, Sinks
<1>2. ObserversTyped
  <2>1. sets \in Seq(Seq(Listeners))
    <3>1. <<"logger", "exporter", "dashboard">> \in Seq(Listeners)
      BY DEF Listeners, Sinks
    <3>2. QED
      BY <3>1 DEF ObserversInit
  <2>2. current \in [Events -> 0..Len(sets)]
    BY <1>1 DEF ObserversInit, Events
  <2>3. handles \subseteq [set : 1..Len(sets), listener : Listeners]
    BY <1>1 DEF ObserversInit, Listeners, Sinks
  <2>4. emission \in [event : Events \cup {"none"}, set : 0..Len(sets), told : SUBSET Listeners,
                      steady : SUBSET Listeners, inside : AppListeners \cup {"none"}]
    BY <1>1 DEF ObserversInit, NotEmitting
  <2>5. sinks \in [requests : Seq(BOOLEAN), count : Nat, errors : Nat, level : Levels,
                   info : Nat, error : Nat, together : BOOLEAN]
    BY DEF ObserversInit, NewSinks, Levels
  <2>6. QED
    BY <2>1, <2>2, <2>3, <2>4, <2>5 DEF ObserversTyped
<1>3. WalkAlong
  BY DEF ObserversInit, NotEmitting, WalkAlong
<1>4. SinksHeld
  BY <1>1 DEF ObserversInit, NotEmitting, SinksHeld, Events
<1>5. SinksCounted
  <2>1. \A k \in Sinks, e \in Events : Told(k, e) = 0
    BY DEF ObserversInit, NotEmitting, Told
  <2>2. Failures(<<>>) = 0
    BY FS_EmptySet DEF Failures
  <2>3. SinksCount(0, 0)
    BY <2>1, <2>2, ObserversAssumption DEF SinksCount, ObserversInit, NewSinks, Sinks, Events
  <2>4. QED
    BY <2>3 DEF SinksCounted
<1>6. EventsDelivered
  BY DEF ObserversInit, EventsDelivered
<1>7. QED
  BY <1>2, <1>3, <1>4, <1>5, <1>6 DEF ObserversIInv

(* on() lets every Set grow.                                               *)
LEMMA OnStep ==
  ASSUME ObserversIInv, NEW l \in AppListeners, NEW e \in Events, On(l, e)
  PROVE  ObserversIInv'
<1> DEFINE new == current[e] = 0
           s == IF new THEN Len(sets) + 1 ELSE current[e]
           there == IF new THEN Append(sets, <<>>) ELSE sets
           already == ~new /\ l \in ElementsOf(s)
<1>1. /\ emission' = emission /\ sinks' = sinks /\ current' = [current EXCEPT ![e] = s]
      /\ sets' = IF already THEN sets ELSE [there EXCEPT ![s] = Append(@, l)]
      /\ handles' = handles \cup {[set |-> s, listener |-> l]}
      /\ history' = [history EXCEPT !.changes = @ + 1]
  BY DEF On, Changed
<1>2. ObserversTyped /\ WalkAlong /\ SinksHeld /\ SinksCounted /\ EventsDelivered
  BY DEF ObserversIInv
<1>3. /\ Len(sets) \in Nat /\ DOMAIN sets = 1..Len(sets) /\ l \in Listeners
      /\ sets \in Seq(Seq(Listeners)) /\ current \in [Events -> 0..Len(sets)]
  BY <1>2, ElementsTypedSets DEF ObserversTyped, Listeners
<1> HIDE DEF already
<1>4. /\ there \in Seq(Seq(Listeners)) /\ Len(there) \in Nat /\ DOMAIN there = 1..Len(there)
      /\ Len(sets) <= Len(there)
      /\ s \in 1..Len(there) /\ \A r \in DOMAIN sets : there[r] = sets[r]
  <2>1. CASE new
    <3> DEFINE z == <<>>
    <3>1. z \in Seq(Listeners)
      OBVIOUS
    <3>2. there = Append(sets, z)
      BY <2>1
    <3> HIDE DEF z
    <3>3. Append(sets, z) \in Seq(Seq(Listeners)) /\ Len(Append(sets, z)) = Len(sets) + 1
          /\ \A r \in 1..Len(sets) : Append(sets, z)[r] = sets[r]
      BY <1>3, <3>1
    <3> HIDE DEF there
    <3>4. s = Len(sets) + 1
      BY <2>1
    <3>5. there \in Seq(Seq(Listeners)) /\ Len(there) = Len(sets) + 1
      BY <3>2, <3>3
    <3>6. QED
      BY <1>3, <3>2, <3>3, <3>4, <3>5
  <2>2. CASE ~new
    <3>1. there = sets /\ s = current[e] /\ current[e] \in 0..Len(sets) /\ current[e] # 0
      BY <1>3, <2>2
    <3>2. QED
      BY <1>3, <3>1
  <2>3. QED
    BY <2>1, <2>2
<1> HIDE DEF there
<1>5. \A r \in DOMAIN there : there[r] \in Seq(Listeners)
  BY <1>4
<1>6. /\ sets' \in Seq(Seq(Listeners)) /\ Len(sets) <= Len(sets')
      /\ Len(sets') \in Nat /\ DOMAIN sets' = 1..Len(sets')
      /\ s \in 1..Len(sets')
      /\ \A r \in DOMAIN sets : ElementsOf(r) \subseteq ElementsOf(r)'
  <2>1. CASE already
    <3>1. ~new
      BY <2>1 DEF already
    <3>2. sets' = sets /\ s = current[e] /\ current[e] \in 0..Len(sets) /\ current[e] # 0
      BY <1>1, <1>3, <2>1, <3>1
    <3>3. QED
      BY <1>3, <3>2 DEF ElementsOf
  <2>2. CASE ~already
    <3> HIDE DEF s
    <3>1. sets' = [there EXCEPT ![s] = Append(there[s], l)]
      BY <1>1, <2>2 DEF s
    <3>2. Append(there[s], l) \in Seq(Listeners)
      BY <1>3, <1>4, <1>5
    <3>3. sets' \in Seq(Seq(Listeners)) /\ Len(sets') = Len(there) /\ DOMAIN sets' = 1..Len(there)
      BY <1>4, <3>1, <3>2
    <3>4. ASSUME NEW r \in DOMAIN sets PROVE ElementsOf(r) \subseteq ElementsOf(r)'
      <4>1. r \in 1..Len(there) /\ there[r] = sets[r] /\ there[r] \in Seq(Listeners)
        BY <1>3, <1>4, <1>5
      <4>2. /\ r = s => sets'[r] = Append(there[r], l)
            /\ r # s => sets'[r] = there[r]
        BY <1>4, <3>1, <4>1
      <4>3. \A i \in DOMAIN there[r] :
              i \in DOMAIN Append(there[r], l) /\ Append(there[r], l)[i] = there[r][i]
        BY <1>3, <4>1
      <4>4. \A i \in DOMAIN sets[r] : i \in DOMAIN sets'[r] /\ sets'[r][i] = sets[r][i]
        BY <4>1, <4>2, <4>3
      <4>5. QED
        BY <4>4 DEF ElementsOf
    <3>5. QED
      BY <1>3, <1>4, <3>3, <3>4
  <2>3. QED
    BY <2>1, <2>2
<1> HIDE DEF s
<1>7. ObserversTyped'
  <2>1. current' \in [Events -> 0..Len(sets')]
    BY <1>1, <1>3, <1>6
  <2>2. handles' \subseteq [set : 1..Len(sets'), listener : Listeners]
    <3>1. handles \subseteq [set : 1..Len(sets), listener : Listeners]
      BY <1>2 DEF ObserversTyped
    <3>2. 1..Len(sets) \subseteq 1..Len(sets')
      BY <1>3, <1>6
    <3>3. QED
      BY <1>1, <1>3, <1>6, <3>1, <3>2
  <2>3. emission' \in [event : Events \cup {"none"}, set : 0..Len(sets'), told : SUBSET Listeners,
                       steady : SUBSET Listeners, inside : AppListeners \cup {"none"}]
    <3>1. 0..Len(sets) \subseteq 0..Len(sets')
      BY <1>3, <1>6
    <3>2. emission \in [event : Events \cup {"none"}, set : 0..Len(sets), told : SUBSET Listeners,
                       steady : SUBSET Listeners, inside : AppListeners \cup {"none"}]
      BY <1>2 DEF ObserversTyped
    <3>3. QED
      BY <1>1, <3>1, <3>2
  <2>4. QED
    BY <1>1, <1>2, <1>6, <2>1, <2>2, <2>3 DEF ObserversTyped
<1>8. WalkAlong'
  <2>1. DOMAIN sets \subseteq DOMAIN sets'
    BY <1>3, <1>6
  <2>2. QED
    BY <1>1, <1>2, <1>6, <2>1 DEF WalkAlong
<1>9. SinksHeld'
  <2>1. ASSUME sinks.together PROVE current' = current
    <3>1. current[e] # 0
      BY <1>2, <2>1 DEF SinksHeld
    <3>2. s = current[e]
      BY <3>1 DEF s
    <3>3. QED
      BY <1>1, <1>3, <3>2
  <2>2. ASSUME sinks.together, NEW d \in Events
        PROVE  current'[d] # 0 /\ (Sinks \subseteq ElementsOf(current[d]))'
    <3>1. PICK r : r = current[d]
      OBVIOUS
    <3>2. r \in 0..Len(sets) /\ r # 0 /\ Sinks \subseteq ElementsOf(r)
      BY <1>2, <1>3, <2>2, <3>1 DEF SinksHeld
    <3>3. r \in DOMAIN sets
      BY <1>3, <3>2
    <3>4. Sinks \subseteq ElementsOf(r)'
      BY <1>6, <3>2, <3>3
    <3>5. current'[d] = r
      BY <2>1, <2>2, <3>1
    <3>6. QED
      BY <3>2, <3>4, <3>5 DEF ElementsOf
  <2>3. ASSUME sinks.together, emission.event # "none" PROVE emission'.set = current'[emission'.event]
    BY <1>1, <1>2, <2>1, <2>3 DEF SinksHeld
  <2>4. QED
    BY <1>1, <2>2, <2>3 DEF SinksHeld
<1>10. SinksCounted'
  BY <1>1, <1>2, CountAlong
<1>11. EventsDelivered'
  BY <1>1, <1>2 DEF EventsDelivered
<1>12. QED
  BY <1>7, <1>8, <1>9, <1>10, <1>11 DEF ObserversIInv

(* What a deletion takes from the Sets, the emission does not wait for.    *)
LEMMA DeletedFacts ==
  ASSUME ObserversIInv, NEW where, NEW l, DeletedFrom(where, l)
  PROVE  /\ sets' \in Seq(Seq(Listeners)) /\ Len(sets') = Len(sets) /\ DOMAIN sets' = DOMAIN sets
         /\ \A r \in DOMAIN sets : \A k \in ElementsOf(r) : k # l => k \in ElementsOf(r)'
         /\ emission' \in [event : Events \cup {"none"}, set : 0..Len(sets), told : SUBSET Listeners,
                           steady : SUBSET Listeners, inside : AppListeners \cup {"none"}]
         /\ emission'.event = emission.event /\ emission'.set = emission.set
         /\ \A k : k # l => (k \in emission'.told <=> k \in emission.told)
         /\ WalkAlong'
<1>1. /\ Len(sets) \in Nat /\ DOMAIN sets = 1..Len(sets)
      /\ \A s \in DOMAIN sets : sets[s] \in Seq(Listeners)
      /\ sets \in Seq(Seq(Listeners))
      /\ emission \in [event : Events \cup {"none"}, set : 0..Len(sets), told : SUBSET Listeners,
                       steady : SUBSET Listeners, inside : AppListeners \cup {"none"}]
      /\ WalkAlong
  BY ElementsTypedSets DEF ObserversIInv, ObserversTyped
<1>2. /\ sets' = [s \in DOMAIN sets |-> IF s \in where THEN RemoveFirst(sets[s], l) ELSE sets[s]]
      /\ emission' = IF emission.set \in where
                     THEN [emission EXCEPT !.told = @ \ {l}, !.steady = @ \ {l}]
                     ELSE emission
  BY DEF DeletedFrom
<1>3. \A s \in DOMAIN sets :
        /\ RemoveFirst(sets[s], l) \in Seq(Listeners)
        /\ \A i \in DOMAIN sets[s] :
             sets[s][i] # l => \E j \in DOMAIN RemoveFirst(sets[s], l) :
                                 RemoveFirst(sets[s], l)[j] = sets[s][i]
  <2>1. ASSUME NEW q \in Seq(Listeners)
        PROVE  /\ RemoveFirst(q, l) \in Seq(Listeners)
               /\ \A i \in DOMAIN q :
                    q[i] # l => \E j \in DOMAIN RemoveFirst(q, l) : RemoveFirst(q, l)[j] = q[i]
    BY FirstRemoved
  <2>2. QED
    BY <1>1, <2>1
<1>4. /\ DOMAIN sets' = 1..Len(sets)
      /\ \A s \in 1..Len(sets) :
           sets'[s] \in Seq(Listeners)
           /\ sets'[s] = IF s \in where THEN RemoveFirst(sets[s], l) ELSE sets[s]
  BY <1>1, <1>2, <1>3
<1>5. sets' \in Seq(Seq(Listeners)) /\ Len(sets') = Len(sets)
  <2>1. sets' = [s \in 1..Len(sets) |-> sets'[s]]
    BY <1>1, <1>2
  <2>2. sets' \in [1..Len(sets) -> Seq(Listeners)]
    BY <1>4, <2>1
  <2>3. ASSUME NEW T, NEW n \in Nat, NEW f \in [1..n -> T] PROVE f \in Seq(T) /\ Len(f) = n
    OBVIOUS
  <2>4. QED
    BY <1>1, <2>2, <2>3
<1>6. ASSUME NEW r \in DOMAIN sets, NEW k \in ElementsOf(r), k # l PROVE k \in ElementsOf(r)'
  <2>1. PICK i \in DOMAIN sets[r] : sets[r][i] = k
    BY <1>6 DEF ElementsOf
  <2>2. \E j \in DOMAIN sets'[r] : sets'[r][j] = k
    <3>1. CASE r \in where
      <4>1. sets'[r] = RemoveFirst(sets[r], l)
        BY <1>1, <1>4, <3>1
      <4>2. \E j \in DOMAIN RemoveFirst(sets[r], l) : RemoveFirst(sets[r], l)[j] = sets[r][i]
        BY <1>3, <1>6, <2>1
      <4>3. QED
        BY <2>1, <4>1, <4>2
    <3>2. CASE r \notin where
      <4>1. sets'[r] = sets[r]
        BY <1>1, <1>4, <3>2
      <4>2. QED
        BY <2>1, <4>1
    <3>3. QED
      BY <3>1, <3>2
  <2>3. QED
    BY <2>2 DEF ElementsOf
<1>7. /\ emission' \in [event : Events \cup {"none"}, set : 0..Len(sets), told : SUBSET Listeners,
                        steady : SUBSET Listeners, inside : AppListeners \cup {"none"}]
      /\ emission'.event = emission.event /\ emission'.set = emission.set
      /\ emission'.inside = emission.inside
      /\ \A k : k # l => (k \in emission'.told <=> k \in emission.told)
      /\ \A k : k \in emission'.steady => k \in emission.steady /\ (emission.set \in where => k # l)
  BY <1>1, <1>2
<1>8. ASSUME emission.event # "none"
      PROVE  \A k \in emission'.steady : k \in ElementsOf(emission.set)'
  <2>1. emission.set \in DOMAIN sets /\ emission.steady \subseteq ElementsOf(emission.set)
    BY <1>1, <1>8 DEF WalkAlong
  <2>2. CASE emission.set \in where
    <3>1. PICK r : r = emission.set
      OBVIOUS
    <3>2. ASSUME NEW k \in emission'.steady PROVE k \in ElementsOf(r)'
      BY <1>6, <1>7, <2>1, <2>2, <3>1
    <3>3. QED
      BY <1>7, <3>1, <3>2 DEF ElementsOf
  <2>3. CASE emission.set \notin where
    <3>1. PICK r : r = emission.set
      OBVIOUS
    <3>2. sets'[r] = sets[r] /\ emission' = emission
      BY <1>1, <1>2, <1>4, <2>1, <2>3, <3>1
    <3>3. ElementsOf(r)' = ElementsOf(r)
      BY <3>2 DEF ElementsOf
    <3>4. ElementsOf(emission.set)' = ElementsOf(r)
      BY <1>7, <3>1, <3>3 DEF ElementsOf
    <3>5. QED
      BY <2>1, <3>1, <3>2, <3>4
  <2>4. QED
    BY <2>2, <2>3
<1>9. WalkAlong'
  <2>1. emission'.event = "none" => emission'.inside = "none"
    BY <1>1, <1>7 DEF WalkAlong
  <2>2. ASSUME emission'.event # "none"
        PROVE  emission'.set \in DOMAIN sets' /\ (emission.steady \subseteq ElementsOf(emission.set))'
    BY <1>1, <1>4, <1>7, <1>8, <2>2 DEF WalkAlong
  <2>3. QED
    BY <2>1, <2>2 DEF WalkAlong
<1>10. QED
  BY <1>1, <1>4, <1>5, <1>6, <1>7, <1>9

(* An application that takes its own listeners away leaves the sinks.      *)
LEMMA DeletedInv ==
  ASSUME ObserversIInv, NEW where, NEW l, DeletedFrom(where, l),
         handles' \subseteq handles, current' = current, Changed,
         sinks' = [sinks EXCEPT !.together = sinks'.together], sinks'.together \in BOOLEAN,
         l \in Sinks => ~sinks'.together, sinks'.together => sinks.together
  PROVE  ObserversIInv'
<1>1. /\ sets' \in Seq(Seq(Listeners)) /\ Len(sets') = Len(sets) /\ DOMAIN sets' = DOMAIN sets
      /\ \A r \in DOMAIN sets : \A k \in ElementsOf(r) : k # l => k \in ElementsOf(r)'
      /\ emission' \in [event : Events \cup {"none"}, set : 0..Len(sets), told : SUBSET Listeners,
                        steady : SUBSET Listeners, inside : AppListeners \cup {"none"}]
      /\ emission'.event = emission.event /\ emission'.set = emission.set
      /\ \A k : k # l => (k \in emission'.told <=> k \in emission.told)
      /\ WalkAlong'
  BY DeletedFacts
<1>2. ObserversTyped /\ WalkAlong /\ SinksHeld /\ SinksCounted /\ EventsDelivered
  BY DEF ObserversIInv
<1>3. /\ current \in [Events -> 0..Len(sets)] /\ handles \subseteq [set : 1..Len(sets), listener : Listeners]
      /\ sinks \in [requests : Seq(BOOLEAN), count : Nat, errors : Nat, level : Levels,
                    info : Nat, error : Nat, together : BOOLEAN]
      /\ DOMAIN sets = 1..Len(sets) /\ Len(sets) \in Nat
  BY <1>2, ElementsTypedSets DEF ObserversTyped
<1>4. ObserversTyped'
  BY <1>1, <1>3 DEF ObserversTyped
<1>5. SinksHeld'
  <2>1. ASSUME sinks'.together, NEW d \in Events
        PROVE  current'[d] # 0 /\ (Sinks \subseteq ElementsOf(current[d]))'
    <3>1. PICK r : r = current[d]
      OBVIOUS
    <3>2. r \in 0..Len(sets) /\ r # 0 /\ Sinks \subseteq ElementsOf(r) /\ l \notin Sinks
      BY <1>2, <1>3, <2>1, <3>1 DEF SinksHeld
    <3>3. ASSUME NEW k \in Sinks PROVE k \in ElementsOf(r)'
      <4>1. k \in ElementsOf(r) /\ k # l /\ r \in DOMAIN sets
        BY <1>3, <3>2
      <4>2. QED
        BY <1>1, <4>1
    <3>4. current'[d] = r
      BY <3>1
    <3>5. \A k \in Sinks : k \in ElementsOf(current[d])'
      BY <3>3, <3>4 DEF ElementsOf
    <3>6. QED
      BY <3>2, <3>4, <3>5
  <2>2. ASSUME sinks'.together, emission'.event # "none" PROVE emission'.set = current'[emission'.event]
    BY <1>1, <1>2, <2>2 DEF SinksHeld
  <2>3. QED
    BY <2>1, <2>2 DEF SinksHeld
<1>6. SinksCounted'
  <2>1. CASE sinks'.together
    <3>1. \A k \in Sinks : k # l
      BY <2>1
    <3>2. /\ sinks'.requests = sinks.requests /\ sinks'.count = sinks.count /\ sinks'.errors = sinks.errors
          /\ sinks'.error = sinks.error /\ sinks'.info = sinks.info
      BY <1>3
    <3>3. QED
      BY <1>1, <1>2, <3>1, <3>2, CountAlong
  <2>2. CASE ~sinks'.together
    BY <2>2 DEF SinksCounted
  <2>3. QED
    BY <2>1, <2>2
<1>7. EventsDelivered'
  BY <1>2 DEF EventsDelivered, Changed
<1>8. QED
  BY <1>1, <1>4, <1>5, <1>6, <1>7 DEF ObserversIInv

LEMMA LeavingInv ==
  ASSUME ObserversIInv,
         \/ \E h \in handles : Unsubscribe(h)
         \/ \E l \in AppListeners, e \in Events : Off(l, e)
         \/ Uninstrument
  PROVE  ObserversIInv'
<1>1. sinks \in [requests : Seq(BOOLEAN), count : Nat, errors : Nat, level : Levels,
                 info : Nat, error : Nat, together : BOOLEAN]
  BY DEF ObserversIInv, ObserversTyped
<1>2. sinks = [sinks EXCEPT !.together = sinks.together] /\ sinks.together \in BOOLEAN
  BY <1>1
<1>3. \A l \in AppListeners : l \notin Sinks
  BY ObserversAssumption DEF Sinks
<1>4. ASSUME NEW h \in handles, Unsubscribe(h) PROVE ObserversIInv'
  <2>1. /\ DeletedFrom({h.set}, h.listener) /\ handles' \subseteq handles /\ current' = current
        /\ sinks' = sinks /\ Changed /\ h.listener \in AppListeners
    BY <1>4 DEF Unsubscribe
  <2>2. h.listener \notin Sinks
    BY <1>3, <2>1
  <2>3. sinks' = [sinks EXCEPT !.together = sinks'.together] /\ sinks'.together \in BOOLEAN
    BY <1>2, <2>1
  <2>4. QED
    BY <2>1, <2>2, <2>3, DeletedInv
<1>5. ASSUME NEW l \in AppListeners, NEW e \in Events, Off(l, e) PROVE ObserversIInv'
  <2>1. /\ DeletedFrom({current[e]}, l) /\ handles' \subseteq handles /\ current' = current
        /\ sinks' = sinks /\ Changed
    BY <1>5 DEF Off
  <2>2. l \notin Sinks
    BY <1>3
  <2>3. sinks' = [sinks EXCEPT !.together = sinks'.together] /\ sinks'.together \in BOOLEAN
    BY <1>2, <2>1
  <2>4. QED
    BY <2>1, <2>2, <2>3, DeletedInv
<1>6. ASSUME Uninstrument PROVE ObserversIInv'
  <2> DEFINE where == {h.set : h \in {x \in handles : x.listener = "dashboard"}}
  <2>1. /\ DeletedFrom(where, "dashboard") /\ handles' \subseteq handles /\ current' = current
        /\ sinks' = [sinks EXCEPT !.together = FALSE] /\ Changed
    BY <1>6 DEF Uninstrument
  <2>2. ~sinks'.together /\ sinks'.together \in BOOLEAN
    BY <1>1, <2>1
  <2>3. sinks' = [sinks EXCEPT !.together = sinks'.together]
    BY <1>1, <2>1
  <2> HIDE DEF where
  <2>4. QED
    BY <2>1, <2>2, <2>3, DeletedInv
<1>7. QED
  BY <1>4, <1>5, <1>6

(* Dropped Sets stay as they are, for the emission that walks one.         *)
LEMMA RemoveAllInv ==
  ASSUME ObserversIInv, NEW es, RemoveAll(es) PROVE ObserversIInv'
<1>1. /\ UNCHANGED <<sets, handles, emission>>
      /\ current' = [e \in Events |-> IF e \in es THEN 0 ELSE current[e]]
      /\ sinks' = [sinks EXCEPT !.together = FALSE]
      /\ history' = [history EXCEPT !.changes = @ + 1]
  BY DEF RemoveAll, Changed
<1>2. ObserversTyped /\ WalkAlong /\ EventsDelivered /\ Len(sets) \in Nat
  BY ElementsTypedSets DEF ObserversIInv
<1>3. ObserversTyped'
  <2>1. current' \in [Events -> 0..Len(sets)]
    BY <1>1, <1>2 DEF ObserversTyped
  <2>2. sinks' \in [requests : Seq(BOOLEAN), count : Nat, errors : Nat, level : Levels,
                    info : Nat, error : Nat, together : BOOLEAN]
    BY <1>1, <1>2 DEF ObserversTyped
  <2>3. QED
    BY <1>1, <1>2, <2>1, <2>2 DEF ObserversTyped
<1>4. WalkAlong'
  BY <1>1, <1>2 DEF WalkAlong, ElementsOf
<1>5. ~sinks'.together
  BY <1>1, <1>2 DEF ObserversTyped
<1>6. EventsDelivered'
  BY <1>1, <1>2 DEF EventsDelivered
<1>7. QED
  BY <1>3, <1>4, <1>5, <1>6 DEF ObserversIInv, SinksHeld, SinksCounted

LEMMA SetLevelInv ==
  ASSUME ObserversIInv, NEW level \in Levels, SetLevel(level) PROVE ObserversIInv'
<1>1. /\ UNCHANGED <<sets, current, handles, emission>> /\ sinks' = [sinks EXCEPT !.level = level]
      /\ history' = [history EXCEPT !.changes = @ + 1]
  BY DEF SetLevel, Changed
<1>2. ObserversTyped /\ WalkAlong /\ SinksHeld /\ SinksCounted /\ EventsDelivered
  BY DEF ObserversIInv
<1>3. ObserversTyped'
  BY <1>1, <1>2 DEF ObserversTyped
<1>4. WalkAlong'
  BY <1>1, <1>2 DEF WalkAlong, ElementsOf
<1>5. /\ sinks'.together = sinks.together
      /\ sinks'.requests = sinks.requests /\ sinks'.count = sinks.count /\ sinks'.errors = sinks.errors
      /\ sinks'.error = sinks.error /\ sinks'.info = sinks.info
  BY <1>1, <1>2 DEF ObserversTyped
<1>6. SinksHeld'
  BY <1>1, <1>2, <1>5 DEF SinksHeld, ElementsOf
<1>7. SinksCounted'
  BY <1>1, <1>2, <1>5, CountAlong
<1>8. EventsDelivered'
  BY <1>1, <1>2 DEF EventsDelivered
<1>9. QED
  BY <1>3, <1>4, <1>6, <1>7, <1>8 DEF ObserversIInv

(* A listener of the application that returns or throws.                   *)
LEMMA ListenerEndsInv ==
  ASSUME ObserversIInv, ListenerReturns \/ ListenerThrows PROVE ObserversIInv'
<1>1. /\ UNCHANGED <<sets, current, handles, sinks>>
      /\ emission.inside # "none" /\ emission' = [emission EXCEPT !.inside = "none"]
  BY DEF ListenerReturns, ListenerThrows, AfterThrow
<1>2. ObserversTyped /\ WalkAlong /\ SinksHeld /\ SinksCounted /\ EventsDelivered
  BY DEF ObserversIInv
<1>3. emission'.event = emission.event /\ emission'.told = emission.told
      /\ emission'.set = emission.set /\ emission'.steady = emission.steady
      /\ emission'.inside = "none" /\ emission.event # "none"
  BY <1>1, <1>2 DEF ObserversTyped, WalkAlong
<1>4. ObserversTyped'
  BY <1>1, <1>2 DEF ObserversTyped
<1>5. WalkAlong'
  BY <1>1, <1>2, <1>3 DEF WalkAlong, ElementsOf
<1>6. SinksHeld'
  BY <1>1, <1>2, <1>3 DEF SinksHeld, ElementsOf
<1>7. SinksCounted'
  BY <1>1, <1>2, <1>3, CountAlong
<1>8. history'.missed = history.missed
  <2>1. CASE ListenerReturns
    BY <2>1 DEF ListenerReturns
  <2>2. CASE ListenerThrows
    <3>1. emission' # NotEmitting
      BY <1>3 DEF NotEmitting
    <3>2. Over(emission')
      BY <2>2 DEF ListenerThrows
    <3>3. history' = [history EXCEPT !.missed = @]
      BY <3>1, <3>2 DEF Over
    <3>4. QED
      BY <3>3
  <2>3. QED
    BY <2>1, <2>2
<1>9. EventsDelivered'
  BY <1>2, <1>8 DEF EventsDelivered
<1>10. QED
  BY <1>4, <1>5, <1>6, <1>7, <1>9 DEF ObserversIInv

(* What one sink makes of an event is what its being told of it counts.    *)
LEMMA HeardCounts ==
  ASSUME SinksCounted, NEW l \in Sinks, l \notin emission.told, emission.event \in Events,
         sinks \in [requests : Seq(BOOLEAN), count : Nat, errors : Nat, level : Levels,
                    info : Nat, error : Nat, together : BOOLEAN],
         sinks' = Heard(l, emission.event),
         emission'.event = emission.event, emission'.told = emission.told \cup {l}
  PROVE  /\ sinks' \in [requests : Seq(BOOLEAN), count : Nat, errors : Nat, level : Levels,
                        info : Nat, error : Nat, together : BOOLEAN]
         /\ sinks'.together = sinks.together
         /\ SinksCounted'
<1> DEFINE ok == emission.event = "completed"
           one == IF ok THEN 1 ELSE 0
           other == IF ok THEN 0 ELSE 1
           q == sinks.requests
           kept == Latest(MaxKept, Append(q, ok))
           d == Told("dashboard", "completed") + Told("dashboard", "failed")
<1>1. /\ "dashboard" \in Sinks /\ "exporter" \in Sinks /\ "logger" \in Sinks
      /\ "completed" \in Events /\ "failed" \in Events /\ (ok \/ emission.event = "failed") /\ ok \in BOOLEAN
      /\ MaxKept \in Nat \ {0}
  BY ObserversAssumption DEF Sinks, Events
<1>2. \A k \in Sinks, e \in Events : k # l => Told(k, e)' = Told(k, e)
  BY DEF Told
<1>3. Told(l, "completed") = 0 /\ Told(l, "failed") = 0
  BY DEF Told
<1>4. Told(l, "completed")' = one /\ Told(l, "failed")' = other
  BY <1>1 DEF Told
<1>5. \A k \in Sinks, e \in Events : Told(k, e) \in Nat
  BY DEF Told
<1>6. /\ q \in Seq(BOOLEAN) /\ Append(q, ok) \in Seq(BOOLEAN) /\ Len(q) \in Nat
      /\ Len(Append(q, ok)) = Len(q) + 1
  BY <1>1
<1>7. CASE l = "dashboard"
  <2>1. sinks' = [sinks EXCEPT !.requests = kept]
    BY <1>7 DEF Heard
  <2>2. /\ kept \in Seq(BOOLEAN)
        /\ Len(kept) = IF Len(q) + 1 > MaxKept THEN MaxKept ELSE Len(q) + 1
        /\ Len(q) + 1 <= MaxKept => kept = Append(q, ok)
    <3>1. QED
      BY <1>6, LatestFacts
  <2>3. Failures(q) \in Nat /\ Failures(Append(q, ok)) = Failures(q) + other
    <3>0. (ok => other = 0) /\ (~ok => other = 1)
      OBVIOUS
    <3> HIDE DEF ok, q, other
    <3>1. /\ Failures(q) \in Nat
          /\ ok => Failures(Append(q, ok)) = Failures(q)
          /\ ~ok => Failures(Append(q, ok)) = Failures(q) + 1
      BY <1>1, <1>6, FailuresAppended
    <3>2. CASE ok
      <4>1. other = 0 /\ Failures(q) \in Nat /\ Failures(Append(q, ok)) = Failures(q)
        BY <3>0, <3>1, <3>2
      <4>2. QED
        BY <4>1
    <3>3. CASE ~ok
      <4>1. other = 1 /\ Failures(q) \in Nat /\ Failures(Append(q, ok)) = Failures(q) + 1
        BY <3>0, <3>1, <3>3
      <4>2. QED
        BY <4>1
    <3>4. QED
      BY <3>2, <3>3
  <2>4. /\ sinks'.requests = kept /\ sinks'.count = sinks.count /\ sinks'.errors = sinks.errors
        /\ sinks'.error = sinks.error /\ sinks'.info = sinks.info /\ sinks'.together = sinks.together
    BY <2>1
  <2>5. sinks' \in [requests : Seq(BOOLEAN), count : Nat, errors : Nat, level : Levels,
                    info : Nat, error : Nat, together : BOOLEAN]
    BY <2>1, <2>2
  <2> HIDE DEF kept, q
  <2>6. ASSUME NEW completed \in Nat, NEW failed \in Nat, SinksCount(completed, failed)
        PROVE  SinksCount(completed, failed)'
    <3>1. /\ Len(q) = IF completed + failed + 0 + 0 > MaxKept THEN MaxKept ELSE completed + failed
          /\ completed + failed <= MaxKept => Failures(q) = failed
          /\ sinks.count = completed + Told("exporter", "completed")
          /\ sinks.errors = failed + Told("exporter", "failed")
          /\ sinks.error = failed + Told("logger", "failed")
          /\ sinks.info <= completed + Told("logger", "completed")
      BY <1>3, <1>7, <2>6 DEF SinksCount, q
    <3>2. /\ Told("exporter", "completed")' = Told("exporter", "completed")
          /\ Told("exporter", "failed")' = Told("exporter", "failed")
          /\ Told("logger", "completed")' = Told("logger", "completed")
          /\ Told("logger", "failed")' = Told("logger", "failed")
          /\ Told("dashboard", "completed")' = one /\ Told("dashboard", "failed")' = other
      BY <1>1, <1>2, <1>4, <1>7
    <3>3. one + other = 1 /\ one \in Nat /\ other \in Nat
      OBVIOUS
    <3> HIDE DEF one, other
    <3>4. Len(kept) = IF completed + failed + one + other > MaxKept THEN MaxKept
                      ELSE completed + failed + one + other
      BY <1>1, <1>6, <2>2, <3>1, <3>3
    <3>5. ASSUME completed + failed + one + other <= MaxKept PROVE Failures(kept) = failed + other
      <4>1. completed + failed <= MaxKept /\ Len(q) + 1 <= MaxKept
        <5>1. completed + failed + one + other = completed + failed + 1
          BY <3>3
        <5>2. completed + failed + 1 <= MaxKept
          BY <3>5, <5>1
        <5>3. ~(completed + failed > MaxKept) /\ completed + failed <= MaxKept
          BY <1>1, <5>2
        <5>4. Len(q) = completed + failed
          BY <3>1, <5>3
        <5>5. QED
          BY <1>1, <5>2, <5>3, <5>4
      <4>2. kept = Append(q, ok) /\ Failures(q) = failed
        BY <2>2, <3>1, <4>1
      <4>3. QED
        BY <2>3, <4>2
    <3>6. QED
      BY <2>4, <3>1, <3>2, <3>4, <3>5 DEF SinksCount
  <2>7. SinksCounted'
    BY <2>4, <2>6 DEF SinksCounted
  <2>8. QED
    BY <2>4, <2>5, <2>7
<1>8. CASE l = "exporter"
  <2>1. sinks' = [sinks EXCEPT !.count = @ + one, !.errors = @ + other]
    BY <1>8 DEF Heard
  <2>2. /\ sinks'.requests = q /\ sinks'.count = sinks.count + one /\ sinks'.errors = sinks.errors + other
        /\ sinks'.error = sinks.error /\ sinks'.info = sinks.info /\ sinks'.together = sinks.together
    BY <2>1
  <2>3. sinks' \in [requests : Seq(BOOLEAN), count : Nat, errors : Nat, level : Levels,
                    info : Nat, error : Nat, together : BOOLEAN]
    <3>1. sinks.count + one \in Nat /\ sinks.errors + other \in Nat
      <4>1. one \in Nat /\ other \in Nat
        OBVIOUS
      <4> HIDE DEF one, other
      <4>2. QED
        BY <4>1
    <3> HIDE DEF one, other
    <3>2. QED
      BY <2>1, <3>1
  <2>4. ASSUME NEW completed \in Nat, NEW failed \in Nat, SinksCount(completed, failed)
        PROVE  SinksCount(completed, failed)'
    BY <1>1, <1>2, <1>3, <1>4, <1>8, <2>2, <2>4 DEF SinksCount
  <2>5. QED
    BY <2>2, <2>3, <2>4 DEF SinksCounted
<1>9. CASE l = "logger"
  <2> DEFINE heard == IF ok /\ sinks.level \in {"debug", "info"} THEN 1 ELSE 0
  <2>1. sinks' = [sinks EXCEPT !.info = @ + heard, !.error = @ + other]
    BY <1>9 DEF Heard
  <2>2. /\ sinks'.requests = q /\ sinks'.count = sinks.count /\ sinks'.errors = sinks.errors
        /\ sinks'.error = sinks.error + other /\ sinks'.info = sinks.info + heard
        /\ sinks'.together = sinks.together
    BY <2>1
  <2>3. sinks' \in [requests : Seq(BOOLEAN), count : Nat, errors : Nat, level : Levels,
                    info : Nat, error : Nat, together : BOOLEAN]
    <3>1. sinks.info + heard \in Nat /\ sinks.error + other \in Nat
      <4>1. heard \in Nat /\ other \in Nat
        OBVIOUS
      <4> HIDE DEF heard, other
      <4>2. QED
        BY <4>1
    <3> HIDE DEF heard, other
    <3>2. QED
      BY <2>1, <3>1
  <2>4. heard \in Nat /\ one \in Nat /\ heard <= one
    OBVIOUS
  <2> HIDE DEF heard
  <2>5. ASSUME NEW completed \in Nat, NEW failed \in Nat, SinksCount(completed, failed)
        PROVE  SinksCount(completed, failed)'
    <3>1. sinks.info + heard <= completed + one
      BY <1>3, <1>9, <2>4, <2>5 DEF SinksCount
    <3>2. QED
      BY <1>1, <1>2, <1>3, <1>4, <1>9, <2>2, <2>5, <3>1 DEF SinksCount
  <2>6. QED
    BY <2>2, <2>3, <2>5 DEF SinksCounted
<1>10. QED
  BY <1>7, <1>8, <1>9 DEF Sinks

LEMMA EmitInv ==
  ASSUME ObserversIInv, NEW e \in Events, Emit(e) PROVE ObserversIInv'
<1>1. /\ UNCHANGED <<sets, current, handles, sinks>> /\ emission.event = "none" /\ current[e] # 0
      /\ emission' = [NotEmitting EXCEPT !.event = e, !.set = current[e], !.steady = ElementsOf(current[e])]
      /\ history' = [history EXCEPT !.emissions = @ + 1]
  BY DEF Emit
<1>2. /\ ObserversTyped /\ WalkAlong /\ SinksHeld /\ SinksCounted /\ EventsDelivered
      /\ Len(sets) \in Nat /\ DOMAIN sets = 1..Len(sets) /\ e # "none" /\ "none" \notin Events
  BY ElementsTypedSets DEF ObserversIInv
<1>3. /\ emission'.event = e /\ emission'.set = current[e] /\ emission'.told = {}
      /\ emission'.steady = ElementsOf(current[e]) /\ emission'.inside = "none"
      /\ emission' = [event |-> e, set |-> current[e], told |-> {}, steady |-> ElementsOf(current[e]),
                      inside |-> "none"]
  BY <1>1 DEF NotEmitting
<1>4. current[e] \in DOMAIN sets /\ current[e] \in 0..Len(sets)
  BY <1>1, <1>2 DEF ObserversTyped
<1>5. ElementsOf(current[e]) \subseteq Listeners
  BY <1>2, <1>4, ElementsTypedSets
<1>6. ObserversTyped'
  <2>1. emission' \in [event : Events \cup {"none"}, set : 0..Len(sets), told : SUBSET Listeners,
                       steady : SUBSET Listeners, inside : AppListeners \cup {"none"}]
    BY <1>3, <1>4, <1>5
  <2>2. QED
    BY <1>1, <1>2, <2>1 DEF ObserversTyped
<1>7. WalkAlong'
  <2>1. ElementsOf(emission.set)' = ElementsOf(current[e])
    <3>1. sets' = sets /\ emission'.set = current[e]
      BY <1>1, <1>3
    <3>2. QED
      BY <3>1 DEF ElementsOf
  <2>2. QED
    BY <1>1, <1>2, <1>3, <1>4, <2>1 DEF WalkAlong
<1>8. SinksHeld'
  <2>1. ASSUME NEW d \in Events PROVE ElementsOf(current[d])' = ElementsOf(current[d])
    BY <1>1 DEF ElementsOf
  <2>2. QED
    BY <1>1, <1>2, <1>3, <2>1 DEF SinksHeld
<1>9. SinksCounted'
  <2>1. \A k \in Sinks, d \in Events : Told(k, d) = 0 /\ Told(k, d)' = 0
    BY <1>1, <1>2, <1>3 DEF Told
  <2>2. /\ "dashboard" \in Sinks /\ "exporter" \in Sinks /\ "logger" \in Sinks
        /\ "completed" \in Events /\ "failed" \in Events
    BY DEF Sinks, Events
  <2>3. ASSUME NEW completed \in Nat, NEW failed \in Nat, SinksCount(completed, failed)
        PROVE  SinksCount(completed, failed)'
    BY <1>1, <2>1, <2>2, <2>3 DEF SinksCount
  <2>4. QED
    BY <1>1, <1>2, <2>3 DEF SinksCounted
<1>10. EventsDelivered'
  BY <1>1, <1>2 DEF EventsDelivered
<1>11. QED
  BY <1>6, <1>7, <1>8, <1>9, <1>10 DEF ObserversIInv

(* Who is untold at the end: nobody, so every sink has counted.            *)
LEMMA EndEmitInv ==
  ASSUME ObserversIInv, EndEmit PROVE ObserversIInv'
<1>1. /\ UNCHANGED <<sets, current, handles, sinks>> /\ emission.event # "none"
      /\ Untold = {} /\ emission' = NotEmitting /\ Over(NotEmitting)
  BY DEF EndEmit
<1>2. /\ ObserversTyped /\ WalkAlong /\ SinksHeld /\ SinksCounted /\ EventsDelivered
      /\ "none" \notin Events
  BY ElementsTypedSets DEF ObserversIInv
<1>3. ElementsOf(emission.set) \subseteq emission.told
  BY <1>1 DEF Untold, ElementsOf
<1>4. ObserversTyped'
  <2>1. emission' \in [event : Events \cup {"none"}, set : 0..Len(sets), told : SUBSET Listeners,
                       steady : SUBSET Listeners, inside : AppListeners \cup {"none"}]
    BY <1>1, <1>2, ElementsTypedSets DEF NotEmitting
  <2>2. QED
    BY <1>1, <1>2, <2>1 DEF ObserversTyped
<1>5. WalkAlong' /\ emission'.event = "none" /\ emission'.told = {}
  BY <1>1 DEF NotEmitting, WalkAlong
<1>6. SinksHeld'
  BY <1>1, <1>2, <1>5 DEF SinksHeld, ElementsOf
<1>7. SinksCounted'
  <2> SUFFICES ASSUME sinks.together PROVE SinksCounted'
    BY <1>1 DEF SinksCounted
  <2>1. emission.event \in Events /\ Sinks \subseteq emission.told
    BY <1>1, <1>2, <1>3 DEF SinksHeld, ObserversTyped
  <2>2. \A k \in Sinks, d \in Events : Told(k, d)' = 0
    BY <1>2, <1>5 DEF Told
  <2>3. PICK completed \in Nat, failed \in Nat : SinksCount(completed, failed)
    BY <1>2 DEF SinksCounted
  <2>4. /\ "dashboard" \in Sinks /\ "exporter" \in Sinks /\ "logger" \in Sinks
        /\ "completed" \in Events /\ "failed" \in Events
    BY DEF Sinks, Events
  <2>5. CASE emission.event = "completed"
    <3>1. \A k \in Sinks : Told(k, "completed") = 1 /\ Told(k, "failed") = 0
      BY <2>1, <2>5 DEF Told
    <3>2. SinksCount(completed + 1, failed)'
      BY <1>1, <2>2, <2>3, <2>4, <3>1 DEF SinksCount
    <3>3. QED
      BY <2>3, <3>2 DEF SinksCounted
  <2>6. CASE emission.event = "failed"
    <3>1. \A k \in Sinks : Told(k, "completed") = 0 /\ Told(k, "failed") = 1
      BY <2>1, <2>6 DEF Told
    <3>2. SinksCount(completed, failed + 1)'
      BY <1>1, <2>2, <2>3, <2>4, <3>1 DEF SinksCount
    <3>3. QED
      BY <2>3, <3>2 DEF SinksCounted
  <2>7. QED
    BY <2>1, <2>5, <2>6 DEF Events
<1>8. EventsDelivered'
  <2>1. emission.steady \ emission.told = {}
    BY <1>1, <1>2, <1>3 DEF WalkAlong
  <2>2. history' = [history EXCEPT !.missed = @ \cup {}]
    BY <1>1, <2>1 DEF Over
  <2>3. QED
    BY <1>2, <2>2 DEF EventsDelivered
<1>9. QED
  BY <1>4, <1>5, <1>6, <1>7, <1>8 DEF ObserversIInv

(* A sink that is told counts; it is not told again.                       *)
LEMMA CallNextInv ==
  ASSUME ObserversIInv, CallNext PROVE ObserversIInv'
<1>1. PICK i \in Untold :
        /\ emission' = [emission EXCEPT !.told = @ \cup {sets[emission.set][i]},
                          !.inside = IF sets[emission.set][i] \in Sinks THEN "none" ELSE sets[emission.set][i]]
        /\ sinks' = IF sets[emission.set][i] \in Sinks
                    THEN Heard(sets[emission.set][i], emission.event) ELSE sinks
  BY DEF CallNext
<1>2. PICK l : l = sets[emission.set][i]
  OBVIOUS
<1>3. /\ UNCHANGED <<sets, current, handles, history>> /\ emission.event # "none"
      /\ emission' = [emission EXCEPT !.told = @ \cup {l},
                                      !.inside = IF l \in Sinks THEN "none" ELSE l]
      /\ sinks' = IF l \in Sinks THEN Heard(l, emission.event) ELSE sinks
  BY <1>1, <1>2 DEF CallNext
<1>4. /\ ObserversTyped /\ WalkAlong /\ SinksHeld /\ SinksCounted /\ EventsDelivered
      /\ \A k \in Sinks : k \notin AppListeners
  BY ElementsTypedSets DEF ObserversIInv
<1>5. /\ l \in Listeners /\ l \notin emission.told /\ emission.event \in Events
      /\ emission.told \subseteq Listeners
  <2>1. emission.set \in DOMAIN sets /\ i \in DOMAIN sets[emission.set] /\ l \notin emission.told
    BY <1>1, <1>2, <1>3, <1>4 DEF Untold, WalkAlong
  <2>2. l \in ElementsOf(emission.set)
    BY <1>2, <2>1 DEF ElementsOf
  <2>3. QED
    BY <1>3, <1>4, <2>1, <2>2, ElementsTypedSets DEF ObserversTyped
<1>6. /\ emission'.event = emission.event /\ emission'.set = emission.set
      /\ emission'.steady = emission.steady /\ emission'.told = emission.told \cup {l}
      /\ emission' \in [event : Events \cup {"none"}, set : 0..Len(sets), told : SUBSET Listeners,
                        steady : SUBSET Listeners, inside : AppListeners \cup {"none"}]
  BY <1>3, <1>4, <1>5 DEF ObserversTyped, Listeners
<1>7. WalkAlong'
  BY <1>3, <1>4, <1>6 DEF WalkAlong, ElementsOf
<1>8. EventsDelivered'
  BY <1>3, <1>4 DEF EventsDelivered
<1>9. sinks \in [requests : Seq(BOOLEAN), count : Nat, errors : Nat, level : Levels,
                 info : Nat, error : Nat, together : BOOLEAN]
  BY <1>4 DEF ObserversTyped
<1>10. CASE l \notin Sinks
  <2>1. sinks' = sinks /\ \A k \in Sinks : k \in emission'.told <=> k \in emission.told
    BY <1>3, <1>6, <1>10
  <2>2. ObserversTyped'
    BY <1>3, <1>4, <1>6, <2>1 DEF ObserversTyped
  <2>3. SinksHeld'
    BY <1>3, <1>4, <1>6, <2>1 DEF SinksHeld, ElementsOf
  <2>4. SinksCounted'
    BY <1>4, <1>6, <2>1, CountAlong
  <2>5. QED
    BY <1>7, <1>8, <2>2, <2>3, <2>4 DEF ObserversIInv
<1>11. CASE l \in Sinks
  <2>1. sinks' = Heard(l, emission.event)
    BY <1>3, <1>11
  <2>2. /\ sinks' \in [requests : Seq(BOOLEAN), count : Nat, errors : Nat, level : Levels,
                       info : Nat, error : Nat, together : BOOLEAN]
        /\ sinks'.together = sinks.together
        /\ SinksCounted'
    BY <1>4, <1>5, <1>6, <1>9, <1>11, <2>1, HeardCounts
  <2>3. ObserversTyped'
    BY <1>3, <1>4, <1>6, <2>2 DEF ObserversTyped
  <2>4. SinksHeld'
    BY <1>3, <1>4, <1>6, <2>2 DEF SinksHeld, ElementsOf
  <2>5. QED
    BY <1>7, <1>8, <2>2, <2>3, <2>4 DEF ObserversIInv
<1>12. QED
  BY <1>10, <1>11

LEMMA ObserversStep == ObserversIInv /\ [ObserversNext]_observerVars => ObserversIInv'
<1> SUFFICES ASSUME ObserversIInv, [ObserversNext]_observerVars PROVE ObserversIInv'
  OBVIOUS
<1>1. CASE UNCHANGED observerVars
  <2>1. UNCHANGED <<sets, current, handles, emission, sinks, history>>
    BY <1>1 DEF observerVars
  <2>2. ObserversTyped /\ WalkAlong /\ SinksHeld /\ SinksCounted /\ EventsDelivered
    BY DEF ObserversIInv
  <2>3. ObserversTyped'
    BY <2>1, <2>2 DEF ObserversTyped
  <2>5. WalkAlong'
    BY <2>1, <2>2 DEF WalkAlong, ElementsOf
  <2>6. SinksHeld'
    BY <2>1, <2>2 DEF SinksHeld, ElementsOf
  <2>7. SinksCounted'
    BY <2>1, <2>2, CountAlong
  <2>8. EventsDelivered'
    BY <2>1, <2>2 DEF EventsDelivered
  <2>9. QED
    BY <2>3, <2>5, <2>6, <2>7, <2>8 DEF ObserversIInv
<1>2. CASE ObserversNext
  BY <1>2, OnStep, LeavingInv, RemoveAllInv, SetLevelInv, EmitInv, CallNextInv, ListenerEndsInv, EndEmitInv
     DEF ObserversNext
<1>3. QED
  BY <1>1, <1>2

(* Between emissions nothing is under way that one sink knows alone.       *)
LEMMA ObserversImply == ObserversIInv => ObserversTruthful
<1> SUFFICES ASSUME ObserversIInv PROVE ObserversTruthful
  OBVIOUS
<1>1. EventsDelivered
  BY DEF ObserversIInv
<1>2. SinksAgree
  <2> SUFFICES ASSUME sinks.together, emission.event = "none" PROVE SinksAgree
    BY DEF SinksAgree
  <2>1. \A k, e \in {"completed", "failed", "dashboard", "exporter", "logger"} :
          e \in {"completed", "failed"} => Told(k, e) = 0
    BY DEF Told
  <2>2. PICK completed \in Nat, failed \in Nat : SinksCount(completed, failed)
    BY DEF ObserversIInv, SinksCounted
  <2>3. /\ Len(sinks.requests) = IF completed + failed > MaxKept THEN MaxKept ELSE completed + failed
        /\ completed + failed <= MaxKept => Failures(sinks.requests) = failed
        /\ sinks.count = completed /\ sinks.errors = failed /\ sinks.error = failed
        /\ sinks.info <= completed
    BY <2>1, <2>2 DEF SinksCount
  <2>4. QED
    BY <2>3 DEF SinksAgree, Failures
<1>3. QED
  BY <1>1, <1>2 DEF ObserversTruthful

----------------------------------------------------------------------------
(* Monitors: the alarm sends what was reached, and nothing twice.          *)
AlarmRecord ==
  [fired : SUBSET (Thresholds \cup {100}), exceeded : BOOLEAN, repeated : BOOLEAN,
   sent : SUBSET [percent : Thresholds \cup {100}, committed : Nat], checked : BOOLEAN]

AlarmKept(a) ==
  /\ a \in AlarmRecord /\ ~a.repeated
  /\ \A s \in a.sent : s.percent \in a.fired /\ 100 * s.committed >= s.percent * SessionBudget

LedgerSound == Ledger(ledger) /\ (ledger.exceeded => ledger.warned)

SpendingAlerted ==
  \A p \in Thresholds :
    ledger.actual > 0 /\ 100 * ledger.actual >= p * SessionBudget => p \in alarm.fired

(* A breach is of the past.                                                *)
BreachesKept ==
  /\ DOMAIN service = DOMAIN NewService
  /\ service.now \in Nat
  /\ \A b \in service.breaches : b.at \in 0..service.now
  /\ BreachesTimely

MonitorsIInv ==
  /\ LedgerSound /\ AlarmKept(alarm) /\ (100 \in alarm.fired => alarm.exceeded)
  /\ alarm.checked => SpendingAlerted
  /\ BreachesKept

(* What a share of what is left and spent is of the session budget.        *)
LEMMA ReachedMeans ==
  ASSUME NEW t \in TrackerType, NEW p \in 0..100, Reached(t, p)
  PROVE  100 * Committed(t) >= p * SessionBudget
<1> DEFINE a == t.actual  r == t.reserved  B == SessionBudget
<1>1. a \in Nat /\ r \in Nat /\ B \in Nat /\ p \in Nat /\ p <= 100 /\ Committed(t) = a + r
  BY TrackerFields, BudgetAssumption DEF Committed
<1>2. Remaining(t) = IF B - (a + r) < 0 THEN 0 ELSE B - (a + r)
  BY <1>1 DEF Remaining, AtLeastZero
<1> HIDE DEF a, r, B
<1>3. CASE a + r >= B
  <2>1. p * B <= 100 * B
    <3>1. B * p <= B * 100
      BY <1>1, ProductsGrow
    <3>2. QED
      BY <1>1, <3>1
  <2>2. 100 * B <= 100 * (a + r)
    BY <1>1, <1>3
  <2>3. p * B \in Int
    BY <1>1, Distributes
  <2>4. p * B <= 100 * (a + r)
    BY <1>1, <2>1, <2>2, <2>3
  <2>5. QED
    BY <1>1, <2>4 DEF B
<1>4. CASE ~(a + r >= B)
  <2>1. Remaining(t) = B - (a + r) /\ a + Remaining(t) = B - r /\ B - r # 0
    BY <1>1, <1>2, <1>4
  <2>2. p * (B - r) <= 100 * a
    BY <2>1 DEF Reached, a
  <2>3. p * (r + (B - r)) = p * r + p * (B - r) /\ p * r \in Int /\ p * (B - r) \in Int
    BY <1>1, Distributes
  <2>4. r + (B - r) = B
    BY <1>1
  <2>5. p * r <= 100 * r
    <3>1. r * p <= r * 100
      BY <1>1, ProductsGrow
    <3>2. QED
      BY <1>1, <3>1
  <2>6. p * B <= 100 * a + 100 * r
    BY <1>1, <2>2, <2>3, <2>4, <2>5
  <2>7. QED
    BY <1>1, <2>6 DEF B
<1>5. QED
  BY <1>3, <1>4

LEMMA ReachedBy ==
  ASSUME NEW t \in TrackerType, NEW p \in 0..100, t.actual > 0, 100 * t.actual >= p * SessionBudget
  PROVE  t.actual + Remaining(t) > 0 /\ Reached(t, p)
<1> DEFINE a == t.actual  r == t.reserved  B == SessionBudget  m == Remaining(t)
<1>1. a \in Nat /\ r \in Nat /\ B \in Nat /\ p \in Nat /\ p <= 100 /\ Committed(t) = a + r /\ a > 0
  BY TrackerFields, BudgetAssumption DEF Committed
<1>2. m = IF B - (a + r) < 0 THEN 0 ELSE B - (a + r)
  BY <1>1 DEF Remaining, AtLeastZero
<1>3. p * B <= 100 * a
  OBVIOUS
<1>4. Reached(t, p) <=> IF a + m = 0 THEN Exhausted(t) ELSE p * (a + m) <= 100 * a
  BY DEF Reached
<1> HIDE DEF a, r, B, m
<1>5. a + m # 0 /\ a + m > 0 /\ (a + m = a \/ a + m <= B) /\ a + m \in Nat
  BY <1>1, <1>2
<1>6. p * (a + m) <= 100 * a
  <2>1. CASE a + m = a
    <3>1. a * p <= a * 100
      BY <1>1, ProductsGrow
    <3>2. p * a <= 100 * a
      BY <1>1, <3>1
    <3>3. QED
      BY <2>1, <3>2
  <2>2. CASE a + m <= B
    <3>1. p * (a + m) <= p * B
      BY <1>1, <1>5, <2>2, ProductsGrow
    <3>2. p * B \in Int /\ p * (a + m) \in Int
      BY <1>1, <1>5, Distributes
    <3>3. QED
      BY <1>1, <1>3, <3>1, <3>2
  <2>3. QED
    BY <1>5, <2>1, <2>2
<1>7. QED
  BY <1>4, <1>5, <1>6 DEF a, m

(* The tracker's flags rise with the thresholds they stand for.            *)
Honest(before, after) ==
  /\ (before.exceeded => before.warned) /\ (after.exceeded => after.warned)
  /\ before.warned => after.warned
  /\ before.exceeded => after.exceeded
  /\ after.exceeded /\ ~before.exceeded => Exhausted(after)
  /\ after.warned /\ ~before.warned /\ Exhausted(after) => after.exceeded

LEMMA CallbacksHonest ==
  ASSUME NEW t \in TrackerType, t.exceeded => t.warned
  PROVE  Honest(t, CheckCallbacks(t))
<1> DEFINE new == CheckCallbacks(t)
<1>1. new.reserved = t.reserved /\ new.actual = t.actual
  BY DEF CheckCallbacks, TrackerType
<1>2. Committed(new) = Committed(t) /\ Committed(t) \in Nat /\ SessionBudget \in Nat
  BY <1>1, TrackerFields, BudgetAssumption DEF Committed
<1>3. /\ new.warned <=> t.warned \/ 10 * Committed(t) >= 8 * SessionBudget
      /\ new.exceeded <=> t.exceeded \/ Exhausted(t)
  BY <1>2 DEF CheckCallbacks, TrackerType
<1>4. Exhausted(t) => 10 * Committed(t) >= 8 * SessionBudget
  BY <1>2 DEF Exhausted
<1>5. Exhausted(new) <=> Exhausted(t)
  BY <1>2 DEF Exhausted
<1> HIDE DEF new
<1>6. Honest(t, new)
  BY <1>3, <1>4, <1>5 DEF Honest
<1>7. QED
  BY <1>6 DEF new

LEMMA CostsHonest ==
  ASSUME LedgerSound, NEW id \in Ids, NEW cost \in Costs, CostsStep(id, cost)
  PROVE  Ledger(ledger') /\ Honest(ledger, ledger')
<1>1. /\ Ledger(ledger) /\ ledger \in TrackerType /\ (ledger.exceeded => ledger.warned) /\ cost \in Nat
  BY MonitorsAssumption DEF LedgerSound, Ledger
<1>2. ASSUME NEW t \in TrackerType, t.warned = ledger.warned, t.exceeded = ledger.exceeded
      PROVE  Honest(ledger, t)
  BY <1>1, <1>2 DEF Honest
<1>3. ASSUME NEW t \in TrackerType, t.warned = ledger.warned, t.exceeded = ledger.exceeded
      PROVE  Honest(ledger, CheckCallbacks(t))
  <2>1. Honest(t, CheckCallbacks(t))
    BY <1>1, <1>3, CallbacksHonest
  <2>2. QED
    BY <1>3, <2>1 DEF Honest
<1>4. CASE id \notin Active(ledger) /\ CanReserve(ledger, cost) /\ ledger' = Reserve(ledger, id, cost)
  <2>1. Ledger(ledger')
    BY <1>1, <1>4, ReserveLedger
  <2>2. ledger'.warned = ledger.warned /\ ledger'.exceeded = ledger.exceeded
    BY <1>1, <1>4 DEF Reserve, TrackerType
  <2>3. QED
    BY <1>2, <2>1, <2>2 DEF Ledger
<1>5. CASE ledger' = Settle(ledger, id, cost)
  <2>1. CASE id \notin Active(ledger)
    <3>1. ledger' = ledger
      BY <1>5, <2>1 DEF Settle, Active
    <3>2. QED
      BY <1>1, <1>2, <3>1
  <2>2. CASE id \in Active(ledger)
    <3> DEFINE given == [ledger EXCEPT !.res[id] = NoRes,
                                       !.reserved = AtLeastZero(@ - ledger.res[id]),
                                       !.actual = @ + cost]
    <3>1. AtLeastZero(ledger.reserved - ledger.res[id]) \in Nat
      BY <1>1, <2>2, GivenBack
    <3>2. /\ [ledger.res EXCEPT ![id] = NoRes] \in [Ids -> Nat \cup {NoRes}]
          /\ ledger.actual + cost \in Nat
      BY <1>1, TrackerFields
    <3>3. given \in TrackerType
      BY <1>1, <3>1, <3>2 DEF TrackerType
    <3>4. given.warned = ledger.warned /\ given.exceeded = ledger.exceeded
      BY <1>1 DEF TrackerType
    <3>5. ledger' = CheckCallbacks(given)
      BY <1>5, <2>2 DEF Settle, Active
    <3> HIDE DEF given
    <3>6. Honest(ledger, ledger')
      BY <1>3, <3>3, <3>4, <3>5
    <3>7. QED
      BY <1>1, <1>5, <2>2, <3>6, SettleLedger
  <2>3. QED
    BY <2>1, <2>2
<1>6. CASE ledger' = Release(ledger, id)
  <2>1. Ledger(ledger')
    BY <1>1, <1>6, ReleaseLedger
  <2>2. ledger'.warned = ledger.warned /\ ledger'.exceeded = ledger.exceeded
    BY <1>1, <1>6 DEF Release, TrackerType
  <2>3. QED
    BY <1>2, <2>1, <2>2 DEF Ledger
<1>7. CASE ledger' = Record(ledger, cost, cost)
  <2> DEFINE paid == [ledger EXCEPT !.estimated = @ + cost, !.actual = @ + cost]
  <2>1. ledger.estimated + cost \in Nat /\ ledger.actual + cost \in Nat
    BY <1>1, TrackerFields
  <2>2. paid \in TrackerType
    BY <1>1, <2>1 DEF TrackerType
  <2>3. paid.warned = ledger.warned /\ paid.exceeded = ledger.exceeded
    BY <1>1 DEF TrackerType
  <2>4. ledger' = CheckCallbacks(paid)
    BY <1>7 DEF Record
  <2> HIDE DEF paid
  <2>5. Honest(ledger, ledger')
    BY <1>3, <2>2, <2>3, <2>4
  <2>6. QED
    BY <1>1, <1>7, <2>5, RecordLedger
<1>8. QED
  BY <1>4, <1>5, <1>6, <1>7 DEF CostsStep

LEMMA AlarmRecords ==
  ASSUME NEW a \in AlarmRecord, NEW mark \in BOOLEAN,
         NEW F \in SUBSET (Thresholds \cup {100}),
         NEW S \in SUBSET [percent : Thresholds \cup {100}, committed : Nat]
  PROVE  /\ [a EXCEPT !.fired = F, !.exceeded = mark] \in AlarmRecord
         /\ [a EXCEPT !.fired = F, !.repeated = mark, !.sent = S] \in AlarmRecord
         /\ [a EXCEPT !.checked = mark] \in AlarmRecord
<1>1. [a EXCEPT !.fired = F, !.exceeded = mark] \in AlarmRecord
  BY DEF AlarmRecord
<1>2. [a EXCEPT !.fired = F, !.repeated = mark, !.sent = S] \in AlarmRecord
  BY DEF AlarmRecord
<1>3. [a EXCEPT !.checked = mark] \in AlarmRecord
  BY DEF AlarmRecord
<1>4. QED
  BY <1>1, <1>2, <1>3

(* Alerts that were due, at thresholds that were not fired before.         *)
LEMMA SendKeeps ==
  ASSUME NEW a, AlarmKept(a), NEW t \in TrackerType,
         NEW percents \in SUBSET (Thresholds \cup {100}), percents \cap a.fired = {},
         \A p \in percents : 100 * Committed(t) >= p * SessionBudget
  PROVE  /\ AlarmKept(Sending(a, t, percents))
         /\ Sending(a, t, percents).fired = a.fired \cup percents
         /\ Sending(a, t, percents).exceeded = a.exceeded
<1> DEFINE new == Sending(a, t, percents)
           more == [percent : percents, committed : {Committed(t)}]
           again == \E s \in a.sent : s.percent \in percents
<1>1. a \in AlarmRecord /\ ~a.repeated /\ Committed(t) \in Nat
  BY TrackerFields DEF AlarmKept, Committed
<1>2. ~again
  BY DEF AlarmKept
<1>3. /\ new.fired = a.fired \cup percents /\ new.exceeded = a.exceeded
      /\ new.sent = a.sent \cup more /\ new.checked = a.checked
      /\ DOMAIN new = DOMAIN a
  BY <1>1 DEF Sending, AlarmRecord
<1>x. new.repeated <=> a.repeated \/ again
  BY <1>1 DEF Sending, AlarmRecord
<1>4. /\ a.fired \cup percents \in SUBSET (Thresholds \cup {100})
      /\ a.exceeded \in BOOLEAN /\ a.checked \in BOOLEAN
      /\ a.sent \subseteq [percent : Thresholds \cup {100}, committed : Nat]
  BY <1>1 DEF AlarmRecord
<1>5. \A s \in more : s.percent \in percents /\ s.committed = Committed(t)
                      /\ s \in [percent : Thresholds \cup {100}, committed : Nat]
  BY <1>1
<1>6. a.sent \cup more \in SUBSET [percent : Thresholds \cup {100}, committed : Nat]
  BY <1>4, <1>5
<1>7. new \in AlarmRecord
  <2> DEFINE F == a.fired \cup percents  S == a.sent \cup more  mark == a.repeated \/ again
  <2>1. /\ F \in SUBSET (Thresholds \cup {100}) /\ mark \in BOOLEAN
        /\ S \in SUBSET [percent : Thresholds \cup {100}, committed : Nat]
    BY <1>1, <1>4, <1>6
  <2>2. new = [a EXCEPT !.fired = F, !.repeated = mark, !.sent = S]
    BY DEF Sending
  <2> HIDE DEF new, F, S, mark
  <2>3. QED
    BY <1>1, <2>1, <2>2, AlarmRecords
<1> HIDE DEF new, more, again
<1>8. /\ new.fired = a.fired \cup percents /\ new.exceeded = a.exceeded
      /\ new.sent = a.sent \cup more
  BY <1>3
<1>9. ~new.repeated
  BY <1>1, <1>2, <1>x
<1>10. new \in AlarmRecord
  BY <1>7
<1>11. ASSUME NEW s \in new.sent
       PROVE  s.percent \in new.fired /\ 100 * s.committed >= s.percent * SessionBudget
  <2>1. CASE s \in a.sent
    BY <1>8, <2>1 DEF AlarmKept
  <2>2. CASE s \in more
    BY <1>5, <1>8, <2>2
  <2>3. QED
    BY <1>8, <1>11, <2>1, <2>2
<1>12. AlarmKept(new)
  BY <1>9, <1>10, <1>11 DEF AlarmKept
<1>13. QED
  BY <1>8, <1>12 DEF new

LEMMA FireKeeps ==
  ASSUME NEW a, AlarmKept(a), NEW t \in TrackerType,
         NEW candidates \in SUBSET (Thresholds \cup {100})
  PROVE  /\ AlarmKept(FireThresholds(a, t, candidates))
         /\ FireThresholds(a, t, candidates).exceeded = a.exceeded
         /\ a.fired \subseteq FireThresholds(a, t, candidates).fired
         /\ FireThresholds(a, t, candidates).fired \subseteq a.fired \cup candidates
         /\ \A p \in FireThresholds(a, t, candidates).fired \ a.fired :
              100 * Committed(t) >= p * SessionBudget
<1> DEFINE ripe == {p \in candidates \ a.fired : Reached(t, p)}
<1>1. ripe \in SUBSET (Thresholds \cup {100}) /\ ripe \cap a.fired = {} /\ ripe \subseteq candidates
  OBVIOUS
<1>2. ASSUME NEW p \in ripe
      PROVE  100 * Committed(t) >= p * SessionBudget
  <2>1. p \in Thresholds \cup {100} /\ Reached(t, p)
    BY <1>2
  <2>2. p \in 0..100
    BY <2>1, MonitorsAssumption
  <2> HIDE DEF ripe
  <2>3. QED
    BY <2>1, <2>2, ReachedMeans
<1>3. FireThresholds(a, t, candidates) = Sending(a, t, ripe)
  BY DEF FireThresholds
<1> HIDE DEF ripe
<1>4. /\ AlarmKept(Sending(a, t, ripe))
      /\ Sending(a, t, ripe).fired = a.fired \cup ripe
      /\ Sending(a, t, ripe).exceeded = a.exceeded
  BY <1>1, <1>2, SendKeeps
<1>5. QED
  BY <1>1, <1>2, <1>3, <1>4

(* What all is spent or reserved, the budget is exhausted.                 *)
LEMMA WholeShare ==
  ASSUME NEW t \in TrackerType
  PROVE  100 * Committed(t) >= 100 * SessionBudget <=> Exhausted(t)
<1>1. Committed(t) \in Nat /\ SessionBudget \in Nat
  BY TrackerFields, BudgetAssumption DEF Committed
<1>2. QED
  BY <1>1 DEF Exhausted

(* The alarm with a mark set or cleared.                                   *)
LEMMA MarkKeeps ==
  ASSUME NEW a, AlarmKept(a), NEW mark \in BOOLEAN
  PROVE  /\ AlarmKept([a EXCEPT !.checked = mark])
         /\ [a EXCEPT !.checked = mark].fired = a.fired
         /\ [a EXCEPT !.checked = mark].exceeded = a.exceeded
         /\ [a EXCEPT !.checked = mark].checked = mark
<1> DEFINE new == [a EXCEPT !.checked = mark]
<1>1. a \in AlarmRecord
  BY DEF AlarmKept
<1>2. /\ new.fired = a.fired /\ new.exceeded = a.exceeded /\ new.checked = mark
      /\ new.sent = a.sent /\ new.repeated = a.repeated /\ new \in AlarmRecord
  BY <1>1 DEF AlarmRecord
<1> HIDE DEF new
<1>3. AlarmKept(new)
  BY <1>2 DEF AlarmKept
<1>4. QED
  BY <1>2, <1>3 DEF new

LEMMA ExceededKeeps ==
  ASSUME NEW a, AlarmKept(a), NEW mark \in BOOLEAN
  PROVE  /\ AlarmKept([a EXCEPT !.exceeded = mark])
         /\ [a EXCEPT !.exceeded = mark].fired = a.fired
         /\ [a EXCEPT !.exceeded = mark].exceeded = mark
<1> DEFINE new == [a EXCEPT !.exceeded = mark]
<1>1. a \in AlarmRecord
  BY DEF AlarmKept
<1>2. /\ new.fired = a.fired /\ new.exceeded = mark
      /\ new.sent = a.sent /\ new.repeated = a.repeated /\ new \in AlarmRecord
  BY <1>1 DEF AlarmRecord
<1> HIDE DEF new
<1>3. AlarmKept(new)
  BY <1>2 DEF AlarmKept
<1>4. QED
  BY <1>2, <1>3 DEF new

LEMMA NotifiedKeeps ==
  ASSUME AlarmKept(alarm), 100 \in alarm.fired => alarm.exceeded,
         NEW before \in TrackerType, NEW after \in TrackerType, Honest(before, after)
  PROVE  /\ AlarmKept(Notified(before, after))
         /\ 100 \in Notified(before, after).fired => Notified(before, after).exceeded
         /\ ~Notified(before, after).checked
<1> DEFINE rises == after.warned /\ ~before.warned
           passes == after.exceeded /\ ~before.exceeded
           warned == IF rises THEN HandleWarning(alarm, after) ELSE alarm
           heard == IF passes THEN HandleExceeded(warned, after) ELSE warned
<1>1. Notified(before, after) = [heard EXCEPT !.checked = FALSE]
  BY DEF Notified
<1>2. /\ AlarmKept(warned)
      /\ 100 \in warned.fired => warned.exceeded \/ passes
  <2>1. CASE ~rises
    BY <2>1
  <2>2. CASE rises
    <3>1. warned = FireThresholds(alarm, after, Thresholds)
      BY <2>2 DEF HandleWarning
    <3>2. /\ AlarmKept(warned) /\ warned.exceeded = alarm.exceeded
          /\ \A p \in warned.fired \ alarm.fired : 100 * Committed(after) >= p * SessionBudget
      BY <3>1, FireKeeps
    <3> HIDE DEF warned
    <3>3. ASSUME 100 \in warned.fired
          PROVE  warned.exceeded \/ passes
      <4>1. CASE 100 \in alarm.fired
        BY <3>2, <4>1
      <4>2. CASE 100 \notin alarm.fired
        <5>1. Exhausted(after)
          BY <3>2, <3>3, <4>2, WholeShare
        <5>2. after.exceeded
          BY <2>2, <5>1 DEF Honest
        <5>3. ~before.exceeded
          BY <2>2, <5>1, <5>2 DEF Honest
        <5>4. QED
          BY <3>2, <5>2, <5>3
      <4>3. QED
        BY <4>1, <4>2
    <3>4. QED
      BY <3>2, <3>3
  <2>3. QED
    BY <2>1, <2>2
<1> HIDE DEF warned
<1>3. AlarmKept(heard) /\ (100 \in heard.fired => heard.exceeded)
  <2>1. CASE ~passes
    BY <1>2, <2>1
  <2>2. CASE passes
    <3> DEFINE fires == FireThresholds(warned, after, Thresholds \cup {100})
    <3>1. heard = [fires EXCEPT !.fired = @ \cup {100}, !.exceeded = TRUE]
      BY <2>2 DEF HandleExceeded
    <3>2. AlarmKept(fires)
      BY <1>2, FireKeeps
    <3> HIDE DEF fires
    <3>3. fires \in AlarmRecord
      BY <3>2 DEF AlarmKept
    <3>4. /\ heard.fired = fires.fired \cup {100} /\ heard.exceeded
          /\ heard.sent = fires.sent /\ heard.repeated = fires.repeated
      <4>1. DOMAIN fires = {"fired", "exceeded", "repeated", "sent", "checked"}
        BY <3>3 DEF AlarmRecord
      <4>2. heard.exceeded
        BY <3>1, <4>1
      <4>3. heard.fired = fires.fired \cup {100}
        BY <3>1, <4>1
      <4>4. heard.sent = fires.sent
        BY <3>1, <4>1
      <4>5. heard.repeated = fires.repeated
        BY <3>1, <4>1
      <4>6. QED
        BY <4>2, <4>3, <4>4, <4>5
    <3>5. fires.fired \cup {100} \in SUBSET (Thresholds \cup {100})
      BY <3>3 DEF AlarmRecord
    <3>6. heard \in AlarmRecord
      <4> DEFINE F == fires.fired \cup {100}  mark == TRUE
      <4>1. F \in SUBSET (Thresholds \cup {100}) /\ mark \in BOOLEAN
        BY <3>5
      <4>2. heard = [fires EXCEPT !.fired = F, !.exceeded = mark]
        BY <3>1
      <4> HIDE DEF heard, F, mark
      <4>3. QED
        BY <3>3, <4>1, <4>2, AlarmRecords
    <3> HIDE DEF heard
    <3>7. AlarmKept(heard)
      BY <3>2, <3>4, <3>6 DEF AlarmKept
    <3>8. QED
      BY <3>4, <3>7
  <2>3. QED
    BY <2>1, <2>2
<1> HIDE DEF heard
<1>4. QED
  BY <1>1, <1>3, MarkKeeps

LEMMA CheckedKeeps ==
  ASSUME NEW a, AlarmKept(a), 100 \in a.fired => a.exceeded, NEW t \in TrackerType
  PROVE  /\ AlarmKept(Checked(a, t))
         /\ 100 \in Checked(a, t).fired => Checked(a, t).exceeded
         /\ \A p \in Thresholds :
              t.actual > 0 /\ 100 * t.actual >= p * SessionBudget => p \in Checked(a, t).fired
<1> DEFINE over == Exhausted(t) /\ ~a.exceeded
           first == IF over THEN [Sending(a, t, {100}) EXCEPT !.exceeded = TRUE] ELSE a
           ripe == {p \in Thresholds \ first.fired : t.actual + Remaining(t) > 0 /\ Reached(t, p)}
           new == Sending(first, t, ripe)
<1>1. Checked(a, t) = [new EXCEPT !.checked = TRUE]
  BY DEF Checked
<1>2. /\ AlarmKept(first)
      /\ 100 \in first.fired => first.exceeded
      /\ Exhausted(t) => first.exceeded
  <2>1. CASE ~over
    BY <2>1
  <2>2. CASE over
    <3> DEFINE told == Sending(a, t, {100})  mark == TRUE
    <3>1. {100} \in SUBSET (Thresholds \cup {100}) /\ {100} \cap a.fired = {}
      BY <2>2
    <3>2. \A p \in {100} : 100 * Committed(t) >= p * SessionBudget
      BY <2>2, WholeShare
    <3>3. AlarmKept(told)
      BY <3>1, <3>2, SendKeeps
    <3>4. first = [told EXCEPT !.exceeded = mark]
      BY <2>2
    <3>5. mark \in BOOLEAN /\ mark
      OBVIOUS
    <3> HIDE DEF told, first, mark
    <3>6. AlarmKept(first) /\ first.exceeded = mark
      BY <3>3, <3>4, <3>5, ExceededKeeps
    <3>7. QED
      BY <3>5, <3>6
  <2>3. QED
    BY <2>1, <2>2
<1> HIDE DEF first
<1>3. /\ ripe \in SUBSET (Thresholds \cup {100}) /\ ripe \cap first.fired = {}
  OBVIOUS
<1>4. ASSUME NEW p \in ripe
      PROVE  100 * Committed(t) >= p * SessionBudget
  <2>1. p \in Thresholds /\ Reached(t, p)
    BY <1>4
  <2>2. p \in 0..100
    BY <2>1, MonitorsAssumption
  <2> HIDE DEF ripe
  <2>3. QED
    BY <2>1, <2>2, ReachedMeans
<1>5. /\ AlarmKept(new) /\ new.fired = first.fired \cup ripe /\ new.exceeded = first.exceeded
  <2> HIDE DEF ripe
  <2>1. QED
    BY <1>2, <1>3, <1>4, SendKeeps
<1>6. 100 \in new.fired => new.exceeded
  <2>1. CASE 100 \in first.fired
    BY <1>2, <1>5, <2>1
  <2>2. CASE 100 \in ripe
    <3>1. 100 * Committed(t) >= 100 * SessionBudget
      BY <1>4, <2>2
    <3>2. Exhausted(t)
      BY <3>1, WholeShare
    <3>3. QED
      BY <1>2, <1>5, <3>2
  <2>3. QED
    BY <1>5, <2>1, <2>2
<1>7. ASSUME NEW p \in Thresholds, t.actual > 0, 100 * t.actual >= p * SessionBudget
      PROVE  p \in new.fired
  <2>1. p \in 0..100
    BY MonitorsAssumption
  <2>2. t.actual + Remaining(t) > 0 /\ Reached(t, p)
    BY <1>7, <2>1, ReachedBy
  <2>3. p \in first.fired \/ p \in ripe
    BY <2>2
  <2>4. QED
    BY <1>5, <2>3
<1> DEFINE mark == TRUE
<1>8. mark \in BOOLEAN /\ Checked(a, t) = [new EXCEPT !.checked = mark]
  BY <1>1
<1> HIDE DEF new, mark
<1>9. AlarmKept(Checked(a, t)) /\ Checked(a, t).fired = new.fired /\ Checked(a, t).exceeded = new.exceeded
  BY <1>5, <1>8, MarkKeeps
<1>10. QED
  BY <1>6, <1>7, <1>9

LEMMA QuietKept ==
  AlarmKept(QuietAlarm) /\ 100 \notin QuietAlarm.fired /\ ~QuietAlarm.checked
<1>1. QuietAlarm \in AlarmRecord
  BY DEF QuietAlarm, AlarmRecord
<1>2. QED
  BY <1>1 DEF QuietAlarm, AlarmKept

LEMMA EmptyHonest ==
  Ledger(EmptyTracker) /\ ~EmptyTracker.exceeded
BY EmptyLedger DEF EmptyTracker

(* The agreements of one name have a first, and it is one of them.         *)
LEMMA FirstOfName ==
  ASSUME NEW i \in DOMAIN Agreements
  PROVE  FirstNamed(Agreements[i].name).window \in Nat
<1> DEFINE same == {j \in DOMAIN Agreements : Agreements[j].name = Agreements[i].name}
<1>1. same \in SUBSET Nat /\ i \in same
  BY MonitorsAssumption
<1>2. \E n \in same : \A k \in same : n <= k
  BY <1>1, LeastExists
<1>3. Min(same) \in same
  BY <1>2 DEF Min
<1>4. QED
  BY <1>3, MonitorsAssumption DEF FirstNamed

(* What is due: the first of each name among the agreements that are       *)
(* broken without a recent breach of their name.                           *)
LEMMA DueFacts ==
  ASSUME NEW records, NEW breaches, NEW t
  PROVE  /\ Due(records, breaches, t) \subseteq DOMAIN Agreements
         /\ \A i \in Due(records, breaches, t) :
              ~RecentlyBreached(Agreements[i].name, breaches, t)
         /\ \A i \in DOMAIN Agreements :
              \/ Complies(Agreements[i], Kept(records, Agreements[i], t))
              \/ RecentlyBreached(Agreements[i].name, breaches, t)
              \/ \E j \in Due(records, breaches, t) : Agreements[j].name = Agreements[i].name
<1> DEFINE broken == {i \in DOMAIN Agreements :
                        /\ ~Complies(Agreements[i], Kept(records, Agreements[i], t))
                        /\ ~RecentlyBreached(Agreements[i].name, breaches, t)}
<1>1. Due(records, breaches, t) =
        {i \in broken : \A j \in broken : Agreements[j].name = Agreements[i].name => i <= j}
  BY DEF Due
<1>2. ASSUME NEW i \in broken
      PROVE  \E j \in Due(records, breaches, t) : Agreements[j].name = Agreements[i].name
  <2> DEFINE same == {j \in broken : Agreements[j].name = Agreements[i].name}
  <2>1. same \in SUBSET Nat /\ same # {}
    BY <1>2, MonitorsAssumption
  <2>2. PICK n \in same : \A k \in same : n <= k
    <3> HIDE DEF same
    <3>1. QED
      BY <2>1, LeastExists
  <2>3. n \in broken /\ Agreements[n].name = Agreements[i].name
    BY <2>2
  <2>4. \A k \in broken : Agreements[k].name = Agreements[n].name => n <= k
    BY <2>2, <2>3
  <2>5. n \in Due(records, breaches, t)
    <3> HIDE DEF broken
    <3>1. QED
      BY <1>1, <2>3, <2>4
  <2>6. QED
    BY <2>3, <2>5
<1>3. Due(records, breaches, t) \subseteq broken
  BY <1>1
<1>4. QED
  BY <1>2, <1>3

(* A breach that an end of a request adds is the first in its window.      *)
LEMMA EndsKeeps ==
  ASSUME BreachesKept, NEW success, NEW duration, NEW cost, Ends(success, duration, cost)
  PROVE  BreachesKept'
<1> DEFINE moment == service.now
           records == Trim(Append(service.records,
                             [at |-> moment, success |-> success, duration |-> duration, cost |-> cost]))
           ripe == Due(records, service.breaches, moment)
           new(which) == {[sla |-> Agreements[i].name, at |-> moment] : i \in which}
<1>1. PICK throwing \in SUBSET ripe :
        service' = [service EXCEPT !.ended = @ + 1, !.records = records,
                      !.breaches = @ \cup new({i \in ripe : \A j \in throwing : i <= j}),
                      !.told = throwing = {}]
  BY Zenon DEF Ends
<1> DEFINE reached == {i \in ripe : \A j \in throwing : i <= j}
           all == service.breaches \cup new(reached)
           quiet == throwing = {}
<1>2. service' = [service EXCEPT !.ended = @ + 1, !.records = records,
                    !.breaches = all, !.told = quiet]
  BY <1>1
<1>3. ASSUME NEW i \in ripe
      PROVE  /\ i \in DOMAIN Agreements
             /\ \A b \in service.breaches :
                  b.sla = Agreements[i].name =>
                    ~InWindow(b.at, FirstNamed(Agreements[i].name), moment)
  <2>1. i \in DOMAIN Agreements /\ ~RecentlyBreached(Agreements[i].name, service.breaches, moment)
    BY <1>3, DueFacts
  <2>2. QED
    BY <2>1 DEF RecentlyBreached
<1>4. ASSUME NEW i \in DOMAIN Agreements
      PROVE  \/ Complies(Agreements[i], Kept(records, Agreements[i], moment))
             \/ \E b \in service.breaches :
                  b.sla = Agreements[i].name /\ InWindow(b.at, FirstNamed(Agreements[i].name), moment)
             \/ \E j \in ripe : Agreements[j].name = Agreements[i].name
  <2> HIDE DEF records
  <2>1. QED
    BY DueFacts DEF RecentlyBreached
<1>5. reached \subseteq ripe /\ (quiet => reached = ripe)
  OBVIOUS
<1> HIDE DEF records, ripe, quiet
<1>6. /\ \A b \in new(reached) : b.at = moment /\ \E i \in ripe : b.sla = Agreements[i].name
      /\ \A i \in reached : \E b \in new(reached) : b.at = moment /\ b.sla = Agreements[i].name
  <2> HIDE DEF reached, moment
  <2>1. ASSUME NEW b \in new(reached)
        PROVE  b.at = moment /\ \E i \in ripe : b.sla = Agreements[i].name
    <3>1. PICK i \in reached : b = [sla |-> Agreements[i].name, at |-> moment]
      BY <2>1
    <3>2. QED
      BY <1>5, <3>1
  <2>2. ASSUME NEW i \in reached
        PROVE  \E b \in new(reached) : b.at = moment /\ b.sla = Agreements[i].name
    <3>1. [sla |-> Agreements[i].name, at |-> moment] \in new(reached)
      BY <2>2
    <3>2. QED
      BY <3>1
  <2>3. QED
    BY <2>1, <2>2
<1> HIDE DEF reached, new
<1>7. /\ service'.now = moment /\ service'.breaches = all /\ service'.records = records
      /\ DOMAIN service' = DOMAIN NewService
  BY <1>2 DEF BreachesKept, NewService
<1>8. service'.told <=> quiet
  BY <1>2 DEF BreachesKept, NewService
<1>9. moment \in Nat /\ \A b \in service.breaches : b.at \in 0..moment
  BY DEF BreachesKept
<1> HIDE DEF moment
<1>10. \A b \in all : b.at \in 0..moment
  BY <1>6, <1>9
<1>11. ASSUME NEW b \in all, NEW c \in all, b.sla = c.sla, b.at < c.at
       PROVE  c.at - b.at > FirstNamed(b.sla).window
  <2>1. b \in service.breaches /\ b.at \in 0..moment /\ c.at \in 0..moment
    BY <1>6, <1>9, <1>10, <1>11
  <2>2. CASE c \in service.breaches
    BY <1>11, <2>1, <2>2 DEF BreachesKept, BreachesTimely
  <2>3. CASE c \in new(reached)
    <3>1. PICK i \in ripe : c.at = moment /\ c.sla = Agreements[i].name
      BY <1>6, <2>3
    <3>2. i \in DOMAIN Agreements /\ ~InWindow(b.at, FirstNamed(b.sla), moment)
      BY <1>3, <1>11, <2>1, <3>1
    <3>3. FirstNamed(b.sla).window \in Nat
      BY <1>11, <3>1, <3>2, FirstOfName
    <3>4. QED
      BY <1>9, <2>1, <3>1, <3>2, <3>3 DEF InWindow
  <2>4. QED
    BY <2>2, <2>3
<1>12. ASSUME quiet, NEW i \in DOMAIN Agreements
       PROVE  \/ Complies(Agreements[i], Kept(records, Agreements[i], moment))
              \/ \E b \in all :
                   b.sla = Agreements[i].name
                   /\ b.at >= moment - FirstNamed(Agreements[i].name).window
  <2>1. CASE \E j \in ripe : Agreements[j].name = Agreements[i].name
    <3>1. PICK j \in ripe : Agreements[j].name = Agreements[i].name
      BY <2>1
    <3>2. PICK b \in new(reached) : b.at = moment /\ b.sla = Agreements[j].name
      BY <1>5, <1>6, <1>12, <3>1
    <3>3. FirstNamed(Agreements[i].name).window \in Nat
      BY FirstOfName
    <3>4. b.at >= moment - FirstNamed(Agreements[i].name).window
      BY <1>9, <3>2, <3>3
    <3>5. QED
      BY <3>1, <3>2, <3>4
  <2>2. CASE ~\E j \in ripe : Agreements[j].name = Agreements[i].name
    BY <1>4, <2>2 DEF InWindow
  <2>3. QED
    BY <2>1, <2>2
<1> HIDE DEF all
<1>13. (\A b \in service.breaches : b.at \in 0..service.now)'
  BY <1>7, <1>10
<1>14. (\A b, c \in service.breaches :
          b.sla = c.sla /\ b.at < c.at => c.at - b.at > FirstNamed(b.sla).window)'
  BY <1>7, <1>11
<1>15. ASSUME service'.told, NEW i \in DOMAIN Agreements
       PROVE  \/ Complies(Agreements[i], Kept(service'.records, Agreements[i], service'.now))
              \/ \E b \in service'.breaches :
                   b.sla = Agreements[i].name
                   /\ b.at >= service'.now - FirstNamed(Agreements[i].name).window
  BY <1>7, <1>8, <1>12, <1>15
<1>16. BreachesTimely'
  BY <1>14, <1>15 DEF BreachesTimely
<1>17. QED
  BY <1>7, <1>9, <1>13, <1>16 DEF BreachesKept

LEMMA MonitorsStart ==
  MonitorsInit => MonitorsIInv
<1> SUFFICES ASSUME MonitorsInit
             PROVE  MonitorsIInv
  OBVIOUS
<1>1. /\ ledger = EmptyTracker /\ alarm = QuietAlarm /\ service = NewService
  BY DEF MonitorsInit
<1>2. LedgerSound
  BY <1>1, EmptyHonest DEF LedgerSound
<1>3. AlarmKept(alarm) /\ (100 \in alarm.fired => alarm.exceeded) /\ ~alarm.checked
  BY <1>1, QuietKept
<1>4. service.breaches = {} /\ service.now = 0 /\ ~service.told /\ DOMAIN service = DOMAIN NewService
  BY <1>1 DEF NewService
<1>5. BreachesKept
  BY <1>4 DEF BreachesKept, BreachesTimely
<1>6. QED
  BY <1>2, <1>3, <1>5 DEF MonitorsIInv

(* Steps on the side of the costs, and on the side of the service.         *)
LEMMA ServiceStands ==
  BreachesKept /\ service' = service => BreachesKept'
<1>1. ASSUME BreachesKept, service' = service
      PROVE  BreachesKept'
  <2>1. BreachesTimely'
    BY <1>1 DEF BreachesKept, BreachesTimely
  <2>2. QED
    BY <1>1, <2>1 DEF BreachesKept
<1>2. QED
  BY <1>1

LEMMA CostsStand ==
  ASSUME MonitorsIInv, ledger' = ledger, alarm' = alarm, BreachesKept'
  PROVE  MonitorsIInv'
<1>1. LedgerSound /\ AlarmKept(alarm) /\ (100 \in alarm.fired => alarm.exceeded)
      /\ (alarm.checked => SpendingAlerted)
  BY DEF MonitorsIInv
<1>2. LedgerSound'
  BY <1>1 DEF LedgerSound
<1>3. AlarmKept(alarm') /\ (100 \in alarm'.fired => alarm'.exceeded)
  BY <1>1
<1>4. (alarm.checked => SpendingAlerted)'
  BY <1>1 DEF SpendingAlerted
<1>5. QED
  BY <1>2, <1>3, <1>4 DEF MonitorsIInv

LEMMA AlarmMoves ==
  ASSUME MonitorsIInv, service' = service, LedgerSound',
         AlarmKept(alarm'), 100 \in alarm'.fired => alarm'.exceeded,
         alarm'.checked => SpendingAlerted'
  PROVE  MonitorsIInv'
<1>1. BreachesKept'
  BY ServiceStands DEF MonitorsIInv
<1>2. QED
  BY <1>1 DEF MonitorsIInv

LEMMA MonitorsStep ==
  MonitorsIInv /\ [MonitorsNext]_monitorVars => MonitorsIInv'
<1> SUFFICES ASSUME MonitorsIInv, [MonitorsNext]_monitorVars
             PROVE  MonitorsIInv'
  OBVIOUS
<1>1. /\ LedgerSound /\ Ledger(ledger) /\ ledger \in TrackerType
      /\ AlarmKept(alarm) /\ (100 \in alarm.fired => alarm.exceeded) /\ BreachesKept
  BY DEF MonitorsIInv, LedgerSound, Ledger
<1>2. CASE UseBudget
  <2>1. PICK id \in Ids, cost \in Costs : CostsStep(id, cost)
    BY <1>2 DEF UseBudget
  <2>2. alarm' = Notified(ledger, ledger') /\ service' = service
    BY <1>2 DEF UseBudget
  <2>3. Ledger(ledger') /\ Honest(ledger, ledger')
    BY <1>1, <2>1, CostsHonest
  <2>4. LedgerSound' /\ ledger' \in TrackerType
    BY <2>3 DEF LedgerSound, Honest, Ledger
  <2>5. /\ AlarmKept(alarm') /\ (100 \in alarm'.fired => alarm'.exceeded) /\ ~alarm'.checked
    BY <1>1, <2>2, <2>3, <2>4, NotifiedKeeps
  <2>6. QED
    BY <2>2, <2>4, <2>5, AlarmMoves
<1>3. CASE ResetTracker
  <2>1. ledger' = EmptyTracker /\ service' = service
    BY <1>3 DEF ResetTracker
  <2>2. alarm' = [alarm EXCEPT !.checked = FALSE]
    BY <1>3 DEF ResetTracker
  <2>3. LedgerSound'
    BY <2>1, EmptyHonest DEF LedgerSound
  <2>4. /\ AlarmKept(alarm') /\ alarm'.fired = alarm.fired
        /\ alarm'.exceeded = alarm.exceeded /\ ~alarm'.checked
    BY <1>1, <2>2, MarkKeeps
  <2>5. QED
    BY <1>1, <2>1, <2>3, <2>4, AlarmMoves
<1>4. CASE ResetAlarm
  <2>1. alarm' = QuietAlarm /\ ledger' = ledger /\ service' = service
    BY <1>4 DEF ResetAlarm
  <2>2. LedgerSound'
    BY <1>1, <2>1 DEF LedgerSound
  <2>3. AlarmKept(alarm') /\ 100 \notin alarm'.fired /\ ~alarm'.checked
    BY <2>1, QuietKept
  <2>4. QED
    BY <2>1, <2>2, <2>3, AlarmMoves
<1>5. CASE CheckCosts
  <2>1. alarm' = Checked(alarm, ledger) /\ ledger' = ledger /\ service' = service
    BY <1>5 DEF CheckCosts
  <2>2. LedgerSound'
    BY <1>1, <2>1 DEF LedgerSound
  <2>3. /\ AlarmKept(alarm') /\ (100 \in alarm'.fired => alarm'.exceeded)
        /\ \A p \in Thresholds :
             ledger.actual > 0 /\ 100 * ledger.actual >= p * SessionBudget => p \in alarm'.fired
    BY <1>1, <2>1, CheckedKeeps
  <2>4. SpendingAlerted'
    BY <2>1, <2>3 DEF SpendingAlerted
  <2>5. QED
    BY <2>1, <2>2, <2>3, <2>4, AlarmMoves
<1>6. CASE RequestEnds
  <2>1. PICK success \in BOOLEAN, duration \in Durations : Ends(success, duration, {})
    BY <1>6 DEF RequestEnds
  <2>2. BreachesKept'
    BY <1>1, <2>1, EndsKeeps
  <2>3. ledger' = ledger /\ alarm' = alarm
    BY <2>1 DEF Ends
  <2>4. QED
    BY <2>2, <2>3, CostsStand
<1>7. CASE RecordRequest
  <2>1. PICK success \in BOOLEAN, duration \in Durations, cost \in RequestCosts :
          Ends(success, duration, {cost})
    BY <1>7 DEF RecordRequest
  <2>2. BreachesKept'
    BY <1>1, <2>1, EndsKeeps
  <2>3. ledger' = ledger /\ alarm' = alarm
    BY <2>1 DEF Ends
  <2>4. QED
    BY <2>2, <2>3, CostsStand
<1>8. CASE DisposeMonitor
  <2>1. /\ service'.breaches = service.breaches /\ service'.now = service.now
        /\ service'.records = service.records /\ DOMAIN service' = DOMAIN NewService
    BY <1>1, <1>8 DEF DisposeMonitor, BreachesKept, NewService
  <2>2. service'.told <=> service.told
    BY <1>1, <1>8 DEF DisposeMonitor, BreachesKept, NewService
  <2>3. BreachesTimely'
    BY <1>1, <2>1, <2>2 DEF BreachesKept, BreachesTimely
  <2>4. BreachesKept'
    BY <1>1, <2>1, <2>3 DEF BreachesKept
  <2>5. ledger' = ledger /\ alarm' = alarm
    BY <1>8 DEF DisposeMonitor
  <2>6. QED
    BY <2>4, <2>5, CostsStand
<1>9. CASE MonitorClock
  <2>1. /\ service'.breaches = service.breaches /\ service'.now = service.now + 1
        /\ DOMAIN service' = DOMAIN NewService
    BY <1>1, <1>9 DEF MonitorClock, BreachesKept, NewService
  <2>2. ~service'.told
    BY <1>1, <1>9 DEF MonitorClock, BreachesKept, NewService
  <2>3. BreachesTimely'
    BY <1>1, <2>1, <2>2 DEF BreachesKept, BreachesTimely
  <2>4. service'.now \in Nat /\ \A b \in service.breaches : b.at \in 0..(service.now + 1)
    BY <1>1, <2>1 DEF BreachesKept
  <2>5. BreachesKept'
    BY <2>1, <2>3, <2>4 DEF BreachesKept
  <2>6. ledger' = ledger /\ alarm' = alarm
    BY <1>9 DEF MonitorClock
  <2>7. QED
    BY <2>5, <2>6, CostsStand
<1>10. CASE UNCHANGED monitorVars
  <2>1. ledger' = ledger /\ alarm' = alarm /\ service' = service
    BY <1>10 DEF monitorVars
  <2>2. BreachesKept'
    BY <1>1, <2>1, ServiceStands
  <2>3. QED
    BY <2>1, <2>2, CostsStand
<1>11. QED
  BY <1>2, <1>3, <1>4, <1>5, <1>6, <1>7, <1>8, <1>9, <1>10 DEF MonitorsNext

LEMMA MonitorsImply ==
  MonitorsIInv => MonitorsTimely
BY DEF MonitorsIInv, AlarmKept, SpendingAlerted, BreachesKept, MonitorsTimely, AlertsTimely

----------------------------------------------------------------------------
(* Routes: what each phase of a request leaves in its body.                *)
BodyRecord ==
  [state : {"none", "open", "cancelled", "closed"}, pending : SUBSET ToolIds,
   starts : [ToolIds -> Nat], ends : [ToolIds -> Nat], finals : Nat, failed : BOOLEAN,
   chunks : Nat, seen : Nat]

ServedRecord ==
  [phase : {"new", "reading", "hook", "completing", "streaming", "failing", "reporting", "over"},
   client : 0..MaxClients, dead : BOOLEAN, told : {"none", "answer", "message", "masked", "stream"},
   body : BodyRecord]

(* The calls whose end is still to be written, unless the body ended well. *)
Unended(b) == IF b.state = "closed" /\ ~b.failed THEN {} ELSE b.pending

BodySound(b, done) ==
  /\ b.finals = IF b.state = "closed" THEN done ELSE 0
  /\ b.failed => b.state = "closed"
  /\ \A i \in ToolIds : b.starts[i] = b.ends[i] + (IF i \in Unended(b) THEN 1 ELSE 0)

ServedSound(q, done) ==
  /\ BodySound(q.body, done)
  /\ q.body.seen <= 1
  /\ q.phase \in {"new", "reading", "hook", "completing", "failing"} => q.body = NewBody
  /\ q.phase \in {"streaming", "reporting"} =>
       q.body.state \in {"open", "cancelled"} /\ q.told = "stream"
  /\ q.phase = "streaming" => q.body.seen = 0
  /\ q.phase = "reporting" => done = 0
  /\ q.phase \in {"failing", "over"} => q.told # "none"
  /\ q.phase = "over" => q.body.state # "open"

(* A client that is gone is cached only where get() overlapped dispose().  *)
PoolKept ==
  /\ made \in 0..MaxClients /\ disposing \in 0..(Len(owned) + 1) /\ raced \in BOOLEAN
  /\ cached \in [Models -> SUBSET (1..made)]
  /\ owned \in Seq(1..made)
  /\ 1..made = ToSet(owned) \cup gone
  /\ \A i \in DOMAIN owned : i < disposing => owned[i] \in gone
  /\ ~raced => \A m \in Models : cached[m] \cap gone = {} /\ (disposing # 0 => cached[m] = {})

RoutesIInv ==
  /\ route \in RouteKinds /\ PoolKept
  /\ req \in [Served -> ServedRecord]
  /\ \A r \in Served : ServedSound(req[r], SaysDone) /\ (req[r].dead => raced)

LEMMA PoolStands ==
  ASSUME PoolKept, UNCHANGED poolVars
  PROVE  PoolKept'
<1>1. /\ cached' = cached /\ owned' = owned /\ gone' = gone /\ made' = made
      /\ disposing' = disposing /\ raced' = raced
  BY DEF poolVars
<1>2. QED
  BY <1>1 DEF PoolKept

LEMMA SaysDoneIs ==
  SaysDone \in {0, 1} /\ (route.writer \in {"lines", "text"} => SaysDone = 0)
BY DEF SaysDone

(* A step of one request leaves the others as they are.                    *)
LEMMA OneServed ==
  ASSUME RoutesIInv, route' = route, PoolKept', raced => raced',
         NEW r \in Served, NEW q \in ServedRecord, req' = [req EXCEPT ![r] = q],
         ServedSound(q, SaysDone), q.dead => raced'
  PROVE  RoutesIInv'
<1>1. SaysDone' = SaysDone
  BY DEF SaysDone
<1>2. req \in [Served -> ServedRecord] /\ \A s \in Served : ServedSound(req[s], SaysDone) /\ (req[s].dead => raced)
  BY DEF RoutesIInv
<1>3. req' \in [Served -> ServedRecord]
  BY <1>2
<1>4. ASSUME NEW s \in Served
      PROVE  ServedSound(req'[s], SaysDone) /\ (req'[s].dead => raced')
  <2>1. CASE s = r
    BY <1>2, <2>1
  <2>2. CASE s # r
    <3>1. req'[s] = req[s]
      BY <1>2, <2>2
    <3>2. QED
      BY <1>2, <3>1
  <2>3. QED
    BY <2>1, <2>2
<1>5. (\A s \in Served : ServedSound(req[s], SaysDone) /\ (req[s].dead => raced))'
  BY <1>1, <1>4 DEF ServedSound, BodySound
<1>6. route' \in RouteKinds
  BY DEF RoutesIInv
<1>7. QED
  BY <1>3, <1>5, <1>6 DEF RoutesIInv

LEMMA ServedFields ==
  ASSUME NEW q \in ServedRecord
  PROVE  /\ q.phase \in {"new", "reading", "hook", "completing", "streaming", "failing",
                         "reporting", "over"}
         /\ q.client \in 0..MaxClients /\ q.dead \in BOOLEAN
         /\ q.told \in {"none", "answer", "message", "masked", "stream"}
         /\ q.body \in BodyRecord
BY DEF ServedRecord

LEMMA BodyFields ==
  ASSUME NEW b \in BodyRecord
  PROVE  /\ b.state \in {"none", "open", "cancelled", "closed"} /\ b.pending \in SUBSET ToolIds
         /\ b.starts \in [ToolIds -> Nat] /\ b.ends \in [ToolIds -> Nat]
         /\ b.finals \in Nat /\ b.failed \in BOOLEAN /\ b.chunks \in Nat /\ b.seen \in Nat
BY DEF BodyRecord

LEMMA NewBodySound ==
  NewBody \in BodyRecord /\ NewBody.seen = 0 /\ NewBody.state = "none"
  /\ \A d : BodySound(NewBody, d) /\ BodySound([NewBody EXCEPT !.state = "open"], d)
<1>1. NewBody \in BodyRecord
  BY DEF NewBody, BodyRecord
<1>2. /\ NewBody.pending = {} /\ NewBody.finals = 0 /\ NewBody.state = "none" /\ NewBody.seen = 0
      /\ NewBody.starts = [i \in ToolIds |-> 0] /\ NewBody.ends = [i \in ToolIds |-> 0]
      /\ ~NewBody.failed
  BY DEF NewBody
<1> DEFINE b == [NewBody EXCEPT !.state = "open"]
<1>3. /\ b.pending = {} /\ b.finals = 0 /\ b.state = "open"
      /\ b.starts = [i \in ToolIds |-> 0] /\ b.ends = [i \in ToolIds |-> 0]
      /\ ~b.failed
  BY DEF NewBody
<1> HIDE DEF b
<1>4. ASSUME NEW d PROVE BodySound(NewBody, d) /\ BodySound(b, d)
  BY <1>2, <1>3 DEF BodySound, Unended
<1>5. QED
  BY <1>1, <1>2, <1>4 DEF b

(* Before there is a body.                                                 *)
LEMMA Bodiless ==
  ASSUME NEW q \in ServedRecord, NEW d, q.body = NewBody,
         q.phase \in {"new", "reading", "hook", "completing", "failing", "over"},
         q.phase \in {"failing", "over"} => q.told # "none"
  PROVE  ServedSound(q, d)
BY NewBodySound DEF ServedSound

LEMMA NewServedSound ==
  ASSUME NEW d
  PROVE  /\ NewServed \in ServedRecord /\ ServedSound(NewServed, d) /\ ~NewServed.dead
         /\ [NewServed EXCEPT !.phase = "reading"] \in ServedRecord
         /\ ServedSound([NewServed EXCEPT !.phase = "reading"], d)
         /\ ~[NewServed EXCEPT !.phase = "reading"].dead
<1> DEFINE q == [NewServed EXCEPT !.phase = "reading"]
<1>1. NewServed \in ServedRecord
  <2>1. 0 \in 0..MaxClients /\ FALSE \in BOOLEAN
    BY RoutesAssumption
  <2>2. NewBody \in BodyRecord
    BY NewBodySound
  <2>3. QED
    BY <2>1, <2>2 DEF NewServed, ServedRecord
<1>2. NewServed.phase = "new" /\ NewServed.body = NewBody /\ ~NewServed.dead
  BY DEF NewServed
<1>3. q \in ServedRecord
  BY <1>1 DEF ServedRecord
<1>4. q.phase = "reading" /\ q.body = NewBody
  BY DEF NewServed
<1>5. ~q.dead
  BY DEF NewServed
<1> HIDE DEF q
<1>6. ServedSound(NewServed, d)
  BY <1>1, <1>2, Bodiless
<1>7. ServedSound(q, d)
  BY <1>3, <1>4, Bodiless
<1>8. QED
  BY <1>1, <1>2, <1>3, <1>5, <1>6, <1>7 DEF q

(* get(): the client it gives was not disposed, or it came in between.     *)
LEMMA GetKeeps ==
  ASSUME PoolKept, NEW m \in Models, Get(m)
  PROVE  /\ PoolKept' /\ (raced => raced')
         /\ Got(m) \in 0..MaxClients /\ (Got(m) \in gone => raced')
<1>1. /\ made \in 0..MaxClients /\ disposing \in 0..(Len(owned) + 1) /\ raced \in BOOLEAN
      /\ cached \in [Models -> SUBSET (1..made)]
      /\ owned \in Seq(1..made)
      /\ 1..made = ToSet(owned) \cup gone
      /\ \A i \in DOMAIN owned : i < disposing => owned[i] \in gone
      /\ ~raced => \A n \in Models : cached[n] \cap gone = {} /\ (disposing # 0 => cached[n] = {})
  BY DEF PoolKept
<1>2. CASE cached[m] # {}
  <2>1. UNCHANGED poolVars
    BY <1>2 DEF Get
  <2>2. PoolKept'
    BY <2>1, PoolStands
  <2>3. Got(m) \in cached[m]
    BY <1>2 DEF Got
  <2>4. Got(m) \in 1..made
    BY <1>1, <2>3
  <2>5. Got(m) \in 0..MaxClients
    BY <1>1, <2>4, RoutesAssumption
  <2>6. raced' = raced
    BY <2>1 DEF poolVars
  <2>7. Got(m) \in gone => raced
    BY <1>1, <2>3
  <2>8. QED
    BY <2>2, <2>5, <2>6, <2>7
<1>3. CASE cached[m] = {}
  <2> DEFINE c == made + 1
  <2>1. /\ made < MaxClients /\ made' = c /\ owned' = Append(owned, c)
        /\ cached' = IF m \in Catalogued THEN [cached EXCEPT ![m] = {c}] ELSE cached
        /\ raced' = (raced \/ disposing # 0) /\ gone' = gone /\ disposing' = disposing
    BY <1>3 DEF Get
  <2>2. MaxClients \in Nat
    BY RoutesAssumption
  <2>3. made \in Nat /\ c \in 0..MaxClients /\ c \notin 1..made /\ 1..c = (1..made) \cup {c}
    BY <1>1, <2>1, <2>2
  <2>4. Got(m) = c
    BY <1>3 DEF Got
  <2> HIDE DEF c
  <2>5. c \notin gone
    BY <1>1, <2>3
  <2>6. owned \in Seq(1..c) /\ c \in 1..c
    <3>1. 1..made \subseteq 1..c
      BY <2>3
    <3>2. Len(owned) \in Nat /\ owned \in [1..Len(owned) -> 1..made]
      BY <1>1
    <3>3. owned \in [1..Len(owned) -> 1..c]
      BY <3>1, <3>2
    <3>4. owned \in Seq(1..c)
      BY <3>2, <3>3, SeqDef
    <3>5. QED
      BY <2>3, <3>4
  <2>7. /\ owned' \in Seq(1..c) /\ Len(owned') = Len(owned) + 1
        /\ \A i \in 1..Len(owned) : owned'[i] = owned[i]
        /\ owned'[Len(owned) + 1] = c
    BY <2>1, <2>6, AppendProperties
  <2>8. /\ DOMAIN owned = 1..Len(owned) /\ Len(owned) \in Nat
        /\ DOMAIN owned' = 1..(Len(owned) + 1)
    BY <2>6, <2>7
  <2>9. ToSet(owned') = ToSet(owned) \cup {c}
    BY <2>7, <2>8 DEF ToSet
  <2>10. 1..made' = ToSet(owned') \cup gone'
    BY <1>1, <2>1, <2>3, <2>9
  <2>11. ASSUME NEW i \in DOMAIN owned', i < disposing'
         PROVE  owned'[i] \in gone'
    <3>1. i \in DOMAIN owned /\ i < disposing
      BY <1>1, <2>1, <2>8, <2>11
    <3>2. QED
      BY <1>1, <2>1, <2>7, <2>8, <3>1
  <2>12. cached' \in [Models -> SUBSET (1..c)]
    <3>1. /\ cached \in [Models -> SUBSET (1..c)] /\ {c} \in SUBSET (1..c)
      BY <1>1, <2>3, <2>6
    <3>2. [cached EXCEPT ![m] = {c}] \in [Models -> SUBSET (1..c)]
      BY <3>1
    <3>3. QED
      BY <2>1, <3>1, <3>2
  <2>13. ASSUME ~raced', NEW n \in Models
         PROVE  cached'[n] \cap gone' = {} /\ (disposing' # 0 => cached'[n] = {})
    <3>1. ~raced /\ disposing = 0
      BY <2>1, <2>13
    <3>2. cached[n] \cap gone = {}
      BY <1>1, <3>1
    <3>3. cached'[n] = cached[n] \/ cached'[n] = {c}
      BY <1>1, <2>1
    <3>4. QED
      BY <2>1, <2>5, <3>1, <3>2, <3>3
  <2>14. made' \in 0..MaxClients /\ disposing' \in 0..(Len(owned') + 1)
    BY <1>1, <2>1, <2>3, <2>7, <2>8
  <2>15. raced' \in BOOLEAN /\ (raced => raced')
    BY <1>1, <2>1
  <2>16. PoolKept'
    BY <2>1, <2>7, <2>10, <2>11, <2>12, <2>13, <2>14, <2>15 DEF PoolKept
  <2>17. QED
    BY <2>3, <2>4, <2>5, <2>15, <2>16
<1>4. QED
  BY <1>2, <1>3

LEMMA StartDisposeKeeps ==
  ASSUME PoolKept, StartDispose
  PROVE  PoolKept'
<1>1. /\ made \in 0..MaxClients /\ disposing \in 0..(Len(owned) + 1) /\ raced \in BOOLEAN
      /\ owned \in Seq(1..made) /\ 1..made = ToSet(owned) \cup gone
  BY DEF PoolKept
<1>2. /\ owned # <<>> /\ cached' = [m \in Models |-> {}] /\ gone' = gone \cup {owned[1]}
      /\ disposing' = 2 /\ owned' = owned /\ made' = made /\ raced' = raced
  BY DEF StartDispose
<1>3. Len(owned) \in Nat /\ Len(owned) >= 1 /\ DOMAIN owned = 1..Len(owned)
  BY <1>1, <1>2
<1>4. owned[1] \in ToSet(owned)
  BY <1>3 DEF ToSet
<1>5. 1..made = ToSet(owned) \cup gone'
  BY <1>1, <1>2, <1>4
<1>6. \A i \in DOMAIN owned : i < 2 => owned[i] \in gone'
  BY <1>2, <1>3
<1>7. disposing' \in 0..(Len(owned') + 1)
  BY <1>2, <1>3
<1>8. cached' \in [Models -> SUBSET (1..made)] /\ \A m \in Models : cached'[m] = {}
  BY <1>2
<1>9. QED
  BY <1>1, <1>2, <1>5, <1>6, <1>7, <1>8 DEF PoolKept

LEMMA DisposeNextKeeps ==
  ASSUME PoolKept, DisposeNext
  PROVE  PoolKept'
<1>1. /\ made \in 0..MaxClients /\ disposing \in 0..(Len(owned) + 1) /\ raced \in BOOLEAN
      /\ cached \in [Models -> SUBSET (1..made)]
      /\ owned \in Seq(1..made) /\ 1..made = ToSet(owned) \cup gone
      /\ \A i \in DOMAIN owned : i < disposing => owned[i] \in gone
      /\ ~raced => \A m \in Models : cached[m] \cap gone = {} /\ (disposing # 0 => cached[m] = {})
  BY DEF PoolKept
<1>2. disposing # 0 /\ cached' = cached /\ made' = made /\ raced' = raced
  BY DEF DisposeNext
<1>3. Len(owned) \in Nat /\ DOMAIN owned = 1..Len(owned)
  BY <1>1
<1>4. ~raced => \A m \in Models : cached[m] = {}
  BY <1>1, <1>2
<1>5. CASE disposing <= Len(owned)
  <2>1. gone' = gone \cup {owned[disposing]} /\ disposing' = disposing + 1 /\ owned' = owned
    BY <1>5 DEF DisposeNext
  <2>2. disposing \in DOMAIN owned
    BY <1>1, <1>2, <1>3, <1>5
  <2>3. 1..made = ToSet(owned) \cup gone'
    BY <1>1, <2>1, <2>2 DEF ToSet
  <2>4. ASSUME NEW i \in DOMAIN owned, i < disposing + 1 PROVE owned[i] \in gone'
    <3>1. i < disposing \/ i = disposing
      BY <1>1, <1>3, <2>4
    <3>2. QED
      BY <1>1, <2>1, <3>1
  <2>5. disposing' \in 0..(Len(owned') + 1)
    BY <1>1, <1>3, <1>5, <2>1
  <2>6. QED
    BY <1>1, <1>2, <1>4, <2>1, <2>3, <2>4, <2>5 DEF PoolKept
<1>6. CASE ~(disposing <= Len(owned))
  <2>1. owned' = <<>> /\ disposing' = 0 /\ gone' = gone
    BY <1>6 DEF DisposeNext
  <2>2. ToSet(owned) \subseteq gone
    <3>1. \A i \in DOMAIN owned : owned[i] \in gone
      BY <1>1, <1>3, <1>6
    <3>2. QED
      BY <3>1 DEF ToSet
  <2>3. ToSet(owned') = {} /\ DOMAIN owned' = {} /\ Len(owned') = 0
    BY <2>1 DEF ToSet
  <2>4. owned' \in Seq(1..made)
    BY <2>1
  <2>5. disposing' \in 0..(Len(owned') + 1)
    BY <2>1, <2>3
  <2>6. 1..made = ToSet(owned') \cup gone'
    BY <1>1, <2>1, <2>2, <2>3
  <2>7. QED
    BY <1>1, <1>2, <1>4, <2>1, <2>3, <2>4, <2>5, <2>6 DEF PoolKept
<1>7. QED
  BY <1>5, <1>6

(* Steps before there is a body.                                           *)
LEMMA RequestTaken ==
  ASSUME RoutesIInv, NEW r \in Served
  PROVE  /\ req \in [Served -> ServedRecord] /\ req[r] \in ServedRecord
         /\ ServedSound(req[r], SaysDone) /\ (req[r].dead => raced) /\ PoolKept
BY DEF RoutesIInv

LEMMA StillKept ==
  ASSUME PoolKept, UNCHANGED poolVars
  PROVE  PoolKept' /\ raced' = raced
<1>1. PoolKept'
  BY PoolStands
<1>2. raced' = raced
  BY DEF poolVars
<1>3. QED
  BY <1>1, <1>2

(* A request that fails, or is answered, before it has a body.             *)
LEMMA ToldKeeps ==
  ASSUME RoutesIInv, NEW r \in Served, req[r].phase \in {"reading", "hook", "completing", "failing"},
         NEW p \in {"failing", "over"}, NEW t \in {"answer", "message", "masked", "stream"},
         req' = [req EXCEPT ![r] = [req[r] EXCEPT !.phase = p, !.told = t]],
         PoolKept', raced => raced', route' = route
  PROVE  RoutesIInv'
<1> DEFINE q == [req[r] EXCEPT !.phase = p, !.told = t]
<1>1. /\ req[r] \in ServedRecord /\ ServedSound(req[r], SaysDone) /\ (req[r].dead => raced)
  BY RequestTaken
<1>2. /\ q \in ServedRecord /\ q.phase = p /\ q.body = req[r].body /\ q.told = t
      /\ q.dead = req[r].dead
  <2>1. q \in ServedRecord
    BY <1>1 DEF ServedRecord
  <2>2. q.phase = p /\ q.body = req[r].body /\ q.told = t
    BY <1>1 DEF ServedRecord
  <2>3. q.dead = req[r].dead
    BY <1>1 DEF ServedRecord
  <2>4. QED
    BY <2>1, <2>2, <2>3
<1>3. req' = [req EXCEPT ![r] = q]
  OBVIOUS
<1> HIDE DEF q
<1>4. q.body = NewBody
  BY <1>1, <1>2 DEF ServedSound
<1>5. ServedSound(q, SaysDone)
  BY <1>2, <1>4, Bodiless
<1>6. QED
  BY <1>1, <1>2, <1>3, <1>5, OneServed

LEMMA EarlySteps ==
  ASSUME RoutesIInv, NEW r \in Served,
         \/ ServeRequest(r) \/ RejectBody(r) \/ HookRejects(r)
         \/ Completed(r) \/ CompletionFails(r) \/ ErrorReported(r)
  PROVE  RoutesIInv'
<1>1. PoolKept' /\ raced' = raced /\ route' = route
  <2>1. UNCHANGED poolVars /\ route' = route
    BY DEF ServeRequest, RejectBody, HookRejects, Completed, CompletionFails, ErrorReported
  <2>2. QED
    BY <2>1, RequestTaken, StillKept
<1>2. CASE ServeRequest(r)
  <2> DEFINE q == [NewServed EXCEPT !.phase = "reading"]
  <2>1. req' = [req EXCEPT ![r] = q]
    BY <1>2 DEF ServeRequest
  <2>2. q \in ServedRecord /\ ServedSound(q, SaysDone) /\ ~q.dead
    BY NewServedSound
  <2> HIDE DEF q
  <2>3. QED
    BY <1>1, <2>1, <2>2, OneServed
<1>3. CASE RejectBody(r)
  <2>1. /\ req[r].phase = "reading"
        /\ req' = [req EXCEPT ![r] = [req[r] EXCEPT !.phase = "failing", !.told = "message"]]
    BY <1>3 DEF RejectBody, Failing, Phase
  <2>2. QED
    BY <1>1, <2>1, ToldKeeps
<1>4. CASE HookRejects(r)
  <2>1. PICK told \in {"message", "masked"} :
          /\ req[r].phase = "hook"
          /\ req' = [req EXCEPT ![r] = [req[r] EXCEPT !.phase = "failing", !.told = told]]
    BY <1>4 DEF HookRejects, Failing, Phase
  <2>2. QED
    BY <1>1, <2>1, ToldKeeps
<1>5. CASE Completed(r)
  <2>1. /\ req[r].phase = "completing"
        /\ req' = [req EXCEPT ![r] = [req[r] EXCEPT !.phase = "over", !.told = "answer"]]
    BY <1>5 DEF Completed, Phase
  <2>2. QED
    BY <1>1, <2>1, ToldKeeps
<1>6. CASE CompletionFails(r)
  <2>1. PICK told \in {"message", "masked"} :
          /\ req[r].phase = "completing"
          /\ req' = [req EXCEPT ![r] = [req[r] EXCEPT !.phase = "failing", !.told = told]]
    BY <1>6 DEF CompletionFails, Failing, Phase
  <2>2. QED
    BY <1>1, <2>1, ToldKeeps
<1>7. CASE ErrorReported(r)
  <2>1. PICK told \in {req[r].told, "masked"} :
          /\ req[r].phase = "failing"
          /\ req' = [req EXCEPT ![r] = [req[r] EXCEPT !.phase = "over", !.told = told]]
    BY <1>7 DEF ErrorReported, Phase
  <2>2. req[r].told # "none" /\ req[r] \in ServedRecord
    BY <2>1, RequestTaken DEF ServedSound
  <2>3. told \in {"answer", "message", "masked", "stream"}
    BY <2>2, ServedFields
  <2>4. QED
    BY <1>1, <2>1, <2>3, ToldKeeps
<1>8. QED
  BY <1>2, <1>3, <1>4, <1>5, <1>6, <1>7

LEMMA PhaseKeeps ==
  ASSUME RoutesIInv, NEW r \in Served, req[r].phase \in {"reading", "hook"},
         NEW p \in {"hook", "completing"},
         req' = [req EXCEPT ![r] = [req[r] EXCEPT !.phase = p]],
         PoolKept', raced => raced', route' = route
  PROVE  RoutesIInv'
<1> DEFINE q == [req[r] EXCEPT !.phase = p]
<1>1. /\ req[r] \in ServedRecord /\ ServedSound(req[r], SaysDone) /\ (req[r].dead => raced)
  BY RequestTaken
<1>2. q \in ServedRecord
  BY <1>1 DEF ServedRecord
<1>3. q.phase = p /\ q.body = req[r].body
  BY <1>1 DEF ServedRecord
<1>4. q.dead = req[r].dead
  BY <1>1 DEF ServedRecord
<1>5. req' = [req EXCEPT ![r] = q]
  OBVIOUS
<1> HIDE DEF q
<1>6. q.body = NewBody
  BY <1>1, <1>3 DEF ServedSound
<1>7. ServedSound(q, SaysDone)
  BY <1>2, <1>3, <1>6, Bodiless
<1>8. QED
  BY <1>1, <1>2, <1>4, <1>5, <1>7, OneServed

LEMMA AcceptKeeps ==
  ASSUME RoutesIInv, NEW r \in Served, NEW want \in {{}} \cup {{m} : m \in Models}, AcceptBody(r, want)
  PROVE  RoutesIInv'
<1>1. req[r].phase = "reading" /\ route' = route
  BY DEF AcceptBody, Phase
<1>2. /\ req[r] \in ServedRecord /\ ServedSound(req[r], SaysDone) /\ PoolKept
  BY RequestTaken
<1>3. CASE ~route.pooled
  <2>1. UNCHANGED poolVars /\ req' = [req EXCEPT ![r] = [req[r] EXCEPT !.phase = "hook"]]
    BY <1>3 DEF AcceptBody
  <2>2. PoolKept' /\ raced' = raced
    BY <1>2, <2>1, StillKept
  <2>3. QED
    BY <1>1, <2>1, <2>2, PhaseKeeps
<1>4. CASE route.pooled
  <2>1. PICK m \in ResolveModel(want) :
          /\ Get(m)
          /\ req' = IF m \in Catalogued
                    THEN [req EXCEPT ![r].phase = "hook", ![r].client = Got(m),
                                     ![r].dead = (Got(m) \in gone)]
                    ELSE Failing(r, "message")
    BY <1>4 DEF AcceptBody
  <2>2. m \in Models
    BY <2>1, RoutesAssumption DEF ResolveModel
  <2>3. /\ PoolKept' /\ (raced => raced')
        /\ Got(m) \in 0..MaxClients /\ (Got(m) \in gone => raced')
    BY <1>2, <2>1, <2>2, GetKeeps
  <2>4. CASE m \notin Catalogued
    <3>1. req' = [req EXCEPT ![r] = [req[r] EXCEPT !.phase = "failing", !.told = "message"]]
      BY <2>1, <2>4 DEF Failing
    <3>2. QED
      BY <1>1, <2>3, <3>1, ToldKeeps
  <2>5. CASE m \in Catalogued
    <3> DEFINE c == Got(m)
               dead == c \in gone
    <3>1. dead \in BOOLEAN
      OBVIOUS
    <3> DEFINE q == [req[r] EXCEPT !.phase = "hook", !.client = c, !.dead = dead]
    <3>2. req' = [req EXCEPT ![r] = q]
      BY <2>1, <2>5
    <3>3. c \in 0..MaxClients /\ (dead => raced')
      BY <2>3
    <3> HIDE DEF c, dead
    <3>4. q \in ServedRecord
      BY <1>2, <3>1, <3>3 DEF ServedRecord
    <3>5. q.phase = "hook" /\ q.body = req[r].body
      BY <1>2 DEF ServedRecord
    <3>6. q.dead = dead
      BY <1>2 DEF ServedRecord
    <3> HIDE DEF q
    <3>7. q.body = NewBody
      BY <1>1, <1>2, <3>5 DEF ServedSound
    <3>8. ServedSound(q, SaysDone)
      BY <3>4, <3>5, <3>7, Bodiless
    <3>9. QED
      BY <1>1, <2>3, <3>2, <3>3, <3>4, <3>6, <3>8, OneServed
  <2>6. QED
    BY <2>4, <2>5
<1>5. QED
  BY <1>3, <1>4

(* A request with a body.                                                  *)
LEMMA Embodied ==
  ASSUME NEW q \in ServedRecord, NEW d, BodySound(q.body, d), q.body.seen <= 1, q.told = "stream",
         q.phase \in {"streaming", "reporting", "over"},
         q.phase \in {"streaming", "reporting"} => q.body.state \in {"open", "cancelled"},
         q.phase = "streaming" => q.body.seen = 0,
         q.phase = "reporting" => d = 0,
         q.phase = "over" => q.body.state # "open"
  PROVE  ServedSound(q, d)
BY DEF ServedSound

LEMMA HookPassesKeeps ==
  ASSUME RoutesIInv, NEW r \in Served, HookPasses(r)
  PROVE  RoutesIInv'
<1>1. req[r].phase = "hook" /\ route' = route /\ UNCHANGED poolVars
  BY DEF HookPasses, Phase
<1>2. /\ req[r] \in ServedRecord /\ ServedSound(req[r], SaysDone) /\ PoolKept /\ (req[r].dead => raced)
  BY RequestTaken
<1>3. PoolKept' /\ raced' = raced
  BY <1>1, <1>2, StillKept
<1>4. CASE req' = [req EXCEPT ![r].phase = "completing"]
  <2>1. req' = [req EXCEPT ![r] = [req[r] EXCEPT !.phase = "completing"]]
    BY <1>4
  <2>2. QED
    BY <1>1, <1>3, <2>1, PhaseKeeps
<1>5. CASE req' = [req EXCEPT ![r].phase = "streaming", ![r].told = "stream", ![r].body.state = "open"]
  <2> DEFINE b == [req[r].body EXCEPT !.state = "open"]
             q == [req[r] EXCEPT !.phase = "streaming", !.told = "stream", !.body = b]
  <2>1. req' = [req EXCEPT ![r] = q]
    BY <1>5
  <2>2. req[r].body = NewBody
    BY <1>1, <1>2 DEF ServedSound
  <2>3. b \in BodyRecord
    BY <2>2, NewBodySound DEF BodyRecord
  <2>4. BodySound(b, SaysDone)
    BY <2>2, NewBodySound
  <2>5. b.state = "open" /\ b.seen = 0
    BY <2>2 DEF NewBody
  <2> HIDE DEF b
  <2>6. q \in ServedRecord
    BY <1>2, <2>3 DEF ServedRecord
  <2>7. q.phase = "streaming" /\ q.told = "stream" /\ q.body = b
    BY <1>2 DEF ServedRecord
  <2>8. q.dead = req[r].dead
    BY <1>2 DEF ServedRecord
  <2> HIDE DEF q
  <2>9. ServedSound(q, SaysDone)
    BY <2>4, <2>5, <2>6, <2>7, Embodied
  <2>10. QED
    BY <1>1, <1>2, <1>3, <2>1, <2>6, <2>8, <2>9, OneServed
<1>6. QED
  BY <1>4, <1>5 DEF HookPasses

(* Steps of a body.                                                        *)
LEMMA BodyAlike ==
  ASSUME NEW b, NEW c, NEW d, BodySound(b, d), Unended(c) = Unended(b),
         c.starts = b.starts, c.ends = b.ends,
         c.finals = IF c.state = "closed" THEN d ELSE 0, c.failed => c.state = "closed"
  PROVE  BodySound(c, d)
BY DEF BodySound

LEMMA BodyMoves ==
  ASSUME RoutesIInv, NEW r \in Served, req[r].told = "stream",
         NEW p \in {"streaming", "reporting", "over"}, NEW b \in BodyRecord,
         req' = [req EXCEPT ![r] = [req[r] EXCEPT !.phase = p, !.body = b]],
         BodySound(b, SaysDone), b.seen <= 1,
         p \in {"streaming", "reporting"} => b.state \in {"open", "cancelled"},
         p = "streaming" => b.seen = 0,
         p = "reporting" => SaysDone = 0,
         p = "over" => b.state # "open",
         UNCHANGED poolVars, route' = route
  PROVE  RoutesIInv'
<1> DEFINE q == [req[r] EXCEPT !.phase = p, !.body = b]
<1>1. /\ req[r] \in ServedRecord /\ PoolKept /\ (req[r].dead => raced)
  BY RequestTaken
<1>2. PoolKept' /\ raced' = raced
  BY <1>1, StillKept
<1>3. q \in ServedRecord
  BY <1>1 DEF ServedRecord
<1>4. q.phase = p /\ q.body = b /\ q.told = req[r].told
  BY <1>1 DEF ServedRecord
<1>5. q.dead = req[r].dead
  BY <1>1 DEF ServedRecord
<1>6. req' = [req EXCEPT ![r] = q]
  OBVIOUS
<1> HIDE DEF q
<1>7. ServedSound(q, SaysDone)
  BY <1>3, <1>4, Embodied
<1>8. QED
  BY <1>1, <1>2, <1>3, <1>5, <1>6, <1>7, OneServed

(* What is written to an open body.                                        *)
LEMMA WriteToolSound ==
  ASSUME NEW b \in BodyRecord, NEW d, BodySound(b, d), b.state = "open",
         NEW id \in ToolIds, NEW last \in BOOLEAN
  PROVE  /\ WriteTool(b, id, last) \in BodyRecord /\ BodySound(WriteTool(b, id, last), d)
         /\ WriteTool(b, id, last).state = "open" /\ WriteTool(b, id, last).seen = b.seen
<1> DEFINE s == IF id \in b.pending THEN b.starts[id] ELSE b.starts[id] + 1
           e == IF last THEN b.ends[id] + 1 ELSE b.ends[id]
           p == IF last THEN b.pending \ {id} ELSE b.pending \cup {id}
           c == WriteTool(b, id, last)
           S == [b.starts EXCEPT ![id] = s]
           E == [b.ends EXCEPT ![id] = e]
<1>1. c = [b EXCEPT !.starts = S, !.ends = E, !.pending = p]
  BY DEF WriteTool
<1>2. /\ b.starts \in [ToolIds -> Nat] /\ b.ends \in [ToolIds -> Nat] /\ b.pending \in SUBSET ToolIds
      /\ b.finals = 0 /\ \A i \in ToolIds : b.starts[i] = b.ends[i] + (IF i \in b.pending THEN 1 ELSE 0)
  BY BodyFields DEF BodySound, Unended
<1>3. s \in Nat /\ e \in Nat /\ p \in SUBSET ToolIds
  BY <1>2
<1>4. s = e + (IF id \in p THEN 1 ELSE 0)
  <2>1. b.starts[id] = b.ends[id] + (IF id \in b.pending THEN 1 ELSE 0) /\ b.starts[id] \in Nat /\ b.ends[id] \in Nat
    BY <1>2
  <2>2. QED
    BY <2>1
<1>5. \A i \in ToolIds : i # id => (i \in p <=> i \in b.pending)
  OBVIOUS
<1> HIDE DEF s, e, p
<1>6. S \in [ToolIds -> Nat] /\ E \in [ToolIds -> Nat] /\ S[id] = s /\ E[id] = e
      /\ \A i \in ToolIds : i # id => S[i] = b.starts[i] /\ E[i] = b.ends[i]
  BY <1>2, <1>3
<1> HIDE DEF S, E, c
<1>7. c \in BodyRecord
  BY <1>1, <1>3, <1>6 DEF BodyRecord
<1>8. c.starts = S /\ c.ends = E /\ c.pending = p /\ c.state = "open" /\ c.finals = 0 /\ c.seen = b.seen
  BY <1>1, <1>2 DEF BodyRecord
<1>9. ASSUME NEW i \in ToolIds
      PROVE  c.starts[i] = c.ends[i] + (IF i \in Unended(c) THEN 1 ELSE 0)
  <2>1. Unended(c) = p
    BY <1>8 DEF Unended
  <2>2. CASE i = id
    BY <1>4, <1>6, <1>8, <2>1, <2>2
  <2>3. CASE i # id
    BY <1>2, <1>5, <1>6, <1>8, <2>1, <2>3
  <2>4. QED
    BY <2>2, <2>3
<1>10. ~c.failed
  <2>1. c.failed = b.failed
    BY <1>1 DEF BodyRecord
  <2>2. QED
    BY <2>1 DEF BodySound
<1>11. BodySound(c, d)
  BY <1>8, <1>9, <1>10 DEF BodySound
<1>12. QED
  BY <1>7, <1>8, <1>11 DEF c

(* One more chunk is pulled for it.                                        *)
LEMMA CountedSound ==
  ASSUME NEW b \in BodyRecord, NEW d, BodySound(b, d), NEW c, c = [b EXCEPT !.chunks = @ + 1]
  PROVE  /\ c \in BodyRecord /\ BodySound(c, d)
         /\ c.state = b.state /\ c.seen = b.seen /\ c.chunks = b.chunks + 1
<1>1. b.chunks + 1 \in Nat
  BY BodyFields
<1>2. c \in BodyRecord
  BY <1>1 DEF BodyRecord
<1>3. /\ c.state = b.state /\ c.starts = b.starts /\ c.ends = b.ends /\ c.pending = b.pending
      /\ c.finals = b.finals /\ c.seen = b.seen /\ c.chunks = b.chunks + 1
  BY DEF BodyRecord
<1>4. c.failed = b.failed
  BY DEF BodyRecord
<1>5. Unended(c) = Unended(b)
  BY <1>3, <1>4 DEF Unended
<1>6. BodySound(c, d)
  BY <1>3, <1>4, <1>5 DEF BodySound
<1>7. QED
  BY <1>2, <1>3, <1>6

LEMMA BrokenSound ==
  ASSUME NEW b \in BodyRecord, NEW d \in Nat, BodySound(b, d), b.state \in {"open", "cancelled"}
  PROVE  /\ Broken(b, d) \in BodyRecord /\ BodySound(Broken(b, d), d)
         /\ Broken(b, d).state # "open" /\ Broken(b, d).seen = b.seen
         /\ b.state = "cancelled" => Broken(b, d) = b
<1>1. CASE b.state = "cancelled"
  BY <1>1 DEF Broken
<1>2. CASE b.state = "open"
  <2> DEFINE c == Broken(b, d)
             f == b.finals + d
             t == TRUE
  <2>1. c = [b EXCEPT !.state = "closed", !.failed = t, !.finals = f]
    BY <1>2 DEF Broken
  <2>2. b.finals = 0 /\ f = d /\ f \in Nat /\ t \in BOOLEAN /\ t
    BY <1>2 DEF BodySound
  <2> HIDE DEF c, f, t
  <2>3. c \in BodyRecord
    BY <2>1, <2>2 DEF BodyRecord
  <2>4. /\ c.state = "closed" /\ c.starts = b.starts /\ c.ends = b.ends /\ c.pending = b.pending
        /\ c.seen = b.seen
    BY <2>1 DEF BodyRecord
  <2>5. c.finals = d
    BY <2>1, <2>2 DEF BodyRecord
  <2>6. c.failed = t
    BY <2>1 DEF BodyRecord
  <2>7. Unended(c) = b.pending /\ Unended(b) = b.pending
    BY <1>2, <2>2, <2>4, <2>6 DEF Unended
  <2>8. BodySound(c, d)
    BY <2>4, <2>5, <2>7, BodyAlike
  <2>9. QED
    BY <1>2, <2>3, <2>4, <2>8 DEF c
<1>3. QED
  BY <1>1, <1>2

LEMMA SameFields ==
  ASSUME NEW q \in ServedRecord, NEW p, NEW b, NEW n
  PROVE  /\ [q EXCEPT !.phase = p, !.body = q.body] = [q EXCEPT !.phase = p]
         /\ [q EXCEPT !.phase = q.phase, !.body = b] = [q EXCEPT !.body = b]
         /\ [q.body EXCEPT !.chunks = n, !.seen = q.body.seen] = [q.body EXCEPT !.chunks = n]
<1>1. [q EXCEPT !.phase = p, !.body = q.body] = [q EXCEPT !.phase = p]
  BY DEF ServedRecord
<1>2. [q EXCEPT !.phase = q.phase, !.body = b] = [q EXCEPT !.body = b]
  BY DEF ServedRecord
<1>3. q.body \in BodyRecord
  BY ServedFields
<1>4. [q.body EXCEPT !.chunks = n, !.seen = q.body.seen] = [q.body EXCEPT !.chunks = n]
  BY <1>3 DEF BodyRecord
<1>5. QED
  BY <1>1, <1>2, <1>4

(* A request that streams, and one whose body is still there.              *)
LEMMA Streams ==
  ASSUME RoutesIInv, NEW r \in Served
  PROVE  /\ req[r] \in ServedRecord /\ req[r].body \in BodyRecord
         /\ BodySound(req[r].body, SaysDone) /\ req[r].body.seen \in 0..1
         /\ req[r].body.chunks \in Nat /\ SaysDone \in Nat
         /\ req[r].phase \in {"streaming", "reporting"} =>
              req[r].told = "stream" /\ req[r].body.state \in {"open", "cancelled"}
         /\ req[r].phase = "streaming" => req[r].body.seen = 0
         /\ req[r].phase = "reporting" => SaysDone = 0
         /\ req[r].body.state = "open" => req[r].phase \in {"streaming", "reporting"}
<1>1. req[r] \in ServedRecord /\ ServedSound(req[r], SaysDone)
  BY RequestTaken
<1>2. req[r].body \in BodyRecord
  BY <1>1, ServedFields
<1>3. req[r].body.seen \in Nat /\ req[r].body.chunks \in Nat
  BY <1>2, BodyFields
<1>4. SaysDone \in Nat
  BY SaysDoneIs
<1>5. req[r].body.state = "open" => req[r].phase \in {"streaming", "reporting"}
  BY <1>1, ServedFields, NewBodySound DEF ServedSound
<1>6. QED
  BY <1>1, <1>2, <1>3, <1>4, <1>5 DEF ServedSound

LEMMA BodyStays ==
  ASSUME RoutesIInv, NEW r \in Served, req[r].phase \in {"streaming", "reporting"}, NEW b \in BodyRecord,
         req' = [req EXCEPT ![r] = [req[r] EXCEPT !.body = b]],
         BodySound(b, SaysDone), b.state \in {"open", "cancelled"}, b.seen = req[r].body.seen,
         UNCHANGED poolVars, route' = route
  PROVE  RoutesIInv'
<1> DEFINE p == req[r].phase
<1>1. req' = [req EXCEPT ![r] = [req[r] EXCEPT !.phase = p, !.body = b]]
  <2>1. [req[r] EXCEPT !.phase = p, !.body = b] = [req[r] EXCEPT !.body = b]
    BY Streams, SameFields, Zenon
  <2>2. QED
    BY <2>1, Zenon
<1>2. p \in {"streaming", "reporting", "over"} /\ p # "over"
  OBVIOUS
<1>3. /\ req[r].told = "stream" /\ b.seen <= 1
      /\ p = "streaming" => b.seen = 0
      /\ p = "reporting" => SaysDone = 0
  BY Streams
<1> HIDE DEF p
<1>4. QED
  BY <1>1, <1>2, <1>3, BodyMoves

LEMMA BreakKeeps ==
  ASSUME RoutesIInv, NEW r \in Served, req[r].phase = "streaming", req' = BreakBody(r),
         UNCHANGED poolVars, route' = route
  PROVE  RoutesIInv'
<1>1. /\ req[r] \in ServedRecord /\ req[r].body \in BodyRecord /\ SaysDone \in Nat
      /\ BodySound(req[r].body, SaysDone) /\ req[r].body.seen = 0 /\ req[r].told = "stream"
      /\ req[r].body.state \in {"open", "cancelled"}
  BY Streams
<1>2. CASE route.writer \in {"lines", "text"}
  <2> DEFINE p == "reporting"  b == req[r].body
  <2>1. req' = [req EXCEPT ![r] = [req[r] EXCEPT !.phase = p]]
    BY <1>2, Zenon DEF BreakBody
  <2>2. [req[r] EXCEPT !.phase = p, !.body = b] = [req[r] EXCEPT !.phase = p]
    BY <1>1, SameFields
  <2>3. SaysDone = 0
    BY <1>2, SaysDoneIs
  <2>4. req' = [req EXCEPT ![r] = [req[r] EXCEPT !.phase = p, !.body = b]]
    BY <2>1, <2>2
  <2>5. /\ p \in {"streaming", "reporting", "over"} /\ b \in BodyRecord /\ BodySound(b, SaysDone)
        /\ b.seen <= 1 /\ b.state \in {"open", "cancelled"} /\ p # "streaming" /\ p # "over"
    BY <1>1
  <2> HIDE DEF p, b
  <2>6. QED
    BY <1>1, <2>3, <2>4, <2>5, BodyMoves
<1>3. CASE ~(route.writer \in {"lines", "text"})
  <2> DEFINE p == "over"  b == Broken(req[r].body, SaysDone)
  <2>1. req' = [req EXCEPT ![r] = [req[r] EXCEPT !.phase = p, !.body = b]]
    BY <1>3 DEF BreakBody
  <2>2. b \in BodyRecord /\ BodySound(b, SaysDone) /\ b.state # "open" /\ b.seen <= 1
    BY <1>1, BrokenSound
  <2>3. p \in {"streaming", "reporting", "over"} /\ p # "streaming" /\ p # "reporting"
    OBVIOUS
  <2> HIDE DEF p, b
  <2>4. QED
    BY <1>1, <2>1, <2>2, <2>3, BodyMoves
<1>4. QED
  BY <1>2, <1>3

(* A chunk for a body that was cancelled: the break, with its count.       *)
LEMMA BreakCounted ==
  ASSUME RoutesIInv, NEW r \in Served, req[r].phase = "streaming", req[r].body.state = "cancelled",
         NEW n \in Nat,
         req' = [BreakBody(r) EXCEPT ![r].body.chunks = n, ![r].body.seen = @ + 1],
         UNCHANGED poolVars, route' = route
  PROVE  RoutesIInv'
<1> DEFINE k == req[r].body.seen + 1
           b == [req[r].body EXCEPT !.chunks = n, !.seen = k]
           p == IF route.writer \in {"lines", "text"} THEN "reporting" ELSE "over"
<1>1. /\ req[r] \in ServedRecord /\ req[r].body \in BodyRecord /\ SaysDone \in Nat
      /\ BodySound(req[r].body, SaysDone) /\ k = 1 /\ req[r].told = "stream"
      /\ req \in [Served -> ServedRecord]
  BY Streams, RequestTaken
<1>2. BreakBody(r) = [req EXCEPT ![r] = [req[r] EXCEPT !.phase = p]]
  <2>1. CASE route.writer \in {"lines", "text"}
    BY <2>1 DEF BreakBody
  <2>2. CASE ~(route.writer \in {"lines", "text"})
    <3>1. Broken(req[r].body, SaysDone) = req[r].body
      BY DEF Broken
    <3>2. BreakBody(r) = [req EXCEPT ![r] = [req[r] EXCEPT !.phase = "over", !.body = req[r].body]]
      BY <2>2, <3>1, Zenon DEF BreakBody
    <3>3. [req[r] EXCEPT !.phase = "over", !.body = req[r].body] = [req[r] EXCEPT !.phase = "over"]
      BY <1>1, SameFields, Zenon
    <3>4. QED
      BY <2>2, <3>2, <3>3
  <2>3. QED
    BY <2>1, <2>2
<1> DEFINE q == [req[r] EXCEPT !.phase = p]
<1>3. q.body = req[r].body
  BY <1>1 DEF ServedRecord
<1>4. req' = [req EXCEPT ![r] = [q EXCEPT !.body = [q.body EXCEPT !.chunks = n, !.seen = @ + 1]]]
  <2> DEFINE f == BreakBody(r)
  <2>1. f = [req EXCEPT ![r] = q]
    BY <1>2
  <2>2. f[r] = q
    BY <1>1, <2>1
  <2>3. req' = [f EXCEPT ![r] = [f[r] EXCEPT !.body = [f[r].body EXCEPT !.chunks = n, !.seen = @ + 1]]]
    OBVIOUS
  <2> HIDE DEF f, q
  <2>4. req' = [f EXCEPT ![r] = [q EXCEPT !.body = [q.body EXCEPT !.chunks = n, !.seen = @ + 1]]]
    BY <2>2, <2>3
  <2>5. QED
    BY <2>1, <2>4
<1>5. req' = [req EXCEPT ![r] = [q EXCEPT !.body = b]]
  BY <1>3, <1>4
<1>6. req' = [req EXCEPT ![r] = [req[r] EXCEPT !.phase = p, !.body = b]]
  BY <1>5
<1>7. b \in BodyRecord /\ BodySound(b, SaysDone) /\ b.state = "cancelled" /\ b.seen = k
  <2> DEFINE a == req[r].body
  <2>1. k \in Nat /\ a \in BodyRecord /\ BodySound(a, SaysDone) /\ a.state = "cancelled"
    BY <1>1
  <2>2. b = [a EXCEPT !.chunks = n, !.seen = k]
    OBVIOUS
  <2> HIDE DEF k, a, b
  <2>3. b \in BodyRecord
    BY <2>1, <2>2 DEF BodyRecord
  <2>4. /\ b.state = a.state /\ b.starts = a.starts /\ b.ends = a.ends /\ b.pending = a.pending
        /\ b.finals = a.finals /\ b.seen = k
    BY <2>1, <2>2 DEF BodyRecord
  <2>5. Unended(b) = Unended(a) /\ ~b.failed
    <3>1. b.failed = a.failed
      BY <2>1, <2>2 DEF BodyRecord
    <3>2. QED
      BY <2>1, <2>4, <3>1 DEF Unended, BodySound
  <2>6. b.finals = IF b.state = "closed" THEN SaysDone ELSE 0
    BY <2>1, <2>4 DEF BodySound
  <2>7. BodySound(b, SaysDone)
    BY <2>1, <2>4, <2>5, <2>6, BodyAlike
  <2>8. QED
    BY <2>1, <2>3, <2>4, <2>7
<1>8. p \in {"streaming", "reporting", "over"} /\ p # "streaming" /\ (p = "reporting" => SaysDone = 0)
  BY SaysDoneIs
<1>9. b.seen <= 1 /\ req[r].told = "stream"
  BY <1>1, <1>7
<1> HIDE DEF p, b, k, q
<1>10. QED
  BY <1>6, <1>7, <1>8, <1>9, BodyMoves

LEMMA WriteChunkKeeps ==
  ASSUME RoutesIInv, NEW r \in Served, NEW ids \in SUBSET ToolIds, NEW last \in BOOLEAN,
         WriteChunk(r, ids, last)
  PROVE  RoutesIInv'
<1> DEFINE b == [req[r].body EXCEPT !.chunks = @ + 1]
<1>1. req[r].phase = "streaming" /\ UNCHANGED poolVars /\ route' = route
  BY DEF WriteChunk, Phase
<1>2. /\ req[r].body \in BodyRecord /\ BodySound(req[r].body, SaysDone)
      /\ req[r].body.state \in {"open", "cancelled"} /\ req[r].body.chunks \in Nat
  BY <1>1, Streams
<1>3. /\ b \in BodyRecord /\ BodySound(b, SaysDone)
      /\ b.state = req[r].body.state /\ b.seen = req[r].body.seen
      /\ b.chunks = req[r].body.chunks + 1
  BY <1>2, CountedSound
<1>4. IF b.state = "open"
      THEN \/ ids = {} /\ req' = [req EXCEPT ![r].body = b]
           \/ \E id \in ids : route.writer = "sse" /\ req' = [req EXCEPT ![r].body = WriteTool(b, id, last)]
      ELSE req' = [BreakBody(r) EXCEPT ![r].body.chunks = b.chunks, ![r].body.seen = @ + 1]
  BY DEF WriteChunk, Body, WithBody
<1> HIDE DEF b
<1>5. CASE b.state = "open" /\ req' = [req EXCEPT ![r].body = b]
  <2>1. req' = [req EXCEPT ![r] = [req[r] EXCEPT !.body = b]]
    BY <1>5
  <2>2. QED
    BY <1>1, <1>3, <1>5, <2>1, BodyStays
<1>6. CASE b.state = "open" /\ \E id \in ids : req' = [req EXCEPT ![r].body = WriteTool(b, id, last)]
  <2>1. PICK id \in ids : req' = [req EXCEPT ![r].body = WriteTool(b, id, last)]
    BY <1>6
  <2> DEFINE c == WriteTool(b, id, last)
  <2>2. c \in BodyRecord /\ BodySound(c, SaysDone) /\ c.state = "open" /\ c.seen = b.seen
    BY <1>3, <1>6, WriteToolSound
  <2>3. req' = [req EXCEPT ![r] = [req[r] EXCEPT !.body = c]]
    BY <2>1
  <2> HIDE DEF c
  <2>4. c.state \in {"open", "cancelled"} /\ c.seen = req[r].body.seen
    BY <1>3, <2>2
  <2>5. QED
    BY <1>1, <2>2, <2>3, <2>4, BodyStays
<1>7. CASE b.state # "open"
  <2>1. req[r].body.state = "cancelled"
    BY <1>2, <1>3, <1>7
  <2>2. b.chunks \in Nat
    BY <1>2, <1>3
  <2> DEFINE n == b.chunks
  <2>3. req' = [BreakBody(r) EXCEPT ![r].body.chunks = n, ![r].body.seen = @ + 1]
    BY <1>4, <1>7
  <2>4. n \in Nat
    BY <2>2
  <2> HIDE DEF n
  <2>5. QED
    BY <1>1, <2>1, <2>3, <2>4, BreakCounted
<1>8. QED
  BY <1>4, <1>5, <1>6, <1>7

LEMMA SkipChunkKeeps ==
  ASSUME RoutesIInv, NEW r \in Served, SkipChunk(r)
  PROVE  RoutesIInv'
<1> DEFINE b == [req[r].body EXCEPT !.chunks = @ + 1]
<1>1. req[r].phase = "streaming" /\ UNCHANGED poolVars /\ route' = route
  BY DEF SkipChunk, Phase
<1>2. /\ req[r].body \in BodyRecord /\ BodySound(req[r].body, SaysDone)
      /\ req[r].body.state \in {"open", "cancelled"}
  BY <1>1, Streams
<1>3. /\ b \in BodyRecord /\ BodySound(b, SaysDone)
      /\ b.state = req[r].body.state /\ b.seen = req[r].body.seen
  BY <1>2, CountedSound
<1>4. req' = [req EXCEPT ![r] = [req[r] EXCEPT !.body = b]]
  BY DEF SkipChunk
<1> HIDE DEF b
<1>5. QED
  BY <1>1, <1>2, <1>3, <1>4, BodyStays

LEMMA CancelBodyKeeps ==
  ASSUME RoutesIInv, NEW r \in Served, CancelBody(r)
  PROVE  RoutesIInv'
<1> DEFINE a == req[r].body
           b == [a EXCEPT !.state = "cancelled"]
<1>1. a.state = "open" /\ UNCHANGED poolVars /\ route' = route
  BY DEF CancelBody, Body
<1>2. /\ a \in BodyRecord /\ BodySound(a, SaysDone) /\ req[r].phase \in {"streaming", "reporting"}
  BY <1>1, Streams
<1>3. req' = [req EXCEPT ![r] = [req[r] EXCEPT !.body = b]]
  BY DEF CancelBody
<1>4. b \in BodyRecord
  BY <1>2 DEF BodyRecord
<1>5. /\ b.state = "cancelled" /\ b.starts = a.starts /\ b.ends = a.ends /\ b.pending = a.pending
      /\ b.finals = a.finals /\ b.seen = a.seen
  BY <1>2 DEF BodyRecord
<1>6. a.finals = 0 /\ ~b.failed
  <2>1. b.failed = a.failed
    BY <1>2 DEF BodyRecord
  <2>2. QED
    BY <1>1, <1>2, <2>1 DEF BodySound
<1>7. Unended(b) = Unended(a)
  BY <1>1, <1>5 DEF Unended
<1> HIDE DEF b
<1>8. BodySound(b, SaysDone)
  BY <1>2, <1>5, <1>6, <1>7, BodyAlike
<1>9. b.state \in {"open", "cancelled"} /\ b.seen = req[r].body.seen
  BY <1>5
<1>10. QED
  BY <1>1, <1>2, <1>3, <1>4, <1>8, <1>9, BodyStays

LEMMA SourceThrowsKeeps ==
  ASSUME RoutesIInv, NEW r \in Served, SourceThrows(r)
  PROVE  RoutesIInv'
<1>1. req[r].phase = "streaming" /\ req' = BreakBody(r) /\ UNCHANGED poolVars /\ route' = route
  BY DEF SourceThrows, Phase
<1>2. QED
  BY <1>1, BreakKeeps

LEMMA StreamErrorKeeps ==
  ASSUME RoutesIInv, NEW r \in Served, StreamErrorReported(r)
  PROVE  RoutesIInv'
<1> DEFINE b == Broken(req[r].body, 0)
           p == "over"
<1>1. req[r].phase = "reporting" /\ UNCHANGED poolVars /\ route' = route
  BY DEF StreamErrorReported, Phase
<1>2. /\ req[r].body \in BodyRecord /\ BodySound(req[r].body, SaysDone) /\ SaysDone = 0
      /\ req[r].body.state \in {"open", "cancelled"} /\ req[r].body.seen \in 0..1
      /\ req[r].told = "stream"
  BY <1>1, Streams
<1>3. b \in BodyRecord /\ BodySound(b, SaysDone) /\ b.state # "open" /\ b.seen = req[r].body.seen
  BY <1>2, BrokenSound
<1>4. req' = [req EXCEPT ![r] = [req[r] EXCEPT !.phase = p, !.body = b]]
  BY DEF StreamErrorReported
<1>5. p \in {"streaming", "reporting", "over"} /\ p # "streaming" /\ p # "reporting" /\ b.seen <= 1
  BY <1>2, <1>3
<1> HIDE DEF b, p
<1>6. QED
  BY <1>1, <1>2, <1>3, <1>4, <1>5, BodyMoves

(* The flush ends each pending call once.                                  *)
LEMMA FlushSound ==
  ASSUME NEW b \in BodyRecord, NEW d \in Nat, BodySound(b, d), b.state = "open",
         NEW E, E = [i \in ToolIds |-> IF i \in b.pending THEN b.ends[i] + 1 ELSE b.ends[i]],
         NEW c, c = [b EXCEPT !.state = "closed", !.finals = @ + d, !.ends = E]
  PROVE  c \in BodyRecord /\ BodySound(c, d) /\ c.state = "closed" /\ c.seen = b.seen
<1>1. /\ b.starts \in [ToolIds -> Nat] /\ b.ends \in [ToolIds -> Nat] /\ b.pending \in SUBSET ToolIds
      /\ b.finals = 0 /\ \A i \in ToolIds : b.starts[i] = b.ends[i] + (IF i \in b.pending THEN 1 ELSE 0)
  BY BodyFields DEF BodySound, Unended
<1>2. E \in [ToolIds -> Nat]
  BY <1>1
<1>3. \A i \in ToolIds : E[i] = b.starts[i]
  <2>1. ASSUME NEW i \in ToolIds PROVE E[i] = b.starts[i]
    <3>1. b.ends[i] \in Nat /\ E[i] = IF i \in b.pending THEN b.ends[i] + 1 ELSE b.ends[i]
      BY <1>1
    <3>2. QED
      BY <1>1, <3>1
  <2>2. QED
    BY <2>1
<1>4. b.finals + d = d
  BY <1>1
<1>5. c = [b EXCEPT !.state = "closed", !.finals = d, !.ends = E]
  BY <1>4
<1>6. c \in BodyRecord
  BY <1>2, <1>5 DEF BodyRecord
<1>7. c.state = "closed" /\ c.starts = b.starts /\ c.ends = E /\ c.finals = d /\ c.seen = b.seen
      /\ c.pending = b.pending
  BY <1>5 DEF BodyRecord
<1>8. c.failed = b.failed
  BY <1>5 DEF BodyRecord
<1>9. \A i \in ToolIds : c.starts[i] = c.ends[i] + (IF i \in Unended(c) THEN 1 ELSE 0)
  <2>1. ASSUME NEW i \in ToolIds, i \notin Unended(c)
        PROVE  c.starts[i] = c.ends[i] + (IF i \in Unended(c) THEN 1 ELSE 0)
    <3>1. c.starts[i] = c.ends[i] /\ c.ends[i] \in Nat
      BY <1>2, <1>3, <1>7
    <3>2. QED
      BY <2>1, <3>1
  <2>2. ~c.failed
    BY <1>8 DEF BodySound
  <2>3. Unended(c) = {}
    BY <1>7, <2>2 DEF Unended
  <2>4. QED
    BY <2>1, <2>3
<1>10. BodySound(c, d)
  BY <1>7, <1>9 DEF BodySound
<1>11. QED
  BY <1>6, <1>7, <1>10

LEMMA SourceEndsKeeps ==
  ASSUME RoutesIInv, NEW r \in Served, SourceEnds(r)
  PROVE  RoutesIInv'
<1> DEFINE a == req[r].body
           p == "over"
<1>1. req[r].phase = "streaming" /\ UNCHANGED poolVars /\ route' = route
  BY DEF SourceEnds, Phase
<1>2. /\ a \in BodyRecord /\ BodySound(a, SaysDone) /\ SaysDone \in Nat /\ req[r] \in ServedRecord
      /\ a.state \in {"open", "cancelled"} /\ a.seen = 0 /\ req[r].told = "stream"
  BY <1>1, Streams
<1>3. p \in {"streaming", "reporting", "over"} /\ p # "streaming" /\ p # "reporting"
  OBVIOUS
<1>4. CASE a.state = "open"
  <2> DEFINE d == SaysDone
             E == [i \in ToolIds |-> IF i \in a.pending THEN a.ends[i] + 1 ELSE a.ends[i]]
             c == [a EXCEPT !.state = "closed", !.finals = @ + d, !.ends = E]
  <2>1. req' = [req EXCEPT ![r].phase = p, ![r].body.state = "closed", ![r].body.finals = @ + d,
                           ![r].body.ends = E]
    BY <1>4 DEF SourceEnds, Body
  <2>2. req' = [req EXCEPT ![r] = [req[r] EXCEPT !.phase = p, !.body = c]]
    BY <2>1, ZenonT(30)
  <2>3. c \in BodyRecord /\ BodySound(c, SaysDone) /\ c.state = "closed" /\ c.seen = 0
    <3>1. \A F : F = E => \A g : g = [a EXCEPT !.state = "closed", !.finals = @ + d, !.ends = F] =>
            g \in BodyRecord /\ BodySound(g, d) /\ g.state = "closed" /\ g.seen = a.seen
      BY <1>2, <1>4, FlushSound
    <3>2. QED
      BY <1>2, <3>1
  <2>4. c.seen <= 1 /\ c.state # "open"
    BY <2>3
  <2> HIDE DEF c, p
  <2>5. QED
    BY <1>1, <1>2, <1>3, <2>2, <2>3, <2>4, BodyMoves
<1>5. CASE a.state # "open" /\ SaysDone = 1
  <2>1. req' = BreakBody(r)
    BY <1>5 DEF SourceEnds, Body
  <2>2. QED
    BY <1>1, <2>1, BreakKeeps
<1>6. CASE a.state # "open" /\ SaysDone # 1
  <2>1. req' = [req EXCEPT ![r] = [req[r] EXCEPT !.phase = p]]
    BY <1>6, Zenon DEF SourceEnds, Body
  <2>2. [req[r] EXCEPT !.phase = p, !.body = a] = [req[r] EXCEPT !.phase = p]
    BY <1>2, SameFields, Zenon
  <2>3. req' = [req EXCEPT ![r] = [req[r] EXCEPT !.phase = p, !.body = a]]
    BY <2>1, <2>2
  <2>4. a.seen <= 1
    BY <1>2
  <2> HIDE DEF a, p
  <2>5. QED
    BY <1>1, <1>2, <1>3, <1>6, <2>3, <2>4, BodyMoves
<1>7. QED
  BY <1>4, <1>5, <1>6

LEMMA RoutesStart == RoutesInit => RoutesIInv
<1> SUFFICES ASSUME RoutesInit
             PROVE  RoutesIInv
  OBVIOUS
<1>1. /\ route \in RouteKinds /\ cached = [m \in Models |-> {}] /\ owned = <<>> /\ gone = {}
      /\ made = 0 /\ disposing = 0 /\ raced = FALSE /\ req = [r \in Served |-> NewServed]
  BY DEF RoutesInit
<1>2. PoolKept
  <2>1. made \in 0..MaxClients
    BY <1>1, RoutesAssumption
  <2>2. owned \in Seq(1..made) /\ Len(owned) = 0 /\ DOMAIN owned = {} /\ ToSet(owned) = {}
    BY <1>1 DEF ToSet
  <2>3. cached \in [Models -> SUBSET (1..made)] /\ \A m \in Models : cached[m] = {}
    BY <1>1
  <2>4. 1..made = ToSet(owned) \cup gone
    BY <1>1, <2>2
  <2>5. disposing \in 0..(Len(owned) + 1)
    BY <1>1, <2>2
  <2>6. raced \in BOOLEAN
    BY <1>1
  <2>7. QED
    BY <2>1, <2>2, <2>3, <2>4, <2>5, <2>6 DEF PoolKept
<1>3. NewServed \in ServedRecord /\ ServedSound(NewServed, SaysDone) /\ ~NewServed.dead
  BY NewServedSound
<1>4. \A r \in Served : req[r] = NewServed
  BY <1>1
<1>5. req \in [Served -> ServedRecord]
  BY <1>1, <1>3
<1>6. \A r \in Served : ServedSound(req[r], SaysDone) /\ (req[r].dead => raced)
  BY <1>3, <1>4
<1>7. QED
  BY <1>1, <1>2, <1>5, <1>6 DEF RoutesIInv

LEMMA PoolStep ==
  ASSUME RoutesIInv, PoolKept', UNCHANGED <<route, raced, req>>
  PROVE  RoutesIInv'
<1>1. SaysDone' = SaysDone
  BY DEF SaysDone
<1>2. route' = route /\ raced' = raced /\ req' = req
  OBVIOUS
<1>3. /\ route \in RouteKinds /\ req \in [Served -> ServedRecord]
      /\ \A r \in Served : ServedSound(req[r], SaysDone) /\ (req[r].dead => raced)
  BY DEF RoutesIInv
<1>4. (\A r \in Served : ServedSound(req[r], SaysDone) /\ (req[r].dead => raced))'
  BY <1>1, <1>2, <1>3 DEF ServedSound, BodySound
<1>5. QED
  BY <1>2, <1>3, <1>4 DEF RoutesIInv

LEMMA RoutesStep == RoutesIInv /\ [RoutesNext]_routeVars => RoutesIInv'
<1> SUFFICES ASSUME RoutesIInv, [RoutesNext]_routeVars
             PROVE  RoutesIInv'
  OBVIOUS
<1>1. PoolKept
  BY DEF RoutesIInv
<1>2. CASE UNCHANGED routeVars
  <2>1. UNCHANGED poolVars /\ UNCHANGED <<route, raced, req>>
    BY <1>2 DEF routeVars, poolVars
  <2>2. QED
    BY <1>1, <2>1, PoolStands, PoolStep
<1>3. CASE StartDispose
  <2>1. UNCHANGED <<route, raced, req>>
    BY <1>3 DEF StartDispose
  <2>2. QED
    BY <1>1, <1>3, <2>1, StartDisposeKeeps, PoolStep
<1>4. CASE DisposeNext
  <2>1. UNCHANGED <<route, raced, req>>
    BY <1>4 DEF DisposeNext
  <2>2. QED
    BY <1>1, <1>4, <2>1, DisposeNextKeeps, PoolStep
<1>5. ASSUME NEW r \in Served,
             \/ ServeRequest(r) \/ RejectBody(r) \/ HookRejects(r)
             \/ Completed(r) \/ CompletionFails(r) \/ ErrorReported(r)
      PROVE  RoutesIInv'
  BY <1>5, EarlySteps
<1>6. ASSUME NEW r \in Served, HookPasses(r) PROVE RoutesIInv'
  BY <1>6, HookPassesKeeps
<1>7. ASSUME NEW r \in Served, NEW want \in {{}} \cup {{m} : m \in Models}, AcceptBody(r, want)
      PROVE  RoutesIInv'
  BY <1>7, AcceptKeeps
<1>8. ASSUME NEW r \in Served, NEW ids \in SUBSET ToolIds, NEW last \in BOOLEAN, WriteChunk(r, ids, last)
      PROVE  RoutesIInv'
  BY <1>8, WriteChunkKeeps
<1>9. ASSUME NEW r \in Served,
             \/ SkipChunk(r) \/ SourceEnds(r) \/ SourceThrows(r) \/ StreamErrorReported(r) \/ CancelBody(r)
      PROVE  RoutesIInv'
  BY <1>9, SkipChunkKeeps, SourceEndsKeeps, SourceThrowsKeeps, StreamErrorKeeps, CancelBodyKeeps
<1>10. QED
  BY <1>2, <1>3, <1>4, <1>5, <1>6, <1>7, <1>8, <1>9 DEF RoutesNext

LEMMA RoutesImply == RoutesIInv => ResponsesWhole
<1> SUFFICES ASSUME RoutesIInv
             PROVE  ResponsesWhole
  OBVIOUS
<1>1. 1..made = ToSet(owned) \cup gone
  BY DEF RoutesIInv, PoolKept
<1>2. ASSUME NEW r \in Served
      PROVE  LET b == req[r].body IN
             /\ \A i \in ToolIds : b.starts[i] - b.ends[i] \in {0, 1}
             /\ b.state = "closed" => /\ b.finals = SaysDone
                                      /\ ~b.failed => b.starts = b.ends
             /\ b.seen <= 1
             /\ Phase(r) = "over" => req[r].told # "none" /\ b.state # "open"
             /\ req[r].dead => raced
  <2> DEFINE b == req[r].body
  <2>1. /\ req[r] \in ServedRecord /\ ServedSound(req[r], SaysDone) /\ (req[r].dead => raced)
    BY RequestTaken
  <2>2. /\ b \in BodyRecord /\ BodySound(b, SaysDone) /\ b.seen <= 1
        /\ Phase(r) = "over" => req[r].told # "none" /\ b.state # "open"
    BY <2>1, ServedFields DEF ServedSound, Phase
  <2> HIDE DEF b
  <2>3. b.starts \in [ToolIds -> Nat] /\ b.ends \in [ToolIds -> Nat]
    BY <2>2, BodyFields
  <2>4. /\ b.finals = IF b.state = "closed" THEN SaysDone ELSE 0
        /\ \A i \in ToolIds : b.starts[i] = b.ends[i] + (IF i \in Unended(b) THEN 1 ELSE 0)
    BY <2>2 DEF BodySound
  <2>5. ASSUME NEW i \in ToolIds PROVE b.starts[i] - b.ends[i] \in {0, 1}
    <3>1. b.starts[i] \in Nat /\ b.ends[i] \in Nat
      BY <2>3
    <3>2. QED
      BY <2>4, <3>1
  <2>6. ASSUME b.state = "closed", ~b.failed PROVE b.starts = b.ends
    <3>1. Unended(b) = {}
      BY <2>6 DEF Unended
    <3>2. ASSUME NEW i \in ToolIds PROVE b.starts[i] = b.ends[i]
      <4>1. b.starts[i] \in Nat /\ b.ends[i] \in Nat
        BY <2>3
      <4>2. QED
        BY <2>4, <3>1, <4>1
    <3>3. QED
      BY <2>3, <3>2
  <2>7. QED
    BY <2>1, <2>2, <2>4, <2>5, <2>6 DEF b
<1>3. QED
  BY <1>1, <1>2 DEF ResponsesWhole

----------------------------------------------------------------------------
(* From the components to the composition: in a step of ServicesNext every *)
(* component takes a step of its own or stands still.                      *)

LEMMA ServicesSteps ==
  [ServicesNext]_services =>
    /\ [AgentNext]_agentVars /\ [PluginsNext]_pluginVars
    /\ [AuthorizationNext]_accessVars /\ [ReplayNext]_replayVars
    /\ [MonitorsNext]_monitorVars /\ [ObserversNext]_observerVars
    /\ [RoutesNext]_routeVars
<1>1. ASSUME UNCHANGED services
      PROVE  /\ UNCHANGED agentVars /\ UNCHANGED pluginVars /\ UNCHANGED accessVars
             /\ UNCHANGED replayVars /\ UNCHANGED monitorVars /\ UNCHANGED observerVars
             /\ UNCHANGED routeVars
  BY <1>1 DEF services
<1>2. ASSUME ServicesNext PROVE AgentNext \/ UNCHANGED agentVars
  BY <1>2 DEF ServicesNext, Only
<1>3. ASSUME ServicesNext PROVE PluginsNext \/ UNCHANGED pluginVars
  BY <1>3 DEF ServicesNext, Only
<1>4. ASSUME ServicesNext PROVE AuthorizationNext \/ UNCHANGED accessVars
  BY <1>4 DEF ServicesNext, Only
<1>5. ASSUME ServicesNext PROVE ReplayNext \/ UNCHANGED replayVars
  BY <1>5 DEF ServicesNext, Only
<1>6. ASSUME ServicesNext PROVE MonitorsNext \/ UNCHANGED monitorVars
  BY <1>6 DEF ServicesNext, Only
<1>7. ASSUME ServicesNext PROVE ObserversNext \/ UNCHANGED observerVars
  BY <1>7 DEF ServicesNext, Only
<1>8. ASSUME ServicesNext PROVE RoutesNext \/ UNCHANGED routeVars
  BY <1>8 DEF ServicesNext, Only
<1>9. QED
  BY <1>1, <1>2, <1>3, <1>4, <1>5, <1>6, <1>7, <1>8

(* AgentsGoverned (src/features/agent): the tools a run executes are those *)
(* its permissions allow, and little is done once it must stop.            *)
THEOREM AgentsStayGoverned == ServicesSpec => []AgentsGoverned
<1>1. ServicesInit => AgentIInv
  BY AgentsStart DEF ServicesInit
<1>2. AgentIInv /\ [ServicesNext]_services => AgentIInv'
  BY AgentsStep, ServicesSteps
<1>3. AgentIInv => AgentsGoverned
  BY DEF AgentIInv, AgentsGoverned
<1>4. QED
  BY <1>1, <1>2, <1>3, PTL DEF ServicesSpec

(* RegistryCoherent (src/plugin/registry.ts): a walk of the plugin array   *)
(* calls no registration twice, in order, and passes over at most one for  *)
(* each removal; names and array agree until two add() calls overlap.      *)
THEOREM RegistryStaysCoherent == ServicesSpec => []RegistryCoherent
<1>1. ServicesInit => RegistryIInv
  BY RegistryStart DEF ServicesInit
<1>2. RegistryIInv /\ [ServicesNext]_services => RegistryIInv'
  BY RegistryStep, ServicesSteps
<1>3. QED
  BY <1>1, <1>2, RegistryImplies, PTL DEF ServicesSpec

(* AccessGoverned (src/security): what is let through is within its role,  *)
(* no rate and no purse is overdrawn wherever the clock is set, and a      *)
(* signature is accepted again only once its entry may have been evicted.  *)
THEOREM AccessStaysGoverned == ServicesSpec => []AccessGoverned
<1>1. ServicesInit => AccessIInv /\ ReplayIInv
  BY AccessStart, ReplayStart DEF ServicesInit
<1>2. AccessIInv /\ ReplayIInv /\ [ServicesNext]_services => (AccessIInv /\ ReplayIInv)'
  BY AccessStep, ReplayStep, ServicesSteps
<1>3. AccessIInv /\ ReplayIInv => AccessGoverned
  BY AccessImplies DEF ReplayIInv, AccessGoverned
<1>4. QED
  BY <1>1, <1>2, <1>3, PTL DEF ServicesSpec

(* ObservationTruthful (src/cost/alerts.ts, src/telemetry): a threshold is *)
(* alerted once and not before its time, breaches of a name are a window   *)
(* apart and none that was due is missing; an event reaches the listeners  *)
(* that stay, and the sinks that hear the same events count alike.         *)
THEOREM ObservationStaysTruthful == ServicesSpec => []ObservationTruthful
<1>1. ServicesInit => MonitorsIInv /\ ObserversIInv
  BY MonitorsStart, ObserversStart DEF ServicesInit
<1>2. MonitorsIInv /\ ObserversIInv /\ [ServicesNext]_services => (MonitorsIInv /\ ObserversIInv)'
  BY MonitorsStep, ObserversStep, ServicesSteps
<1>3. MonitorsIInv /\ ObserversIInv => ObservationTruthful
  BY MonitorsImply, ObserversImply DEF ObservationTruthful
<1>4. QED
  BY <1>1, <1>2, <1>3, PTL DEF ServicesSpec

(* ResponsesWhole (src/frameworks, src/utils/sse-writer.ts): each tool call *)
(* in a body is ended as often as it was started, [DONE] is said once, and *)
(* little is pulled for a body nobody reads; the pool loses no client.     *)
THEOREM ResponsesStayWhole == ServicesSpec => []ResponsesWhole
<1>1. ServicesInit => RoutesIInv
  BY RoutesStart DEF ServicesInit
<1>2. RoutesIInv /\ [ServicesNext]_services => RoutesIInv'
  BY RoutesStep, ServicesSteps
<1>3. QED
  BY <1>1, <1>2, RoutesImply, PTL DEF ServicesSpec
============================================================================
