------------------------------- MODULE Routing -------------------------------
(***************************************************************************)
(* Which model a call goes to: the provider registry and the routing of    *)
(* src/client/client.ts, the scores of src/router/model-router.ts, and the *)
(* fallbacks that the pipelines of src/core/execution take from them.      *)
(*                                                                         *)
(* The application adds and removes providers while a call waits for its   *)
(* answer.  Costs count in 0.0001 USD, context windows in 1000 tokens, and *)
(* scores in tenths of a point.  A call has no minContextWindow and no     *)
(* maxLatency: those belong to explain() and plan() alone.                 *)
(***************************************************************************)
EXTENDS Integers, FiniteSets, Sequences, FiniteSetsExt, TLC

CONSTANTS
  Builtin,        \* BUILTIN_MODELS: a sequence of entries
  Customs,        \* entries that addModels() may append
  MaxListed,      \* bound on the length of the router's list
  Registrations,  \* provider configurations: [name, models], models a set of ids
  Wants           \* parameters of a call

Entries == Customs \cup {Builtin[i] : i \in DOMAIN Builtin}
Capabilities == {"streaming", "tools", "vision", "reasoning", "structuredOutput", "parallelTools"}
Tasks == {"coding", "reasoning", "analysis", "writing", "translation", "summarization",
          "extraction", "classification", "general"}

(* No provider is called "none", which stands for no preference; a task    *)
(* the router does not know is "general".                                  *)
ASSUME RoutingAssumption ==
  /\ Builtin \in Seq(Entries)
  /\ \A e \in Entries :
       /\ e.provider # "none"
       /\ e.capabilities \subseteq Capabilities
       /\ e.window \in Nat /\ e.cost \in Nat
  /\ Wants # {}
  /\ \A w \in Wants :
       /\ w = [field \in DOMAIN w |-> w[field]]
       /\ DOMAIN w = {"explicit", "waived", "task", "needs", "maxCost", "budget", "exclude",
                      "preferred"}
       /\ w.task \in Tasks
       /\ w.budget \in {"none", "low", "medium", "high"}
  /\ MaxListed \in Nat

VARIABLES
  registered,  \* registry and adapters: a function from names to sets of ids
  routable,    \* the router's _registeredProviders
  listed,      \* the router's _models
  asking       \* the call under way

routingVars == <<registered, routable, listed, asking>>

----------------------------------------------------------------------------
(* TASK_WEIGHTS.                                                           *)
Weigh(reasoning, tools, speed, cost, structured) ==
  [capability |-> reasoning + tools + structured, speed |-> speed, cost |-> cost]

Weights ==
  [coding         |-> Weigh(25, 25, 15, 20, 15),
   reasoning      |-> Weigh(40, 10, 10, 25, 15),
   analysis       |-> Weigh(30, 15, 15, 25, 15),
   writing        |-> Weigh(15, 5, 20, 45, 15),
   translation    |-> Weigh(10, 5, 30, 45, 10),
   summarization  |-> Weigh(20, 5, 25, 40, 10),
   extraction     |-> Weigh(20, 10, 20, 30, 20),
   classification |-> Weigh(25, 10, 20, 30, 15),
   general        |-> Weigh(15, 15, 25, 40, 5)]

BudgetCap == [low |-> 100, medium |-> 500]

(* _checkRejection(): the entries that may serve.  With no provider        *)
(* registered, any provider's may.                                         *)
Accepts(e, want) ==
  /\ ({e.id} \cup e.aliases) \cap want.exclude = {}
  /\ routable # {} => e.provider \in routable
  /\ want.needs \subseteq e.capabilities
  /\ want.maxCost > 0 => e.cost <= want.maxCost
  /\ want.budget \in DOMAIN BudgetCap => e.cost <= BudgetCap[want.budget]

TaskFit(e, task) ==
  LET has(capability) == capability \in e.capabilities
      plus(tasks, capability, n) == IF task \in tasks /\ has(capability) THEN n ELSE 0
  IN  50 + plus({"coding"}, "tools", 30) + plus({"coding", "analysis"}, "reasoning", 20)
         + plus({"reasoning"}, "reasoning", 40) + plus({"analysis"}, "structuredOutput", 20)
         + plus({"writing"}, "structuredOutput", 10) + plus({"extraction"}, "structuredOutput", 30)

BudgetAlignment(e, budget) ==
  LET most == IF budget \in DOMAIN BudgetCap THEN BudgetCap[budget] ELSE 0
      upTo(tenths) == budget = "high" \/ 10 * e.cost <= tenths * most
  IN  CASE budget = "none" -> 50
        [] budget # "none" /\ upTo(3) -> 100
        [] budget # "none" /\ ~upTo(3) /\ upTo(6) -> 75
        [] OTHER -> 50

(* Mutant: the preferred provider's models are those without the bonus.    *)
BonusOfOthers(e, want) ==
  (IF e.provider = want.preferred THEN 0 ELSE 5)
    + (IF "structuredOutput" \in want.needs THEN 10 ELSE 0)
    + (IF "tools" \in want.needs THEN 10 ELSE 0)

(* What is added to the weighted sum; an accepted entry has what is needed.*)
Bonus(e, want) ==
  (IF e.provider = want.preferred THEN 5 ELSE 0)
    + (IF "structuredOutput" \in want.needs THEN 10 ELSE 0)
    + (IF "tools" \in want.needs THEN 10 ELSE 0)

(* _score(): the weighted sum, in 6000ths of a point.                      *)
Merit(e, want) ==
  LET w == Weights[want.task]
  IN  1000 * Cardinality(e.capabilities) * w.capability
        + 600 * Min({TaskFit(e, want.task), 100})
        + 600 * 70  \* no minContextWindow
        + 12 * w.cost * Max({500 - e.cost, 0})
        + 3 * w.speed * Max({2000 - e.window, 0})
        + 600 * BudgetAlignment(e, want.budget)

(* With the bonus it is rounded to tenths and clamped to 100 points, where *)
(* unlike models come out equal.                                           *)
Score(e, want) == Min({1000, (Merit(e, want) + 6000 * Bonus(e, want) + 300) \div 600})

(* The sort: best first, equals as they are listed.                        *)
Ahead(score, j, i) == score[j] > score[i] \/ (score[j] = score[i] /\ j < i)
Place(score, i) == Cardinality({j \in DOMAIN score : Ahead(score, j, i)}) + 1
BestFirst(score) ==
  [n \in 1..Cardinality(DOMAIN score) |-> CHOOSE i \in DOMAIN score : Place(score, i) = n]

(* evaluate(), leaving out the models that the caller filters from it.     *)
Accepted(want, filtered) ==
  {i \in DOMAIN listed : Accepts(listed[i], want) /\ listed[i].id \notin filtered}
Scores(want, filtered) == [i \in Accepted(want, filtered) |-> Score(listed[i], want)]
RankedBut(want, filtered) ==
  LET order == BestFirst(Scores(want, filtered))
  IN  [n \in DOMAIN order |-> listed[order[n]]]
Ranked(want) == RankedBut(want, {})

----------------------------------------------------------------------------
NoCandidate == [provider |-> "none", id |-> "none", routed |-> FALSE]

Idle ==
  [phase |-> "idle", kind |-> "complete", want |-> CHOOSE w \in Wants : TRUE,
   current |-> NoCandidate, tried |-> {}, queue |-> <<>>, emptied |-> FALSE]

CallOutcomes == {"unrouted", "unknown", "unlisted", "served", "lost"}

RoutingTypeOK ==
  /\ DOMAIN registered \subseteq {c.name : c \in Registrations}
  /\ routable \subseteq {c.name : c \in Registrations}
  /\ listed \in Seq(Entries)
  /\ asking.phase \in {"idle", "waiting", "turning"} \cup CallOutcomes
  /\ asking.kind \in {"complete", "structured", "stream"}
  /\ asking.want \in Wants

RoutingInit ==
  /\ registered = <<>>
  /\ routable = {}
  /\ listed = Builtin
  /\ asking = Idle

AddProvider(c) ==
  /\ registered' = c.name :> c.models @@ registered
  /\ routable' = DOMAIN registered'
  /\ UNCHANGED <<listed, asking>>

(* Mutant: the router is not told.                                         *)
RemoveProviderSilently(name) ==
  /\ registered' = [n \in DOMAIN registered \ {name} |-> registered[n]]
  /\ UNCHANGED <<routable, listed, asking>>

RemoveProvider(name) ==
  /\ registered' = [n \in DOMAIN registered \ {name} |-> registered[n]]
  /\ routable' = DOMAIN registered'
  /\ UNCHANGED <<listed, asking>>

AddModels(e) ==
  /\ Len(listed) < MaxListed
  /\ listed' = Append(listed, e)
  /\ UNCHANGED <<registered, routable, asking>>

(* dispose() empties the registry and leaves the router as it is.          *)
Dispose ==
  /\ registered' = <<>>
  /\ asking' = [asking EXCEPT !.emptied = TRUE]
  /\ UNCHANGED <<routable, listed>>

(* A call with an output schema needs structured output, unless its        *)
(* parameters say needsStructuredOutput: false.                            *)
Structured(want) == [want EXCEPT !.needs = @ \cup {"structuredOutput"}]
Needed(kind, want) == IF kind = "structured" /\ ~want.waived THEN Structured(want) ELSE want

Candidate(e) == [provider |-> e.provider, id |-> e.id, routed |-> TRUE]

(* _resolveProviderModel(): the model named, or else the router's best.    *)
Resolved(kind, want) ==
  LET ranked == Ranked(Needed(kind, want))
  IN  IF want.explicit # {}
      THEN {[NoCandidate EXCEPT !.provider = m.provider, !.id = m.id] : m \in want.explicit}
      ELSE {Candidate(ranked[n]) : n \in DOMAIN ranked \cap {1}}

(* complete() takes an unlisted model from a provider that lists none,     *)
(* stream() does not.                                                      *)
Lists(kind, c) ==
  LET ids == registered[c.provider]
  IN  c.id \in ids \/ (kind # "stream" /\ ids = {})

(* request.start, then the resolution, all before the first await.         *)
Call(kind, want) ==
  LET found == Resolved(kind, want)
      outcome(c) == CASE c.provider \notin DOMAIN registered -> "unknown"
                      [] c.provider \in DOMAIN registered /\ ~Lists(kind, c) -> "unlisted"
                      [] OTHER -> "waiting"
      start == [asking EXCEPT !.kind = kind, !.want = want]
  IN  /\ asking.phase = "idle"
      /\ IF found = {}
         THEN asking' = [start EXCEPT !.phase = "unrouted"]
         ELSE \E c \in found :
                asking' = [start EXCEPT !.phase = outcome(c), !.current = c,
                                        !.tried = IF outcome(c) = "waiting" THEN {c} ELSE {}]
      /\ UNCHANGED <<registered, routable, listed>>

Answered ==
  /\ asking.phase = "waiting"
  /\ asking' = [asking EXCEPT !.phase = "served"]
  /\ UNCHANGED <<registered, routable, listed>>

(* Mutant: the output schema of the call is forgotten.                     *)
GetFallbacksUnstructured(failed) ==
  LET others == RankedBut(asking.want, {failed})
  IN  [n \in 1..Min({3, Len(others)}) |-> Candidate(others[n])]

(* _getFallbacks(): the three best that are not the failed model.          *)
GetFallbacks(failed) ==
  LET want == IF asking.kind = "structured" THEN Structured(asking.want) ELSE asking.want
      others == RankedBut(want, {failed})
  IN  [n \in 1..Min({3, Len(others)}) |-> Candidate(others[n])]

(* The last attempt at the model fails: the first failure of a call looks  *)
(* for fallbacks, once, if its policy allows them.                         *)
AttemptFails ==
  /\ asking.phase = "waiting"
  /\ \E allowed \in BOOLEAN :
       LET first == Cardinality(asking.tried) = 1
       IN  asking' = [asking EXCEPT !.phase = "turning",
                        !.queue = IF first /\ allowed THEN GetFallbacks(asking.current.id)
                                  ELSE IF first THEN <<>> ELSE @]
  /\ UNCHANGED <<registered, routable, listed>>

(* The pipeline's loop over its fallbacks.  One whose model was tried, or  *)
(* whose cost is above maxFallbackCost, is passed over.                    *)
PassOver ==
  /\ asking.phase = "turning"
  /\ asking.queue # <<>>
  /\ asking' = [asking EXCEPT !.queue = Tail(@)]
  /\ UNCHANGED <<registered, routable, listed>>

(* Mutant: a model counts as tried at one provider only.                   *)
FreshByProvider(c) == c \notin asking.tried

Fresh(c) == \A t \in asking.tried : t.id # c.id

(* Another counts as tried, though its adapter may have gone since, or the *)
(* budget refuse to reserve its cost.                                      *)
NextFallback ==
  /\ asking.phase = "turning"
  /\ asking.queue # <<>>
  /\ LET c == Head(asking.queue)
     IN  /\ Fresh(c)
         /\ \E phase \in {"turning"} \cup {p \in {"waiting"} : c.provider \in DOMAIN registered} :
              asking' = [asking EXCEPT !.queue = Tail(@), !.phase = phase, !.current = c,
                                       !.tried = @ \cup {c}]
  /\ UNCHANGED <<registered, routable, listed>>

OutOfFallbacks ==
  /\ asking.phase = "turning"
  /\ asking.queue = <<>>
  /\ asking' = [asking EXCEPT !.phase = "lost"]
  /\ UNCHANGED <<registered, routable, listed>>

RoutingNext ==
  \/ \E c \in Registrations : AddProvider(c)
  \/ \E name \in DOMAIN registered : RemoveProvider(name)
  \/ \E e \in Customs : AddModels(e)
  \/ Dispose
  \/ \E kind \in {"complete", "structured", "stream"}, want \in Wants : Call(kind, want)
  \/ Answered
  \/ AttemptFails
  \/ PassOver
  \/ NextFallback
  \/ OutOfFallbacks

RoutingSpec == RoutingInit /\ [][RoutingNext]_routingVars

----------------------------------------------------------------------------
(* The router knows the providers that are registered, and so chooses one  *)
(* that is missing only when none is, until the client is disposed of.     *)
RouterFollowsRegistry == asking.emptied \/ routable = DOMAIN registered

(* Every model a router chose for the call, first or as a fallback, has    *)
(* what the call needs: structured output too, where it has a schema.      *)
NeedsKept ==
  \A c \in asking.tried :
    c.routed => \E i \in DOMAIN listed :
                  /\ listed[i].id = c.id /\ listed[i].provider = c.provider
                  /\ Needed(asking.kind, asking.want).needs \subseteq listed[i].capabilities

(* No model is tried again under the name of another provider.             *)
NoModelTwice == \A c, d \in asking.tried : c.id = d.id => c = d

(* Preferring a provider moves a call to it or nowhere: the best model is  *)
(* the provider's, or the one that is best without the preference.  So no  *)
(* preference takes a call away from its provider, or hands it to a third, *)
(* though scores are rounded, clamped and tied.                            *)
PreferenceHelps ==
  LET with == Ranked(asking.want)
      without == Ranked([asking.want EXCEPT !.preferred = "none"])
  IN  asking.phase # "idle" /\ asking.want.preferred # "none" =>
        /\ DOMAIN with = DOMAIN without
        /\ with # <<>> => with[1].provider = asking.want.preferred \/ with[1] = without[1]

(* What a caller may rely on when it leaves the choice of a model to the   *)
(* client, while providers come and go.                                    *)
RoutingSound == RouterFollowsRegistry /\ NeedsKept /\ NoModelTwice /\ PreferenceHelps
============================================================================
