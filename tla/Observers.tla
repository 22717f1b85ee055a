------------------------------ MODULE Observers ------------------------------
(***************************************************************************)
(* The listeners of a client: the emitter of src/client/hooks.ts, and what *)
(* src/telemetry's dashboard, OpenTelemetry exporter and structured logger *)
(* make of the ends of requests.                                           *)
(*                                                                         *)
(* emit() walks a JavaScript Set that its listeners may change meanwhile:  *)
(* what is deleted is not called any more, what is added is called at the  *)
(* end.  Only the application's own listeners do such things, or throw; an *)
(* emission inside a listener is not modelled.                             *)
(***************************************************************************)
EXTENDS Integers, FiniteSets, Sequences, SequencesExt

CONSTANTS
  AppListeners,  \* the application's own listener functions
  MaxKept,       \* the dashboard's maxRecords
  MaxChanges,    \* bound on subscriptions and removals
  MaxEmissions   \* bound on emissions

VARIABLES
  sets,      \* the Set objects made so far, each a sequence of listeners
  current,   \* _listeners: for each event its Set, 0 for none
  handles,   \* the unsubscribe functions held: a Set and a listener each
  emission,  \* the emit() under way
  sinks,     \* what dashboard, exporter and logger hold
  history    \* how often things have happened, and who was passed over

observerVars == <<sets, current, handles, emission, sinks, history>>

(* slice(-0) would keep all: a dashboard that keeps nothing does not exist.*)
ASSUME ObserversAssumption ==
  /\ AppListeners \cap {"dashboard", "exporter", "logger", "none"} = {}
  /\ MaxKept \in Nat \ {0}

Events == {"completed", "failed"}
Sinks == {"dashboard", "exporter", "logger"}
Listeners == AppListeners \cup Sinks
Levels == {"debug", "info", "warn", "error"}

NotEmitting == [event |-> "none", set |-> 0, told |-> {}, steady |-> {}, inside |-> "none"]

NewSinks ==
  [requests |-> <<>>,                          \* UsageDashboard._requests: success or not
   count |-> 0, errors |-> 0,                  \* llm.request.count, llm.error.count
   level |-> "info", info |-> 0, error |-> 0,  \* StructuredLogger
   together |-> TRUE]                          \* history: none has been removed

ObserversTypeOK ==
  /\ sets \in Seq(Seq(Listeners))
  /\ current \in [Events -> 0..Len(sets)]
  /\ handles \subseteq [set : 1..Len(sets), listener : Listeners]
  /\ emission \in [event : Events \cup {"none"}, set : 0..Len(sets), told : SUBSET Listeners,
                   steady : SUBSET Listeners, inside : AppListeners \cup {"none"}]
  /\ sinks \in [requests : Seq(BOOLEAN), count : Nat, errors : Nat, level : Levels,
                info : Nat, error : Nat, together : BOOLEAN]
  /\ Len(sinks.requests) <= MaxKept
  /\ history.changes \in 0..MaxChanges /\ history.emissions \in 0..MaxEmissions

(* The constructor of the client subscribes the logger and the exporter,   *)
(* and forgets how to unsubscribe them; the application the dashboard.     *)
ObserversInit ==
  /\ sets = [s \in 1..2 |-> <<"logger", "exporter", "dashboard">>]
  /\ current = [completed |-> 1, failed |-> 2]
  /\ handles = {[set |-> s, listener |-> "dashboard"] : s \in 1..2}
  /\ emission = NotEmitting
  /\ sinks = NewSinks
  /\ history = [changes |-> 0, emissions |-> 0, missed |-> {}]

ElementsOf(s) == {sets[s][i] : i \in DOMAIN sets[s]}

(* Code of the application runs between emissions and inside a listener.   *)
MayChange ==
  /\ emission.event = "none" \/ emission.inside # "none"
  /\ history.changes < MaxChanges

Changed == history' = [history EXCEPT !.changes = @ + 1]

----------------------------------------------------------------------------
(* on() makes a Set where there is none; a Set holds a listener once.      *)
On(l, e) ==
  LET s == IF current[e] = 0 THEN Len(sets) + 1 ELSE current[e]
      there == IF current[e] = 0 THEN Append(sets, <<>>) ELSE sets
      held == current[e] # 0 /\ l \in ElementsOf(s)
  IN  /\ MayChange /\ Changed
      /\ sets' = IF held THEN sets ELSE [there EXCEPT ![s] = Append(@, l)]
      /\ current' = [current EXCEPT ![e] = s]
      /\ handles' = handles \cup {[set |-> s, listener |-> l]}
      /\ UNCHANGED <<emission, sinks>>

(* Set.delete(), of one listener, seen by an emission that walks a Set.    *)
DeletedFrom(where, l) ==
  /\ sets' = [s \in DOMAIN sets |-> IF s \in where THEN RemoveFirst(sets[s], l) ELSE sets[s]]
  /\ emission' = IF emission.set \in where
                 THEN [emission EXCEPT !.told = @ \ {l}, !.steady = @ \ {l}]
                 ELSE emission

(* The function that on() returned: it deletes from the Set it was made    *)
(* for, which removeAll() may have left behind.                            *)
Unsubscribe(h) ==
  /\ MayChange /\ Changed
  /\ h.listener \in AppListeners
  /\ DeletedFrom({h.set}, h.listener)
  /\ handles' = handles \ {h}
  /\ UNCHANGED <<current, sinks>>

Off(l, e) ==
  /\ MayChange /\ Changed
  /\ current[e] # 0
  /\ DeletedFrom({current[e]}, l)
  /\ UNCHANGED <<current, handles, sinks>>

(* removeAll() drops whole Sets and empties none: an emit() under way      *)
(* still calls all of its own.                                             *)
RemoveAll(es) ==
  /\ MayChange /\ Changed
  /\ \E e \in es : current[e] # 0
  /\ current' = [e \in Events |-> IF e \in es THEN 0 ELSE current[e]]
  /\ sinks' = [sinks EXCEPT !.together = FALSE]
  /\ UNCHANGED <<sets, handles, emission>>

(* The function that the dashboard's instrumentClient() returned.          *)
Uninstrument ==
  /\ MayChange /\ Changed
  /\ \E h \in handles : h.listener = "dashboard"
  /\ DeletedFrom({h.set : h \in {x \in handles : x.listener = "dashboard"}}, "dashboard")
  /\ handles' = {h \in handles : h.listener # "dashboard"}
  /\ sinks' = [sinks EXCEPT !.together = FALSE]
  /\ UNCHANGED current

SetLevel(level) ==
  /\ MayChange /\ Changed
  /\ level # sinks.level
  /\ sinks' = [sinks EXCEPT !.level = level]
  /\ UNCHANGED <<sets, current, handles, emission>>

----------------------------------------------------------------------------
Emit(e) ==
  /\ emission.event = "none"
  /\ history.emissions < MaxEmissions
  /\ current[e] # 0
  /\ emission' = [NotEmitting EXCEPT !.event = e, !.set = current[e],
                                     !.steady = ElementsOf(current[e])]
  /\ history' = [history EXCEPT !.emissions = @ + 1]
  /\ UNCHANGED <<sets, current, handles, sinks>>

(* Mutant: one more is kept than there may be.                             *)
LatestAndOne(n, seq) == SubSeq(seq, IF Len(seq) > n + 1 THEN Len(seq) - n ELSE 1, Len(seq))

Latest(n, seq) == SubSeq(seq, IF Len(seq) > n THEN Len(seq) - n + 1 ELSE 1, Len(seq))

(* Mutant: the logger's level silences errors too.                         *)
HeardByLevel(k, e) ==
  LET ok == e = "completed"
      one(b) == IF b THEN 1 ELSE 0
  IN  CASE k = "dashboard" -> [sinks EXCEPT !.requests = Latest(MaxKept, Append(@, ok))]
        [] k = "exporter" -> [sinks EXCEPT !.count = @ + one(ok), !.errors = @ + one(~ok)]
        [] OTHER -> [sinks EXCEPT !.info = @ + one(ok /\ sinks.level \in {"debug", "info"}),
                                  !.error = @ + one(~ok /\ sinks.level = "error")]

(* recordRequest(), recordError(), logRequest() and logError().            *)
Heard(k, e) ==
  LET ok == e = "completed"
      one(b) == IF b THEN 1 ELSE 0
  IN  CASE k = "dashboard" -> [sinks EXCEPT !.requests = Latest(MaxKept, Append(@, ok))]
        [] k = "exporter" -> [sinks EXCEPT !.count = @ + one(ok), !.errors = @ + one(~ok)]
        [] OTHER -> [sinks EXCEPT !.info = @ + one(ok /\ sinks.level \in {"debug", "info"}),
                                  !.error = @ + one(~ok)]

Untold == {i \in DOMAIN sets[emission.set] : sets[emission.set][i] \notin emission.told}

(* The walk comes to the next element; a sink returns at once.             *)
CallNext ==
  /\ emission.event # "none" /\ emission.inside = "none"
  /\ \E i \in Untold :
       LET l == sets[emission.set][i]
       IN  /\ \A j \in Untold : i <= j
           /\ emission' = [emission EXCEPT !.told = @ \cup {l},
                             !.inside = IF l \in Sinks THEN "none" ELSE l]
           /\ sinks' = IF l \in Sinks THEN Heard(l, emission.event) ELSE sinks
  /\ UNCHANGED <<sets, current, handles, history>>

(* The emission is over, and those steadily subscribed have been told.     *)
Over(after) ==
  history' = [history EXCEPT
    !.missed = IF after = NotEmitting THEN @ \cup (emission.steady \ emission.told) ELSE @]

ListenerReturns ==
  /\ emission.inside # "none"
  /\ emission' = [emission EXCEPT !.inside = "none"]
  /\ UNCHANGED <<sets, current, handles, sinks, history>>

(* Mutant: an error thrown by a listener ends the emission.                *)
AfterThrowUncaught == NotEmitting

(* emit() swallows what a listener throws.                                 *)
AfterThrow == [emission EXCEPT !.inside = "none"]

ListenerThrows ==
  /\ emission.inside # "none"
  /\ emission' = AfterThrow
  /\ Over(emission')
  /\ UNCHANGED <<sets, current, handles, sinks>>

EndEmit ==
  /\ emission.event # "none" /\ emission.inside = "none"
  /\ Untold = {}
  /\ emission' = NotEmitting
  /\ Over(NotEmitting)
  /\ UNCHANGED <<sets, current, handles, sinks>>

ObserversNext ==
  \/ \E l \in AppListeners, e \in Events : On(l, e) \/ Off(l, e)
  \/ \E h \in handles : Unsubscribe(h)
  \/ \E es \in {Events} \cup {{e} : e \in Events} : RemoveAll(es)
  \/ Uninstrument
  \/ \E level \in Levels : SetLevel(level)
  \/ \E e \in Events : Emit(e)
  \/ CallNext \/ ListenerReturns \/ ListenerThrows \/ EndEmit

ObserversSpec == ObserversInit /\ [][ObserversNext]_observerVars

----------------------------------------------------------------------------
(* Whoever listens when an event is emitted, and is not removed meanwhile, *)
(* is told of it, whatever the other listeners throw, add or remove.       *)
EventsDelivered == history.missed = {}

(* Between emissions the three sinks give one account of the requests: the *)
(* dashboard's last requests are as many as the exporter counts, requests  *)
(* and errors apart, and the logger leaves out no error at any level.      *)
SinksAgree ==
  sinks.together /\ emission.event = "none" =>
    LET failures == Cardinality({i \in DOMAIN sinks.requests : ~sinks.requests[i]})
        total == sinks.count + sinks.errors
    IN  /\ Len(sinks.requests) = IF total > MaxKept THEN MaxKept ELSE total
        /\ total <= MaxKept => failures = sinks.errors
        /\ sinks.error = sinks.errors
        /\ sinks.info <= sinks.count

(* What is observed of the requests is what happened to them.              *)
ObserversTruthful == EventsDelivered /\ SinksAgree
============================================================================
