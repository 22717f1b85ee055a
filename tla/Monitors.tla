------------------------------ MODULE Monitors ------------------------------
(***************************************************************************)
(* The two monitors that call the application when something has gone too  *)
(* far: CostAlertMonitor of src/cost/alerts.ts, which reads the reports of *)
(* the budget tracker, and SLAMonitor of src/telemetry/sla.ts, which reads *)
(* the ends of requests.  A behaviour watches with one of them.            *)
(***************************************************************************)
EXTENDS BudgetOps, FiniteSets, Sequences, FiniteSetsExt

CONSTANTS
  Thresholds,   \* percentages of the configured thresholds
  Costs,        \* estimates and actual costs
  MaxSpent,     \* bound on what is settled before a reset
  Agreements,   \* the SLA definitions: [name, metric, threshold, window]
  Durations, RequestCosts,
  MaxRecords,   \* SLAMonitor's maxRecords
  MaxNow,       \* bound on the clock
  MaxEnded      \* bound on the requests that end

(* ThresholdConfig.percent is a "percentage of session budget (0-100)";    *)
(* costs and windows are not negative.                                     *)
ASSUME MonitorsAssumption ==
  /\ Thresholds \subseteq 0..100 /\ Costs \subseteq Nat
  /\ MaxNow \in Nat
  /\ Len(Agreements) \in Nat /\ DOMAIN Agreements = 1..Len(Agreements)
  /\ \A i \in DOMAIN Agreements : Agreements[i].window \in Nat

VARIABLES
  watching,  \* which monitor: "costs" or "service"
  ledger,    \* the tracker
  alarm,     \* the cost monitor
  service    \* the SLA monitor

monitorVars == <<watching, ledger, alarm, service>>

----------------------------------------------------------------------------
(* The part of report() that the cost monitor reads.                       *)
Remaining(t) == AtLeastZero(SessionBudget - Committed(t))

(* Mutant: the share of what remains, not of what there was.               *)
ReachedOfRemaining(t, percent) == percent * Remaining(t) <= 100 * t.actual

(* _currentPercent() >= percent.  The report has no budget, so the monitor *)
(* adds what is spent to what remains: what is reserved is in neither, and *)
(* a share of the spending counts for more while requests are under way.   *)
Reached(t, percent) ==
  LET budget == t.actual + Remaining(t)
  IN  IF budget = 0 THEN Exhausted(t) ELSE percent * budget <= 100 * t.actual

QuietAlarm == [fired |-> {}, exceeded |-> FALSE, sent |-> {}, repeated |-> FALSE, checked |-> FALSE]

(* History: the alerts sent since the last reset, with what was committed. *)
Sending(a, t, percents) ==
  [a EXCEPT !.fired = @ \cup percents,
            !.repeated = @ \/ \E s \in a.sent : s.percent \in percents,
            !.sent = @ \cup [percent : percents, committed : {Committed(t)}]]

(* handleWarning() and handleExceeded(): the thresholds not fired before.  *)
FireThresholds(a, t, candidates) ==
  Sending(a, t, {p \in candidates \ a.fired : Reached(t, p)})

HandleWarning(a, t) == FireThresholds(a, t, Thresholds)

HandleExceeded(a, t) ==
  LET fired == FireThresholds(a, t, Thresholds \cup {100})
  IN  [fired EXCEPT !.fired = @ \cup {100}, !.exceeded = TRUE]

(* What settle() makes the monitor do: the tracker's own flags say which   *)
(* callbacks it calls, the warning first.                                  *)
Notified(before, after) ==
  LET warned == IF after.warned /\ ~before.warned THEN HandleWarning(alarm, after) ELSE alarm
  IN  [IF after.exceeded /\ ~before.exceeded THEN HandleExceeded(warned, after) ELSE warned
        EXCEPT !.checked = FALSE]

(* check(): the exceeded alert, then the thresholds.                       *)
Checked(a, t) ==
  LET over == Exhausted(t) /\ ~a.exceeded
      first == IF over THEN [Sending(a, t, {100}) EXCEPT !.exceeded = TRUE] ELSE a
      due == {p \in Thresholds \ first.fired : t.actual + Remaining(t) > 0 /\ Reached(t, p)}
  IN  [Sending(first, t, due) EXCEPT !.checked = TRUE]

CostsStep(id, cost) ==
  \/ /\ id \notin Active(ledger) /\ CanReserve(ledger, cost)
     /\ ledger' = Reserve(ledger, id, cost)
  \/ /\ ledger.actual + cost <= MaxSpent
     /\ ledger' = Settle(ledger, id, cost)
  \/ ledger' = Release(ledger, id)
  \/ /\ ledger.actual + cost <= MaxSpent
     /\ ledger' = Record(ledger, cost, cost)

UseBudget ==
  /\ watching = "costs"
  /\ \E id \in Ids, cost \in Costs : CostsStep(id, cost)
  /\ alarm' = Notified(ledger, ledger')
  /\ UNCHANGED <<watching, service>>

(* The tracker and the monitor are reset apart from each other.            *)
ResetTracker ==
  /\ watching = "costs"
  /\ ledger' = EmptyTracker
  /\ alarm' = [alarm EXCEPT !.checked = FALSE]
  /\ UNCHANGED <<watching, service>>

ResetAlarm ==
  /\ watching = "costs"
  /\ alarm' = QuietAlarm
  /\ UNCHANGED <<watching, ledger, service>>

CheckCosts ==
  /\ watching = "costs"
  /\ alarm' = Checked(alarm, ledger)
  /\ UNCHANGED <<watching, ledger, service>>

----------------------------------------------------------------------------
NewService ==
  [subscribed |-> TRUE, ended |-> 0, now |-> 0, records |-> <<>>, breaches |-> {}, told |-> FALSE]

(* The least of "values", a sequence, that so many percent do not exceed.  *)
Percentile(values, percent) ==
  LET n == Len(values)
      rank == (percent * n + 99) \div 100
      upTo(v) == Cardinality({i \in 1..n : values[i] <= v})
  IN  Min({values[i] : i \in {j \in 1..n : upTo(values[j]) >= rank}})

(* _isCompliant() of _computeMetric(), ratios in percent.  With no record  *)
(* every agreement holds.                                                  *)
Complies(d, records) ==
  LET n == Len(records)
      succeeded == Len(SelectSeq(records, LAMBDA r : r.success))
      durations == [i \in 1..n |-> records[i].duration]
      priced == {i \in 1..n : records[i].cost # {}}
      total == MapThenSumSet(LAMBDA i : CHOOSE c \in records[i].cost : TRUE, priced)
  IN  \/ n = 0
      \/ d.metric = "latency_p95" /\ Percentile(durations, 95) <= d.threshold
      \/ d.metric = "latency_p99" /\ Percentile(durations, 99) <= d.threshold
      \/ d.metric = "error_rate" /\ 100 * (n - succeeded) <= d.threshold * n
      \/ d.metric = "availability" /\ 100 * succeeded >= d.threshold * n
      \/ d.metric = "cost_per_request" /\ total <= d.threshold * Cardinality(priced)

InWindow(at, d, now) == at >= now - d.window

Kept(records, d, now) == SelectSeq(records, LAMBDA r : InWindow(r.at, d, now))

(* _checkBreach() knows an agreement by its name, and takes the first of   *)
(* that name for it.                                                       *)
FirstNamed(name) ==
  Agreements[Min({i \in DOMAIN Agreements : Agreements[i].name = name})]

RecentlyBreached(name, breaches, now) ==
  \E b \in breaches : b.sla = name /\ InWindow(b.at, FirstNamed(name), now)

(* _trimRecords().                                                         *)
Trim(records) == SubSeq(records, Max({1, Len(records) - MaxRecords + 1}), Len(records))

(* Mutant: each agreement is taken by its own window.                      *)
DueByOwnWindow(records, breaches, now) ==
  {i \in DOMAIN Agreements :
     /\ ~Complies(Agreements[i], Kept(records, Agreements[i], now))
     /\ ~\E b \in breaches : b.sla = Agreements[i].name /\ InWindow(b.at, Agreements[i], now)}

(* The agreements that are broken, each in its own window, without a       *)
(* breach of that name in the window of the first of that name.  The       *)
(* breach of one is such a breach for the next of its name.                *)
Due(records, breaches, now) ==
  LET broken == {i \in DOMAIN Agreements :
                   /\ ~Complies(Agreements[i], Kept(records, Agreements[i], now))
                   /\ ~RecentlyBreached(Agreements[i].name, breaches, now)}
  IN  {i \in broken : \A j \in broken : Agreements[j].name = Agreements[i].name => i <= j}

(* A request that ends: its record, then _checkBreach().  An alertOnBreach *)
(* that throws leaves the later agreements unchecked; the breach it was    *)
(* called for is kept.                                                     *)
Ends(success, duration, cost) ==
  LET now == service.now
      records == Trim(Append(service.records,
                             [at |-> now, success |-> success, duration |-> duration, cost |-> cost]))
      due == Due(records, service.breaches, now)
      new(reached) == {[sla |-> Agreements[i].name, at |-> now] : i \in reached}
  IN  /\ watching = "service"
      /\ service.ended < MaxEnded
      /\ \E throwing \in SUBSET due :
           LET reached == {i \in due : \A j \in throwing : i <= j}
           IN  service' = [service EXCEPT !.ended = @ + 1, !.records = records,
                             !.breaches = @ \cup new(reached), !.told = throwing = {}]
      /\ UNCHANGED <<watching, ledger, alarm>>

(* request.completed and request.failed carry no cost, record() may.       *)
RequestEnds ==
  /\ service.subscribed
  /\ \E success \in BOOLEAN, duration \in Durations : Ends(success, duration, {})

RecordRequest ==
  \E success \in BOOLEAN, duration \in Durations, cost \in RequestCosts : Ends(success, duration, {cost})

DisposeMonitor ==
  /\ watching = "service"
  /\ service.subscribed
  /\ service' = [service EXCEPT !.subscribed = FALSE]
  /\ UNCHANGED <<watching, ledger, alarm>>

MonitorClock ==
  /\ watching = "service"
  /\ service.now < MaxNow
  /\ service' = [service EXCEPT !.now = @ + 1, !.told = FALSE]
  /\ UNCHANGED <<watching, ledger, alarm>>

----------------------------------------------------------------------------
MonitorsTypeOK ==
  /\ watching \in {"costs", "service"}
  /\ ledger \in TrackerType
  /\ alarm \in [fired : SUBSET (Thresholds \cup {100}), exceeded : BOOLEAN, repeated : BOOLEAN,
                sent : SUBSET [percent : Thresholds \cup {100}, committed : Nat], checked : BOOLEAN]
  /\ service.now \in 0..MaxNow /\ service.ended \in 0..MaxEnded
  /\ Len(service.records) <= MaxRecords

MonitorsInit ==
  /\ watching \in {"costs", "service"}
  /\ ledger = EmptyTracker
  /\ alarm = QuietAlarm
  /\ service = NewService

MonitorsNext ==
  \/ UseBudget \/ ResetTracker \/ ResetAlarm \/ CheckCosts
  \/ RequestEnds \/ RecordRequest \/ DisposeMonitor \/ MonitorClock

MonitorsSpec == MonitorsInit /\ [][MonitorsNext]_monitorVars

(* Between two resets of the monitor no threshold is alerted twice, by     *)
(* whichever of settle() and check() it is reached, and none before that   *)
(* share of the session budget is spent or reserved; after a check() every *)
(* threshold that the spending itself has reached has been alerted.        *)
AlertsTimely ==
  /\ ~alarm.repeated
  /\ \A s \in alarm.sent : 100 * s.committed >= s.percent * SessionBudget
  /\ alarm.checked =>
       \A p \in Thresholds :
         ledger.actual > 0 /\ 100 * ledger.actual >= p * SessionBudget => p \in alarm.fired

(* The first agreement of a name speaks for all of that name: two breaches *)
(* of one name are more than its window apart, and once a request has      *)
(* ended, no alert having thrown, every agreement that its own window      *)
(* breaks has a breach of its name in the window of the first.             *)
BreachesTimely ==
  /\ \A b, c \in service.breaches :
       b.sla = c.sla /\ b.at < c.at => c.at - b.at > FirstNamed(b.sla).window
  /\ service.told =>
       \A i \in DOMAIN Agreements :
         LET d == Agreements[i]
         IN  \/ Complies(d, Kept(service.records, d, service.now))
             \/ \E b \in service.breaches :
                  b.sla = d.name /\ b.at >= service.now - FirstNamed(d.name).window

(* The monitors call when they should, and not more often.                 *)
MonitorsTimely == AlertsTimely /\ BreachesTimely
============================================================================
