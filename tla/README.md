# Verification of the Hilbras AI SDK

The SDK sends requests to many AI providers behind one client. What makes that hard
is not any single request but what overlapping requests share: one budget, one
circuit breaker per provider, abort signals, pools, caches, listeners, a page's
loading state. Everything runs on JavaScript's one thread, so code between two
`await`s is never interrupted, and **an action of these models is exactly the code
from one await to the next** (finer only where a module's header says so). TLC checks
the models on small instances; TLAPS proves what can be proved for all of them.

Paths below are relative to the repository.

## Inventory

| Component | State | Operations | Hard parts | Modules |
|---|---|---|---|---|
| Budget tracker `src/cost/tracker.ts` | reservation map, running totals, per-provider and per-phase tables, fired flags | `reserve`, `settle`, `release`, `record`, `reset` | totals kept apart from the map; callbacks that fire once | `BudgetOps`, `BudgetTracker` |
| Circuit breaker `src/reliability/circuit-breaker.ts` | state, counts, half-open calls, last failure | `isAvailable`, `recordSuccess`, `recordFailure`, `reset` | answers arrive in a later period, or never | `BreakerOps`, `CircuitBreaker`, `CircuitContract` |
| Request pipelines `src/core/execution/` | attempt counter, remembered error, reservations held | `runComplete`, `runStream`, `runStructuredComplete` | retries, fallbacks, cancellation, deadline, a consumer that leaves | `ExecutionCore`, `CompletePipeline`, `StreamPipeline` |
| Client: unary calls `src/client/client.ts`, `src/adapters/` | none of its own | `embed`, `generateImage`, `generateSpeech`, `transcribe`, `rerank` | an older retry loop over shared breakers; what an adapter makes of a body | `MultiModal` |
| Client: providers and routing, `src/router/` | registry, model list, the router's copy of the providers | `registerProvider`, `removeProvider`, `addModels`, resolution, `fallbackCandidates` | copies refreshed by hand while calls wait | `Routing` |
| Agents and `streamText` `src/features/agent/`, `src/client/client.ts` | steps, cost, approvals | tool loop, plan and execute, ReAct | budget, approval and abort between steps; combined policies | `AgentLoop` |
| Stream adapters `src/adapters/` | open tool calls | events to chunks | fragments by index or id, streams that break off | `AdapterStreams` |
| Fetch transport `src/transport/fetch.ts` | pools, controllers, shared fetches | `request`, `abort`, `destroy` | polling waiters, coalescing, abort against cleanup | `FetchTransport` |
| Sockets `src/transport/websocket.ts`, `src/realtime/` | `_ws`, pending map, `_connected` | `request`, `connect`, `close`, handlers | handlers of an older socket | `Connections` |
| Middlewares `src/middleware/` | cache, last time | composed chain of auth, cache, retry, pace | several calls between reads and writes | `Middlewares` |
| OIDC credentials `src/credentials/oidc.ts` | cache, shared request | `getToken`, `invalidate` | invalidation during a request | `Credentials` |
| Plugins `src/plugin/registry.ts` | ordered list | `add`, `remove`, `fire...`, `destroyAll` | the list changes under a suspended walk | `Plugins` |
| Authorization `src/security/` | policies, buckets, session spend | RBAC middleware, `checkPermission`, limiter | decided in one turn, spent in a later one; clocks set back | `Authorization` |
| Signing and replay `src/security/` | seen signatures | `sign`, `verify`, `check` | eviction against the window; two clocks; the network | `Replay` |
| Route handlers, SSE writers `src/frameworks/`, `src/utils/sse-writer.ts` | client pool, pending tool calls | POST handlers, `get`, `dispose`, body streams | order of checks, cancelled bodies, dispose under use | `Routes` |
| View hooks `src/frameworks/` | loading flag, controller, messages | `append`, `reload`, `stop`, tool results | overlapping requests of one hook; copies that differ | `UIHooks` |
| Monitors `src/cost/alerts.ts`, `src/telemetry/sla.ts` | fired thresholds, record windows | `check`, `record`, `reset` | thresholds that fire once; windows | `Monitors` |
| Listeners `src/client/hooks.ts`, `src/telemetry/` | live listener sets, counts | `on`, `off`, `emit`, sinks | sets that change while walked | `Observers` |
| RAG `src/features/rag/` | store, document counter | `chunk`, `ingest`, `query` | overlapping ingests; an `add` that throws midway | `Retrieval` |
| Degradation, content guards, catalog, tokens, eval, fine-tuning, MCP, CLI | see "Not modelled" | | | |

A client's request goes: authorization and route, resolution of a model, `prepare`
(asks the breaker, arms the deadline), `onRequest` hooks, reserve, attempts with
backoff, fallbacks that each reserve, prepare and try, then settle or release and one
terminal event to the listeners. The pipelines call the tracker and the breakers
synchronously, so their modules compose `BudgetOps` and `BreakerOps`; the unary calls
use `BreakerOps`, the cost monitor uses `BudgetOps`, and `Routing` includes the
fallbacks the pipelines draw from it. The rest meet only through the application.

`PROJECT.json` lists the hazards of this code, line by line, with the properties that
would catch each.

## Modules

**Shared operators.** `BudgetOps` and `BreakerOps` are the methods of the tracker and of
a breaker as operators on a record.

**The execution layer.** `BudgetTracker` is the tracker under any sequence of calls.
`reserve()` refuses what is not a finite
number of at least 0 and `settle()` clamps, but `record()` checks nothing: it is called with
negative numbers, NaN and both infinities too, and a sum is kept as the sum of its finite
terms (in `tracker` and the tables) and the set of its others (in `odd`), which together say
which number the sum is and how it compares.
`CircuitBreaker` is one breaker and callers that report late or never; it implements
`CircuitContract`, which has no counters. `ExecutionCore` is what every pipeline shares
(request state, signals, preparation, terminal failure, the fallback loop);
`CompletePipeline` adds `runComplete` and, for the requests in `Structured`,
`runStructuredComplete`; `StreamPipeline` adds `runStream` with its consumer.

State and code. `tracker` is the `BudgetTracker` (`res` is its reservation map, -1
for a missing key; `reserved`, `actual`, `estimated` its totals; `warned`,
`exceeded` its flags). `breaker` maps a provider to its `CircuitBreaker`; `cooled`
stands for `Date.now() - _lastFailureTime >= timeoutMs`. In the pipelines `pc` names
the await a request is suspended at, `attempt` is the local of that name, `cand` is
the entry of `Route` being tried (1 the primary, the rest what `fallbackCandidates`
returns), `masked` says that `primaryError` is a `CircuitBreakerOpenError`, `cancelled`
is `callerSignal.aborted`, `expired` says the scoped timeout fired, `terminal` collects
the terminal events. The fallback loop between two awaits is one operator,
`FallbackFrom`. A structured request is a complete request that looks at its answers:
an answer of the primary that does not validate is repaired at once, on the attempt
counter its retries use too, or ends the request with a `ValidationError` its breaker
does not hear of; an answer of a fallback that is not JSON ends the request, one that
does not fit the schema passes on to the next candidate. The costs the pipelines settle
are natural numbers, as `settle()` makes every other number one (negative and NaN count as
0, infinity as the session budget); the pipelines do not call `record()`. `Monitors` does, with
natural numbers. An error is one of four kinds, all the retry decision distinguishes; lengths of backoffs
are not modelled; the breaker's failure count saturates at its threshold; plugin hooks
other than `onRequest` swallow their errors and change nothing here.

**Peers** (`Peers`, `MCPeers`) composes the components that wait for a server, and
states what must happen whether or not it answers.

- `UIHooks`: the 23 chat, completion and object hooks are copies of one design that
  differ in a few decisions (what the `finally` resets, by what an answer finds its
  message, whether a controller is nulled, whether a second call is refused...). A
  record names the decisions of each hook with its lines, and a behaviour runs one of
  them. `loading`, `ctrl` and `list` are the hook's fields, `run` its requests.
- `FetchTransport`: `pools`, `controllers` and `pendingFetch` are the fields of that
  name; `call` is where each `request()` is suspended.
- `Connections`: `holder` says which of the two classes holds the sockets; `current`
  is `_ws`, `pending` is `_pending`, `connected` is `_connected`. The socket is external.

**Services** (`Services`, `MCServices`) composes the thirteen components that keep no
state in common; a behaviour runs one of them (`part`) with the others at rest.

- `AgentLoop`: three agents and `streamText()`, as records of what each loop checks and
  when. `AdapterStreams`: how each adapter family assembles tool calls, again a record per
  adapter, and what `streamText()` runs. The provider cuts and ends the stream as it likes.
  OpenAI's adapter and the generic one read calls written into the text, unless
  `ReasoningNormalizer` takes the text for reasoning: `reading` is what the normalizer and
  `TextToolCallParser` are left with (`_inTag` and what the tail of `_buffer` may begin;
  `_inBlock`), and a delta is told by where tags of reasoning are in it (`Marks`).
  A step is one event of the stream or one chunk taken: `due` holds the chunks of the last
  event that `streamText()` has not taken (it may run a tool between two), and the adapter
  reads on once it is empty.
- `Credentials`, `Plugins`, `Replay`: the variables carry the fields' names. What `Replay`
  delivers is a request and a text of its signature: `timingSafeEqualHex()` compares the
  bytes that a text decodes to, the guard remembers the text. A request may be changed on its
  way, in what is signed or in the body only, which profile v1 does not sign.
- `Authorization`: the whole middleware, with resolvers that throw, malformed policies,
  strict mode and the session purse. `Routes`: Next, Astro and Remix handlers, their
  client pool and the body writers. `MultiModal`: the methods of each adapter as what they
  do with a good, a hollow and a garbled body.
- `Routing`: registration, scores with their weights, ties and clamps, and fallbacks.
- `Monitors`, `Observers`: alerts, SLA, the emitter and three sinks over it.
- `Middlewares`: chains of stages over one cache and one pace, `inside` being the call
  whose code runs. `Retrieval`: the recursive chunker on texts of symbols, the store,
  ingests and queries.

Variables called history in a module's comments (`strays`, `leaked`, `overrun`,
`disturbed`, `adopted`, ...) are read by properties, and by guards that bound a model, only.

## Runs

| Run | States | Shows |
|---|---|---|
| `budget` | 692,645 | whatever numbers `record()` is given, the tracker's totals drift from its map and tables only where `release()` clamps a negative estimate, and the budget holds up to what was charged beyond reservations |
| `breaker` | 17,810 | late and missing answers do not break the breaker's contract; admitted probes are bounded; it does not get stuck while probes are reported |
| `complete` | 149,596 | reservations, charges, terminal events and breaker reports of a `runStructuredComplete` and a `runComplete` call that cross; termination |
| `stream` | 332,612 | the same for streams, plus what a consumer may observe |
| `peers` | 223,148 | loading states, pools, socket entries and connection flags tell the truth, and what is stopped or cut ends, under overlapping requests, late handlers and silent servers |
| `services` | 692,093 | what each of the thirteen service components promises, under every order of its callers, clocks and failures |
| `estimate_doc` | | violation: `totalEstimated` keeps settled estimates |
| `half_open_max` | | violation: one probe more than `halfOpenMaxCalls` |
| `half_open_leak` | | violation: half-open places leak, and the circuit never recovers |
| `deadline_retries` | | violation: retries after the deadline |
| `stream_mixed` | | violation: a second fallback follows a fallback whose chunks were visible |
| `adapter_phantom` | | violation: plain text through Bedrock's adapter becomes a tool call |

Properties, by what they are about:

- Money. `WithinBudget`, `CommittedWithinOverrun`, `ChargedOnce` (a request is charged
  once, at the price of the entry that served it), `ReservationLifecycle` (a reservation
  exists exactly while its attempt or its backoff lasts), `ReservedIsSum`, `LedgerAgrees`,
  `SpendNotified`.
- Breakers. `CountersInRange`, `ProbesAccounted`, `ImplementsContract`, `KeepsDeciding`,
  `FailuresAreTerminal` (a breaker hears of a failure only from a primary that failed for
  good and was not cancelled).
- Outcomes. `OneTerminalOutcome`, `NoAttemptAfterCancel`, `NoFurtherAttempt`;
  `CallsFaithful` (what an adapter assembled is what the model called, and where it is
  not, why); `ResponsesWhole` (bodies say `[DONE]` once and close what they open;
  the pool loses no client); `PassagesWhole`.
- What is allowed. `AgentsGoverned` (tools within the combined policies, little work after
  a stop), `AccessGoverned` (nothing past a declared list, rate or purse; replays only of
  what may be forgotten, or under another text of the signature), `RevokedTokensBounded`.
- What is kept of what is in flight. `TransportsAccounted` (pools, socket entries,
  connection flag), `HooksTruthful` (loading flag, controller, the message a text goes
  to), `RegistryCoherent`, `ClientCalls` (routing, unary calls, middleware stages),
  `ObservationTruthful` (alerts, breaches, counts, events).
- Progress. `Terminates`, `PullsAreAnswered`, `StoppedRequestsEnd`, `CutCallsSettle`.

A composite such as `ClientCalls` is a conjunction of named parts, each stated and
explained in its component's module. Two of these parts say more than their names:
`NothingSentLate` follows a call from the moment it was aborted while it was not being sent,
through its rests and further attempts, none of which may reach the provider;
`PreferenceHelps` says that asking for a provider leaves the choice as it was or moves it to
that provider, for any catalog and any ties.

`PROJECT.json` names one mutant of the code for each property of a run. A conjunction can lose
one part and still be refuted by a mutant of another, so the modules hold further ones; with
the definition replaced by the mutant, TLC finds the part violated in the configuration of
the run.

| Part of | Definition | Mutant | A bug in which |
|---|---|---|---|
| `TypeOK` of `budget` | `BudgetOps.CanReserve` | `CanReserveBelowZero` | a negative estimate is reserved |
| `CallsFaithful` | `AdapterStreams.FeedText` | `FeedTextUncleared` | the normalizer keeps its buffer when a tag closes |
| `AccessGoverned` (`ReplayBounded`) | `Replay.Remember` | `RememberOneLess` | the oldest signature goes one entry early |
| `ClientCalls` (`PlacesGivenBack`) | `MultiModal.Succeeds` | `SucceedsUnreported` | an answer is not reported to the breaker |
| `ClientCalls` (`NothingSentLate`) | `MultiModal.Sends` | `SendsRegardless` | the transport does not look at the signal |
| `ClientCalls` (`RouterFollowsRegistry`) | `Routing.RemoveProvider` | `RemoveProviderSilently` | the router is not told |
| `ClientCalls` (`NoModelTwice`) | `Routing.Fresh` | `FreshByProvider` | a model counts as tried at one provider only |
| `ClientCalls` (`PreferenceHelps`) | `Routing.Bonus` | `BonusOfOthers` | the others get the preferred one's bonus |
| `ClientCalls` (`EveryAttemptWhole`) | `Middlewares.NextAttempt` | `NextAttemptExhausted` | the stages share one cursor |
| `ClientCalls` (`CacheHonest`) | `Middlewares.Live` | `LiveToTheEnd` | an entry is good in the moment it expires |
| `ClientCalls` (`PaceKept`) | `Middlewares.Awake` | `AwakeEarly` | a sleep ends early |
| `ObservationTruthful` (`BreachesTimely`) | `Monitors.Due` | `DueByOwnWindow` | each agreement is taken by its own window |
| `ObservationTruthful` (`EventsDelivered`) | `Observers.AfterThrow` | `AfterThrowUncaught` | an error of a listener ends the emission |
| `ObservationTruthful` (`SinksAgree`) | `Observers.Heard` | `HeardByLevel` | the logger's level silences errors too |
| `ServicesTypeOK` | `Observers.Latest` | `LatestAndOne` | one request more is kept than may be |
| `PassagesWhole` (`ChunksWhole`) | `Retrieval.Fixed` | `FixedApart` | the overlap is added to the stride |
| `PassagesWhole` (`AnswersHonest`) | `Retrieval.Shortlist` | `ShortlistNarrow` | no more are fetched than asked for |

### Bounds

- `budget`: three ids, a budget of 5 with estimates 0, 2, 3 and charges of 1 and 4, beside
  negative numbers, NaN and both infinities: two reservations can fill the budget, a charge can
  fall below, meet or exceed its reservation, and `record()` is given -2, 0, 3, NaN or an
  infinity for estimate and cost alike. `estimate_doc` records nothing. `MaxEvents = 2` cost events between two resets (the only
  bound in a guard), enough for two charges to cross both thresholds separately.
- `breaker`: four callers, 2 failures open the circuit, 4 successes close it, 2 half-open
  calls: a full half-open period, a stray answer, and one caller left over; more successes
  are needed than probes fit at once, so a probe's place must come back to it.
- `complete`: two requests whose primaries are each other's fallback; r1 has a second
  candidate on its primary's provider. Budget 4 against estimates 2, 1, 0 and 2, 3 lets
  reservations conflict; `MaxRetries = 2` and `MaxRepairAttempts = 1`, so that retries can
  use up the repairs and a repair can be followed by a retry; r1 is the structured one.
  Each breaker starts closed or open (the cooldown may pass at any time), so refusals and
  half-open periods occur within two requests.
- `stream`: two requests on one provider, two fallbacks for r1, `MaxRetries = 1`; a usage
  chunk costs 2, less than the first estimate and more than the others.
- `peers`: three requests of a hook, so that an old one can end under a new one beside a
  third, and one tool result that comes late; three calls over a pool of one connection
  (one runs, one polls, one joins); two sockets (an older and a newer) and four requests,
  two on each.
- `services`: what brings two actors to each meeting point, and a third where a bystander
  matters. Three token callers and three token requests (one before, one across, one after
  `invalidate()`); one walk and two adders over three plugins; a limiter with a capacity of 1
  and clocks that may step back; a replay guard of two entries and four acceptances, so that
  one is evicted; two steps of an agent and two calls in each; three blocks of at most two
  pieces, at most two of them calls if one is in the text (`MaxSpoken`), so that a torn call can
  meet a whole one; two texts of a signature; bodies of three chunks; three unary calls, one failure opening the circuit; four
  catalog models, of which two tie; thresholds at 50, 75 and 100 per cent; texts of up to
  five symbols with chunks of two. `MaxCalls`, `MaxChanges`, `MaxEmissions`, `MaxTicks`,
  `MaxClock`, `MaxNow`, `MaxSpent`, `MaxEnded`, `MaxTime`, `MaxAccepted`, `MaxClients` and
  `MaxChunks` only cut behaviours off; the code has no such bound.

Both composed runs end behaviours that have nothing left to do, so they do not check for
deadlock; `adapter_phantom` does not for the same reason.

### Fairness

`CompletePipeline` and `StreamPipeline` assume that the deadline's timer and the
backoff's timer fire, that `onRequest` hooks return, and that an adapter whose signal
is aborted stops (it passes the signal to `fetch`). Nothing is assumed of an adapter
that is not aborted, and nothing of a stream's consumer. `CircuitBreaker` assumes for
`KeepsDeciding` that the clock runs, that each caller keeps asking and that a started
call ends; the property itself is conditional on every probe being reported, because
`half_open_leak` shows that it is false otherwise. `Peers` assumes that the browser
settles a fetch or read whose signal is aborted, that a tool the page runs returns, and
that settled promises are delivered; nothing of a server, of a pool's polling waiter that
nobody cut, or of the user. `Services` states no fairness: its properties are safety
properties.

## Proofs

The theorems hold for every value of the constants, under the assumptions the modules
name. TLC evaluates them in every run of their module.

- Finiteness: `BudgetAssumption` (finitely many ids, a positive session budget),
  `TrackerAssumption` (finitely many providers and phases), `CallersAssumption` (finitely
  many callers of a breaker), `RouteAssumption` (finitely many requests, each with a route of
  at least its primary; reservation ids are request and entry), `PoolAssumption` (finitely
  many calls, some origin, a pool of at least one connection). A sum or a count over a map
  means nothing without.
- What a configuration declares: `BreakerAssumption` (positive thresholds),
  `PolicyAssumption`, `StructuredAssumption` (structured requests are requests, repairs
  finitely many), `AuthorizationAssumption` (the limits a validated role declares are not
  negative, `authorization.ts:225`; a body may ask for any number), `MonitorsAssumption`
  (thresholds are percentages, `cost/alerts.ts:27`), `ObserversAssumption` (a dashboard
  keeps at least one request; the sinks' handlers are not the application's),
  `RoutesAssumption` (the route's own model is a model), `ReplayAssumption`,
  `MiddlewaresAssumption` (a chain is a sequence of the four stages and has at most one
  cache: each cache middleware keeps a `Map` of its own, and the model has one),
  `RoutingAssumption` (catalog entries and parameters have the fields their types declare; a
  context window and a price are natural numbers).
- What numbers are: `UsageAssumption`, `OidcAssumption`, `SocketsAssumption`,
  `BoundsAssumption`, `AgentAssumption`, `PluginsAssumption`, `AnswerAssumption`,
  `MultiModalAssumption` (finitely many unary calls as well, which a count of places needs).

| Module | Theorems |
|---|---|
| `OpsProofs` | lemmas: what each method of the tracker does to the ledger, and of the breaker, field by field; sums over finite sets; sequences less one element |
| `SharedStateProofs` | of the tracker `TypeCorrect`, `BudgetRespected`, `SpendersNotified`, `ReservationsAddUp`, `AccountsAgree`; of the breaker `BreakerTyped`, `CountersCorrect`, `ProbesBounded`, `Refinement` |
| `ExecutionCoreProofs` | lemmas: reservations, terminal failure, fallback loop, answers |
| `CompletePipelineProofs` | `TypeCorrect`, `BudgetRespected`, `ReservationsLive`, `OneOutcome`, `CancelStopsAttempts`, `FailuresHeardOnce`, `ChargesMatchAnswers` |
| `StreamPipelineProofs` | `TypeCorrect`, `BudgetRespected`, `ReservationsLive`, `OneOutcome`, `VisibleOutputIsFinal`, `FailuresHeardOnce` |
| `PeersProofs` | `CredentialsTyped`, `RevokedNeverReturned`, `PoolsSound`, `PeersTyped`, `HooksSound`, `TransportsSound`, `CallsStayFaithful` |
| `ServicesProofs` | `AgentsStayGoverned`, `RegistryStaysCoherent`, `AccessStaysGoverned`, `ObservationStaysTruthful`, `ResponsesStayWhole` |
| `ClientProofs` | `ClientCallsStay` |

**The tracker.** The numbers that are no integers are three constants apart from `Int`
(`TrackerAssumption`), so that no step depends on what NaN is. That committed cost stays within the budget is not inductive: it says
nothing of how the separate total `reserved` relates to the map, so `settle` might take
off more than was there. The invariant adds `Ledger`: `reserved` is what an additive
measure of the map gives all ids (`SumsTo`: some function from sets of ids to natural
numbers grows by a reservation's amount with each id added). `AmountsHeld` carries such a
measure through a change of one id. That a fold over the map is a measure of this kind is
proved by the smallest set on which it would not be (`OpsProofs`), and with it that the
total is the sum of the reservations (`ReservedIsSum`), and that the accounts of what was
spent, the total and two tables, agree whatever `record()` was given (`LedgerAgrees`). Of what
is estimated they agree until a negative estimate was recorded: until then no table holds one
(`NoDebits`), so what `release()` takes off is there and its clamp cuts nothing; after it the
clamp can only leave the total too high. Its `TypeOK` adds that the spend is not below zero
until `record()` was given such a cost (`refunded`): no `settle()` takes it there.
`SpendersNotified` is inductive with the types: only what charges changes the actual cost,
and it ends by calling the callbacks.

**The breaker.** `Sane` is what every method preserves by itself; the invariant adds
that only a half-open circuit has probes, without which the bound on probes would not
survive the step into a half-open period. `Refinement` then maps every method to a
step of `CircuitContract` or to a stutter. The contract's `resets` flips with each manual
reset, so no other step can pass for one.

**The pipelines.** Both invariants are the checked properties plus `Priced` (the ledger
adds up and each reservation has the price of its entry, so that settling an answer
changes nothing committed) and `OnPrimary` (a request in a hook or in a backoff is on
its primary, so that its one reservation is the right one). For streams `OnPrimary` also
says that a stream whose primary's chunks were seen is on its primary and not in a
backoff, which is what makes `NoFurtherAttempt` hold. Each action touches one request: a
lemma (`LifecycleOf`) shows that the others keep what they have, so each action's proof is
about its own request only. The action properties follow from the invariant; for
`FailuresAreTerminal` a breaker's record is followed through each step, because a probe's
refusal, a success and a half-open period change it too and must not count as a failure.
`ChargedOnce` is a sum over the requests again, of the price of the entry that served each:
a step serves at most one more, and settles exactly its price.

**Credentials, transports and sockets.** What a caller gets is bounded only if what it
*waits for* is: `OidcIInv` adds that callers wait exactly for the shared request, which is
the latest one (`WaitersAligned`), and that what was revoked had arrived, what is cached came
later, and callers saw no more revoked than there is (`RevokedInOrder`). `PoolIInv` replaces
the count of shared fetches by what keeps it at one: the shared fetch of an undisturbed
origin is the one its entry in the map holds, and a shareable call that waits has disturbed
its origin (`EntriesHold`); a step that starts or ends a fetch changes one cardinality by one
(`FiniteSetTheorems`). `SocketsIInv` adds that a request not yet made is untouched
(`NewUntouched`), and that until two `connect()` overlap no socket but `_ws` can open or is
open any more (`OthersQuiet`), without which a late `onclose` could contradict `_connected`.
`TransportsSound` carries the last two through the composition: a component at rest leaves
its invariant alone.

**View hooks.** That a hook's flag, controller and messages are right is about its newest
request, so `HooksIInv` says which that is: requests start in order (`StartedInOrder`), and
where a hook refuses or aborts an overlapping call the newest is the only one that can
still change anything (`NewestAlone`). `AllInPlace` and `LastIsItsOwn` say at which place in
the list each live request's message stands, for the hooks that find it by place, by
position at the end or by snapshot. `HookFacts` shows what the decisions of the 23
bindings have to do with each other; the rest of the proof reads that and not the table.

**Adapters.** `CallsStayFaithful` is about every adapter and any cut of an answer into
events. What was recorded can be judged only against what was sent, so `AdapterIInv` says
where each sent piece is: still in the adapter, in a chunk that is due, pending in
`streamText()`, or taken. The three shapes of a stream need one such account each, and the
blocks two: deltas of several calls at once (`DeltaHeld`), calls in one event
(`PartsHanded`), blocks an adapter collects (`BlocksHeld`) and blocks it passes on piece by
piece (`BlocksPassed`, where the place in the block determines both the chunk that is due and
what is pending). Common to all is that each call is handed on once (`CallsApart`), and
whole unless content or the end cut it (`GatheredWhole`). Calls in the text come one after the
other (`InOrder`). Whether one is seen depends on what the normalizer makes of tags: as long as
the provider put them where they do no harm (`Tidy`, judged by what it sent, `said`), the
normalizer agrees with the provider on what is reasoning, and the parser is in a call exactly
when half of one was sent (`TidyRead`); the lemma `TidyFeeds` shows this of every kind of delta.

**Services.** A step of `ServicesNext` is a step of one component and leaves the variables
of the others alone (`ServicesSteps`, and `ClientSteps` in `ClientProofs`), so each theorem about the composition needs an
invariant of one or two components only:

- `AgentIInv`: what may be pending at each phase of a loop. A call that is pending was
  offered or refused (`PendingRunnable`, `OfferChecked`), a rejection leaves nothing pending,
  and at most one question to the user outlives an abort.
- `RegistryIInv`: where the ids that a walk called, and those it passed over, can stand
  while the array is spliced under its iterator (`Walking`): what was called is older than
  whatever stands at the iterator and after, and each removal behind it hides at most one.
- `AccessIInv`: what a limiter granted and still holds came with its making and with the
  ticks since (`GrantsCovered`, a product of tokens and window, so no rounding is lost); a
  request in progress may still cost `MaxCharge` (`SpendCovered`).
- `ReplayIInv`: the cache holds the texts of the signatures of the latest acceptances, in
  their order (`SeenIsLatest`), so a text that is accepted twice was evicted between.
- `MonitorsIInv`: what is marked as fired was sent or already exceeded, and a mark of 100 is
  one of `exceeded`; each breach is of the present or past. A breach that is due is kept off
  by one of its name only, and all of a name are judged by the window of the first.
- `ObserversIInv`: there are two numbers, of requests completed and failed, from which every
  sink's counts follow up to the event that is being told (`SinksCount`).
- `RoutesIInv`: in each body the calls pending are those started once more than ended, the
  number of `[DONE]` follows from the body's state, and each phase of a request says what its
  body can be (`ServedSound`); a client that is gone is cached only where `get()` overlapped
  `dispose()`, and the loop of `dispose()` has disposed all it has passed (`PoolKept`).
- `MiddlewaresIInv`: a call on its way in has passed exactly the stages above the one it is
  at, one coming out at least those (a retry goes down again), and no cached answer is above
  its cache (`CallSound`); the keys of the `Map` are apart and none keeps an answer past its
  time (`MapSound`); a pass that the delay of a waiting call does not allow for happened
  after that call came (`WaitsItsTurn`), and none is later than the pace remembers (`PaceSound`).
- `MultiModalIInv`: what a unary call has told listeners and breaker follows from its phase
  (`UnaryTold`), and the places taken in a half-open period are those of calls in progress
  (`PlacesGivenBack`).
- `RoutingIInv`: what waits in the queue of fallbacks meets the needs of the call, like what
  was tried, also after the list changed under it (`QueueMeets`, `TriedMeet`). That a
  preference can only help (`PreferenceWins`) is no invariant but a fact about rankings: a
  ranking is a sorted arrangement of the accepted models, and the bonus only adds.

Proving found places where a property said something else than was meant, now corrected:
the tool list of a policy exempts requests that name no tool, as `authorization.ts` does;
breaches are kept apart by their agreement's name, and `_checkBreach()` takes the first
definition of that name, so that it speaks for all of them: an agreement that shares a name
has no breach of its own within the first one's window, whatever its own is; and `check()` computes no percentage while all of the budget is
reserved and nothing spent, so a threshold of zero then stays silent. `PlacesGivenBack` had
counted half-open places while the circuit is open, where stale ones remain and nothing reads
them: with four callers and two places TLC has a counterexample, so it now speaks of the
half-open state, the only one in which the count decides. And chunks of one event had been
taken all at once, while `streamText()` takes them one by one and awaits tools between.

**Only model-checked.** Liveness (`Terminates`, `PullsAreAnswered`, `KeepsDeciding`,
`StoppedRequestsEnd`, `CutCallsSettle`): the proof system has no fairness rules and no
`ENABLED`. `PassagesWhole` and `ServicesTypeOK`: what the recursive splitter returns for any
text is an induction over data, which the installed provers cannot instantiate.

## What the code does otherwise

Six statements of the documentation or the code do not hold; each has a run whose trace
shows it, and `PROJECT.json` quotes the statement under "findings".

1. A request that ends without a report to its breaker (budget rejected, hook threw,
   caller cancelled, served by a fallback, consumer left) keeps its half-open place;
   enough of them and the provider stays refused with nothing in flight.
2. `halfOpenMaxCalls` admits one more call: the first probe is not counted.
3. `runComplete` retries after the logical deadline, with an aborted signal.
4. A fallback stream that breaks off after visible chunks is followed by the next.
5. `totalEstimated` is not the sum of in-flight estimates: settled ones stay in it.
6. The Bedrock adapter ends every content block as a tool call, so an answer of plain
   text makes `streamText()` record a call the model never made; the allowlist of tools
   refuses it, and the model is asked again with the refusal.

### Observations

What the models had to be given to be faithful, and the properties above take into
account; none contradicts a statement of the repository as plainly as the six.

- Tracker: `record()`, public and deprecated, adds whatever it is given. After one NaN the
  session budget neither limits nor notifies until `reset()`; after minus infinity neither
  (`reserve()` compares with it, and finds room); after infinity `reserve()` refuses all. After a
  negative estimate the clamp of `release()` can leave `totalEstimated` above its tables.
- Hooks: the `finally` of an old request lowers `isLoading` under a newer one
  (`react/use-chat.ts:293`); Solid's `append` sends the question twice; the React client's
  retry adds the user message again; Remix overwrites messages with the snapshot it sent; a
  stopped request still executes the tool calls already parsed.
- Fetch transport: two identical shared calls that both had to wait both fetch; an old
  leader's `finally` deletes a new leader's entry; `abort()` and `destroy()` leave waiters that fetch later.
- WebSocket: the first request always rejects (it sends on a connecting socket) and leaves
  its entry; a reply of which no `Response` can be built (`websocket.ts:50-57`, status 204
  or 304) leaves its promise open for ever; nothing listens to `onclose`; an old socket's error
  rejects the new one's requests. Realtime: `connect()` does not reject before 30 s; a
  second `connect()` resolves on the first one's socket; an old socket's `onclose` clears
  the flag of a new one; sends are dropped silently.
- Plugins: two overlapping `add()` of one name both register (`registry.ts:14-17` excludes it).
- Adapters: reasoning tags swallow calls that are written into the text
  (`openai.ts:252-258`): content in which the closing tag comes together with a call is taken
  for reasoning, or dropped for beginning with a tag, so `<thinking>`, `plan`,
  `</thinking><tool_call>...` loses the call; reasoning that opens and closes in one delta hides
  the next delta as well; a part of a call that is hidden leaves a torn one, which may parse as
  another. A call with empty arguments comes out of the OpenAI family as `{"raw": ""}`.
- Adapters: Bedrock and Cohere run a call cut short with `{}`, the OpenAI family with the raw
  text; Azure and HuggingFace lose calls unless `tool_calls` comes in a delta of its own.
- Authorization: strict mode does not deny on a throwing identity or role resolver
  (`authorization.ts:14-16`), nor an unidentified tool; a `maxBudgetPerSession` that is no number is checked nowhere and
  does not deny (`rbac.ts:58-60` says of a malformed policy that it does).
- Replay: profile v1 signs no nonce, so two distinct requests of one second share a signature,
  and no body, so a changed one verifies. The guard remembers the text of a signature, but
  what is compared is what the text decodes to as hexadecimal digits, without regard to case
  and up to the first other character: each spelling passes once.
- Routes: a model that is not in the catalog leaves a client among the owned ones each
  time; `get()` during `dispose()` leaves a disposed client cached; bodies have no cancel handler.
- Unary calls: Deepgram, ElevenLabs and Cohere-rerank define `embed()` only to throw, which is
  retried and counted against the circuit; with `retryableNetworkErrors` every error is
  retried; retries go on after an abort, without sending.
- Routing: scores are clamped, so unlike models tie and catalog order decides; with the last
  provider removed the router admits every provider; `stream()` refuses models that
  `complete()` accepts; same-id models of other providers are never fallbacks.
- Monitors: percentages are of the budget less what is reserved, so alerts come early while
  requests are in flight; a jump past 100% is reported as `threshold_reached`; a reset of the
  tracker alone silences the monitor. Observers: `llm.request.count` counts only completed requests; an unsubscribe made before `removeAll` acts on the dropped set.
- Middlewares: two calls that wait for the pace pass together; concurrent misses all fetch;
  the retry's sleep ignores the signal.
- RAG: a chunk's offset is wrong after consecutive separators; a filter applies after twice
  `topK` were fetched, so matches beyond are missed; default ids of a second ingest replace the
  first's; a shorter re-ingest leaves stale passages; an `add()` that throws midway keeps
  what it stored; a reranker's index out of range makes `retrieve()` throw.

## Plan

Done: everything above. What is left, in the order of its worth: a run in which unary,
structured and streamed calls meet at one tracker and one set of breakers;
`CircuitBreakerRegistry` (its first caller's configuration wins); `reset()` of the tracker
under requests in flight, which drops what they hold and is not accounted afterwards, as
it stands by design.

## Not modelled

- Catalog, price tables, token estimates, the prompt cache: data, which appear here as
  constants.
- Content guards (PII, prompt injection, URLs): stateless pattern matching on text, whose
  correctness is about patterns and not about steps.
- The audit logger, exporters, the devtools dashboard, the structured logger's formats:
  output only. What the sinks count is in `Observers`.
- Message and parameter formats of adapters, HTTP details, size limits of bodies, line
  splitting of the SSE reader: conversions of payloads the properties do not look into.
- MCP: `callTool` is a stub, and the manager only merges lists by prefix.
- Degradation: a sequential loop over levels that keeps no state; its calls are the pipeline.
- Evaluation and fine-tuning: sequential processing over the client's calls.
- Markup and effects of the view libraries; the CLI, project templates and examples.
