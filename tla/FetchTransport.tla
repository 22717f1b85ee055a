--------------------------- MODULE FetchTransport ---------------------------
(***************************************************************************)
(* FetchTransport (src/transport/fetch.ts): a pool of connections for each *)
(* origin, waiters that poll for a slot, requests that share the fetch of  *)
(* an identical one, and abort(), which may come at any await.  A step is  *)
(* the code between two awaits.                                            *)
(***************************************************************************)
EXTENDS Naturals, FiniteSets

CONSTANTS
  Fetches,         \* the calls of request()
  Origins,
  MaxConnections   \* maxConnectionsPerOrigin

ASSUME PoolAssumption ==
  /\ MaxConnections \in Nat \ {0}
  /\ IsFiniteSet(Fetches)
  /\ Origins # {}

VARIABLES
  pools,        \* _pools: connections counted per origin; 0 is no entry
  controllers,  \* _controllers
  pendingFetch, \* _pendingRequests by origin, {} or its one shared call: they have one key
  call,         \* the calls of request()
  disturbed     \* history: origins where a shareable call found the pool full,
                \* or abort() dropped what was pending

transportVars == <<pools, controllers, pendingFetch, call, disturbed>>

(* What a caller passes: a signal, nothing, or nothing to a transport that *)
(* coalesces.  A call with a signal never shares.                          *)
CallKinds == {"signal", "plain", "shared"}

NewCall == [phase |-> "new", origin |-> CHOOSE o \in Origins : TRUE, kind |-> "plain",
            cut |-> FALSE, ok |-> FALSE, leader |-> {}]

TransportTypeOK ==
  /\ pools \in [Origins -> Nat]
  /\ controllers \subseteq Fetches
  /\ pendingFetch \in [Origins -> SUBSET Fetches]
  /\ call \in [Fetches ->
       [phase : {"new", "waiting", "fetching", "joined", "settled", "answered", "failed"},
        origin : Origins, kind : CallKinds, cut : BOOLEAN, ok : BOOLEAN,
        leader : SUBSET Fetches]]
  /\ disturbed \subseteq Origins

TransportInit ==
  /\ pools = [o \in Origins |-> 0]
  /\ controllers = {}
  /\ pendingFetch = [o \in Origins |-> {}]
  /\ call = [f \in Fetches |-> NewCall]
  /\ disturbed = {}

Fetching(f) == call[f].phase = "fetching"
CallOver(f) == call[f].phase \in {"answered", "failed"}

----------------------------------------------------------------------------
(* From _acquire() to the await of fetch(), or of the 10 ms timer.         *)
Acquire(f, c) ==
  IF pools[c.origin] < MaxConnections
  THEN /\ pools' = [pools EXCEPT ![c.origin] = @ + 1]
       /\ controllers' = controllers \cup {f}
       /\ pendingFetch' = IF c.kind = "shared" THEN [pendingFetch EXCEPT ![c.origin] = {f}]
                          ELSE pendingFetch
       /\ call' = [call EXCEPT ![f] = [c EXCEPT !.phase = "fetching"]]
       /\ UNCHANGED disturbed
  ELSE /\ call' = [call EXCEPT ![f] = [c EXCEPT !.phase = "waiting"]]
       /\ disturbed' = disturbed \cup {o \in {c.origin} : c.kind = "shared"}
       /\ UNCHANGED <<pools, controllers, pendingFetch>>

(* request(): a call whose key is pending joins it.                        *)
RequestCall(f, o, kind) ==
  /\ call[f].phase = "new"
  /\ LET c == [NewCall EXCEPT !.origin = o, !.kind = kind]
     IN  IF kind = "shared" /\ pendingFetch[o] # {}
         THEN /\ call' = [call EXCEPT ![f] = [c EXCEPT !.phase = "joined",
                                                       !.leader = pendingFetch[o]]]
              /\ UNCHANGED <<pools, controllers, pendingFetch, disturbed>>
         ELSE Acquire(f, c)

(* The timer fires and the loop tries again; it does not look at what is   *)
(* pending by now.                                                         *)
PollSlot(f) ==
  /\ call[f].phase = "waiting"
  /\ Acquire(f, call[f])

(* Mutant: a waiter does not listen to its signal.                         *)
SignalAbortsFetchOnly(f) ==
  /\ call[f].kind = "signal"
  /\ call[f].phase \in {"waiting", "fetching"}
  /\ ~call[f].cut
  /\ call' = [call EXCEPT ![f].cut = TRUE]
  /\ UNCHANGED <<pools, controllers, pendingFetch, disturbed>>

(* The caller aborts its signal: a waiter rejects, a fetch is aborted.     *)
SignalAborts(f) ==
  /\ call[f].kind = "signal"
  /\ call[f].phase \in {"waiting", "fetching"}
  /\ ~call[f].cut
  /\ call' = [call EXCEPT ![f].cut = TRUE,
                          ![f].phase = IF @ = "waiting" THEN "failed" ELSE @]
  /\ UNCHANGED <<pools, controllers, pendingFetch, disturbed>>

(* requestFn()'s finally block, with fetch()'s outcome.                    *)
LeaveConnection(f, ok) ==
  /\ Fetching(f)
  /\ pools' = [pools EXCEPT ![call[f].origin] = @ - 1]
  /\ controllers' = controllers \ {f}
  /\ call' = [call EXCEPT ![f].phase = "settled", ![f].ok = ok]
  /\ UNCHANGED <<pendingFetch, disturbed>>

FetchSettles(f) == ~call[f].cut /\ \E ok \in BOOLEAN : LeaveConnection(f, ok)
FetchAborts(f) == call[f].cut /\ LeaveConnection(f, FALSE)

(* request()'s own finally block deletes the key, whoever holds it by now. *)
DeliverFetch(f) ==
  /\ call[f].phase = "settled"
  /\ pendingFetch' = IF call[f].kind = "shared"
                     THEN [pendingFetch EXCEPT ![call[f].origin] = {}] ELSE pendingFetch
  /\ disturbed' = IF call[f].kind = "shared" /\ ~(pendingFetch[call[f].origin] \subseteq {f})
                  THEN disturbed \cup {call[f].origin} ELSE disturbed
  /\ call' = [call EXCEPT ![f].phase = IF call[f].ok THEN "answered" ELSE "failed"]
  /\ UNCHANGED <<pools, controllers>>

(* The shared promise settles for a call that joined it.                   *)
DeliverJoined(f) ==
  /\ call[f].phase = "joined"
  /\ \E l \in call[f].leader :
       /\ call[l].phase \in {"settled", "answered", "failed"}
       /\ call' = [call EXCEPT ![f].ok = call[l].ok,
                               ![f].phase = IF call[l].ok THEN "answered" ELSE "failed"]
  /\ UNCHANGED <<pools, controllers, pendingFetch, disturbed>>

(* Mutant: abort() also gives the slots back.                              *)
AbortTransportReleasing ==
  /\ controllers # {}
  /\ call' = [f \in Fetches |-> IF f \in controllers THEN [call[f] EXCEPT !.cut = TRUE]
                                ELSE call[f]]
  /\ pools' = [o \in Origins |-> 0]
  /\ controllers' = {}
  /\ pendingFetch' = [o \in Origins |-> {}]
  /\ disturbed' = disturbed \cup {o \in Origins : pendingFetch[o] # {}}

(* abort(), and destroy() which calls it: the waiters go on.               *)
AbortTransport ==
  /\ controllers # {}
  /\ call' = [f \in Fetches |-> IF f \in controllers THEN [call[f] EXCEPT !.cut = TRUE]
                                ELSE call[f]]
  /\ controllers' = {}
  /\ pendingFetch' = [o \in Origins |-> {}]
  /\ disturbed' = disturbed \cup {o \in Origins : pendingFetch[o] # {}}
  /\ UNCHANGED pools

TransportNext ==
  \/ \E f \in Fetches :
       \/ \E o \in Origins, kind \in CallKinds : RequestCall(f, o, kind)
       \/ PollSlot(f) \/ SignalAborts(f) \/ FetchSettles(f) \/ FetchAborts(f)
       \/ DeliverFetch(f) \/ DeliverJoined(f)
  \/ AbortTransport

TransportSpec == TransportInit /\ [][TransportNext]_transportVars

(* What needs no server: an aborted fetch rejects, a settled promise is    *)
(* delivered.                                                              *)
Settles(f) == FetchAborts(f) \/ DeliverFetch(f) \/ DeliverJoined(f)

----------------------------------------------------------------------------
(* A pool counts exactly the fetches in progress to its origin and never   *)
(* exceeds its limit, on every path out of a fetch, abort() included; and  *)
(* identical requests share one fetch, unless one of them had to wait for  *)
(* a slot or abort() dropped the entry they would have found.              *)
PoolAccounted ==
  \A o \in Origins :
    /\ pools[o] = Cardinality({f \in Fetches : Fetching(f) /\ call[f].origin = o})
    /\ pools[o] <= MaxConnections
    /\ o \notin disturbed =>
         Cardinality({f \in Fetches : Fetching(f) /\ call[f].origin = o /\ call[f].kind = "shared"})
           <= 1

(* A call that was cut, by its signal or by abort(), settles without the   *)
(* server, and so do the calls that joined it: again and again none of     *)
(* them is open, which for finitely many calls means that each settles.    *)
CutCallsSettle ==
  []<>(\A f \in Fetches :
         (\E l \in {f} \cup call[f].leader : call[l].cut) => CallOver(f))
============================================================================
