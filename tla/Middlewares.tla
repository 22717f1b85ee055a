---------------------------- MODULE Middlewares ----------------------------
(***************************************************************************)
(* The interceptors of src/middleware/middleware.ts around a transport:    *)
(* a chain of stages that calls go down through and come back up, several  *)
(* at a time, over one cache and one pace.                                 *)
(*                                                                         *)
(* "inside" is the call whose code runs: until it sleeps (in the retry or  *)
(* the pace stage), waits for the transport or is done, nothing else does, *)
(* for what lies between are calls and settled promises.  The transport    *)
(* refuses a call already aborted.                                         *)
(***************************************************************************)
EXTENDS Integers, FiniteSets, Sequences, SequencesExt, FiniteSetsExt

CONSTANTS
  Calls,        \* numbered as they begin
  CacheKeys,    \* what the cache can tell apart: url and headers
  Chains,       \* sequences of "auth", "cache", "retry", "pace", leftmost first
  TimeToLive, MaxCached,  \* of cacheMiddleware()
  MinDelay,     \* of rateLimitMiddleware()
  MaxAgain,     \* maxRetries of retryMiddleware()
  MaxTicks      \* bound on the clock

(* A chain has one cache stage at most: there is one Map.                  *)
ASSUME MiddlewaresAssumption ==
  /\ Calls \subseteq Nat \ {0}
  /\ CacheKeys # {}
  /\ Chains \subseteq Seq({"auth", "cache", "retry", "pace"})
  /\ \A stages \in Chains : \A i, j \in DOMAIN stages : stages[i] = "cache" /\ stages[j] = "cache" => i = j
  /\ {TimeToLive, MaxCached, MinDelay, MaxAgain, MaxTicks} \subseteq Nat

VARIABLES
  chain,      \* the composed middlewares
  responses,  \* the Map: a sequence of entries, oldest first
  pace,       \* lastRequestTime, and as history who passed when
  tick,       \* Date.now()
  inside,     \* the call whose code is running, or 0
  requests    \* [Calls -> the state of a call]

middlewareVars == <<chain, responses, pace, tick, inside, requests>>

Unstarted ==
  [phase |-> "new", at |-> 0, key |-> CHOOSE k \in CacheKeys : TRUE, get |-> TRUE, again |-> 0,
   wake |-> 0, arrived |-> 0, passed |-> {}, result |-> "none", born |-> 0, cached |-> FALSE,
   cut |-> FALSE]

MiddlewaresInit ==
  /\ chain \in Chains
  /\ responses = <<>>
  /\ pace = [last |-> 0 - MinDelay, passes |-> {}]
  /\ tick = 0
  /\ inside = 0
  /\ requests = [c \in Calls |-> Unstarted]

MiddlewaresTypeOK ==
  /\ chain \in Chains
  /\ \A i \in DOMAIN responses : responses[i].key \in CacheKeys /\ responses[i].born \in 0..MaxTicks
  /\ inside \in Calls \cup {0}
  /\ \A c \in Calls :
       /\ requests[c].phase \in {"new", "in", "resting", "sent", "out", "done"}
       /\ requests[c].result \in {"none", "ok", "refused", "error", "abort"}
       /\ requests[c].passed \subseteq DOMAIN chain /\ requests[c].again \in 0..MaxAgain

Stage(c) == IF requests[c].at \in DOMAIN chain THEN chain[requests[c].at] ELSE "transport"

RunsIn(c, stage) == inside = c /\ requests[c].phase = "in" /\ Stage(c) = stage

(* next(): the stage that follows.                                         *)
Onward(call) == [call EXCEPT !.at = @ + 1, !.passed = @ \cup {call.at}]

(* What a call asks for matters to the cache stage alone.                  *)
Begin(c, key, get) ==
  /\ inside = 0
  /\ requests[c].phase = "new" /\ \A d \in Calls : d < c => requests[d].phase # "new"
  /\ "cache" \notin Range(chain) => get
  /\ "cache" \notin Range(chain) \/ ~get => key = Unstarted.key
  /\ requests' = [requests EXCEPT ![c] = [Unstarted EXCEPT !.phase = "in", !.at = 1, !.key = key, !.get = get]]
  /\ inside' = c
  /\ UNCHANGED <<chain, responses, pace, tick>>

(* authMiddleware() and the first attempt of retryMiddleware().            *)
GoOn(c) ==
  /\ RunsIn(c, "auth") \/ RunsIn(c, "retry")
  /\ requests' = [requests EXCEPT ![c] = [Onward(requests[c]) EXCEPT !.again = IF Stage(c) = "retry" THEN 0 ELSE @]]
  /\ UNCHANGED <<chain, responses, pace, tick, inside>>

----------------------------------------------------------------------------
(* Mutant: an entry that expires now is still good.                        *)
LiveToTheEnd(e) == e.expires >= tick

Live(e) == e.expires > tick

Held(key) == {i \in DOMAIN responses : responses[i].key = key}

(* A hit moves to the end of the Map; what has expired is dropped.         *)
LookUp(c) ==
  /\ RunsIn(c, "cache")
  /\ LET call == requests[c]
         held == IF call.get THEN Held(call.key) ELSE {}
     IN  \/ /\ held = {}
            /\ requests' = [requests EXCEPT ![c] = Onward(call)]
            /\ UNCHANGED responses
         \/ \E i \in held :
              /\ ~Live(responses[i])
              /\ responses' = RemoveAt(responses, i)
              /\ requests' = [requests EXCEPT ![c] = Onward(call)]
         \/ \E i \in held :
              /\ Live(responses[i])
              /\ responses' = Append(RemoveAt(responses, i), responses[i])
              /\ requests' = [requests EXCEPT ![c].phase = "out", ![c].at = @ - 1, ![c].result = "ok",
                                        ![c].born = responses[i].born, ![c].cached = TRUE]
  /\ UNCHANGED <<chain, pace, tick, inside>>

(* Map.set() leaves a key that is there in its place.                      *)
Stored(key, e) ==
  LET all == IF Held(key) = {} THEN Append(responses, e)
             ELSE [i \in DOMAIN responses |-> IF responses[i].key = key THEN e ELSE responses[i]]
      over == Max({0, Len(all) - MaxCached})
  IN  SubSeq(all, over + 1, Len(all))

----------------------------------------------------------------------------
(* rateLimitMiddleware(): the wait is computed once, on arrival.           *)
Pace(c) ==
  /\ RunsIn(c, "pace")
  /\ LET wait == pace.last + MinDelay - tick
     IN  \/ /\ wait > 0
            /\ requests' = [requests EXCEPT ![c].arrived = tick, ![c].wake = tick + wait,
                                      ![c].phase = "resting"]
            /\ inside' = 0
            /\ UNCHANGED pace
         \/ /\ wait <= 0
            /\ requests' = [requests EXCEPT ![c] = Onward([@ EXCEPT !.arrived = tick])]
            /\ pace' = [last |-> tick, passes |-> pace.passes \cup {<<c, tick, tick>>}]
            /\ UNCHANGED inside
  /\ UNCHANGED <<chain, responses, tick>>

(* Mutant: a sleep may end early.                                          *)
AwakeEarly(c, stage) ==
  inside = 0 /\ requests[c].phase = "resting" /\ Stage(c) = stage /\ tick + 1 >= requests[c].wake

Awake(c, stage) ==
  inside = 0 /\ requests[c].phase = "resting" /\ Stage(c) = stage /\ tick >= requests[c].wake

PaceEnds(c) ==
  /\ Awake(c, "pace")
  /\ requests' = [requests EXCEPT ![c] = Onward([@ EXCEPT !.phase = "in"])]
  /\ pace' = [pace EXCEPT !.last = tick, !.passes = @ \cup {<<c, requests[c].arrived, tick>>}]
  /\ inside' = c
  /\ UNCHANGED <<chain, responses, tick>>

----------------------------------------------------------------------------
(* ctx.next(): the transport.                                              *)
SendOn(c) ==
  /\ RunsIn(c, "transport")
  /\ requests' = [requests EXCEPT ![c].phase = IF requests[c].cut THEN "out" ELSE "sent",
                            ![c].result = IF requests[c].cut THEN "abort" ELSE "none",
                            ![c].at = IF requests[c].cut THEN @ - 1 ELSE @]
  /\ inside' = IF requests[c].cut THEN c ELSE 0
  /\ UNCHANGED <<chain, responses, pace, tick>>

(* A response, ok or not, or the transport's own failure.                  *)
Arrives(c, result) ==
  /\ inside = 0
  /\ requests[c].phase = "sent"
  /\ requests[c].cut <=> result = "abort"
  /\ requests' = [requests EXCEPT ![c].phase = "out", ![c].at = @ - 1, ![c].result = result,
                            ![c].born = IF result = "ok" THEN tick ELSE 0]
  /\ inside' = c
  /\ UNCHANGED <<chain, responses, pace, tick>>

(* The promise of next() settles in stage "at".                            *)
Returning(c, stage) == inside = c /\ requests[c].phase = "out" /\ Stage(c) = stage

PassUp(c) ==
  /\ Returning(c, "auth") \/ Returning(c, "pace")
  /\ requests' = [requests EXCEPT ![c].at = @ - 1]
  /\ UNCHANGED <<chain, responses, pace, tick, inside>>

Store(c) ==
  /\ Returning(c, "cache")
  /\ LET call == requests[c]
     IN  responses' = IF call.get /\ call.result = "ok"
                  THEN Stored(call.key, [key |-> call.key, born |-> call.born,
                                         expires |-> tick + TimeToLive])
                  ELSE responses
  /\ requests' = [requests EXCEPT ![c].at = @ - 1]
  /\ UNCHANGED <<chain, pace, tick, inside>>

(* A thrown error is tried again after a sleep that no signal ends.        *)
Retry(c) ==
  /\ Returning(c, "retry")
  /\ LET call == requests[c]
         again == call.result = "error" /\ ~call.cut /\ call.again < MaxAgain
     IN  /\ requests' = [requests EXCEPT ![c] =
              IF again THEN [call EXCEPT !.phase = "resting", !.wake = tick + 1]
              ELSE [call EXCEPT !.at = call.at - 1]]
         /\ inside' = IF again THEN 0 ELSE c
  /\ UNCHANGED <<chain, responses, pace, tick>>

(* Mutant: the stages share one cursor, which is at the end of the chain.  *)
NextAttemptExhausted(c) ==
  [requests[c] EXCEPT !.phase = "in", !.at = Len(chain) + 1, !.again = @ + 1,
                   !.passed = {i \in @ : i <= requests[c].at}]

NextAttempt(c) ==
  [requests[c] EXCEPT !.phase = "in", !.at = @ + 1, !.again = @ + 1,
                   !.passed = {i \in @ : i <= requests[c].at}]

RetryEnds(c) ==
  /\ Awake(c, "retry")
  /\ requests' = [requests EXCEPT ![c] = NextAttempt(c)]
  /\ inside' = c
  /\ UNCHANGED <<chain, responses, pace, tick>>

Finish(c) ==
  /\ inside = c /\ requests[c].phase = "out" /\ requests[c].at = 0
  /\ requests' = [requests EXCEPT ![c] = [Unstarted EXCEPT !.phase = "done"]]
  /\ inside' = 0
  /\ UNCHANGED <<chain, responses, pace, tick>>

CutCall(c) ==
  /\ inside = 0
  /\ requests[c].phase \in {"resting", "sent"} /\ ~requests[c].cut
  /\ requests' = [requests EXCEPT ![c].cut = TRUE]
  /\ UNCHANGED <<chain, responses, pace, tick, inside>>

MiddlewareClock ==
  /\ inside = 0 /\ tick < MaxTicks
  /\ tick' = tick + 1
  /\ UNCHANGED <<chain, responses, pace, inside, requests>>

MiddlewaresNext ==
  \/ \E c \in Calls :
       \/ \E key \in CacheKeys, get \in BOOLEAN : Begin(c, key, get)
       \/ GoOn(c) \/ LookUp(c) \/ Pace(c) \/ PaceEnds(c) \/ SendOn(c)
       \/ \E result \in {"ok", "refused", "error", "abort"} : Arrives(c, result)
       \/ PassUp(c) \/ Store(c) \/ Retry(c) \/ RetryEnds(c) \/ Finish(c) \/ CutCall(c)
  \/ MiddlewareClock

MiddlewaresSpec == MiddlewaresInit /\ [][MiddlewaresNext]_middlewareVars

----------------------------------------------------------------------------
(* Whatever attempt a request is sent in, it has passed every stage of the *)
(* chain, those after the retry stage since that attempt began.            *)
EveryAttemptWhole == \A c \in Calls : requests[c].phase = "sent" => requests[c].passed = DOMAIN chain

(* What the cache answers with arrived less than TimeToLive before, and    *)
(* the Map keeps one entry for a key and never more than its limit.        *)
CacheHonest ==
  /\ \A c \in Calls :
       requests[c].phase = "out" /\ requests[c].cached => tick - requests[c].born < TimeToLive
  /\ Len(responses) <= MaxCached
  /\ \A i, j \in DOMAIN responses : responses[i].key = responses[j].key => i = j

(* Two requests that pass the pace stage less than MinDelay apart had both *)
(* come to it before the first of them passed.                             *)
PaceKept ==
  \A p, q \in pace.passes : p # q /\ p[3] <= q[3] /\ q[3] - p[3] < MinDelay => q[2] <= p[3]

(* What the stages promise, however the requests through them overlap.     *)
StagesKept == EveryAttemptWhole /\ CacheHonest /\ PaceKept
============================================================================
