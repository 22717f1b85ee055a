--------------------------- MODULE ClientProofs ----------------------------
(***************************************************************************)
(* Theorems about a client's calls: which models they are routed to, what  *)
(* a unary call tells its listeners and its breaker, and what the stages   *)
(* of its middlewares do, for any catalog, chain, policy and calls.        *)
(*                                                                         *)
(* That a request is paced and cached once needs where in its chain each   *)
(* call can stand, on its way in, waiting or coming out (MiddlewaresIInv); *)
(* that a unary call gives its place back, what it has asked and been told *)
(* so far (MultiModalIInv); and that the models tried have what a call     *)
(* needs, that the fallbacks in waiting have it too (RoutingIInv).         *)
(***************************************************************************)
EXTENDS Services, OpsProofs, WellFoundedInduction, SequenceTheorems, FiniteSetTheorems, TLAPS

(* The middlewares.  What is known of a call in every phase: the stages it *)
(* has passed are those above it, and the clock has not moved since its    *)
(* answer while its code runs; of the Map and of those that passed.        *)

RequestRecord ==
  [phase : {"new", "in", "resting", "sent", "out", "done"}, at : Nat, key : CacheKeys, get : BOOLEAN,
   again : Nat, wake : Int, arrived : Nat, passed : SUBSET DOMAIN chain,
   result : {"none", "ok", "refused", "error", "abort"}, born : Nat, cached : BOOLEAN, cut : BOOLEAN]

ResponseRecord == [key : CacheKeys, born : Nat, expires : Nat]

Above(at) == 1..(at - 1)

GoingIn(call) ==
  call.phase \in {"in", "sent"} =>
    /\ call.at \in 1..(Len(chain) + 1)
    /\ call.passed = Above(call.at)
    /\ call.phase = "sent" => call.at = Len(chain) + 1

Resting(call) ==
  call.phase = "resting" =>
    /\ call.at \in DOMAIN chain
    /\ chain[call.at] \in {"pace", "retry"}
    /\ chain[call.at] = "pace" => call.passed = Above(call.at)
    /\ chain[call.at] = "retry" => Above(call.at + 1) \subseteq call.passed

ComingOut(call) ==
  call.phase = "out" =>
    /\ call.at \in 0..Len(chain)
    /\ Above(call.at + 1) \subseteq call.passed
    /\ call.cached => /\ call.result = "ok"
                      /\ tick - call.born < TimeToLive
                      /\ \A i \in 1..call.at : chain[i] # "cache"
    /\ ~call.cached /\ call.result = "ok" => call.born = tick

(* No pass since it came to the stage, unless that stage took it before.   *)
WaitsItsTurn(call) ==
  call.phase = "resting" /\ chain[call.at] = "pace" =>
    /\ call.arrived <= tick
    /\ \A p \in pace.passes : call.wake < p[3] + MinDelay => call.arrived <= p[3]

CallSound(c, call) ==
  /\ GoingIn(call) /\ Resting(call) /\ ComingOut(call) /\ WaitsItsTurn(call)
  /\ call.phase \in {"in", "out"} => inside = c
  /\ call.cached => call.phase = "out"

MapSound(map) ==
  /\ map \in Seq(ResponseRecord)
  /\ Len(map) <= MaxCached
  /\ \A i, j \in DOMAIN map : map[i].key = map[j].key => i = j
  /\ \A i \in DOMAIN map : map[i].expires <= map[i].born + TimeToLive

PaceSound == pace.last <= tick /\ \A p \in pace.passes : p[2] <= p[3] /\ p[3] <= pace.last

MiddlewaresIInv ==
  /\ chain \in Chains /\ tick \in Nat /\ inside \in Calls \cup {0}
  /\ requests \in [Calls -> RequestRecord]
  /\ pace \in [last : Int, passes : SUBSET (Calls \X Nat \X Nat)]
  /\ \A c \in Calls : CallSound(c, requests[c])
  /\ MapSound(responses)
  /\ PaceSound
  /\ PaceKept

LEMMA MiddlewareFacts ==
  ASSUME MiddlewaresIInv, NEW c \in Calls
  PROVE  /\ requests[c] \in RequestRecord /\ CallSound(c, requests[c])
         /\ chain \in Seq({"auth", "cache", "retry", "pace"}) /\ Len(chain) \in Nat
         /\ DOMAIN chain = 1..Len(chain)
         /\ \A i \in DOMAIN chain : chain[i] \in {"auth", "cache", "retry", "pace"}
         /\ c \in Nat /\ c # 0 /\ inside \in Nat
         /\ MinDelay \in Nat /\ TimeToLive \in Nat /\ MaxCached \in Nat
<1>1. chain \in Seq({"auth", "cache", "retry", "pace"})
  BY MiddlewaresAssumption DEF MiddlewaresIInv
<1>2. requests[c] \in RequestRecord /\ CallSound(c, requests[c])
  BY DEF MiddlewaresIInv
<1>3. c \in Nat /\ c # 0 /\ inside \in Nat
  BY MiddlewaresAssumption DEF MiddlewaresIInv
<1>4. MinDelay \in Nat /\ TimeToLive \in Nat /\ MaxCached \in Nat
  BY MiddlewaresAssumption
<1>5. Len(chain) \in Nat /\ DOMAIN chain = 1..Len(chain)
      /\ \A i \in DOMAIN chain : chain[i] \in {"auth", "cache", "retry", "pace"}
  BY <1>1
<1>6. QED
  BY <1>1, <1>2, <1>3, <1>4, <1>5

LEMMA UnstartedSound ==
  /\ Unstarted.key \in CacheKeys
  /\ Unstarted \in RequestRecord
  /\ [Unstarted EXCEPT !.phase = "done"] \in RequestRecord
<1>1. Unstarted.key \in CacheKeys
  BY MiddlewaresAssumption DEF Unstarted
<1> DEFINE some == CHOOSE k \in CacheKeys : TRUE
<1>2. some \in CacheKeys
  BY MiddlewaresAssumption
<1> HIDE DEF some
<1>3. Unstarted = [phase |-> "new", at |-> 0, key |-> some, get |-> TRUE, again |-> 0,
                   wake |-> 0, arrived |-> 0, passed |-> {}, result |-> "none", born |-> 0,
                   cached |-> FALSE, cut |-> FALSE]
  BY DEF Unstarted, some
<1>4. Unstarted \in RequestRecord
  BY <1>2, <1>3 DEF RequestRecord
<1>5. [Unstarted EXCEPT !.phase = "done"] \in RequestRecord
  BY <1>4 DEF RequestRecord
<1>6. QED
  BY <1>1, <1>4, <1>5

(* A call alone has moved.                                                 *)
LEMMA CallMoves ==
  ASSUME MiddlewaresIInv, NEW c \in Calls, NEW r \in RequestRecord,
         requests' = [requests EXCEPT ![c] = r], UNCHANGED <<chain, tick, pace>>,
         inside \in {0, c}, inside' \in {0, c}, CallSound(c, r)',
         MapSound(responses')
  PROVE  MiddlewaresIInv'
<1>1. requests \in [Calls -> RequestRecord] /\ chain' = chain /\ tick' = tick /\ pace' = pace
  BY DEF MiddlewaresIInv
<1>2. RequestRecord' = RequestRecord
  BY <1>1 DEF RequestRecord
<1>3. requests' \in [Calls -> RequestRecord]'
  BY <1>1, <1>2
<1>4. ASSUME NEW d \in Calls PROVE CallSound(d, requests[d])'
  <2>1. CASE d = c
    <3>1. requests'[d] = r
      BY <1>1, <2>1
    <3>2. QED
      BY <2>1, <3>1 DEF CallSound, GoingIn, Resting, ComingOut, WaitsItsTurn, Above
  <2>2. CASE d # c
    <3> PICK call : call = requests[d]
      OBVIOUS
    <3>1. requests'[d] = call
      BY <1>1, <2>2
    <3>2. CallSound(d, call) /\ d # 0
      BY MiddlewareFacts
    <3>3. call.phase \notin {"in", "out"}
      BY <2>2, <3>2 DEF CallSound
    <3>4. GoingIn(call)' /\ Resting(call)' /\ ComingOut(call)' /\ WaitsItsTurn(call)'
      BY <1>1, <3>2 DEF CallSound, GoingIn, Resting, ComingOut, WaitsItsTurn, Above
    <3>5. CallSound(d, call)'
      BY <3>2, <3>3, <3>4 DEF CallSound
    <3>6. QED
      BY <3>1, <3>5 DEF CallSound, GoingIn, Resting, ComingOut, WaitsItsTurn, Above
  <2>3. QED
    BY <2>1, <2>2
<1>5. PaceSound' /\ PaceKept'
  BY <1>1 DEF MiddlewaresIInv, PaceSound, PaceKept
<1>6. (chain \in Chains /\ tick \in Nat /\ inside \in Calls \cup {0})'
      /\ (pace \in [last : Int, passes : SUBSET (Calls \X Nat \X Nat)])'
  BY <1>1 DEF MiddlewaresIInv
<1>7. MapSound(responses)'
  BY DEF MapSound, ResponseRecord
<1>8. QED
  BY <1>3, <1>4, <1>5, <1>6, <1>7 DEF MiddlewaresIInv

LEMMA OnwardSound ==
  ASSUME MiddlewaresIInv, NEW c \in Calls, NEW call \in RequestRecord, NEW r,
         call.phase = "in", call.at \in DOMAIN chain, call.passed = Above(call.at), ~call.cached,
         r = Onward(call)
  PROVE  /\ r \in RequestRecord
         /\ r.phase = "in" /\ r.at = call.at + 1 /\ ~r.cached
         /\ GoingIn(r) /\ Resting(r) /\ ComingOut(r) /\ WaitsItsTurn(r)
         /\ inside = c => CallSound(c, r)
<1>1. call.at \in 1..Len(chain) /\ call.at \in Nat /\ Len(chain) \in Nat /\ DOMAIN chain = 1..Len(chain)
  BY MiddlewareFacts
<1>2. call.passed \cup {call.at} \in SUBSET DOMAIN chain
  BY DEF RequestRecord
<1>3. r \in RequestRecord
  <2> PICK n : n = call.at + 1
    OBVIOUS
  <2> PICK s : s = call.passed \cup {call.at}
    OBVIOUS
  <2>1. r = [call EXCEPT !.at = n, !.passed = s] /\ n \in Nat /\ s \in SUBSET DOMAIN chain
    BY <1>1, <1>2 DEF Onward
  <2>2. QED
    BY <2>1 DEF RequestRecord
<1>4. r.phase = "in" /\ r.at = call.at + 1 /\ r.passed = call.passed \cup {call.at} /\ r.cached = call.cached
  BY DEF Onward, RequestRecord
<1>5. r.at \in 1..(Len(chain) + 1)
  BY <1>1, <1>4
<1>6. r.passed = Above(r.at)
  BY <1>1, <1>4 DEF Above
<1>7. GoingIn(r) /\ Resting(r) /\ ComingOut(r) /\ WaitsItsTurn(r)
  BY <1>4, <1>5, <1>6 DEF GoingIn, Resting, ComingOut, WaitsItsTurn
<1>8. QED
  BY <1>3, <1>4, <1>7 DEF CallSound

LEMMA BeginKeeps ==
  ASSUME MiddlewaresIInv, NEW c \in Calls, NEW key \in CacheKeys, NEW get \in BOOLEAN, Begin(c, key, get)
  PROVE  MiddlewaresIInv'
<1> PICK r : r = [Unstarted EXCEPT !.phase = "in", !.at = 1, !.key = key, !.get = get]
  OBVIOUS
<1>1. requests' = [requests EXCEPT ![c] = r] /\ inside = 0 /\ inside' = c
      /\ UNCHANGED <<chain, responses, pace, tick>>
  BY DEF Begin
<1>2. Unstarted \in RequestRecord /\ Unstarted.passed = {} /\ Unstarted.cached = FALSE
  BY UnstartedSound DEF Unstarted
<1>3. r \in RequestRecord
  BY <1>2 DEF RequestRecord
<1>4. r.phase = "in" /\ r.at = 1 /\ r.passed = {} /\ ~r.cached
  BY <1>2 DEF RequestRecord
<1>5. Len(chain) \in Nat
  BY MiddlewareFacts
<1>6. GoingIn(r)'
  BY <1>1, <1>4, <1>5 DEF GoingIn, Above
<1>7. CallSound(c, r)'
  BY <1>1, <1>4, <1>6 DEF CallSound, Resting, ComingOut, WaitsItsTurn
<1>8. MapSound(responses')
  BY <1>1 DEF MiddlewaresIInv
<1>9. QED
  BY <1>1, <1>3, <1>7, <1>8, CallMoves

(* The call whose code runs stands at the stage it is said to run in.      *)
LEMMA StandsAt ==
  ASSUME MiddlewaresIInv, NEW c \in Calls, NEW stage \in {"auth", "cache", "retry", "pace"},
         Stage(c) = stage
  PROVE  requests[c].at \in DOMAIN chain /\ chain[requests[c].at] = stage
BY DEF Stage

LEMMA GoOnKeeps == ASSUME MiddlewaresIInv, NEW c \in Calls, GoOn(c) PROVE MiddlewaresIInv'
<1> PICK call : call = requests[c]
  OBVIOUS
<1> PICK n : n = IF Stage(c) = "retry" THEN 0 ELSE call.again
  OBVIOUS
<1> PICK q : q = Onward(call)
  OBVIOUS
<1> PICK r : r = [q EXCEPT !.again = n]
  OBVIOUS
<1>1. call \in RequestRecord /\ CallSound(c, call)
  BY MiddlewareFacts
<1>2. call.phase = "in" /\ inside = c /\ call.at \in DOMAIN chain
  BY StandsAt DEF GoOn, RunsIn
<1>3. q.again = call.again
  BY <1>1 DEF Onward, RequestRecord
<1>4. requests' = [requests EXCEPT ![c] = r] /\ UNCHANGED <<chain, responses, pace, tick, inside>>
  BY <1>3 DEF GoOn
<1>5. ~call.cached /\ call.passed = Above(call.at)
  BY <1>1, <1>2 DEF CallSound, GoingIn
<1>6. q \in RequestRecord /\ CallSound(c, q) /\ q.phase = "in" /\ ~q.cached
  BY <1>1, <1>2, <1>5, OnwardSound
<1>7. n \in Nat
  BY <1>1 DEF RequestRecord
<1>8. r \in RequestRecord
  BY <1>6, <1>7 DEF RequestRecord
<1>9. r.phase = q.phase /\ r.at = q.at /\ r.passed = q.passed /\ r.cached = q.cached
  BY <1>6 DEF RequestRecord
<1>10. CallSound(c, r)
  BY <1>6, <1>9 DEF CallSound, GoingIn, Resting, ComingOut, WaitsItsTurn
<1>11. CallSound(c, r)'
  BY <1>4, <1>10 DEF CallSound, GoingIn, Resting, ComingOut, WaitsItsTurn, Above
<1>12. MapSound(responses')
  BY <1>4 DEF MiddlewaresIInv
<1>13. QED
  BY <1>2, <1>4, <1>8, <1>11, <1>12, CallMoves

LEMMA SameLength == ASSUME NEW a \in Nat, NEW b \in Nat, 1..a = 1..b PROVE a = b
<1>1. a # 0 => a \in 1..b
  OBVIOUS
<1>2. b # 0 => b \in 1..a
  OBVIOUS
<1>3. QED
  BY <1>1, <1>2

(* Map.delete() of one entry, and Map.set() of it at the end.              *)
LEMMA DroppedSound ==
  ASSUME NEW map, MapSound(map), NEW at \in DOMAIN map
  PROVE  /\ MapSound(RemoveAt(map, at)) /\ MapSound(Append(RemoveAt(map, at), map[at]))
         /\ map[at] \in ResponseRecord
<1> PICK m : m = RemoveAt(map, at)
  OBVIOUS
<1>1. map \in Seq(ResponseRecord) /\ Len(map) \in Nat /\ DOMAIN map = 1..Len(map)
  BY DEF MapSound
<1>2. m \in Seq(ResponseRecord) /\ DOMAIN m = 1..(Len(map) - 1)
      /\ \A i \in 1..(Len(map) - 1) : m[i] = IF i < at THEN map[i] ELSE map[i + 1]
  BY <1>1, RemovedFacts
<1>3. Len(m) = Len(map) - 1
  <2>1. Len(m) \in Nat /\ DOMAIN m = 1..Len(m)
    BY <1>2
  <2>2. Len(map) - 1 \in Nat
    BY <1>1
  <2>3. QED
    BY <1>2, <2>1, <2>2, SameLength
<1>4. at \in 1..Len(map) /\ MaxCached \in Nat /\ map[at] \in ResponseRecord
  BY <1>1, MiddlewaresAssumption
<1>5. ASSUME NEW i \in DOMAIN m
      PROVE  \E k \in DOMAIN map : k # at /\ m[i] = map[k] /\ k = IF i < at THEN i ELSE i + 1
  BY <1>1, <1>2, <1>4
<1>6. \A i \in DOMAIN m : m[i].key # map[at].key /\ m[i].expires <= m[i].born + TimeToLive
  BY <1>5 DEF MapSound
<1>7. ASSUME NEW i \in DOMAIN m, NEW j \in DOMAIN m, m[i].key = m[j].key PROVE i = j
  <2>1. PICK k \in DOMAIN map : m[i] = map[k] /\ k = IF i < at THEN i ELSE i + 1
    BY <1>5
  <2>2. PICK n \in DOMAIN map : m[j] = map[n] /\ n = IF j < at THEN j ELSE j + 1
    BY <1>5
  <2>3. k = n
    BY <1>7, <2>1, <2>2 DEF MapSound
  <2>4. QED
    BY <1>1, <1>2, <1>4, <2>1, <2>2, <2>3
<1>8. Len(map) <= MaxCached
  BY DEF MapSound
<1>9. MapSound(m)
  BY <1>1, <1>2, <1>3, <1>4, <1>6, <1>7, <1>8 DEF MapSound
<1> PICK n : n = Append(m, map[at])
  OBVIOUS
<1>10. n \in Seq(ResponseRecord) /\ Len(n) = Len(map) /\ DOMAIN n = 1..Len(map)
       /\ n[Len(map)] = map[at] /\ \A i \in DOMAIN m : n[i] = m[i]
  <2>1. /\ n \in Seq(ResponseRecord) /\ Len(n) = Len(m) + 1
        /\ n[Len(m) + 1] = map[at] /\ \A i \in 1..Len(m) : n[i] = m[i]
    BY <1>2, <1>4, AppendProperties
  <2>2. Len(m) + 1 = Len(map) /\ Len(n) = Len(map)
    BY <1>1, <1>3, <2>1
  <2>3. DOMAIN m = 1..Len(m) /\ DOMAIN n = 1..Len(n)
    BY <1>2, <2>1
  <2>4. n[Len(map)] = map[at]
    BY <2>1, <2>2
  <2>5. QED
    BY <2>1, <2>2, <2>3, <2>4
<1>11. ASSUME NEW i \in DOMAIN n PROVE i = Len(map) \/ i \in DOMAIN m
  <2>1. i \in 1..Len(map) /\ Len(map) \in Nat
    BY <1>1, <1>10
  <2>2. i = Len(map) \/ i \in 1..(Len(map) - 1)
    BY <2>1
  <2>3. QED
    BY <1>2, <2>2
<1>12. \A i \in DOMAIN n : n[i].expires <= n[i].born + TimeToLive
  BY <1>6, <1>10, <1>11 DEF MapSound
<1>13. \A i, j \in DOMAIN n : n[i].key = n[j].key => i = j
  BY <1>6, <1>7, <1>10, <1>11
<1>14. MapSound(n)
  BY <1>8, <1>10, <1>12, <1>13 DEF MapSound
<1>15. QED
  BY <1>4, <1>9, <1>14

LEMMA LookUpKeeps == ASSUME MiddlewaresIInv, NEW c \in Calls, LookUp(c) PROVE MiddlewaresIInv'
<1> PICK call : call = requests[c]
  OBVIOUS
<1>1. call \in RequestRecord /\ CallSound(c, call) /\ Len(chain) \in Nat /\ DOMAIN chain = 1..Len(chain)
      /\ TimeToLive \in Nat
  BY MiddlewareFacts
<1>2. call.phase = "in" /\ inside = c /\ call.at \in DOMAIN chain /\ chain[call.at] = "cache"
  BY StandsAt DEF LookUp, RunsIn
<1>3. ~call.cached /\ call.passed = Above(call.at)
  BY <1>1, <1>2 DEF CallSound, GoingIn
<1>4. UNCHANGED <<chain, pace, tick, inside>> /\ MapSound(responses)
  BY DEF LookUp, MiddlewaresIInv
<1>5. CASE requests' = [requests EXCEPT ![c] = Onward(call)] /\ MapSound(responses')
  <2> PICK r : r = Onward(call)
    OBVIOUS
  <2>1. r \in RequestRecord /\ CallSound(c, r)
    BY <1>1, <1>2, <1>3, OnwardSound
  <2>2. CallSound(c, r)'
    BY <1>4, <2>1 DEF CallSound, GoingIn, Resting, ComingOut, WaitsItsTurn, Above
  <2>3. QED
    BY <1>2, <1>4, <1>5, <2>1, <2>2, CallMoves
<1>6. ASSUME NEW i \in DOMAIN responses, Live(responses[i]),
             responses' = Append(RemoveAt(responses, i), responses[i]),
             requests' = [requests EXCEPT ![c].phase = "out", ![c].at = @ - 1, ![c].result = "ok",
                                          ![c].born = responses[i].born, ![c].cached = TRUE]
      PROVE  MiddlewaresIInv'
  <2> PICK e : e = responses[i]
    OBVIOUS
  <2> PICK n : n = call.at - 1
    OBVIOUS
  <2> PICK r : r = [call EXCEPT !.phase = "out", !.at = n, !.result = "ok", !.born = e.born, !.cached = TRUE]
    OBVIOUS
  <2>1. e \in ResponseRecord /\ MapSound(responses') /\ e.expires <= e.born + TimeToLive
    BY <1>4, <1>6, DroppedSound DEF MapSound
  <2>2. requests' = [requests EXCEPT ![c] = r]
    BY <1>6
  <2>3. n \in Nat /\ n \in 0..Len(chain) /\ call.at = n + 1
    BY <1>1, <1>2
  <2>4. r \in RequestRecord
    BY <1>1, <2>1, <2>3 DEF RequestRecord, ResponseRecord
  <2>5. r.phase = "out" /\ r.at = n /\ r.born = e.born /\ r.passed = call.passed
      /\ r.result = "ok"
    BY <1>1 DEF RequestRecord
  <2>6. r.cached
    BY <1>1 DEF RequestRecord
  <2>7. tick - r.born < TimeToLive
    BY <1>1, <1>6, <2>1, <2>5 DEF Live, ResponseRecord, MiddlewaresIInv
  <2>8. Above(r.at + 1) \subseteq r.passed
    BY <1>3, <2>3, <2>5 DEF Above
  <2>9. \A j \in 1..r.at : chain[j] # "cache"
    <3>1. \A j, k \in DOMAIN chain : chain[j] = "cache" /\ chain[k] = "cache" => j = k
      BY MiddlewaresAssumption DEF MiddlewaresIInv
    <3>2. QED
      BY <1>1, <1>2, <2>3, <2>5, <3>1
  <2>10. ComingOut(r)
    BY <2>3, <2>5, <2>6, <2>7, <2>8, <2>9 DEF ComingOut
  <2>11. ComingOut(r)'
    BY <1>4, <2>10 DEF ComingOut, Above
  <2>12. CallSound(c, r)'
    BY <1>2, <1>4, <2>5, <2>11 DEF CallSound, GoingIn, Resting, WaitsItsTurn
  <2>13. QED
    BY <1>2, <1>4, <2>1, <2>2, <2>4, <2>12, CallMoves
<1>7. QED
  BY <1>4, <1>5, <1>6, DroppedSound DEF LookUp, Held

LEMMA SuffixFacts ==
  ASSUME NEW S, NEW s \in Seq(S), NEW k \in 0..Len(s)
  PROVE  /\ SubSeq(s, k + 1, Len(s)) \in Seq(S) /\ Len(SubSeq(s, k + 1, Len(s))) = Len(s) - k
         /\ \A i \in 1..(Len(s) - k) : SubSeq(s, k + 1, Len(s))[i] = s[k + i]
<1> DEFINE b == SubSeq(s, k + 1, Len(s))
<1>1. k + 1 \in Int /\ Len(s) \in Int /\ \A i \in (k + 1)..Len(s) : s[i] \in S
  OBVIOUS
<1>2. /\ b \in Seq(S) /\ Len(b) = IF k + 1 <= Len(s) THEN Len(s) - (k + 1) + 1 ELSE 0
      /\ \A i \in 1..(Len(s) - (k + 1) + 1) : b[i] = s[k + 1 + i - 1]
  BY <1>1, SubSeqProperties
<1> HIDE DEF b
<1>3. Len(b) = Len(s) - k
  BY <1>1, <1>2
<1>4. \A i \in 1..(Len(s) - k) : k + 1 + i - 1 = k + i /\ i \in 1..(Len(s) - (k + 1) + 1)
  BY <1>1
<1>5. b \in Seq(S) /\ Len(b) = Len(s) - k /\ \A i \in 1..(Len(s) - k) : b[i] = s[k + i]
  BY <1>2, <1>3, <1>4
<1>6. QED
  BY <1>5 DEF b

(* Map.set(), and the oldest entries that leave for it.                    *)
LEMMA StoredSound ==
  ASSUME MapSound(responses), NEW e \in ResponseRecord, e.expires <= e.born + TimeToLive
  PROVE  MapSound(Stored(e.key, e))
<1> DEFINE replaced == [i \in DOMAIN responses |-> IF responses[i].key = e.key THEN e ELSE responses[i]]
<1>a. PICK all : all = IF Held(e.key) = {} THEN Append(responses, e) ELSE replaced
  OBVIOUS
<1>b. PICK over : over = Max({0, Len(all) - MaxCached})
  OBVIOUS
<1> DEFINE map == SubSeq(all, over + 1, Len(all))
<1>1. Stored(e.key, e) = map
  BY <1>a, <1>b DEF Stored
<1>2. responses \in Seq(ResponseRecord) /\ Len(responses) \in Nat /\ MaxCached \in Nat
      /\ DOMAIN responses = 1..Len(responses)
  BY MiddlewaresAssumption DEF MapSound
<1>3. /\ all \in Seq(ResponseRecord)
      /\ \A i, j \in DOMAIN all : all[i].key = all[j].key => i = j
      /\ \A i \in DOMAIN all : all[i].expires <= all[i].born + TimeToLive
  <2>1. CASE Held(e.key) = {}
    <3>1. all = Append(responses, e)
      BY <1>a, <2>1
    <3>2. /\ all \in Seq(ResponseRecord) /\ Len(all) = Len(responses) + 1
          /\ all[Len(responses) + 1] = e /\ \A i \in 1..Len(responses) : all[i] = responses[i]
      BY <1>2, <3>1, AppendProperties
    <3>3. DOMAIN all = 1..(Len(responses) + 1)
      BY <3>2
    <3>4. \A i \in DOMAIN responses : responses[i].key # e.key
      BY <2>1 DEF Held
    <3>5. ASSUME NEW i \in DOMAIN all
          PROVE  \/ i = Len(responses) + 1 /\ all[i] = e
                 \/ i \in DOMAIN responses /\ all[i] = responses[i]
      BY <1>2, <3>2, <3>3
    <3>6. \A i \in DOMAIN all : all[i].expires <= all[i].born + TimeToLive
      BY <3>5 DEF MapSound
    <3>7. \A i, j \in DOMAIN all : all[i].key = all[j].key => i = j
      BY <3>4, <3>5 DEF MapSound
    <3>8. QED
      BY <3>2, <3>6, <3>7
  <2>2. CASE Held(e.key) # {}
    <3>1. all = replaced
      BY <1>a, <2>2
    <3>2. DOMAIN all = DOMAIN responses
          /\ \A i \in DOMAIN all : all[i] = IF responses[i].key = e.key THEN e ELSE responses[i]
      BY <3>1
    <3>3. all \in Seq(ResponseRecord)
      <4>1. \A i \in 1..Len(responses) : all[i] \in ResponseRecord
        BY <1>2, <3>2
      <4>2. all \in [1..Len(responses) -> ResponseRecord]
        BY <1>2, <3>1, <4>1
      <4>3. QED
        BY <1>2, <4>2, SeqDef
    <3>4. \A i \in DOMAIN all : all[i].key = responses[i].key
      BY <3>2
    <3>5. \A i, j \in DOMAIN all : all[i].key = all[j].key => i = j
      BY <3>2, <3>4 DEF MapSound
    <3>6. \A i \in DOMAIN all : all[i].expires <= all[i].born + TimeToLive
      BY <3>2 DEF MapSound
    <3>7. QED
      BY <3>3, <3>5, <3>6
  <2>3. QED
    BY <2>1, <2>2
<1>4. Len(all) \in Nat /\ DOMAIN all = 1..Len(all)
  BY <1>3
<1>5. over \in Nat /\ over >= Len(all) - MaxCached /\ over <= Len(all)
  <2>1. over = CHOOSE x \in {0, Len(all) - MaxCached} : \A y \in {0, Len(all) - MaxCached} : x >= y
    BY <1>b DEF Max
  <2>2. \E x \in {0, Len(all) - MaxCached} : \A y \in {0, Len(all) - MaxCached} : x >= y
    BY <1>2, <1>4
  <2>3. over \in {0, Len(all) - MaxCached} /\ \A y \in {0, Len(all) - MaxCached} : over >= y
    BY <2>1, <2>2
  <2>4. over >= 0 /\ over >= Len(all) - MaxCached
    BY <2>3
  <2>5. CASE over = 0
    BY <1>4, <2>4, <2>5
  <2>6. CASE over = Len(all) - MaxCached
    BY <1>2, <1>4, <2>4, <2>6
  <2>7. QED
    BY <2>3, <2>5, <2>6
<1>6. /\ map \in Seq(ResponseRecord) /\ Len(map) = Len(all) - over
      /\ \A i \in 1..(Len(all) - over) : map[i] = all[over + i]
  <2>1. over \in 0..Len(all)
    BY <1>4, <1>5
  <2>2. QED
    BY <1>3, <2>1, SuffixFacts
<1> HIDE DEF map
<1>7. DOMAIN map = 1..(Len(all) - over)
  BY <1>6
<1>8. ASSUME NEW i \in DOMAIN map PROVE over + i \in DOMAIN all /\ map[i] = all[over + i] /\ i \in Nat
  BY <1>4, <1>5, <1>6, <1>7
<1>9. \A i, j \in DOMAIN map : map[i].key = map[j].key => i = j
  <2> SUFFICES ASSUME NEW i \in DOMAIN map, NEW j \in DOMAIN map, map[i].key = map[j].key PROVE i = j
    OBVIOUS
  <2>1. over + i = over + j
    BY <1>3, <1>8
  <2>2. QED
    BY <1>5, <1>8, <2>1
<1>10. \A i \in DOMAIN map : map[i].expires <= map[i].born + TimeToLive
  BY <1>3, <1>8
<1>11. QED
  BY <1>1, <1>2, <1>4, <1>5, <1>6, <1>9, <1>10 DEF MapSound

(* A stage passes the answer on as it is.                                  *)
LEMMA PassedUp ==
  ASSUME MiddlewaresIInv, NEW c \in Calls, requests[c].phase = "out", requests[c].at \in DOMAIN chain,
         UNCHANGED <<chain, pace, tick, inside>>, MapSound(responses'),
         requests' = [requests EXCEPT ![c].at = @ - 1]
  PROVE  MiddlewaresIInv'
<1> PICK call : call = requests[c]
  OBVIOUS
<1> PICK n : n = call.at - 1
  OBVIOUS
<1> PICK r : r = [call EXCEPT !.at = n]
  OBVIOUS
<1>1. call \in RequestRecord /\ CallSound(c, call) /\ Len(chain) \in Nat /\ DOMAIN chain = 1..Len(chain)
  BY MiddlewareFacts
<1>2. requests' = [requests EXCEPT ![c] = r] /\ call.phase = "out" /\ call.at \in DOMAIN chain
  OBVIOUS
<1>3. n \in Nat /\ call.at = n + 1 /\ n \in 0..Len(chain)
  BY <1>1, <1>2
<1>4. r \in RequestRecord
  BY <1>1, <1>3 DEF RequestRecord
<1>5. r.phase = "out" /\ r.at = n /\ r.born = call.born /\ r.passed = call.passed
      /\ r.result = call.result
  BY <1>1, <1>2 DEF RequestRecord
<1>6. r.cached = call.cached
  BY <1>1 DEF RequestRecord
<1>7. ComingOut(call) /\ inside = c
  BY <1>1, <1>2 DEF CallSound
<1>8. Above(r.at + 1) \subseteq r.passed
  BY <1>2, <1>3, <1>5, <1>7 DEF Above, ComingOut
<1>9. \A i \in 1..r.at : i \in 1..call.at
  BY <1>3, <1>5
<1>10. ComingOut(r)'
  <2>1. ComingOut(r)
    BY <1>2, <1>3, <1>5, <1>6, <1>7, <1>8, <1>9 DEF ComingOut
  <2>2. QED
    BY <2>1 DEF ComingOut, Above
<1>11. CallSound(c, r)'
  BY <1>5, <1>7, <1>10 DEF CallSound, GoingIn, Resting, WaitsItsTurn
<1>12. QED
  BY <1>2, <1>4, <1>7, <1>11, CallMoves

LEMMA PassUpKeeps == ASSUME MiddlewaresIInv, NEW c \in Calls, PassUp(c) PROVE MiddlewaresIInv'
<1>1. requests[c].phase = "out" /\ requests[c].at \in DOMAIN chain
  BY StandsAt DEF PassUp, Returning
<1>2. MapSound(responses') /\ UNCHANGED <<chain, pace, tick, inside>>
      /\ requests' = [requests EXCEPT ![c].at = @ - 1]
  BY DEF PassUp, MiddlewaresIInv
<1>3. QED
  BY <1>1, <1>2, PassedUp

LEMMA StoreKeeps == ASSUME MiddlewaresIInv, NEW c \in Calls, Store(c) PROVE MiddlewaresIInv'
<1> PICK call : call = requests[c]
  OBVIOUS
<1> PICK e : e = [key |-> call.key, born |-> call.born, expires |-> tick + TimeToLive]
  OBVIOUS
<1>1. call \in RequestRecord /\ CallSound(c, call) /\ TimeToLive \in Nat /\ DOMAIN chain = 1..Len(chain)
  BY MiddlewareFacts
<1>2. call.phase = "out" /\ call.at \in DOMAIN chain /\ chain[call.at] = "cache"
  BY StandsAt DEF Store, Returning
<1>3. MapSound(responses')
  <2>1. CASE call.get /\ call.result = "ok"
    <3>1. ~call.cached
      BY <1>1, <1>2 DEF CallSound, ComingOut
    <3>2. call.born = tick /\ tick \in Nat
      BY <1>1, <1>2, <2>1, <3>1 DEF CallSound, ComingOut, MiddlewaresIInv
    <3>3. e \in ResponseRecord /\ e.expires <= e.born + TimeToLive /\ e.key = call.key
      BY <1>1, <3>2 DEF RequestRecord, ResponseRecord
    <3>4. responses' = Stored(e.key, e)
      BY <2>1, <3>3 DEF Store
    <3>5. QED
      BY <3>3, <3>4, StoredSound DEF MiddlewaresIInv
  <2>2. CASE ~(call.get /\ call.result = "ok")
    BY <2>2 DEF Store, MiddlewaresIInv
  <2>3. QED
    BY <2>1, <2>2
<1>4. UNCHANGED <<chain, pace, tick, inside>> /\ requests' = [requests EXCEPT ![c].at = @ - 1]
  BY DEF Store
<1>5. QED
  BY <1>2, <1>3, <1>4, PassedUp

(* A call leaves the pace stage, which had it wait since a, or did not.    *)
LEMMA PassKeeps ==
  ASSUME MiddlewaresIInv, NEW c \in Calls, NEW r, NEW a \in Nat,
         inside \in {0, c}, inside' = c, UNCHANGED <<chain, responses, tick>>,
         requests' = [requests EXCEPT ![c] = r],
         r \in RequestRecord, CallSound(c, r)', r.phase = "in",
         pace' = [last |-> tick, passes |-> pace.passes \cup {<<c, a, tick>>}],
         a <= tick,
         \A p \in pace.passes : tick < p[3] + MinDelay => a <= p[3]
  PROVE  MiddlewaresIInv'
<1> PICK q : q = <<c, a, tick>>
  OBVIOUS
<1>1. tick \in Nat /\ pace.passes \subseteq Calls \X Nat \X Nat /\ MinDelay \in Nat /\ pace.last \in Int
  BY MiddlewaresAssumption DEF MiddlewaresIInv
<1>2. q \in Calls \X Nat \X Nat /\ q[2] = a /\ q[3] = tick
  BY <1>1
<1>3. pace'.last = tick /\ pace'.passes = pace.passes \cup {q} /\ tick' = tick /\ chain' = chain
  OBVIOUS
<1>4. (pace \in [last : Int, passes : SUBSET (Calls \X Nat \X Nat)])'
  BY <1>1, <1>2
<1>5. ASSUME NEW p \in pace.passes
      PROVE  p[2] <= p[3] /\ p[3] <= tick /\ p[2] \in Nat /\ p[3] \in Nat
  <2>1. p[2] <= p[3] /\ p[3] <= pace.last /\ pace.last <= tick
    BY DEF MiddlewaresIInv, PaceSound
  <2>2. p[2] \in Nat /\ p[3] \in Nat
    BY <1>1
  <2>3. QED
    BY <1>1, <2>1, <2>2
<1>6. PaceSound'
  BY <1>1, <1>2, <1>3, <1>5 DEF PaceSound
<1>7. PaceKept'
  <2> SUFFICES ASSUME NEW p \in pace'.passes, NEW n \in pace'.passes,
                      p # n, p[3] <= n[3], n[3] - p[3] < MinDelay
               PROVE  n[2] <= p[3]
    BY DEF PaceKept
  <2>1. CASE p \in pace.passes /\ n \in pace.passes
    BY <2>1 DEF MiddlewaresIInv, PaceKept
  <2>2. CASE p \in pace.passes /\ n = q
    <3>1. tick < p[3] + MinDelay
      BY <1>1, <1>2, <1>5, <2>2
    <3>2. QED
      BY <1>2, <2>2, <3>1
  <2>3. CASE p = q /\ n \in pace.passes
    BY <1>2, <1>5, <2>3
  <2>4. QED
    BY <1>3, <2>1, <2>2, <2>3
<1>8. RequestRecord' = RequestRecord
  BY DEF RequestRecord
<1>9. requests \in [Calls -> RequestRecord] /\ (requests \in [Calls -> RequestRecord])'
  BY <1>8 DEF MiddlewaresIInv
<1>10. ASSUME NEW d \in Calls PROVE CallSound(d, requests[d])'
  <2>1. CASE d = c
    <3>1. requests'[d] = r
      BY <1>9, <2>1
    <3>2. QED
      BY <2>1, <3>1 DEF CallSound, GoingIn, Resting, ComingOut, WaitsItsTurn, Above
  <2>2. CASE d # c
    <3> PICK call : call = requests[d]
      OBVIOUS
    <3>1. requests'[d] = call
      BY <1>9, <2>2
    <3>2. CallSound(d, call) /\ d # 0 /\ call \in RequestRecord
      BY MiddlewareFacts
    <3>3. call.phase \notin {"in", "out"}
      BY <2>2, <3>2 DEF CallSound
    <3>4. GoingIn(call)' /\ Resting(call)' /\ ComingOut(call)'
      BY <3>2 DEF CallSound, GoingIn, Resting, ComingOut, Above
    <3>5. WaitsItsTurn(call)'
      BY <1>2, <1>3, <3>2 DEF CallSound, WaitsItsTurn
    <3>6. CallSound(d, call)'
      BY <3>2, <3>3, <3>4, <3>5 DEF CallSound
    <3>7. QED
      BY <3>1, <3>6 DEF CallSound, GoingIn, Resting, ComingOut, WaitsItsTurn, Above
  <2>3. QED
    BY <2>1, <2>2
<1>11. MapSound(responses)'
  BY DEF MiddlewaresIInv, MapSound, ResponseRecord
<1>12. (chain \in Chains /\ tick \in Nat /\ inside \in Calls \cup {0})'
  BY DEF MiddlewaresIInv
<1>13. QED
  BY <1>4, <1>6, <1>7, <1>9, <1>10, <1>11, <1>12 DEF MiddlewaresIInv

LEMMA PaceStageKeeps == ASSUME MiddlewaresIInv, NEW c \in Calls, Pace(c) PROVE MiddlewaresIInv'
<1> PICK call : call = requests[c]
  OBVIOUS
<1> PICK wait : wait = pace.last + MinDelay - tick
  OBVIOUS
<1>1. call \in RequestRecord /\ CallSound(c, call) /\ MinDelay \in Nat /\ Len(chain) \in Nat
      /\ DOMAIN chain = 1..Len(chain)
  BY MiddlewareFacts
<1>2. call.phase = "in" /\ inside = c /\ call.at \in DOMAIN chain /\ chain[call.at] = "pace"
  BY StandsAt DEF Pace, RunsIn
<1>3. ~call.cached /\ call.passed = Above(call.at)
  BY <1>1, <1>2 DEF CallSound, GoingIn
<1>4. UNCHANGED <<chain, responses, tick>> /\ tick \in Nat /\ pace.last \in Int
      /\ pace.passes \subseteq Calls \X Nat \X Nat
  BY DEF Pace, MiddlewaresIInv
<1>5. \A p \in pace.passes : p[3] <= pace.last /\ p[3] \in Nat
  BY <1>4 DEF MiddlewaresIInv, PaceSound
<1>6. CASE wait > 0
  <2> PICK w : w = tick + wait
    OBVIOUS
  <2> PICK r : r = [call EXCEPT !.arrived = tick, !.wake = w, !.phase = "resting"]
    OBVIOUS
  <2>11. ~(pace.last + MinDelay - tick <= 0) /\ tick + wait = tick + (pace.last + MinDelay - tick)
    BY <1>1, <1>4, <1>6
  <2>1. /\ requests' = [requests EXCEPT ![c].arrived = tick, ![c].wake = tick + wait,
                                       ![c].phase = "resting"]
        /\ inside' = 0 /\ pace' = pace
    BY <2>11, Zenon DEF Pace
  <2>10. requests' = [requests EXCEPT ![c] = r]
    BY <2>1
  <2>2. w \in Int /\ w = pace.last + MinDelay
    BY <1>1, <1>4
  <2>3. r \in RequestRecord
    BY <1>1, <1>4, <2>2 DEF RequestRecord
  <2>4. r.phase = "resting" /\ r.at = call.at /\ r.passed = call.passed /\ r.arrived = tick /\ r.wake = w
    BY <1>1 DEF RequestRecord
  <2>5. ~r.cached
    BY <1>1, <1>3 DEF RequestRecord
  <2>6. Resting(r) /\ WaitsItsTurn(r)
    BY <1>1, <1>2, <1>3, <1>4, <1>5, <2>2, <2>4 DEF Resting, WaitsItsTurn
  <2>7. CallSound(c, r)'
    BY <1>4, <2>1, <2>4, <2>5, <2>6 DEF CallSound, GoingIn, ComingOut, Resting, WaitsItsTurn, Above
  <2>8. MapSound(responses')
    BY <1>4 DEF MiddlewaresIInv
  <2>9. QED
    BY <1>2, <1>4, <2>1, <2>3, <2>7, <2>8, <2>10, CallMoves
<1>7. CASE ~(wait > 0)
  <2> PICK q : q = [call EXCEPT !.arrived = tick]
    OBVIOUS
  <2> PICK r : r = Onward(q)
    OBVIOUS
  <2>1. requests' = [requests EXCEPT ![c] = r] /\ inside' = c
        /\ pace' = [last |-> tick, passes |-> pace.passes \cup {<<c, tick, tick>>}]
    BY <1>1, <1>2, <1>4, <1>7 DEF Pace
  <2>2. q \in RequestRecord /\ q.phase = "in" /\ q.at = call.at /\ q.passed = call.passed
    BY <1>1, <1>2, <1>4 DEF RequestRecord
  <2>3. ~q.cached
    BY <1>1, <1>3 DEF RequestRecord
  <2>9. q.at \in DOMAIN chain /\ q.passed = Above(q.at)
    BY <1>2, <1>3, <2>2
  <2>4. r \in RequestRecord /\ r.phase = "in" /\ ~r.cached
        /\ GoingIn(r) /\ Resting(r) /\ ComingOut(r) /\ WaitsItsTurn(r)
    BY <2>2, <2>3, <2>9, OnwardSound
  <2>5. CallSound(c, r)'
    BY <1>4, <2>1, <2>4 DEF CallSound, GoingIn, Resting, ComingOut, WaitsItsTurn, Above
  <2>6. wait \in Int /\ pace.last + MinDelay <= tick
    BY <1>1, <1>4, <1>7
  <2>7. \A p \in pace.passes : ~(tick < p[3] + MinDelay)
    BY <1>1, <1>4, <1>5, <2>6
  <2>10. tick <= tick /\ \A p \in pace.passes : tick < p[3] + MinDelay => tick <= p[3]
    BY <1>4, <2>7
  <2>8. QED
    BY <1>2, <1>4, <2>1, <2>4, <2>5, <2>10, PassKeeps
<1>8. QED
  BY <1>6, <1>7

LEMMA PaceEndsKeeps == ASSUME MiddlewaresIInv, NEW c \in Calls, PaceEnds(c) PROVE MiddlewaresIInv'
<1> PICK call : call = requests[c]
  OBVIOUS
<1>1. call \in RequestRecord /\ CallSound(c, call) /\ MinDelay \in Nat
  BY MiddlewareFacts
<1>2. call.phase = "resting" /\ inside = 0 /\ call.at \in DOMAIN chain /\ chain[call.at] = "pace"
      /\ tick >= call.wake
  BY StandsAt DEF PaceEnds, Awake
<1>3. ~call.cached /\ call.passed = Above(call.at)
  BY <1>1, <1>2 DEF CallSound, Resting
<1>4. UNCHANGED <<chain, responses, tick>> /\ tick \in Nat /\ pace.last \in Int /\ inside' = c
      /\ pace \in [last : Int, passes : SUBSET (Calls \X Nat \X Nat)]
  BY DEF PaceEnds, MiddlewaresIInv
<1> PICK q : q = [call EXCEPT !.phase = "in"]
  OBVIOUS
<1> PICK r : r = Onward(q)
  OBVIOUS
<1>5. requests' = [requests EXCEPT ![c] = r]
  BY DEF PaceEnds
<1>6. pace' = [last |-> tick, passes |-> pace.passes \cup {<<c, call.arrived, tick>>}]
  BY <1>4 DEF PaceEnds
<1>7. q \in RequestRecord /\ q.phase = "in" /\ q.at = call.at /\ q.passed = call.passed
  BY <1>1 DEF RequestRecord
<1>8. ~q.cached
  BY <1>1, <1>3 DEF RequestRecord
<1>15. q.at \in DOMAIN chain /\ q.passed = Above(q.at)
  BY <1>2, <1>3, <1>7
<1>9. r \in RequestRecord /\ r.phase = "in" /\ ~r.cached
      /\ GoingIn(r) /\ Resting(r) /\ ComingOut(r) /\ WaitsItsTurn(r)
  BY <1>7, <1>8, <1>15, OnwardSound
<1>10. CallSound(c, r)'
  BY <1>4, <1>9 DEF CallSound, GoingIn, Resting, ComingOut, WaitsItsTurn, Above
<1>11. call.arrived <= tick /\ call.arrived \in Nat
       /\ \A p \in pace.passes : call.wake < p[3] + MinDelay => call.arrived <= p[3]
  BY <1>1, <1>2 DEF CallSound, WaitsItsTurn, RequestRecord
<1>12. call.wake \in Int /\ \A p \in pace.passes : p[3] \in Nat
  BY <1>1, <1>4 DEF RequestRecord
<1>13. \A p \in pace.passes : tick < p[3] + MinDelay => call.arrived <= p[3]
  BY <1>1, <1>2, <1>4, <1>11, <1>12
<1>14. QED
  BY <1>2, <1>4, <1>5, <1>6, <1>9, <1>10, <1>11, <1>13, PassKeeps

LEMMA SendOnKeeps == ASSUME MiddlewaresIInv, NEW c \in Calls, SendOn(c) PROVE MiddlewaresIInv'
<1> PICK call : call = requests[c]
  OBVIOUS
<1>1. call \in RequestRecord /\ CallSound(c, call) /\ Len(chain) \in Nat /\ DOMAIN chain = 1..Len(chain)
      /\ \A i \in DOMAIN chain : chain[i] # "transport"
  BY MiddlewareFacts
<1>2. call.phase = "in" /\ inside = c /\ call.at \notin DOMAIN chain
  BY <1>1 DEF SendOn, RunsIn, Stage
<1>3. ~call.cached /\ call.passed = Above(call.at) /\ call.at \in 1..(Len(chain) + 1)
  BY <1>1, <1>2 DEF CallSound, GoingIn
<1>4. call.at = Len(chain) + 1
  BY <1>1, <1>2, <1>3
<1>5. UNCHANGED <<chain, pace, tick>> /\ MapSound(responses')
  BY DEF SendOn, MiddlewaresIInv
<1>6. CASE call.cut
  <2> PICK n : n = call.at - 1
    OBVIOUS
  <2> PICK r : r = [call EXCEPT !.phase = "out", !.result = "abort", !.at = n]
    OBVIOUS
  <2>1. requests' = [requests EXCEPT ![c] = r] /\ inside' = c
    BY <1>6 DEF SendOn
  <2>2. n = Len(chain) /\ n \in Nat /\ n + 1 = call.at
    BY <1>1, <1>4
  <2>3. r \in RequestRecord
    BY <1>1, <2>2 DEF RequestRecord
  <2>4. r.phase = "out" /\ r.at = n /\ r.passed = call.passed /\ r.result = "abort"
    BY <1>1 DEF RequestRecord
  <2>5. ~r.cached
    BY <1>1, <1>3 DEF RequestRecord
  <2>6. ComingOut(r)
    BY <1>1, <1>3, <2>2, <2>4, <2>5 DEF ComingOut
  <2>7. CallSound(c, r)'
    BY <1>5, <2>1, <2>4, <2>5, <2>6 DEF CallSound, GoingIn, Resting, ComingOut, WaitsItsTurn, Above
  <2>8. QED
    BY <1>2, <1>5, <2>1, <2>3, <2>7, CallMoves
<1>7. CASE ~call.cut
  <2> PICK r : r = [call EXCEPT !.phase = "sent", !.result = "none"]
    OBVIOUS
  <2>1. requests' = [requests EXCEPT ![c] = r] /\ inside' = 0
    BY <1>7 DEF SendOn
  <2>2. r \in RequestRecord
    BY <1>1 DEF RequestRecord
  <2>3. r.phase = "sent" /\ r.at = call.at /\ r.passed = call.passed
    BY <1>1 DEF RequestRecord
  <2>4. ~r.cached
    BY <1>1, <1>3 DEF RequestRecord
  <2>5. GoingIn(r)
    BY <1>3, <1>4, <2>3 DEF GoingIn
  <2>6. CallSound(c, r)'
    BY <1>5, <2>3, <2>4, <2>5 DEF CallSound, GoingIn, Resting, ComingOut, WaitsItsTurn, Above
  <2>7. QED
    BY <1>2, <1>5, <2>1, <2>2, <2>6, CallMoves
<1>8. QED
  BY <1>6, <1>7

LEMMA ArrivesKeeps ==
  ASSUME MiddlewaresIInv, NEW c \in Calls, NEW result \in {"ok", "refused", "error", "abort"},
         Arrives(c, result)
  PROVE  MiddlewaresIInv'
<1> PICK call : call = requests[c]
  OBVIOUS
<1> PICK n : n = call.at - 1
  OBVIOUS
<1> PICK b : b = IF result = "ok" THEN tick ELSE 0
  OBVIOUS
<1> PICK r : r = [call EXCEPT !.phase = "out", !.at = n, !.result = result, !.born = b]
  OBVIOUS
<1>1. call \in RequestRecord /\ CallSound(c, call) /\ Len(chain) \in Nat
  BY MiddlewareFacts
<1>2. call.phase = "sent" /\ inside = 0 /\ inside' = c /\ UNCHANGED <<chain, responses, pace, tick>>
      /\ tick \in Nat
  BY DEF Arrives, MiddlewaresIInv
<1>3. requests' = [requests EXCEPT ![c] = r]
  BY DEF Arrives
<1>4. ~call.cached /\ call.passed = Above(call.at) /\ call.at = Len(chain) + 1
  BY <1>1, <1>2 DEF CallSound, GoingIn
<1>5. n = Len(chain) /\ n \in Nat /\ n + 1 = call.at /\ b \in Nat
  BY <1>1, <1>2, <1>4
<1>6. r \in RequestRecord
  BY <1>1, <1>5 DEF RequestRecord
<1>7. r.phase = "out" /\ r.at = n /\ r.passed = call.passed /\ r.result = result /\ r.born = b
  BY <1>1 DEF RequestRecord
<1>8. ~r.cached
  BY <1>1, <1>4 DEF RequestRecord
<1>9. ComingOut(r)
  BY <1>1, <1>4, <1>5, <1>7, <1>8 DEF ComingOut
<1>10. CallSound(c, r)'
  BY <1>2, <1>7, <1>8, <1>9 DEF CallSound, GoingIn, Resting, ComingOut, WaitsItsTurn, Above
<1>11. MapSound(responses')
  BY <1>2 DEF MiddlewaresIInv
<1>12. QED
  BY <1>2, <1>3, <1>6, <1>10, <1>11, CallMoves

LEMMA RetryKeeps == ASSUME MiddlewaresIInv, NEW c \in Calls, Retry(c) PROVE MiddlewaresIInv'
<1> PICK call : call = requests[c]
  OBVIOUS
<1>1. call \in RequestRecord /\ CallSound(c, call) /\ Len(chain) \in Nat /\ DOMAIN chain = 1..Len(chain)
  BY MiddlewareFacts
<1>2. call.phase = "out" /\ inside = c /\ call.at \in DOMAIN chain /\ chain[call.at] = "retry"
  BY StandsAt DEF Retry, Returning
<1>3. UNCHANGED <<chain, responses, pace, tick>> /\ MapSound(responses') /\ tick \in Nat
  BY DEF Retry, MiddlewaresIInv
<1> DEFINE again == call.result = "error" /\ ~call.cut /\ call.again < MaxAgain
<1>4. CASE again
  <2> PICK w : w = tick + 1
    OBVIOUS
  <2> PICK r : r = [call EXCEPT !.phase = "resting", !.wake = w]
    OBVIOUS
  <2>1. requests' = [requests EXCEPT ![c] = r] /\ inside' = 0
    BY <1>4 DEF Retry
  <2>2. w \in Int
    BY <1>3
  <2>3. r \in RequestRecord
    BY <1>1, <2>2 DEF RequestRecord
  <2>4. r.phase = "resting" /\ r.at = call.at /\ r.passed = call.passed
    BY <1>1 DEF RequestRecord
  <2>5. r.cached = call.cached
    BY <1>1 DEF RequestRecord
  <2>6. Above(call.at + 1) \subseteq call.passed
    BY <1>1, <1>2 DEF CallSound, ComingOut
  <2>7. ~r.cached
    BY <1>1, <1>2, <1>4, <2>5 DEF CallSound, ComingOut
  <2>8. Resting(r)
    BY <1>2, <2>4, <2>6 DEF Resting
  <2>9. WaitsItsTurn(r)
    BY <1>2, <2>4 DEF WaitsItsTurn
  <2>10. CallSound(c, r)'
    BY <1>3, <2>1, <2>4, <2>7, <2>8, <2>9 DEF CallSound, GoingIn, Resting, ComingOut, WaitsItsTurn, Above
  <2>11. QED
    BY <1>2, <1>3, <2>1, <2>3, <2>10, CallMoves
<1>5. CASE ~again
  <2> PICK r : r = [call EXCEPT !.at = call.at - 1]
    OBVIOUS
  <2>1. requests' = [requests EXCEPT ![c] = r] /\ inside' = c
    BY <1>5 DEF Retry
  <2>2. requests' = [requests EXCEPT ![c].at = @ - 1] /\ UNCHANGED inside
    BY <1>2, <2>1
  <2>3. QED
    BY <1>2, <1>3, <2>2, PassedUp
<1>6. QED
  BY <1>4, <1>5

LEMMA RetryEndsKeeps == ASSUME MiddlewaresIInv, NEW c \in Calls, RetryEnds(c) PROVE MiddlewaresIInv'
<1> PICK call : call = requests[c]
  OBVIOUS
<1> PICK n : n = call.at + 1
  OBVIOUS
<1> PICK m : m = call.again + 1
  OBVIOUS
<1> PICK s : s = {i \in call.passed : i <= call.at}
  OBVIOUS
<1> PICK r : r = [call EXCEPT !.phase = "in", !.at = n, !.again = m, !.passed = s]
  OBVIOUS
<1>1. call \in RequestRecord /\ CallSound(c, call) /\ Len(chain) \in Nat /\ DOMAIN chain = 1..Len(chain)
  BY MiddlewareFacts
<1>2. call.phase = "resting" /\ inside = 0 /\ call.at \in DOMAIN chain /\ chain[call.at] = "retry"
  BY StandsAt DEF RetryEnds, Awake
<1>3. UNCHANGED <<chain, responses, pace, tick>> /\ MapSound(responses') /\ inside' = c
  BY DEF RetryEnds, MiddlewaresIInv
<1>4. requests' = [requests EXCEPT ![c] = r]
  BY DEF RetryEnds, NextAttempt
<1>5. n \in Nat /\ m \in Nat /\ n \in 1..(Len(chain) + 1)
  BY <1>1, <1>2 DEF RequestRecord
<1>6. call.passed \subseteq DOMAIN chain /\ ~call.cached /\ Above(call.at + 1) \subseteq call.passed
  BY <1>1, <1>2 DEF CallSound, Resting, RequestRecord
<1>7. s \in SUBSET DOMAIN chain /\ s = Above(n)
  BY <1>1, <1>2, <1>6 DEF Above
<1>8. r \in RequestRecord
  BY <1>1, <1>5, <1>7 DEF RequestRecord
<1>9. r.phase = "in" /\ r.at = n /\ r.passed = s
  BY <1>1 DEF RequestRecord
<1>10. ~r.cached
  BY <1>1, <1>6 DEF RequestRecord
<1>11. GoingIn(r)
  BY <1>5, <1>7, <1>9 DEF GoingIn
<1>12. CallSound(c, r)'
  BY <1>3, <1>9, <1>10, <1>11 DEF CallSound, GoingIn, Resting, ComingOut, WaitsItsTurn, Above
<1>13. QED
  BY <1>2, <1>3, <1>4, <1>8, <1>12, CallMoves

LEMMA FinishKeeps == ASSUME MiddlewaresIInv, NEW c \in Calls, Finish(c) PROVE MiddlewaresIInv'
<1> PICK r : r = [Unstarted EXCEPT !.phase = "done"]
  OBVIOUS
<1>1. requests' = [requests EXCEPT ![c] = r] /\ inside = c /\ inside' = 0
      /\ UNCHANGED <<chain, responses, pace, tick>> /\ MapSound(responses')
  BY DEF Finish, MiddlewaresIInv
<1>2. r \in RequestRecord /\ r.phase = "done" /\ ~r.cached
  BY UnstartedSound DEF Unstarted
<1>3. CallSound(c, r)'
  BY <1>2 DEF CallSound, GoingIn, Resting, ComingOut, WaitsItsTurn
<1>4. QED
  BY <1>1, <1>2, <1>3, CallMoves

LEMMA CutCallKeeps == ASSUME MiddlewaresIInv, NEW c \in Calls, CutCall(c) PROVE MiddlewaresIInv'
<1> PICK call : call = requests[c]
  OBVIOUS
<1> PICK r : r = [call EXCEPT !.cut = TRUE]
  OBVIOUS
<1>1. call \in RequestRecord /\ CallSound(c, call)
  BY MiddlewareFacts
<1>2. call.phase \in {"resting", "sent"} /\ inside = 0 /\ inside' = inside
      /\ UNCHANGED <<chain, responses, pace, tick>> /\ MapSound(responses')
  BY DEF CutCall, MiddlewaresIInv
<1>3. requests' = [requests EXCEPT ![c] = r]
  BY DEF CutCall
<1>4. r \in RequestRecord
  BY <1>1 DEF RequestRecord
<1>5. r.phase = call.phase /\ r.at = call.at /\ r.passed = call.passed /\ r.arrived = call.arrived
      /\ r.wake = call.wake
  BY <1>1 DEF RequestRecord
<1>6. r.cached = call.cached
  BY <1>1 DEF RequestRecord
<1>7. CallSound(c, r)
  BY <1>1, <1>2, <1>5, <1>6 DEF CallSound, GoingIn, Resting, ComingOut, WaitsItsTurn
<1>8. CallSound(c, r)'
  BY <1>2, <1>7 DEF CallSound, GoingIn, Resting, ComingOut, WaitsItsTurn, Above
<1>9. QED
  BY <1>2, <1>3, <1>4, <1>8, CallMoves

(* The clock moves only while nobody's code runs.                          *)
LEMMA MiddlewareClockKeeps == ASSUME MiddlewaresIInv, MiddlewareClock PROVE MiddlewaresIInv'
<1>1. inside = 0 /\ tick' = tick + 1 /\ UNCHANGED <<chain, responses, pace, inside, requests>>
      /\ tick \in Nat
  BY DEF MiddlewareClock, MiddlewaresIInv
<1>2. ASSUME NEW c \in Calls PROVE CallSound(c, requests[c])'
  <2> PICK call : call = requests[c]
    OBVIOUS
  <2>1. CallSound(c, call) /\ c # 0 /\ call \in RequestRecord /\ requests'[c] = call
    BY <1>1, MiddlewareFacts
  <2>2. call.phase \notin {"in", "out"} /\ call.arrived \in Nat
    BY <1>1, <2>1 DEF CallSound, RequestRecord
  <2>3. GoingIn(call)' /\ Resting(call)' /\ ComingOut(call)'
    BY <1>1, <2>1, <2>2 DEF CallSound, GoingIn, Resting, ComingOut, Above
  <2>4. WaitsItsTurn(call)'
    BY <1>1, <2>1, <2>2 DEF CallSound, WaitsItsTurn
  <2>5. CallSound(c, call)'
    BY <2>1, <2>2, <2>3, <2>4 DEF CallSound
  <2>6. QED
    BY <2>1, <2>5 DEF CallSound, GoingIn, Resting, ComingOut, WaitsItsTurn, Above
<1>3. PaceSound' /\ PaceKept'
  <2>1. pace.last \in Int
    BY DEF MiddlewaresIInv
  <2>2. QED
    BY <1>1, <2>1 DEF MiddlewaresIInv, PaceSound, PaceKept
<1>4. RequestRecord' = RequestRecord
  BY <1>1 DEF RequestRecord
<1>5. MapSound(responses)'
  BY <1>1 DEF MiddlewaresIInv, MapSound, ResponseRecord
<1>6. QED
  BY <1>1, <1>2, <1>3, <1>4, <1>5 DEF MiddlewaresIInv

LEMMA MiddlewaresStart == MiddlewaresInit => MiddlewaresIInv
<1> SUFFICES ASSUME MiddlewaresInit PROVE MiddlewaresIInv
  OBVIOUS
<1>1. chain \in Chains /\ tick = 0 /\ inside = 0 /\ responses = <<>>
  BY DEF MiddlewaresInit
<1>2. pace.last = 0 - MinDelay /\ pace.passes = {} /\ MinDelay \in Nat /\ MaxCached \in Nat
  BY MiddlewaresAssumption DEF MiddlewaresInit
<1>3. pace \in [last : Int, passes : SUBSET (Calls \X Nat \X Nat)]
  BY <1>2 DEF MiddlewaresInit
<1>4. requests \in [Calls -> RequestRecord] /\ \A c \in Calls : requests[c] = Unstarted
  BY UnstartedSound DEF MiddlewaresInit
<1>5. Unstarted.phase = "new" /\ ~Unstarted.cached
  BY DEF Unstarted
<1>6. \A c \in Calls : CallSound(c, requests[c])
  BY <1>4, <1>5 DEF CallSound, GoingIn, Resting, ComingOut, WaitsItsTurn
<1>7. MapSound(responses)
  <2>1. responses \in Seq(ResponseRecord) /\ Len(responses) = 0 /\ DOMAIN responses = {}
    BY <1>1
  <2>2. QED
    BY <1>2, <2>1 DEF MapSound
<1>8. PaceSound /\ PaceKept
  BY <1>1, <1>2 DEF PaceSound, PaceKept
<1>9. QED
  BY <1>1, <1>3, <1>4, <1>6, <1>7, <1>8 DEF MiddlewaresIInv

LEMMA MiddlewaresStep == MiddlewaresIInv /\ [MiddlewaresNext]_middlewareVars => MiddlewaresIInv'
<1> SUFFICES ASSUME MiddlewaresIInv, [MiddlewaresNext]_middlewareVars PROVE MiddlewaresIInv'
  OBVIOUS
<1>1. CASE UNCHANGED middlewareVars
  <2>1. UNCHANGED <<chain, responses, pace, tick, inside, requests>>
    BY <1>1 DEF middlewareVars
  <2>2. RequestRecord' = RequestRecord
    BY <2>1 DEF RequestRecord
  <2>3. \A c \in Calls : CallSound(c, requests[c])'
    BY <2>1 DEF MiddlewaresIInv, CallSound, GoingIn, Resting, ComingOut, WaitsItsTurn, Above
  <2>4. MapSound(responses)' /\ PaceSound' /\ PaceKept'
    BY <2>1 DEF MiddlewaresIInv, MapSound, PaceSound, PaceKept, ResponseRecord
  <2>5. QED
    BY <2>1, <2>2, <2>3, <2>4 DEF MiddlewaresIInv
<1>2. ASSUME NEW c \in Calls, NEW key \in CacheKeys, NEW get \in BOOLEAN, Begin(c, key, get)
      PROVE  MiddlewaresIInv'
  BY <1>2, BeginKeeps
<1>3. ASSUME NEW c \in Calls, GoOn(c) \/ LookUp(c) \/ Pace(c) \/ PaceEnds(c) PROVE MiddlewaresIInv'
  BY <1>3, GoOnKeeps, LookUpKeeps, PaceStageKeeps, PaceEndsKeeps
<1>4. ASSUME NEW c \in Calls, SendOn(c) \/ PassUp(c) \/ Store(c) PROVE MiddlewaresIInv'
  BY <1>4, SendOnKeeps, PassUpKeeps, StoreKeeps
<1>5. ASSUME NEW c \in Calls, NEW result \in {"ok", "refused", "error", "abort"}, Arrives(c, result)
      PROVE  MiddlewaresIInv'
  BY <1>5, ArrivesKeeps
<1>6. ASSUME NEW c \in Calls, Retry(c) \/ RetryEnds(c) \/ Finish(c) \/ CutCall(c) PROVE MiddlewaresIInv'
  BY <1>6, RetryKeeps, RetryEndsKeeps, FinishKeeps, CutCallKeeps
<1>7. QED
  BY <1>1, <1>2, <1>3, <1>4, <1>5, <1>6, MiddlewareClockKeeps DEF MiddlewaresNext

LEMMA MiddlewaresImply == MiddlewaresIInv => StagesKept
<1> SUFFICES ASSUME MiddlewaresIInv PROVE StagesKept
  OBVIOUS
<1>1. ASSUME NEW c \in Calls, requests[c].phase = "sent" PROVE requests[c].passed = DOMAIN chain
  <2>1. requests[c].at = Len(chain) + 1 /\ requests[c].passed = Above(requests[c].at)
    BY <1>1, MiddlewareFacts DEF CallSound, GoingIn
  <2>2. Len(chain) \in Nat /\ DOMAIN chain = 1..Len(chain)
    BY MiddlewareFacts
  <2>3. QED
    BY <2>1, <2>2 DEF Above
<1>2. ASSUME NEW c \in Calls, requests[c].phase = "out", requests[c].cached
      PROVE  tick - requests[c].born < TimeToLive
  BY <1>2, MiddlewareFacts DEF CallSound, ComingOut
<1>3. QED
  BY <1>1, <1>2 DEF StagesKept, EveryAttemptWhole, CacheHonest, MiddlewaresIInv, MapSound

----------------------------------------------------------------------------
(* The calls of one request.  What a call has told its listeners follows   *)
(* its phase: a retry for each attempt it has left behind, an end once it  *)
(* has ended; what it has told the breaker is their sum.                   *)

UnaryEvents == {"start", "open", "retrying", "completed", "failed"}

UnaryRecord ==
  [phase : UnaryPhases, attempt : Nat, cut : BOOLEAN, late : BOOLEAN,
   events : Seq(UnaryEvents), reports : Nat]

TimesTold(s, e) == Cardinality({i \in DOMAIN s : s[i] = e})

UnaryTold(u) ==
  /\ TimesTold(u.events, "retrying") = IF u.phase = "resting" THEN u.attempt + 1 ELSE u.attempt
  /\ TimesTold(u.events, "completed") = IF u.phase = "answered" THEN 1 ELSE 0
  /\ TimesTold(u.events, "failed") = IF u.phase = "failed" THEN 1 ELSE 0
  /\ u.reports = TimesTold(u.events, "retrying") + TimesTold(u.events, "completed") + TimesTold(u.events, "failed")
  /\ TimesTold(u.events, "retrying") <= UnaryRetries
  /\ u.phase \in {"new", "unsupported", "refused"} => u.attempt = 0
  /\ u.late => (u.phase \in {"due", "resting"} /\ u.cut) \/ u.phase = "failed"

MultiModalIInv ==
  /\ Sane(circuit)
  /\ PlacesGivenBack
  /\ unary \in [UnaryCalls -> UnaryRecord]
  /\ \A c \in UnaryCalls : UnaryTold(unary[c])

LEMMA NoEvents == ASSUME NEW e PROVE TimesTold(<<>>, e) = 0
<1>1. {i \in DOMAIN <<>> : <<>>[i] = e} = {}
  OBVIOUS
<1>2. QED
  BY <1>1, FS_EmptySet DEF TimesTold

LEMMA EventAppended ==
  ASSUME NEW s \in Seq(UnaryEvents), NEW e \in UnaryEvents, NEW d
  PROVE  /\ TimesTold(Append(s, e), d) = IF d = e THEN TimesTold(s, d) + 1 ELSE TimesTold(s, d)
         /\ Append(s, e) \in Seq(UnaryEvents) /\ TimesTold(s, d) \in Nat
<1> DEFINE before == {i \in DOMAIN s : s[i] = d}
           after == {i \in DOMAIN Append(s, e) : Append(s, e)[i] = d}
<1>1. /\ Len(s) \in Nat /\ DOMAIN s = 1..Len(s) /\ DOMAIN Append(s, e) = 1..(Len(s) + 1)
      /\ Append(s, e) \in Seq(UnaryEvents)
      /\ Append(s, e)[Len(s) + 1] = e /\ \A i \in 1..Len(s) : Append(s, e)[i] = s[i]
  BY AppendProperties
<1>2. IsFiniteSet(before) /\ Len(s) + 1 \notin before
  <2>1. before \subseteq 1..Len(s) /\ IsFiniteSet(1..Len(s))
    BY <1>1, FS_Interval
  <2>2. Len(s) + 1 \notin 1..Len(s)
    BY <1>1
  <2>3. QED
    BY <2>1, <2>2, FS_Subset
<1>3. after = IF d = e THEN before \cup {Len(s) + 1} ELSE before
  <2>1. \A i : i \in 1..(Len(s) + 1) <=> i \in 1..Len(s) \/ i = Len(s) + 1
    BY <1>1
  <2>2. QED
    BY <1>1, <2>1
<1> HIDE DEF before, after
<1>4. Cardinality(before) \in Nat /\ Cardinality(before \cup {Len(s) + 1}) = Cardinality(before) + 1
  BY <1>2, FS_AddElement, FS_CardinalityType
<1>5. TimesTold(s, d) = Cardinality(before) /\ TimesTold(Append(s, e), d) = Cardinality(after)
  BY DEF TimesTold, before, after
<1>6. QED
  BY <1>1, <1>3, <1>4, <1>5

LEMMA UnaryFacts ==
  ASSUME MultiModalIInv, NEW c \in UnaryCalls
  PROVE  /\ unary[c] \in UnaryRecord /\ UnaryTold(unary[c])
         /\ UnaryRetries \in Nat /\ IsFiniteSet(UnaryCalls)
         /\ IsFiniteSet(UnderWay) /\ Cardinality(UnderWay) \in Nat /\ UnderWay \subseteq UnaryCalls
<1>1. UnderWay \subseteq UnaryCalls /\ IsFiniteSet(UnaryCalls) /\ UnaryRetries \in Nat
  BY MultiModalAssumption DEF UnderWay
<1>2. IsFiniteSet(UnderWay) /\ Cardinality(UnderWay) \in Nat
  BY <1>1, FS_Subset, FS_CardinalityType
<1>3. QED
  BY <1>1, <1>2 DEF MultiModalIInv

(* Who is under way once a call has moved.                                 *)
LEMMA UnderWayMoves ==
  ASSUME MultiModalIInv, NEW c \in UnaryCalls, NEW r \in UnaryRecord,
         unary' = [unary EXCEPT ![c] = r]
  PROVE  Cardinality(UnderWay') =
           Cardinality(UnderWay) + (IF r.phase \in {"due", "sent", "resting"} THEN 1 ELSE 0)
                                 - (IF unary[c].phase \in {"due", "sent", "resting"} THEN 1 ELSE 0)
<1> DEFINE going == {"due", "sent", "resting"}
           others == UnderWay \ {c}
<1>1. IsFiniteSet(UnderWay) /\ UnderWay \subseteq UnaryCalls /\ Cardinality(UnderWay) \in Nat
  BY UnaryFacts
<1>2. IsFiniteSet(others) /\ c \notin others
  BY <1>1, FS_Subset
<1>3. unary' [c] = r /\ \A d \in UnaryCalls : d # c => unary'[d] = unary[d]
  BY DEF MultiModalIInv
<1>4. UnderWay = IF unary[c].phase \in going THEN others \cup {c} ELSE others
  BY DEF UnderWay
<1>5. UnderWay' = IF r.phase \in going THEN others \cup {c} ELSE others
  BY <1>3 DEF UnderWay
<1> HIDE DEF others
<1>6. Cardinality(others) \in Nat /\ Cardinality(others \cup {c}) = Cardinality(others) + 1
  BY <1>2, FS_AddElement, FS_CardinalityType
<1>7. QED
  BY <1>4, <1>5, <1>6

LEMMA RefusedEvents ==
  /\ <<"start", "open">> \in Seq(UnaryEvents)
  /\ \A d \in {"retrying", "completed", "failed"} : TimesTold(<<"start", "open">>, d) = 0
<1>1. <<"start">> = Append(<<>>, "start") /\ <<"start", "open">> = Append(<<"start">>, "open")
  OBVIOUS
<1>2. <<>> \in Seq(UnaryEvents) /\ "start" \in UnaryEvents /\ "open" \in UnaryEvents
  BY DEF UnaryEvents
<1>3. ASSUME NEW d \in {"retrying", "completed", "failed"}
      PROVE  TimesTold(<<"start">>, d) = 0 /\ <<"start">> \in Seq(UnaryEvents)
  <2>1. TimesTold(Append(<<>>, "start"), d) = TimesTold(<<>>, d) /\ Append(<<>>, "start") \in Seq(UnaryEvents)
    BY <1>2, EventAppended
  <2>2. QED
    BY <1>1, <2>1, NoEvents
<1>4. <<"start">> \in Seq(UnaryEvents)
  BY <1>2
<1>5. ASSUME NEW d \in {"retrying", "completed", "failed"}
      PROVE  TimesTold(Append(<<"start">>, "open"), d) = 0
  <2>1. d # "open"
    OBVIOUS
  <2>2. TimesTold(Append(<<"start">>, "open"), d) = TimesTold(<<"start">>, d)
    BY <1>2, <1>4, <2>1, EventAppended
  <2>3. QED
    BY <1>3, <2>2
<1>6. <<"start", "open">> \in Seq(UnaryEvents)
  BY <1>2
<1>7. QED
  BY <1>1, <1>5, <1>6

LEMMA UnaryMoves ==
  ASSUME MultiModalIInv, NEW c \in UnaryCalls, NEW r \in UnaryRecord,
         unary' = [unary EXCEPT ![c] = r], UnaryTold(r), Sane(circuit'), PlacesGivenBack'
  PROVE  MultiModalIInv'
<1>1. unary' \in [UnaryCalls -> UnaryRecord]
  BY DEF MultiModalIInv
<1>2. ASSUME NEW d \in UnaryCalls PROVE UnaryTold(unary'[d])
  <2>1. CASE d = c
    BY <2>1 DEF MultiModalIInv
  <2>2. CASE d # c
    <3>1. unary'[d] = unary[d]
      BY <2>2 DEF MultiModalIInv
    <3>2. QED
      BY <3>1, UnaryFacts
  <2>3. QED
    BY <2>1, <2>2
<1>3. QED
  BY <1>1, <1>2 DEF MultiModalIInv

(* The breaker is not asked, and the call is under way as it was.          *)
LEMMA UnaryQuiet ==
  ASSUME MultiModalIInv, NEW c \in UnaryCalls, NEW r \in UnaryRecord,
         unary' = [unary EXCEPT ![c] = r], UnaryTold(r), UNCHANGED circuit,
         r.phase \in {"due", "sent", "resting"} <=> unary[c].phase \in {"due", "sent", "resting"}
  PROVE  MultiModalIInv'
<1>1. Cardinality(UnderWay') = Cardinality(UnderWay)
  <2>1. Cardinality(UnderWay) \in Nat
    BY UnaryFacts
  <2>2. Cardinality(UnderWay') =
           Cardinality(UnderWay) + (IF r.phase \in {"due", "sent", "resting"} THEN 1 ELSE 0)
                                 - (IF unary[c].phase \in {"due", "sent", "resting"} THEN 1 ELSE 0)
    BY UnderWayMoves
  <2>3. QED
    BY <2>1, <2>2
<1>2. Sane(circuit') /\ PlacesGivenBack'
  BY <1>1 DEF MultiModalIInv, PlacesGivenBack
<1>3. QED
  BY <1>2, UnaryMoves

LEMMA BeginUnsupportedKeeps ==
  ASSUME MultiModalIInv, NEW c \in UnaryCalls, BeginUnsupported(c) PROVE MultiModalIInv'
<1> PICK u : u = unary[c]
  OBVIOUS
<1> PICK r : r = [u EXCEPT !.phase = "unsupported"]
  OBVIOUS
<1>1. u \in UnaryRecord /\ UnaryTold(u) /\ u.phase = "new"
  BY UnaryFacts DEF BeginUnsupported, Begins
<1>2. unary' = [unary EXCEPT ![c] = r] /\ UNCHANGED circuit
  BY DEF BeginUnsupported
<1>3. r \in UnaryRecord /\ r.phase = "unsupported" /\ r.events = u.events /\ r.reports = u.reports
      /\ r.attempt = u.attempt
  BY <1>1 DEF UnaryRecord, UnaryPhases
<1>4. r.late = u.late
  BY <1>1 DEF UnaryRecord
<1>5. UnaryTold(r)
  BY <1>1, <1>3, <1>4 DEF UnaryTold
<1>6. QED
  BY <1>1, <1>2, <1>3, <1>5, UnaryQuiet

LEMMA BeginAdmittedKeeps ==
  ASSUME MultiModalIInv, NEW c \in UnaryCalls, BeginAdmitted(c) PROVE MultiModalIInv'
<1> PICK u : u = unary[c]
  OBVIOUS
<1> PICK s : s = Append(u.events, "start")
  OBVIOUS
<1> PICK r : r = [u EXCEPT !.phase = "due", !.events = s]
  OBVIOUS
<1>1. u \in UnaryRecord /\ UnaryTold(u) /\ u.phase = "new" /\ IsAvailable(circuit)
  BY UnaryFacts DEF BeginAdmitted, Begins
<1>2. unary' = [unary EXCEPT ![c] = r] /\ circuit' = Admit(circuit)
  BY DEF BeginAdmitted, UnaryEmit
<1>3. u.events \in Seq(UnaryEvents)
  BY <1>1 DEF UnaryRecord
<1>4. s \in Seq(UnaryEvents)
      /\ \A d \in {"retrying", "completed", "failed"} : TimesTold(s, d) = TimesTold(u.events, d)
  BY <1>3, EventAppended DEF UnaryEvents
<1>5. r \in UnaryRecord /\ r.phase = "due" /\ r.events = s /\ r.reports = u.reports
      /\ r.attempt = u.attempt
  BY <1>1, <1>4 DEF UnaryRecord, UnaryPhases
<1>6. r.late = u.late
  BY <1>1 DEF UnaryRecord
<1>7. UnaryTold(r)
  BY <1>1, <1>4, <1>5, <1>6 DEF UnaryTold
<1>8. Cardinality(UnderWay') = Cardinality(UnderWay) + 1 /\ Cardinality(UnderWay) \in Nat
  <2>1. Cardinality(UnderWay) \in Nat
    BY UnaryFacts
  <2>2. Cardinality(UnderWay') =
           Cardinality(UnderWay) + (IF r.phase \in {"due", "sent", "resting"} THEN 1 ELSE 0)
                                 - (IF unary[c].phase \in {"due", "sent", "resting"} THEN 1 ELSE 0)
    BY <1>2, <1>5, UnderWayMoves
  <2>3. QED
    BY <1>1, <1>5, <2>1, <2>2
<1>9. Sane(circuit) /\ Sane(circuit')
  BY <1>1, <1>2, AdmitSane DEF MultiModalIInv
<1>10. PlacesGivenBack'
  <2>1. circuit.state \in CircuitStates /\ circuit.halfOpenCalls \in Nat
    BY <1>9, BreakerFields DEF Sane
  <2>2. \/ circuit.state = "closed" /\ circuit' = circuit
        \/ circuit.state = "open" /\ circuit'.halfOpenCalls = 0
        \/ circuit.state = "half_open" /\ circuit'.halfOpenCalls = circuit.halfOpenCalls + 1
    BY <1>1, <1>2, <1>9, <2>1, AdmitSane DEF CircuitStates
  <2>3. QED
    BY <1>8, <2>1, <2>2 DEF MultiModalIInv, PlacesGivenBack
<1>11. QED
  BY <1>2, <1>5, <1>7, <1>9, <1>10, UnaryMoves

LEMMA BeginRefusedKeeps ==
  ASSUME MultiModalIInv, NEW c \in UnaryCalls, BeginRefused(c) PROVE MultiModalIInv'
<1> PICK u : u = unary[c]
  OBVIOUS
<1> PICK s : s = <<"start", "open">>
  OBVIOUS
<1> PICK r : r = [u EXCEPT !.phase = "refused", !.events = s]
  OBVIOUS
<1>1. u \in UnaryRecord /\ UnaryTold(u) /\ u.phase = "new"
  BY UnaryFacts DEF BeginRefused, Begins
<1>3. unary' = [unary EXCEPT ![c] = r] /\ UNCHANGED circuit
  BY DEF BeginRefused
<1>4. s \in Seq(UnaryEvents) /\ \A d \in {"retrying", "completed", "failed"} : TimesTold(s, d) = 0
  BY RefusedEvents
<1>5. r \in UnaryRecord /\ r.phase = "refused" /\ r.events = s /\ r.reports = u.reports
      /\ r.attempt = u.attempt
  BY <1>1, <1>4 DEF UnaryRecord, UnaryPhases
<1>6. r.late = u.late
  BY <1>1 DEF UnaryRecord
<1>7. u.reports = 0 /\ u.attempt = 0
  BY <1>1 DEF UnaryTold, UnaryRecord
<1>8. UnaryTold(r)
  <2>1. UnaryRetries \in Nat
    BY UnaryFacts
  <2>2. QED
    BY <1>1, <1>4, <1>5, <1>6, <1>7, <2>1 DEF UnaryTold
<1>9. QED
  BY <1>1, <1>3, <1>5, <1>8, UnaryQuiet

(* A failure closes no place that another call has, for it leaves no       *)
(* circuit half-open; a success gives one back.                            *)
LEMMA FailsKeeps ==
  ASSUME MultiModalIInv, NEW c \in UnaryCalls, NEW ofList \in BOOLEAN,
         unary[c].phase \in {"due", "sent"}, Fails(c, ofList)
  PROVE  MultiModalIInv'
<1> PICK u : u = unary[c]
  OBVIOUS
<1>1. PICK again \in BOOLEAN :
        /\ again => u.attempt < UnaryRetries
        /\ circuit' = RecordFailure(circuit)
        /\ unary' = [UnaryEmit(c, IF again THEN "resting" ELSE "failed",
                                  IF again THEN "retrying" ELSE "failed")
                       EXCEPT ![c].reports = @ + 1, ![c].cut = again /\ @,
                              ![c].late = @ \/ (again /\ unary[c].cut)]
  <2> DEFINE more == unary[c].attempt < UnaryRetries /\ (ofList \/ asked.network)
  <2>1. more \in BOOLEAN
    OBVIOUS
  <2>2. QED
    BY <2>1 DEF Fails
<1> PICK e : e = IF again THEN "retrying" ELSE "failed"
  OBVIOUS
<1> PICK p : p = IF again THEN "resting" ELSE "failed"
  OBVIOUS
<1> PICK s : s = Append(u.events, e)
  OBVIOUS
<1> PICK n : n = u.reports + 1
  OBVIOUS
<1> DEFINE stop == again /\ u.cut
           behind == u.late \/ (again /\ u.cut)
<1> PICK r : r = [u EXCEPT !.phase = p, !.events = s, !.reports = n, !.cut = stop, !.late = behind]
  OBVIOUS
<1>2. u \in UnaryRecord /\ UnaryTold(u) /\ UnaryRetries \in Nat
  BY UnaryFacts
<1>3. unary \in [UnaryCalls -> UnaryRecord]
  BY DEF MultiModalIInv
<1>4. unary' = [unary EXCEPT ![c] = r]
  BY <1>1, <1>2, <1>3 DEF UnaryEmit, UnaryRecord
<1>5. u.events \in Seq(UnaryEvents) /\ u.attempt \in Nat /\ u.reports \in Nat /\ n \in Nat
  BY <1>2 DEF UnaryRecord
<1>6. /\ s \in Seq(UnaryEvents)
      /\ \A d \in {"retrying", "completed", "failed"} :
           /\ TimesTold(s, d) = IF d = e THEN TimesTold(u.events, d) + 1 ELSE TimesTold(u.events, d)
           /\ TimesTold(u.events, d) \in Nat
  BY <1>5, EventAppended DEF UnaryEvents
<1>7. /\ stop \in BOOLEAN /\ behind \in BOOLEAN
      /\ behind /\ again => stop
  <2>1. u.late => u.cut
    <3>1. u.phase \in {"due", "sent"}
      OBVIOUS
    <3>2. QED
      BY <1>2, <3>1 DEF UnaryTold
  <2>2. u.late \in BOOLEAN
    BY <1>2 DEF UnaryRecord
  <2>3. QED
    BY <2>1, <2>2, Zenon
<1> HIDE DEF stop, behind
<1>8. r \in UnaryRecord
  BY <1>2, <1>5, <1>6, <1>7 DEF UnaryRecord, UnaryPhases
<1>9. r.phase = p /\ r.events = s /\ r.reports = n /\ r.attempt = u.attempt
  BY <1>2 DEF UnaryRecord
<1>10. r.late = behind /\ r.cut = stop
  BY <1>2 DEF UnaryRecord
<1>11. UnaryTold(r)
  <2>1. CASE again
    BY <1>1, <1>2, <1>5, <1>6, <1>7, <1>9, <1>10, <2>1 DEF UnaryTold
  <2>2. CASE ~again
    BY <1>1, <1>2, <1>5, <1>6, <1>9, <1>10, <2>2 DEF UnaryTold
  <2>3. QED
    BY <2>1, <2>2
<1>12. Sane(circuit') /\ circuit'.state # "half_open"
  BY <1>1, FailureSane DEF MultiModalIInv
<1>13. PlacesGivenBack'
  BY <1>12 DEF PlacesGivenBack
<1>14. QED
  BY <1>4, <1>8, <1>11, <1>12, <1>13, UnaryMoves

LEMMA SucceedsKeeps ==
  ASSUME MultiModalIInv, NEW c \in UnaryCalls, unary[c].phase = "sent", Succeeds(c)
  PROVE  MultiModalIInv'
<1> PICK u : u = unary[c]
  OBVIOUS
<1> PICK s : s = Append(u.events, "completed")
  OBVIOUS
<1> PICK n : n = u.reports + 1
  OBVIOUS
<1> PICK r : r = [u EXCEPT !.phase = "answered", !.events = s, !.reports = n, !.cut = FALSE]
  OBVIOUS
<1>1. u \in UnaryRecord /\ UnaryTold(u) /\ UnaryRetries \in Nat /\ ~u.late
  BY UnaryFacts DEF UnaryTold
<1>2. unary \in [UnaryCalls -> UnaryRecord]
  BY DEF MultiModalIInv
<1>3. unary' = [unary EXCEPT ![c] = r] /\ circuit' = RecordSuccess(circuit)
  BY <1>1, <1>2 DEF Succeeds, UnaryEmit, UnaryRecord
<1>4. u.events \in Seq(UnaryEvents) /\ u.attempt \in Nat /\ u.reports \in Nat /\ n \in Nat
  BY <1>1 DEF UnaryRecord
<1>5. /\ s \in Seq(UnaryEvents)
      /\ \A d \in {"retrying", "completed", "failed"} :
           /\ TimesTold(s, d) = IF d = "completed" THEN TimesTold(u.events, d) + 1 ELSE TimesTold(u.events, d)
           /\ TimesTold(u.events, d) \in Nat
  BY <1>4, EventAppended DEF UnaryEvents
<1>6. r \in UnaryRecord
  BY <1>1, <1>4, <1>5 DEF UnaryRecord, UnaryPhases
<1>7. r.phase = "answered" /\ r.events = s /\ r.reports = n /\ r.attempt = u.attempt
  BY <1>1 DEF UnaryRecord
<1>8. r.late = u.late
  BY <1>1 DEF UnaryRecord
<1>9. UnaryTold(r)
  BY <1>1, <1>4, <1>5, <1>7, <1>8 DEF UnaryTold
<1>10. Cardinality(UnderWay') = Cardinality(UnderWay) - 1 /\ Cardinality(UnderWay) \in Nat
  <2>1. Cardinality(UnderWay) \in Nat
    BY UnaryFacts
  <2>2. Cardinality(UnderWay') =
           Cardinality(UnderWay) + (IF r.phase \in {"due", "sent", "resting"} THEN 1 ELSE 0)
                                 - (IF unary[c].phase \in {"due", "sent", "resting"} THEN 1 ELSE 0)
    BY <1>3, <1>6, UnderWayMoves
  <2>3. QED
    BY <1>7, <2>1, <2>2
<1>11. Sane(circuit) /\ Sane(circuit')
  BY <1>3, SuccessSane DEF MultiModalIInv
<1>12. PlacesGivenBack'
  <2> SUFFICES ASSUME circuit'.state = "half_open"
               PROVE  circuit'.halfOpenCalls <= Cardinality(UnderWay) - 1
    BY <1>10 DEF PlacesGivenBack
  <2>1. circuit.state = "half_open" /\ circuit.halfOpenCalls \in Nat /\ circuit \in BreakerType
    BY <1>3, <1>11, SuccessSane, BreakerFields DEF Sane
  <2> DEFINE counted == [circuit EXCEPT !.successes = @ + 1, !.halfOpenCalls = Decrement(@)]
  <2>2. circuit' \in {counted, TransitionTo(counted, "closed")}
    BY <1>3, <2>1 DEF RecordSuccess
  <2>3. Decrement(circuit.halfOpenCalls) \in Nat /\ circuit.successes + 1 \in Nat
    BY <2>1, BreakerFields DEF Decrement
  <2>4. counted \in BreakerType /\ counted.halfOpenCalls = Decrement(circuit.halfOpenCalls)
    BY <2>1, <2>3 DEF BreakerType
  <2> HIDE DEF counted
  <2>5. TransitionTo(counted, "closed").state = "closed"
    BY <2>4, TransitionFields DEF CircuitStates
  <2>6. circuit'.halfOpenCalls = Decrement(circuit.halfOpenCalls)
    BY <2>2, <2>4, <2>5
  <2>7. Cardinality(UnderWay) - 1 \in Nat
    <3>1. IsFiniteSet(UnderWay) /\ c \in UnderWay
      BY UnaryFacts DEF UnderWay
    <3>2. Cardinality(UnderWay) # 0
      BY <3>1, FS_EmptySet
    <3>3. QED
      BY <1>10, <3>2
  <2>8. circuit.halfOpenCalls <= Cardinality(UnderWay)
    BY <2>1 DEF MultiModalIInv, PlacesGivenBack
  <2>9. QED
    BY <1>10, <2>1, <2>6, <2>7, <2>8 DEF Decrement
<1>13. QED
  BY <1>3, <1>6, <1>9, <1>11, <1>12, UnaryMoves

LEMMA AttemptKeeps == ASSUME MultiModalIInv, NEW c \in UnaryCalls, Attempt(c) PROVE MultiModalIInv'
<1> PICK u : u = unary[c]
  OBVIOUS
<1>1. u \in UnaryRecord /\ UnaryTold(u) /\ u.phase = "due"
  BY UnaryFacts DEF Attempt
<1>2. PICK m \in asked.method :
        IF Sends(c, m)
        THEN /\ unary' = [unary EXCEPT ![c].phase = "sent"]
             /\ UNCHANGED <<asked, circuit>>
        ELSE Fails(c, FALSE)
  BY DEF Attempt
<1>3. CASE Sends(c, m)
  <2> PICK r : r = [u EXCEPT !.phase = "sent"]
    OBVIOUS
  <2>1. unary' = [unary EXCEPT ![c] = r] /\ UNCHANGED circuit
    BY <1>2, <1>3
  <2>2. ~u.late
    BY <1>1, <1>3 DEF Sends, UnaryTold
  <2>3. r \in UnaryRecord
    BY <1>1 DEF UnaryRecord, UnaryPhases
  <2>4. r.phase = "sent" /\ r.events = u.events /\ r.reports = u.reports /\ r.attempt = u.attempt
    BY <1>1 DEF UnaryRecord
  <2>5. ~r.late
    BY <1>1, <2>2 DEF UnaryRecord
  <2>6. UnaryTold(r)
    BY <1>1, <2>4, <2>5 DEF UnaryTold
  <2>7. QED
    BY <1>1, <2>1, <2>3, <2>4, <2>6, UnaryQuiet
<1>4. CASE ~Sends(c, m)
  BY <1>1, <1>2, <1>4, FailsKeeps
<1>5. QED
  BY <1>3, <1>4

LEMMA RestEndsKeeps == ASSUME MultiModalIInv, NEW c \in UnaryCalls, RestEnds(c) PROVE MultiModalIInv'
<1> PICK u : u = unary[c]
  OBVIOUS
<1> PICK n : n = u.attempt + 1
  OBVIOUS
<1> PICK r : r = [u EXCEPT !.phase = "due", !.attempt = n]
  OBVIOUS
<1>1. u \in UnaryRecord /\ UnaryTold(u) /\ u.phase = "resting"
  BY UnaryFacts DEF RestEnds
<1>2. unary' = [unary EXCEPT ![c] = r] /\ UNCHANGED circuit
  BY DEF RestEnds
<1>3. n \in Nat
  BY <1>1 DEF UnaryRecord
<1>4. r \in UnaryRecord
  BY <1>1, <1>3 DEF UnaryRecord, UnaryPhases
<1>5. r.phase = "due" /\ r.events = u.events /\ r.reports = u.reports /\ r.attempt = n
  BY <1>1 DEF UnaryRecord
<1>6. r.late = u.late /\ r.cut = u.cut
  BY <1>1 DEF UnaryRecord
<1>7. UnaryTold(r)
  BY <1>1, <1>5, <1>6 DEF UnaryTold
<1>8. QED
  BY <1>1, <1>2, <1>4, <1>5, <1>7, UnaryQuiet

LEMMA CutOffKeeps == ASSUME MultiModalIInv, NEW c \in UnaryCalls, CutOff(c) PROVE MultiModalIInv'
<1> PICK u : u = unary[c]
  OBVIOUS
<1> DEFINE idle == u.late \/ u.phase # "sent"
<1> PICK r : r = [u EXCEPT !.cut = TRUE, !.late = idle]
  OBVIOUS
<1>1. u \in UnaryRecord /\ UnaryTold(u) /\ u.phase \in {"due", "sent", "resting"}
  BY UnaryFacts DEF CutOff, UnderWay
<1>2. unary' = [unary EXCEPT ![c] = r] /\ UNCHANGED circuit
  BY DEF CutOff
<1> USE DEF idle
<1>3. r \in UnaryRecord /\ r.phase = u.phase /\ r.events = u.events /\ r.reports = u.reports
      /\ r.attempt = u.attempt
  BY <1>1 DEF UnaryRecord
<1>4. r.cut /\ (r.late => u.late \/ u.phase # "sent")
  BY <1>1 DEF UnaryRecord
<1>5. UnaryTold(r)
  BY <1>1, <1>3, <1>4 DEF UnaryTold
<1>6. QED
  BY <1>2, <1>3, <1>5, UnaryQuiet

LEMMA CircuitCoolsKeeps == ASSUME MultiModalIInv, CircuitCools PROVE MultiModalIInv'
<1>1. unary' = unary /\ circuit' = Cool(circuit) /\ circuit.state = "open"
  BY DEF CircuitCools
<1>2. Sane(circuit') /\ circuit'.state = "open"
  BY <1>1, CoolSane DEF MultiModalIInv
<1>3. QED
  BY <1>1, <1>2 DEF MultiModalIInv, PlacesGivenBack

LEMMA MultiModalStart == MultiModalInit => MultiModalIInv
<1> SUFFICES ASSUME MultiModalInit PROVE MultiModalIInv
  OBVIOUS
<1>1. circuit = ClosedBreaker /\ unary = [c \in UnaryCalls |-> NewUnary]
  BY DEF MultiModalInit
<1>2. Sane(circuit) /\ PlacesGivenBack
  BY <1>1, ClosedSane DEF PlacesGivenBack, ClosedBreaker
<1>3. NewUnary \in UnaryRecord
  BY DEF NewUnary, UnaryRecord, UnaryPhases
<1>4. UnaryTold(NewUnary)
  BY MultiModalAssumption, NoEvents DEF UnaryTold, NewUnary
<1>5. QED
  BY <1>1, <1>2, <1>3, <1>4 DEF MultiModalIInv

LEMMA MultiModalStep == MultiModalIInv /\ [MultiModalNext]_unaryVars => MultiModalIInv'
<1> SUFFICES ASSUME MultiModalIInv, [MultiModalNext]_unaryVars PROVE MultiModalIInv'
  OBVIOUS
<1>1. CASE UNCHANGED unaryVars
  <2>1. circuit' = circuit /\ unary' = unary
    BY <1>1 DEF unaryVars
  <2>2. PlacesGivenBack'
    BY <2>1 DEF MultiModalIInv, PlacesGivenBack, UnderWay
  <2>3. QED
    BY <2>1, <2>2 DEF MultiModalIInv
<1>2. ASSUME NEW c \in UnaryCalls, BeginUnsupported(c) \/ BeginAdmitted(c) \/ BeginRefused(c)
      PROVE  MultiModalIInv'
  BY <1>2, BeginUnsupportedKeeps, BeginAdmittedKeeps, BeginRefusedKeeps
<1>3. ASSUME NEW c \in UnaryCalls, Attempt(c) \/ RestEnds(c) \/ CutOff(c) PROVE MultiModalIInv'
  BY <1>3, AttemptKeeps, RestEndsKeeps, CutOffKeeps
<1>4. ASSUME NEW c \in UnaryCalls, Reply(c) PROVE MultiModalIInv'
  <2>1. unary[c].phase = "sent" /\ (Fails(c, FALSE) \/ Succeeds(c))
    BY <1>4 DEF Reply
  <2>2. QED
    BY <2>1, FailsKeeps, SucceedsKeeps
<1>5. ASSUME NEW c \in UnaryCalls, ReplyFails(c) PROVE MultiModalIInv'
  BY <1>5, FailsKeeps DEF ReplyFails
<1>6. QED
  BY <1>1, <1>2, <1>3, <1>4, <1>5, CircuitCoolsKeeps DEF MultiModalNext

LEMMA MultiModalImplies == MultiModalIInv => UnaryCallsAccounted
<1> SUFFICES ASSUME MultiModalIInv PROVE UnaryCallsAccounted
  OBVIOUS
<1>1. NothingSentLate
  BY UnaryFacts DEF NothingSentLate, UnaryTold
<1>2. ASSUME NEW c \in UnaryCalls
      PROVE  LET u == unary[c]
             IN  /\ TimesTold(u.events, "retrying") + TimesTold(u.events, "completed")
                       + TimesTold(u.events, "failed") = u.reports
                 /\ TimesTold(u.events, "completed") = 1 <=> u.phase = "answered"
                 /\ TimesTold(u.events, "failed") = 1 <=> u.phase = "failed"
                 /\ u.phase \in {"unsupported", "refused"} => u.reports = 0
                 /\ TimesTold(u.events, "retrying") <= UnaryRetries
  BY UnaryFacts DEF UnaryTold, UnaryRecord
<1>3. CallsReported
  BY <1>2 DEF CallsReported, TimesTold
<1>4. QED
  BY <1>1, <1>3 DEF UnaryCallsAccounted, MultiModalIInv

----------------------------------------------------------------------------
(* Routing (src/client/client.ts, src/router/model-router.ts).             *)

(* The sort places every index, and no two of them at one place.           *)
LEMMA AheadOfFacts ==
  ASSUME NEW score, IsFiniteSet(DOMAIN score), DOMAIN score \subseteq Nat,
         \A i \in DOMAIN score : score[i] \in Int, NEW i \in DOMAIN score
  PROVE  /\ IsFiniteSet({j \in DOMAIN score : Ahead(score, j, i)})
         /\ Cardinality({j \in DOMAIN score : Ahead(score, j, i)}) \in Nat
         /\ Cardinality({j \in DOMAIN score : Ahead(score, j, i)}) < Cardinality(DOMAIN score)
<1> DEFINE S == DOMAIN score
           B == {j \in S : Ahead(score, j, i)}
<1>1. i \notin B
  BY DEF Ahead
<1>2. IsFiniteSet(S \ {i}) /\ Cardinality(S \ {i}) = Cardinality(S) - 1
  BY FS_RemoveElement
<1>3. B \in SUBSET (S \ {i})
  BY <1>1
<1>4. IsFiniteSet(B) /\ Cardinality(B) <= Cardinality(S \ {i})
  BY <1>2, <1>3, FS_Subset
<1>5. Cardinality(B) \in Nat /\ Cardinality(S) \in Nat
  BY <1>4, FS_CardinalityType
<1>6. QED
  BY <1>2, <1>4, <1>5

LEMMA PlacesApart ==
  ASSUME NEW score, IsFiniteSet(DOMAIN score), DOMAIN score \subseteq Nat,
         \A i \in DOMAIN score : score[i] \in Int,
         NEW i \in DOMAIN score, NEW k \in DOMAIN score, Ahead(score, i, k)
  PROVE  Place(score, i) < Place(score, k)
<1> DEFINE S == DOMAIN score
           B == {j \in S : Ahead(score, j, i)}
           C == {j \in S : Ahead(score, j, k)}
<1>1. IsFiniteSet(B) /\ Cardinality(B) \in Nat
  BY AheadOfFacts
<1>2. IsFiniteSet(C) /\ Cardinality(C) \in Nat
  BY AheadOfFacts
<1>3. i \notin B
  BY DEF Ahead
<1>4. ASSUME NEW j \in S, Ahead(score, j, i) PROVE Ahead(score, j, k)
  BY <1>4 DEF Ahead
<1>5. B \cup {i} \in SUBSET C
  BY <1>4
<1>6. Cardinality(B \cup {i}) = Cardinality(B) + 1
  BY <1>1, <1>3, FS_AddElement
<1>7. Cardinality(B \cup {i}) <= Cardinality(C)
  BY <1>2, <1>5, FS_Subset
<1>8. Place(score, i) = Cardinality(B) + 1 /\ Place(score, k) = Cardinality(C) + 1
  BY DEF Place
<1>9. QED
  BY <1>1, <1>2, <1>6, <1>7, <1>8

LEMMA BestFirstFacts ==
  ASSUME NEW score, IsFiniteSet(DOMAIN score), DOMAIN score \subseteq Nat,
         \A i \in DOMAIN score : score[i] \in Int
  PROVE  /\ DOMAIN BestFirst(score) = 1..Cardinality(DOMAIN score)
         /\ \A n \in DOMAIN BestFirst(score) :
              BestFirst(score)[n] \in DOMAIN score /\ Place(score, BestFirst(score)[n]) = n
<1> DEFINE S == DOMAIN score
           P == 1..Cardinality(S)
           place == [i \in S |-> Place(score, i)]
<1>1. Cardinality(S) \in Nat
  BY FS_CardinalityType
<1>2. ASSUME NEW i \in S PROVE Place(score, i) \in P
  <2> DEFINE B == {j \in S : Ahead(score, j, i)}
  <2>1. Cardinality(B) \in Nat /\ Cardinality(B) < Cardinality(S)
    BY AheadOfFacts
  <2>2. Place(score, i) = Cardinality(B) + 1
    BY DEF Place
  <2> HIDE DEF B
  <2>3. QED
    BY <1>1, <2>1, <2>2
<1>3. ASSUME NEW i \in S, NEW k \in S, i # k PROVE Place(score, i) # Place(score, k)
  <2>1. Ahead(score, i, k) \/ Ahead(score, k, i)
    BY <1>3 DEF Ahead
  <2>2. Place(score, i) \in Int /\ Place(score, k) \in Int
    BY <1>2
  <2>3. CASE Ahead(score, i, k)
    <3>1. Place(score, i) < Place(score, k)
      BY <2>3, PlacesApart
    <3>2. QED
      BY <2>2, <3>1
  <2>4. CASE Ahead(score, k, i)
    <3>1. Place(score, k) < Place(score, i)
      BY <2>4, PlacesApart
    <3>2. QED
      BY <2>2, <3>1
  <2>5. QED
    BY <2>1, <2>3, <2>4
<1>4. place \in [S -> P]
  BY <1>2
<1>5. \A i, k \in S : place[i] = place[k] => i = k
  BY <1>3
<1>6. place \in Injection(S, P)
  BY <1>4, <1>5 DEF Injection, IsInjective
<1>7. IsFiniteSet(P) /\ Cardinality(P) = Cardinality(S)
  BY <1>1, FS_Interval
<1>8. place \in Surjection(S, P)
  BY <1>6, <1>7, FS_Injection
<1>9. \A n \in P : \E i \in S : place[i] = n
  BY <1>8 DEF Surjection
<1>10. \A n \in P : \E i \in S : Place(score, i) = n
  BY <1>9
<1>11. BestFirst(score) = [n \in P |-> CHOOSE i \in S : Place(score, i) = n]
  BY DEF BestFirst
<1>12. QED
  BY <1>10, <1>11

(* Nothing is ahead of what comes first.                                   *)
LEMMA FirstFacts ==
  ASSUME NEW score, IsFiniteSet(DOMAIN score), DOMAIN score \subseteq Nat,
         \A i \in DOMAIN score : score[i] \in Int,
         NEW i \in DOMAIN score, Place(score, i) = 1
  PROVE  \A j \in DOMAIN score : ~ Ahead(score, j, i)
<1> DEFINE B == {j \in DOMAIN score : Ahead(score, j, i)}
<1>1. IsFiniteSet(B) /\ Cardinality(B) \in Nat
  BY AheadOfFacts
<1>2. Cardinality(B) + 1 = 1
  BY DEF Place
<1>3. Cardinality(B) = 0
  BY <1>1, <1>2
<1>4. B = {}
  BY <1>1, <1>3, FS_EmptySet
<1>5. QED
  BY <1>4

(* The scores are whole numbers; a preference adds to its provider's alone. *)
LEMMA LeastOfTwo ==
  ASSUME NEW a \in Int, NEW b \in Int
  PROVE  Min({a, b}) = IF a <= b THEN a ELSE b
<1> DEFINE m == IF a <= b THEN a ELSE b
<1>1. m \in {a, b} /\ \A y \in {a, b} : m =< y
  OBVIOUS
<1>2. \A x \in {a, b} : (\A y \in {a, b} : x =< y) => x = m
  OBVIOUS
<1>3. QED
  BY <1>1, <1>2 DEF Min

LEMMA GreatestOfTwo ==
  ASSUME NEW a \in Int, NEW b \in Int
  PROVE  Max({a, b}) \in Int
<1> DEFINE m == IF a >= b THEN a ELSE b
<1>1. m \in {a, b} /\ \A y \in {a, b} : m >= y
  OBVIOUS
<1>2. Max({a, b}) \in {a, b}
  BY <1>1 DEF Max
<1>3. QED
  BY <1>2

LEMMA WeightFacts ==
  ASSUME NEW task \in Tasks
  PROVE  Weights[task] \in [capability : Int, speed : Int, cost : Int]
<1>1. /\ Weights["coding"] = Weigh(25, 25, 15, 20, 15)
      /\ Weights["reasoning"] = Weigh(40, 10, 10, 25, 15)
      /\ Weights["analysis"] = Weigh(30, 15, 15, 25, 15)
      /\ Weights["writing"] = Weigh(15, 5, 20, 45, 15)
      /\ Weights["translation"] = Weigh(10, 5, 30, 45, 10)
      /\ Weights["summarization"] = Weigh(20, 5, 25, 40, 10)
      /\ Weights["extraction"] = Weigh(20, 10, 20, 30, 20)
      /\ Weights["classification"] = Weigh(25, 10, 20, 30, 15)
      /\ Weights["general"] = Weigh(15, 15, 25, 40, 5)
  BY DEF Weights
<1> DEFINE R == [capability : Int, speed : Int, cost : Int]
<1>2. /\ Weights["coding"] \in R
      /\ Weights["reasoning"] \in R
      /\ Weights["analysis"] \in R
      /\ Weights["writing"] \in R
      /\ Weights["translation"] \in R
      /\ Weights["summarization"] \in R
      /\ Weights["extraction"] \in R
      /\ Weights["classification"] \in R
      /\ Weights["general"] \in R
  <2>1. Weights["coding"] \in R
    BY <1>1 DEF Weigh
  <2>2. Weights["reasoning"] \in R
    BY <1>1 DEF Weigh
  <2>3. Weights["analysis"] \in R
    BY <1>1 DEF Weigh
  <2>4. Weights["writing"] \in R
    BY <1>1 DEF Weigh
  <2>5. Weights["translation"] \in R
    BY <1>1 DEF Weigh
  <2>6. Weights["summarization"] \in R
    BY <1>1 DEF Weigh
  <2>7. Weights["extraction"] \in R
    BY <1>1 DEF Weigh
  <2>8. Weights["classification"] \in R
    BY <1>1 DEF Weigh
  <2>9. Weights["general"] \in R
    BY <1>1 DEF Weigh
  <2>10. QED
    BY <2>1, <2>2, <2>3, <2>4, <2>5, <2>6, <2>7, <2>8, <2>9
<1>3. Weights[task] \in R
  <2> HIDE DEF R
  <2>1. QED
    BY <1>2 DEF Tasks
<1>4. QED
  BY <1>3

LEMMA MeritFacts ==
  ASSUME NEW e \in Entries, NEW want, want.task \in Tasks
  PROVE  Merit(e, want) \in Int
<1> DEFINE w == Weights[want.task]
           a == Min({TaskFit(e, want.task), 100})
           b == Max({500 - e.cost, 0})
           c == Max({2000 - e.window, 0})
           d == BudgetAlignment(e, want.budget)
           n == Cardinality(e.capabilities)
<1>1. w.capability \in Int /\ w.speed \in Int /\ w.cost \in Int
  BY WeightFacts
<1>2. TaskFit(e, want.task) \in Int
  BY DEF TaskFit
<1>3. a \in Int
  BY <1>2, LeastOfTwo
<1>4. e.cost \in Nat /\ e.window \in Nat /\ e.capabilities \in SUBSET Capabilities
  BY RoutingAssumption
<1>5. b \in Int
  BY <1>4, GreatestOfTwo
<1>6. c \in Int
  BY <1>4, GreatestOfTwo
<1>7. d \in Int
  BY DEF BudgetAlignment
<1>8. IsFiniteSet(Capabilities)
  <2>1. IsFiniteSet({"streaming"})
    BY FS_Singleton
  <2>2. IsFiniteSet({"streaming"} \cup {"tools"})
    BY <2>1, FS_AddElement
  <2>3. IsFiniteSet({"streaming"} \cup {"tools"} \cup {"vision"})
    BY <2>2, FS_AddElement
  <2>4. IsFiniteSet({"streaming"} \cup {"tools"} \cup {"vision"} \cup {"reasoning"})
    BY <2>3, FS_AddElement
  <2>5. IsFiniteSet({"streaming"} \cup {"tools"} \cup {"vision"} \cup {"reasoning"}
                      \cup {"structuredOutput"})
    BY <2>4, FS_AddElement
  <2>6. IsFiniteSet({"streaming"} \cup {"tools"} \cup {"vision"} \cup {"reasoning"}
                      \cup {"structuredOutput"} \cup {"parallelTools"})
    BY <2>5, FS_AddElement
  <2>7. Capabilities = {"streaming"} \cup {"tools"} \cup {"vision"} \cup {"reasoning"}
                         \cup {"structuredOutput"} \cup {"parallelTools"}
    BY DEF Capabilities
  <2>8. QED
    BY <2>6, <2>7
<1>9. n \in Int
  BY <1>4, <1>8, FS_Subset, FS_CardinalityType
<1>10. Merit(e, want) = 1000 * n * w.capability + 600 * a + 600 * 70 + 12 * w.cost * b
                          + 3 * w.speed * c + 600 * d
  BY DEF Merit
<1>11. /\ 1000 * n * w.capability \in Int /\ 12 * w.cost * b \in Int
       /\ 3 * w.speed * c \in Int
  <2> HIDE DEF w, b, c, n
  <2>1. QED
    BY <1>1, <1>5, <1>6, <1>9
<1>12. QED
  <2> HIDE DEF w, a, b, c, d, n
  <2>1. QED
    BY <1>3, <1>7, <1>10, <1>11

LEMMA ScoreFacts ==
  ASSUME NEW e \in Entries, NEW want, want.task \in Tasks
  PROVE  Score(e, want) \in Int
<1>1. Merit(e, want) \in Int
  BY MeritFacts
<1>2. Bonus(e, want) \in Int
  BY DEF Bonus
<1>3. (Merit(e, want) + 6000 * Bonus(e, want) + 300) \div 600 \in Int
  BY <1>1, <1>2
<1>4. QED
  BY <1>3, LeastOfTwo DEF Score

LEMMA PreferenceAdds ==
  ASSUME NEW e \in Entries, NEW want \in Wants
  PROVE  LET plain == [want EXCEPT !.preferred = "none"]
         IN  /\ Score(e, want) >= Score(e, plain)
             /\ e.provider # want.preferred => Score(e, want) = Score(e, plain)
<1> DEFINE plain == [want EXCEPT !.preferred = "none"]
           s == Merit(e, want)
           x == Bonus(e, want)
           y == Bonus(e, plain)
           p == (s + 6000 * x + 300) \div 600
           q == (s + 6000 * y + 300) \div 600
<1>1. want.task \in Tasks /\ e.provider # "none"
  BY RoutingAssumption
<1>2. /\ plain.task = want.task /\ plain.needs = want.needs /\ plain.budget = want.budget
      /\ plain.preferred = "none"
  BY RoutingAssumption
<1>3. s \in Int
  BY <1>1, MeritFacts
<1>4. Merit(e, plain) = s
  BY <1>2 DEF Merit
<1>5. x \in Int /\ y \in Int /\ x >= y /\ (e.provider # want.preferred => x = y)
  BY <1>1, <1>2 DEF Bonus
<1>6. p \in Int /\ q \in Int /\ p >= q
  <2> HIDE DEF s, x, y
  <2>1. s + 6000 * x + 300 >= s + 6000 * y + 300
    BY <1>3, <1>5
  <2>2. QED
    BY <1>3, <1>5, <2>1
<1>7. Score(e, want) = Min({1000, p}) /\ Score(e, plain) = Min({1000, q})
  BY <1>4 DEF Score
<1>8. /\ Min({1000, p}) = IF 1000 <= p THEN 1000 ELSE p
      /\ Min({1000, q}) = IF 1000 <= q THEN 1000 ELSE q
  BY <1>6, LeastOfTwo
<1>9. e.provider # want.preferred => p = q
  BY <1>5
<1>10. QED
  <2> HIDE DEF p, q
  <2>1. QED
    BY <1>6, <1>7, <1>8, <1>9

LEMMA ScoresFacts ==
  ASSUME listed \in Seq(Entries), NEW want, want.task \in Tasks, NEW filtered
  PROVE  /\ DOMAIN Scores(want, filtered) = Accepted(want, filtered)
         /\ Accepted(want, filtered) \subseteq DOMAIN listed
         /\ DOMAIN listed \subseteq Nat
         /\ IsFiniteSet(Accepted(want, filtered))
         /\ \A i \in Accepted(want, filtered) :
              /\ Scores(want, filtered)[i] = Score(listed[i], want)
              /\ Scores(want, filtered)[i] \in Int
<1>1. Len(listed) \in Nat /\ DOMAIN listed = 1..Len(listed)
  OBVIOUS
<1>2. Accepted(want, filtered) \in SUBSET DOMAIN listed
  BY DEF Accepted
<1>3. IsFiniteSet(1..Len(listed))
  BY <1>1, FS_Interval
<1>4. IsFiniteSet(Accepted(want, filtered))
  BY <1>1, <1>2, <1>3, FS_Subset
<1>5. \A i \in Accepted(want, filtered) : listed[i] \in Entries
  BY <1>1, <1>2
<1>6. \A i \in Accepted(want, filtered) : Score(listed[i], want) \in Int
  BY <1>5, ScoreFacts
<1>7. QED
  BY <1>1, <1>2, <1>4, <1>6 DEF Scores

LEMMA RankedFacts ==
  ASSUME listed \in Seq(Entries), NEW want, want.task \in Tasks, NEW filtered
  PROVE  /\ DOMAIN RankedBut(want, filtered) = 1..Cardinality(Accepted(want, filtered))
         /\ Cardinality(Accepted(want, filtered)) \in Nat
         /\ \A n \in DOMAIN RankedBut(want, filtered) :
              \E i \in Accepted(want, filtered) :
                /\ RankedBut(want, filtered)[n] = listed[i]
                /\ n = 1 => \A j \in Accepted(want, filtered) :
                              ~ Ahead(Scores(want, filtered), j, i)
<1> DEFINE score == Scores(want, filtered)
           S == Accepted(want, filtered)
           order == BestFirst(score)
<1>1. /\ DOMAIN score = S /\ S \subseteq Nat /\ IsFiniteSet(S)
      /\ \A i \in S : score[i] \in Int
  BY ScoresFacts
<1>2. /\ DOMAIN order = 1..Cardinality(S)
      /\ \A n \in DOMAIN order : order[n] \in S /\ Place(score, order[n]) = n
  <2> HIDE DEF score
  <2>1. QED
    BY <1>1, BestFirstFacts
<1>3. RankedBut(want, filtered) = [n \in DOMAIN order |-> listed[order[n]]]
  BY DEF RankedBut
<1>4. ASSUME NEW i \in S, Place(score, i) = 1 PROVE \A j \in S : ~ Ahead(score, j, i)
  <2> HIDE DEF score
  <2>1. QED
    BY <1>1, <1>4, FirstFacts
<1>5. Cardinality(S) \in Nat
  BY <1>1, FS_CardinalityType
<1>6. QED
  <2> HIDE DEF score, order, S
  <2>1. /\ DOMAIN RankedBut(want, filtered) = 1..Cardinality(S)
        /\ \A n \in DOMAIN RankedBut(want, filtered) :
             \E i \in S : /\ RankedBut(want, filtered)[n] = listed[i]
                          /\ n = 1 => \A j \in S : ~ Ahead(score, j, i)
    <3>1. DOMAIN RankedBut(want, filtered) = DOMAIN order
      BY <1>3
    <3>2. SUFFICES ASSUME NEW n \in DOMAIN order
                   PROVE  \E i \in S : /\ RankedBut(want, filtered)[n] = listed[i]
                                       /\ n = 1 => \A j \in S : ~ Ahead(score, j, i)
      BY <1>2, <3>1
    <3>3. RankedBut(want, filtered)[n] = listed[order[n]]
      BY <1>3
    <3>4. n = 1 => \A j \in S : ~ Ahead(score, j, order[n])
      BY <1>2, <1>4
    <3>5. QED
      BY <1>2, <3>3, <3>4
  <2>2. QED
    BY <1>5, <2>1 DEF score, S

(* PreferenceHelps holds wherever the list and the parameters are typed:   *)
(* a model that the preference leaves alone and that is first with it was  *)
(* ahead of all others without it, for these have gained or are as before. *)
LEMMA PreferenceWins ==
  ASSUME listed \in Seq(Entries), asking.want \in Wants
  PROVE  PreferenceHelps
<1> DEFINE want == asking.want
           plain == [asking.want EXCEPT !.preferred = "none"]
           A == Accepted(want, {})
           with == Scores(want, {})
           without == Scores(plain, {})
<1>1. want.task \in Tasks
  BY RoutingAssumption
<1>2. /\ plain.task = want.task /\ plain.exclude = want.exclude /\ plain.needs = want.needs
      /\ plain.maxCost = want.maxCost /\ plain.budget = want.budget
  BY RoutingAssumption
<1>3. Accepted(plain, {}) = A
  BY <1>2 DEF Accepted, Accepts
<1>4. /\ DOMAIN Ranked(want) = 1..Cardinality(A) /\ Cardinality(A) \in Nat
      /\ \A n \in DOMAIN Ranked(want) :
           \E i \in A : Ranked(want)[n] = listed[i] /\ (n = 1 => \A j \in A : ~ Ahead(with, j, i))
  <2> HIDE DEF want
  <2>1. QED
    BY <1>1, RankedFacts DEF Ranked
<1>5. /\ DOMAIN Ranked(plain) = 1..Cardinality(A)
      /\ \A n \in DOMAIN Ranked(plain) :
           \E i \in A :
             Ranked(plain)[n] = listed[i] /\ (n = 1 => \A j \in A : ~ Ahead(without, j, i))
  <2>1. plain.task \in Tasks
    BY <1>1, <1>2
  <2> HIDE DEF want, plain, A
  <2>2. QED
    BY <1>3, <2>1, RankedFacts DEF Ranked
<1>6. \A i \in A : listed[i] \in Entries /\ i \in Nat
  <2>1. A \subseteq DOMAIN listed /\ DOMAIN listed \subseteq Nat
    BY <1>1, ScoresFacts
  <2>2. QED
    BY <2>1
<1>7. \A i \in A : with[i] \in Int /\ without[i] \in Int
  <2>1. \A i \in A : with[i] \in Int
    <3> HIDE DEF want
    <3>1. QED
      BY <1>1, ScoresFacts
  <2>2. plain.task \in Tasks
    BY <1>1, <1>2
  <2>3. \A i \in A : without[i] \in Int
    <3> HIDE DEF want, plain, A
    <3>1. QED
      BY <1>3, <2>2, ScoresFacts
  <2>4. QED
    BY <2>1, <2>3
<1>8. ASSUME NEW i \in A
      PROVE  /\ with[i] >= without[i]
             /\ listed[i].provider # want.preferred => with[i] = without[i]
  <2>1. with[i] = Score(listed[i], want)
    BY DEF Scores
  <2>2. without[i] = Score(listed[i], plain)
    BY <1>3 DEF Scores
  <2>3. listed[i] \in Entries
    BY <1>6
  <2>4. /\ Score(listed[i], want) >= Score(listed[i], plain)
        /\ listed[i].provider # want.preferred => Score(listed[i], want) = Score(listed[i], plain)
    BY <2>3, PreferenceAdds
  <2>5. QED
    BY <2>1, <2>2, <2>4
<1>9. ASSUME Ranked(want) # <<>>
      PROVE  Ranked(want)[1].provider = want.preferred \/ Ranked(want)[1] = Ranked(plain)[1]
  <2> HIDE DEF want, plain, A, with, without
  <2>1. 1 \in 1..Cardinality(A)
    <3>1. Cardinality(A) # 0 \/ Ranked(want) = <<>>
      BY <1>4 DEF Ranked, RankedBut
    <3>2. QED
      BY <1>4, <1>9, <3>1
  <2>2. PICK i \in A : Ranked(want)[1] = listed[i] /\ \A j \in A : ~ Ahead(with, j, i)
    BY <1>4, <2>1
  <2>3. PICK k \in A : Ranked(plain)[1] = listed[k] /\ \A j \in A : ~ Ahead(without, j, k)
    BY <1>5, <2>1
  <2>4. SUFFICES ASSUME listed[i].provider # want.preferred, i # k PROVE FALSE
    BY <2>2, <2>3
  <2>6. with[i] = without[i] /\ with[k] >= without[k]
    BY <1>8, <2>4
  <2>7. ~ Ahead(with, k, i) /\ ~ Ahead(without, i, k)
    BY <2>2, <2>3
  <2>8. QED
    BY <1>6, <1>7, <2>4, <2>6, <2>7 DEF Ahead
<1>10. PreferenceHelps =
         (asking.phase # "idle" /\ want.preferred # "none" =>
            /\ DOMAIN Ranked(want) = DOMAIN Ranked(plain)
            /\ Ranked(want) # <<>>
                 => Ranked(want)[1].provider = want.preferred \/ Ranked(want)[1] = Ranked(plain)[1])
  BY DEF PreferenceHelps
<1>11. QED
  <2> HIDE DEF want, plain, A
  <2>1. QED
    BY <1>4, <1>5, <1>9, <1>10

(* The inductive invariant: what the fallbacks in waiting meet as well, of *)
(* a list that only grows, for the needs the call was made with.           *)
Meets(list, needs, c) ==
  \E i \in DOMAIN list : /\ list[i].id = c.id /\ list[i].provider = c.provider
                         /\ needs \subseteq list[i].capabilities

AskingTyped ==
  /\ listed \in Seq(Entries)
  /\ DOMAIN asking = {"phase", "kind", "want", "current", "tried", "queue", "emptied"}
  /\ asking.want \in Wants
  /\ asking.queue \in Seq({Candidate(e) : e \in Entries})
  /\ asking.phase = "idle" => asking.queue = <<>> /\ asking.tried = {}

QueueMeets ==
  \A n \in DOMAIN asking.queue :
    Meets(listed, Needed(asking.kind, asking.want).needs, asking.queue[n])

TriedMeet ==
  \A c \in asking.tried :
    c.routed => Meets(listed, Needed(asking.kind, asking.want).needs, c)

RoutingIInv ==
  AskingTyped /\ RouterFollowsRegistry /\ NoModelTwice /\ QueueMeets /\ TriedMeet

LEMMA RoutingImplies == RoutingIInv => RoutingSound
<1> SUFFICES ASSUME RoutingIInv PROVE RoutingSound
  OBVIOUS
<1>1. PreferenceHelps
  BY PreferenceWins DEF RoutingIInv, AskingTyped
<1>2. NeedsKept
  BY DEF RoutingIInv, TriedMeet, Meets, NeedsKept
<1>3. QED
  BY <1>1, <1>2 DEF RoutingIInv, RoutingSound

LEMMA RoutingStart == RoutingInit => RoutingIInv
<1> SUFFICES ASSUME RoutingInit PROVE RoutingIInv
  OBVIOUS
<1>1. (CHOOSE w \in Wants : TRUE) \in Wants
  BY RoutingAssumption
<1>2. AskingTyped
  BY <1>1, RoutingAssumption DEF RoutingInit, AskingTyped, Idle
<1>3. RouterFollowsRegistry
  BY DEF RoutingInit, RouterFollowsRegistry
<1>4. NoModelTwice /\ QueueMeets /\ TriedMeet
  BY DEF RoutingInit, NoModelTwice, QueueMeets, TriedMeet, Idle
<1>5. QED
  BY <1>2, <1>3, <1>4 DEF RoutingIInv

LEMMA MeetsLonger ==
  ASSUME NEW list \in Seq(Entries), NEW e \in Entries, NEW needs, NEW c, Meets(list, needs, c)
  PROVE  Meets(Append(list, e), needs, c)
<1>1. PICK i \in DOMAIN list : /\ list[i].id = c.id /\ list[i].provider = c.provider
                               /\ needs \subseteq list[i].capabilities
  BY DEF Meets
<1>2. i \in DOMAIN Append(list, e) /\ Append(list, e)[i] = list[i]
  BY AppendProperties
<1>3. QED
  BY <1>1, <1>2 DEF Meets

(* What the call needs is what the parameters say, and structured output   *)
(* where it has a schema.                                                  *)
LEMMA NeededFacts ==
  ASSUME NEW want \in Wants, NEW kind
  PROVE  /\ Needed(kind, want).task \in Tasks
         /\ Structured(want).task \in Tasks
         /\ Needed(kind, want).needs \subseteq Structured(want).needs
         /\ kind # "structured" => Needed(kind, want) = want
<1>1. want.task \in Tasks
  BY RoutingAssumption
<1>2. /\ Structured(want).task = want.task
      /\ Structured(want).needs = want.needs \cup {"structuredOutput"}
  BY RoutingAssumption DEF Structured
<1>3. QED
  BY <1>1, <1>2 DEF Needed

LEMMA RankedMeet ==
  ASSUME listed \in Seq(Entries), NEW want, want.task \in Tasks, NEW filtered,
         NEW n \in DOMAIN RankedBut(want, filtered)
  PROVE  /\ RankedBut(want, filtered)[n] \in Entries
         /\ \A needs : needs \subseteq want.needs
              => Meets(listed, needs, Candidate(RankedBut(want, filtered)[n]))
<1>1. PICK i \in Accepted(want, filtered) : RankedBut(want, filtered)[n] = listed[i]
  BY RankedFacts
<1>2. i \in DOMAIN listed /\ Accepts(listed[i], want)
  BY DEF Accepted
<1>3. listed[i] \in Entries
  BY <1>2
<1>4. want.needs \subseteq listed[i].capabilities
  BY <1>2 DEF Accepts
<1>5. /\ Candidate(listed[i]).id = listed[i].id
      /\ Candidate(listed[i]).provider = listed[i].provider
  BY DEF Candidate
<1>6. QED
  BY <1>1, <1>2, <1>3, <1>4, <1>5 DEF Meets

LEMMA FallbacksMeet ==
  ASSUME listed \in Seq(Entries), asking.want \in Wants, NEW failed
  PROVE  /\ GetFallbacks(failed) \in Seq({Candidate(e) : e \in Entries})
         /\ \A n \in DOMAIN GetFallbacks(failed) :
              Meets(listed, Needed(asking.kind, asking.want).needs, GetFallbacks(failed)[n])
<1> DEFINE want == IF asking.kind = "structured" THEN Structured(asking.want) ELSE asking.want
           others == RankedBut(want, {failed})
           few == Min({3, Len(others)})
           kept == Cardinality(Accepted(want, {failed}))
<1>1. want.task \in Tasks /\ Needed(asking.kind, asking.want).needs \subseteq want.needs
  <2>1. /\ Needed(asking.kind, asking.want).task \in Tasks
        /\ Structured(asking.want).task \in Tasks
        /\ Needed(asking.kind, asking.want).needs \subseteq Structured(asking.want).needs
        /\ asking.kind # "structured" => Needed(asking.kind, asking.want) = asking.want
    BY NeededFacts
  <2>2. QED
    BY <2>1
<1>2. DOMAIN others = 1..kept /\ kept \in Nat
  <2> HIDE DEF want
  <2>1. QED
    BY <1>1, RankedFacts
<1>3. ASSUME NEW n \in DOMAIN others
      PROVE  /\ others[n] \in Entries
             /\ Meets(listed, Needed(asking.kind, asking.want).needs, Candidate(others[n]))
  <2> HIDE DEF want
  <2>1. QED
    BY <1>1, RankedMeet
<1>4. GetFallbacks(failed) = [n \in 1..few |-> Candidate(others[n])]
  BY DEF GetFallbacks
<1> HIDE DEF want, kept
<1>5. others \in Seq(Entries)
  <2>1. others = [n \in 1..kept |-> others[n]]
    BY <1>2 DEF RankedBut
  <2>2. others \in [1..kept -> Entries]
    BY <1>2, <1>3, <2>1
  <2> HIDE DEF others
  <2>3. QED
    BY <1>2, <2>2, SeqDef
<1> HIDE DEF others
<1>6. Len(others) = kept
  BY <1>2, <1>5
<1>7. few \in Nat /\ few <= kept
  <2>1. few = IF 3 <= Len(others) THEN 3 ELSE Len(others)
    BY <1>2, <1>6, LeastOfTwo
  <2>2. QED
    BY <1>2, <1>6, <2>1
<1> HIDE DEF few
<1>8. \A n \in 1..few : n \in DOMAIN others
  BY <1>2, <1>7
<1>9. [n \in 1..few |-> Candidate(others[n])] \in [1..few -> {Candidate(e) : e \in Entries}]
  BY <1>3, <1>8
<1>10. GetFallbacks(failed) \in Seq({Candidate(e) : e \in Entries})
  BY <1>4, <1>7, <1>9, SeqDef
<1>11. QED
  BY <1>3, <1>4, <1>8, <1>10

(* A step of the call keeps its parameters and leaves the list alone.      *)
LEMMA CallGoesOn ==
  ASSUME RoutingIInv, UNCHANGED <<registered, routable, listed>>,
         DOMAIN asking' = DOMAIN asking,
         asking'.kind = asking.kind, asking'.want = asking.want,
         asking'.emptied = asking.emptied, asking'.phase # "idle",
         asking'.queue \in Seq({Candidate(e) : e \in Entries}),
         \A n \in DOMAIN asking'.queue :
           Meets(listed, Needed(asking.kind, asking.want).needs, asking'.queue[n]),
         \A c \in asking'.tried :
           c.routed => Meets(listed, Needed(asking.kind, asking.want).needs, c),
         NoModelTwice'
  PROVE  RoutingIInv'
<1>1. AskingTyped'
  BY DEF RoutingIInv, AskingTyped
<1>2. RouterFollowsRegistry'
  BY DEF RoutingIInv, RouterFollowsRegistry
<1>3. QueueMeets'
  BY DEF QueueMeets
<1>4. TriedMeet'
  BY DEF TriedMeet
<1>5. QED
  BY <1>1, <1>2, <1>3, <1>4 DEF RoutingIInv

LEMMA ProvidersStep ==
  ASSUME RoutingIInv, routable' = DOMAIN registered', UNCHANGED <<listed, asking>>
  PROVE  RoutingIInv'
<1>1. AskingTyped' /\ QueueMeets' /\ TriedMeet'
  BY DEF RoutingIInv, AskingTyped, QueueMeets, TriedMeet
<1>2. RouterFollowsRegistry' /\ NoModelTwice'
  BY DEF RoutingIInv, RouterFollowsRegistry, NoModelTwice
<1>3. QED
  BY <1>1, <1>2 DEF RoutingIInv

LEMMA AddModelsStep ==
  ASSUME RoutingIInv, NEW e \in Customs, AddModels(e)
  PROVE  RoutingIInv'
<1>1. e \in Entries /\ listed \in Seq(Entries)
  BY DEF Entries, RoutingIInv, AskingTyped
<1>2. listed' = Append(listed, e) /\ UNCHANGED <<registered, routable, asking>>
  BY DEF AddModels
<1>3. listed' \in Seq(Entries)
  BY <1>1, <1>2
<1>4. AskingTyped'
  BY <1>2, <1>3 DEF RoutingIInv, AskingTyped
<1>5. \A needs, c : Meets(listed, needs, c) => Meets(listed', needs, c)
  BY <1>1, <1>2, MeetsLonger
<1>6. QueueMeets'
  BY <1>2, <1>5 DEF RoutingIInv, QueueMeets
<1>7. TriedMeet'
  BY <1>2, <1>5 DEF RoutingIInv, TriedMeet
<1>8. RouterFollowsRegistry' /\ NoModelTwice'
  BY <1>2 DEF RoutingIInv, RouterFollowsRegistry, NoModelTwice
<1>9. QED
  BY <1>4, <1>6, <1>7, <1>8 DEF RoutingIInv

LEMMA DisposeStep ==
  ASSUME RoutingIInv, Dispose
  PROVE  RoutingIInv'
<1>1. /\ asking' = [asking EXCEPT !.emptied = TRUE] /\ UNCHANGED <<routable, listed>>
      /\ DOMAIN asking = {"phase", "kind", "want", "current", "tried", "queue", "emptied"}
  BY DEF Dispose, RoutingIInv, AskingTyped
<1>2. /\ DOMAIN asking' = DOMAIN asking /\ asking'.emptied = TRUE
      /\ asking'.phase = asking.phase /\ asking'.kind = asking.kind
      /\ asking'.want = asking.want /\ asking'.tried = asking.tried
      /\ asking'.queue = asking.queue
  BY <1>1
<1>3. AskingTyped'
  BY <1>1, <1>2 DEF RoutingIInv, AskingTyped
<1>4. QueueMeets'
  BY <1>1, <1>2 DEF RoutingIInv, QueueMeets
<1>5. TriedMeet'
  BY <1>1, <1>2 DEF RoutingIInv, TriedMeet
<1>6. RouterFollowsRegistry' /\ NoModelTwice'
  BY <1>2 DEF RoutingIInv, RouterFollowsRegistry, NoModelTwice
<1>7. QED
  BY <1>3, <1>4, <1>5, <1>6 DEF RoutingIInv

(* The model a call starts with is named in its parameters or ranked.      *)
LEMMA ResolvedMeets ==
  ASSUME listed \in Seq(Entries), NEW want \in Wants, NEW kind, NEW c \in Resolved(kind, want)
  PROVE  c.routed => Meets(listed, Needed(kind, want).needs, c)
<1> DEFINE needed == Needed(kind, want)
           ranked == Ranked(needed)
<1>1. CASE want.explicit # {}
  <2>1. PICK m \in want.explicit : c = [NoCandidate EXCEPT !.provider = m.provider, !.id = m.id]
    BY <1>1 DEF Resolved
  <2>2. c.routed = FALSE
    BY <2>1 DEF NoCandidate
  <2>3. QED
    BY <2>2
<1>2. CASE want.explicit = {}
  <2>1. PICK n \in DOMAIN ranked : c = Candidate(ranked[n])
    BY <1>2 DEF Resolved
  <2>2. needed.task \in Tasks
    BY NeededFacts
  <2>3. ranked = RankedBut(needed, {})
    BY DEF Ranked
  <2>4. Meets(listed, needed.needs, Candidate(RankedBut(needed, {})[n]))
    <3>1. n \in DOMAIN RankedBut(needed, {})
      BY <2>3
    <3> HIDE DEF needed, ranked
    <3>2. QED
      BY <2>2, <3>1, RankedMeet
  <2>5. QED
    BY <2>1, <2>3, <2>4
<1>3. QED
  BY <1>1, <1>2

LEMMA RoutedCallStep ==
  ASSUME RoutingIInv, NEW kind \in {"complete", "structured", "stream"}, NEW want \in Wants,
         Call(kind, want)
  PROVE  RoutingIInv'
<1>1. /\ listed \in Seq(Entries) /\ asking.phase = "idle" /\ asking.queue = <<>>
      /\ asking.tried = {}
      /\ DOMAIN asking = {"phase", "kind", "want", "current", "tried", "queue", "emptied"}
  BY DEF RoutingIInv, AskingTyped, Call
<1>2. UNCHANGED <<registered, routable, listed>>
  BY DEF Call
<1>3. /\ DOMAIN asking' = DOMAIN asking /\ asking'.kind = kind /\ asking'.want = want
      /\ asking'.queue = <<>> /\ asking'.emptied = asking.emptied /\ asking'.phase # "idle"
      /\ asking'.tried = {} \/ \E c \in Resolved(kind, want) : asking'.tried = {c}
  BY <1>1 DEF Call
<1>4. AskingTyped'
  BY <1>1, <1>2, <1>3 DEF AskingTyped
<1>5. QueueMeets'
  BY <1>3 DEF QueueMeets
<1>6. \A c \in Resolved(kind, want) : c.routed => Meets(listed, Needed(kind, want).needs, c)
  BY <1>1, ResolvedMeets
<1>7. TriedMeet'
  BY <1>2, <1>3, <1>6 DEF TriedMeet
<1>8. NoModelTwice'
  BY <1>3 DEF NoModelTwice
<1>9. RouterFollowsRegistry'
  BY <1>2, <1>3 DEF RoutingIInv, RouterFollowsRegistry
<1>10. QED
  BY <1>4, <1>5, <1>7, <1>8, <1>9 DEF RoutingIInv

LEMMA AttemptFailsStep ==
  ASSUME RoutingIInv, AttemptFails
  PROVE  RoutingIInv'
<1> DEFINE C == {Candidate(e) : e \in Entries}
           N == Needed(asking.kind, asking.want).needs
<1>1. /\ listed \in Seq(Entries) /\ asking.want \in Wants /\ asking.queue \in Seq(C)
      /\ DOMAIN asking = {"phase", "kind", "want", "current", "tried", "queue", "emptied"}
  BY DEF RoutingIInv, AskingTyped
<1>2. UNCHANGED <<registered, routable, listed>>
  BY DEF AttemptFails
<1>3. /\ DOMAIN asking' = DOMAIN asking /\ asking'.kind = asking.kind
      /\ asking'.want = asking.want /\ asking'.emptied = asking.emptied
      /\ asking'.phase # "idle" /\ asking'.tried = asking.tried
      /\ asking'.queue \in {GetFallbacks(asking.current.id), <<>>, asking.queue}
  BY <1>1 DEF AttemptFails
<1>4. /\ GetFallbacks(asking.current.id) \in Seq(C)
      /\ \A n \in DOMAIN GetFallbacks(asking.current.id) :
           Meets(listed, N, GetFallbacks(asking.current.id)[n])
  BY <1>1, FallbacksMeet
<1>5. \A n \in DOMAIN asking.queue : Meets(listed, N, asking.queue[n])
  BY DEF RoutingIInv, QueueMeets
<1>6. /\ asking'.queue \in Seq(C)
      /\ \A n \in DOMAIN asking'.queue : Meets(listed, N, asking'.queue[n])
  <2> HIDE DEF C, N
  <2>1. CASE asking'.queue = GetFallbacks(asking.current.id)
    BY <1>4, <2>1
  <2>2. CASE asking'.queue = <<>>
    BY <2>2
  <2>3. CASE asking'.queue = asking.queue
    BY <1>1, <1>5, <2>3
  <2>4. QED
    BY <1>3, <2>1, <2>2, <2>3
<1>7. \A c \in asking'.tried : c.routed => Meets(listed, N, c)
  BY <1>3 DEF RoutingIInv, TriedMeet
<1>8. NoModelTwice'
  BY <1>3 DEF RoutingIInv, NoModelTwice
<1>9. QED
  BY <1>2, <1>3, <1>6, <1>7, <1>8, CallGoesOn

(* Over the fallbacks: the rest of them meet what they all did.            *)
LEMMA RestMeets ==
  ASSUME NEW S, NEW q \in Seq(S), q # <<>>, NEW P, \A n \in DOMAIN q : q[n] \in P
  PROVE  /\ Tail(q) \in Seq(S) /\ Head(q) \in P
         /\ \A n \in DOMAIN Tail(q) : Tail(q)[n] \in P
<1>1. /\ Len(q) \in Nat /\ Len(q) > 0 /\ DOMAIN q = 1..Len(q)
  OBVIOUS
<1>2. Tail(q) \in Seq(S) /\ Len(Tail(q)) = Len(q) - 1 /\ Head(q) = q[1]
  OBVIOUS
<1>3. \A n \in 1..(Len(q) - 1) : Tail(q)[n] = q[n + 1]
  OBVIOUS
<1>4. DOMAIN Tail(q) = 1..(Len(q) - 1)
  BY <1>2
<1>5. ASSUME NEW n \in DOMAIN Tail(q) PROVE Tail(q)[n] \in P
  <2>1. n \in 1..(Len(q) - 1)
    BY <1>4
  <2>2. n + 1 \in DOMAIN q /\ Tail(q)[n] = q[n + 1]
    BY <1>1, <1>3, <2>1
  <2>3. QED
    BY <2>2
<1>6. 1 \in DOMAIN q
  BY <1>1
<1>7. QED
  BY <1>2, <1>5, <1>6

LEMMA TurningStep ==
  ASSUME RoutingIInv, PassOver \/ NextFallback
  PROVE  RoutingIInv'
<1> DEFINE C == {Candidate(e) : e \in Entries}
           N == Needed(asking.kind, asking.want).needs
           P == {c \in C : Meets(listed, N, c)}
           q == asking.queue
<1>1. /\ listed \in Seq(Entries) /\ asking.want \in Wants /\ q \in Seq(C) /\ q # <<>>
      /\ DOMAIN asking = {"phase", "kind", "want", "current", "tried", "queue", "emptied"}
  BY DEF RoutingIInv, AskingTyped, PassOver, NextFallback
<1>2. UNCHANGED <<registered, routable, listed>>
  BY DEF PassOver, NextFallback
<1>3. /\ DOMAIN asking' = DOMAIN asking /\ asking'.kind = asking.kind
      /\ asking'.want = asking.want /\ asking'.emptied = asking.emptied
      /\ asking'.phase # "idle" /\ asking'.queue = Tail(q)
      /\ \/ asking'.tried = asking.tried
         \/ asking'.tried = asking.tried \cup {Head(q)} /\ Fresh(Head(q))
  <2>1. CASE PassOver
    BY <1>1, <2>1 DEF PassOver
  <2>2. CASE NextFallback
    BY <1>1, <2>2 DEF NextFallback
  <2>3. QED
    BY <2>1, <2>2
<1>4. \A n \in DOMAIN q : q[n] \in P
  BY <1>1 DEF RoutingIInv, QueueMeets
<1>5. Tail(q) \in Seq(C) /\ Head(q) \in P /\ \A n \in DOMAIN Tail(q) : Tail(q)[n] \in P
  <2> HIDE DEF C, P, q
  <2>1. QED
    BY <1>1, <1>4, RestMeets
<1>6. \A n \in DOMAIN asking'.queue : Meets(listed, N, asking'.queue[n])
  BY <1>3, <1>5
<1>7. \A c \in asking.tried : c.routed => Meets(listed, N, c)
  BY DEF RoutingIInv, TriedMeet
<1>8. \A c \in asking'.tried : c.routed => Meets(listed, N, c)
  BY <1>3, <1>5, <1>7
<1>9. NoModelTwice'
  <2>1. \A c, d \in asking.tried : c.id = d.id => c = d
    BY DEF RoutingIInv, NoModelTwice
  <2>2. \A c, d \in asking'.tried : c.id = d.id => c = d
    BY <1>3, <2>1 DEF Fresh
  <2>3. QED
    BY <2>2 DEF NoModelTwice
<1>10. asking'.queue \in Seq(C)
  BY <1>3, <1>5
<1>11. QED
  BY <1>2, <1>3, <1>6, <1>8, <1>9, <1>10, CallGoesOn

LEMMA SettledStep ==
  ASSUME RoutingIInv, Answered \/ OutOfFallbacks
  PROVE  RoutingIInv'
<1>1. /\ asking.queue \in Seq({Candidate(e) : e \in Entries})
      /\ DOMAIN asking = {"phase", "kind", "want", "current", "tried", "queue", "emptied"}
  BY DEF RoutingIInv, AskingTyped
<1>2. UNCHANGED <<registered, routable, listed>>
  BY DEF Answered, OutOfFallbacks
<1>3. /\ DOMAIN asking' = DOMAIN asking /\ asking'.kind = asking.kind
      /\ asking'.want = asking.want /\ asking'.emptied = asking.emptied
      /\ asking'.phase # "idle" /\ asking'.queue = asking.queue
      /\ asking'.tried = asking.tried
  BY <1>1 DEF Answered, OutOfFallbacks
<1>4. NoModelTwice'
  BY <1>3 DEF RoutingIInv, NoModelTwice
<1>5. /\ \A n \in DOMAIN asking'.queue :
           Meets(listed, Needed(asking.kind, asking.want).needs, asking'.queue[n])
      /\ \A c \in asking'.tried :
           c.routed => Meets(listed, Needed(asking.kind, asking.want).needs, c)
  BY <1>3 DEF RoutingIInv, QueueMeets, TriedMeet
<1>6. QED
  BY <1>1, <1>2, <1>3, <1>4, <1>5, CallGoesOn

LEMMA RoutingStep == RoutingIInv /\ [RoutingNext]_routingVars => RoutingIInv'
<1> SUFFICES ASSUME RoutingIInv, [RoutingNext]_routingVars PROVE RoutingIInv'
  OBVIOUS
<1>1. ASSUME NEW c \in Registrations, AddProvider(c) PROVE RoutingIInv'
  BY <1>1, ProvidersStep DEF AddProvider
<1>2. ASSUME NEW name \in DOMAIN registered, RemoveProvider(name) PROVE RoutingIInv'
  BY <1>2, ProvidersStep DEF RemoveProvider
<1>3. ASSUME NEW e \in Customs, AddModels(e) PROVE RoutingIInv'
  BY <1>3, AddModelsStep
<1>4. CASE Dispose
  BY <1>4, DisposeStep
<1>5. ASSUME NEW kind \in {"complete", "structured", "stream"}, NEW want \in Wants,
             Call(kind, want)
      PROVE  RoutingIInv'
  BY <1>5, RoutedCallStep
<1>6. CASE Answered \/ OutOfFallbacks
  BY <1>6, SettledStep
<1>7. CASE AttemptFails
  BY <1>7, AttemptFailsStep
<1>8. CASE PassOver \/ NextFallback
  BY <1>8, TurningStep
<1>9. CASE UNCHANGED routingVars
  BY <1>9 DEF routingVars, RoutingIInv, AskingTyped, RouterFollowsRegistry, NoModelTwice,
       QueueMeets, TriedMeet
<1>10. QED
  BY <1>1, <1>2, <1>3, <1>4, <1>5, <1>6, <1>7, <1>8, <1>9 DEF RoutingNext

----------------------------------------------------------------------------
(* From the components to the composition: in a step of ServicesNext each  *)
(* of the three takes a step of its own or stands still.                   *)

LEMMA ClientSteps ==
  [ServicesNext]_services =>
    /\ [MultiModalNext]_unaryVars /\ [RoutingNext]_routingVars
    /\ [MiddlewaresNext]_middlewareVars
<1>1. ASSUME UNCHANGED services
      PROVE  UNCHANGED unaryVars /\ UNCHANGED routingVars /\ UNCHANGED middlewareVars
  BY <1>1 DEF services
<1>2. ASSUME ServicesNext PROVE MultiModalNext \/ UNCHANGED unaryVars
  BY <1>2 DEF ServicesNext, Only
<1>3. ASSUME ServicesNext PROVE RoutingNext \/ UNCHANGED routingVars
  BY <1>3 DEF ServicesNext, Only
<1>4. ASSUME ServicesNext PROVE MiddlewaresNext \/ UNCHANGED middlewareVars
  BY <1>4 DEF ServicesNext, Only
<1>5. QED
  BY <1>1, <1>2, <1>3, <1>4

(* ClientCalls (src/client/client.ts, src/router, src/middleware): a model *)
(* the router chose, first or as a fallback, has what the call needs, none *)
(* is tried twice and a preference helps; a unary call is told of as often *)
(* as it asks, and each middleware does once for a request what it should. *)
THEOREM ClientCallsStay == ServicesSpec => []ClientCalls
<1> DEFINE ClientIInv == RoutingIInv /\ MultiModalIInv /\ MiddlewaresIInv
<1>1. ServicesInit => ClientIInv
  BY RoutingStart, MultiModalStart, MiddlewaresStart DEF ServicesInit
<1>2. ClientIInv /\ [ServicesNext]_services => ClientIInv'
  BY RoutingStep, MultiModalStep, MiddlewaresStep, ClientSteps
<1>3. ClientIInv => ClientCalls
  BY RoutingImplies, MultiModalImplies, MiddlewaresImply DEF ClientCalls
<1>4. QED
  BY <1>1, <1>2, <1>3, PTL DEF ServicesSpec
============================================================================
