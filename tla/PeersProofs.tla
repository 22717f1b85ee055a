---------------------------- MODULE PeersProofs ----------------------------
(***************************************************************************)
(* Theorems about what calls share of a server: the tokens of Credentials, *)
(* the pool of FetchTransport and the sockets of Connections, for every    *)
(* set of callers, every pool size and any number of sockets; about the    *)
(* hooks of a page, for any number of requests in every binding; and about *)
(* the tool calls of a streamed answer, for any number of parts and pieces *)
(* through every adapter.                                                  *)
(*                                                                         *)
(* None of the properties is inductive.  A caller that still waits for a   *)
(* token must get one later than what it has seen revoked, so OidcIInv     *)
(* says which request it waits for, that tokens are numbered as they are   *)
(* requested, and that the cache never holds a revoked one.  That shared   *)
(* fetches are one follows from what the entry of an undisturbed origin    *)
(* holds (PoolIInv); that a session is truthful, from what the sockets     *)
(* before the current one may still do (SocketsIInv).  That a hook tells   *)
(* the truth follows from which request can be under way at all, and from  *)
(* what can still reach its list: what closures hold of it, the histories  *)
(* that were sent, and whose message is the last one (HooksIInv).  That    *)
(* calls are run once and whole follows from where each sent piece is: in  *)
(* the adapter, due, pending or taken (AdapterIInv).                       *)
(***************************************************************************)
EXTENDS Peers, Credentials, AdapterStreams, SequenceTheorems, FiniteSetTheorems,
        WellFoundedInduction, TLAPS

Waits(c) == tokenCall[c].phase \in {"leads", "joined"}

(* Those who wait, wait for the one request under way, which is the last.  *)
WaitersAligned ==
  /\ inflight # 0 => inflight = fetched
  /\ \A c \in TokenCallers :
       /\ Waits(c) => inflight # 0 /\ tokenCall[c].awaits = inflight
       /\ ~Waits(c) => tokenCall[c].awaits = 0

(* What was revoked had arrived, callers have seen no more revoked, and    *)
(* what is cached came later.                                              *)
RevokedInOrder ==
  /\ revoked <= FetchesOver
  /\ cache.token # 0 => cache.token > revoked
  /\ \A c \in TokenCallers : tokenCall[c].asked <= revoked

OidcIInv == OidcTypeOK /\ WaitersAligned /\ RevokedInOrder /\ RevokedTokensBounded

CallerType ==
  [phase : {"idle", "leads", "joined", "got", "failed"}, awaits : TokenIds,
   got : TokenIds, asked : TokenIds]

LEMMA CredentialsStart == OidcInit => OidcIInv
<1> SUFFICES ASSUME OidcInit PROVE OidcIInv
  OBVIOUS
<1>1. 0 \in TokenIds
  BY OidcAssumption DEF TokenIds
<1>2. OidcTypeOK
  BY <1>1 DEF OidcInit, OidcTypeOK, IdleCaller
<1>3. WaitersAligned
  BY DEF OidcInit, WaitersAligned, Waits, IdleCaller
<1>4. RevokedInOrder
  BY DEF OidcInit, RevokedInOrder, FetchesOver, IdleCaller
<1>5. RevokedTokensBounded
  BY DEF OidcInit, RevokedTokensBounded, IdleCaller
<1>6. QED
  BY <1>2, <1>3, <1>4, <1>5 DEF OidcIInv

(* A caller that changes its record for one in which it waits for nothing  *)
(* and has not got a token disturbs nothing.                               *)
LEMMA CallAgainKeeps ==
  ASSUME OidcIInv, NEW c \in TokenCallers, CallAgain(c)
  PROVE  OidcIInv'
<1>1. 0 \in TokenIds
  BY OidcAssumption DEF TokenIds
<1>2. tokenCall \in [TokenCallers -> CallerType] /\ revoked \in TokenIds
  BY DEF OidcIInv, OidcTypeOK, CallerType
<1>3. tokenCall' = [tokenCall EXCEPT ![c] = IdleCaller]
  BY DEF CallAgain
<1>4. IdleCaller \in CallerType
  BY <1>1 DEF IdleCaller, CallerType
<1>5. UNCHANGED <<cache, inflight, fetched, revoked>> /\ tokenCall[c].phase \in {"got", "failed"}
  BY DEF CallAgain
<1>6. \A d \in TokenCallers : tokenCall'[d] = IF d = c THEN IdleCaller ELSE tokenCall[d]
  BY <1>2, <1>3
<1>7. OidcTypeOK'
  <2>1. tokenCall' \in [TokenCallers -> CallerType]
    BY <1>2, <1>3, <1>4
  <2>2. QED
    BY <2>1, <1>5 DEF OidcIInv, OidcTypeOK, CallerType
<1>8. WaitersAligned'
  BY <1>5, <1>6 DEF OidcIInv, WaitersAligned, Waits, IdleCaller
<1>9. RevokedInOrder'
  <2>1. 0 <= revoked
    BY <1>2, OidcAssumption DEF TokenIds
  <2>2. QED
    BY <2>1, <1>5, <1>6 DEF OidcIInv, RevokedInOrder, FetchesOver, IdleCaller
<1>10. RevokedTokensBounded'
  BY <1>5, <1>6 DEF OidcIInv, RevokedTokensBounded, IdleCaller
<1>11. QED
  BY <1>7, <1>8, <1>9, <1>10 DEF OidcIInv

LEMMA GetTokenKeeps ==
  ASSUME OidcIInv, NEW c \in TokenCallers, GetToken(c)
  PROVE  OidcIInv'
<1> DEFINE Becomes(r) == tokenCall' = [tokenCall EXCEPT ![c] = r]
<1>1. /\ tokenCall \in [TokenCallers -> CallerType]
      /\ revoked \in TokenIds /\ fetched \in TokenIds /\ inflight \in TokenIds
      /\ cache \in [token : TokenIds, valid : BOOLEAN]
  BY DEF OidcIInv, OidcTypeOK, CallerType
<1>2. UNCHANGED <<cache, revoked>> /\ tokenCall[c].phase = "idle"
  BY DEF GetToken
<1>3. 0 \in TokenIds /\ TokenIds \subseteq Nat
  BY OidcAssumption DEF TokenIds
<1>4. ASSUME NEW r \in CallerType, Becomes(r)
      PROVE  /\ tokenCall' \in [TokenCallers -> CallerType]
             /\ \A d \in TokenCallers : tokenCall'[d] = IF d = c THEN r ELSE tokenCall[d]
  BY <1>1, <1>4
<1>5. CASE CacheUsable
  <2> DEFINE r == [phase |-> "got", awaits |-> 0, got |-> cache.token, asked |-> revoked]
  <2>1. Becomes(r) /\ UNCHANGED <<inflight, fetched>>
    BY <1>5 DEF GetToken
  <2>2. r \in CallerType
    BY <1>1, <1>3 DEF CallerType
  <2>3. /\ tokenCall' \in [TokenCallers -> CallerType]
        /\ \A d \in TokenCallers : tokenCall'[d] = IF d = c THEN r ELSE tokenCall[d]
    BY <2>1, <2>2, <1>4
  <2>4. cache.token > revoked
    BY <1>5 DEF CacheUsable, OidcIInv, RevokedInOrder
  <2>5. OidcTypeOK'
    BY <2>1, <2>3, <1>2 DEF OidcIInv, OidcTypeOK, CallerType
  <2>6. WaitersAligned'
    BY <2>1, <2>3 DEF OidcIInv, WaitersAligned, Waits
  <2>7. RevokedInOrder'
    BY <2>1, <2>3, <1>1, <1>2, <1>3 DEF OidcIInv, RevokedInOrder, FetchesOver
  <2>8. RevokedTokensBounded'
    BY <2>1, <2>3, <2>4, <1>2 DEF OidcIInv, RevokedTokensBounded
  <2>9. QED
    BY <2>5, <2>6, <2>7, <2>8 DEF OidcIInv
<1>6. CASE ~CacheUsable /\ inflight # 0
  <2> DEFINE r == [phase |-> "joined", awaits |-> inflight, got |-> 0, asked |-> revoked]
  <2>1. Becomes(r) /\ UNCHANGED <<inflight, fetched>>
    BY <1>6 DEF GetToken
  <2>2. r \in CallerType
    BY <1>1, <1>3 DEF CallerType
  <2>3. /\ tokenCall' \in [TokenCallers -> CallerType]
        /\ \A d \in TokenCallers : tokenCall'[d] = IF d = c THEN r ELSE tokenCall[d]
    BY <2>1, <2>2, <1>4
  <2>4. OidcTypeOK'
    BY <2>1, <2>3, <1>2 DEF OidcIInv, OidcTypeOK, CallerType
  <2>5. WaitersAligned'
    BY <2>1, <2>3, <1>6 DEF OidcIInv, WaitersAligned, Waits
  <2>6. RevokedInOrder'
    BY <2>1, <2>3, <1>1, <1>2, <1>3 DEF OidcIInv, RevokedInOrder, FetchesOver
  <2>7. RevokedTokensBounded'
    BY <2>1, <2>3, <1>2 DEF OidcIInv, RevokedTokensBounded
  <2>8. QED
    BY <2>4, <2>5, <2>6, <2>7 DEF OidcIInv
<1>7. CASE ~CacheUsable /\ inflight = 0
  <2> DEFINE r == [phase |-> "leads", awaits |-> fetched + 1, got |-> 0, asked |-> revoked]
  <2>1. Becomes(r) /\ fetched' = fetched + 1 /\ inflight' = fetched + 1
        /\ fetched < MaxTokenFetches
    BY <1>7 DEF GetToken
  <2>2. fetched + 1 \in TokenIds /\ fetched + 1 # 0
    BY <2>1, <1>1, OidcAssumption DEF TokenIds
  <2>3. r \in CallerType
    BY <2>2, <1>1, <1>3 DEF CallerType
  <2>4. /\ tokenCall' \in [TokenCallers -> CallerType]
        /\ \A d \in TokenCallers : tokenCall'[d] = IF d = c THEN r ELSE tokenCall[d]
    BY <2>1, <2>3, <1>4
  <2>5. \A d \in TokenCallers : ~Waits(d)
    BY <1>7 DEF OidcIInv, WaitersAligned
  <2>6. OidcTypeOK'
    BY <2>1, <2>2, <2>4, <1>2 DEF OidcIInv, OidcTypeOK, CallerType
  <2>7. WaitersAligned'
    BY <2>1, <2>2, <2>4, <2>5 DEF OidcIInv, WaitersAligned, Waits
  <2>8. RevokedInOrder'
    <3>1. FetchesOver = fetched /\ FetchesOver' = fetched
      BY <2>1, <2>2, <1>1, <1>3, <1>7 DEF FetchesOver
    <3>2. QED
      BY <3>1, <2>4, <1>1, <1>2, <1>3 DEF OidcIInv, RevokedInOrder
  <2>9. RevokedTokensBounded'
    <3>1. tokenCall'[c].phase = "leads" /\ tokenCall'[c].awaits = inflight'
      BY <2>1, <2>4
    <3>2. QED
      BY <3>1, <2>4, <2>5, <1>2 DEF OidcIInv, RevokedTokensBounded, Waits
  <2>10. QED
    BY <2>6, <2>7, <2>8, <2>9 DEF OidcIInv
<1>8. QED
  BY <1>5, <1>6, <1>7

(* The end of a token request wakes every caller that waits: none is left. *)
LEMMA EndTokenFetchKeeps ==
  ASSUME OidcIInv, NEW c \in TokenCallers, NEW phase \in {"got", "failed"}, NEW token \in TokenIds,
         EndTokenFetch(c, phase, token), UNCHANGED <<fetched, revoked>>,
         phase = "got" => token = fetched,
         cache' \in [token : TokenIds, valid : BOOLEAN],
         cache' = cache \/ cache'.token = fetched
  PROVE  OidcIInv'
<1>1. /\ tokenCall \in [TokenCallers -> CallerType]
      /\ revoked \in TokenIds /\ fetched \in TokenIds /\ inflight \in TokenIds
  BY DEF OidcIInv, OidcTypeOK, CallerType
<1>2. 0 \in TokenIds /\ TokenIds \subseteq Nat
  BY OidcAssumption DEF TokenIds
<1>3. Waits(c) /\ inflight # 0 /\ inflight = fetched /\ tokenCall[c].awaits = inflight
  BY DEF OidcIInv, WaitersAligned, Waits, EndTokenFetch
<1>4. /\ inflight' = 0
      /\ tokenCall' = [d \in TokenCallers |->
           IF tokenCall[d].awaits = tokenCall[c].awaits
           THEN [tokenCall[d] EXCEPT !.phase = phase, !.awaits = 0, !.got = token]
           ELSE tokenCall[d]]
  BY DEF EndTokenFetch
<1>5. \A d \in TokenCallers : tokenCall[d].awaits = tokenCall[c].awaits <=> Waits(d)
  BY <1>3 DEF OidcIInv, WaitersAligned
<1>6. ASSUME NEW d \in TokenCallers
      PROVE  /\ tokenCall'[d] \in CallerType
             /\ tokenCall'[d].asked = tokenCall[d].asked
             /\ tokenCall'[d].awaits = 0
             /\ tokenCall'[d].phase \notin {"leads", "joined"}
             /\ \/ tokenCall'[d].phase = phase /\ tokenCall'[d].got = token
                \/ tokenCall'[d].phase = tokenCall[d].phase /\ tokenCall'[d].got = tokenCall[d].got
  <2>1. tokenCall[d] \in CallerType
    BY <1>1
  <2>2. CASE Waits(d)
    <3>1. tokenCall'[d] = [tokenCall[d] EXCEPT !.phase = phase, !.awaits = 0, !.got = token]
      BY <2>2, <1>4, <1>5
    <3>2. QED
      BY <3>1, <2>1, <1>2 DEF CallerType
  <2>3. CASE ~Waits(d)
    <3>1. tokenCall'[d] = tokenCall[d]
      BY <2>3, <1>4, <1>5
    <3>2. QED
      BY <3>1, <2>1, <2>3 DEF OidcIInv, WaitersAligned, Waits
  <2>4. QED
    BY <2>2, <2>3
<1>7. OidcTypeOK'
  <2>1. tokenCall' \in [TokenCallers -> CallerType]
    BY <1>4, <1>6
  <2>2. QED
    BY <2>1, <1>1, <1>2, <1>4 DEF OidcTypeOK, CallerType
<1>8. WaitersAligned'
  BY <1>4, <1>6 DEF WaitersAligned, Waits
<1>9. fetched > revoked /\ FetchesOver' = fetched
  <2>1. revoked <= fetched - 1
    BY <1>3 DEF OidcIInv, RevokedInOrder, FetchesOver
  <2>2. fetched \in Nat /\ revoked \in Nat /\ fetched' = fetched
    BY <1>1, <1>2
  <2>3. FetchesOver' = fetched
    BY <1>4, <2>2 DEF FetchesOver
  <2>4. QED
    BY <2>1, <2>2, <2>3
<1>10. RevokedInOrder'
  <2>1. revoked' = revoked /\ fetched \in Nat /\ revoked \in Nat
    BY <1>1, <1>2
  <2>2. revoked' <= FetchesOver'
    BY <1>9, <2>1
  <2>3. cache'.token # 0 => cache'.token > revoked'
    BY <1>9, <2>1 DEF OidcIInv, RevokedInOrder
  <2>4. \A d \in TokenCallers : tokenCall'[d].asked <= revoked'
    BY <1>6, <2>1 DEF OidcIInv, RevokedInOrder
  <2>5. QED
    BY <2>2, <2>3, <2>4 DEF RevokedInOrder
<1>11. RevokedTokensBounded'
  <2>1. ASSUME NEW d \in TokenCallers, tokenCall'[d].phase = "got"
        PROVE  tokenCall'[d].got > tokenCall'[d].asked
    <3>1. tokenCall[d].asked <= revoked /\ tokenCall[d].asked \in Nat
      BY <1>1, <1>2 DEF OidcIInv, RevokedInOrder, CallerType
    <3>2. CASE tokenCall'[d].phase = phase /\ tokenCall'[d].got = token
      BY <3>1, <3>2, <2>1, <1>1, <1>2, <1>6, <1>9
    <3>3. CASE tokenCall'[d].phase = tokenCall[d].phase /\ tokenCall'[d].got = tokenCall[d].got
      BY <3>3, <2>1, <1>6 DEF OidcIInv, RevokedTokensBounded
    <3>4. QED
      BY <3>2, <3>3, <1>6
  <2>2. QED
    BY <2>1, <1>4, <1>6 DEF RevokedTokensBounded
<1>12. QED
  BY <1>7, <1>8, <1>10, <1>11 DEF OidcIInv

LEMMA TokenEndsKeep ==
  ASSUME OidcIInv, NEW c \in TokenCallers, TokenArrives(c) \/ TokenFails(c)
  PROVE  OidcIInv'
<1>1. /\ tokenCall[c] \in CallerType
      /\ fetched \in TokenIds /\ cache \in [token : TokenIds, valid : BOOLEAN]
  BY DEF OidcIInv, OidcTypeOK, CallerType
<1>2. 0 \in TokenIds
  BY OidcAssumption DEF TokenIds
<1>3. CASE TokenArrives(c)
  <2>1. tokenCall[c].awaits = fetched
    BY <1>3 DEF OidcIInv, WaitersAligned, Waits, TokenArrives, EndTokenFetch
  <2>2. cache' \in [token : {fetched}, valid : BOOLEAN]
    BY <1>3, <2>1 DEF TokenArrives
  <2>3. cache' \in [token : TokenIds, valid : BOOLEAN] /\ cache'.token = fetched
    BY <2>2, <1>1
  <2>4. EndTokenFetch(c, "got", fetched) /\ UNCHANGED <<fetched, revoked>>
    BY <1>3, <2>1 DEF TokenArrives
  <2>5. QED
    BY <2>3, <2>4, <1>1, EndTokenFetchKeeps
<1>4. CASE TokenFails(c)
  <2>1. EndTokenFetch(c, "failed", 0) /\ UNCHANGED <<cache, fetched, revoked>>
    BY <1>4 DEF TokenFails
  <2>2. QED
    BY <2>1, <1>1, <1>2, EndTokenFetchKeeps
<1>5. QED
  BY <1>3, <1>4

LEMMA TokenExpiresKeeps == ASSUME OidcIInv, TokenExpires PROVE OidcIInv'
<1>1. cache \in [token : TokenIds, valid : BOOLEAN]
  BY DEF OidcIInv, OidcTypeOK
<1>2. cache' = [cache EXCEPT !.valid = FALSE] /\ UNCHANGED <<inflight, fetched, tokenCall, revoked>>
  BY DEF TokenExpires
<1>3. cache' \in [token : TokenIds, valid : BOOLEAN] /\ cache'.token = cache.token
  BY <1>1, <1>2
<1>4. QED
  BY <1>2, <1>3 DEF OidcIInv, OidcTypeOK, WaitersAligned, Waits, RevokedInOrder, FetchesOver,
                    RevokedTokensBounded

LEMMA InvalidateKeeps == ASSUME OidcIInv, Invalidate PROVE OidcIInv'
<1>1. /\ tokenCall \in [TokenCallers -> CallerType]
      /\ revoked \in TokenIds /\ fetched \in TokenIds /\ inflight \in TokenIds
  BY DEF OidcIInv, OidcTypeOK, CallerType
<1>2. /\ FetchesOver > revoked /\ revoked' = FetchesOver
      /\ cache' = [token |-> 0, valid |-> FALSE]
      /\ UNCHANGED <<inflight, fetched, tokenCall>>
  BY DEF Invalidate
<1>3. FetchesOver \in TokenIds /\ FetchesOver' = FetchesOver
  BY <1>1, <1>2, OidcAssumption DEF TokenIds, FetchesOver
<1>4. 0 \in TokenIds
  BY OidcAssumption DEF TokenIds
<1>5. OidcTypeOK'
  BY <1>2, <1>3, <1>4 DEF OidcIInv, OidcTypeOK
<1>6. RevokedInOrder'
  <2>1. \A c \in TokenCallers : tokenCall[c].asked \in TokenIds /\ tokenCall[c].asked <= revoked
    BY <1>1 DEF OidcIInv, RevokedInOrder, CallerType
  <2>2. QED
    BY <2>1, <1>1, <1>2, <1>3, OidcAssumption DEF RevokedInOrder, TokenIds
<1>7. WaitersAligned' /\ RevokedTokensBounded'
  BY <1>2 DEF OidcIInv, WaitersAligned, Waits, RevokedTokensBounded
<1>8. QED
  BY <1>5, <1>6, <1>7 DEF OidcIInv

LEMMA CredentialsStep == OidcIInv /\ [OidcNext]_oidcVars => OidcIInv'
<1> SUFFICES ASSUME OidcIInv, [OidcNext]_oidcVars PROVE OidcIInv'
  OBVIOUS
<1>1. ASSUME NEW c \in TokenCallers, GetToken(c) PROVE OidcIInv'
  BY <1>1, GetTokenKeeps
<1>2. ASSUME NEW c \in TokenCallers, TokenArrives(c) \/ TokenFails(c) PROVE OidcIInv'
  BY <1>2, TokenEndsKeep
<1>3. ASSUME NEW c \in TokenCallers, CallAgain(c) PROVE OidcIInv'
  BY <1>3, CallAgainKeeps
<1>4. CASE TokenExpires
  BY <1>4, TokenExpiresKeeps
<1>5. CASE Invalidate
  BY <1>5, InvalidateKeeps
<1>6. CASE UNCHANGED oidcVars
  BY <1>6 DEF oidcVars, OidcIInv, OidcTypeOK, WaitersAligned, Waits, RevokedInOrder, FetchesOver,
              RevokedTokensBounded
<1>7. QED
  BY <1>1, <1>2, <1>3, <1>4, <1>5, <1>6 DEF OidcNext

(* Every reachable state of the provider is well typed.                    *)
THEOREM CredentialsTyped == OidcSpec => []OidcTypeOK
<1>1. OidcIInv => OidcTypeOK
  BY DEF OidcIInv
<1>2. QED
  BY CredentialsStart, CredentialsStep, <1>1, PTL DEF OidcSpec

(* However callers, token requests and invalidate() cross, no call returns *)
(* a token that had arrived before the latest invalidate() it followed,    *)
(* and no call waits for a request that is over.                           *)
THEOREM RevokedNeverReturned == OidcSpec => []RevokedTokensBounded
<1>1. OidcIInv => RevokedTokensBounded
  BY DEF OidcIInv
<1>2. QED
  BY CredentialsStart, CredentialsStep, <1>1, PTL DEF OidcSpec

----------------------------------------------------------------------------
FetchRecord ==
  [phase : {"new", "waiting", "fetching", "joined", "settled", "answered", "failed"},
   origin : Origins, kind : CallKinds, cut : BOOLEAN, ok : BOOLEAN, leader : SUBSET Fetches]

FetchingTo(o) == {f \in Fetches : Fetching(f) /\ call[f].origin = o}
SharedTo(o) == {f \in Fetches : Fetching(f) /\ call[f].origin = o /\ call[f].kind = "shared"}

PoolCounts ==
  \A o \in Origins : pools[o] = Cardinality(FetchingTo(o)) /\ pools[o] <= MaxConnections

(* A shared fetch of an undisturbed origin is the one its entry holds; a   *)
(* shareable call that waits has disturbed its origin.                     *)
EntriesHold ==
  /\ \A o \in Origins, f, g \in Fetches : f \in pendingFetch[o] /\ g \in pendingFetch[o] => f = g
  /\ \A o \in Origins : o \notin disturbed => SharedTo(o) \subseteq pendingFetch[o]
  /\ \A f \in Fetches :
       call[f].phase = "waiting" /\ call[f].kind = "shared" => call[f].origin \in disturbed

PoolIInv == TransportTypeOK /\ PoolCounts /\ EntriesHold

LEMMA NewCallType == NewCall \in FetchRecord /\ NewCall.phase = "new"
<1>1. (CHOOSE o \in Origins : TRUE) \in Origins
  BY PoolAssumption
<1>2. QED
  BY <1>1 DEF NewCall, FetchRecord, CallKinds

LEMMA PoolStart == TransportInit => PoolIInv
<1> SUFFICES ASSUME TransportInit PROVE PoolIInv
  OBVIOUS
<1>1. NewCall \in FetchRecord
  BY NewCallType
<1>2. TransportTypeOK
  BY <1>1 DEF TransportInit, TransportTypeOK, FetchRecord
<1>3. \A f \in Fetches : call[f].phase = "new"
  BY DEF TransportInit, NewCall
<1>4. \A o \in Origins : FetchingTo(o) = {} /\ SharedTo(o) = {}
  BY <1>3 DEF FetchingTo, SharedTo, Fetching
<1>5. PoolCounts
  BY <1>4, FS_EmptySet, PoolAssumption DEF PoolCounts, TransportInit
<1>6. EntriesHold
  BY <1>3, <1>4 DEF EntriesHold, TransportInit
<1>7. QED
  BY <1>2, <1>5, <1>6 DEF PoolIInv

LEMMA PoolFacts ==
  ASSUME PoolIInv
  PROVE  /\ call \in [Fetches -> FetchRecord]
         /\ pools \in [Origins -> Nat] /\ pendingFetch \in [Origins -> SUBSET Fetches]
         /\ controllers \subseteq Fetches /\ disturbed \subseteq Origins
         /\ \A o \in Origins : IsFiniteSet(FetchingTo(o)) /\ IsFiniteSet(SharedTo(o))
<1>1. \A o \in Origins : FetchingTo(o) \in SUBSET Fetches /\ SharedTo(o) \in SUBSET Fetches
  BY DEF FetchingTo, SharedTo
<1>2. \A o \in Origins : IsFiniteSet(FetchingTo(o)) /\ IsFiniteSet(SharedTo(o))
  BY <1>1, FS_Subset, PoolAssumption
<1>3. QED
  BY <1>2 DEF PoolIInv, TransportTypeOK, FetchRecord

(* A call that waits, joins or is over counts nowhere: what does not touch *)
(* those that fetch keeps what is counted.                                 *)
LEMMA IdleCallKeeps ==
  ASSUME PoolIInv, NEW f \in Fetches, NEW c \in FetchRecord,
         ~Fetching(f), c.phase # "fetching",
         c.phase = "waiting" /\ c.kind = "shared" => c.origin \in disturbed',
         call' = [call EXCEPT ![f] = c],
         UNCHANGED <<pools, controllers, pendingFetch>>,
         disturbed' \subseteq Origins, disturbed \subseteq disturbed'
  PROVE  PoolIInv'
<1>1. call \in [Fetches -> FetchRecord] /\ call' \in [Fetches -> FetchRecord]
  BY PoolFacts
<1>2. TransportTypeOK'
  BY <1>1 DEF PoolIInv, TransportTypeOK, FetchRecord
<1>3. \A g \in Fetches : call'[g] = IF g = f THEN c ELSE call[g]
  BY <1>1
<1>4. \A o \in Origins : FetchingTo(o)' = FetchingTo(o) /\ SharedTo(o)' = SharedTo(o)
  BY <1>3 DEF FetchingTo, SharedTo, Fetching
<1>5. PoolCounts'
  BY <1>4 DEF PoolIInv, PoolCounts
<1>6. EntriesHold'
  BY <1>3, <1>4 DEF PoolIInv, EntriesHold
<1>7. QED
  BY <1>2, <1>5, <1>6 DEF PoolIInv

(* A free slot: one more fetch, and for a shared one the entry is its own. *)
LEMMA AcquireKeeps ==
  ASSUME PoolIInv, NEW f \in Fetches, NEW c \in FetchRecord, ~Fetching(f),
         c.kind = "shared" /\ c.origin \notin disturbed => pendingFetch[c.origin] = {},
         Acquire(f, c)
  PROVE  PoolIInv'
<1>1. CASE ~(pools[c.origin] < MaxConnections)
  <2> DEFINE w == [c EXCEPT !.phase = "waiting"]
  <2>1. w \in FetchRecord /\ w.phase = "waiting" /\ w.kind = c.kind /\ w.origin = c.origin
    BY DEF FetchRecord
  <2>2. /\ call' = [call EXCEPT ![f] = w] /\ UNCHANGED <<pools, controllers, pendingFetch>>
        /\ disturbed' = disturbed \cup {o \in {c.origin} : c.kind = "shared"}
    BY <1>1 DEF Acquire
  <2>3. disturbed' \subseteq Origins /\ disturbed \subseteq disturbed'
    BY <2>2, PoolFacts DEF FetchRecord
  <2>4. w.kind = "shared" => w.origin \in disturbed'
    BY <2>1, <2>2
  <2> HIDE DEF w
  <2>5. QED
    BY <2>1, <2>2, <2>3, <2>4, IdleCallKeeps
<1>2. CASE pools[c.origin] < MaxConnections
  <2> DEFINE n == [c EXCEPT !.phase = "fetching"]
             at == c.origin
  <2>1. /\ n \in FetchRecord /\ n.phase = "fetching" /\ n.kind = c.kind /\ n.origin = at
        /\ at \in Origins
    BY DEF FetchRecord
  <2>2. /\ call' = [call EXCEPT ![f] = n] /\ pools' = [pools EXCEPT ![at] = @ + 1]
        /\ controllers' = controllers \cup {f} /\ UNCHANGED disturbed
        /\ pendingFetch' = IF c.kind = "shared" THEN [pendingFetch EXCEPT ![at] = {f}]
                           ELSE pendingFetch
    BY <1>2 DEF Acquire
  <2> HIDE DEF n
  <2>3. call \in [Fetches -> FetchRecord] /\ call' \in [Fetches -> FetchRecord]
    BY <2>1, <2>2, PoolFacts
  <2>4. \A g \in Fetches : call'[g] = IF g = f THEN n ELSE call[g]
    BY <2>2, <2>3
  <2>5. pools \in [Origins -> Nat] /\ pools' \in [Origins -> Nat]
    BY <2>1, <2>2, PoolFacts
  <2>6. pendingFetch' \in [Origins -> SUBSET Fetches]
    BY <2>1, <2>2, PoolFacts
  <2>7. TransportTypeOK'
    BY <2>2, <2>3, <2>5, <2>6, PoolFacts DEF TransportTypeOK, FetchRecord
  <2>8. \A o \in Origins : FetchingTo(o)' = IF o = at THEN FetchingTo(o) \cup {f} ELSE FetchingTo(o)
    BY <2>1, <2>4 DEF FetchingTo, Fetching
  <2>9. f \notin FetchingTo(at)
    BY DEF FetchingTo
  <2>10. PoolCounts'
    <3>1. Cardinality(FetchingTo(at) \cup {f}) = Cardinality(FetchingTo(at)) + 1
      BY <2>1, <2>9, PoolFacts, FS_AddElement
    <3>2. pools'[at] = pools[at] + 1 /\ pools'[at] <= MaxConnections
      BY <1>2, <2>1, <2>2, <2>5, PoolAssumption
    <3>3. \A o \in Origins : o # at => pools'[o] = pools[o]
      BY <2>2, <2>5
    <3>4. QED
      BY <2>1, <2>8, <3>1, <3>2, <3>3 DEF PoolIInv, PoolCounts
  <2>11. \A o \in Origins : SharedTo(o)' =
           IF o = at /\ c.kind = "shared" THEN SharedTo(o) \cup {f} ELSE SharedTo(o)
    BY <2>1, <2>4 DEF SharedTo, Fetching
  <2>12. \A o \in Origins : pendingFetch'[o] =
           IF o = at /\ c.kind = "shared" THEN {f} ELSE pendingFetch[o]
    BY <2>1, <2>2, PoolFacts
  <2>13. EntriesHold'
    <3>1. \A o \in Origins, g, h \in Fetches :
             g \in pendingFetch'[o] /\ h \in pendingFetch'[o] => g = h
      BY <2>12 DEF PoolIInv, EntriesHold
    <3>2. \A o \in Origins : o \notin disturbed' => SharedTo(o)' \subseteq pendingFetch'[o]
      BY <2>2, <2>11, <2>12 DEF PoolIInv, EntriesHold
    <3>3. \A g \in Fetches :
             call'[g].phase = "waiting" /\ call'[g].kind = "shared" => call'[g].origin \in disturbed'
      BY <2>1, <2>2, <2>4 DEF PoolIInv, EntriesHold
    <3>4. QED
      BY <3>1, <3>2, <3>3 DEF EntriesHold
  <2>14. QED
    BY <2>7, <2>10, <2>13 DEF PoolIInv
<1>3. QED
  BY <1>1, <1>2

LEMMA LeaveConnectionKeeps ==
  ASSUME PoolIInv, NEW f \in Fetches, NEW ok \in BOOLEAN, LeaveConnection(f, ok)
  PROVE  PoolIInv'
<1> DEFINE at == call[f].origin
           n == [call[f] EXCEPT !.phase = "settled", !.ok = ok]
<1>1. call[f] \in FetchRecord /\ at \in Origins /\ call[f].phase = "fetching"
  BY PoolFacts DEF FetchRecord, LeaveConnection, Fetching
<1>2. n \in FetchRecord /\ n.phase = "settled" /\ n.origin = at /\ n.kind = call[f].kind
  BY <1>1 DEF FetchRecord
<1>3. /\ call' = [call EXCEPT ![f] = n] /\ pools' = [pools EXCEPT ![at] = @ - 1]
      /\ controllers' = controllers \ {f} /\ UNCHANGED <<pendingFetch, disturbed>>
  BY DEF LeaveConnection
<1> HIDE DEF n
<1>4. call \in [Fetches -> FetchRecord] /\ call' \in [Fetches -> FetchRecord]
  BY <1>2, <1>3, PoolFacts
<1>5. \A g \in Fetches : call'[g] = IF g = f THEN n ELSE call[g]
  BY <1>3, <1>4
<1>6. f \in FetchingTo(at)
  BY <1>1 DEF FetchingTo, Fetching
<1>7. \A o \in Origins : /\ FetchingTo(o)' = IF o = at THEN FetchingTo(o) \ {f} ELSE FetchingTo(o)
                        /\ SharedTo(o)' \subseteq SharedTo(o)
  BY <1>1, <1>2, <1>5 DEF FetchingTo, SharedTo, Fetching
<1>8. Cardinality(FetchingTo(at) \ {f}) = Cardinality(FetchingTo(at)) - 1
  BY <1>1, <1>6, PoolFacts, FS_RemoveElement
<1>9. Cardinality(FetchingTo(at)) # 0 /\ Cardinality(FetchingTo(at)) \in Nat
  BY <1>1, <1>6, PoolFacts, FS_EmptySet, FS_CardinalityType
<1>10. /\ pools'[at] = pools[at] - 1 /\ pools[at] \in Nat /\ pools[at] # 0
       /\ pools[at] <= MaxConnections /\ \A o \in Origins : o # at => pools'[o] = pools[o]
  BY <1>1, <1>3, <1>9, PoolFacts DEF PoolIInv, PoolCounts
<1>11. pools' \in [Origins -> Nat]
  BY <1>1, <1>3, <1>10, PoolFacts
<1>12. TransportTypeOK'
  BY <1>3, <1>4, <1>11, PoolFacts DEF TransportTypeOK, FetchRecord
<1>13. PoolCounts'
  <2>1. ASSUME NEW o \in Origins, o = at
        PROVE  pools'[o] = Cardinality(FetchingTo(o)') /\ pools'[o] <= MaxConnections
    <3>1. FetchingTo(o)' = FetchingTo(o) \ {f} /\ pools[o] = Cardinality(FetchingTo(o))
      BY <2>1, <1>7 DEF PoolIInv, PoolCounts
    <3>2. QED
      BY <2>1, <3>1, <1>8, <1>10, PoolAssumption
  <2>2. ASSUME NEW o \in Origins, o # at
        PROVE  pools'[o] = Cardinality(FetchingTo(o)') /\ pools'[o] <= MaxConnections
    BY <2>2, <1>7, <1>10 DEF PoolIInv, PoolCounts
  <2>3. QED
    BY <2>1, <2>2 DEF PoolCounts
<1>14. EntriesHold'
  BY <1>2, <1>3, <1>5, <1>7 DEF PoolIInv, EntriesHold
<1>15. QED
  BY <1>12, <1>13, <1>14 DEF PoolIInv

LEMMA DeliverFetchKeeps ==
  ASSUME PoolIInv, NEW f \in Fetches, DeliverFetch(f)
  PROVE  PoolIInv'
<1> DEFINE at == call[f].origin
           n == [call[f] EXCEPT !.phase = IF call[f].ok THEN "answered" ELSE "failed"]
<1>1. call[f] \in FetchRecord /\ at \in Origins /\ call[f].phase = "settled"
  BY PoolFacts DEF FetchRecord, DeliverFetch
<1>2. n \in FetchRecord /\ n.phase \notin {"fetching", "waiting"}
  BY <1>1 DEF FetchRecord
<1>3. /\ call' = [call EXCEPT ![f] = n] /\ UNCHANGED <<pools, controllers>>
      /\ pendingFetch' = IF call[f].kind = "shared" THEN [pendingFetch EXCEPT ![at] = {}]
                         ELSE pendingFetch
      /\ disturbed' = IF call[f].kind = "shared" /\ ~(pendingFetch[at] \subseteq {f})
                      THEN disturbed \cup {at} ELSE disturbed
  BY DEF DeliverFetch
<1> HIDE DEF n
<1>4. call \in [Fetches -> FetchRecord] /\ call' \in [Fetches -> FetchRecord]
  BY <1>2, <1>3, PoolFacts
<1>5. \A g \in Fetches : call'[g] = IF g = f THEN n ELSE call[g]
  BY <1>3, <1>4
<1>6. \A o \in Origins : FetchingTo(o)' = FetchingTo(o) /\ SharedTo(o)' = SharedTo(o)
  BY <1>1, <1>2, <1>5 DEF FetchingTo, SharedTo, Fetching
<1>7. /\ pendingFetch' \in [Origins -> SUBSET Fetches]
      /\ \A o \in Origins : pendingFetch'[o] =
           IF o = at /\ call[f].kind = "shared" THEN {} ELSE pendingFetch[o]
  BY <1>1, <1>3, PoolFacts
<1>8. TransportTypeOK'
  BY <1>1, <1>3, <1>4, <1>7, PoolFacts DEF TransportTypeOK, FetchRecord
<1>9. PoolCounts'
  BY <1>3, <1>6 DEF PoolIInv, PoolCounts
<1>10. f \notin SharedTo(at)
  BY <1>1 DEF SharedTo, Fetching
<1>11. EntriesHold'
  <2>1. \A o \in Origins, g, h \in Fetches :
           g \in pendingFetch'[o] /\ h \in pendingFetch'[o] => g = h
    BY <1>7 DEF PoolIInv, EntriesHold
  <2>2. ASSUME NEW o \in Origins, o \notin disturbed'
        PROVE  SharedTo(o)' \subseteq pendingFetch'[o]
    <3>1. o \notin disturbed /\ SharedTo(o) \subseteq pendingFetch[o]
      BY <2>2, <1>3 DEF PoolIInv, EntriesHold
    <3>2. CASE o = at /\ call[f].kind = "shared"
      <4>1. pendingFetch[at] \subseteq {f}
        BY <2>2, <3>2, <1>3
      <4>2. QED
        BY <3>1, <3>2, <4>1, <1>6, <1>7, <1>10
    <3>3. CASE ~(o = at /\ call[f].kind = "shared")
      BY <3>1, <3>3, <1>6, <1>7
    <3>4. QED
      BY <3>2, <3>3
  <2>3. \A g \in Fetches :
           call'[g].phase = "waiting" /\ call'[g].kind = "shared" => call'[g].origin \in disturbed'
    BY <1>2, <1>3, <1>5 DEF PoolIInv, EntriesHold
  <2>4. QED
    BY <2>1, <2>2, <2>3 DEF EntriesHold
<1>12. QED
  BY <1>8, <1>9, <1>11 DEF PoolIInv

(* abort() marks calls and forgets entries; it ends no fetch by itself.    *)
LEMMA AbortTransportKeeps ==
  ASSUME PoolIInv, AbortTransport
  PROVE  PoolIInv'
<1>1. /\ call' = [f \in Fetches |-> IF f \in controllers THEN [call[f] EXCEPT !.cut = TRUE]
                                     ELSE call[f]]
      /\ controllers' = {} /\ pendingFetch' = [o \in Origins |-> {}] /\ UNCHANGED pools
      /\ disturbed' = disturbed \cup {o \in Origins : pendingFetch[o] # {}}
  BY DEF AbortTransport
<1>2. ASSUME NEW f \in Fetches
      PROVE  /\ call'[f] \in FetchRecord /\ call'[f].phase = call[f].phase
             /\ call'[f].origin = call[f].origin /\ call'[f].kind = call[f].kind
  <2>1. call[f] \in FetchRecord
    BY PoolFacts
  <2>2. call'[f] = call[f] \/ call'[f] = [call[f] EXCEPT !.cut = TRUE]
    BY <1>1
  <2>3. QED
    BY <2>1, <2>2 DEF FetchRecord
<1>3. call' \in [Fetches -> FetchRecord]
  BY <1>1, <1>2
<1>4. \A o \in Origins : FetchingTo(o)' = FetchingTo(o) /\ SharedTo(o)' = SharedTo(o)
  BY <1>2 DEF FetchingTo, SharedTo, Fetching
<1>5. pendingFetch' \in [Origins -> SUBSET Fetches] /\ disturbed' \subseteq Origins
  BY <1>1, PoolFacts
<1>6. TransportTypeOK'
  BY <1>1, <1>3, <1>5, PoolFacts DEF TransportTypeOK, FetchRecord
<1>7. PoolCounts'
  BY <1>1, <1>4 DEF PoolIInv, PoolCounts
<1>8. EntriesHold'
  BY <1>1, <1>2, <1>4 DEF PoolIInv, EntriesHold
<1>9. QED
  BY <1>6, <1>7, <1>8 DEF PoolIInv

LEMMA RequestCallKeeps ==
  ASSUME PoolIInv, NEW f \in Fetches, NEW o \in Origins, NEW kind \in CallKinds,
         RequestCall(f, o, kind)
  PROVE  PoolIInv'
<1> DEFINE c == [NewCall EXCEPT !.origin = o, !.kind = kind]
           j == [c EXCEPT !.phase = "joined", !.leader = pendingFetch[o]]
<1>1. c \in FetchRecord /\ c.phase = "new" /\ c.origin = o /\ c.kind = kind
  BY NewCallType DEF FetchRecord
<1>2. pendingFetch[o] \in SUBSET Fetches
  BY PoolFacts
<1>3. j \in FetchRecord /\ j.phase = "joined"
  BY <1>1, <1>2 DEF FetchRecord
<1>4. ~Fetching(f)
  BY DEF RequestCall, Fetching
<1>5. CASE kind = "shared" /\ pendingFetch[o] # {}
  <2>1. call' = [call EXCEPT ![f] = j] /\ UNCHANGED <<pools, controllers, pendingFetch, disturbed>>
    BY <1>5 DEF RequestCall
  <2> HIDE DEF c, j
  <2>2. disturbed' \subseteq Origins /\ disturbed \subseteq disturbed'
    BY <2>1, PoolFacts
  <2>3. j.phase # "waiting" /\ j.phase # "fetching"
    BY <1>3
  <2>4. QED
    BY <1>3, <1>4, <2>1, <2>2, <2>3, IdleCallKeeps
<1>6. CASE ~(kind = "shared" /\ pendingFetch[o] # {})
  <2>1. Acquire(f, c)
    BY <1>6 DEF RequestCall
  <2>2. c.kind = "shared" /\ c.origin \notin disturbed => pendingFetch[c.origin] = {}
    BY <1>1, <1>6
  <2> HIDE DEF c
  <2>3. QED
    BY <1>1, <1>4, <2>1, <2>2, AcquireKeeps
<1>7. QED
  BY <1>5, <1>6

LEMMA PollSlotKeeps ==
  ASSUME PoolIInv, NEW f \in Fetches, PollSlot(f)
  PROVE  PoolIInv'
<1>1. call[f] \in FetchRecord /\ call[f].phase = "waiting" /\ ~Fetching(f) /\ Acquire(f, call[f])
  BY PoolFacts DEF PollSlot, Fetching
<1>2. call[f].kind = "shared" => call[f].origin \in disturbed
  BY <1>1 DEF PoolIInv, EntriesHold
<1>3. QED
  BY <1>1, <1>2, AcquireKeeps

(* The signal of a waiter ends it; that of a fetch only marks it.          *)
LEMMA SignalAbortsKeeps ==
  ASSUME PoolIInv, NEW f \in Fetches, SignalAborts(f)
  PROVE  PoolIInv'
<1> DEFINE n == [call[f] EXCEPT !.cut = TRUE,
                                !.phase = IF call[f].phase = "waiting" THEN "failed" ELSE call[f].phase]
<1>1. call[f] \in FetchRecord /\ call[f].phase \in {"waiting", "fetching"}
  BY PoolFacts DEF SignalAborts
<1>2. /\ n \in FetchRecord /\ n.origin = call[f].origin /\ n.kind = call[f].kind
      /\ n.phase = IF call[f].phase = "waiting" THEN "failed" ELSE "fetching"
  BY <1>1 DEF FetchRecord
<1>3. /\ call' = [call EXCEPT ![f] = n]
      /\ UNCHANGED <<pools, controllers, pendingFetch, disturbed>>
  BY PoolFacts, <1>1 DEF SignalAborts, FetchRecord
<1> HIDE DEF n
<1>4. call \in [Fetches -> FetchRecord] /\ call' \in [Fetches -> FetchRecord]
  BY <1>2, <1>3, PoolFacts
<1>5. \A g \in Fetches : call'[g] = IF g = f THEN n ELSE call[g]
  BY <1>3, <1>4
<1>6. \A o \in Origins : FetchingTo(o)' = FetchingTo(o) /\ SharedTo(o)' = SharedTo(o)
  BY <1>1, <1>2, <1>5 DEF FetchingTo, SharedTo, Fetching
<1>7. TransportTypeOK'
  BY <1>3, <1>4, PoolFacts DEF TransportTypeOK, FetchRecord
<1>8. PoolCounts'
  BY <1>3, <1>6 DEF PoolIInv, PoolCounts
<1>9. EntriesHold'
  BY <1>2, <1>3, <1>5, <1>6 DEF PoolIInv, EntriesHold
<1>10. QED
  BY <1>7, <1>8, <1>9 DEF PoolIInv

LEMMA DeliverJoinedKeeps ==
  ASSUME PoolIInv, NEW f \in Fetches, DeliverJoined(f)
  PROVE  PoolIInv'
<1>1. PICK l \in call[f].leader :
        call' = [call EXCEPT ![f].ok = call[l].ok,
                             ![f].phase = IF call[l].ok THEN "answered" ELSE "failed"]
  BY DEF DeliverJoined
<1>2. call[f] \in FetchRecord /\ call[f].phase = "joined"
  BY PoolFacts DEF DeliverJoined
<1>3. call[l] \in FetchRecord
  BY <1>1, <1>2, PoolFacts DEF FetchRecord
<1> DEFINE n == [call[f] EXCEPT !.ok = call[l].ok,
                                !.phase = IF call[l].ok THEN "answered" ELSE "failed"]
<1>4. n \in FetchRecord /\ n.phase \notin {"fetching", "waiting"}
  BY <1>2, <1>3 DEF FetchRecord
<1>5. call' = [call EXCEPT ![f] = n]
  BY <1>1, <1>2, PoolFacts DEF FetchRecord
<1>6. UNCHANGED <<pools, controllers, pendingFetch, disturbed>> /\ ~Fetching(f)
  BY <1>2 DEF DeliverJoined, Fetching
<1> HIDE DEF n
<1>7. disturbed' \subseteq Origins /\ disturbed \subseteq disturbed'
  BY <1>6, PoolFacts
<1>8. n.phase # "waiting" /\ n.phase # "fetching"
  BY <1>4
<1>9. QED
  BY <1>4, <1>5, <1>6, <1>7, <1>8, IdleCallKeeps

LEMMA PoolStep == PoolIInv /\ [TransportNext]_transportVars => PoolIInv'
<1> SUFFICES ASSUME PoolIInv, [TransportNext]_transportVars PROVE PoolIInv'
  OBVIOUS
<1>1. ASSUME NEW f \in Fetches, NEW o \in Origins, NEW kind \in CallKinds, RequestCall(f, o, kind)
      PROVE  PoolIInv'
  BY <1>1, RequestCallKeeps
<1>2. ASSUME NEW f \in Fetches, PollSlot(f) PROVE PoolIInv'
  BY <1>2, PollSlotKeeps
<1>3. ASSUME NEW f \in Fetches, SignalAborts(f) PROVE PoolIInv'
  BY <1>3, SignalAbortsKeeps
<1>4. ASSUME NEW f \in Fetches, FetchSettles(f) \/ FetchAborts(f) PROVE PoolIInv'
  BY <1>4, LeaveConnectionKeeps DEF FetchSettles, FetchAborts
<1>5. ASSUME NEW f \in Fetches, DeliverFetch(f) PROVE PoolIInv'
  BY <1>5, DeliverFetchKeeps
<1>6. ASSUME NEW f \in Fetches, DeliverJoined(f) PROVE PoolIInv'
  BY <1>6, DeliverJoinedKeeps
<1>7. CASE AbortTransport
  BY <1>7, AbortTransportKeeps
<1>8. CASE UNCHANGED transportVars
  BY <1>8 DEF transportVars, PoolIInv, TransportTypeOK, PoolCounts, EntriesHold, FetchingTo, SharedTo,
              Fetching
<1>9. QED
  BY <1>1, <1>2, <1>3, <1>4, <1>5, <1>6, <1>7, <1>8 DEF TransportNext

LEMMA PoolImplies == PoolIInv => PoolAccounted
<1> SUFFICES ASSUME PoolIInv, NEW o \in Origins
    PROVE  /\ pools[o] = Cardinality(FetchingTo(o)) /\ pools[o] <= MaxConnections
           /\ o \notin disturbed => Cardinality(SharedTo(o)) <= 1
  BY DEF PoolAccounted, FetchingTo, SharedTo
<1>1. pools[o] = Cardinality(FetchingTo(o)) /\ pools[o] <= MaxConnections
  BY DEF PoolIInv, PoolCounts
<1>2. ASSUME o \notin disturbed PROVE Cardinality(SharedTo(o)) <= 1
  <2>1. \A g, h \in SharedTo(o) : g = h
    <3>1. SharedTo(o) \subseteq pendingFetch[o] /\ SharedTo(o) \subseteq Fetches
      BY <1>2 DEF PoolIInv, EntriesHold, SharedTo
    <3>2. QED
      BY <3>1 DEF PoolIInv, EntriesHold
  <2>2. CASE SharedTo(o) = {}
    BY <2>2, FS_EmptySet
  <2>3. CASE SharedTo(o) # {}
    <3>1. PICK g : SharedTo(o) = {g}
      BY <2>1, <2>3
    <3>2. QED
      BY <3>1, FS_Singleton
  <2>4. QED
    BY <2>2, <2>3
<1>3. QED
  BY <1>1, <1>2

(* A pool counts its fetches and holds its limit, and identical requests   *)
(* share one fetch, for any number of calls, origins and connections.      *)
THEOREM PoolsSound == TransportSpec => []PoolAccounted
BY PoolStart, PoolStep, PoolImplies, PTL DEF TransportSpec

----------------------------------------------------------------------------
RequestRecord ==
  [phase : {"new", "waiting", "refused", "resolved", "rejected"}, on : 0..MaxSockets,
   unbuilt : BOOLEAN]
ConnectRecord ==
  [phase : {"none", "waiting", "resolved", "rejected"}, polling : BOOLEAN, saw : BOOLEAN,
   ready : BOOLEAN]

(* What a request not yet made cannot be.                                  *)
NewUntouched == \A r \in Requests : request[r].phase = "new" => ~request[r].unbuilt

(* A transport is never connected; and until two connect() overlap, no     *)
(* socket but the current one can open or is open any more.                *)
OthersQuiet ==
  /\ holder = "transport" => ~connected
  /\ holder = "session" /\ ~doubled =>
       \A t \in Sockets : t # current =>
         socket[t] \in IF current = 0 THEN {"none", "closed", "closing", "failing"}
                       ELSE {"none", "closed"}

SocketsIInv ==
  ConnectionsTypeOK /\ RepliesMatched /\ SessionTruthful /\ NewUntouched /\ OthersQuiet

LEMMA SocketFacts ==
  ASSUME SocketsIInv
  PROVE  /\ request \in [Requests -> RequestRecord] /\ connect \in [Sockets -> ConnectRecord]
         /\ socket \in [Sockets -> {"none", "connecting", "open", "closing", "failing", "closed"}]
         /\ holder \in {"transport", "session"} /\ current \in 0..MaxSockets
         /\ pending \subseteq Requests /\ connected \in BOOLEAN /\ doubled \in BOOLEAN
         /\ 0 \notin Sockets /\ Sockets \subseteq 0..MaxSockets
BY SocketsAssumption DEF SocketsIInv, ConnectionsTypeOK, RequestRecord, ConnectRecord, Sockets

LEMMA SocketsStart == ConnectionsInit => SocketsIInv
<1> SUFFICES ASSUME ConnectionsInit PROVE SocketsIInv
  OBVIOUS
<1>1. ConnectionsTypeOK
  <2>1. 0 \in 0..MaxSockets
    BY SocketsAssumption
  <2>2. /\ [phase |-> "new", on |-> 0, unbuilt |-> FALSE] \in RequestRecord
        /\ [phase |-> "none", polling |-> FALSE, saw |-> FALSE, ready |-> FALSE] \in ConnectRecord
    BY <2>1 DEF RequestRecord, ConnectRecord
  <2>3. request \in [Requests -> RequestRecord] /\ connect \in [Sockets -> ConnectRecord]
    BY <2>2 DEF ConnectionsInit
  <2>4. QED
    BY <2>1, <2>3 DEF ConnectionsInit, ConnectionsTypeOK, RequestRecord, ConnectRecord
<1>2. RepliesMatched /\ NewUntouched
  BY DEF ConnectionsInit, RepliesMatched, NewUntouched
<1>3. SessionTruthful /\ OthersQuiet
  BY SocketsAssumption DEF ConnectionsInit, SessionTruthful, OthersQuiet, Alive, Sockets
<1>4. QED
  BY <1>1, <1>2, <1>3 DEF SocketsIInv

(* Rejecting whatever is pending leaves no promise without an end.         *)
LEMMA AllRejectedKeeps ==
  ASSUME SocketsIInv, request' = AllRejected, pending' = {}
  PROVE  request' \in [Requests -> RequestRecord] /\ RepliesMatched' /\ NewUntouched'
<1>1. \A r \in Requests :
        /\ request'[r] = IF r \in pending /\ request[r].phase = "waiting"
                         THEN [request[r] EXCEPT !.phase = "rejected"] ELSE request[r]
        /\ request[r] \in RequestRecord
  BY SocketFacts DEF AllRejected
<1>2. \A r \in Requests :
        /\ request'[r] \in RequestRecord /\ request'[r].unbuilt = request[r].unbuilt
        /\ request'[r].phase = "waiting" => request[r].phase = "waiting" /\ r \notin pending
        /\ request'[r].phase = "new" => request[r].phase = "new"
  BY <1>1 DEF RequestRecord
<1>3. request' \in [Requests -> RequestRecord]
  BY <1>2 DEF AllRejected
<1>4. RepliesMatched'
  BY <1>2 DEF SocketsIInv, RepliesMatched
<1>5. NewUntouched'
  BY <1>2 DEF SocketsIInv, NewUntouched
<1>6. QED
  BY <1>3, <1>4, <1>5

LEMMA OpensKeeps == ASSUME SocketsIInv, NEW s \in Sockets, Opens(s) PROVE SocketsIInv'
<1>1. socket' = [socket EXCEPT ![s] = "open"] /\ socket[s] = "connecting"
  BY DEF Opens
<1>2. \A t \in Sockets : socket'[t] = IF t = s THEN "open" ELSE socket[t]
  BY <1>1, SocketFacts
<1>3. UNCHANGED <<holder, current, pending, request, doubled>>
  BY DEF Opens, transportFields, sessionFields
<1>4. RepliesMatched' /\ NewUntouched'
  BY <1>3 DEF SocketsIInv, RepliesMatched, NewUntouched
<1>5. OpenNow' = OpenNow \cup {s} /\ Alive' = Alive \cup {s}
  BY <1>1, <1>2 DEF OpenNow, Alive
<1>6. ~doubled /\ holder = "session" => s = current
  BY <1>1, SocketFacts DEF SocketsIInv, OthersQuiet
<1>7. OthersQuiet'
  BY <1>2, <1>3, <1>6, SocketFacts DEF SocketsIInv, OthersQuiet, Opens, sessionFields
<1>8. CASE holder = "session"
  <2>1. /\ connected' = TRUE
        /\ connect' = IF current \in OpenNow \cup {s}
                      THEN [connect EXCEPT ![current].ready = TRUE] ELSE connect
    BY <1>8 DEF Opens
  <2>2. /\ connect' \in [Sockets -> ConnectRecord]
        /\ \A t \in Sockets : /\ connect'[t].phase = connect[t].phase /\ connect'[t].saw = connect[t].saw
                              /\ connect[t].ready => connect'[t].ready
                              /\ t = current /\ t \in OpenNow \cup {s} => connect'[t].ready
    <3>1. CASE current \in OpenNow \cup {s}
      <4>1. current \in Sockets
        BY <3>1 DEF OpenNow
      <4>2. connect[current] \in ConnectRecord
        BY <4>1, SocketFacts
      <4>3. [connect[current] EXCEPT !.ready = TRUE] \in ConnectRecord
        BY <4>2 DEF ConnectRecord
      <4>4. connect' = [connect EXCEPT ![current] = [connect[current] EXCEPT !.ready = TRUE]]
        BY <2>1, <3>1
      <4>5. QED
        BY <4>1, <4>2, <4>3, <4>4, SocketFacts DEF ConnectRecord
    <3>2. CASE current \notin OpenNow \cup {s}
      BY <2>1, <3>2, SocketFacts
    <3>3. QED
      BY <3>1, <3>2
  <2>3. ConnectionsTypeOK'
    BY <1>1, <1>3, <2>1, <2>2, SocketFacts DEF ConnectionsTypeOK, RequestRecord, ConnectRecord
  <2>4. current \in Alive' => connect'[current].ready
    BY <1>2, <1>5, <1>8, <2>2 DEF SocketsIInv, SessionTruthful, Alive, OpenNow
  <2>5. SessionTruthful'
    BY <1>3, <1>5, <1>6, <1>8, <2>2, <2>4 DEF SocketsIInv, SessionTruthful
  <2>6. QED
    BY <1>4, <1>7, <2>3, <2>5 DEF SocketsIInv
<1>9. CASE holder = "transport"
  <2>1. UNCHANGED <<connected, connect>>
    BY <1>9 DEF Opens, sessionFields
  <2>2. ConnectionsTypeOK'
    BY <1>1, <1>3, <2>1, SocketFacts DEF ConnectionsTypeOK, RequestRecord, ConnectRecord
  <2>3. SessionTruthful'
    BY <1>3, <1>9, <2>1, SocketFacts DEF SocketsIInv, SessionTruthful, OthersQuiet
  <2>4. QED
    BY <1>4, <1>7, <2>2, <2>3 DEF SocketsIInv
<1>10. QED
  BY <1>8, <1>9, SocketFacts

(* What ends a socket: nothing is connected after it, and no socket comes  *)
(* to life by it.                                                          *)
LEMMA SocketOverKeeps ==
  ASSUME SocketsIInv, NEW s \in Sockets, OnClose(s), UNCHANGED <<holder, current, connect, doubled>>,
         request' \in [Requests -> RequestRecord], RepliesMatched', NewUntouched',
         pending' \subseteq Requests
  PROVE  SocketsIInv'
<1>1. socket' = [socket EXCEPT ![s] = "closed"] /\ connected' = FALSE
  BY DEF OnClose
<1>2. \A t \in Sockets : socket'[t] = IF t = s THEN "closed" ELSE socket[t]
  BY <1>1, SocketFacts
<1>3. Alive' \subseteq Alive
  BY <1>2 DEF Alive
<1>4. ConnectionsTypeOK'
  BY <1>1, SocketFacts DEF ConnectionsTypeOK, RequestRecord, ConnectRecord
<1>5. SessionTruthful'
  BY <1>1, <1>3 DEF SocketsIInv, SessionTruthful
<1>6. OthersQuiet'
  BY <1>1, <1>2 DEF SocketsIInv, OthersQuiet
<1>7. QED
  BY <1>4, <1>5, <1>6 DEF SocketsIInv

LEMMA SocketFailsKeeps == ASSUME SocketsIInv, NEW s \in Sockets, SocketFails(s) PROVE SocketsIInv'
<1>1. OnClose(s) /\ UNCHANGED <<holder, current, connect, doubled>>
  BY DEF SocketFails, OnError
<1>2. CASE holder = "transport"
  <2>1. request' = AllRejected /\ pending' = {}
    BY <1>2 DEF SocketFails, OnError
  <2>2. request' \in [Requests -> RequestRecord] /\ RepliesMatched' /\ NewUntouched'
    BY <2>1, AllRejectedKeeps
  <2>3. QED
    BY <1>1, <2>1, <2>2, SocketOverKeeps
<1>3. CASE holder # "transport"
  <2>1. UNCHANGED <<pending, request>>
    BY <1>3 DEF SocketFails, OnError, transportFields
  <2>2. /\ request' \in [Requests -> RequestRecord] /\ RepliesMatched' /\ NewUntouched'
        /\ pending' \subseteq Requests
    BY <2>1, SocketFacts DEF SocketsIInv, RepliesMatched, NewUntouched
  <2>3. QED
    BY <1>1, <2>2, SocketOverKeeps
<1>4. QED
  BY <1>2, <1>3

LEMMA SocketClosesKeeps == ASSUME SocketsIInv, NEW s \in Sockets, SocketCloses(s) PROVE SocketsIInv'
<1>1. OnClose(s) /\ UNCHANGED <<holder, current, connect, doubled, pending, request>>
  BY DEF SocketCloses, transportFields
<1>2. /\ request' \in [Requests -> RequestRecord] /\ RepliesMatched' /\ NewUntouched'
      /\ pending' \subseteq Requests
  BY <1>1, SocketFacts DEF SocketsIInv, RepliesMatched, NewUntouched
<1>3. QED
  BY <1>1, <1>2, SocketOverKeeps

LEMMA PeerClosesKeeps == ASSUME SocketsIInv, NEW s \in Sockets, PeerCloses(s) PROVE SocketsIInv'
<1>1. /\ socket' = [socket EXCEPT ![s] = "closing"] /\ socket[s] = "open"
      /\ UNCHANGED <<holder, current, pending, request, connected, connect, doubled>>
  BY DEF PeerCloses, transportFields, sessionFields
<1>2. \A t \in Sockets : socket'[t] = IF t = s THEN "closing" ELSE socket[t]
  BY <1>1, SocketFacts
<1>3. Alive' = Alive
  BY <1>1, <1>2 DEF Alive
<1>4. ConnectionsTypeOK'
  BY <1>1, SocketFacts DEF ConnectionsTypeOK, RequestRecord, ConnectRecord
<1>5. RepliesMatched' /\ NewUntouched' /\ SessionTruthful'
  BY <1>1, <1>3 DEF SocketsIInv, RepliesMatched, NewUntouched, SessionTruthful
<1>6. OthersQuiet'
  BY <1>1, <1>2 DEF SocketsIInv, OthersQuiet
<1>7. QED
  BY <1>4, <1>5, <1>6 DEF SocketsIInv

(* close(): the sockets that are left cannot open.                         *)
LEMMA ClosedBySelfFacts ==
  ASSUME SocketsIInv, current # 0, socket' = ClosedBySelf
  PROVE  /\ socket' \in [Sockets -> {"none", "connecting", "open", "closing", "failing", "closed"}]
         /\ \A t \in Sockets : t # current => socket'[t] = socket[t]
         /\ socket'[current] \in {"none", "closing", "failing", "closed"}
         /\ Alive' \subseteq Alive
<1>1. current \in Sockets /\ socket[current] \in
        {"none", "connecting", "open", "closing", "failing", "closed"}
  BY SocketFacts, SocketsAssumption DEF Sockets
<1>2. socket' = [socket EXCEPT ![current] =
        IF socket[current] = "connecting" THEN "failing"
        ELSE IF socket[current] = "open" THEN "closing" ELSE socket[current]]
  BY DEF ClosedBySelf
<1>3. /\ socket'[current] = IF socket[current] = "connecting" THEN "failing"
                            ELSE IF socket[current] = "open" THEN "closing" ELSE socket[current]
      /\ \A t \in Sockets : t # current => socket'[t] = socket[t]
      /\ socket' \in [Sockets -> {"none", "connecting", "open", "closing", "failing", "closed"}]
  BY <1>1, <1>2, SocketFacts
<1>4. Alive' \subseteq Alive
  BY <1>1, <1>3 DEF Alive
<1>5. QED
  BY <1>1, <1>3, <1>4

LEMMA CloseSessionKeeps == ASSUME SocketsIInv, CloseSession PROVE SocketsIInv'
<1>1. /\ holder = "session" /\ current # 0 /\ socket' = ClosedBySelf /\ current' = 0
      /\ connected' = FALSE /\ UNCHANGED <<holder, pending, request, connect, doubled>>
  BY DEF CloseSession, transportFields
<1>2. ConnectionsTypeOK'
  <2>1. socket' \in [Sockets -> {"none", "connecting", "open", "closing", "failing", "closed"}]
    BY <1>1, ClosedBySelfFacts
  <2>2. current' = 0 /\ 0 \in 0..MaxSockets
    BY <1>1, SocketsAssumption
  <2>. connected' \in BOOLEAN
    BY <1>1
  <2>3. /\ request' \in [Requests -> RequestRecord] /\ connect' \in [Sockets -> ConnectRecord]
        /\ holder' \in {"transport", "session"} /\ pending' \subseteq Requests /\ doubled' \in BOOLEAN
    BY <1>1, SocketFacts
  <2>4. QED
    BY <2>1, <2>2, <2>3 DEF ConnectionsTypeOK, RequestRecord, ConnectRecord
<1>3. RepliesMatched' /\ NewUntouched'
  BY <1>1 DEF SocketsIInv, RepliesMatched, NewUntouched
<1>4. SessionTruthful'
  <2>1. current' \notin Alive'
    BY <1>1, SocketFacts DEF Alive
  <2>2. QED
    BY <1>1, <2>1 DEF SocketsIInv, SessionTruthful
<1>5. OthersQuiet'
  BY <1>1, ClosedBySelfFacts DEF SocketsIInv, OthersQuiet
<1>6. QED
  BY <1>2, <1>3, <1>4, <1>5 DEF SocketsIInv

LEMMA AbortSocketsKeeps == ASSUME SocketsIInv, AbortSockets PROVE SocketsIInv'
<1>1. /\ holder = "transport" /\ current' = 0 /\ request' = AllRejected /\ pending' = {}
      /\ socket' = IF current # 0 THEN ClosedBySelf ELSE socket
      /\ UNCHANGED <<holder, connected, connect, doubled>>
  BY DEF AbortSockets, sessionFields
<1>2. request' \in [Requests -> RequestRecord] /\ RepliesMatched' /\ NewUntouched'
  BY <1>1, AllRejectedKeeps
<1>3. socket' \in [Sockets -> {"none", "connecting", "open", "closing", "failing", "closed"}]
  BY <1>1, ClosedBySelfFacts, SocketFacts
<1>4. ConnectionsTypeOK'
  BY <1>1, <1>2, <1>3, SocketFacts, SocketsAssumption
     DEF ConnectionsTypeOK, RequestRecord, ConnectRecord
<1>5. ~connected'
  BY <1>1 DEF SocketsIInv, OthersQuiet
<1>6. SessionTruthful' /\ OthersQuiet'
  BY <1>1, <1>5 DEF SocketsIInv, SessionTruthful, OthersQuiet
<1>7. QED
  BY <1>2, <1>4, <1>6 DEF SocketsIInv

LEMMA RequestOverKeeps == ASSUME SocketsIInv, NEW r \in Requests, RequestOver(r) PROVE SocketsIInv'
<1>1. /\ holder = "transport" /\ request[r].phase = "new" /\ pending' = pending \cup {r}
      /\ UNCHANGED <<holder, connected, connect, doubled>>
  BY DEF RequestOver, sessionFields
<1>2. request[r] \in RequestRecord /\ ~request[r].unbuilt
  BY <1>1, SocketFacts DEF SocketsIInv, NewUntouched
<1>3. PICK n \in RequestRecord :
        request' = [request EXCEPT ![r] = n] /\ n.phase \in {"waiting", "refused"} /\ ~n.unbuilt
  <2>1. CASE request' = [request EXCEPT ![r] = [@ EXCEPT !.phase = "waiting", !.on = current]]
    <3>1. [request[r] EXCEPT !.phase = "waiting", !.on = current] \in RequestRecord
      BY <1>2, SocketFacts DEF RequestRecord
    <3>2. QED
      BY <2>1, <3>1, <1>2 DEF RequestRecord
  <2>2. CASE request' = [request EXCEPT ![r].phase = "refused"]
    <3>1. [request[r] EXCEPT !.phase = "refused"] \in RequestRecord
      BY <1>2 DEF RequestRecord
    <3>2. QED
      BY <2>2, <3>1, <1>2 DEF RequestRecord
  <2>3. QED
    BY <2>1, <2>2 DEF RequestOver
<1>4. /\ request' \in [Requests -> RequestRecord]
      /\ \A q \in Requests : request'[q] = IF q = r THEN n ELSE request[q]
  BY <1>3, SocketFacts
<1>5. RepliesMatched' /\ NewUntouched'
  BY <1>1, <1>3, <1>4 DEF SocketsIInv, RepliesMatched, NewUntouched
<1>6. /\ socket' \in [Sockets -> {"none", "connecting", "open", "closing", "failing", "closed"}]
      /\ current' \in 0..MaxSockets
  <2>1. CASE UNCHANGED <<socket, current>>
    BY <2>1, SocketFacts
  <2>2. CASE \E s \in Sockets : socket' = [socket EXCEPT ![s] = "connecting"] /\ current' = s
    BY <2>2, SocketFacts
  <2>3. QED
    BY <2>1, <2>2 DEF RequestOver
<1>7. ConnectionsTypeOK'
  <2>1. pending' \subseteq Requests
    BY <1>1, SocketFacts
  <2>2. /\ connect' \in [Sockets -> ConnectRecord] /\ holder' \in {"transport", "session"}
        /\ connected' \in BOOLEAN /\ doubled' \in BOOLEAN
    BY <1>1, SocketFacts
  <2>3. request' \in [Requests -> RequestRecord]
    BY <1>4
  <2>4. QED
    BY <1>6, <2>1, <2>2, <2>3 DEF ConnectionsTypeOK, RequestRecord, ConnectRecord
<1>8. ~connected'
  BY <1>1 DEF SocketsIInv, OthersQuiet
<1>9. SessionTruthful' /\ OthersQuiet'
  BY <1>1, <1>8 DEF SocketsIInv, SessionTruthful, OthersQuiet
<1>10. QED
  BY <1>5, <1>7, <1>9 DEF SocketsIInv

LEMMA RepliesKeeps ==
  ASSUME SocketsIInv, NEW r \in Requests, NEW buildable \in BOOLEAN, Replies(r, buildable)
  PROVE  SocketsIInv'
<1> DEFINE n == [request[r] EXCEPT !.phase = IF buildable THEN "resolved" ELSE request[r].phase,
                                   !.unbuilt = ~buildable]
<1>1. /\ r \in pending /\ pending' = pending \ {r}
      /\ UNCHANGED <<holder, socket, current, connected, connect, doubled>>
  BY DEF Replies, sessionFields
<1>2. request[r] \in RequestRecord /\ request[r].phase \in {"waiting", "refused"}
  BY <1>1, SocketFacts DEF SocketsIInv, RepliesMatched
<1>3. /\ n \in RequestRecord /\ n.unbuilt = ~buildable
      /\ n.phase = IF buildable THEN "resolved" ELSE request[r].phase
  BY <1>2 DEF RequestRecord
<1>4. request' = [request EXCEPT ![r] = n]
  BY <1>2, SocketFacts DEF Replies, RequestRecord
<1> HIDE DEF n
<1>5. /\ request' \in [Requests -> RequestRecord]
      /\ \A q \in Requests : request'[q] = IF q = r THEN n ELSE request[q]
  BY <1>3, <1>4, SocketFacts
<1>6. RepliesMatched' /\ NewUntouched'
  BY <1>1, <1>2, <1>3, <1>5 DEF SocketsIInv, RepliesMatched, NewUntouched
<1>7. ConnectionsTypeOK'
  BY <1>1, <1>5, SocketFacts DEF ConnectionsTypeOK, RequestRecord, ConnectRecord
<1>8. SessionTruthful' /\ OthersQuiet'
  BY <1>1 DEF SocketsIInv, SessionTruthful, OthersQuiet, Alive
<1>9. QED
  BY <1>6, <1>7, <1>8 DEF SocketsIInv

(* connect() over an open socket counts as overlapping from then on.       *)
LEMMA ConnectKeeps == ASSUME SocketsIInv, NEW s \in Sockets, Connect(s) PROVE SocketsIInv'
<1> DEFINE n == [connect[s] EXCEPT !.phase = "waiting", !.polling = TRUE]
<1>1. /\ holder = "session" /\ socket[s] = "none" /\ current' = s
      /\ socket' = [socket EXCEPT ![s] = "connecting"]
      /\ doubled' = (doubled \/ \E t \in Sockets : socket[t] \notin {"none", "closed"})
      /\ UNCHANGED <<holder, pending, request, connected>>
  BY DEF Connect, Makes, transportFields
<1>2. connect[s] \in ConnectRecord
  BY SocketFacts
<1>3. n \in ConnectRecord /\ n.phase = "waiting"
  BY <1>2 DEF ConnectRecord
<1>4. connect' = [connect EXCEPT ![s] = n]
  BY <1>2, SocketFacts DEF Connect, ConnectRecord
<1> HIDE DEF n
<1>5. /\ connect' \in [Sockets -> ConnectRecord]
      /\ \A t \in Sockets : connect'[t] = IF t = s THEN n ELSE connect[t]
  BY <1>3, <1>4, SocketFacts
<1>6. /\ socket' \in [Sockets -> {"none", "connecting", "open", "closing", "failing", "closed"}]
      /\ \A t \in Sockets : socket'[t] = IF t = s THEN "connecting" ELSE socket[t]
  BY <1>1, SocketFacts
<1>7. Alive' = Alive /\ s \notin Alive
  BY <1>1, <1>6 DEF Alive
<1>8. ConnectionsTypeOK'
  <2>1. current' \in 0..MaxSockets /\ doubled' \in BOOLEAN
    BY <1>1, SocketFacts
  <2>2. UNCHANGED <<holder, pending, request, connected>>
    BY <1>1
  <2>3. QED
    BY <1>5, <1>6, <2>1, <2>2, SocketFacts DEF ConnectionsTypeOK, RequestRecord, ConnectRecord
<1>9. RepliesMatched' /\ NewUntouched'
  BY <1>1 DEF SocketsIInv, RepliesMatched, NewUntouched
<1>10. ASSUME connected PROVE doubled' /\ Alive # {}
  <2>1. Alive # {}
    BY <1>10 DEF SocketsIInv, SessionTruthful
  <2>2. \E t \in Sockets : socket[t] \notin {"none", "closed"}
    BY <2>1 DEF Alive
  <2>3. QED
    BY <1>1, <2>1, <2>2
<1>11. SessionTruthful'
  <2>1. connected' => Alive' # {} /\ (doubled' \/ current' \in Alive')
    BY <1>1, <1>7, <1>10
  <2>2. \A t \in Sockets : connect'[t].phase = "resolved" => connect'[t].saw
    BY <1>3, <1>5 DEF SocketsIInv, SessionTruthful
  <2>3. current' \notin Alive'
    BY <1>1, <1>7
  <2>4. QED
    BY <2>1, <2>2, <2>3 DEF SessionTruthful
<1>12. OthersQuiet'
  <2>1. ASSUME ~doubled', NEW t \in Sockets, t # current'
        PROVE  socket'[t] \in {"none", "closed"}
    BY <2>1, <1>1, <1>6
  <2>2. current' # 0
    BY <1>1, SocketFacts
  <2>3. QED
    BY <1>1, <2>1, <2>2 DEF OthersQuiet
<1>13. QED
  BY <1>8, <1>9, <1>11, <1>12 DEF SocketsIInv

(* What changes of a connect() alone must keep whether it resolved rightly *)
(* and whether its socket was configured.                                  *)
LEMMA ConnectEndsKeeps ==
  ASSUME SocketsIInv, NEW s \in Sockets, NEW n \in ConnectRecord,
         connect' = [connect EXCEPT ![s] = n], n.ready = connect[s].ready,
         n.phase = "resolved" => n.saw,
         UNCHANGED <<holder, socket, current, pending, request, connected, doubled>>
  PROVE  SocketsIInv'
<1>1. /\ connect' \in [Sockets -> ConnectRecord]
      /\ \A t \in Sockets : connect'[t] = IF t = s THEN n ELSE connect[t]
  BY SocketFacts
<1>2. ConnectionsTypeOK'
  BY <1>1, SocketFacts DEF ConnectionsTypeOK, RequestRecord, ConnectRecord
<1>3. RepliesMatched' /\ NewUntouched' /\ OthersQuiet'
  BY DEF SocketsIInv, RepliesMatched, NewUntouched, OthersQuiet
<1>4. Alive' = Alive /\ Alive \subseteq Sockets
  BY DEF Alive
<1>5. SessionTruthful'
  BY <1>1, <1>4 DEF SocketsIInv, SessionTruthful
<1>6. QED
  BY <1>2, <1>3, <1>5 DEF SocketsIInv

LEMMA SeesConnectedKeeps ==
  ASSUME SocketsIInv, NEW s \in Sockets, SeesConnected(s) PROVE SocketsIInv'
<1> DEFINE c == connect[s]
           n == [c EXCEPT !.polling = FALSE,
                          !.phase = IF c.phase = "waiting" THEN "resolved" ELSE c.phase,
                          !.saw = IF c.phase = "waiting" THEN Alive # {} ELSE c.saw]
<1>1. c \in ConnectRecord /\ Alive # {}
  BY SocketFacts DEF SeesConnected, SocketsIInv, SessionTruthful
<1>2. n \in ConnectRecord /\ n.ready = c.ready
  BY <1>1 DEF ConnectRecord
<1>3. n.phase = "resolved" => n.saw
  BY <1>1 DEF ConnectRecord, SocketsIInv, SessionTruthful
<1>4. connect' = [connect EXCEPT ![s] = n]
  BY <1>1, SocketFacts DEF SeesConnected, ConnectRecord
<1>5. UNCHANGED <<holder, socket, current, pending, request, connected, doubled>>
  BY DEF SeesConnected, transportFields
<1> HIDE DEF n
<1>6. QED
  BY <1>2, <1>3, <1>4, <1>5, ConnectEndsKeeps

LEMMA ConnectTimesOutKeeps ==
  ASSUME SocketsIInv, NEW s \in Sockets, ConnectTimesOut(s) PROVE SocketsIInv'
<1> DEFINE n == [connect[s] EXCEPT !.phase = "rejected"]
<1>1. connect[s] \in ConnectRecord
  BY SocketFacts
<1>2. n \in ConnectRecord /\ n.ready = connect[s].ready /\ n.phase = "rejected"
  BY <1>1 DEF ConnectRecord
<1>3. connect' = [connect EXCEPT ![s] = n]
  BY DEF ConnectTimesOut
<1>4. UNCHANGED <<holder, socket, current, pending, request, connected, doubled>>
  BY DEF ConnectTimesOut, transportFields
<1> HIDE DEF n
<1>5. n.phase = "resolved" => n.saw
  BY <1>2
<1>6. QED
  BY <1>2, <1>3, <1>4, <1>5, ConnectEndsKeeps

LEMMA SessionDeletedKeeps ==
  ASSUME SocketsIInv, NEW s \in Sockets, SessionDeleted(s) PROVE SocketsIInv'
<1>1. connected' = FALSE /\ UNCHANGED <<holder, socket, current, pending, request, connect, doubled>>
  BY DEF SessionDeleted, transportFields
<1>2. ConnectionsTypeOK'
  BY <1>1, SocketFacts DEF ConnectionsTypeOK, RequestRecord, ConnectRecord
<1>3. RepliesMatched' /\ NewUntouched' /\ SessionTruthful' /\ OthersQuiet'
  BY <1>1 DEF SocketsIInv, RepliesMatched, NewUntouched, SessionTruthful, OthersQuiet, Alive
<1>4. QED
  BY <1>2, <1>3 DEF SocketsIInv

LEMMA SocketsStep == SocketsIInv /\ [ConnectionsNext]_connectionVars => SocketsIInv'
<1> SUFFICES ASSUME SocketsIInv, [ConnectionsNext]_connectionVars PROVE SocketsIInv'
  OBVIOUS
<1>1. ASSUME NEW s \in Sockets,
             Opens(s) \/ SocketFails(s) \/ PeerCloses(s) \/ SocketCloses(s) PROVE SocketsIInv'
  BY <1>1, OpensKeeps, SocketFailsKeeps, PeerClosesKeeps, SocketClosesKeeps
<1>2. ASSUME NEW s \in Sockets,
             Connect(s) \/ SeesConnected(s) \/ ConnectTimesOut(s) \/ SessionDeleted(s)
      PROVE  SocketsIInv'
  BY <1>2, ConnectKeeps, SeesConnectedKeeps, ConnectTimesOutKeeps, SessionDeletedKeeps
<1>3. ASSUME NEW r \in Requests, RequestOver(r) PROVE SocketsIInv'
  BY <1>3, RequestOverKeeps
<1>4. ASSUME NEW r \in Requests, NEW buildable \in BOOLEAN, Replies(r, buildable)
      PROVE  SocketsIInv'
  BY <1>4, RepliesKeeps
<1>5. CASE AbortSockets
  BY <1>5, AbortSocketsKeeps
<1>6. CASE CloseSession
  BY <1>6, CloseSessionKeeps
<1>7. CASE UNCHANGED connectionVars
  <2>1. UNCHANGED <<holder, socket, current, pending, request, connected, connect, doubled>>
    BY <1>7 DEF connectionVars
  <2>2. ConnectionsTypeOK'
    BY <2>1, SocketFacts DEF ConnectionsTypeOK, RequestRecord, ConnectRecord
  <2>3. RepliesMatched' /\ NewUntouched' /\ SessionTruthful' /\ OthersQuiet'
    BY <2>1 DEF SocketsIInv, RepliesMatched, NewUntouched, SessionTruthful, OthersQuiet, Alive
  <2>4. QED
    BY <2>2, <2>3 DEF SocketsIInv
<1>8. QED
  BY <1>1, <1>2, <1>3, <1>4, <1>5, <1>6, <1>7 DEF ConnectionsNext

----------------------------------------------------------------------------
(* The hooks: what their records say, what the messages are, and which     *)
(* request an answer may still come from.                                  *)
RunRecord ==
  [phase : Phases, aborted : BOOLEAN, late : 0..MaxLateTools, sent : Seq(Message)]

(* Every text of m stands in the message made for it.                      *)
InPlace(m) == \A i \in DOMAIN m : m[i].shows \in {0, m[i].by}

(* Requests are started in order, and the controller is of a started one.  *)
StartedInOrder ==
  /\ \A r \in Reqs : r >= next => run[r].phase = "new" /\ ~run[r].aborted
  /\ ctrl < next

(* Until requests overlap, the only one under way is the newest.           *)
NewestAlone == overlap # "now" => \A r \in Reqs : Live(r) => r = next - 1

(* Whatever can still reach the list is in place: the list, what closures  *)
(* hold of it and the histories that were sent.                            *)
AllInPlace ==
  hook.target = "own" \/ overlap = "none" =>
    InPlace(list) /\ InPlace(seen.kept) /\ \A r \in Reqs : InPlace(run[r].sent)

(* A request whose text goes to the last message has made that one, once   *)
(* its answer has joined the list.                                         *)
Owns(r, m) ==
  /\ m # <<>>
  /\ hook.target = "last" \/ (hook.target = "lastAnswer" /\ Last(m).role = "assistant")
  => Last(m).by = r

LastIsItsOwn ==
  overlap = "none" =>
    \A r \in Reqs :
      Live(r) /\ (run[r].phase # "fetch" \/ hook.inserts \notin {"response", "history"}) =>
        Owns(r, list)

HooksIInv ==
  HooksTypeOK /\ StartedInOrder /\ NewestAlone /\ LoadingTellsTruth /\ AllInPlace /\ LastIsItsOwn

(* What the decisions of a binding have to do with each other.             *)
Coherent(h) ==
  /\ h.stale \in BOOLEAN /\ h.nulls \in BOOLEAN
  /\ h.inserts \in {"question", "response", "history", "text", "reset", "keep"}
  /\ h.target \in {"own", "last", "lastAnswer", "only"}
  /\ h.target = "own" => h.inserts = "question"
  /\ h.target = "only" <=> h.inserts \in {"reset", "keep"}
  /\ h.target = "lastAnswer" <=> h.inserts = "text"
  /\ h.inserts = "question" /\ "reload" \in h.ops => h.target = "own"

LEMMA HookFacts == ASSUME NEW h \in Hooks PROVE Coherent(h)
<1>1. Coherent(Chat) /\ Coherent(ReactChat) /\ Coherent(SolidChat)
  BY DEF Coherent, Chat, ReactChat, SolidChat
<1>2. Coherent(AngularChat)
  BY DEF Coherent, Chat, AngularChat
<1>3. Coherent(NextChat) /\ Coherent(RemixChat)
  BY DEF Coherent, Chat, NextChat, RemixChat
<1>4. Coherent(ClientChat)
  BY DEF Coherent, Chat, ClientChat
<1>5. Coherent(Single)
  BY DEF Coherent, Chat, Single
<1>6. Coherent(Unguarded)
  BY DEF Coherent, Chat, Single, Unguarded
<1>7. Coherent(ReactCompletion) /\ Coherent(AngularCompletion) /\ Coherent(ClientCompletion)
  BY DEF Coherent, Chat, Single, ReactCompletion, AngularCompletion, ClientCompletion
<1>8. QED
  BY <1>1, <1>2, <1>3, <1>4, <1>5, <1>6, <1>7
  DEF Hooks, VueChat, SvelteChat, QwikChat, SolidChat, AstroChat, VueCompletion, SvelteCompletion,
      ReactCompletion, AngularCompletion, SolidCompletion, QwikCompletion, NextCompletion,
      ReactObject, VueObject, SvelteObject, AngularObject, SolidObject

LEMMA MessageFacts ==
  /\ Question \in Message /\ Question.role = "user" /\ Question.shows = 0
  /\ \A r \in Reqs :
       /\ Answer(r) \in Message /\ Answer(r).shows = 0 /\ Answer(r).by = r
       /\ [Answer(r) EXCEPT !.shows = r] \in Message
       /\ [Answer(r) EXCEPT !.shows = r].shows = r /\ [Answer(r) EXCEPT !.shows = r].by = r
BY BoundsAssumption DEF Question, Answer, Message, Reqs

LEMMA PutInPlace ==
  ASSUME NEW m \in Seq(Message), InPlace(m), NEW e \in Message, e.shows \in {0, e.by}
  PROVE  InPlace(Append(m, e))
BY DEF InPlace

(* What is kept for a reload() is a beginning of the list.                 *)
LEMMA KeptIsPrefix ==
  ASSUME NEW m \in Seq(Message)
  PROVE  UpToLastUser(m) \in Seq(Message) /\ (InPlace(m) => InPlace(UpToLastUser(m)))
<1> DEFINE users == {i \in DOMAIN m : m[i].role = "user"}
           last == CHOOSE i \in users : \A j \in users : j <= i
<1>1. CASE users = {}
  BY <1>1 DEF UpToLastUser, InPlace
<1>2. CASE users # {}
  <2>1. \E i \in users : \A j \in users : j <= i
    <3> DEFINE behind == {Len(m) - i : i \in users}
    <3>1. behind \subseteq Nat /\ behind # {}
      BY <1>2
    <3>2. PICK least \in behind : \A d \in behind : ~(d < least)
      <4>1. PICK d \in behind : \A e \in behind : ~(<<e, d>> \in OpToRel(<, Nat))
        BY <3>1, NatLessThanWellFounded, WFMin
      <4>2. QED
        BY <3>1, <4>1 DEF OpToRel
    <3>3. PICK k \in users : least = Len(m) - k
      OBVIOUS
    <3>4. ASSUME NEW j \in users PROVE j <= k
      <4>1. Len(m) - j \in behind
        OBVIOUS
      <4>2. ~(Len(m) - j < Len(m) - k)
        BY <3>2, <3>3, <4>1
      <4>3. QED
        BY <4>2
    <3>5. QED
      BY <3>4
  <2>2. last \in users
    BY <2>1
  <2>3. UpToLastUser(m) = SubSeq(m, 1, last)
    BY <1>2 DEF UpToLastUser
  <2> HIDE DEF last
  <2>4. QED
    BY <2>2, <2>3 DEF InPlace
<1>3. QED
  BY <1>1, <1>2

SeenRecord == [loading : BOOLEAN, kept : Seq(Message)]

LEMMA HooksTyped ==
  ASSUME HooksTypeOK
  PROVE  /\ Coherent(hook) /\ loading \in BOOLEAN /\ ctrl \in Nat /\ ctrl \in 0..MaxRequests
         /\ list \in Seq(Message) /\ seen \in SeenRecord /\ seen.kept \in Seq(Message)
         /\ run \in [Reqs -> RunRecord]
         /\ \A r \in Reqs : run[r].sent \in Seq(Message) /\ run[r] \in RunRecord
         /\ next \in Nat /\ MaxRequests \in Nat /\ Reqs \subseteq Nat
         /\ overlap \in {"none", "now", "past"}
BY BoundsAssumption, HookFacts DEF HooksTypeOK, SeenRecord, RunRecord, Reqs

(* What a step publishes is what handlers see, now or at the next render.  *)
LEMMA ViewKeeps ==
  ASSUME NEW l \in BOOLEAN, NEW m \in Seq(Message)
  PROVE  /\ View(l, m) \in SeenRecord
         /\ InPlace(m) => InPlace(View(l, m).kept)
<1>1. View(l, m).loading = l /\ View(l, m).kept \in {<<>>, UpToLastUser(m)}
  BY DEF View
<1>2. <<>> \in Seq(Message) /\ InPlace(<<>>)
  BY DEF InPlace
<1>3. View(l, m) = [loading |-> l, kept |-> View(l, m).kept]
  BY DEF View
<1>4. View(l, m) \in SeenRecord
  BY <1>1, <1>2, <1>3, KeptIsPrefix DEF SeenRecord
<1>5. QED
  BY <1>1, <1>2, <1>4, KeptIsPrefix

LEMMA PublishKeeps ==
  ASSUME HooksTypeOK, NEW l \in BOOLEAN, NEW m \in Seq(Message), Publish(l, m)
  PROVE  /\ loading' = l /\ list' = m /\ seen' \in SeenRecord
         /\ InPlace(m) /\ InPlace(seen.kept) => InPlace(seen'.kept)
<1>1. seen \in SeenRecord
  BY HooksTyped
<1>2. seen' \in {seen, View(l, m)}
  BY DEF Publish
<1>3. QED
  BY <1>1, <1>2, ViewKeeps DEF Publish

LEMMA FrontKeeps ==
  ASSUME NEW m \in Seq(Message), m # <<>>
  PROVE  Front(m) \in Seq(Message) /\ (InPlace(m) => InPlace(Front(m)))
BY DEF Front, InPlace

(* The messages with which a request begins.                               *)
LEMMA AskedKeeps ==
  ASSUME HooksIInv, next \in Reqs, NEW op \in {"submit", "append", "reload"}, Allowed(op)
  PROVE  /\ Asked(next, op) \in Seq(Message) /\ Sent(next, op) \in Seq(Message)
         /\ hook.target = "own" \/ overlap = "none" =>
              InPlace(Asked(next, op)) /\ InPlace(Sent(next, op))
         /\ hook.inserts \notin {"response", "history"} => Owns(next, Asked(next, op))
<1> DEFINE asked == Asked(next, op)
           inPlace == hook.target = "own" \/ overlap = "none"
<1>1. /\ Coherent(hook) /\ list \in Seq(Message) /\ seen.kept \in Seq(Message)
      /\ inPlace => InPlace(list) /\ InPlace(seen.kept)
  BY HooksTyped DEF HooksIInv, AllInPlace
<1>2. /\ Question \in Message /\ Question.role = "user" /\ Question.shows = 0
      /\ Answer(next) \in Message /\ Answer(next).shows = 0 /\ Answer(next).by = next
  BY MessageFacts
<1>3. \A m \in Seq(Message) :
        /\ Append(m, Question) \in Seq(Message) /\ Append(m, Answer(next)) \in Seq(Message)
        /\ Last(Append(m, Question)) = Question /\ Last(Append(m, Answer(next))) = Answer(next)
        /\ InPlace(m) => InPlace(Append(m, Question)) /\ InPlace(Append(m, Answer(next)))
  <2> SUFFICES ASSUME NEW m \in Seq(Message)
               PROVE  /\ Append(m, Question) \in Seq(Message)
                      /\ Append(m, Answer(next)) \in Seq(Message)
                      /\ Last(Append(m, Question)) = Question
                      /\ Last(Append(m, Answer(next))) = Answer(next)
                      /\ InPlace(m) =>
                           InPlace(Append(m, Question)) /\ InPlace(Append(m, Answer(next)))
    OBVIOUS
  <2>1. InPlace(m) => InPlace(Append(m, Question)) /\ InPlace(Append(m, Answer(next)))
    BY <1>2, PutInPlace
  <2>2. QED
    BY <1>2, <2>1 DEF Last
<1>4. asked \in Seq(Message) /\ (inPlace => InPlace(asked))
      /\ (hook.inserts \notin {"response", "history"} => Owns(next, asked))
  <2>1. CASE hook.inserts = "reset"
    <3>1. asked = Append(<<>>, Answer(next)) /\ <<>> \in Seq(Message) /\ InPlace(<<>>)
      BY <2>1 DEF Asked, InPlace
    <3>2. QED
      BY <1>1, <1>2, <1>3, <2>1, <3>1 DEF Coherent, Owns
  <2>2. CASE hook.inserts = "keep"
    <3>1. asked = list
      BY <2>2 DEF Asked
    <3>2. QED
      BY <1>1, <2>2, <3>1 DEF Coherent, Owns
  <2>3. CASE hook.inserts = "question"
    <3>1. CASE op = "reload"
      <4>1. asked = Append(seen.kept, Answer(next))
        BY <2>3, <3>1 DEF Asked
      <4>2. QED
        BY <1>1, <1>2, <1>3, <4>1 DEF Owns
    <3>2. CASE op # "reload"
      <4>1. asked = Append(Append(list, Question), Answer(next))
        BY <1>1, <1>2, <2>3, <3>2 DEF Asked
      <4>2. Append(list, Question) \in Seq(Message)
        BY <1>1, <1>3
      <4>3. QED
        BY <1>1, <1>2, <1>3, <4>1, <4>2 DEF Owns
    <3>3. QED
      BY <3>1, <3>2
  <2>4. CASE hook.inserts \in {"response", "history"}
    <3>1. asked = IF op = "reload" THEN Front(list) ELSE Append(list, Question)
      BY <2>4 DEF Asked
    <3>2. op = "reload" => list # <<>>
      BY <2>4 DEF Allowed
    <3>3. QED
      BY <1>1, <1>3, <2>4, <3>1, <3>2, FrontKeeps
  <2>5. CASE hook.inserts = "text"
    <3> DEFINE before == IF op = "reload" THEN DropLastAnswer(list) ELSE list
    <3>1. asked = Append(before, Question)
      BY <2>5 DEF Asked
    <3>2. before \in Seq(Message) /\ (InPlace(list) => InPlace(before))
      BY <1>1, FrontKeeps DEF DropLastAnswer
    <3> HIDE DEF before
    <3>3. Last(asked) = Question
      BY <1>3, <3>1, <3>2
    <3>4. Owns(next, asked)
      BY <1>1, <1>2, <2>5, <3>3 DEF Owns, Coherent
    <3>5. QED
      BY <1>1, <1>3, <3>1, <3>2, <3>4
  <2>6. QED
    BY <1>1, <2>1, <2>2, <2>3, <2>4, <2>5 DEF Coherent
<1>5. Sent(next, op) \in {<<>>, asked}
  BY DEF Sent
<1>6. <<>> \in Seq(Message) /\ InPlace(<<>>)
  BY DEF InPlace
<1>7. QED
  BY <1>4, <1>5, <1>6

(* The messages once a request under way has written.                      *)
LEMMA WrittenKeeps ==
  ASSUME HooksIInv, NEW r \in Reqs, Live(r), run[r].phase # "fetch"
  PROVE  /\ Written(r, list) \in Seq(Message)
         /\ hook.target = "own" \/ overlap = "none" => InPlace(Written(r, list))
         /\ overlap = "none" => Owns(r, Written(r, list))
<1> DEFINE m == Written(r, list)
           e == [Answer(r) EXCEPT !.shows = r]
           inPlace == hook.target = "own" \/ overlap = "none"
<1>1. Coherent(hook) /\ list \in Seq(Message) /\ (inPlace => InPlace(list))
      /\ (overlap = "none" => Owns(r, list))
  BY HooksTyped DEF HooksIInv, AllInPlace, LastIsItsOwn
<1>2. e \in Message /\ e.shows = r /\ e.by = r
  BY MessageFacts
<1> HIDE DEF e
<1>3. \A i \in DOMAIN list : [list[i] EXCEPT !.shows = r] \in Message
                             /\ [list[i] EXCEPT !.shows = r].by = list[i].by
                             /\ [list[i] EXCEPT !.shows = r].shows = r
  <2>1. r \in 0..MaxRequests
    BY BoundsAssumption DEF Reqs
  <2>2. \A i \in DOMAIN list : list[i] \in Message
    BY <1>1
  <2>3. QED
    BY <2>1, <2>2 DEF Message
<1>4. CASE hook.target = "own"
  <2>1. m = [i \in DOMAIN list |->
               IF list[i].role = "assistant" /\ list[i].by = r
               THEN [list[i] EXCEPT !.shows = r] ELSE list[i]]
    BY <1>4 DEF Written
  <2>2. m \in Seq(Message)
    <3>1. \A i \in DOMAIN list : m[i] \in Message
      BY <1>1, <1>3, <2>1
    <3>2. DOMAIN m = 1..Len(list) /\ Len(list) \in Nat
      BY <1>1, <2>1
    <3>3. QED
      BY <1>1, <2>1, <3>1, <3>2
  <2>3. InPlace(m)
    BY <1>1, <1>3, <1>4, <2>1 DEF InPlace
  <2>4. QED
    BY <1>4, <2>2, <2>3 DEF Owns
<1>5. CASE hook.target = "only"
  <2>1. m = <<e>>
    BY <1>5 DEF Written, e
  <2>2. QED
    BY <1>2, <1>5, <2>1 DEF InPlace, Owns
<1>6. CASE list = <<>> /\ hook.target = "last"
  BY <1>1, <1>6 DEF Written
<1>7. CASE list # <<>> /\ (hook.target = "last"
                           \/ (hook.target = "lastAnswer" /\ Last(list).role = "assistant"))
  <2>1. m = [list EXCEPT ![Len(list)].shows = r]
    BY <1>7 DEF Written
  <2>2. Len(list) \in DOMAIN list
    BY <1>1, <1>7
  <2>3. m \in Seq(Message) /\ DOMAIN m = DOMAIN list /\ Len(m) = Len(list)
        /\ m[Len(list)] = [list[Len(list)] EXCEPT !.shows = r]
        /\ \A i \in DOMAIN list : i # Len(list) => m[i] = list[i]
    BY <1>1, <1>3, <2>1, <2>2
  <2>4. overlap = "none" => list[Len(list)].by = r
    BY <1>1, <1>7 DEF Owns, Last
  <2>5. overlap = "none" => m[Len(list)].by = r /\ m[Len(list)].shows = r
    BY <1>3, <2>2, <2>3, <2>4
  <2>6. overlap = "none" => InPlace(m)
    BY <1>1, <2>3, <2>5 DEF InPlace
  <2>7. overlap = "none" => Owns(r, m)
    BY <2>3, <2>5 DEF Owns, Last
  <2>8. QED
    BY <1>7, <2>3, <2>6, <2>7
<1>8. CASE hook.target = "lastAnswer" /\ ~(list # <<>> /\ Last(list).role = "assistant")
  <2>1. m = Append(list, e)
    BY <1>8 DEF Written, e
  <2>2. m \in Seq(Message) /\ Last(m) = e
    BY <1>1, <1>2, <2>1 DEF Last
  <2>3. inPlace => InPlace(m)
    BY <1>1, <1>2, <2>1, PutInPlace
  <2>4. QED
    BY <1>2, <1>8, <2>2, <2>3 DEF Owns
<1>9. QED
  BY <1>1, <1>4, <1>5, <1>6, <1>7, <1>8 DEF Coherent

(* A request that goes on: neither it nor the rest of the state changes    *)
(* what is under way, and what it wrote is its own.                        *)
LEMMA MovesOn ==
  ASSUME HooksIInv, NEW r \in Reqs, Live(r), NEW x \in RunRecord,
         x.phase \in {"read", "tool"}, x.aborted = run[r].aborted, x.sent = run[r].sent,
         run' = [run EXCEPT ![r] = x], UNCHANGED <<hook, loading, ctrl, next, overlap>>,
         list' \in Seq(Message), seen' \in SeenRecord,
         hook.target = "own" \/ overlap = "none" => InPlace(list') /\ InPlace(seen'.kept),
         overlap = "none" => Owns(r, list')
  PROVE  HooksIInv'
<1>1. run \in [Reqs -> RunRecord] /\ next \in Nat
  BY HooksTyped DEF HooksIInv
<1>2. HooksTypeOK'
  BY <1>1 DEF HooksIInv, HooksTypeOK, RunRecord, SeenRecord
<1>3. \A s \in Reqs :
        /\ Live(s)' <=> Live(s)
        /\ run'[s].aborted = run[s].aborted
        /\ run'[s].sent = run[s].sent
        /\ s # r => run'[s].phase = run[s].phase
  BY <1>1 DEF Live
<1>4. StartedInOrder'
  <2>1. ~(r >= next)
    BY DEF HooksIInv, StartedInOrder, Live
  <2>2. QED
    BY <1>3, <2>1 DEF HooksIInv, StartedInOrder
<1>5. NewestAlone'
  BY <1>3 DEF HooksIInv, NewestAlone
<1>6. LoadingTellsTruth'
  BY <1>3 DEF HooksIInv, LoadingTellsTruth, Streaming
<1>7. AllInPlace'
  BY <1>3 DEF HooksIInv, AllInPlace
<1>8. LastIsItsOwn'
  <2> SUFFICES ASSUME overlap = "none", NEW s \in Reqs, Live(s) PROVE Owns(s, list)'
    BY <1>3 DEF LastIsItsOwn
  <2>1. s = r
    BY <1>1 DEF HooksIInv, NewestAlone
  <2>2. Owns(r, list')
    OBVIOUS
  <2>3. QED
    BY <2>1, <2>2 DEF Owns
<1>9. QED
  BY <1>2, <1>4, <1>5, <1>6, <1>7, <1>8 DEF HooksIInv

(* The actions of a request that goes on.                                  *)
LEMMA GoingOnKeeps ==
  ASSUME HooksIInv, NEW r \in Reqs, NEW x \in RunRecord, NEW m \in Seq(Message),
         Live(r), x.phase \in {"read", "tool"}, x.aborted = run[r].aborted,
         x.sent = run[r].sent, run' = [run EXCEPT ![r] = x], Publish(loading, m),
         UNCHANGED <<hook, ctrl, next, overlap>>,
         hook.target = "own" \/ overlap = "none" => InPlace(m),
         overlap = "none" => Owns(r, m)
  PROVE  HooksIInv'
<1>1. loading' = loading /\ list' = m /\ seen' \in SeenRecord
      /\ (InPlace(m) /\ InPlace(seen.kept) => InPlace(seen'.kept))
  BY HooksTyped, PublishKeeps DEF HooksIInv
<1>2. hook.target = "own" \/ overlap = "none" => InPlace(list') /\ InPlace(seen'.kept)
  BY <1>1 DEF HooksIInv, AllInPlace
<1>3. QED
  BY <1>1, <1>2, MovesOn

LEMMA RespondKeeps == ASSUME HooksIInv, NEW r \in Reqs, Respond(r) PROVE HooksIInv'
<1> DEFINE x == [run[r] EXCEPT !.phase = "read"]
           m == CASE hook.inserts = "response" -> Append(list, Answer(r))
                  [] hook.inserts = "history" -> Append(run[r].sent, Answer(r))
                  [] OTHER -> list
<1>1. /\ Coherent(hook) /\ list \in Seq(Message) /\ run[r] \in RunRecord
      /\ run[r].sent \in Seq(Message) /\ run \in [Reqs -> RunRecord]
      /\ Answer(r) \in Message /\ Answer(r).shows = 0 /\ Answer(r).by = r
      /\ hook.target = "own" \/ overlap = "none" => InPlace(list) /\ InPlace(run[r].sent)
  BY HooksTyped, MessageFacts DEF HooksIInv, AllInPlace
<1>2. /\ x \in RunRecord /\ x.phase = "read" /\ x.aborted = run[r].aborted
      /\ x.sent = run[r].sent /\ Live(r) /\ run' = [run EXCEPT ![r] = x]
  BY <1>1 DEF Respond, RunRecord, Phases, Live
<1>3. hook.inserts \notin {"response", "history"} /\ overlap = "none" => Owns(r, list)
  BY <1>2 DEF HooksIInv, LastIsItsOwn
<1>4. ASSUME NEW l \in Seq(Message), m = Append(l, Answer(r))
      PROVE  m \in Seq(Message) /\ Owns(r, m) /\ (InPlace(l) => InPlace(m))
  <2>1. Last(m) = Answer(r)
    BY <1>1, <1>4 DEF Last
  <2>2. InPlace(l) => InPlace(m)
    BY <1>1, <1>4, PutInPlace
  <2>3. Owns(r, m)
    BY <1>1, <2>1 DEF Owns
  <2>4. QED
    BY <1>1, <1>4, <2>2, <2>3
<1>5. /\ m \in Seq(Message)
      /\ hook.target = "own" \/ overlap = "none" => InPlace(m)
      /\ overlap = "none" => Owns(r, m)
  <2>1. CASE hook.inserts = "response"
    <3>1. m = Append(list, Answer(r))
      BY <2>1
    <3> HIDE DEF m
    <3>2. QED
      BY <1>1, <1>4, <3>1
  <2>2. CASE hook.inserts = "history"
    <3>1. m = Append(run[r].sent, Answer(r))
      BY <2>2
    <3> HIDE DEF m
    <3>2. QED
      BY <1>1, <1>4, <3>1
  <2>3. CASE hook.inserts \notin {"response", "history"}
    <3>1. m = list
      BY <2>3
    <3> HIDE DEF m
    <3>2. QED
      BY <1>1, <1>3, <2>3, <3>1
  <2>4. QED
    BY <2>1, <2>2, <2>3
<1>6. Publish(loading, m) /\ UNCHANGED <<hook, ctrl, next, overlap>>
  BY DEF Respond
<1> HIDE DEF x, m
<1>7. QED
  BY <1>2, <1>5, <1>6, GoingOnKeeps

LEMMA DeltaKeeps == ASSUME HooksIInv, NEW r \in Reqs, Delta(r) PROVE HooksIInv'
<1>1. run[r] \in RunRecord /\ run \in [Reqs -> RunRecord]
  BY HooksTyped DEF HooksIInv
<1>2. run' = [run EXCEPT ![r] = run[r]] /\ Live(r) /\ run[r].phase = "read"
  BY <1>1 DEF Delta, Live
<1>3. Publish(loading, Written(r, list)) /\ UNCHANGED <<hook, ctrl, next, overlap>>
  BY DEF Delta
<1>4. QED
  BY <1>1, <1>2, <1>3, WrittenKeeps, GoingOnKeeps

LEMMA CallToolKeeps == ASSUME HooksIInv, NEW r \in Reqs, CallTool(r) PROVE HooksIInv'
<1> DEFINE x == [run[r] EXCEPT !.phase = "tool"]
<1>1. run[r] \in RunRecord /\ run \in [Reqs -> RunRecord] /\ list \in Seq(Message)
      /\ seen \in SeenRecord
  BY HooksTyped DEF HooksIInv
<1>2. /\ x \in RunRecord /\ x.phase = "tool" /\ x.aborted = run[r].aborted
      /\ x.sent = run[r].sent /\ Live(r) /\ run[r].phase = "read"
      /\ run' = [run EXCEPT ![r] = x]
  BY <1>1 DEF CallTool, RunRecord, Phases, Live
<1>3. UNCHANGED <<hook, loading, ctrl, list, seen, next, overlap>>
  BY DEF CallTool
<1>4. hook.target = "own" \/ overlap = "none" => InPlace(list) /\ InPlace(seen.kept)
  BY DEF HooksIInv, AllInPlace
<1>5. overlap = "none" => Owns(r, list)
  BY <1>2 DEF HooksIInv, LastIsItsOwn
<1> HIDE DEF x
<1>6. QED
  BY <1>1, <1>2, <1>3, <1>4, <1>5, MovesOn

(* However a request ends, no other one is under way unless requests       *)
(* overlap; the newest has ended with the last of them.                    *)
LEMMA FinallyKeeps ==
  ASSUME HooksIInv, NEW r \in Reqs, Live(r), NEW m \in Seq(Message), Finally(r, m),
         hook.target = "own" \/ overlap = "none" => InPlace(m)
  PROVE  HooksIInv'
<1>1. /\ run \in [Reqs -> RunRecord] /\ next \in Nat /\ ctrl \in Nat /\ Reqs \subseteq Nat
      /\ MaxRequests \in Nat /\ ctrl \in 0..MaxRequests /\ hook \in Hooks
      /\ next \in 1..(MaxRequests + 1) /\ overlap \in {"none", "now", "past"}
      /\ overlap' \in {"none", "now", "past"}
  BY HooksTyped DEF HooksIInv, HooksTypeOK, Finally
<1>2. loading' = FALSE /\ list' = m /\ seen' \in SeenRecord
      /\ (InPlace(m) /\ InPlace(seen.kept) => InPlace(seen'.kept))
  BY PublishKeeps DEF HooksIInv, Finally
<1>3. At("done") \in RunRecord /\ At("done").phase = "done" /\ ~At("done").aborted
      /\ At("done").sent = <<>>
  BY BoundsAssumption DEF At, RunRecord, Phases
<1>4. run' = [run EXCEPT ![r] = At("done")] /\ hook' = hook /\ next' = next
      /\ ctrl' = IF hook.nulls THEN 0 ELSE ctrl
  BY DEF Finally
<1>5. run' \in [Reqs -> RunRecord] /\ ctrl' \in 0..MaxRequests
  BY <1>1, <1>3, <1>4
<1>6. HooksTypeOK'
  BY <1>1, <1>2, <1>4, <1>5 DEF HooksTypeOK, RunRecord, SeenRecord
<1>7. ~Live(r)' /\ \A s \in Reqs : s # r =>
        /\ run'[s] = run[s]
        /\ Live(s)' <=> Live(s)
        /\ Streaming(s)' <=> Streaming(s)
  BY <1>1, <1>3, <1>4 DEF Live, Streaming
<1>8. StartedInOrder'
  <2>1. ~(r >= next)
    BY DEF HooksIInv, StartedInOrder, Live
  <2>2. QED
    BY <1>1, <1>4, <1>7, <2>1 DEF HooksIInv, StartedInOrder
<1>9. overlap' # "now" => \A s \in Reqs : ~Live(s)'
  <2>1. CASE overlap = "now"
    <3>1. overlap' # "now" => Busy = {r}
      BY <2>1 DEF Finally
    <3>2. QED
      BY <1>7, <3>1 DEF Busy
  <2>2. CASE overlap # "now"
    BY <1>1, <1>7, <2>2 DEF HooksIInv, NewestAlone
  <2>3. QED
    BY <2>1, <2>2
<1>10. NewestAlone' /\ LastIsItsOwn'
  BY <1>9 DEF NewestAlone, LastIsItsOwn
<1>11. LoadingTellsTruth'
  <2>1. overlap' # "now" => (loading' <=> \E s \in Reqs : Streaming(s)')
    BY <1>2, <1>9 DEF Streaming, Live
  <2>2. ASSUME NEW s \in Reqs, s = next' - 1, Streaming(s)'
        PROVE  ctrl' = s \/ (hook'.nulls /\ overlap' = "now")
    <3>1. s # r /\ Streaming(s) /\ s = next - 1
      BY <1>4, <1>7, <2>2 DEF Streaming, Live
    <3>2. overlap' = "now"
      BY <1>9, <2>2 DEF Streaming, Live
    <3>3. ctrl = s \/ hook.nulls
      BY <3>1 DEF HooksIInv, LoadingTellsTruth
    <3>4. QED
      BY <1>4, <3>2, <3>3
  <2>3. QED
    BY <2>1, <2>2 DEF LoadingTellsTruth
<1>12. AllInPlace'
  <2>1. hook'.target = "own" \/ overlap' = "none" => hook.target = "own" \/ overlap = "none"
    BY <1>4 DEF Finally
  <2>2. InPlace(<<>>)
    BY DEF InPlace
  <2>3. \A s \in Reqs : run'[s].sent \in {run[s].sent, <<>>}
    BY <1>1, <1>3, <1>4
  <2>4. QED
    BY <1>2, <2>1, <2>2, <2>3 DEF HooksIInv, AllInPlace
<1>13. QED
  BY <1>6, <1>8, <1>10, <1>11, <1>12 DEF HooksIInv

LEMMA ToolReturnsKeeps == ASSUME HooksIInv, NEW r \in Reqs, ToolReturns(r) PROVE HooksIInv'
<1> DEFINE m == Written(r, list)
<1>1. /\ run[r] \in RunRecord /\ run \in [Reqs -> RunRecord] /\ run[r].phase = "tool" /\ Live(r)
      /\ m \in Seq(Message)
      /\ hook.target = "own" \/ overlap = "none" => InPlace(m)
      /\ overlap = "none" => Owns(r, m)
  BY HooksTyped, WrittenKeeps DEF HooksIInv, ToolReturns, Live
<1> HIDE DEF m
<1>2. CASE /\ run' = [run EXCEPT ![r].phase = "read"]
           /\ Publish(loading, m)
           /\ UNCHANGED <<hook, ctrl, next, overlap>>
  <2> DEFINE x == [run[r] EXCEPT !.phase = "read"]
  <2>1. /\ x \in RunRecord /\ x.phase = "read" /\ x.aborted = run[r].aborted
        /\ x.sent = run[r].sent /\ run' = [run EXCEPT ![r] = x]
    BY <1>1, <1>2 DEF RunRecord, Phases
  <2> HIDE DEF x
  <2>2. QED
    BY <1>1, <1>2, <2>1, GoingOnKeeps
<1>3. CASE /\ run[r].late < MaxLateTools
           /\ run' = [run EXCEPT ![r].late = @ + 1]
           /\ Publish(loading, m)
           /\ UNCHANGED <<hook, ctrl, next, overlap>>
  <2> DEFINE x == [run[r] EXCEPT !.late = @ + 1]
  <2>1. run[r].late + 1 \in 0..MaxLateTools
    BY <1>1, <1>3, BoundsAssumption DEF RunRecord
  <2>2. /\ x \in RunRecord /\ x.phase = "tool" /\ x.aborted = run[r].aborted
        /\ x.sent = run[r].sent /\ run' = [run EXCEPT ![r] = x]
    BY <1>1, <1>3, <2>1 DEF RunRecord
  <2> HIDE DEF x
  <2>3. QED
    BY <1>1, <1>3, <2>2, GoingOnKeeps
<1>4. CASE Finally(r, m)
  BY <1>1, <1>4, FinallyKeeps
<1>5. QED
  BY <1>2, <1>3, <1>4 DEF ToolReturns, m

LEMMA EndKeeps == ASSUME HooksIInv, NEW r \in Reqs, End(r) PROVE HooksIInv'
<1> DEFINE e == [Answer(r) EXCEPT !.shows = r]
           m == IF hook.inserts = "text" /\ \A i \in DOMAIN list : list[i] # e
                THEN Append(list, e) ELSE list
<1>1. /\ list \in Seq(Message) /\ e \in Message /\ e.shows = r /\ e.by = r
      /\ hook.target = "own" \/ overlap = "none" => InPlace(list)
  BY HooksTyped, MessageFacts DEF HooksIInv, AllInPlace
<1>2. Live(r) /\ Finally(r, m)
  BY DEF End, Live
<1> HIDE DEF e
<1>3. m \in Seq(Message) /\ (InPlace(list) => InPlace(m))
  BY <1>1, PutInPlace
<1> HIDE DEF m
<1>4. QED
  BY <1>1, <1>2, <1>3, FinallyKeeps

LEMMA BrokenOffKeeps ==
  ASSUME HooksIInv, NEW r \in Reqs, RequestFails(r) \/ AbortLands(r) PROVE HooksIInv'
<1>1. Live(r) /\ Finally(r, list)
  BY DEF RequestFails, AbortLands, Live
<1>2. list \in Seq(Message) /\ (hook.target = "own" \/ overlap = "none" => InPlace(list))
  BY HooksTyped DEF HooksIInv, AllInPlace
<1>3. QED
  BY <1>1, <1>2, FinallyKeeps

(* A request that is started beside another one is an overlap.             *)
LEMMA BeginKeeps ==
  ASSUME HooksIInv, NEW op \in {"submit", "append", "reload"}, Begin(op) PROVE HooksIInv'
<1> DEFINE asked == Asked(next, op)
           posted == Sent(next, op)
<1>1. /\ run \in [Reqs -> RunRecord] /\ next \in Nat /\ next \in Reqs /\ Reqs \subseteq Nat
      /\ MaxRequests \in Nat /\ hook \in Hooks /\ overlap \in {"none", "now", "past"}
  BY HooksTyped DEF HooksIInv, HooksTypeOK, Begin
<1>2. /\ asked \in Seq(Message) /\ posted \in Seq(Message)
      /\ hook.target = "own" \/ overlap = "none" => InPlace(asked) /\ InPlace(posted)
      /\ hook.inserts \notin {"response", "history"} => Owns(next, asked)
  BY <1>1, AskedKeeps DEF Begin
<1> HIDE DEF asked, posted
<1>3. loading' = TRUE /\ list' = asked /\ seen' \in SeenRecord
      /\ (InPlace(asked) /\ InPlace(seen.kept) => InPlace(seen'.kept))
  <2>1. Publish(TRUE, asked)
    BY DEF Begin, asked
  <2>2. QED
    BY <1>2, <2>1, PublishKeeps DEF HooksIInv
<1>4. /\ run' = [run EXCEPT ![next].phase = "fetch", ![next].sent = posted]
      /\ ctrl' = next /\ next' = next + 1 /\ hook' = hook
      /\ overlap' = IF Busy # {} THEN "now" ELSE overlap
  BY DEF Begin, posted
<1>5. run[next] \in RunRecord /\ run[next].phase = "new" /\ ~run[next].aborted
  BY <1>1 DEF HooksIInv, StartedInOrder
<1>6. /\ run'[next].phase = "fetch" /\ ~run'[next].aborted /\ run'[next].sent = posted
      /\ run'[next] \in RunRecord
      /\ \A s \in Reqs : s # next => run'[s] = run[s]
  BY <1>1, <1>2, <1>4, <1>5 DEF RunRecord, Phases
<1>7. run' \in [Reqs -> RunRecord]
  BY <1>1, <1>4, <1>6
<1>8. next \in 0..MaxRequests /\ next + 1 \in 1..(MaxRequests + 1)
  BY <1>1 DEF Reqs
<1>9. HooksTypeOK'
  <2>1. overlap' \in {"none", "now", "past"}
    BY <1>1, <1>4
  <2>2. QED
    BY <1>1, <1>2, <1>3, <1>4, <1>7, <1>8, <2>1 DEF HooksTypeOK, RunRecord, SeenRecord
<1>10. \A s \in Reqs : IF s = next THEN Streaming(s)' ELSE Live(s)' <=> Live(s)
  <2>1. \A s \in Reqs : s = next => Streaming(s)'
    BY <1>6 DEF Streaming, Live
  <2>2. \A s \in Reqs : s # next => (Live(s)' <=> Live(s))
    BY <1>6 DEF Live
  <2>3. QED
    BY <2>1, <2>2
<1>11. overlap' # "now" => overlap' = overlap /\ \A s \in Reqs : Live(s)' => s = next
  BY <1>4, <1>10 DEF Busy
<1>12. StartedInOrder'
  BY <1>1, <1>4, <1>6 DEF HooksIInv, StartedInOrder
<1>13. NewestAlone'
  BY <1>1, <1>4, <1>11 DEF NewestAlone
<1>14. LoadingTellsTruth'
  <2>1. loading' /\ \E s \in Reqs : Streaming(s)'
    BY <1>1, <1>3, <1>10
  <2>2. \A s \in Reqs : s = next' - 1 => ctrl' = s
    BY <1>1, <1>4
  <2>3. QED
    BY <2>1, <2>2 DEF LoadingTellsTruth
<1>15. AllInPlace'
  <2>1. hook'.target = "own" \/ overlap' = "none" => hook.target = "own" \/ overlap = "none"
    BY <1>4, <1>11
  <2>2. QED
    BY <1>2, <1>3, <1>6, <2>1 DEF HooksIInv, AllInPlace
<1>16. LastIsItsOwn'
  BY <1>2, <1>3, <1>4, <1>6, <1>11 DEF LastIsItsOwn, Owns
<1>17. QED
  BY <1>9, <1>12, <1>13, <1>14, <1>15, <1>16 DEF HooksIInv

LEMMA HaltKeeps ==
  ASSUME HooksIInv, NEW m \in {list, <<>>}, Halt(m) PROVE HooksIInv'
<1>1. /\ run \in [Reqs -> RunRecord] /\ next \in Nat /\ ctrl \in Nat /\ Reqs \subseteq Nat
      /\ MaxRequests \in Nat /\ ctrl \in 0..MaxRequests /\ hook \in Hooks
      /\ list \in Seq(Message) /\ m \in Seq(Message) /\ InPlace(<<>>)
  <2>1. <<>> \in Seq(Message) /\ InPlace(<<>>)
    BY DEF InPlace
  <2>2. list \in Seq(Message)
    BY HooksTyped DEF HooksIInv
  <2>3. m \in Seq(Message)
    BY <2>1, <2>2
  <2>4. QED
    BY <2>1, <2>2, <2>3, HooksTyped DEF HooksIInv, HooksTypeOK
<1>2. loading' = FALSE /\ list' = m /\ seen' \in SeenRecord
      /\ (InPlace(m) /\ InPlace(seen.kept) => InPlace(seen'.kept))
  BY <1>1, PublishKeeps DEF HooksIInv, Halt
<1>3. /\ hook' = hook /\ next' = next /\ overlap' = overlap
      /\ ctrl' = IF hook.nulls THEN 0 ELSE ctrl
      /\ run' = IF ctrl = 0 \/ ~Live(ctrl) THEN run ELSE [run EXCEPT ![ctrl].aborted = TRUE]
  BY DEF Halt
<1>4. ctrl = 0 \/ ctrl \in Reqs
  BY <1>1 DEF Reqs
<1>5. /\ run' \in [Reqs -> RunRecord]
      /\ \A s \in Reqs : /\ run'[s].phase = run[s].phase /\ run'[s].sent = run[s].sent
                         /\ s # ctrl => run'[s].aborted = run[s].aborted
                         /\ s = ctrl /\ Live(s) => run'[s].aborted
                         /\ ~Live(s) => run'[s].aborted = run[s].aborted
  <2>1. CASE ctrl = 0 \/ ~Live(ctrl)
    <3>1. run' = run
      BY <1>3, <2>1
    <3>2. QED
      BY <1>1, <1>4, <2>1, <3>1 DEF Reqs
  <2>2. CASE ctrl # 0 /\ Live(ctrl)
    <3>1. run' = [run EXCEPT ![ctrl].aborted = TRUE] /\ ctrl \in Reqs
      BY <1>3, <1>4, <2>2
    <3>2. run[ctrl] \in RunRecord
      BY <1>1, <3>1
    <3>3. /\ run'[ctrl] = [run[ctrl] EXCEPT !.aborted = TRUE]
          /\ \A s \in Reqs : s # ctrl => run'[s] = run[s]
      BY <1>1, <3>1
    <3>4. /\ run'[ctrl] \in RunRecord /\ run'[ctrl].phase = run[ctrl].phase
          /\ run'[ctrl].sent = run[ctrl].sent /\ run'[ctrl].aborted
      BY <3>2, <3>3 DEF RunRecord
    <3>5. run' \in [Reqs -> RunRecord]
      BY <1>1, <3>1, <3>3, <3>4
    <3>6. QED
      BY <2>2, <3>3, <3>4, <3>5
  <2>3. QED
    BY <2>1, <2>2
<1>6. \A s \in Reqs : /\ Live(s)' <=> Live(s)
                      /\ Streaming(s)' <=> Streaming(s) /\ s # ctrl
  BY <1>1, <1>5 DEF Live, Streaming
<1>7. HooksTypeOK'
  <2>1. ctrl' \in 0..MaxRequests
    BY <1>1, <1>3
  <2>2. QED
    BY <1>1, <1>2, <1>3, <1>5, <2>1 DEF HooksIInv, HooksTypeOK, RunRecord, SeenRecord
<1>8. StartedInOrder'
  <2>1. ctrl' < next'
    BY <1>1, <1>3 DEF HooksIInv, StartedInOrder
  <2>2. QED
    BY <1>3, <1>5, <2>1 DEF HooksIInv, StartedInOrder, Live
<1>9. NewestAlone'
  BY <1>3, <1>6 DEF HooksIInv, NewestAlone
<1>10. LoadingTellsTruth'
  <2>1. ASSUME overlap # "now", NEW s \in Reqs, Streaming(s) PROVE s = ctrl
    BY <2>1 DEF HooksIInv, NewestAlone, LoadingTellsTruth, Streaming
  <2>2. ASSUME NEW s \in Reqs, s = next - 1, Streaming(s), s # ctrl
        PROVE  hook.nulls /\ overlap = "now"
    BY <2>2 DEF HooksIInv, LoadingTellsTruth
  <2>3. QED
    BY <1>2, <1>3, <1>6, <2>1, <2>2 DEF LoadingTellsTruth
<1>11. AllInPlace'
  BY <1>1, <1>2, <1>3, <1>5 DEF HooksIInv, AllInPlace
<1>12. LastIsItsOwn'
  BY <1>2, <1>3, <1>5, <1>6 DEF HooksIInv, LastIsItsOwn, Owns
<1>13. QED
  BY <1>7, <1>8, <1>9, <1>10, <1>11, <1>12 DEF HooksIInv

LEMMA ClearKeeps == ASSUME HooksIInv, Clear PROVE HooksIInv'
<1>1. CASE hook.clearStops
  BY <1>1, HaltKeeps DEF Clear
<1>2. CASE ~hook.clearStops
  <2>1. UNCHANGED <<hook, ctrl, run, next, overlap>> /\ Publish(loading, <<>>)
    BY <1>2 DEF Clear
  <2>2. <<>> \in Seq(Message) /\ InPlace(<<>>)
    BY DEF InPlace
  <2>3. loading' = loading /\ list' = <<>> /\ seen' \in SeenRecord
        /\ (InPlace(seen.kept) => InPlace(seen'.kept))
    BY <2>1, <2>2, HooksTyped, PublishKeeps DEF HooksIInv
  <2>4. HooksTypeOK'
    BY <2>1, <2>2, <2>3 DEF HooksIInv, HooksTypeOK, SeenRecord
  <2>5. StartedInOrder' /\ NewestAlone' /\ LoadingTellsTruth'
    BY <2>1, <2>3
    DEF HooksIInv, StartedInOrder, NewestAlone, LoadingTellsTruth, Streaming, Live
  <2>6. AllInPlace' /\ LastIsItsOwn'
    BY <2>1, <2>2, <2>3 DEF HooksIInv, AllInPlace, LastIsItsOwn, Owns
  <2>7. QED
    BY <2>4, <2>5, <2>6 DEF HooksIInv
<1>3. QED
  BY <1>1, <1>2 DEF Clear

LEMMA RenderKeeps == ASSUME HooksIInv, Render PROVE HooksIInv'
<1>1. UNCHANGED <<hook, loading, ctrl, list, run, next, overlap>> /\ seen' = View(loading, list)
  BY DEF Render
<1>2. seen' \in SeenRecord /\ (InPlace(list) => InPlace(seen'.kept))
  BY <1>1, HooksTyped, ViewKeeps DEF HooksIInv
<1>3. HooksTypeOK'
  BY <1>1, <1>2 DEF HooksIInv, HooksTypeOK, SeenRecord
<1>4. StartedInOrder' /\ NewestAlone' /\ LoadingTellsTruth' /\ LastIsItsOwn'
  BY <1>1 DEF HooksIInv, StartedInOrder, NewestAlone, LoadingTellsTruth, LastIsItsOwn, Owns,
              Streaming, Live
<1>5. AllInPlace'
  BY <1>1, <1>2 DEF HooksIInv, AllInPlace
<1>6. QED
  BY <1>3, <1>4, <1>5 DEF HooksIInv

LEMMA HooksStart == HooksInit => HooksIInv
<1> SUFFICES ASSUME HooksInit PROVE HooksIInv
  OBVIOUS
<1>1. At("new") \in RunRecord /\ At("new").phase = "new" /\ ~At("new").aborted
      /\ At("new").sent = <<>>
  BY BoundsAssumption DEF At, RunRecord, Phases
<1>2. <<>> \in Seq(Message) /\ InPlace(<<>>)
  BY DEF InPlace
<1>3. \A r \in Reqs : run[r] = At("new")
  BY DEF HooksInit
<1>4. HooksTypeOK
  <2>1. run \in [Reqs -> RunRecord]
    BY <1>1 DEF HooksInit
  <2>2. ctrl \in 0..MaxRequests /\ next \in 1..(MaxRequests + 1)
    BY BoundsAssumption DEF HooksInit
  <2>3. QED
    BY <1>2, <2>1, <2>2 DEF HooksInit, HooksTypeOK, RunRecord
<1>5. StartedInOrder /\ NewestAlone /\ LoadingTellsTruth /\ LastIsItsOwn
  BY <1>1, <1>3
  DEF HooksInit, StartedInOrder, NewestAlone, LoadingTellsTruth, LastIsItsOwn, Live, Streaming
<1>6. AllInPlace
  BY <1>1, <1>2, <1>3 DEF HooksInit, AllInPlace
<1>7. QED
  BY <1>4, <1>5, <1>6 DEF HooksIInv

LEMMA HooksStep == HooksIInv /\ [HooksNext]_hookVars => HooksIInv'
<1> SUFFICES ASSUME HooksIInv, [HooksNext]_hookVars PROVE HooksIInv'
  OBVIOUS
<1>1. ASSUME NEW op \in {"submit", "append", "reload"}, Begin(op) PROVE HooksIInv'
  BY <1>1, BeginKeeps
<1>2. ASSUME NEW r \in Reqs, Respond(r) \/ Delta(r) \/ CallTool(r) PROVE HooksIInv'
  BY <1>2, RespondKeeps, DeltaKeeps, CallToolKeeps
<1>3. ASSUME NEW r \in Reqs, ToolReturns(r) \/ End(r) \/ RequestFails(r) \/ AbortLands(r)
      PROVE  HooksIInv'
  BY <1>3, ToolReturnsKeeps, EndKeeps, BrokenOffKeeps
<1>4. CASE Stop
  BY <1>4, HaltKeeps DEF Stop
<1>5. CASE Clear
  BY <1>5, ClearKeeps
<1>6. CASE Render
  BY <1>6, RenderKeeps
<1>7. CASE UNCHANGED hookVars
  <2>1. UNCHANGED <<hook, loading, ctrl, list, seen, run, next, overlap>>
    BY <1>7 DEF hookVars
  <2>2. HooksTypeOK'
    BY <2>1 DEF HooksIInv, HooksTypeOK
  <2>3. StartedInOrder' /\ NewestAlone' /\ LoadingTellsTruth' /\ LastIsItsOwn'
    BY <2>1 DEF HooksIInv, StartedInOrder, NewestAlone, LoadingTellsTruth, LastIsItsOwn, Owns,
                Streaming, Live
  <2>4. AllInPlace'
    BY <2>1 DEF HooksIInv, AllInPlace
  <2>5. QED
    BY <2>2, <2>3, <2>4 DEF HooksIInv
<1>8. QED
  BY <1>1, <1>2, <1>3, <1>4, <1>5, <1>6, <1>7 DEF HooksNext

----------------------------------------------------------------------------
(* The components share no state, so each keeps its invariant while        *)
(* another moves.                                                          *)
PeersIInv == HooksIInv /\ PoolIInv /\ SocketsIInv

LEMMA PeersStep == PeersIInv /\ [PeersNext]_peers => PeersIInv'
<1> SUFFICES ASSUME PeersIInv, [PeersNext]_peers PROVE PeersIInv'
  OBVIOUS
<1>1. [HooksNext]_hookVars
  BY DEF PeersNext, Alone, peers
<1>2. [TransportNext]_transportVars
  BY DEF PeersNext, Alone, peers
<1>3. [ConnectionsNext]_connectionVars
  BY DEF PeersNext, Alone, peers
<1>4. QED
  BY <1>1, <1>2, <1>3, HooksStep, PoolStep, SocketsStep DEF PeersIInv

LEMMA PeersInvariant == PeersSpec => []PeersIInv
<1>1. PeersInit => PeersIInv
  BY HooksStart, PoolStart, SocketsStart DEF PeersInit, PeersIInv
<1>2. QED
  BY <1>1, PeersStep, PTL DEF PeersSpec

(* The state of the hooks, the transport and the sockets stays in its type *)
(* for every bound on the requests, the late tools and the connections.    *)
THEOREM PeersTyped == PeersSpec => []PeersTypeOK
<1>1. PeersIInv => PeersTypeOK
  BY DEF PeersIInv, HooksIInv, PoolIInv, SocketsIInv, PeersTypeOK
<1>2. QED
  BY <1>1, PeersInvariant, PTL

(* Whatever the user starts, stops or clears, and whenever answers, tools  *)
(* and renders come: isLoading says whether a request is under way, stop() *)
(* reaches the newest, and texts stand in the messages made for them, in   *)
(* every binding as far as its decisions promise it.                       *)
THEOREM HooksSound == PeersSpec => []HooksTruthful
<1>1. PeersIInv => HooksTruthful
  BY DEF PeersIInv, HooksIInv, AllInPlace, InPlace, HooksTruthful, AnswersInPlace
<1>2. QED
  BY <1>1, PeersInvariant, PTL

(* Whatever the application, the caller and the servers do, a pool counts  *)
(* its fetches and holds its limit, no open promise over a socket has lost *)
(* its entry, and a session that says it is connected is.                  *)
THEOREM TransportsSound == PeersSpec => []TransportsAccounted
<1>1. PeersIInv => TransportsAccounted
  BY PoolImplies DEF PeersIInv, SocketsIInv, TransportsAccounted
<1>2. QED
  BY <1>1, PeersInvariant, PTL

----------------------------------------------------------------------------
(* What streamText() makes of a provider's calls, through every adapter.   *)
Chunk == [key : Keys, call : 0..MaxBlocks, n : Nat, form : Forms, done : BOOLEAN]
Pending == [call : 0..MaxBlocks, n : Nat, form : Forms]
HeldRecord == [known : BOOLEAN, named : BOOLEAN, n : Nat]

AnswerShape ==
  /\ adapter \in Adapters
  /\ answer \in [Blocks -> [kind : {"text", "call", "inline"}, size : Nat]]
  /\ \A i \in Blocks :
       /\ answer[i].kind = "inline" => adapter.wire = "delta" /\ answer[i].size = 1
       /\ answer[i].kind = "call" /\ answer[i].size # 1 =>
            adapter.wire = "delta" \/ (adapter.wire = "block" /\ adapter.indexed)

AdapterShape ==
  /\ AnswerShape
  /\ link \in [phase : {"asked", "open", "closed", "cut", "threw"}, again : BOOLEAN,
               finish : Reasons]
  /\ sent \in [Blocks -> Nat]
  /\ held \in [Blocks -> HeldRecord]
  /\ due \subseteq Chunk
  /\ taken \in [pending : [Keys -> Pending], calls : Seq(Recorded)]
  /\ mixed \in BOOLEAN /\ untidy \in BOOLEAN /\ said \in {"fresh", "text", "in"}

(* A call is on its way to streamText(), or was taken by it, once.         *)
CallTaken(i) == \E k \in DOMAIN taken.calls : taken.calls[k].call = i
HandedOn(i) == (\E c \in due : c.call = i) \/ CallTaken(i)

CallsApart ==
  /\ \A k, l \in DOMAIN taken.calls :
       taken.calls[k].call = taken.calls[l].call /\ taken.calls[k].call # 0 => k = l
  /\ \A c, d \in due : c.call = d.call => c = d
  /\ \A c \in due : c.call # 0 => ~CallTaken(c.call)

(* The adapters that hand on nothing but whole calls.                      *)
Gathers == adapter.wire # "block" \/ adapter.holds

(* What is handed on is whole; only what content hid a piece of, a tag of  *)
(* reasoning altered, the end cut off or was never there is raw, and only  *)
(* what content hid the name of is refused.                                *)
Excused(i) == mixed \/ untidy \/ link.phase = "cut" \/ Spoiled(i)
WholeChunk(c) ==
  \/ c.form = "object" /\ ~Spoiled(c.call)
  \/ c.form = "text" /\ c.n = answer[c.call].size /\ ~Spoiled(c.call)
  \/ c.form = "none" /\ answer[c.call].size = 0 /\ ~Spoiled(c.call)
  \/ c.form = "raw" /\ Excused(c.call)
  \/ c.form = "nameless" /\ mixed
WholeCall(r) ==
  \/ r.how = "whole" /\ ~Spoiled(r.call)
  \/ r.how = "raw" /\ Excused(r.call)
  \/ r.how = "refused" /\ mixed

GatheredWhole ==
  /\ \A k \in Keys : taken.pending[k] = NoEntry
  /\ \A c \in due : c.done /\ c.call \in Called /\ WholeChunk(c)
  /\ \A k \in DOMAIN taken.calls : taken.calls[k].call \in Called /\ WholeCall(taken.calls[k])
  /\ \A i \in Blocks : held[i].known => answer[i].kind = "call" /\ ~HandedOn(i)
  /\ link.phase \in {"closed", "cut"} => \A i \in Blocks : ~held[i].known
  /\ link.phase = "closed" /\ ~mixed /\ ~untidy
       /\ (adapter.wire = "delta" /\ ~adapter.flushes => link.finish = "calls") =>
         \A i \in Called : HandedOn(i)

(* Deltas: every piece that was sent is held, until all are flushed.       *)
Deltas(i) == IF answer[i].size = 0 THEN 1 ELSE answer[i].size
PiecesOf(i, n) == IF answer[i].size = 0 THEN 0 ELSE n

DeltaHeld ==
  /\ link.finish = "calls" => \A i \in Blocks : ~held[i].known
  /\ \A i \in Blocks :
       answer[i].kind = "call" =>
         /\ sent[i] <= Deltas(i)
         /\ HandedOn(i) /\ link.phase \in {"asked", "open"} => link.finish = "calls"
         /\ ~mixed /\ link.phase \in {"asked", "open"} /\ link.finish # "calls" =>
              /\ held[i].n = PiecesOf(i, sent[i])
              /\ held[i].known <=> sent[i] > 0
              /\ held[i].known => held[i].named
         /\ ~mixed /\ link.finish = "calls" => HandedOn(i)

(* Calls in the text come one after the other, and each is handed on when  *)
(* its end was sent, if at all.                                            *)
Half(i) == answer[i].kind = "inline" /\ sent[i] = 1
InOrder ==
  /\ \A i \in Blocks : answer[i].kind = "inline" =>
       sent[i] <= 2 /\ (HandedOn(i) => sent[i] = 2 /\ adapter.inline)
  /\ \A i, j \in Blocks : answer[i].kind = "inline" /\ answer[j].kind = "inline"
                          /\ i < j /\ sent[j] > 0 => sent[i] = 2

(* While reasoning is tidy the normalizer has it as the provider does, and *)
(* the parser has what it needs: it is in a call exactly when one was      *)
(* begun, and none that was sent is lost.                                  *)
TidyRead ==
  ~untidy /\ adapter.inline =>
    /\ reading.think = said
    /\ reading.parse = IF \E i \in Blocks : Half(i) THEN "in" ELSE "out"
    /\ \A i \in Blocks : answer[i].kind = "inline" /\ sent[i] = 2 => HandedOn(i)

PartsHanded ==
  \A i \in Blocks :
    /\ ~held[i].known
    /\ answer[i].kind = "call" => (HandedOn(i) <=> sent[i] > 0)

(* Blocks the adapter collects: its pieces so far, and then the call.      *)
BlocksHeld ==
  link.phase \in {"asked", "open"} =>
    \A i \in Blocks : answer[i].kind = "call" =>
      /\ sent[i] <= answer[i].size + 2
      /\ HandedOn(i) <=> sent[i] = answer[i].size + 2
      /\ held[i].known <=> sent[i] \in 1..(answer[i].size + 1)
      /\ held[i].n = IF held[i].known THEN sent[i] - 1 ELSE 0


(* Blocks it does not: what the n-th event of one hands on, and what is    *)
(* pending once streamText() has taken n of them.                          *)
PieceForm == IF adapter.indexed THEN "quoted" ELSE "object"
StopChunk(i) == [key |-> Key(i), call |-> 0, form |-> "none", n |-> 0, done |-> TRUE]
EventChunk(i, n) ==
  CASE n = 1 -> Partial(i, "none", 0)
    [] n > 1 /\ n <= answer[i].size + 1 -> Partial(i, PieceForm, 1)
    [] OTHER -> StopChunk(i)
PendingAfter(i, n) ==
  IF n = 0 THEN NoEntry
  ELSE [call |-> i, n |-> n - 1, form |-> IF n = 1 THEN "none" ELSE PieceForm]

BlockPassed(i) ==
  \/ sent[i] = 0 /\ ~CallTaken(i)
  \/ /\ sent[i] \in 1..(answer[i].size + 2) /\ ~CallTaken(i)
     /\ due = {EventChunk(i, sent[i])}
     /\ taken.pending[Key(i)] = PendingAfter(i, sent[i] - 1)
  \/ /\ sent[i] \in 1..(answer[i].size + 1) /\ ~CallTaken(i)
     /\ due = {}
     /\ taken.pending[Key(i)] = PendingAfter(i, sent[i])
  \/ /\ CallTaken(i)
     /\ sent[i] = answer[i].size + 2 \/ (sent[i] > 0 /\ link.phase = "cut")

BlocksPassed ==
  /\ due # {} => link.phase = "open"
  /\ link.phase = "closed" => AllSent
  /\ \A i, j \in Blocks : i < j /\ sent[j] > 0 => sent[i] = answer[i].size + 2
  /\ \A i \in Blocks : answer[i].kind = "call" => BlockPassed(i)
  /\ \A k \in Keys : taken.pending[k] # NoEntry =>
       \E i \in Blocks : /\ answer[i].kind = "call" /\ k = Key(i) /\ taken.pending[k].call = i
                         /\ sent[i] > 0 /\ ~CallTaken(i)
  /\ \A c \in due :
       \E i \in Blocks : /\ due = {c} /\ sent[i] > 0
                         /\ \/ answer[i].kind = "call" /\ c = EventChunk(i, sent[i]) /\ ~CallTaken(i)
                            \/ answer[i].kind = "text" /\ c = StopChunk(i) /\ adapter.indexed
                               /\ sent[i] = answer[i].size + 2
  /\ \A k \in DOMAIN taken.calls :
       \/ taken.calls[k].call = 0 /\ taken.calls[k].how = "refused" /\ adapter.indexed
       \/ /\ taken.calls[k].call \in Called
          /\ \/ taken.calls[k].how = "whole"
             \/ taken.calls[k].how = "refused" /\ adapter.indexed
             \/ taken.calls[k].how = "empty" /\ link.phase = "cut"

AdapterIInv ==
  /\ AdapterShape
  /\ CallsApart
  /\ Gathers => GatheredWhole
  /\ adapter.wire = "delta" => DeltaHeld /\ InOrder /\ TidyRead
  /\ adapter.wire = "whole" => PartsHanded
  /\ adapter.wire = "block" /\ adapter.holds => BlocksHeld
  /\ adapter.wire = "block" /\ ~adapter.holds => BlocksPassed

(* The calls of the text that a delta closes and begins, and the chunks of *)
(* those the parser has whole, or altered.                                 *)
ClosedBy(upto) == {i \in Unsent("inline") : i <= upto}
BegunBy(upto, begins) ==
  {i \in Unsent("inline") \ ClosedBy(upto) :
     begins /\ sent[i] = 0 /\ \A j \in Unsent("inline") \ ClosedBy(upto) : i <= j}
ParsedChunks(whole, altered) ==
  LET emitted == Cardinality(Inlined \cup whole \cup altered)
  IN  {InlineChunk(i, emitted, "object") : i \in whole}
      \cup {InlineChunk(i, emitted, "raw") : i \in altered}

(* What a delta has streamText() take, and leaves the parser with.         *)
TextHanded(closed, whole, altered) ==
  /\ whole \subseteq closed /\ altered \subseteq closed
  /\ ~Watched => whole = {} /\ altered = {}
  /\ due' \subseteq Chunk
  /\ \A c \in due' : /\ c.done /\ c.call \in whole \cup altered
                     /\ c.form = IF c.call \in whole THEN "object" ELSE "raw"
  /\ \A c, d \in due' : c.call = d.call => c = d
  /\ \A i \in whole \cup altered : \E c \in due' : c.call = i
  /\ altered # {} => untidy'
  /\ ~untidy' /\ adapter.inline /\ Watched =>
       /\ whole = closed /\ ~untidy
       /\ reading'.think = said'
       /\ reading'.parse = IF \E i \in Blocks : Half(i)' THEN "in" ELSE "out"
  /\ untidy' \in BOOLEAN /\ said' \in {"fresh", "text", "in"}

LEMMA AdapterFacts ==
  ASSUME adapter \in Adapters
  PROVE  /\ adapter.wire \in {"delta", "block", "whole"}
         /\ adapter.holds \in BOOLEAN /\ adapter.indexed \in BOOLEAN
         /\ adapter.flushes \in BOOLEAN /\ adapter.inline \in BOOLEAN
         /\ adapter.wire = "block" /\ ~adapter.holds /\ adapter.indexed => adapter = Bedrock
<1>1. adapter \in {OpenAI, GenericOpenAI, Perplexity}
        => adapter.wire = "delta" /\ adapter.holds = TRUE /\ adapter.indexed = TRUE
           /\ adapter.flushes = TRUE /\ adapter.inline \in BOOLEAN
  <2>1. adapter = OpenAI
          => adapter.wire = "delta" /\ adapter.holds = TRUE /\ adapter.indexed = TRUE
             /\ adapter.flushes = TRUE /\ adapter.inline = TRUE
    BY DEF OpenAI
  <2>2. adapter = Perplexity
          => adapter.wire = "delta" /\ adapter.holds = TRUE /\ adapter.indexed = TRUE
             /\ adapter.flushes = TRUE /\ adapter.inline = FALSE
    BY DEF OpenAI, GenericOpenAI, Perplexity
  <2>3. QED
    BY <2>1, <2>2 DEF GenericOpenAI
<1>2. adapter \in {Azure, HuggingFace, Groq, Ollama}
        => adapter.wire = "delta" /\ adapter.holds = TRUE /\ adapter.indexed = TRUE
           /\ adapter.flushes = FALSE /\ adapter.inline = FALSE
  BY DEF OpenAI, Azure, HuggingFace, Groq, Ollama
<1>3. adapter = Anthropic
        => adapter.wire = "block" /\ adapter.holds = TRUE /\ adapter.indexed = TRUE
           /\ adapter.flushes = TRUE /\ adapter.inline = FALSE
  BY DEF OpenAI, Anthropic
<1>4. adapter = Bedrock
        => adapter.wire = "block" /\ adapter.holds = FALSE /\ adapter.indexed = TRUE
           /\ adapter.flushes = TRUE /\ adapter.inline = FALSE
  BY DEF OpenAI, Anthropic, Bedrock
<1>5. adapter = Cohere
        => adapter.wire = "block" /\ adapter.holds = FALSE /\ adapter.indexed = FALSE
           /\ adapter.flushes = TRUE /\ adapter.inline = FALSE
  BY DEF OpenAI, Anthropic, Bedrock, Cohere
<1>6. adapter \in {GoogleGenAI, GoogleVertex}
        => adapter.wire = "whole" /\ adapter.holds = FALSE /\ adapter.indexed = FALSE
           /\ adapter.flushes = TRUE /\ adapter.inline = FALSE
  BY DEF OpenAI, Anthropic, Bedrock, Cohere, GoogleGenAI, GoogleVertex
<1>7. \/ adapter \in {OpenAI, GenericOpenAI, Perplexity}
      \/ adapter \in {Azure, HuggingFace, Groq, Ollama}
      \/ adapter = Anthropic \/ adapter = Bedrock \/ adapter = Cohere
      \/ adapter \in {GoogleGenAI, GoogleVertex}
  BY DEF Adapters
<1>8. CASE adapter \in {OpenAI, GenericOpenAI, Perplexity}
  BY <1>1, <1>8
<1>9. CASE adapter \in {Azure, HuggingFace, Groq, Ollama}
  BY <1>2, <1>9
<1>10. CASE adapter = Anthropic
  BY <1>3, <1>10
<1>11. CASE adapter = Bedrock
  BY <1>4, <1>11
<1>12. CASE adapter = Cohere
  BY <1>5, <1>12
<1>13. CASE adapter \in {GoogleGenAI, GoogleVertex}
  BY <1>6, <1>13
<1>14. QED
  BY <1>7, <1>8, <1>9, <1>10, <1>11, <1>12, <1>13

LEMMA AnswersShaped == AdapterInit => AnswerShape
<1> SUFFICES ASSUME AdapterInit PROVE AnswerShape
  OBVIOUS
<1>1. adapter \in Adapters
  BY DEF AdapterInit
<1> DEFINE Parts(a) == UNION {[kind : {k}, size : Sizes(a, k)] : k \in Kinds(a)}
<1>2. answer \in [Blocks -> Parts(adapter)]
  BY DEF AdapterInit
<1>3. ASSUME NEW p \in Parts(adapter)
      PROVE  /\ p \in [kind : {"text", "call", "inline"}, size : Nat]
             /\ p.kind = "inline" => adapter.wire = "delta" /\ p.size = 1
             /\ p.kind = "call" /\ p.size # 1 =>
                  adapter.wire = "delta" \/ (adapter.wire = "block" /\ adapter.indexed)
  <2>1. PICK k \in Kinds(adapter) : p \in [kind : {k}, size : Sizes(adapter, k)]
    BY <1>3
  <2>2. p.kind = k /\ p.size \in Sizes(adapter, k)
    BY <2>1
  <2>3. k \in {"text", "call", "inline"} /\ (k = "inline" => adapter.wire = "delta")
    BY DEF Kinds
  <2>4. /\ Sizes(adapter, k) \subseteq Nat
        /\ k = "inline" => Sizes(adapter, k) = {1}
        /\ k = "call" /\ adapter.wire # "delta" /\ ~(adapter.wire = "block" /\ adapter.indexed)
             => Sizes(adapter, k) = {1}
    BY <1>1, <2>3, AdapterFacts, AnswerAssumption DEF Sizes
  <2>5. p \in [kind : {"text", "call", "inline"}, size : Nat]
    BY <2>1, <2>3, <2>4
  <2>6. QED
    BY <2>2, <2>3, <2>4, <2>5
<1> HIDE DEF Parts
<1>4. answer \in [Blocks -> [kind : {"text", "call", "inline"}, size : Nat]]
  BY <1>2, <1>3
<1>5. \A i \in Blocks : answer[i] \in Parts(adapter)
  BY <1>2
<1>6. QED
  BY <1>1, <1>3, <1>4, <1>5 DEF AnswerShape

LEMMA AdapterStart == AdapterInit => AdapterIInv
<1> SUFFICES ASSUME AdapterInit PROVE AdapterIInv
  OBVIOUS
<1>1. AnswerShape
  BY AnswersShaped
<1>2. NoEntry \in Pending /\ MaxBlocks \in Nat
  BY AnswerAssumption DEF NoEntry, Pending, Forms
<1>3. /\ taken = [pending |-> [k \in Keys |-> NoEntry], calls |-> <<>>]
      /\ held = [i \in Blocks |-> [known |-> FALSE, named |-> FALSE, n |-> 0]] /\ due = {}
      /\ sent = [i \in Blocks |-> 0] /\ mixed = FALSE /\ untidy = FALSE /\ said = "fresh"
      /\ link = [phase |-> "asked", again |-> FALSE, finish |-> "none"]
      /\ reading = [think |-> "fresh", parse |-> "out"]
  BY DEF AdapterInit, NothingTaken, Nothing, NotHeld
<1>4. AdapterShape
  <2>1. taken \in [pending : [Keys -> Pending], calls : Seq(Recorded)]
    BY <1>2, <1>3
  <2>2. held \in [Blocks -> HeldRecord]
    BY <1>3 DEF HeldRecord
  <2>3. QED
    BY <1>1, <1>3, <2>1, <2>2 DEF AdapterShape, Reasons
<1>5. \A i : ~CallTaken(i) /\ ~HandedOn(i)
  BY <1>3 DEF CallTaken, HandedOn
<1>6. CallsApart
  BY <1>3 DEF CallsApart
<1>7. GatheredWhole
  BY <1>3, <1>5 DEF GatheredWhole
<1>8. DeltaHeld
  BY <1>3, <1>4, <1>5 DEF DeltaHeld, AdapterShape, AnswerShape, Deltas, PiecesOf
<1>13. InOrder /\ TidyRead
  BY <1>3, <1>5 DEF InOrder, TidyRead, Half
<1>9. PartsHanded
  BY <1>3, <1>5 DEF PartsHanded
<1>10. BlocksHeld
  BY <1>1, <1>3, <1>5 DEF BlocksHeld, AnswerShape
<1>11. BlocksPassed
  BY <1>3, <1>5 DEF BlocksPassed, BlockPassed
<1>12. QED
  BY <1>4, <1>6, <1>7, <1>8, <1>9, <1>10, <1>11, <1>13 DEF AdapterIInv

(* Exactly the calls of the answer are recorded, each as it must be.       *)
LEMMA AllRecorded ==
  ASSUME taken.calls \in Seq(Recorded),
         \A k \in DOMAIN taken.calls :
           /\ taken.calls[k].call \in Called
           /\ taken.calls[k].how = IF Spoiled(taken.calls[k].call) THEN "raw" ELSE "whole",
         \A i \in Called : CallTaken(i)
  PROVE  ToSet(taken.calls) =
           {[call |-> i, how |-> IF Spoiled(i) THEN "raw" ELSE "whole"] : i \in Called}
<1> DEFINE R(i) == [call |-> i, how |-> IF Spoiled(i) THEN "raw" ELSE "whole"]
<1>1. \A k \in DOMAIN taken.calls : taken.calls[k] = R(taken.calls[k].call)
  <2> SUFFICES ASSUME NEW k \in DOMAIN taken.calls
               PROVE  taken.calls[k] = R(taken.calls[k].call)
    OBVIOUS
  <2> HIDE DEF Called, Spoiled
  <2>1. taken.calls[k] \in Recorded
    OBVIOUS
  <2>2. taken.calls[k] = [call |-> taken.calls[k].call, how |-> taken.calls[k].how]
    BY <2>1 DEF Recorded
  <2>3. QED
    BY <2>2
<1>2. \A i \in Called : \E k \in DOMAIN taken.calls : taken.calls[k] = R(i)
  <2> HIDE DEF R
  <2>1. QED
    BY <1>1 DEF CallTaken
<1> HIDE DEF R
<1>3. \A r : r \in ToSet(taken.calls) <=> r \in {R(i) : i \in Called}
  BY <1>1, <1>2 DEF ToSet
<1>4. ToSet(taken.calls) = {R(i) : i \in Called}
  BY <1>3
<1>5. QED
  BY <1>4 DEF R

LEMMA AdapterImplies == AdapterIInv => CallsFaithful
<1> SUFFICES ASSUME AdapterIInv PROVE CallsFaithful
  OBVIOUS
<1>1. /\ AdapterShape /\ CallsApart /\ adapter \in Adapters
      /\ taken.calls \in Seq(Recorded) /\ adapter.wire \in {"delta", "block", "whole"}
  BY AdapterFacts DEF AdapterIInv, AdapterShape, AnswerShape
<1> DEFINE Exact == {[call |-> i, how |-> IF Spoiled(i) THEN "raw" ELSE "whole"] : i \in Called}
<1>2. ASSUME \A k \in DOMAIN taken.calls :
               taken.calls[k].how \in {"raw", "empty"} => Excused(taken.calls[k].call),
             link.phase = "closed" /\ due = {} /\ ~mixed /\ ~untidy /\ adapter # Bedrock
               /\ (adapter.wire = "delta" /\ ~adapter.flushes => link.finish = "calls") =>
                 ToSet(taken.calls) = Exact
      PROVE  CallsFaithful
  <2> HIDE DEF Exact
  <2>1. \A k, l \in DOMAIN taken.calls :
          taken.calls[k].call = taken.calls[l].call /\ taken.calls[k].call # 0 => k = l
    BY <1>1 DEF CallsApart
  <2>2. \A k \in DOMAIN taken.calls : taken.calls[k].how \in {"raw", "empty"} =>
          mixed \/ untidy \/ link.phase = "cut" \/ Spoiled(taken.calls[k].call)
    BY <1>2 DEF Excused
  <2>3. QED
    BY <1>2, <2>1, <2>2 DEF CallsFaithful, Exact
<1>3. CASE Gathers
  <2>1. GatheredWhole
    BY <1>3 DEF AdapterIInv
  <2>2. \A k \in DOMAIN taken.calls :
          taken.calls[k].how \in {"raw", "empty"} => Excused(taken.calls[k].call)
    BY <2>1 DEF GatheredWhole, WholeCall
  <2>3. ASSUME link.phase = "closed", due = {}, ~mixed, ~untidy,
               adapter.wire = "delta" /\ ~adapter.flushes => link.finish = "calls"
        PROVE  ToSet(taken.calls) = Exact
    <3>1. ASSUME NEW k \in DOMAIN taken.calls
          PROVE  /\ taken.calls[k].call \in Called
                 /\ taken.calls[k].how = IF Spoiled(taken.calls[k].call) THEN "raw" ELSE "whole"
      BY <2>1, <2>3, <3>1 DEF GatheredWhole, WholeCall, Excused
    <3>2. \A i \in Called : CallTaken(i)
      BY <2>1, <2>3 DEF GatheredWhole, HandedOn
    <3>3. QED
      BY <1>1, <3>1, <3>2, AllRecorded
  <2>4. QED
    BY <1>2, <2>2, <2>3
<1>4. CASE ~Gathers
  <2>1. BlocksPassed /\ adapter.wire = "block" /\ ~adapter.holds
    BY <1>4 DEF AdapterIInv, Gathers
  <2>2. \A k \in DOMAIN taken.calls :
          taken.calls[k].how \in {"raw", "empty"} => Excused(taken.calls[k].call)
    BY <2>1 DEF BlocksPassed, Excused
  <2>3. ASSUME link.phase = "closed", due = {}, adapter # Bedrock
        PROVE  ToSet(taken.calls) = Exact
    <3>1. ~adapter.indexed
      BY <1>1, <2>1, <2>3, AdapterFacts
    <3>2. ASSUME NEW k \in DOMAIN taken.calls
          PROVE  /\ taken.calls[k].call \in Called
                 /\ taken.calls[k].how = IF Spoiled(taken.calls[k].call) THEN "raw" ELSE "whole"
      BY <2>1, <2>3, <3>1, <3>2 DEF BlocksPassed, Spoiled
    <3>3. \A i \in Blocks : answer[i].kind # "inline" /\ answer[i].size \in Nat
      BY <1>1, <2>1 DEF AdapterShape, AnswerShape
    <3>4. \A i \in Blocks : sent[i] = answer[i].size + 2
      BY <2>1, <2>3 DEF BlocksPassed, AllSent
    <3>5. ASSUME NEW i \in Called PROVE CallTaken(i)
      <4>1. i \in Blocks /\ answer[i].kind = "call"
        BY <3>3 DEF Called
      <4>2. BlockPassed(i)
        BY <2>1, <4>1 DEF BlocksPassed
      <4>3. sent[i] # 0 /\ sent[i] \notin 1..(answer[i].size + 1)
        BY <3>3, <3>4, <4>1
      <4>4. QED
        BY <2>3, <4>2, <4>3 DEF BlockPassed
    <3>6. QED
      BY <1>1, <3>2, <3>5, AllRecorded
  <2>4. QED
    BY <1>2, <2>2, <2>3
<1>5. QED
  BY <1>3, <1>4

(* A chunk taken: its call goes from what is due to what was taken.        *)
LEMMA CallsAppended ==
  ASSUME taken.calls \in Seq(Recorded), NEW r \in Recorded, taken'.calls = Append(taken.calls, r)
  PROVE  /\ taken'.calls \in Seq(Recorded)
         /\ DOMAIN taken'.calls = DOMAIN taken.calls \cup {Len(taken.calls) + 1}
         /\ Len(taken.calls) + 1 \notin DOMAIN taken.calls
         /\ \A k \in DOMAIN taken.calls : taken'.calls[k] = taken.calls[k]
         /\ taken'.calls[Len(taken.calls) + 1] = r
<1> DEFINE s == taken.calls
           n == Len(s)
<1>1. n \in Nat /\ DOMAIN s = 1..n
  OBVIOUS
<1>2. /\ Append(s, r) \in Seq(Recorded) /\ Len(Append(s, r)) = n + 1
      /\ \A k \in 1..n : Append(s, r)[k] = s[k]
      /\ Append(s, r)[n + 1] = r
  BY <1>1, AppendProperties
<1>3. DOMAIN Append(s, r) = 1..(n + 1)
  BY <1>2
<1>4. 1..(n + 1) = 1..n \cup {n + 1} /\ n + 1 \notin 1..n
  BY <1>1
<1>5. QED
  <2> HIDE DEF n
  <2>1. QED
    BY <1>1, <1>2, <1>3, <1>4 DEF n

LEMMA TakenOnce ==
  ASSUME taken.calls \in Seq(Recorded), NEW r \in Recorded, taken'.calls = Append(taken.calls, r),
         r.call # 0 => ~CallTaken(r.call),
         \A k, l \in DOMAIN taken.calls :
           taken.calls[k].call = taken.calls[l].call /\ taken.calls[k].call # 0 => k = l
  PROVE  /\ taken'.calls \in Seq(Recorded)
         /\ \A i : CallTaken(i)' => CallTaken(i) \/ i = r.call
         /\ \A i : CallTaken(i) \/ i = r.call => CallTaken(i)'
         /\ \A k, l \in DOMAIN taken'.calls :
              taken'.calls[k].call = taken'.calls[l].call /\ taken'.calls[k].call # 0 => k = l
         /\ \A k \in DOMAIN taken'.calls :
              taken'.calls[k] = r \/ \E l \in DOMAIN taken.calls : taken'.calls[k] = taken.calls[l]
<1> DEFINE n == Len(taken.calls) + 1
<1>1. /\ taken'.calls \in Seq(Recorded)
      /\ DOMAIN taken'.calls = DOMAIN taken.calls \cup {n}
      /\ n \notin DOMAIN taken.calls
      /\ \A k \in DOMAIN taken.calls : taken'.calls[k] = taken.calls[k]
      /\ taken'.calls[n] = r
  BY CallsAppended
<1> HIDE DEF n
<1>2. \A i : CallTaken(i)' => CallTaken(i) \/ i = r.call
  BY <1>1 DEF CallTaken
<1>3. \A i : CallTaken(i) \/ i = r.call => CallTaken(i)'
  BY <1>1 DEF CallTaken
<1>4. ASSUME NEW k \in DOMAIN taken'.calls, NEW l \in DOMAIN taken'.calls,
             taken'.calls[k].call = taken'.calls[l].call, taken'.calls[k].call # 0
      PROVE  k = l
  <2>1. CASE k # n /\ l # n
    BY <1>1, <1>4, <2>1
  <2>2. CASE k = n /\ l # n
    BY <1>1, <1>4, <2>2 DEF CallTaken
  <2>3. CASE k # n /\ l = n
    BY <1>1, <1>4, <2>3 DEF CallTaken
  <2>4. QED
    BY <2>1, <2>2, <2>3
<1>5. \A k \in DOMAIN taken'.calls :
        taken'.calls[k] = r \/ \E l \in DOMAIN taken.calls : taken'.calls[k] = taken.calls[l]
  BY <1>1
<1>6. QED
  BY <1>1, <1>2, <1>3, <1>4, <1>5

LEMMA GatheredTake ==
  ASSUME AdapterShape, Gathers, GatheredWhole, NEW c \in due
  PROVE  \E how \in {"whole", "raw", "refused"} :
           /\ Take(taken, c) = [pending |-> taken.pending,
                                calls |-> Append(taken.calls, [call |-> c.call, how |-> how])]
           /\ WholeCall([call |-> c.call, how |-> how])
           /\ c.call \in Called /\ c.call \in 1..MaxBlocks
<1>1. /\ c \in Chunk /\ taken.pending \in [Keys -> Pending] /\ taken.pending[c.key] = NoEntry
      /\ c.done /\ c.call \in Called /\ WholeChunk(c)
  BY DEF AdapterShape, GatheredWhole, Chunk
<1>2. c.call \in Blocks /\ c.call # 0 /\ c.n \in Nat /\ c.form \in Forms
  BY <1>1, AnswerAssumption DEF Called, Blocks, Chunk
<1> DEFINE e == [call |-> c.call, form |-> c.form, n |-> c.n]
<1>3. Outcome(e) \in {"whole", "raw", "refused"} /\ WholeCall([call |-> c.call, how |-> Outcome(e)])
  <2>1. e.call = c.call /\ e.form = c.form /\ e.n = c.n /\ e.call # 0
    BY <1>2
  <2> HIDE DEF e
  <2>2. CASE c.form = "object"
    BY <1>1, <2>1, <2>2 DEF Outcome, WholeChunk, WholeCall
  <2>3. CASE c.form = "text"
    BY <1>1, <2>1, <2>3 DEF Outcome, WholeChunk, WholeCall
  <2>4. CASE c.form = "none"
    BY <1>1, <2>1, <2>4 DEF Outcome, WholeChunk, WholeCall
  <2>5. CASE c.form = "raw"
    BY <1>1, <2>1, <2>5 DEF Outcome, WholeChunk, WholeCall
  <2>6. CASE c.form = "nameless"
    BY <1>1, <2>1, <2>6 DEF Outcome, WholeChunk, WholeCall
  <2>7. QED
    BY <1>1, <2>2, <2>3, <2>4, <2>5, <2>6 DEF WholeChunk
<1>4. [taken.pending EXCEPT ![c.key] = NoEntry] = taken.pending
  BY <1>1 DEF Chunk
<1>5. Take(taken, c) = [pending |-> taken.pending, calls |-> AddCall(taken.calls, e)]
  <2>1. NoEntry.call = 0 /\ NoEntry.form = "none" /\ NoEntry.n = 0
    BY DEF NoEntry
  <2>2. 0 + c.n = c.n
    BY <1>2
  <2>3. QED
    BY <1>1, <1>2, <1>4, <2>1, <2>2 DEF Take
<1>6. AddCall(taken.calls, e) = Append(taken.calls, [call |-> c.call, how |-> Outcome(e)])
  BY DEF AddCall
<1>7. QED
  BY <1>1, <1>2, <1>3, <1>5, <1>6 DEF Blocks

LEMMA GatheredTakeStep ==
  ASSUME AdapterIInv, Gathers, NEW c \in due, TakeChunk(c)
  PROVE  AdapterIInv'
<1>1. AdapterShape /\ CallsApart /\ GatheredWhole /\ taken.calls \in Seq(Recorded)
  BY DEF AdapterIInv, AdapterShape
<1>2. PICK how \in {"whole", "raw", "refused"} :
           /\ Take(taken, c) = [pending |-> taken.pending,
                                calls |-> Append(taken.calls, [call |-> c.call, how |-> how])]
           /\ WholeCall([call |-> c.call, how |-> how])
           /\ c.call \in Called /\ c.call \in 1..MaxBlocks
  BY <1>1, GatheredTake
<1> DEFINE r == [call |-> c.call, how |-> how]
<1>3. r \in Recorded /\ c.call # 0
  BY <1>2, AnswerAssumption DEF Recorded
<1>4. /\ taken' = [pending |-> taken.pending, calls |-> Append(taken.calls, r)]
      /\ due' = due \ {c} /\ UNCHANGED <<adapter, answer, link, sent, held, reading, mixed, untidy, said>>
  BY <1>2 DEF TakeChunk
<1>5. taken'.calls = Append(taken.calls, r) /\ taken'.pending = taken.pending
  BY <1>4
<1>6. /\ taken'.calls \in Seq(Recorded)
      /\ \A i : CallTaken(i)' => CallTaken(i) \/ i = r.call
      /\ \A i : CallTaken(i) \/ i = r.call => CallTaken(i)'
      /\ \A k, l \in DOMAIN taken'.calls :
           taken'.calls[k].call = taken'.calls[l].call /\ taken'.calls[k].call # 0 => k = l
      /\ \A k \in DOMAIN taken'.calls :
           taken'.calls[k] = r \/ \E l \in DOMAIN taken.calls : taken'.calls[k] = taken.calls[l]
  <2>1. r.call # 0 => ~CallTaken(r.call)
    BY <1>1 DEF CallsApart
  <2>2. \A k, l \in DOMAIN taken.calls :
           taken.calls[k].call = taken.calls[l].call /\ taken.calls[k].call # 0 => k = l
    BY <1>1 DEF CallsApart
  <2> HIDE DEF r
  <2>3. QED
    BY <1>1, <1>3, <1>5, <2>1, <2>2, TakenOnce
<1>7. CallsApart'
  <2>1. \A d \in due' : d.call # 0 => ~CallTaken(d.call)'
    BY <1>1, <1>4, <1>6 DEF CallsApart
  <2>2. \A b, d \in due' : b.call = d.call => b = d
    BY <1>1, <1>4 DEF CallsApart
  <2>3. QED
    BY <1>6, <2>1, <2>2 DEF CallsApart
<1>8. \A i : HandedOn(i)' <=> HandedOn(i)
  BY <1>4, <1>6 DEF HandedOn
<1>9. AdapterShape'
  <2>1. taken' \in [pending : [Keys -> Pending], calls : Seq(Recorded)]
    BY <1>1, <1>4, <1>5, <1>6 DEF AdapterShape
  <2>2. QED
    BY <1>1, <1>4, <2>1 DEF AdapterShape, AnswerShape
<1>10. /\ Called' = Called /\ Gathers'
       /\ \A d : WholeChunk(d)' <=> WholeChunk(d)
       /\ \A d : WholeCall(d)' <=> WholeCall(d)
  BY <1>4 DEF Called, Gathers, WholeChunk, WholeCall, Excused, Spoiled
<1>11. GatheredWhole'
  <2>1. \A k \in DOMAIN taken'.calls :
          taken'.calls[k].call \in Called /\ WholeCall(taken'.calls[k])
    BY <1>1, <1>2, <1>6 DEF GatheredWhole
  <2>2. QED
    BY <1>1, <1>4, <1>5, <1>8, <1>10, <2>1 DEF GatheredWhole
<1>12. adapter.wire = "delta" => DeltaHeld' /\ InOrder' /\ TidyRead'
  <2>1. adapter.wire = "delta" => DeltaHeld'
    BY <1>4, <1>8 DEF AdapterIInv, DeltaHeld, Deltas, PiecesOf
  <2>2. adapter.wire = "delta" => InOrder' /\ TidyRead'
    BY <1>4, <1>8 DEF AdapterIInv, InOrder, TidyRead, Half
  <2>3. QED
    BY <2>1, <2>2
<1>13. adapter.wire = "whole" => PartsHanded'
  BY <1>4, <1>8 DEF AdapterIInv, PartsHanded
<1>14. adapter.wire = "block" /\ adapter.holds => BlocksHeld'
  BY <1>4, <1>8 DEF AdapterIInv, BlocksHeld
<1>15. QED
  BY <1>4, <1>7, <1>9, <1>10, <1>11, <1>12, <1>13, <1>14 DEF AdapterIInv, Gathers

LEMMA LinkStep ==
  ASSUME AdapterIInv, ResponseOk \/ AskUncapped \/ StreamThrows
  PROVE  AdapterIInv'
<1>1. /\ UNCHANGED <<adapter, answer, sent, held, due, taken, reading, mixed, untidy, said>>
      /\ link \in [phase : {"asked", "open", "closed", "cut", "threw"}, again : BOOLEAN,
                   finish : Reasons]
  BY DEF AdapterIInv, AdapterShape, ResponseOk, AskUncapped, StreamThrows
<1>2. /\ link' \in [phase : {"asked", "open", "closed", "cut", "threw"}, again : BOOLEAN,
                    finish : Reasons]
      /\ link'.finish = link.finish
      /\ link.phase \in {"asked", "open"} /\ link'.phase \in {"asked", "open", "threw"}
      /\ link.phase = "asked" \/ due = {}
      /\ link.phase = "open" => link'.phase # "asked"
  BY <1>1 DEF ResponseOk, AskUncapped, StreamThrows, Open
<1>3. AdapterShape'
  BY <1>1, <1>2 DEF AdapterIInv, AdapterShape, AnswerShape
<1>4. \A i : HandedOn(i)' <=> HandedOn(i)
  BY <1>1 DEF HandedOn, CallTaken
<1>5. \A i : CallTaken(i)' <=> CallTaken(i)
  BY <1>1 DEF CallTaken
<1>6. CallsApart'
  BY <1>1, <1>5 DEF AdapterIInv, CallsApart
<1>7. Gathers' => Gathers
  BY <1>1 DEF Gathers
<1>8. Called' = Called
  BY <1>1 DEF Called
<1>9. /\ \A c : WholeChunk(c)' <=> WholeChunk(c)
      /\ \A c : WholeCall(c)' <=> WholeCall(c)
  BY <1>1, <1>2 DEF WholeChunk, WholeCall, Excused, Spoiled
<1>10. Gathers => GatheredWhole'
  BY <1>1, <1>2, <1>4, <1>8, <1>9 DEF AdapterIInv, GatheredWhole
<1>11. adapter.wire = "delta" => DeltaHeld' /\ InOrder' /\ TidyRead'
  <2>1. adapter.wire = "delta" => DeltaHeld'
    BY <1>1, <1>2, <1>4 DEF AdapterIInv, DeltaHeld, Deltas, PiecesOf
  <2>2. adapter.wire = "delta" => InOrder' /\ TidyRead'
    BY <1>1, <1>4 DEF AdapterIInv, InOrder, TidyRead, Half
  <2>3. QED
    BY <2>1, <2>2
<1>12. adapter.wire = "whole" => PartsHanded'
  BY <1>1, <1>4 DEF AdapterIInv, PartsHanded
<1>13. adapter.wire = "block" /\ adapter.holds => BlocksHeld'
  BY <1>1, <1>2, <1>4 DEF AdapterIInv, BlocksHeld
<1>14. ASSUME adapter.wire = "block", ~adapter.holds PROVE BlocksPassed'
  <2>1. BlocksPassed
    BY <1>14 DEF AdapterIInv
  <2>2. \A i \in Blocks : BlockPassed(i) => BlockPassed(i)'
    BY <1>1, <1>2, <1>5 DEF BlockPassed, EventChunk, PendingAfter, StopChunk, PieceForm, Key, Partial
  <2>3. due # {} => link'.phase = "open"
    BY <1>2, <2>1 DEF BlocksPassed
  <2>4. \A i, n : EventChunk(i, n)' = EventChunk(i, n) /\ StopChunk(i)' = StopChunk(i)
                  /\ Key(i)' = Key(i)
    BY <1>1 DEF EventChunk, StopChunk, PieceForm, Key, Partial
  <2>5. QED
    BY <1>1, <1>2, <1>5, <1>8, <2>1, <2>2, <2>3, <2>4 DEF BlocksPassed
<1>15. QED
  BY <1>1, <1>3, <1>6, <1>7, <1>10, <1>11, <1>12, <1>13, <1>14 DEF AdapterIInv

(* What a flush hands on: each call the adapter knows, once.               *)
LEMMA FlushFacts ==
  ASSUME answer \in [Blocks -> [kind : {"text", "call", "inline"}, size : Nat]],
         NEW h \in [Blocks -> HeldRecord]
  PROVE  /\ Flush(h) \subseteq Chunk
         /\ \A c \in Flush(h) :
              /\ c.done /\ c.call \in Blocks /\ h[c.call].known /\ c.n = h[c.call].n
              /\ \/ c.form = "nameless" /\ ~h[c.call].named
                 \/ c.form = "object" /\ h[c.call].n = answer[c.call].size /\ h[c.call].n > 0
                 \/ c.form = "raw" /\ (h[c.call].n # answer[c.call].size \/ h[c.call].n = 0)
         /\ \A c, d \in Flush(h) : c.call = d.call => c = d
         /\ \A i \in Blocks : h[i].known => \E c \in Flush(h) : c.call = i
<1> DEFINE F(i) == [key |-> i, call |-> i, n |-> h[i].n, done |-> TRUE,
                    form |-> IF ~h[i].named THEN "nameless"
                             ELSE IF h[i].n = answer[i].size /\ h[i].n > 0 THEN "object" ELSE "raw"]
           K == {b \in Blocks : h[b].known}
<1>1. Flush(h) = {F(i) : i \in K}
  BY DEF Flush
<1>2. \A i \in K : F(i) \in Chunk /\ F(i).call = i
  BY AnswerAssumption DEF Chunk, Keys, Blocks, Forms, HeldRecord
<1>3. ASSUME NEW i \in K
      PROVE  /\ F(i).done /\ F(i).call \in Blocks /\ h[F(i).call].known
             /\ F(i).n = h[F(i).call].n
             /\ \/ F(i).form = "nameless" /\ ~h[F(i).call].named
                \/ F(i).form = "object" /\ h[F(i).call].n = answer[F(i).call].size /\ h[F(i).call].n > 0
                \/ F(i).form = "raw" /\ (h[F(i).call].n # answer[F(i).call].size \/ h[F(i).call].n = 0)
  BY <1>3 DEF HeldRecord
<1> HIDE DEF F
<1>4. QED
  BY <1>1, <1>2, <1>3

(* An event: what it makes due is handed on beside what was taken before.  *)
LEMMA EventFacts ==
  ASSUME due = {}, UNCHANGED taken
  PROVE  /\ \A i : CallTaken(i)' <=> CallTaken(i)
         /\ \A i : CallTaken(i) <=> HandedOn(i)
         /\ \A i : HandedOn(i)' <=> (\E c \in due' : c.call = i) \/ CallTaken(i)
<1>1. \A i : CallTaken(i)' <=> CallTaken(i)
  BY DEF CallTaken
<1>2. QED
  BY <1>1 DEF HandedOn

(* The deltas of a call, and of one written into the text.                 *)
LEMMA LengthFacts ==
  ASSUME answer \in [Blocks -> [kind : {"text", "call", "inline"}, size : Nat]]
  PROVE  /\ \A i \in Blocks : answer[i].kind = "call" => Length(i) = Deltas(i)
         /\ \A i \in Blocks : answer[i].kind = "inline" => Length(i) = 2
         /\ \A i : i \in Unsent("call") <=>
              i \in Blocks /\ answer[i].kind = "call" /\ sent[i] < Deltas(i)
         /\ \A i : i \in Unsent("inline") <=>
              i \in Blocks /\ answer[i].kind = "inline" /\ sent[i] < 2
<1>1. ASSUME NEW i \in Blocks, answer[i].kind = "call" PROVE Length(i) = Deltas(i)
  BY <1>1 DEF Length, Deltas
<1>2. ASSUME NEW i \in Blocks, answer[i].kind = "inline" PROVE Length(i) = 2
  BY <1>2 DEF Length
<1>3. QED
  BY <1>1, <1>2 DEF Unsent

LEMMA ToolDeltaStep ==
  ASSUME AdapterIInv, NEW cs \in SUBSET Blocks, NEW reason \in Reasons, ToolDelta(cs, reason)
  PROVE  AdapterIInv'
<1> DEFINE h == [i \in Blocks |->
                   IF i \in cs THEN [known |-> TRUE, named |-> held[i].named \/ sent[i] = 0,
                                     n |-> held[i].n + Piece(i)]
                   ELSE held[i]]
<1>1. /\ link.phase = "open" /\ due = {} /\ adapter.wire = "delta" /\ link.finish = "none"
      /\ cs \subseteq Unsent("call")
      /\ reason # "none" => Unsent("call") = cs /\ \A i \in cs : sent[i] + 1 = Length(i)
      /\ sent' = [i \in Blocks |-> IF i \in cs THEN sent[i] + 1 ELSE sent[i]]
      /\ link' = [link EXCEPT !.finish = reason]
      /\ UNCHANGED <<adapter, answer, taken, reading, mixed, untidy, said>>
  BY DEF ToolDelta, Open
<1>2. \/ reason = "calls" /\ due' = Flush(h) /\ held' = Nothing
      \/ reason # "calls" /\ due' = {} /\ held' = h
  BY <1>1 DEF ToolDelta
<1>3. /\ AdapterShape /\ AnswerShape /\ CallsApart /\ Gathers /\ GatheredWhole /\ DeltaHeld
      /\ InOrder /\ TidyRead
      /\ answer \in [Blocks -> [kind : {"text", "call", "inline"}, size : Nat]]
      /\ held \in [Blocks -> HeldRecord] /\ sent \in [Blocks -> Nat]
  BY <1>1 DEF AdapterIInv, AdapterShape, AnswerShape, Gathers
<1>4. h \in [Blocks -> HeldRecord] /\ sent' \in [Blocks -> Nat]
  <2>1. \A i \in Blocks : Piece(i) \in Nat
    BY DEF Piece
  <2>2. ASSUME NEW i \in Blocks PROVE h[i] \in HeldRecord
    <3>1. held[i] \in HeldRecord
      BY <1>3
    <3>2. held[i].named \in BOOLEAN /\ held[i].n \in Nat
      BY <3>1 DEF HeldRecord
    <3>3. (held[i].named \/ sent[i] = 0) \in BOOLEAN /\ held[i].n + Piece(i) \in Nat
      BY <2>1, <3>2
    <3>4. QED
      BY <3>1, <3>3 DEF HeldRecord
  <2>3. sent' \in [Blocks -> Nat]
    BY <1>1, <1>3
  <2>4. QED
    BY <2>2, <2>3
<1>5. \A i \in Blocks : /\ h[i].known <=> i \in cs \/ held[i].known
                        /\ h[i].named <=> held[i].named \/ (i \in cs /\ sent[i] = 0)
                        /\ h[i].n = IF i \in cs THEN held[i].n + Piece(i) ELSE held[i].n
                        /\ sent'[i] = IF i \in cs THEN sent[i] + 1 ELSE sent[i]
  BY <1>1, <1>3 DEF HeldRecord
<1> HIDE DEF h
<1>6. /\ \A i \in cs : i \in Blocks /\ answer[i].kind = "call" /\ sent[i] < Deltas(i)
      /\ \A i \in Blocks \ cs : reason # "none" /\ answer[i].kind = "call" => ~(sent[i] < Deltas(i))
      /\ \A i \in cs : reason # "none" => sent[i] + 1 = Deltas(i)
  BY <1>1, <1>3, LengthFacts
<1>7. /\ \A i : CallTaken(i)' <=> CallTaken(i)
      /\ \A i : CallTaken(i) <=> HandedOn(i)
      /\ \A i : HandedOn(i)' <=> (\E c \in due' : c.call = i) \/ CallTaken(i)
  BY <1>1, EventFacts
<1>8. \A i \in Blocks : answer[i].kind = "call" => ~HandedOn(i)
  BY <1>1, <1>3 DEF DeltaHeld
<1>9. \A i \in Blocks : h[i].known => answer[i].kind = "call" /\ ~CallTaken(i)
  BY <1>3, <1>5, <1>6, <1>7, <1>8 DEF GatheredWhole
<1>10. /\ Flush(h) \subseteq Chunk
       /\ \A c \in Flush(h) :
            /\ c.done /\ c.call \in Blocks /\ h[c.call].known /\ c.n = h[c.call].n
            /\ \/ c.form = "nameless" /\ ~h[c.call].named
               \/ c.form = "object" /\ h[c.call].n = answer[c.call].size /\ h[c.call].n > 0
               \/ c.form = "raw" /\ (h[c.call].n # answer[c.call].size \/ h[c.call].n = 0)
       /\ \A c, d \in Flush(h) : c.call = d.call => c = d
       /\ \A i \in Blocks : h[i].known => \E c \in Flush(h) : c.call = i
  BY <1>3, <1>4, FlushFacts
<1>11. /\ link' \in [phase : {"asked", "open", "closed", "cut", "threw"}, again : BOOLEAN,
                     finish : Reasons]
       /\ link'.phase = "open" /\ link'.finish = reason
  BY <1>1, <1>3 DEF AdapterShape
<1>12. Nothing \in [Blocks -> HeldRecord] /\ \A i \in Blocks : ~Nothing[i].known
  BY DEF Nothing, NotHeld, HeldRecord
<1>13. AdapterShape'
  BY <1>1, <1>2, <1>3, <1>4, <1>10, <1>11, <1>12 DEF AdapterShape, AnswerShape
<1>14. CallsApart'
  BY <1>1, <1>2, <1>3, <1>7, <1>9, <1>10 DEF CallsApart
<1>15. /\ Called' = Called /\ Gathers' /\ \A i \in Blocks : answer[i].kind = "call" => i \in Called
       /\ \A r : WholeCall(r)' <=> WholeCall(r)
       /\ \A i : /\ Spoiled(i)' <=> Spoiled(i)
                 /\ Deltas(i)' = Deltas(i) /\ \A n : PiecesOf(i, n)' = PiecesOf(i, n)
  BY <1>1, <1>3, <1>11 DEF Called, Gathers, WholeCall, Excused, Spoiled, Deltas, PiecesOf
<1>16. ASSUME ~mixed, NEW i \in Blocks, answer[i].kind = "call"
       PROVE  /\ h[i].n = PiecesOf(i, sent'[i]) /\ (h[i].known <=> sent'[i] > 0)
              /\ h[i].known => h[i].named
              /\ reason # "none" => sent'[i] = Deltas(i) /\ h[i].known
  <2>1. /\ held[i].n = PiecesOf(i, sent[i]) /\ (held[i].known <=> sent[i] > 0)
        /\ held[i].known => held[i].named
        /\ sent[i] <= Deltas(i) /\ sent[i] \in Nat /\ answer[i].size \in Nat
    BY <1>1, <1>3, <1>16 DEF DeltaHeld
  <2>2. Deltas(i) \in Nat \ {0}
    BY <2>1 DEF Deltas
  <2>3. CASE i \in cs
    <3>1. sent'[i] = sent[i] + 1 /\ h[i].known /\ h[i].named /\ h[i].n = held[i].n + Piece(i)
      BY <1>5, <2>1, <2>3
    <3>2. PiecesOf(i, sent[i]) + Piece(i) = PiecesOf(i, sent[i] + 1)
      BY <2>1 DEF PiecesOf, Piece
    <3>3. QED
      BY <1>6, <2>1, <2>3, <3>1, <3>2
  <2>4. CASE i \notin cs
    BY <1>5, <1>6, <1>16, <2>1, <2>2, <2>4
  <2>5. QED
    BY <2>3, <2>4
<1>17. \A c \in due' : c.done /\ c.call \in Called' /\ WholeChunk(c)'
  <2> SUFFICES ASSUME NEW c \in due' PROVE c.done /\ c.call \in Called' /\ WholeChunk(c)'
    OBVIOUS
  <2>1. reason = "calls" /\ c \in Flush(h)
    BY <1>2
  <2>2. /\ c.done /\ c.call \in Blocks /\ h[c.call].known /\ c.n = h[c.call].n
        /\ \/ c.form = "nameless" /\ ~h[c.call].named
           \/ c.form = "object" /\ h[c.call].n = answer[c.call].size /\ h[c.call].n > 0
           \/ c.form = "raw" /\ (h[c.call].n # answer[c.call].size \/ h[c.call].n = 0)
    BY <1>10, <2>1
  <2>3. answer[c.call].kind = "call"
    BY <1>9, <2>2
  <2>4. ~mixed => h[c.call].named /\ h[c.call].n = PiecesOf(c.call, Deltas(c.call))
    BY <1>16, <2>1, <2>2, <2>3
  <2>5. PiecesOf(c.call, Deltas(c.call)) = answer[c.call].size
        /\ (Spoiled(c.call) <=> answer[c.call].size = 0)
    BY <1>1, <2>3 DEF PiecesOf, Deltas, Spoiled
  <2>6. h[c.call].n \in Nat /\ answer[c.call].size \in Nat
    BY <1>3, <1>4, <2>2 DEF HeldRecord
  <2>7. WholeChunk(c)
    <3>1. CASE c.form = "nameless"
      BY <2>2, <2>4, <3>1 DEF WholeChunk
    <3>2. CASE c.form = "object"
      BY <2>2, <2>5, <2>6, <3>2 DEF WholeChunk
    <3>3. CASE c.form = "raw"
      BY <2>2, <2>4, <2>5, <2>6, <3>3 DEF WholeChunk, Excused
    <3>4. QED
      BY <2>2, <3>1, <3>2, <3>3
  <2>8. WholeChunk(c)' <=> WholeChunk(c)
    BY <1>1, <1>11 DEF WholeChunk, Excused, Spoiled
  <2>9. QED
    BY <1>15, <2>2, <2>3, <2>7, <2>8
<1>18. GatheredWhole'
  <2>1. \A i \in Blocks : held'[i].known => answer[i].kind = "call" /\ ~HandedOn(i)'
    BY <1>2, <1>7, <1>9, <1>12
  <2>2. \A k \in DOMAIN taken.calls : taken.calls[k].call \in Called /\ WholeCall(taken.calls[k])'
    BY <1>1, <1>3, <1>15 DEF GatheredWhole
  <2>3. \A k \in Keys : taken.pending[k] = NoEntry
    BY <1>3 DEF GatheredWhole
  <2>4. QED
    BY <1>1, <1>11, <1>15, <1>17, <2>1, <2>2, <2>3 DEF GatheredWhole
<1>19. DeltaHeld'
  <2>1. reason = "calls" => \A i \in Blocks : ~held'[i].known
    BY <1>2, <1>12
  <2>2. ASSUME NEW i \in Blocks, answer[i].kind = "call"
        PROVE  /\ sent'[i] <= Deltas(i)
               /\ HandedOn(i)' => reason = "calls"
               /\ ~mixed /\ reason # "calls" =>
                    /\ held'[i].n = PiecesOf(i, sent'[i]) /\ (held'[i].known <=> sent'[i] > 0)
                    /\ held'[i].known => held'[i].named
               /\ ~mixed /\ reason = "calls" => HandedOn(i)'
    <3>1. sent'[i] <= Deltas(i)
      <4>1. Deltas(i) \in Nat /\ sent[i] \in Nat /\ sent[i] <= Deltas(i)
        BY <1>3, <2>2 DEF DeltaHeld, Deltas
      <4>2. QED
        BY <1>5, <1>6, <4>1
    <3>2. HandedOn(i)' => reason = "calls"
      BY <1>2, <1>7, <1>8, <2>2
    <3>3. ~mixed /\ reason # "calls" =>
            /\ held'[i].n = PiecesOf(i, sent'[i]) /\ (held'[i].known <=> sent'[i] > 0)
            /\ held'[i].known => held'[i].named
      BY <1>2, <1>16, <2>2
    <3>4. ~mixed /\ reason = "calls" => HandedOn(i)'
      BY <1>2, <1>7, <1>10, <1>16, <2>2
    <3>5. QED
      BY <3>1, <3>2, <3>3, <3>4
  <2>3. QED
    BY <1>1, <1>11, <1>15, <2>1, <2>2 DEF DeltaHeld
<1>20. InOrder' /\ TidyRead'
  <2>1. ASSUME NEW i \in Blocks, answer[i].kind = "inline"
        PROVE  sent'[i] = sent[i] /\ (HandedOn(i)' <=> HandedOn(i)) /\ (Half(i)' <=> Half(i))
    <3>1. sent'[i] = sent[i]
      BY <1>5, <1>6, <2>1
    <3>2. ~ \E c \in due' : c.call = i
      BY <1>2, <1>9, <1>10, <2>1
    <3>3. QED
      BY <1>1, <1>7, <3>1, <3>2 DEF Half
  <2>2. \A i \in Blocks : Half(i)' <=> Half(i)
    BY <1>1, <2>1 DEF Half
  <2>3. InOrder'
    <3>1. \A i \in Blocks : answer[i].kind = "inline" =>
            sent'[i] <= 2 /\ (HandedOn(i)' => sent'[i] = 2 /\ adapter.inline)
      BY <1>3, <2>1 DEF InOrder
    <3>2. ASSUME NEW i \in Blocks, NEW j \in Blocks, answer[i].kind = "inline",
                 answer[j].kind = "inline", i < j, sent'[j] > 0
          PROVE  sent'[i] = 2
      BY <1>3, <2>1, <3>2 DEF InOrder
    <3>3. answer' = answer /\ adapter' = adapter
      BY <1>1
    <3> HIDE DEF HandedOn
    <3>4. QED
      BY <3>1, <3>2, <3>3 DEF InOrder
  <2>4. (\E i \in Blocks : Half(i)') <=> \E i \in Blocks : Half(i)
    BY <2>2
  <2>5. TidyRead'
    BY <1>1, <1>3, <2>1, <2>4 DEF TidyRead
  <2>6. QED
    BY <2>3, <2>5
<1>21. QED
  BY <1>1, <1>13, <1>14, <1>15, <1>18, <1>19, <1>20 DEF AdapterIInv, Gathers

(* While reasoning is tidy no delta with the text of a call is hidden from *)
(* the parser, and no tag is waited for.                                   *)
LEMMA TidyFeeds ==
  ASSUME NEW m \in Marks, NEW o \in PassedOn(m), NEW spoken \in BOOLEAN, Tidy(m, spoken),
         reading.think = said, said \in {"fresh", "text", "in"}
  PROVE  o.think = Said(m) /\ (spoken => ~o.hidden)
<1>1. /\ Plain.way = "fed" /\ Plain.first = "none" /\ ~Plain.closing /\ ~Plain.last
      /\ Opening.way = "fed" /\ Opening.first = "open" /\ ~Opening.closing /\ ~Opening.last
  BY DEF Plain, Opening
<1>2. m.last => m.closing
  <2>1. CASE m \in {q \in Tagged : q.last \/ q.first = "close" => q.closing}
    BY <2>1
  <2>2. CASE m \in {[Plain EXCEPT !.amid = TRUE], [Plain EXCEPT !.way = "beside"],
                    [Plain EXCEPT !.way = "none"]}
    BY <2>2 DEF Plain
  <2>3. QED
    BY <2>1, <2>2 DEF Marks
<1>3. CASE m = Plain
  <2>1. o \in FeedText(m) /\ (reading.think = "in" => ~spoken) /\ m # Opening
    BY <1>1, <1>3 DEF PassedOn, Tidy
  <2>2. reading.think = "in" => o.think = "in"
    BY <1>1, <1>3, <2>1 DEF FeedText
  <2>3. reading.think # "in" => o.think = "text" /\ ~o.hidden
    BY <1>1, <1>3, <2>1 DEF FeedText
  <2>4. Said(m) = IF said = "fresh" THEN "text" ELSE said
    BY <1>1, <1>3, <2>1 DEF Said
  <2>5. QED
    BY <2>1, <2>2, <2>3, <2>4
<1>4. CASE m = Opening
  <2>1. m # Plain
    BY <1>1, <1>4
  <2>2. o \in FeedText(m) /\ reading.think = "fresh" /\ ~spoken
    BY <1>1, <1>4, <2>1 DEF PassedOn, Tidy
  <2>3. o.think = "in"
    BY <1>1, <1>4, <2>2 DEF FeedText
  <2>4. QED
    BY <1>4, <2>2, <2>3 DEF Said
<1>5. CASE m.way = "fed" /\ m.last /\ m.first # "open" /\ said = "in" /\ ~spoken
  <2>1. o \in FeedText(m)
    BY <1>5 DEF PassedOn
  <2>2. o.think = "fresh"
    BY <1>2, <1>5, <2>1 DEF FeedText
  <2>3. Said(m) = "fresh"
    BY <1>1, <1>5 DEF Said
  <2>4. QED
    BY <1>5, <2>2, <2>3
<1>6. CASE m.way \in {"beside", "none"} /\ (m.way = "beside" => ~spoken)
  <2>1. o = [think |-> reading.think, hidden |-> m.way = "beside"]
    BY <1>6 DEF PassedOn
  <2>2. Said(m) = said
    BY <1>1, <1>6 DEF Said
  <2>3. QED
    BY <1>6, <2>1, <2>2
<1>7. QED
  BY <1>3, <1>4, <1>5, <1>6 DEF Tidy

(* The deltas of content leave the calls of the text in order, with one of *)
(* them half sent at most: the one just begun, or that of before.          *)
LEMMA TextOrder ==
  ASSUME InOrder, sent \in [Blocks -> Nat], NEW upto \in Nat, NEW begins \in BOOLEAN,
         answer \in [Blocks -> [kind : {"text", "call", "inline"}, size : Nat]],
         answer' = answer,
         \A i \in Blocks : answer[i].kind = "inline" =>
           sent'[i] = IF i \in ClosedBy(upto) THEN 2
                      ELSE IF i \in BegunBy(upto, begins) THEN 1 ELSE sent[i]
  PROVE  /\ \A i, j \in Blocks : answer[i].kind = "inline" /\ answer[j].kind = "inline"
                                 /\ i < j /\ sent'[j] > 0 => sent'[i] = 2
         /\ \A i \in BegunBy(upto, begins) : Half(i)'
         /\ \A i \in Blocks : Half(i)' =>
              \/ i \in BegunBy(upto, begins)
              \/ Half(i) /\ ClosedBy(upto) = {} /\ BegunBy(upto, begins) = {}
         /\ \A i \in Blocks :
              Half(i) /\ ClosedBy(upto) = {} /\ BegunBy(upto, begins) = {} => Half(i)'
<1> DEFINE U == Unsent("inline")
           closed == ClosedBy(upto)
           begun == BegunBy(upto, begins)
<1>7. /\ \A i : i \in U <=> i \in Blocks /\ answer[i].kind = "inline" /\ sent[i] < 2
      /\ closed = {i \in U : i <= upto}
      /\ \A i \in begun : i \in U \ closed /\ sent[i] = 0 /\ \A j \in U \ closed : i <= j
  BY LengthFacts DEF ClosedBy, BegunBy
<1>8. \A i \in Blocks : answer[i].kind = "inline" =>
        sent'[i] = IF i \in closed THEN 2 ELSE IF i \in begun THEN 1 ELSE sent[i]
  OBVIOUS
<1> HIDE DEF U, closed, begun
<1>1. Blocks \subseteq Nat
  BY AnswerAssumption DEF Blocks
<1>2. ASSUME NEW i \in Blocks, NEW j \in Blocks, answer[i].kind = "inline",
             answer[j].kind = "inline", i < j, sent'[j] > 0
      PROVE  sent'[i] = 2
  <2>1. i \in Nat /\ j \in Nat /\ sent[i] \in Nat /\ sent[j] \in Nat /\ sent[i] <= 2
    BY <1>1, <1>2, <1>7, <1>8 DEF InOrder
  <2>2. sent[i] = 2 => sent'[i] = 2
    BY <1>2, <2>1, <1>7, <1>8
  <2>3. i \in U => sent'[i] = 2
    <3>1. CASE j \in closed
      BY <1>2, <2>1, <3>1, <1>7, <1>8
    <3>2. CASE j \in begun
      BY <1>2, <2>1, <3>2, <1>7, <1>8
    <3>3. CASE j \notin closed /\ j \notin begun
      <4>1. sent[j] > 0
        BY <1>2, <3>3, <1>7, <1>8
      <4>2. sent[i] = 2
        BY <1>2, <4>1, <1>7, <1>8 DEF InOrder
      <4>3. QED
        BY <2>2, <4>2, <1>7, <1>8
    <3>4. QED
      BY <3>1, <3>2, <3>3, <1>7, <1>8
  <2>4. QED
    BY <1>2, <2>1, <2>2, <2>3, <1>7, <1>8
<1>3. ASSUME NEW i \in begun PROVE Half(i)'
  BY <1>3, <1>7, <1>8 DEF Half
<1>4. ASSUME NEW i \in Blocks, Half(i)', i \notin begun
      PROVE  Half(i) /\ closed = {} /\ begun = {}
  <2>1. answer[i].kind = "inline" /\ sent'[i] = 1 /\ i \notin closed /\ sent[i] = 1 /\ i \in U
    BY <1>4, <1>7, <1>8 DEF Half
  <2>2. \A j \in U : ~(j < i)
    BY <2>1, <1>7, <1>8 DEF InOrder
  <2>3. \A j \in closed : FALSE
    BY <1>1, <2>1, <2>2, <1>7, <1>8
  <2>4. ASSUME NEW j \in begun PROVE FALSE
    <3>1. j \in U /\ sent[j] = 0 /\ j <= i
      BY <2>1, <2>4, <1>7, <1>8
    <3>2. j \in Nat /\ i \in Nat
      BY <1>1, <1>4, <3>1, <1>7, <1>8
    <3>3. QED
      BY <2>1, <2>2, <3>1, <3>2, <1>7, <1>8
  <2>5. QED
    BY <2>1, <2>3, <2>4, <1>7, <1>8 DEF Half
<1>5. ASSUME NEW i \in Blocks, Half(i), closed = {}, begun = {} PROVE Half(i)'
  BY <1>5, <1>7, <1>8 DEF Half
<1>6. QED
  BY <1>2, <1>3, <1>4, <1>5 DEF closed, begun

(* What the parser makes of the calls a delta closed: each is handed on at *)
(* most once, as what it is or, if it was torn, as another.                *)
LEMMA TextChunks ==
  ASSUME NEW whole \in SUBSET Blocks, NEW altered \in SUBSET Blocks, whole \cap altered = {}
  PROVE  /\ ParsedChunks(whole, altered) \subseteq Chunk
         /\ \A c \in ParsedChunks(whole, altered) :
              /\ c.done /\ c.call \in whole \cup altered
              /\ c.form = IF c.call \in whole THEN "object" ELSE "raw"
         /\ \A c, d \in ParsedChunks(whole, altered) : c.call = d.call => c = d
         /\ \A i \in whole \cup altered : \E c \in ParsedChunks(whole, altered) : c.call = i
<1> DEFINE emitted == Cardinality(Inlined \cup whole \cup altered)
           chunks == ParsedChunks(whole, altered)
<1>1. emitted \in 0..MaxBlocks
  <2>1. IsFiniteSet(Blocks) /\ Cardinality(Blocks) = MaxBlocks
    BY FS_Interval, AnswerAssumption DEF Blocks
  <2>2. Inlined \cup whole \cup altered \subseteq Blocks
    BY DEF Inlined
  <2>3. IsFiniteSet(Inlined \cup whole \cup altered) /\ emitted <= MaxBlocks
    BY <2>1, <2>2, FS_Subset
  <2>4. emitted \in Nat
    BY <2>3, FS_CardinalityType
  <2>5. QED
    BY <2>3, <2>4, AnswerAssumption
<1> DEFINE F(i) == InlineChunk(i, emitted, "object")
           G(i) == InlineChunk(i, emitted, "raw")
<1>2. \A i \in Blocks : /\ F(i) \in Chunk /\ F(i).call = i /\ F(i).done /\ F(i).form = "object"
                        /\ G(i) \in Chunk /\ G(i).call = i /\ G(i).done /\ G(i).form = "raw"
  BY <1>1, AnswerAssumption DEF InlineChunk, Chunk, Keys, Blocks, Forms
<1>3. chunks = {F(i) : i \in whole} \cup {G(i) : i \in altered}
  BY DEF ParsedChunks
<1> HIDE DEF F, G, chunks
<1>4. \A c \in chunks : (\E i \in whole : c = F(i)) \/ (\E i \in altered : c = G(i))
  BY <1>3
<1>5. ASSUME NEW c \in chunks
      PROVE  /\ c \in Chunk /\ c.done /\ c.call \in whole \cup altered
             /\ c.call \in whole => c.form = "object" /\ c = F(c.call)
             /\ c.call \notin whole => c.form = "raw" /\ c = G(c.call)
  <2>1. ASSUME NEW i \in whole, c = F(i)
        PROVE  c.call = i /\ c \in Chunk /\ c.done /\ c.form = "object"
    BY <1>2, <2>1
  <2>2. ASSUME NEW i \in altered, c = G(i)
        PROVE  c.call = i /\ i \notin whole /\ c \in Chunk /\ c.done /\ c.form = "raw"
    BY <1>2, <2>2
  <2>3. CASE \E i \in whole : c = F(i)
    BY <2>1, <2>3
  <2>4. CASE \E i \in altered : c = G(i)
    BY <2>2, <2>4
  <2>5. QED
    BY <1>4, <2>3, <2>4
<1>6. \A i \in whole \cup altered : \E c \in chunks : c.call = i
  BY <1>2, <1>3
<1>7. ASSUME NEW c \in chunks, NEW d \in chunks, c.call = d.call PROVE c = d
  BY <1>5, <1>7
<1>8. chunks \subseteq Chunk
  BY <1>5
<1>9. QED
  BY <1>5, <1>6, <1>7, <1>8 DEF chunks

LEMMA ContentDeltaStep ==
  ASSUME AdapterIInv, NEW m \in IF Watched THEN Marks ELSE {Plain}, NEW upto \in Nat,
         NEW begins \in BOOLEAN, NEW cs \in SUBSET Blocks, NEW reason \in Reasons,
         ContentDelta(m, upto, begins, cs, reason)
  PROVE  AdapterIInv'
<1> DEFINE U == Unsent("inline")
           closed == ClosedBy(upto)
           begun == BegunBy(upto, begins)
           spoken == closed \cup begun # {} \/ \E i \in U : sent[i] > 0
<1>1. /\ link.phase = "open" /\ due = {} /\ adapter.wire = "delta" /\ link.finish = "none"
      /\ cs \subseteq Unsent("call")
      /\ m.way = "none" => closed \cup begun = {}
      /\ sent' = [i \in Blocks |-> IF i \in closed THEN 2
                                   ELSE IF i \in begun \cup cs THEN sent[i] + 1 ELSE sent[i]]
      /\ mixed' = (mixed \/ cs # {})
      /\ link' = [link EXCEPT !.finish = IF reason = "none" THEN "none" ELSE "other"]
      /\ UNCHANGED <<adapter, answer, held, taken>>
  BY DEF ContentDelta, Open, ClosedBy, BegunBy
<1>2. ~Watched => due' = {} /\ UNCHANGED <<reading, untidy, said>>
  BY DEF ContentDelta
<1>3. ASSUME Watched
      PROVE  \E o \in PassedOn(m) :
               \E altered \in SUBSET (IF o.hidden THEN {} ELSE Altered(closed)) :
                 /\ due' = ParsedChunks(IF o.hidden THEN {} ELSE Parsed(closed), altered)
                 /\ reading' = [think |-> o.think, parse |-> ParseNext(o.hidden, closed, begun)]
                 /\ untidy' = (untidy \/ ~Tidy(m, spoken))
                 /\ said' = IF untidy' THEN said ELSE Said(m)
  BY <1>3 DEF ContentDelta, ClosedBy, BegunBy, ParsedChunks
<1>4. /\ AdapterShape /\ AnswerShape /\ CallsApart /\ Gathers /\ GatheredWhole /\ DeltaHeld
      /\ InOrder /\ TidyRead
      /\ answer \in [Blocks -> [kind : {"text", "call", "inline"}, size : Nat]]
      /\ sent \in [Blocks -> Nat] /\ mixed \in BOOLEAN /\ untidy \in BOOLEAN
      /\ said \in {"fresh", "text", "in"}
  BY <1>1 DEF AdapterIInv, AdapterShape, AnswerShape, Gathers
<1>5. /\ \A i : i \in U <=> i \in Blocks /\ answer[i].kind = "inline" /\ sent[i] < 2
      /\ \A i \in cs : i \in Blocks /\ answer[i].kind = "call" /\ sent[i] < Deltas(i)
  BY <1>1, <1>4, LengthFacts
<1>6. /\ closed = {i \in U : i <= upto}
      /\ \A i \in begun : i \in U \ closed /\ sent[i] = 0 /\ \A j \in U \ closed : i <= j
      /\ closed \subseteq U /\ begun \subseteq U
      /\ spoken \in BOOLEAN
      /\ spoken <=> closed # {} \/ begun # {} \/ \E i \in U : sent[i] > 0
  BY DEF ClosedBy, BegunBy
<1> HIDE DEF closed, begun, spoken, U
<1>7. /\ \A i \in Blocks : answer[i].kind = "inline" =>
           sent'[i] = IF i \in closed THEN 2 ELSE IF i \in begun THEN 1 ELSE sent[i]
      /\ \A i \in Blocks : answer[i].kind = "call" =>
           sent'[i] = IF i \in cs THEN sent[i] + 1 ELSE sent[i]
      /\ sent' \in [Blocks -> Nat]
  <2>1. \A i \in Blocks : sent'[i] = IF i \in closed THEN 2
                                     ELSE IF i \in begun \cup cs THEN sent[i] + 1 ELSE sent[i]
    BY <1>1
  <2>2. \A i \in Blocks : sent[i] \in Nat
    BY <1>4
  <2>3. \A i \in Blocks : answer[i].kind = "inline" => i \notin cs
    BY <1>5
  <2>4. \A i \in Blocks : answer[i].kind = "call" => i \notin closed /\ i \notin begun
    BY <1>5, <1>6
  <2>5. \A i \in begun : sent[i] = 0
    BY <1>6
  <2>6. sent' \in [Blocks -> Nat]
    BY <1>1, <2>2
  <2>7. QED
    BY <2>1, <2>2, <2>3, <2>4, <2>5, <2>6
<1>8. /\ \A i, j \in Blocks : answer[i].kind = "inline" /\ answer[j].kind = "inline"
                              /\ i < j /\ sent'[j] > 0 => sent'[i] = 2
      /\ \A i \in begun : Half(i)'
      /\ \A i \in Blocks : Half(i)' => i \in begun \/ (Half(i) /\ closed = {} /\ begun = {})
      /\ \A i \in Blocks : Half(i) /\ closed = {} /\ begun = {} => Half(i)'
  <2>1. answer' = answer
    BY <1>1
  <2>2. \A i \in Blocks : answer[i].kind = "inline" =>
          sent'[i] = IF i \in ClosedBy(upto) THEN 2
                     ELSE IF i \in BegunBy(upto, begins) THEN 1 ELSE sent[i]
    BY <1>7 DEF closed, begun
  <2>3. QED
    BY <1>4, <2>1, <2>2, TextOrder DEF closed, begun
<1>9. \E whole, altered : TextHanded(closed, whole, altered)
  <2>1. CASE ~Watched
    <3>1. due' = {} /\ untidy' = untidy /\ said' = said
      BY <1>2, <2>1
    <3>2. TextHanded(closed, {}, {})
      BY <1>4, <2>1, <3>1 DEF TextHanded
    <3>3. QED
      BY <3>2
  <2>2. CASE Watched
    <3>1. PICK o \in PassedOn(m) :
            \E altered \in SUBSET (IF o.hidden THEN {} ELSE Altered(closed)) :
              /\ due' = ParsedChunks(IF o.hidden THEN {} ELSE Parsed(closed), altered)
              /\ reading' = [think |-> o.think, parse |-> ParseNext(o.hidden, closed, begun)]
              /\ untidy' = (untidy \/ ~Tidy(m, spoken))
              /\ said' = IF untidy' THEN said ELSE Said(m)
      BY <1>3, <2>2
    <3>2. PICK altered \in SUBSET (IF o.hidden THEN {} ELSE Altered(closed)) :
            /\ due' = ParsedChunks(IF o.hidden THEN {} ELSE Parsed(closed), altered)
            /\ reading' = [think |-> o.think, parse |-> ParseNext(o.hidden, closed, begun)]
            /\ untidy' = (untidy \/ ~Tidy(m, spoken))
            /\ said' = IF untidy' THEN said ELSE Said(m)
      BY <3>1
    <3> DEFINE whole == IF o.hidden THEN {} ELSE Parsed(closed)
    <3>3. /\ due' = ParsedChunks(whole, altered)
          /\ reading'.think = o.think /\ reading'.parse = ParseNext(o.hidden, closed, begun)
          /\ untidy' <=> untidy \/ ~Tidy(m, spoken)
          /\ untidy' \in BOOLEAN
          /\ said' = IF untidy' THEN said ELSE Said(m)
          /\ said' \in {"fresh", "text", "in"}
      BY <1>4, <3>2 DEF Said
    <3>4. /\ whole \subseteq closed /\ altered \subseteq closed /\ whole \cap altered = {}
          /\ altered # {} => reading.parse = "torn"
      <4>1. Parsed(closed) \subseteq closed /\ Altered(closed) \subseteq closed
        BY DEF Parsed, Altered
      <4>2. \A i \in Altered(closed) : reading.parse = "torn" /\ \A j \in closed : i <= j
        BY DEF Altered
      <4>3. ASSUME NEW i \in Parsed(closed), i \in Altered(closed) PROVE FALSE
        <5>1. reading.parse = "torn"
          BY <4>2, <4>3
        <5>2. \E j \in closed : j < i
          BY <5>1, <4>3 DEF Parsed
        <5>3. closed \subseteq Nat
          BY <1>5, <1>6, AnswerAssumption DEF Blocks
        <5>4. PICK j \in closed : j < i
          BY <5>2
        <5>5. i <= j /\ i \in Nat /\ j \in Nat
          BY <4>1, <4>2, <4>3, <5>3, <5>4
        <5>6. QED
          BY <5>4, <5>5
      <4>4. QED
        BY <4>1, <4>2, <4>3
    <3>5. whole \in SUBSET Blocks /\ altered \in SUBSET Blocks
      BY <1>5, <1>6, <3>4
    <3> HIDE DEF whole
    <3>6. /\ due' \subseteq Chunk
          /\ \A c \in due' : /\ c.done /\ c.call \in whole \cup altered
                             /\ c.form = IF c.call \in whole THEN "object" ELSE "raw"
          /\ \A c, d \in due' : c.call = d.call => c = d
          /\ \A i \in whole \cup altered : \E c \in due' : c.call = i
      BY <3>3, <3>4, <3>5, TextChunks
    <3>7. ASSUME ~untidy, adapter.inline
          PROVE  /\ reading.think = said
                 /\ reading.parse = IF \E i \in Blocks : Half(i) THEN "in" ELSE "out"
      BY <1>4, <3>7 DEF TidyRead
    <3>8. altered # {} => untidy'
      <4>1. adapter.inline
        BY <2>2 DEF Watched
      <4>2. QED
        BY <3>3, <3>4, <3>7, <4>1
    <3>9. ASSUME ~untidy', adapter.inline
          PROVE  /\ whole = closed /\ ~untidy
                 /\ reading'.think = said'
                 /\ reading'.parse = IF \E i \in Blocks : Half(i)' THEN "in" ELSE "out"
      <4>1. ~untidy /\ Tidy(m, spoken)
        BY <3>3, <3>9
      <4>2. m \in Marks
        BY <2>2
      <4>3. o.think = Said(m) /\ (spoken => ~o.hidden)
        BY <1>4, <1>6, <3>7, <3>9, <4>1, <4>2, TidyFeeds
      <4>4. \A i \in Blocks : Half(i) => i \in U /\ sent[i] > 0
        BY <1>5 DEF Half
      <4>5. whole = closed
        <5>1. CASE o.hidden
          BY <1>6, <4>3, <5>1 DEF whole
        <5>2. CASE ~o.hidden
          <6>1. ASSUME NEW i \in closed PROVE i \in Parsed(closed)
            <7>1. i \in Blocks /\ answer[i].kind = "inline" /\ sent[i] < 2 /\ sent[i] \in Nat
              BY <1>4, <1>5, <1>6, <6>1
            <7>2. CASE reading.parse = "in"
              BY <6>1, <7>2 DEF Parsed
            <7>3. CASE reading.parse = "out"
              <8>1. sent[i] # 1
                BY <3>7, <3>9, <4>1, <7>1, <7>3 DEF Half
              <8>2. sent[i] = 0
                BY <7>1, <8>1
              <8>3. QED
                BY <6>1, <7>3, <8>2 DEF Parsed
            <7>4. QED
              BY <3>7, <3>9, <4>1, <7>2, <7>3
          <6>2. QED
            BY <3>4, <5>2, <6>1 DEF whole
        <5>3. QED
          BY <5>1, <5>2
      <4>6. reading'.parse = IF \E i \in Blocks : Half(i)' THEN "in" ELSE "out"
        <5>1. CASE o.hidden
          <6>1. closed = {} /\ begun = {} /\ ~ \E i \in Blocks : Half(i)
            BY <1>6, <4>3, <4>4, <5>1
          <6>2. reading.parse = "out" /\ ~ \E i \in Blocks : Half(i)'
            BY <1>8, <3>7, <3>9, <4>1, <6>1
          <6>3. QED
            BY <3>3, <5>1, <6>2 DEF ParseNext
        <5>2. CASE ~o.hidden /\ begun # {}
          <6>1. \E i \in Blocks : Half(i)'
            BY <1>5, <1>6, <1>8, <5>2
          <6>2. reading.parse # "torn"
            BY <3>7, <3>9, <4>1
          <6>3. QED
            BY <3>3, <5>2, <6>1, <6>2 DEF ParseNext
        <5>3. CASE ~o.hidden /\ begun = {} /\ closed # {}
          <6>1. ~ \E i \in Blocks : Half(i)'
            BY <1>8, <5>3
          <6>2. QED
            BY <3>3, <5>3, <6>1 DEF ParseNext
        <5>4. CASE ~o.hidden /\ begun = {} /\ closed = {}
          <6>1. (\E i \in Blocks : Half(i)') <=> \E i \in Blocks : Half(i)
            BY <1>8, <5>4
          <6>2. QED
            BY <3>3, <3>7, <3>9, <4>1, <5>4, <6>1 DEF ParseNext
        <5>5. QED
          BY <5>1, <5>2, <5>3, <5>4
      <4>7. QED
        BY <3>3, <3>9, <4>1, <4>3, <4>5, <4>6
    <3>10. TextHanded(closed, whole, altered)
      BY <2>2, <3>3, <3>4, <3>6, <3>8, <3>9 DEF TextHanded
    <3>11. QED
      BY <3>10
  <2>3. QED
    BY <2>1, <2>2
<1>20. PICK whole, altered : TextHanded(closed, whole, altered)
  BY <1>9
<1>10. /\ whole \subseteq closed /\ altered \subseteq closed
       /\ ~Watched => whole = {} /\ altered = {}
       /\ due' \subseteq Chunk
       /\ \A c \in due' : /\ c.done /\ c.call \in whole \cup altered
                          /\ c.form = IF c.call \in whole THEN "object" ELSE "raw"
       /\ \A c, d \in due' : c.call = d.call => c = d
       /\ \A i \in whole \cup altered : \E c \in due' : c.call = i
       /\ altered # {} => untidy'
       /\ ~untidy' /\ adapter.inline /\ Watched =>
            /\ whole = closed /\ ~untidy
            /\ reading'.think = said'
            /\ reading'.parse = IF \E i \in Blocks : Half(i)' THEN "in" ELSE "out"
       /\ untidy' \in BOOLEAN /\ said' \in {"fresh", "text", "in"}
  BY <1>20 DEF TextHanded
<1>11. /\ \A i : CallTaken(i)' <=> CallTaken(i)
       /\ \A i : CallTaken(i) <=> HandedOn(i)
       /\ \A i : HandedOn(i)' <=> (\E c \in due' : c.call = i) \/ CallTaken(i)
  BY <1>1, EventFacts
<1>12. \A i : (\E c \in due' : c.call = i) <=> i \in whole \cup altered
  BY <1>10
<1>13. /\ \A i \in whole \cup altered :
            i \in closed /\ i \in Blocks /\ answer[i].kind = "inline" /\ sent[i] < 2 /\ adapter.inline
       /\ untidy => untidy'
  <2>1. whole # {} \/ altered # {} => adapter.inline
    BY <1>10 DEF Watched
  <2>2. untidy => untidy'
    <3>1. CASE Watched
      BY <1>3, <3>1
    <3>2. CASE ~Watched
      BY <1>2, <3>2
    <3>3. QED
      BY <3>1, <3>2
  <2>3. QED
    BY <1>5, <1>6, <1>10, <2>1, <2>2
<1>14. \A i \in whole \cup altered : ~CallTaken(i)
  <2> SUFFICES ASSUME NEW i \in whole \cup altered, HandedOn(i) PROVE FALSE
    BY <1>11
  <2>1. sent[i] = 2
    BY <1>4, <1>13 DEF InOrder
  <2>2. QED
    BY <1>13, <2>1
<1>15. /\ link' \in [phase : {"asked", "open", "closed", "cut", "threw"}, again : BOOLEAN,
                     finish : Reasons]
       /\ link'.phase = "open" /\ link'.finish \in {"none", "other"}
  BY <1>1, <1>4 DEF AdapterShape, Reasons
<1>16. AdapterShape'
  <2>1. mixed' \in BOOLEAN /\ untidy' \in BOOLEAN /\ due' \subseteq Chunk
        /\ said' \in {"fresh", "text", "in"}
    BY <1>1, <1>4, <1>10
  <2>2. AnswerShape'
    BY <1>1, <1>4 DEF AnswerShape
  <2>3. QED
    BY <1>1, <1>4, <1>7, <1>15, <2>1, <2>2 DEF AdapterShape
<1>17. CallsApart'
  <2>1. \A c \in due' : c.call # 0 => ~CallTaken(c.call)'
    BY <1>10, <1>11, <1>14
  <2>2. QED
    BY <1>1, <1>4, <1>10, <2>1 DEF CallsApart
<1>18. /\ Called' = Called /\ Gathers' /\ whole \cup altered \subseteq Called
       /\ \A i : Spoiled(i)' <=> Spoiled(i)
       /\ \A i : Excused(i) => Excused(i)'
       /\ \A i : Deltas(i)' = Deltas(i) /\ \A n : PiecesOf(i, n)' = PiecesOf(i, n)
  <2>1. Called' = Called /\ Gathers'
    BY <1>1, <1>4 DEF Called, Gathers
  <2>2. whole \cup altered \subseteq Called
    BY <1>13 DEF Called
  <2>3. \A i : Spoiled(i)' <=> Spoiled(i)
    BY <1>1 DEF Spoiled
  <2>4. mixed => mixed'
    BY <1>1
  <2>5. \A i : Excused(i) => Excused(i)'
    BY <1>1, <1>13, <1>15, <2>3, <2>4 DEF Excused
  <2>6. \A i : Deltas(i)' = Deltas(i) /\ \A n : PiecesOf(i, n)' = PiecesOf(i, n)
    BY <1>1 DEF Deltas, PiecesOf
  <2>7. QED
    BY <2>1, <2>2, <2>3, <2>5, <2>6
<1>19. GatheredWhole'
  <2>1. ASSUME NEW c \in due' PROVE c.done /\ c.call \in Called /\ WholeChunk(c)'
    <3>1. /\ c.done /\ c.call \in whole \cup altered /\ c.call \in Called
          /\ c.form = IF c.call \in whole THEN "object" ELSE "raw"
      BY <1>10, <1>18
    <3>2. CASE c.call \in whole
      <4>1. ~Spoiled(c.call)
        BY <1>13, <3>1 DEF Spoiled
      <4>2. QED
        BY <1>18, <3>1, <3>2, <4>1 DEF WholeChunk
    <3>3. CASE c.call \notin whole
      <4>1. untidy'
        BY <1>10, <3>1, <3>3
      <4>2. QED
        BY <3>1, <3>3, <4>1 DEF WholeChunk, Excused
    <3>4. QED
      BY <3>2, <3>3
  <2>2. \A i \in Blocks : held[i].known => answer[i].kind = "call" /\ ~HandedOn(i)'
    BY <1>4, <1>11, <1>12, <1>13 DEF GatheredWhole
  <2>3. ASSUME NEW k \in DOMAIN taken.calls
        PROVE  taken.calls[k].call \in Called /\ WholeCall(taken.calls[k])'
    <3>1. taken.calls[k].call \in Called /\ WholeCall(taken.calls[k]) /\ (mixed => mixed')
      BY <1>1, <1>4 DEF GatheredWhole
    <3>2. taken' = taken
      BY <1>1
    <3>3. QED
      BY <1>18, <3>1, <3>2 DEF WholeCall
  <2>4. \A k \in Keys : taken.pending[k] = NoEntry
    BY <1>4 DEF GatheredWhole
  <2>5. QED
    BY <1>1, <1>15, <1>18, <2>1, <2>2, <2>3, <2>4 DEF GatheredWhole
<1>24. DeltaHeld'
  <2>1. ASSUME NEW i \in Blocks, answer[i].kind = "call"
        PROVE  /\ sent'[i] <= Deltas(i)
               /\ ~HandedOn(i)'
               /\ ~mixed' => /\ held[i].n = PiecesOf(i, sent'[i]) /\ (held[i].known <=> sent'[i] > 0)
                             /\ held[i].known => held[i].named
    <3>1. /\ sent[i] <= Deltas(i) /\ ~HandedOn(i)
          /\ ~mixed => /\ held[i].n = PiecesOf(i, sent[i]) /\ (held[i].known <=> sent[i] > 0)
                       /\ held[i].known => held[i].named
      BY <1>1, <1>4, <2>1 DEF DeltaHeld
    <3>2. sent'[i] <= Deltas(i)
      <4>1. sent[i] \in Nat /\ Deltas(i) \in Nat
        BY <1>4 DEF Deltas
      <4>2. QED
        BY <1>5, <1>7, <2>1, <3>1, <4>1
    <3>3. ~mixed' => sent'[i] = sent[i] /\ ~mixed
      BY <1>1, <1>7, <2>1
    <3>4. ~HandedOn(i)'
      BY <1>11, <1>12, <1>13, <2>1, <3>1
    <3>5. QED
      BY <3>1, <3>2, <3>3, <3>4
  <2>2. QED
    BY <1>1, <1>15, <1>18, <2>1 DEF DeltaHeld
<1>21. InOrder'
  <2>1. ASSUME NEW i \in Blocks, answer[i].kind = "inline"
        PROVE  sent'[i] <= 2 /\ (HandedOn(i)' => sent'[i] = 2 /\ adapter.inline)
    <3>1. sent[i] <= 2 /\ (HandedOn(i) => sent[i] = 2 /\ adapter.inline)
      BY <1>4, <2>1 DEF InOrder
    <3>2. sent'[i] <= 2
      BY <1>7, <2>1, <3>1
    <3>3. CASE i \in whole \cup altered
      BY <1>7, <1>13, <2>1, <3>2, <3>3
    <3>4. CASE i \notin whole \cup altered
      <4>1. HandedOn(i)' => sent[i] = 2 /\ adapter.inline
        BY <1>11, <1>12, <3>1, <3>4
      <4>2. sent[i] = 2 => i \notin U
        BY <1>5
      <4>3. QED
        BY <1>6, <1>7, <2>1, <3>2, <4>1, <4>2
    <3>5. QED
      BY <3>3, <3>4
  <2>2. answer' = answer /\ adapter' = adapter
    BY <1>1
  <2> HIDE DEF HandedOn
  <2>3. QED
    BY <1>8, <2>1, <2>2 DEF InOrder
<1>22. TidyRead'
  <2> SUFFICES ASSUME ~untidy', adapter.inline
               PROVE  /\ reading'.think = said'
                      /\ reading'.parse = IF \E i \in Blocks : Half(i)' THEN "in" ELSE "out"
                      /\ \A i \in Blocks : answer[i].kind = "inline" /\ sent'[i] = 2 => HandedOn(i)'
    BY <1>1 DEF TidyRead
  <2>1. CASE Watched
    <3>1. ASSUME NEW i \in Blocks, answer[i].kind = "inline", sent'[i] = 2 PROVE HandedOn(i)'
      <4>1. CASE i \in closed
        BY <1>10, <1>11, <1>12, <2>1, <4>1
      <4>2. CASE i \notin closed
        <5>1. sent[i] = 2
          BY <1>7, <3>1, <4>2
        <5>2. HandedOn(i)
          BY <1>4, <1>10, <2>1, <3>1, <5>1 DEF TidyRead
        <5>3. QED
          BY <1>11, <5>2
      <4>3. QED
        BY <4>1, <4>2
    <3>2. QED
      BY <1>10, <2>1, <3>1
  <2>2. CASE ~Watched
    <3>1. \A i \in Blocks : answer[i].kind # "inline"
      BY <2>2 DEF Watched
    <3>2. (\A i \in Blocks : ~Half(i)) /\ \A i \in Blocks : ~Half(i)'
      BY <1>1, <3>1 DEF Half
    <3>3. reading' = reading /\ ~untidy /\ said' = said
      BY <1>2, <1>13, <2>2
    <3>4. QED
      BY <1>4, <3>1, <3>2, <3>3 DEF TidyRead
  <2>3. QED
    BY <2>1, <2>2
<1>23. QED
  BY <1>1, <1>16, <1>17, <1>18, <1>19, <1>21, <1>22, <1>24 DEF AdapterIInv, Gathers

LEMMA WholePartsStep ==
  ASSUME AdapterIInv, NEW i \in Blocks, NEW j \in i..MaxBlocks, WholeParts(i, j)
  PROVE  AdapterIInv'
<1> DEFINE F(k) == [key |-> 0, call |-> k, form |-> "object", n |-> 1, done |-> TRUE]
           K == {b \in i..j : answer[b].kind = "call"}
<1>1. /\ link.phase = "open" /\ due = {} /\ adapter.wire = "whole"
      /\ \A k \in Blocks : (sent[k] = 0) <=> (k >= i)
      /\ sent' = [k \in Blocks |-> IF k \in i..j THEN 1 ELSE sent[k]]
      /\ due' = {F(k) : k \in K}
      /\ UNCHANGED <<adapter, answer, link, held, taken, reading, mixed, untidy, said>>
  BY DEF WholeParts, Open
<1>2. /\ AdapterShape /\ AnswerShape /\ CallsApart /\ Gathers /\ GatheredWhole /\ PartsHanded
      /\ sent \in [Blocks -> Nat]
  BY <1>1 DEF AdapterIInv, AdapterShape, AnswerShape, Gathers
<1>3. /\ \A k \in K : k \in Blocks /\ k # 0 /\ answer[k].kind = "call" /\ k >= i
      /\ i..j \subseteq Blocks
  BY AnswerAssumption DEF Blocks
<1>4. \A k \in K : F(k) \in Chunk /\ F(k).call = k /\ F(k).done /\ F(k).form = "object"
  BY <1>3, AnswerAssumption DEF Chunk, Keys, Blocks, Forms
<1> HIDE DEF F
<1>5. /\ \A k : CallTaken(k)' <=> CallTaken(k)
      /\ \A k : CallTaken(k) <=> HandedOn(k)
      /\ \A k : HandedOn(k)' <=> (\E c \in due' : c.call = k) \/ CallTaken(k)
  BY <1>1, EventFacts
<1>6. \A k : (\E c \in due' : c.call = k) <=> k \in K
  BY <1>1, <1>4
<1>7. \A k \in K : ~CallTaken(k)
  BY <1>1, <1>2, <1>3, <1>5 DEF PartsHanded
<1>8. AdapterShape'
  <2>1. sent' \in [Blocks -> Nat]
    BY <1>1, <1>2
  <2>2. due' \subseteq Chunk
    BY <1>1, <1>4
  <2>3. QED
    BY <1>1, <1>2, <2>1, <2>2 DEF AdapterShape, AnswerShape
<1>9. CallsApart'
  <2>1. \A c, d \in due' : c.call = d.call => c = d
    BY <1>1, <1>4
  <2>2. \A c \in due' : c.call # 0 => ~CallTaken(c.call)'
    BY <1>5, <1>6, <1>7
  <2>3. QED
    BY <1>1, <1>2, <2>1, <2>2 DEF CallsApart
<1>10. Called' = Called /\ Gathers' /\ K \subseteq Called
  BY <1>1, <1>2, <1>3 DEF Called, Gathers
<1>11. GatheredWhole'
  <2>1. \A c \in due' : c.done /\ c.call \in Called /\ WholeChunk(c)'
    BY <1>1, <1>4, <1>10 DEF WholeChunk, Spoiled
  <2>2. \A k \in DOMAIN taken.calls : taken.calls[k].call \in Called /\ WholeCall(taken.calls[k])'
    BY <1>1, <1>2 DEF GatheredWhole, WholeCall, Excused, Spoiled
  <2>3. QED
    BY <1>1, <1>2, <1>10, <2>1, <2>2 DEF GatheredWhole, PartsHanded
<1>12. PartsHanded'
  <2>1. ASSUME NEW k \in Blocks, answer[k].kind = "call" PROVE HandedOn(k)' <=> sent'[k] > 0
    <3>1. HandedOn(k) <=> sent[k] > 0
      BY <1>2, <2>1 DEF PartsHanded
    <3>2. CASE k \in i..j
      BY <1>1, <1>5, <1>6, <2>1, <3>2
    <3>3. CASE k \notin i..j
      BY <1>1, <1>5, <1>6, <3>1, <3>3
    <3>4. QED
      BY <3>2, <3>3
  <2>2. QED
    BY <1>1, <1>2, <2>1 DEF PartsHanded
<1>13. QED
  BY <1>1, <1>8, <1>9, <1>10, <1>11, <1>12 DEF AdapterIInv, Gathers

LEMMA HoldStep ==
  ASSUME AdapterIInv, adapter.holds, NEW i \in Blocks, BlockStart(i) \/ BlockPiece(i) \/ BlockStop(i)
  PROVE  AdapterIInv'
<1>1. /\ link.phase = "open" /\ due = {} /\ adapter.wire = "block"
      /\ sent' = [sent EXCEPT ![i] = @ + 1]
      /\ UNCHANGED <<adapter, answer, link, taken, reading, mixed, untidy, said>>
  BY DEF BlockStart, BlockPiece, BlockStop, Current, Open
<1>2. /\ AdapterShape /\ AnswerShape /\ CallsApart /\ Gathers /\ GatheredWhole /\ BlocksHeld
      /\ sent \in [Blocks -> Nat] /\ held \in [Blocks -> HeldRecord]
      /\ answer \in [Blocks -> [kind : {"text", "call", "inline"}, size : Nat]]
  BY <1>1 DEF AdapterIInv, AdapterShape, AnswerShape, Gathers
<1>3. /\ \A k : CallTaken(k)' <=> CallTaken(k)
      /\ \A k : CallTaken(k) <=> HandedOn(k)
      /\ \A k : HandedOn(k)' <=> (\E c \in due' : c.call = k) \/ CallTaken(k)
  BY <1>1, EventFacts
<1>4. /\ sent' \in [Blocks -> Nat] /\ sent'[i] = sent[i] + 1
      /\ \A k \in Blocks \ {i} : sent'[k] = sent[k]
      /\ sent[i] \in Nat /\ answer[i].size \in Nat
  BY <1>1, <1>2
<1>5. answer[i].kind = "call" =>
        /\ HandedOn(i) <=> sent[i] = answer[i].size + 2
        /\ held[i].known <=> sent[i] \in 1..(answer[i].size + 1)
        /\ held[i].n = IF held[i].known THEN sent[i] - 1 ELSE 0
  BY <1>1, <1>2 DEF BlocksHeld
<1>6. answer[i].kind # "call" => ~held[i].known
  BY <1>2 DEF GatheredWhole
<1>7. PICK C : C = [key |-> i, call |-> i, n |-> held[i].n, done |-> TRUE,
                     form |-> IF held[i].n = 0 THEN "none" ELSE "text"]
  OBVIOUS
<1>8. C \in Chunk /\ C.call = i /\ C.done /\ (held[i].n = answer[i].size => WholeChunk(C)')
  <2>1. i \in 0..MaxBlocks /\ i \in Keys /\ held[i].n \in Nat
    BY <1>2, AnswerAssumption DEF Keys, Blocks, HeldRecord
  <2>2. /\ C.call = i /\ C.done /\ C.n = held[i].n /\ C.key = i
        /\ C.form = IF held[i].n = 0 THEN "none" ELSE "text"
    BY <1>7
  <2>3. C \in Chunk
    BY <1>7, <2>1 DEF Chunk, Forms
  <2>4. answer'[i].size = answer[i].size
    BY <1>1
  <2>5. held[i].n = answer[i].size => WholeChunk(C)'
    BY <1>1, <1>2, <2>1, <2>2, <2>4 DEF WholeChunk, Spoiled
  <2>6. QED
    BY <2>2, <2>3, <2>5
<1>9. /\ held' \in [Blocks -> HeldRecord]
      /\ \A k \in Blocks \ {i} : held'[k] = held[k]
      /\ due' \subseteq {C}
      /\ answer[i].kind # "call" => ~held'[i].known /\ due' = {}
      /\ answer[i].kind = "call" =>
           /\ sent[i] <= answer[i].size + 1
           /\ due' # {} <=> sent[i] = answer[i].size + 1
           /\ held'[i].known <=> sent[i] <= answer[i].size
           /\ held'[i].n = IF held'[i].known THEN sent[i] ELSE 0
  <2>1. CASE BlockStart(i)
    <3>1. sent[i] = 0 /\ due' = {}
      BY <1>1, <1>2, <2>1 DEF BlockStart
    <3>2. CASE answer[i].kind # "call"
      BY <1>2, <1>6, <2>1, <3>1, <3>2 DEF BlockStart
    <3>3. CASE answer[i].kind = "call"
      <4>1. held' = [held EXCEPT ![i].known = TRUE, ![i].named = TRUE] /\ held[i].n = 0
        <5>1. held' = [held EXCEPT ![i].known = TRUE, ![i].named = TRUE]
          BY <2>1, <3>3 DEF BlockStart
        <5>2. held[i].n = 0
          BY <1>4, <1>5, <3>1, <3>3
        <5>3. QED
          BY <5>1, <5>2
      <4>2. held' \in [Blocks -> HeldRecord]
        BY <1>2, <4>1 DEF HeldRecord
      <4>3. held'[i].known = TRUE /\ held'[i].n = 0 /\ \A k \in Blocks \ {i} : held'[k] = held[k]
        BY <1>2, <4>1 DEF HeldRecord
      <4>4. QED
        BY <1>4, <3>1, <3>3, <4>2, <4>3
    <3>4. QED
      BY <3>2, <3>3
  <2>2. CASE BlockPiece(i)
    <3>1. sent[i] \in 1..answer[i].size /\ due' = {}
      BY <1>1, <1>2, <2>2 DEF BlockPiece
    <3>2. CASE answer[i].kind # "call"
      BY <1>2, <1>6, <2>2, <3>1, <3>2 DEF BlockPiece
    <3>3. CASE answer[i].kind = "call"
      <4>1. held' = [held EXCEPT ![i].n = @ + 1] /\ held[i].known /\ held[i].n = sent[i] - 1
        BY <1>4, <1>5, <2>2, <3>1, <3>3 DEF BlockPiece
      <4>2. held' \in [Blocks -> HeldRecord]
        BY <1>2, <4>1 DEF HeldRecord
      <4>3. /\ held'[i].known = held[i].known /\ held'[i].n = held[i].n + 1
            /\ \A k \in Blocks \ {i} : held'[k] = held[k]
        BY <1>2, <4>1 DEF HeldRecord
      <4>4. QED
        BY <1>4, <3>1, <3>3, <4>1, <4>2, <4>3
    <3>4. QED
      BY <3>2, <3>3
  <2>3. CASE BlockStop(i)
    <3>1. /\ sent[i] = answer[i].size + 1 /\ held' = [held EXCEPT ![i] = NotHeld]
          /\ due' = IF held[i].known THEN {C} ELSE {}
      BY <1>7, <2>3 DEF BlockStop
    <3>2. held' \in [Blocks -> HeldRecord]
      BY <1>2, <3>1 DEF HeldRecord, NotHeld
    <3>3. /\ held'[i].known = FALSE /\ held'[i].n = 0
          /\ \A k \in Blocks \ {i} : held'[k] = held[k]
      BY <1>2, <3>1 DEF NotHeld
    <3>4. QED
      BY <1>4, <1>5, <1>6, <3>1, <3>2, <3>3
  <2>4. QED
    BY <2>1, <2>2, <2>3
<1>10. due' # {} => held[i].n = answer[i].size /\ answer[i].kind = "call" /\ ~CallTaken(i)
  BY <1>3, <1>4, <1>5, <1>9
<1>11. \A k : (\E c \in due' : c.call = k) <=> k = i /\ due' # {}
  BY <1>8, <1>9
<1>12. AdapterShape'
  <2>1. due' \subseteq Chunk
    BY <1>8, <1>9
  <2>2. QED
    BY <1>1, <1>2, <1>4, <1>9, <2>1 DEF AdapterShape, AnswerShape
<1>13. CallsApart'
  <2>1. \A c, d \in due' : c = d
    BY <1>9
  <2>2. \A c \in due' : ~CallTaken(c.call)'
    BY <1>3, <1>8, <1>9, <1>10
  <2>3. QED
    BY <1>1, <1>2, <2>1, <2>2 DEF CallsApart
<1>14. Called' = Called /\ Gathers' /\ (answer[i].kind = "call" => i \in Called)
  BY <1>1, <1>2 DEF Called, Gathers
<1>15. BlocksHeld'
  <2>1. ASSUME NEW k \in Blocks, answer[k].kind = "call"
        PROVE  /\ sent'[k] <= answer[k].size + 2
               /\ HandedOn(k)' <=> sent'[k] = answer[k].size + 2
               /\ held'[k].known <=> sent'[k] \in 1..(answer[k].size + 1)
               /\ held'[k].n = IF held'[k].known THEN sent'[k] - 1 ELSE 0
    <3>1. CASE k = i
      BY <1>3, <1>4, <1>5, <1>9, <1>11, <2>1, <3>1
    <3>2. CASE k # i
      <4>1. HandedOn(k)' <=> HandedOn(k)
        BY <1>3, <1>11, <3>2
      <4>2. sent'[k] = sent[k] /\ held'[k] = held[k]
        BY <1>4, <1>9, <3>2
      <4>3. QED
        BY <1>1, <1>2, <2>1, <4>1, <4>2 DEF BlocksHeld
    <3>3. QED
      BY <3>1, <3>2
  <2>2. QED
    BY <1>1, <2>1 DEF BlocksHeld
<1>16. GatheredWhole'
  <2>1. \A c \in due' : c.done /\ c.call \in Called /\ WholeChunk(c)'
    BY <1>8, <1>9, <1>10, <1>14
  <2>2. ASSUME NEW k \in Blocks, held'[k].known PROVE answer[k].kind = "call" /\ ~HandedOn(k)'
    <3>1. answer[k].kind = "call"
      BY <1>2, <1>9, <2>2 DEF GatheredWhole
    <3>2. sent'[k] # answer[k].size + 2
      BY <1>1, <1>2, <1>15, <2>2, <3>1 DEF BlocksHeld
    <3>3. QED
      BY <1>1, <1>15, <3>1, <3>2 DEF BlocksHeld
  <2>3. \A k \in DOMAIN taken.calls : taken.calls[k].call \in Called /\ WholeCall(taken.calls[k])'
    BY <1>1, <1>2 DEF GatheredWhole, WholeCall, Excused, Spoiled
  <2>4. QED
    BY <1>1, <1>2, <1>14, <2>1, <2>2, <2>3 DEF GatheredWhole
<1>17. QED
  BY <1>1, <1>2, <1>12, <1>13, <1>14, <1>15, <1>16 DEF AdapterIInv, Gathers

LEMMA GatheredEnd ==
  ASSUME AdapterIInv, Gathers, EndStream
  PROVE  AdapterIInv'
<1>1. /\ link.phase = "open" /\ due = {} /\ held' = Nothing
      /\ link' = [link EXCEPT !.phase = IF AllSent THEN "closed" ELSE "cut"]
      /\ due' = IF adapter.wire = "delta" /\ adapter.flushes THEN Flush(held) ELSE {}
      /\ UNCHANGED <<adapter, answer, sent, taken, reading, mixed, untidy, said>>
  BY DEF EndStream, Open
<1>2. /\ AdapterShape /\ AnswerShape /\ CallsApart /\ GatheredWhole
      /\ sent \in [Blocks -> Nat] /\ held \in [Blocks -> HeldRecord]
      /\ answer \in [Blocks -> [kind : {"text", "call", "inline"}, size : Nat]]
      /\ adapter.wire \in {"delta", "whole", "block"}
  BY AdapterFacts DEF AdapterIInv, AdapterShape, AnswerShape
<1>3. /\ \A k : CallTaken(k)' <=> CallTaken(k)
      /\ \A k : CallTaken(k) <=> HandedOn(k)
      /\ \A k : HandedOn(k)' <=> (\E c \in due' : c.call = k) \/ CallTaken(k)
  BY <1>1, EventFacts
<1>4. /\ Flush(held) \subseteq Chunk
      /\ \A c \in Flush(held) :
            /\ c.done /\ c.call \in Blocks /\ held[c.call].known /\ c.n = held[c.call].n
            /\ \/ c.form = "nameless" /\ ~held[c.call].named
               \/ c.form = "object" /\ held[c.call].n = answer[c.call].size /\ held[c.call].n > 0
               \/ c.form = "raw" /\ (held[c.call].n # answer[c.call].size \/ held[c.call].n = 0)
      /\ \A c, d \in Flush(held) : c.call = d.call => c = d
      /\ \A i \in Blocks : held[i].known => \E c \in Flush(held) : c.call = i
  BY <1>2, FlushFacts
<1>5. /\ link' \in [phase : {"asked", "open", "closed", "cut", "threw"}, again : BOOLEAN,
                    finish : Reasons]
      /\ link'.phase \in {"closed", "cut"} /\ (link'.phase = "closed" => AllSent)
      /\ link'.finish = link.finish
  BY <1>1, <1>2 DEF AdapterShape
<1>6. held' \in [Blocks -> HeldRecord] /\ \A i \in Blocks : ~held'[i].known
  BY <1>1 DEF Nothing, NotHeld, HeldRecord
<1>7. AdapterShape'
  BY <1>1, <1>2, <1>4, <1>5, <1>6 DEF AdapterShape, AnswerShape
<1>8. \A i \in Blocks : held[i].known => answer[i].kind = "call" /\ ~CallTaken(i)
  BY <1>2, <1>3 DEF GatheredWhole
<1>9. CallsApart'
  <2>1. \A c, d \in due' : c.call = d.call => c = d
    BY <1>1, <1>4
  <2>2. \A c \in due' : ~CallTaken(c.call)'
    BY <1>1, <1>3, <1>4, <1>8
  <2>3. QED
    BY <1>1, <1>2, <2>1, <2>2 DEF CallsApart
<1>10. Called' = Called /\ Gathers' /\ \A i \in Blocks : answer[i].kind = "call" => i \in Called
  BY <1>1, <1>2 DEF Called, Gathers
<1>11. ASSUME adapter.wire = "delta", link'.phase = "closed", ~mixed, NEW i \in Blocks,
              answer[i].kind = "call"
       PROVE  /\ link.finish = "calls" => CallTaken(i)
              /\ link.finish # "calls" =>
                   held[i].n = answer[i].size /\ held[i].known /\ held[i].named
  <2>1. DeltaHeld
    BY <1>11 DEF AdapterIInv
  <2>2. sent[i] = Deltas(i)
    BY <1>2, <1>5, <1>11, LengthFacts DEF AllSent
  <2>3. Deltas(i) > 0 /\ PiecesOf(i, Deltas(i)) = answer[i].size
    BY <1>2 DEF Deltas, PiecesOf
  <2>4. QED
    BY <1>1, <1>3, <1>11, <2>1, <2>2, <2>3 DEF DeltaHeld
<1>12. \A c \in due' : c.done /\ c.call \in Called /\ WholeChunk(c)'
  <2> SUFFICES ASSUME NEW c \in due' PROVE c.done /\ c.call \in Called /\ WholeChunk(c)'
    OBVIOUS
  <2>1. adapter.wire = "delta" /\ c \in Flush(held)
    BY <1>1
  <2>2. /\ c.done /\ c.call \in Blocks /\ held[c.call].known
        /\ \/ c.form = "nameless" /\ ~held[c.call].named
           \/ c.form = "object" /\ held[c.call].n = answer[c.call].size /\ held[c.call].n > 0
           \/ c.form = "raw" /\ (held[c.call].n # answer[c.call].size \/ held[c.call].n = 0)
        /\ answer[c.call].kind = "call"
    BY <1>4, <1>8, <2>1
  <2>3. link.finish # "calls"
    BY <2>1, <2>2 DEF AdapterIInv, DeltaHeld
  <2>4. link'.phase = "closed" /\ ~mixed => held[c.call].named /\ held[c.call].n = answer[c.call].size
    BY <1>11, <2>1, <2>2, <2>3
  <2>5. mixed' = mixed /\ (Spoiled(c.call)' <=> answer[c.call].size = 0)
    BY <1>1, <2>1, <2>2 DEF Spoiled
  <2>6. ~held[c.call].named => mixed
    BY <1>1, <2>1, <2>2, <2>3 DEF AdapterIInv, DeltaHeld
  <2>7. WholeChunk(c)'
    <3>1. CASE c.form = "nameless"
      BY <2>2, <2>5, <2>6, <3>1 DEF WholeChunk
    <3>2. CASE c.form = "object"
      BY <2>2, <2>5, <3>2 DEF WholeChunk
    <3>3. CASE c.form = "raw"
      BY <1>5, <2>2, <2>4, <2>5, <3>3 DEF WholeChunk, Excused
    <3>4. QED
      BY <2>2, <3>1, <3>2, <3>3
  <2>8. QED
    BY <1>10, <2>2, <2>7
<1>13. ASSUME link'.phase = "closed", ~mixed, ~untidy, NEW i \in Called,
              adapter.wire = "delta" /\ ~adapter.flushes => link.finish = "calls"
       PROVE  HandedOn(i)'
  <2>1. i \in Blocks /\ AllSent
    BY <1>5, <1>13 DEF Called
  <2>2. CASE adapter.wire = "delta" /\ answer[i].kind = "call"
    BY <1>1, <1>3, <1>4, <1>11, <1>13, <2>1, <2>2
  <2>3. CASE adapter.wire = "delta" /\ answer[i].kind # "call"
    <3>1. answer[i].kind = "inline" /\ adapter.inline
      BY <1>13, <2>1, <2>3 DEF Called
    <3>2. sent[i] = 2
      BY <1>2, <2>1, <2>3, <3>1, LengthFacts DEF AllSent
    <3>4. CallTaken(i)
      BY <1>3, <1>13, <2>1, <2>3, <3>1, <3>2 DEF AdapterIInv, TidyRead
    <3>5. QED
      BY <1>3, <3>4
  <2>4. CASE adapter.wire = "whole"
    <3>1. answer[i].kind = "call" /\ answer[i].size = 1 /\ sent[i] = 1
      BY <1>2, <1>13, <2>1, <2>4 DEF Called, AllSent, AnswerShape
    <3>2. QED
      BY <1>3, <2>1, <2>4, <3>1 DEF AdapterIInv, PartsHanded
  <2>5. CASE adapter.wire = "block"
    <3>1. answer[i].kind = "call" /\ sent[i] = answer[i].size + 2
      BY <1>2, <1>13, <2>1, <2>5 DEF Called, AllSent, AnswerShape
    <3>2. adapter.holds
      BY <2>5 DEF Gathers
    <3>3. QED
      BY <1>1, <1>3, <2>1, <2>5, <3>1, <3>2 DEF AdapterIInv, BlocksHeld
  <2>6. QED
    BY <1>2, <2>2, <2>3, <2>4, <2>5
<1>14. GatheredWhole'
  <2>1. \A k \in DOMAIN taken.calls : taken.calls[k].call \in Called /\ WholeCall(taken.calls[k])'
    BY <1>1, <1>2 DEF GatheredWhole, WholeCall, Excused, Spoiled
  <2>2. \A k \in Keys : taken.pending[k] = NoEntry
    BY <1>2 DEF GatheredWhole
  <2>3. QED
    BY <1>1, <1>5, <1>6, <1>10, <1>12, <1>13, <2>1, <2>2 DEF GatheredWhole
<1>15. adapter.wire = "delta" => DeltaHeld' /\ InOrder' /\ TidyRead'
  <2> SUFFICES ASSUME adapter.wire = "delta" PROVE DeltaHeld' /\ InOrder' /\ TidyRead'
    OBVIOUS
  <2>1. DeltaHeld /\ InOrder /\ TidyRead
    BY DEF AdapterIInv
  <2>2. ASSUME NEW i \in Blocks, answer[i].kind = "call"
        PROVE  sent[i] <= Deltas(i) /\ (~mixed /\ link.finish = "calls" => HandedOn(i)')
    BY <1>3, <2>1, <2>2 DEF DeltaHeld
  <2>3. ASSUME NEW i \in Blocks, answer[i].kind = "inline" PROVE HandedOn(i)' <=> HandedOn(i)
    <3>1. ~ \E c \in due' : c.call = i
      BY <1>1, <1>4, <1>8, <2>3
    <3>2. QED
      BY <1>3, <3>1
  <2>4. DeltaHeld'
    <3>1. \A i \in Blocks : Deltas(i)' = Deltas(i)
      BY <1>1 DEF Deltas
    <3>2. QED
      BY <1>1, <1>5, <1>6, <2>2, <3>1 DEF DeltaHeld
  <2>5. InOrder' /\ TidyRead'
    <3>1. /\ adapter' = adapter /\ answer' = answer /\ sent' = sent
          /\ reading' = reading /\ untidy' = untidy /\ said' = said
      BY <1>1
    <3>2. \A i : Half(i)' <=> Half(i)
      BY <3>1 DEF Half
    <3> HIDE DEF HandedOn, Half
    <3>3. InOrder'
      BY <2>1, <2>3, <3>1 DEF InOrder
    <3>4. TidyRead'
      BY <2>1, <2>3, <3>1, <3>2 DEF TidyRead
    <3>5. QED
      BY <3>3, <3>4
  <2>6. QED
    BY <2>4, <2>5
<1>16. adapter.wire = "whole" => PartsHanded'
  BY <1>1, <1>3, <1>6 DEF AdapterIInv, PartsHanded
<1>17. BlocksHeld'
  BY <1>5 DEF BlocksHeld
<1>18. QED
  BY <1>1, <1>7, <1>9, <1>10, <1>14, <1>15, <1>16, <1>17 DEF AdapterIInv, Gathers

LEMMA ChunkOfEvent ==
  ASSUME AdapterShape, adapter.wire = "block", NEW i \in Blocks, NEW n \in 1..(answer[i].size + 2)
  PROVE  /\ EventChunk(i, n) \in Chunk /\ EventChunk(i, n).key = Key(i)
         /\ EventChunk(i, n).call = IF n = answer[i].size + 2 THEN 0 ELSE i
         /\ EventChunk(i, n).done <=> n = answer[i].size + 2
         /\ EventChunk(i, n).form = IF n \in 2..(answer[i].size + 1) THEN PieceForm ELSE "none"
         /\ EventChunk(i, n).n = IF n \in 2..(answer[i].size + 1) THEN 1 ELSE 0
         /\ EventChunk(i, answer[i].size + 2) = StopChunk(i)
<1>1. /\ i \in Nat /\ i # 0 /\ i <= MaxBlocks /\ MaxBlocks \in Nat /\ answer[i].size \in Nat
      /\ adapter \in Adapters
  BY AnswerAssumption DEF Blocks, AdapterShape, AnswerShape
<1>2. adapter.indexed \in BOOLEAN
  BY <1>1, AdapterFacts
<1>3. Key(i) \in Keys /\ PieceForm \in Forms /\ "none" \in Forms /\ i \in 0..MaxBlocks
      /\ 0 \in 0..MaxBlocks
  BY <1>1, <1>2 DEF Key, Keys, PieceForm, Forms
<1>4. CASE n = 1
  <2>1. EventChunk(i, n) = [key |-> Key(i), call |-> i, form |-> "none", n |-> 0, done |-> FALSE]
    BY <1>4 DEF EventChunk, Partial
  <2>2. EventChunk(i, n) \in Chunk
    BY <1>3, <2>1 DEF Chunk
  <2>3. EventChunk(i, answer[i].size + 2) = StopChunk(i)
    BY <1>1 DEF EventChunk
  <2>4. QED
    BY <1>1, <1>4, <2>1, <2>2, <2>3
<1>5. CASE n > 1 /\ n <= answer[i].size + 1
  <2>1. EventChunk(i, n) = [key |-> Key(i), call |-> i, form |-> PieceForm, n |-> 1, done |-> FALSE]
    BY <1>5 DEF EventChunk, Partial
  <2>2. EventChunk(i, n) \in Chunk
    BY <1>3, <2>1 DEF Chunk
  <2>3. EventChunk(i, answer[i].size + 2) = StopChunk(i)
    BY <1>1 DEF EventChunk
  <2>4. QED
    BY <1>1, <1>5, <2>1, <2>2, <2>3
<1>6. CASE n = answer[i].size + 2
  <2>1. EventChunk(i, n) = StopChunk(i)
    BY <1>1, <1>6 DEF EventChunk
  <2>2. EventChunk(i, n) \in Chunk
    BY <1>3, <2>1 DEF Chunk, StopChunk
  <2>3. QED
    BY <1>1, <1>6, <2>1, <2>2 DEF StopChunk
<1>7. QED
  BY <1>1, <1>4, <1>5, <1>6

(* An event of a block that is not collected: one chunk at most.          *)
LEMMA PassedEvent ==
  ASSUME AdapterIInv, ~adapter.holds, NEW i \in Blocks, BlockStart(i) \/ BlockPiece(i) \/ BlockStop(i)
  PROVE  AdapterIInv'
<1>1. /\ link.phase = "open" /\ due = {} /\ adapter.wire = "block"
      /\ sent' = [sent EXCEPT ![i] = @ + 1]
      /\ \A j \in 1..(i - 1) : sent[j] = answer[j].size + 2
      /\ UNCHANGED <<adapter, answer, link, held, taken, reading, mixed, untidy, said>>
  BY DEF BlockStart, BlockPiece, BlockStop, Current, Open
<1>2. /\ AdapterShape /\ AnswerShape /\ CallsApart /\ BlocksPassed
      /\ sent \in [Blocks -> Nat]
      /\ answer \in [Blocks -> [kind : {"text", "call", "inline"}, size : Nat]]
  BY <1>1 DEF AdapterIInv, AdapterShape, AnswerShape
<1>3. \A k : CallTaken(k)' <=> CallTaken(k)
  BY <1>1 DEF CallTaken
<1>4. /\ sent' \in [Blocks -> Nat] /\ sent'[i] = sent[i] + 1
      /\ \A k \in Blocks \ {i} : sent'[k] = sent[k]
      /\ sent[i] \in Nat /\ answer[i].size \in Nat
      /\ \A k \in Blocks : sent[k] \in Nat /\ answer[k].size \in Nat
  BY <1>1, <1>2
<1>5. \A k \in Blocks : k \in Nat /\ k # 0 /\ (k < i => k \in 1..(i - 1))
  BY AnswerAssumption DEF Blocks
<1>6. sent[i] <= answer[i].size + 1
  <2>1. BlockStart(i) => sent[i] = 0
    BY DEF BlockStart
  <2>2. BlockPiece(i) => sent[i] \in 1..answer[i].size
    BY DEF BlockPiece
  <2>3. BlockStop(i) => sent[i] = answer[i].size + 1
    BY DEF BlockStop
  <2>4. QED
    BY <1>4, <2>1, <2>2, <2>3
<1>7. /\ answer[i].kind = "call" => due' = {EventChunk(i, sent[i] + 1)}
      /\ answer[i].kind # "call" =>
           \/ due' = {}
           \/ due' = {EventChunk(i, sent[i] + 1)} /\ adapter.indexed /\ sent[i] = answer[i].size + 1
  <2>1. CASE BlockStart(i)
    <3>1. sent[i] + 1 = 1
      BY <2>1 DEF BlockStart
    <3>2. EventChunk(i, 1) = Partial(i, "none", 0)
      BY DEF EventChunk
    <3>3. QED
      BY <1>1, <2>1, <3>1, <3>2 DEF BlockStart
  <2>2. CASE BlockPiece(i)
    <3>1. sent[i] + 1 > 1 /\ sent[i] + 1 <= answer[i].size + 1 /\ sent[i] + 1 # 1
      BY <1>4, <2>2 DEF BlockPiece
    <3>2. EventChunk(i, sent[i] + 1) = Partial(i, PieceForm, 1)
      BY <3>1 DEF EventChunk
    <3>3. QED
      BY <1>1, <2>2, <3>2 DEF BlockPiece, PieceForm
  <2>3. CASE BlockStop(i)
    <3>1. sent[i] = answer[i].size + 1
      BY <2>3 DEF BlockStop
    <3>2. sent[i] + 1 > 1 /\ ~(sent[i] + 1 <= answer[i].size + 1) /\ sent[i] + 1 # 1
      BY <1>4, <3>1
    <3>3. EventChunk(i, sent[i] + 1) = StopChunk(i)
      BY <3>2 DEF EventChunk
    <3>4. due' = {StopChunk(i) : b \in {b \in {i} : answer[b].kind = "call" \/ adapter.indexed}}
      BY <2>3 DEF BlockStop, StopChunk
    <3>5. due' = IF answer[i].kind = "call" \/ adapter.indexed THEN {StopChunk(i)} ELSE {}
      <4> HIDE DEF StopChunk
      <4>1. QED
        BY <3>4
    <3>6. QED
      BY <3>1, <3>3, <3>5
  <2>4. QED
    BY <2>1, <2>2, <2>3
<1>8. /\ EventChunk(i, sent'[i]) \in Chunk
      /\ EventChunk(i, sent'[i]).call \in {0, i}
      /\ sent'[i] = answer[i].size + 2 => EventChunk(i, sent'[i]) = StopChunk(i)
  BY <1>1, <1>2, <1>4, <1>6, ChunkOfEvent
<1>9. /\ \A k, l \in Blocks : k < l /\ sent[l] > 0 => sent[k] = answer[k].size + 2
      /\ \A k \in Blocks : answer[k].kind = "call" => BlockPassed(k)
  BY <1>2 DEF BlocksPassed
<1>10. \A k \in Blocks : k # i => sent[k] = 0 \/ sent[k] = answer[k].size + 2
  <2> SUFFICES ASSUME NEW k \in Blocks, k # i PROVE sent[k] = 0 \/ sent[k] = answer[k].size + 2
    OBVIOUS
  <2>1. CASE k < i
    BY <1>1, <1>5, <2>1
  <2>2. CASE k > i
    BY <1>4, <1>6, <1>9, <2>2
  <2>3. QED
    BY <1>5, <2>1, <2>2
<1>11. ASSUME NEW k \in Blocks, k # i, answer[k].kind = "call"
       PROVE  \/ sent[k] = 0 /\ ~CallTaken(k)
              \/ sent[k] = answer[k].size + 2 /\ CallTaken(k)
  <2>1. BlockPassed(k)
    BY <1>9, <1>11
  <2>2. sent[k] \notin 1..(answer[k].size + 1) /\ due # {EventChunk(k, sent[k])}
    BY <1>1, <1>4, <1>10, <1>11
  <2>3. QED
    BY <1>1, <2>1, <2>2 DEF BlockPassed
<1>12. ASSUME answer[i].kind = "call"
       PROVE  ~CallTaken(i) /\ taken.pending[Key(i)] = PendingAfter(i, sent[i])
  <2>1. BlockPassed(i) /\ sent[i] # answer[i].size + 2 /\ due # {EventChunk(i, sent[i])}
    BY <1>1, <1>4, <1>6, <1>9, <1>12
  <2>2. CASE sent[i] = 0
    <3>1. ~CallTaken(i)
      BY <1>1, <2>1, <2>2 DEF BlockPassed
    <3>2. Key(i) \in Keys
      BY <1>5, AnswerAssumption DEF Key, Keys, Blocks
    <3>3. taken.pending[Key(i)] = NoEntry
      <4>1. SUFFICES ASSUME taken.pending[Key(i)] # NoEntry PROVE FALSE
        OBVIOUS
      <4>2. PICK k \in Blocks : /\ answer[k].kind = "call" /\ Key(i) = Key(k)
                                /\ sent[k] > 0 /\ ~CallTaken(k)
        BY <1>2, <3>2, <4>1 DEF BlocksPassed
      <4>3. k # i
        BY <2>2, <4>2
      <4>4. QED
        BY <1>4, <1>11, <4>2, <4>3
    <3>4. QED
      BY <2>2, <3>1, <3>3 DEF PendingAfter
  <2>3. CASE sent[i] # 0
    BY <1>1, <2>1, <2>3 DEF BlockPassed
  <2>4. QED
    BY <2>2, <2>3
<1>13. \A k, n : /\ EventChunk(k, n)' = EventChunk(k, n) /\ StopChunk(k)' = StopChunk(k)
                 /\ Key(k)' = Key(k) /\ PendingAfter(k, n)' = PendingAfter(k, n)
  BY <1>1 DEF EventChunk, StopChunk, PieceForm, Key, Partial, PendingAfter
<1>14. \A k \in Blocks : answer[k].kind = "call" => BlockPassed(k)'
  <2> SUFFICES ASSUME NEW k \in Blocks, answer[k].kind = "call" PROVE BlockPassed(k)'
    OBVIOUS
  <2>1. CASE k # i
    BY <1>1, <1>3, <1>4, <1>11, <2>1 DEF BlockPassed
  <2>2. CASE k = i
    <3>1. ~CallTaken(i)' /\ due' = {EventChunk(i, sent'[i])}
      BY <1>3, <1>4, <1>7, <1>12, <2>2
    <3>2. taken'.pending[Key(i)] = PendingAfter(i, sent'[i] - 1)
      BY <1>1, <1>4, <1>12, <2>2
    <3>3. sent'[i] \in 1..(answer[i].size + 2)
      BY <1>4, <1>6
    <3>4. QED
      BY <1>1, <1>13, <2>2, <3>1, <3>2, <3>3 DEF BlockPassed
  <2>3. QED
    BY <2>1, <2>2
<1>15. ASSUME NEW k \in Blocks, NEW l \in Blocks, k < l, sent'[l] > 0
       PROVE  sent'[k] = answer[k].size + 2
  <2>1. CASE l = i
    BY <1>1, <1>4, <1>5, <1>15, <2>1
  <2>2. CASE l # i
    <3>1. sent[k] = answer[k].size + 2
      BY <1>4, <1>9, <1>15, <2>2
    <3>2. k # i
      BY <1>4, <1>6, <3>1
    <3>3. QED
      BY <1>4, <3>1, <3>2
  <2>3. QED
    BY <2>1, <2>2
<1>16. BlocksPassed'
  <2>1. \A k \in Keys : taken.pending[k] # NoEntry =>
          \E b \in Blocks : /\ answer[b].kind = "call" /\ k = Key(b) /\ taken.pending[k].call = b
                            /\ sent'[b] > 0 /\ ~CallTaken(b)'
    BY <1>2, <1>3, <1>4 DEF BlocksPassed
  <2>2. \A c \in due' :
          /\ due' = {c} /\ sent'[i] > 0 /\ c = EventChunk(i, sent'[i])
          /\ answer[i].kind = "call" => ~CallTaken(i)'
          /\ answer[i].kind # "call" => answer[i].kind = "text" /\ c = StopChunk(i)
                                        /\ adapter.indexed /\ sent'[i] = answer[i].size + 2
    <3>1. answer[i].kind \in {"text", "call"}
      BY <1>1, <1>2 DEF AnswerShape
    <3>2. QED
      BY <1>3, <1>4, <1>7, <1>8, <1>12, <3>1
  <2>3. \A c \in due' :
         \E b \in Blocks : /\ due' = {c} /\ sent'[b] > 0
                           /\ \/ answer[b].kind = "call" /\ c = EventChunk(b, sent'[b]) /\ ~CallTaken(b)'
                              \/ answer[b].kind = "text" /\ c = StopChunk(b) /\ adapter.indexed
                                 /\ sent'[b] = answer[b].size + 2
    BY <2>2
  <2>4. Called' = Called
    BY <1>1 DEF Called
  <2>5. \A k \in DOMAIN taken.calls :
       \/ taken.calls[k].call = 0 /\ taken.calls[k].how = "refused" /\ adapter.indexed
       \/ /\ taken.calls[k].call \in Called
          /\ \/ taken.calls[k].how = "whole"
             \/ taken.calls[k].how = "refused" /\ adapter.indexed
             \/ taken.calls[k].how = "empty" /\ link.phase = "cut"
    BY <1>2 DEF BlocksPassed
  <2>6. QED
    BY <1>1, <1>13, <1>14, <1>15, <2>1, <2>3, <2>4, <2>5 DEF BlocksPassed
<1>17. AdapterShape'
  <2>1. due' \subseteq Chunk
    BY <1>4, <1>7, <1>8
  <2>2. QED
    BY <1>1, <1>2, <1>4, <2>1 DEF AdapterShape, AnswerShape
<1>18. CallsApart'
  <2>1. \A c, d \in due' : c = d
    BY <1>7
  <2>2. \A c \in due' : c.call # 0 => ~CallTaken(c.call)'
    <3>1. SUFFICES ASSUME NEW c \in due', c.call # 0 PROVE ~CallTaken(c.call)'
      OBVIOUS
    <3>2. c = EventChunk(i, sent'[i]) /\ c.call = i
      BY <1>4, <1>7, <1>8, <3>1
    <3>3. answer[i].kind = "call"
      BY <1>4, <1>7, <1>8, <3>1, <3>2 DEF StopChunk
    <3>4. QED
      BY <1>3, <1>12, <3>2, <3>3
  <2>3. QED
    BY <1>1, <1>2, <2>1, <2>2 DEF CallsApart
<1>19. QED
  BY <1>1, <1>16, <1>17, <1>18 DEF AdapterIInv, Gathers

LEMMA PassedEnd ==
  ASSUME AdapterIInv, ~Gathers, EndStream
  PROVE  AdapterIInv'
<1>1. /\ adapter.wire = "block" /\ ~adapter.holds
      /\ link.phase = "open" /\ due = {} /\ due' = {} /\ held' = Nothing
      /\ link' = [link EXCEPT !.phase = IF AllSent THEN "closed" ELSE "cut"]
      /\ UNCHANGED <<adapter, answer, sent, taken, reading, mixed, untidy, said>>
  BY DEF EndStream, Open, Gathers
<1>2. /\ AdapterShape /\ AnswerShape /\ CallsApart /\ BlocksPassed
      /\ link \in [phase : {"asked", "open", "closed", "cut", "threw"}, again : BOOLEAN,
                   finish : Reasons]
  BY <1>1 DEF AdapterIInv, AdapterShape
<1>3. \A k : CallTaken(k)' <=> CallTaken(k)
  BY <1>1 DEF CallTaken
<1>4. /\ link' \in [phase : {"asked", "open", "closed", "cut", "threw"}, again : BOOLEAN,
                    finish : Reasons]
      /\ link'.phase = "closed" => AllSent
  BY <1>1, <1>2
<1>5. AdapterShape'
  <2>1. held' \in [Blocks -> HeldRecord]
    BY <1>1 DEF Nothing, NotHeld, HeldRecord
  <2>2. QED
    BY <1>1, <1>2, <1>4, <2>1 DEF AdapterShape, AnswerShape
<1>6. CallsApart'
  BY <1>1, <1>2 DEF CallsApart
<1>7. \A k \in Blocks : answer[k].kind = "call" => BlockPassed(k)'
  <2> SUFFICES ASSUME NEW k \in Blocks, answer[k].kind = "call" PROVE BlockPassed(k)'
    OBVIOUS
  <2>1. BlockPassed(k)
    BY <1>2 DEF BlocksPassed
  <2>2. Key(k)' = Key(k) /\ \A n : PendingAfter(k, n)' = PendingAfter(k, n)
    BY <1>1 DEF Key, PendingAfter, PieceForm
  <2>3. QED
    BY <1>1, <1>3, <2>1, <2>2 DEF BlockPassed
<1>8. Called' = Called /\ AllSent' = AllSent /\ \A k : Key(k)' = Key(k)
  BY <1>1 DEF Called, AllSent, Key
<1>9. BlocksPassed'
  BY <1>1, <1>2, <1>3, <1>4, <1>7, <1>8 DEF BlocksPassed
<1>10. QED
  BY <1>1, <1>5, <1>6, <1>9 DEF AdapterIInv, Gathers

(* What is recorded of the call of block i once n of its events are taken. *)
LEMMA PendingFacts ==
  ASSUME AdapterShape, adapter.wire = "block", ~adapter.holds, NEW i \in Blocks,
         answer[i].kind = "call", NEW n \in 1..(answer[i].size + 1)
  PROVE  /\ PendingAfter(i, n) \in Pending /\ PendingAfter(i, n) # NoEntry
         /\ PendingAfter(i, n).call = i /\ PendingAfter(i, n).n = n - 1
         /\ PendingAfter(i, n).form = IF n = 1 THEN "none" ELSE PieceForm
<1>1. /\ i \in Nat /\ i # 0 /\ i <= MaxBlocks /\ MaxBlocks \in Nat /\ answer[i].size \in Nat
      /\ adapter.indexed \in BOOLEAN
  BY AnswerAssumption, AdapterFacts DEF Blocks, AdapterShape, AnswerShape
<1>2. PendingAfter(i, n) = [call |-> i, n |-> n - 1, form |-> IF n = 1 THEN "none" ELSE PieceForm]
  BY <1>1 DEF PendingAfter
<1>3. PieceForm \in {"quoted", "object"}
  BY <1>1 DEF PieceForm
<1>4. PendingAfter(i, n) \in Pending
  BY <1>1, <1>2, <1>3 DEF Pending, Forms
<1>5. QED
  BY <1>1, <1>2, <1>4 DEF NoEntry

(* And what is made of them when no more come.                             *)
LEMMA OutcomeFacts ==
  ASSUME AdapterShape, adapter.wire = "block", ~adapter.holds, NEW i \in Blocks,
         answer[i].kind = "call", NEW n \in 1..(answer[i].size + 1)
  PROVE  /\ i \in Called
         /\ [call |-> i, how |-> Outcome(PendingAfter(i, n))] \in Recorded
         /\ \/ Outcome(PendingAfter(i, n)) = "whole"
            \/ Outcome(PendingAfter(i, n)) = "refused" /\ adapter.indexed
            \/ Outcome(PendingAfter(i, n)) = "empty" /\ n # answer[i].size + 1
<1>1. /\ i \in Nat /\ i # 0 /\ i <= MaxBlocks /\ MaxBlocks \in Nat /\ answer[i].size \in Nat
      /\ adapter.indexed \in BOOLEAN
  BY AnswerAssumption, AdapterFacts DEF Blocks, AdapterShape, AnswerShape
<1>2. PieceForm \in {"quoted", "object"} /\ (PieceForm = "quoted" => adapter.indexed)
  BY <1>1 DEF PieceForm
<1>3. /\ PendingAfter(i, n).call = i /\ PendingAfter(i, n).n = n - 1
      /\ PendingAfter(i, n).form = IF n = 1 THEN "none" ELSE PieceForm
  BY PendingFacts
<1>4. i \in Called
  BY DEF Called
<1>5. CASE n = 1
  <2>1. Outcome(PendingAfter(i, n)) = IF answer[i].size = 0 THEN "whole" ELSE "empty"
    BY <1>1, <1>3, <1>5 DEF Outcome
  <2>2. QED
    BY <1>1, <1>4, <1>5, <2>1 DEF Recorded
<1>6. CASE n # 1 /\ PieceForm = "quoted"
  <2>1. Outcome(PendingAfter(i, n)) = "refused"
    BY <1>1, <1>3, <1>6 DEF Outcome
  <2>2. QED
    BY <1>1, <1>2, <1>4, <1>6, <2>1 DEF Recorded
<1>7. CASE n # 1 /\ PieceForm = "object"
  <2>1. Outcome(PendingAfter(i, n)) = "whole"
    BY <1>1, <1>3, <1>7 DEF Outcome
  <2>2. QED
    BY <1>1, <1>4, <1>7, <2>1 DEF Recorded
<1>8. QED
  BY <1>2, <1>5, <1>6, <1>7

LEMMA PassedTake ==
  ASSUME AdapterIInv, ~Gathers, NEW c \in due, TakeChunk(c)
  PROVE  AdapterIInv'
<1>1. /\ adapter.wire = "block" /\ ~adapter.holds
      /\ due' = due \ {c} /\ taken' = Take(taken, c)
      /\ UNCHANGED <<adapter, answer, link, sent, held, reading, mixed, untidy, said>>
  BY DEF TakeChunk, Gathers
<1>2. /\ AdapterShape /\ AnswerShape /\ CallsApart /\ BlocksPassed
      /\ sent \in [Blocks -> Nat] /\ taken.calls \in Seq(Recorded)
      /\ taken.pending \in [Keys -> Pending] /\ due \subseteq Chunk
      /\ answer \in [Blocks -> [kind : {"text", "call", "inline"}, size : Nat]]
      /\ adapter.indexed \in BOOLEAN /\ link.phase = "open"
  BY <1>1, AdapterFacts DEF AdapterIInv, AdapterShape, AnswerShape, BlocksPassed
<1>3. PICK i \in Blocks : /\ due = {c} /\ sent[i] > 0
                          /\ \/ answer[i].kind = "call" /\ c = EventChunk(i, sent[i]) /\ ~CallTaken(i)
                             \/ answer[i].kind = "text" /\ c = StopChunk(i) /\ adapter.indexed
                                /\ sent[i] = answer[i].size + 2
  BY <1>2 DEF BlocksPassed
<1>4. /\ due' = {} /\ i \in Nat /\ i # 0 /\ Key(i) \in Keys
      /\ \A k \in Blocks : sent[k] \in Nat /\ answer[k].size \in Nat
  <2>1. i \in Nat /\ i # 0 /\ Key(i) \in Keys
    BY <1>2, AnswerAssumption DEF Blocks, Key, Keys
  <2>2. \A k \in Blocks : sent[k] \in Nat /\ answer[k].size \in Nat
    BY <1>2
  <2>3. QED
    BY <1>1, <1>3, <2>1, <2>2
<1>5. \A k \in Blocks : answer[k].kind = "call" => BlockPassed(k)
  BY <1>2 DEF BlocksPassed
<1>6. \A k, n : /\ EventChunk(k, n)' = EventChunk(k, n) /\ StopChunk(k)' = StopChunk(k)
                /\ Key(k)' = Key(k) /\ PendingAfter(k, n)' = PendingAfter(k, n)
  BY <1>1 DEF EventChunk, StopChunk, PieceForm, Key, Partial, PendingAfter
<1>7. Called' = Called
  BY <1>1 DEF Called
<1>8. taken.pending[Key(i)] \in Pending /\ \A k \in Keys : taken.pending[k] \in Pending
  BY <1>2, <1>4
(* The rest of the step, from what becomes of the pending entry and of the *)
(* calls taken.                                                            *)
<1>9. ASSUME NEW e \in Pending, taken'.pending = [taken.pending EXCEPT ![Key(i)] = e],
             taken'.calls \in Seq(Recorded), taken' \in [pending : [Keys -> Pending], calls : Seq(Recorded)],
             \A k \in Blocks : k # i => (CallTaken(k)' <=> CallTaken(k)),
             e # NoEntry => answer[i].kind = "call" /\ e.call = i /\ ~CallTaken(i)',
             answer[i].kind = "call" =>
               \/ ~CallTaken(i)' /\ sent[i] <= answer[i].size + 1 /\ e = PendingAfter(i, sent[i])
               \/ CallTaken(i)' /\ sent[i] = answer[i].size + 2,
             \A k \in Blocks \ {i} : answer[k].kind = "call" =>
               \/ sent[k] = 0 /\ ~CallTaken(k)
               \/ CallTaken(k) /\ sent[k] = answer[k].size + 2,
             \A k, l \in DOMAIN taken'.calls :
               taken'.calls[k].call = taken'.calls[l].call /\ taken'.calls[k].call # 0 => k = l,
             \A k \in DOMAIN taken'.calls :
               \/ \E l \in DOMAIN taken.calls : taken'.calls[k] = taken.calls[l]
               \/ taken'.calls[k].call = 0 /\ taken'.calls[k].how = "refused" /\ adapter.indexed
               \/ /\ taken'.calls[k].call \in Called
                  /\ \/ taken'.calls[k].how = "whole"
                     \/ taken'.calls[k].how = "refused" /\ adapter.indexed
      PROVE  AdapterIInv'
  <2>1. AdapterShape'
    BY <1>1, <1>2, <1>4, <1>9 DEF AdapterShape, AnswerShape
  <2>2. CallsApart'
    BY <1>4, <1>9 DEF CallsApart
  <2>3. \A k \in Blocks : answer[k].kind = "call" => BlockPassed(k)'
    <3> SUFFICES ASSUME NEW k \in Blocks, answer[k].kind = "call" PROVE BlockPassed(k)'
      OBVIOUS
    <3>1. CASE k # i
      BY <1>1, <1>9, <3>1 DEF BlockPassed
    <3>2. CASE k = i
      <4>1. taken'.pending[Key(i)] = e
        BY <1>2, <1>4, <1>9
      <4>2. QED
        BY <1>1, <1>3, <1>4, <1>6, <1>9, <3>2, <4>1 DEF BlockPassed
    <3>3. QED
      BY <3>1, <3>2
  <2>4. ASSUME NEW k \in Keys, taken'.pending[k] # NoEntry
        PROVE  \E b \in Blocks : /\ answer[b].kind = "call" /\ k = Key(b) /\ taken'.pending[k].call = b
                                 /\ sent[b] > 0 /\ ~CallTaken(b)'
    <3>1. CASE k = Key(i)
      <4>1. taken'.pending[k] = e
        BY <1>2, <1>4, <1>9, <3>1
      <4>2. QED
        BY <1>3, <1>9, <2>4, <3>1, <4>1
    <3>2. CASE k # Key(i)
      <4>1. taken'.pending[k] = taken.pending[k]
        BY <1>2, <1>9, <3>2
      <4>2. PICK b \in Blocks : /\ answer[b].kind = "call" /\ k = Key(b) /\ taken.pending[k].call = b
                                /\ sent[b] > 0 /\ ~CallTaken(b)
        BY <1>2, <2>4, <4>1 DEF BlocksPassed
      <4>3. b # i
        BY <3>2, <4>2
      <4>4. QED
        BY <1>9, <4>1, <4>2, <4>3
    <3>3. QED
      BY <3>1, <3>2
  <2>5. \A k \in DOMAIN taken'.calls :
       \/ taken'.calls[k].call = 0 /\ taken'.calls[k].how = "refused" /\ adapter.indexed
       \/ /\ taken'.calls[k].call \in Called
          /\ \/ taken'.calls[k].how = "whole"
             \/ taken'.calls[k].how = "refused" /\ adapter.indexed
    <3>1. \A k \in DOMAIN taken.calls :
       \/ taken.calls[k].call = 0 /\ taken.calls[k].how = "refused" /\ adapter.indexed
       \/ /\ taken.calls[k].call \in Called
          /\ \/ taken.calls[k].how = "whole"
             \/ taken.calls[k].how = "refused" /\ adapter.indexed
      BY <1>2 DEF BlocksPassed
    <3>2. QED
      BY <1>9, <3>1
  <2>6. \A k, l \in Blocks : k < l /\ sent[l] > 0 => sent[k] = answer[k].size + 2
    BY <1>2 DEF BlocksPassed
  <2>7. BlocksPassed'
    BY <1>1, <1>2, <1>4, <1>6, <1>7, <2>3, <2>4, <2>5, <2>6 DEF BlocksPassed
  <2>8. QED
    BY <1>1, <2>1, <2>2, <2>7 DEF AdapterIInv, Gathers
<1>10. ASSUME NEW r \in Recorded, taken'.calls = Append(taken.calls, r), r.call # 0 => ~CallTaken(r.call)
       PROVE  /\ taken'.calls \in Seq(Recorded)
              /\ \A k : CallTaken(k)' => CallTaken(k) \/ k = r.call
              /\ \A k : CallTaken(k) \/ k = r.call => CallTaken(k)'
              /\ \A k, l \in DOMAIN taken'.calls :
                   taken'.calls[k].call = taken'.calls[l].call /\ taken'.calls[k].call # 0 => k = l
              /\ \A k \in DOMAIN taken'.calls :
                   taken'.calls[k] = r \/ \E l \in DOMAIN taken.calls : taken'.calls[k] = taken.calls[l]
  <2>1. \A k, l \in DOMAIN taken.calls :
           taken.calls[k].call = taken.calls[l].call /\ taken.calls[k].call # 0 => k = l
    BY <1>2 DEF CallsApart
  <2>2. QED
    BY <1>2, <1>10, <2>1, TakenOnce
<1>11. ASSUME answer[i].kind = "call", c = EventChunk(i, sent[i]), ~CallTaken(i)
       PROVE  AdapterIInv'
  <2>1. /\ sent[i] \in 1..(answer[i].size + 2)
        /\ taken.pending[Key(i)] = PendingAfter(i, sent[i] - 1)
    <3>1. BlockPassed(i) /\ sent[i] # 0 /\ due # {}
      BY <1>3, <1>4, <1>5, <1>11
    <3>2. QED
      BY <1>11, <3>1 DEF BlockPassed
  <2>2. /\ c.key = Key(i) /\ c.call = IF sent[i] = answer[i].size + 2 THEN 0 ELSE i
        /\ c.done <=> sent[i] = answer[i].size + 2
        /\ c.form = IF sent[i] \in 2..(answer[i].size + 1) THEN PieceForm ELSE "none"
        /\ c.n = IF sent[i] \in 2..(answer[i].size + 1) THEN 1 ELSE 0
        /\ c \in Chunk
    BY <1>1, <1>2, <1>11, <2>1, ChunkOfEvent
  <2>3. ASSUME NEW k \in Blocks \ {i}, answer[k].kind = "call"
        PROVE  \/ sent[k] = 0 /\ ~CallTaken(k)
               \/ CallTaken(k) /\ sent[k] = answer[k].size + 2
    <3>1. BlockPassed(k)
      BY <1>5, <2>3
    <3>2. ASSUME sent[k] \in 1..(answer[k].size + 2), ~CallTaken(k), due = {EventChunk(k, sent[k])},
                 taken.pending[Key(k)] = PendingAfter(k, sent[k] - 1)
          PROVE  FALSE
      <4>1. EventChunk(k, sent[k]) = c
        BY <1>3, <3>2
      <4>2. c.key = Key(k) /\ c.call = IF sent[k] = answer[k].size + 2 THEN 0 ELSE k
        BY <1>1, <1>2, <2>3, <3>2, <4>1, ChunkOfEvent
      <4>3. k \in Nat /\ k # 0
        BY <2>3 DEF Blocks
      <4>4. sent[k] = answer[k].size + 2 /\ sent[i] = answer[i].size + 2
        BY <1>4, <2>2, <2>3, <4>2, <4>3
      <4>5. PendingAfter(k, sent[k] - 1) = PendingAfter(i, sent[i] - 1)
        BY <2>1, <2>2, <3>2, <4>2
      <4>6. sent[k] - 1 \in 1..(answer[k].size + 1) /\ sent[i] - 1 \in 1..(answer[i].size + 1)
        <5>1. answer[k].size \in Nat /\ answer[i].size \in Nat
          BY <1>4, <2>3
        <5>2. QED
          BY <4>4, <5>1
      <4>7. PendingAfter(i, sent[i] - 1).call = i
        BY <1>1, <1>2, <1>11, <4>6, PendingFacts
      <4>8. PendingAfter(k, sent[k] - 1).call = k
        BY <1>1, <1>2, <2>3, <4>6, PendingFacts
      <4>9. QED
        BY <2>3, <4>5, <4>7, <4>8
    <3>3. QED
      BY <1>2, <1>3, <3>1, <3>2 DEF BlockPassed
  <2>4. CASE sent[i] <= answer[i].size + 1
    <3>1. sent[i] \in 1..(answer[i].size + 1) /\ sent[i] # answer[i].size + 2
      BY <1>4, <2>1, <2>4
    <3>2. /\ PendingAfter(i, sent[i]) \in Pending /\ PendingAfter(i, sent[i]) # NoEntry
          /\ PendingAfter(i, sent[i]).call = i
      BY <1>1, <1>2, <1>11, <3>1, PendingFacts
    <3> DEFINE old == taken.pending[c.key]
               e == [call |-> IF c.call # 0 THEN c.call ELSE old.call,
                     form |-> IF c.form # "none" THEN c.form ELSE old.form,
                     n |-> old.n + c.n]
    <3>3. e = PendingAfter(i, sent[i])
      <4>1. CASE sent[i] = 1
        <5>1. old = NoEntry /\ c.form = "none" /\ c.n = 0 /\ c.call = i
          BY <1>4, <2>1, <2>2, <3>1, <4>1 DEF PendingAfter
        <5>2. PendingAfter(i, sent[i]) = [call |-> i, n |-> 0, form |-> "none"]
          BY <4>1 DEF PendingAfter
        <5>3. QED
          BY <1>4, <5>1, <5>2 DEF NoEntry
      <4>2. CASE sent[i] # 1
        <5>1. sent[i] \in 2..(answer[i].size + 1) /\ sent[i] - 1 \in 1..(answer[i].size + 1)
          BY <1>4, <3>1, <4>2
        <5>2. c.form = PieceForm /\ c.n = 1 /\ c.call = i /\ old.n = sent[i] - 2
          <6>1. PendingAfter(i, sent[i] - 1).n = sent[i] - 1 - 1
            BY <1>1, <1>2, <1>11, <5>1, PendingFacts
          <6>2. QED
            BY <1>4, <2>1, <2>2, <3>1, <5>1, <6>1
        <5>3. PendingAfter(i, sent[i]) = [call |-> i, n |-> sent[i] - 1, form |-> PieceForm]
          BY <3>1, <4>2 DEF PendingAfter
        <5>4. PieceForm # "none"
          BY DEF PieceForm
        <5>5. QED
          BY <1>4, <5>1, <5>2, <5>3, <5>4
      <4>3. QED
        BY <4>1, <4>2
    <3>4. taken' = [taken EXCEPT !.pending[Key(i)] = PendingAfter(i, sent[i])]
      <4>1. ~c.done
        BY <2>2, <3>1
      <4>2. Take(taken, c) = [taken EXCEPT !.pending[c.key] = e]
        BY <4>1 DEF Take
      <4> HIDE DEF e
      <4>3. QED
        BY <1>1, <2>2, <3>3, <4>2
    <3> HIDE DEF e, old
    <3>5. /\ taken'.pending = [taken.pending EXCEPT ![Key(i)] = PendingAfter(i, sent[i])]
          /\ taken'.calls = taken.calls
          /\ taken' \in [pending : [Keys -> Pending], calls : Seq(Recorded)]
      BY <1>2, <1>4, <3>2, <3>4 DEF AdapterShape
    <3>6. \A k : CallTaken(k)' <=> CallTaken(k)
      BY <3>5 DEF CallTaken
    <3>7. \A k, l \in DOMAIN taken'.calls :
               taken'.calls[k].call = taken'.calls[l].call /\ taken'.calls[k].call # 0 => k = l
      BY <1>2, <3>5 DEF CallsApart
    <3>8. QED
      BY <1>2, <1>9, <1>11, <2>3, <2>4, <3>2, <3>5, <3>6, <3>7
  <2>5. CASE sent[i] = answer[i].size + 2
    <3>1. sent[i] - 1 \in 1..(answer[i].size + 1) /\ sent[i] - 1 = answer[i].size + 1
      BY <1>4, <2>5
    <3> DEFINE p == PendingAfter(i, sent[i] - 1)
    <3>2. p \in Pending /\ p.call = i
      BY <1>1, <1>2, <1>11, <3>1, PendingFacts
    <3>3. /\ p \in Pending /\ p.call = i /\ i \in Called
          /\ [call |-> i, how |-> Outcome(p)] \in Recorded
          /\ Outcome(p) = "whole" \/ (Outcome(p) = "refused" /\ adapter.indexed)
      BY <1>1, <1>2, <1>11, <3>1, <3>2, OutcomeFacts
    <3> HIDE DEF p
    <3>4. /\ c.call = 0 /\ c.form = "none" /\ c.n = 0 /\ c.done /\ c.key = Key(i)
          /\ taken.pending[Key(i)] = p
      BY <1>4, <2>1, <2>2, <2>5 DEF p
    <3>5. [call |-> p.call, form |-> p.form, n |-> p.n + 0] = p
      BY <3>3 DEF Pending
    <3>6. taken' = [pending |-> [taken.pending EXCEPT ![Key(i)] = NoEntry],
                    calls |-> AddCall(taken.calls, p)]
      BY <1>1, <3>4, <3>5 DEF Take
    <3>7. PICK r \in Recorded : r = [call |-> i, how |-> Outcome(p)]
      BY <3>3
    <3>8. AddCall(taken.calls, p) = Append(taken.calls, r) /\ r.call = i /\ r.how = Outcome(p)
      BY <3>3, <3>7 DEF AddCall
    <3>9. taken'.calls = Append(taken.calls, r) /\ taken'.pending = [taken.pending EXCEPT ![Key(i)] = NoEntry]
      BY <3>6, <3>8
    <3>10. /\ taken'.calls \in Seq(Recorded)
           /\ \A k : CallTaken(k)' => CallTaken(k) \/ k = r.call
           /\ \A k : CallTaken(k) \/ k = r.call => CallTaken(k)'
           /\ \A k, l \in DOMAIN taken'.calls :
                taken'.calls[k].call = taken'.calls[l].call /\ taken'.calls[k].call # 0 => k = l
           /\ \A k \in DOMAIN taken'.calls :
                taken'.calls[k] = r \/ \E l \in DOMAIN taken.calls : taken'.calls[k] = taken.calls[l]
      BY <1>10, <1>11, <3>8, <3>9
    <3>11. NoEntry \in Pending
      BY AnswerAssumption DEF NoEntry, Pending, Forms
    <3>12. taken' \in [pending : [Keys -> Pending], calls : Seq(Recorded)]
      BY <1>2, <3>6, <3>9, <3>10, <3>11
    <3>13. CallTaken(i)' /\ \A k \in Blocks : k # i => (CallTaken(k)' <=> CallTaken(k))
      BY <3>8, <3>10
    <3>14. \A k \in DOMAIN taken'.calls :
             \/ \E l \in DOMAIN taken.calls : taken'.calls[k] = taken.calls[l]
             \/ taken'.calls[k].call = 0 /\ taken'.calls[k].how = "refused" /\ adapter.indexed
             \/ /\ taken'.calls[k].call \in Called
                /\ \/ taken'.calls[k].how = "whole"
                   \/ taken'.calls[k].how = "refused" /\ adapter.indexed
      BY <3>3, <3>8, <3>10
    <3>15. \A k, l \in DOMAIN taken'.calls :
             taken'.calls[k].call = taken'.calls[l].call /\ taken'.calls[k].call # 0 => k = l
      BY <3>10
    <3>16. QED
      BY <1>9, <2>3, <2>5, <3>9, <3>10, <3>11, <3>12, <3>13, <3>14, <3>15
  <2>6. QED
    BY <1>4, <2>1, <2>4, <2>5
<1>12. ASSUME answer[i].kind = "text", c = StopChunk(i), adapter.indexed
       PROVE  AdapterIInv'
  <2>1. c.key = i /\ c.call = 0 /\ c.form = "none" /\ c.n = 0 /\ c.done /\ \A k : Key(k) = k
    BY <1>12 DEF StopChunk, Key
  <2>2. taken.pending[i] = NoEntry
    BY <1>2, <1>4, <1>12, <2>1 DEF BlocksPassed
  <2>3. taken' = [pending |-> [taken.pending EXCEPT ![i] = NoEntry], calls |-> AddCall(taken.calls, NoEntry)]
    BY <1>1, <2>1, <2>2 DEF Take, NoEntry
  <2>4. [call |-> 0, how |-> "refused"] \in Recorded
    BY AnswerAssumption DEF Recorded
  <2>5. PICK r \in Recorded : r = [call |-> 0, how |-> "refused"]
    BY <2>4
  <2>6. AddCall(taken.calls, NoEntry) = Append(taken.calls, r) /\ r.call = 0 /\ r.how = "refused"
    BY <2>5 DEF AddCall, Outcome, NoEntry
  <2>7. taken'.calls = Append(taken.calls, r) /\ taken'.pending = [taken.pending EXCEPT ![Key(i)] = NoEntry]
    BY <2>1, <2>3, <2>6
  <2>8. /\ taken'.calls \in Seq(Recorded)
        /\ \A k : CallTaken(k)' => CallTaken(k) \/ k = r.call
        /\ \A k : CallTaken(k) \/ k = r.call => CallTaken(k)'
        /\ \A k, l \in DOMAIN taken'.calls :
             taken'.calls[k].call = taken'.calls[l].call /\ taken'.calls[k].call # 0 => k = l
        /\ \A k \in DOMAIN taken'.calls :
             taken'.calls[k] = r \/ \E l \in DOMAIN taken.calls : taken'.calls[k] = taken.calls[l]
    BY <1>10, <2>6, <2>7
  <2>9. NoEntry \in Pending
    BY AnswerAssumption DEF NoEntry, Pending, Forms
  <2>10. taken' \in [pending : [Keys -> Pending], calls : Seq(Recorded)]
    BY <1>2, <2>3, <2>7, <2>8, <2>9
  <2>11. ASSUME NEW k \in Blocks \ {i}, answer[k].kind = "call"
         PROVE  /\ k # 0
                /\ \/ sent[k] = 0 /\ ~CallTaken(k)
                   \/ CallTaken(k) /\ sent[k] = answer[k].size + 2
    <3>1. BlockPassed(k) /\ k # 0
      BY <1>5, <2>11 DEF Blocks
    <3>2. ASSUME sent[k] \in 1..(answer[k].size + 2), due = {EventChunk(k, sent[k])}
          PROVE  FALSE
      <4>1. EventChunk(k, sent[k]).key = Key(k)
        BY <1>1, <1>2, <2>11, <3>2, ChunkOfEvent
      <4>2. QED
        BY <1>3, <2>1, <2>11, <3>2, <4>1
    <3>3. QED
      BY <1>2, <1>3, <3>1, <3>2 DEF BlockPassed
  <2>12. \A k \in Blocks : k # i => (CallTaken(k)' <=> CallTaken(k))
    BY <2>6, <2>8 DEF Blocks
  <2>13. QED
    BY <1>9, <1>12, <2>6, <2>7, <2>8, <2>9, <2>10, <2>11, <2>12
<1>13. QED
  BY <1>3, <1>11, <1>12

(* After the end: only a block that was not collected can be pending, and  *)
(* only if the answer broke off within it.                                 *)
LEMMA PassedRest ==
  ASSUME AdapterIInv, NEW key \in Keys, TakeRest(key)
  PROVE  AdapterIInv'
<1>1. /\ link.phase \in {"closed", "cut"} /\ due = {} /\ due' = {}
      /\ taken.pending[key] # NoEntry
      /\ taken' = [pending |-> [taken.pending EXCEPT ![key] = NoEntry],
                   calls |-> AddCall(taken.calls, taken.pending[key])]
      /\ UNCHANGED <<adapter, answer, link, sent, held, reading, mixed, untidy, said>>
  BY DEF TakeRest
<1>2. ~Gathers /\ adapter.wire = "block" /\ ~adapter.holds
  BY <1>1 DEF AdapterIInv, GatheredWhole, Gathers
<1>3. /\ AdapterShape /\ AnswerShape /\ CallsApart /\ BlocksPassed
      /\ sent \in [Blocks -> Nat] /\ taken.calls \in Seq(Recorded)
      /\ taken.pending \in [Keys -> Pending]
      /\ answer \in [Blocks -> [kind : {"text", "call", "inline"}, size : Nat]]
  BY <1>2 DEF AdapterIInv, AdapterShape, AnswerShape
<1>4. PICK i \in Blocks : /\ answer[i].kind = "call" /\ key = Key(i) /\ taken.pending[key].call = i
                          /\ sent[i] > 0 /\ ~CallTaken(i)
  BY <1>1, <1>3 DEF BlocksPassed
<1>5. \A k \in Blocks : sent[k] \in Nat /\ answer[k].size \in Nat /\ k \in Nat /\ k # 0
  BY <1>3 DEF Blocks
<1>6. \A k \in Blocks : answer[k].kind = "call" => BlockPassed(k)
  BY <1>3 DEF BlocksPassed
<1>7. sent[i] \in 1..(answer[i].size + 1) /\ taken.pending[key] = PendingAfter(i, sent[i])
  <2>1. BlockPassed(i) /\ due # {EventChunk(i, sent[i])} /\ sent[i] # 0
    BY <1>1, <1>4, <1>5, <1>6
  <2>2. QED
    BY <1>4, <2>1 DEF BlockPassed
<1>8. link.phase = "cut"
  <2>1. sent[i] # answer[i].size + 2
    BY <1>5, <1>7
  <2>2. ~AllSent
    BY <1>2, <2>1 DEF AllSent
  <2>3. QED
    BY <1>1, <1>3, <2>2 DEF BlocksPassed
<1>9. PICK p : p = taken.pending[key]
  OBVIOUS
<1>10. p = PendingAfter(i, sent[i]) /\ p.call = i
  BY <1>4, <1>7, <1>9
<1>11. /\ i \in Called /\ [call |-> i, how |-> Outcome(p)] \in Recorded
       /\ \/ Outcome(p) = "whole"
          \/ Outcome(p) = "refused" /\ adapter.indexed
          \/ Outcome(p) = "empty"
  <2>1. /\ i \in Called
        /\ [call |-> i, how |-> Outcome(PendingAfter(i, sent[i]))] \in Recorded
        /\ \/ Outcome(PendingAfter(i, sent[i])) = "whole"
           \/ Outcome(PendingAfter(i, sent[i])) = "refused" /\ adapter.indexed
           \/ Outcome(PendingAfter(i, sent[i])) = "empty" /\ sent[i] # answer[i].size + 1
    BY <1>2, <1>3, <1>4, <1>7, OutcomeFacts
  <2>2. QED
    BY <1>10, <2>1
<1>12. PICK r \in Recorded : r = [call |-> i, how |-> Outcome(p)]
  BY <1>11
<1>13. /\ AddCall(taken.calls, p) = Append(taken.calls, r) /\ r.call = i /\ r.how = Outcome(p)
       /\ taken'.calls = Append(taken.calls, r)
       /\ taken'.pending = [taken.pending EXCEPT ![key] = NoEntry]
  BY <1>1, <1>9, <1>10, <1>12 DEF AddCall
<1>14. /\ taken'.calls \in Seq(Recorded)
       /\ \A k : CallTaken(k)' => CallTaken(k) \/ k = r.call
       /\ \A k : CallTaken(k) \/ k = r.call => CallTaken(k)'
       /\ \A k, l \in DOMAIN taken'.calls :
            taken'.calls[k].call = taken'.calls[l].call /\ taken'.calls[k].call # 0 => k = l
       /\ \A k \in DOMAIN taken'.calls :
            taken'.calls[k] = r \/ \E l \in DOMAIN taken.calls : taken'.calls[k] = taken.calls[l]
  <2>1. \A k, l \in DOMAIN taken.calls :
           taken.calls[k].call = taken.calls[l].call /\ taken.calls[k].call # 0 => k = l
    BY <1>3 DEF CallsApart
  <2>2. r.call # 0 => ~CallTaken(r.call)
    BY <1>4, <1>13
  <2>3. QED
    BY <1>3, <1>13, <2>1, <2>2, TakenOnce
<1>15. AdapterShape'
  <2>1. NoEntry \in Pending
    BY AnswerAssumption DEF NoEntry, Pending, Forms
  <2>2. taken' \in [pending : [Keys -> Pending], calls : Seq(Recorded)]
    BY <1>1, <1>3, <1>13, <1>14, <2>1
  <2>3. QED
    BY <1>1, <1>3, <2>2 DEF AdapterShape, AnswerShape
<1>16. CallsApart'
  BY <1>1, <1>14 DEF CallsApart
<1>17. \A k, n : /\ EventChunk(k, n)' = EventChunk(k, n) /\ Key(k)' = Key(k)
                 /\ PendingAfter(k, n)' = PendingAfter(k, n)
  BY <1>1 DEF EventChunk, StopChunk, PieceForm, Key, Partial, PendingAfter
<1>18. \A k, l \in Blocks : k < l /\ sent[l] > 0 => sent[k] = answer[k].size + 2
  BY <1>3 DEF BlocksPassed
<1>19. \A k \in Blocks : answer[k].kind = "call" => BlockPassed(k)'
  <2> SUFFICES ASSUME NEW k \in Blocks, answer[k].kind = "call" PROVE BlockPassed(k)'
    OBVIOUS
  <2>1. CASE k = i
    BY <1>1, <1>4, <1>8, <1>13, <1>14, <2>1 DEF BlockPassed
  <2>2. CASE k # i
    <3>1. sent[k] \notin 1..(answer[k].size + 1)
      BY <1>4, <1>5, <1>7, <1>18, <2>2
    <3>2. CallTaken(k)' <=> CallTaken(k)
      BY <1>13, <1>14, <2>2
    <3>3. due # {EventChunk(k, sent[k])} /\ BlockPassed(k)
      BY <1>1, <1>6
    <3>4. QED
      BY <1>1, <1>8, <3>1, <3>2, <3>3 DEF BlockPassed
  <2>3. QED
    BY <2>1, <2>2
<1>20. ASSUME NEW k \in Keys, taken'.pending[k] # NoEntry
       PROVE  \E b \in Blocks : /\ answer[b].kind = "call" /\ k = Key(b) /\ taken'.pending[k].call = b
                                /\ sent[b] > 0 /\ ~CallTaken(b)'
  <2>1. k # key
    BY <1>3, <1>13, <1>20
  <2>2. taken'.pending[k] = taken.pending[k]
    BY <1>3, <1>13, <2>1
  <2>3. PICK b \in Blocks : /\ answer[b].kind = "call" /\ k = Key(b) /\ taken.pending[k].call = b
                            /\ sent[b] > 0 /\ ~CallTaken(b)
    BY <1>3, <1>20, <2>2 DEF BlocksPassed
  <2>4. b # i
    BY <1>4, <2>1, <2>3
  <2>5. QED
    BY <1>13, <1>14, <2>2, <2>3, <2>4
<1>21. \A k \in DOMAIN taken'.calls :
       \/ taken'.calls[k].call = 0 /\ taken'.calls[k].how = "refused" /\ adapter.indexed
       \/ /\ taken'.calls[k].call \in Called
          /\ \/ taken'.calls[k].how = "whole"
             \/ taken'.calls[k].how = "refused" /\ adapter.indexed
             \/ taken'.calls[k].how = "empty" /\ link.phase = "cut"
  <2>1. \A k \in DOMAIN taken.calls :
       \/ taken.calls[k].call = 0 /\ taken.calls[k].how = "refused" /\ adapter.indexed
       \/ /\ taken.calls[k].call \in Called
          /\ \/ taken.calls[k].how = "whole"
             \/ taken.calls[k].how = "refused" /\ adapter.indexed
             \/ taken.calls[k].how = "empty" /\ link.phase = "cut"
    BY <1>3 DEF BlocksPassed
  <2>2. QED
    BY <1>8, <1>11, <1>13, <1>14, <2>1
<1>22. Called' = Called
  BY <1>1 DEF Called
<1>23. BlocksPassed'
  BY <1>1, <1>8, <1>17, <1>18, <1>19, <1>20, <1>21, <1>22 DEF BlocksPassed
<1>24. QED
  BY <1>1, <1>2, <1>15, <1>16, <1>23 DEF AdapterIInv, Gathers

LEMMA AdapterStep == AdapterIInv /\ [AdapterNext]_adapterVars => AdapterIInv'
<1> SUFFICES ASSUME AdapterIInv, [AdapterNext]_adapterVars PROVE AdapterIInv'
  OBVIOUS
<1>1. CASE ResponseOk \/ AskUncapped \/ StreamThrows
  BY <1>1, LinkStep
<1>2. CASE EndStream
  BY <1>2, GatheredEnd, PassedEnd
<1>3. ASSUME NEW chunk \in due, TakeChunk(chunk) PROVE AdapterIInv'
  BY <1>3, GatheredTakeStep, PassedTake
<1>4. ASSUME NEW key \in Keys, TakeRest(key) PROVE AdapterIInv'
  BY <1>4, PassedRest
<1>5. ASSUME NEW cs \in SUBSET Blocks, NEW reason \in Reasons, ToolDelta(cs, reason)
      PROVE  AdapterIInv'
  BY <1>5, ToolDeltaStep
<1>6. ASSUME NEW cs \in SUBSET Blocks, NEW reason \in Reasons,
             NEW m \in IF Watched THEN Marks ELSE {Plain}, NEW upto \in Nat,
             NEW begins \in BOOLEAN, ContentDelta(m, upto, begins, cs, reason)
      PROVE  AdapterIInv'
  BY <1>6, ContentDeltaStep
<1>7. ASSUME NEW i \in Blocks, BlockStart(i) \/ BlockPiece(i) \/ BlockStop(i) PROVE AdapterIInv'
  <2>1. adapter.holds \in BOOLEAN
    BY AdapterFacts DEF AdapterIInv, AdapterShape, AnswerShape
  <2>2. QED
    BY <1>7, <2>1, HoldStep, PassedEvent
<1>8. ASSUME NEW i \in Blocks, NEW j \in i..MaxBlocks, WholeParts(i, j) PROVE AdapterIInv'
  BY <1>8, WholePartsStep
<1>9. CASE UNCHANGED adapterVars
  <2>1. UNCHANGED <<adapter, answer, link, sent, held, due, taken, reading, mixed, untidy, said>>
    BY <1>9 DEF adapterVars
  <2>2. /\ \A i : CallTaken(i)' <=> CallTaken(i)
        /\ \A i : HandedOn(i)' <=> HandedOn(i)
        /\ \A c : WholeChunk(c)' <=> WholeChunk(c)
        /\ \A r : WholeCall(r)' <=> WholeCall(r)
        /\ Called' = Called /\ AllSent' = AllSent /\ (Gathers' <=> Gathers)
    BY <2>1 DEF CallTaken, HandedOn, WholeChunk, WholeCall, Excused, Spoiled, Called, AllSent,
                Length, Gathers
  <2>3. \A k, n : /\ EventChunk(k, n)' = EventChunk(k, n) /\ StopChunk(k)' = StopChunk(k)
                  /\ Key(k)' = Key(k) /\ PendingAfter(k, n)' = PendingAfter(k, n)
    BY <2>1 DEF EventChunk, StopChunk, PieceForm, Key, Partial, PendingAfter
  <2>4. AdapterShape' /\ CallsApart'
    BY <2>1, <2>2 DEF AdapterIInv, AdapterShape, AnswerShape, CallsApart
  <2>5. Gathers => GatheredWhole'
    BY <2>1, <2>2 DEF AdapterIInv, GatheredWhole
  <2>6. adapter.wire = "delta" => DeltaHeld' /\ InOrder' /\ TidyRead'
    <3>1. adapter.wire = "delta" => DeltaHeld'
      BY <2>1, <2>2 DEF AdapterIInv, DeltaHeld, Deltas, PiecesOf
    <3>2. adapter.wire = "delta" => InOrder' /\ TidyRead'
      BY <2>1, <2>2 DEF AdapterIInv, InOrder, TidyRead, Half
    <3>3. QED
      BY <3>1, <3>2
  <2>7. adapter.wire = "whole" => PartsHanded'
    BY <2>1, <2>2 DEF AdapterIInv, PartsHanded
  <2>8. adapter.wire = "block" /\ adapter.holds => BlocksHeld'
    BY <2>1, <2>2 DEF AdapterIInv, BlocksHeld
  <2>9. \A i : BlockPassed(i) => BlockPassed(i)'
    BY <2>1, <2>2, <2>3 DEF BlockPassed
  <2>10. adapter.wire = "block" /\ ~adapter.holds => BlocksPassed'
    BY <2>1, <2>2, <2>3, <2>9 DEF AdapterIInv, BlocksPassed
  <2>11. QED
    BY <2>1, <2>2, <2>4, <2>5, <2>6, <2>7, <2>8, <2>10 DEF AdapterIInv
<1>10. CASE \E cs \in SUBSET Unsent("call"), reason \in Reasons :
              \/ ToolDelta(cs, reason)
              \/ \E m \in IF Watched THEN Marks ELSE {Plain}, upto \in {0} \cup Unsent("inline"),
                     begins \in {FALSE, Watched} : ContentDelta(m, upto, begins, cs, reason)
  <2>1. SUBSET Unsent("call") \subseteq SUBSET Blocks
    BY DEF Unsent
  <2>2. {0} \cup Unsent("inline") \subseteq Nat
    BY AnswerAssumption DEF Unsent, Blocks
  <2>3. {FALSE, Watched} \subseteq BOOLEAN
    BY DEF Watched
  <2> HIDE DEF Unsent, Watched
  <2>4. QED
    BY <1>5, <1>6, <1>10, <2>1, <2>2, <2>3
<1>11. QED
  BY <1>1, <1>2, <1>3, <1>4, <1>7, <1>8, <1>9, <1>10 DEF AdapterNext

(* Through every adapter, however the provider cuts, ends or breaks off an *)
(* answer and wherever it puts reasoning: no call is run twice, one is run *)
(* with a part of its arguments only after a break, beside content or      *)
(* where a tag of reasoning is in the way, and an answer that arrived in   *)
(* full and in order has exactly its calls run (src/adapters,              *)
(* reasoning/normalizer.ts, client.ts streamText()).                       *)
THEOREM CallsStayFaithful == AdapterSpec => []CallsFaithful
<1>1. AdapterInit => AdapterIInv
  BY AdapterStart
<1>2. AdapterIInv /\ [AdapterNext]_adapterVars => AdapterIInv'
  BY AdapterStep
<1>3. AdapterIInv => CallsFaithful
  BY AdapterImplies
<1>4. QED
  BY <1>1, <1>2, <1>3, PTL DEF AdapterSpec
=============================================================================
