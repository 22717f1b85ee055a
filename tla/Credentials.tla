---------------------------- MODULE Credentials ----------------------------
(***************************************************************************)
(* OidcCredentialProvider (src/credentials/oidc.ts): callers that share a  *)
(* token request, a cache that expires, and invalidate(), which the caller *)
(* uses when the server refused a token.  Each provider has one endpoint,  *)
(* so its two maps hold at most one entry.                                 *)
(***************************************************************************)
EXTENDS Naturals

CONSTANTS
  TokenCallers,
  MaxTokenFetches  \* bound: token requests sent

ASSUME OidcAssumption == MaxTokenFetches \in Nat

VARIABLES
  cache,      \* _cache: the fetch whose token it holds, 0 for none, and validity
  inflight,   \* _inflight: the fetch under way, 0 for none
  fetched,    \* token requests sent so far
  tokenCall,  \* callers: the fetch they await and the token they got
  revoked     \* history: the last fetch over before the latest invalidate()

oidcVars == <<cache, inflight, fetched, tokenCall, revoked>>

TokenIds == 0..MaxTokenFetches

OidcTypeOK ==
  /\ cache \in [token : TokenIds, valid : BOOLEAN]
  /\ inflight \in TokenIds
  /\ fetched \in TokenIds
  /\ tokenCall \in [TokenCallers ->
       [phase : {"idle", "leads", "joined", "got", "failed"}, awaits : TokenIds,
        got : TokenIds, asked : TokenIds]]
  /\ revoked \in TokenIds

(* asked is history: what was revoked when the caller called getToken().   *)
IdleCaller == [phase |-> "idle", awaits |-> 0, got |-> 0, asked |-> 0]

OidcInit ==
  /\ cache = [token |-> 0, valid |-> FALSE]
  /\ inflight = 0
  /\ fetched = 0
  /\ tokenCall = [c \in TokenCallers |-> IdleCaller]
  /\ revoked = 0

CacheUsable == cache.token # 0 /\ cache.valid

(* getToken(): the cached token, the fetch under way, or a new one.        *)
GetToken(c) ==
  /\ tokenCall[c].phase = "idle"
  /\ IF CacheUsable
     THEN /\ tokenCall' = [tokenCall EXCEPT
               ![c] = [phase |-> "got", awaits |-> 0, got |-> cache.token, asked |-> revoked]]
          /\ UNCHANGED <<inflight, fetched>>
     ELSE IF inflight # 0
     THEN /\ tokenCall' = [tokenCall EXCEPT
               ![c] = [phase |-> "joined", awaits |-> inflight, got |-> 0, asked |-> revoked]]
          /\ UNCHANGED <<inflight, fetched>>
     ELSE /\ fetched < MaxTokenFetches
          /\ fetched' = fetched + 1
          /\ inflight' = fetched + 1
          /\ tokenCall' = [tokenCall EXCEPT
               ![c] = [phase |-> "leads", awaits |-> fetched + 1, got |-> 0, asked |-> revoked]]
  /\ UNCHANGED <<cache, revoked>>

(* Mutant: a failed token request stays in the map.                        *)
TokenFailsForgetting(c) ==
  /\ tokenCall[c].phase = "leads"
  /\ tokenCall' = [d \in TokenCallers |->
       IF tokenCall[d].awaits = tokenCall[c].awaits
       THEN [tokenCall[d] EXCEPT !.phase = "failed", !.awaits = 0] ELSE tokenCall[d]]
  /\ UNCHANGED <<cache, inflight, fetched, revoked>>

(* The leader's token request ends, with its finally block.                *)
EndTokenFetch(c, phase, token) ==
  /\ tokenCall[c].phase = "leads"
  /\ inflight' = 0
  /\ tokenCall' = [d \in TokenCallers |->
       IF tokenCall[d].awaits = tokenCall[c].awaits
       THEN [tokenCall[d] EXCEPT !.phase = phase, !.awaits = 0, !.got = token]
       ELSE tokenCall[d]]

(* A token arrives and is cached, even after an invalidate().  It is valid *)
(* unless it expires within the clock skew.                                *)
TokenArrives(c) ==
  /\ EndTokenFetch(c, "got", tokenCall[c].awaits)
  /\ cache' \in [token : {tokenCall[c].awaits}, valid : BOOLEAN]
  /\ UNCHANGED <<fetched, revoked>>

(* A network error, a bad status, a body that is not JSON or has no token. *)
TokenFails(c) ==
  /\ EndTokenFetch(c, "failed", 0)
  /\ UNCHANGED <<cache, fetched, revoked>>

TokenExpires ==
  /\ CacheUsable
  /\ cache' = [cache EXCEPT !.valid = FALSE]
  /\ UNCHANGED <<inflight, fetched, tokenCall, revoked>>

FetchesOver == IF inflight = 0 THEN fetched ELSE fetched - 1

(* invalidate() clears the cache and nothing else.                         *)
Invalidate ==
  /\ FetchesOver > revoked
  /\ cache' = [token |-> 0, valid |-> FALSE]
  /\ revoked' = FetchesOver
  /\ UNCHANGED <<inflight, fetched, tokenCall>>

(* A caller that has its token, or its error, may call again.              *)
CallAgain(c) ==
  /\ tokenCall[c].phase \in {"got", "failed"}
  /\ tokenCall' = [tokenCall EXCEPT ![c] = IdleCaller]
  /\ UNCHANGED <<cache, inflight, fetched, revoked>>

OidcNext ==
  \/ \E c \in TokenCallers :
       GetToken(c) \/ TokenArrives(c) \/ TokenFails(c) \/ CallAgain(c)
  \/ TokenExpires
  \/ Invalidate

OidcSpec == OidcInit /\ [][OidcNext]_oidcVars

----------------------------------------------------------------------------
(* After invalidate(), getToken() never returns a token that had arrived   *)
(* before it; the token of the request that was under way at that moment   *)
(* may still be returned, and cached.  And a request under way always has  *)
(* its one leader, so a failure leaves nothing for later callers to wait   *)
(* on.                                                                     *)
RevokedTokensBounded ==
  /\ \A c \in TokenCallers : tokenCall[c].phase = "got" => tokenCall[c].got > tokenCall[c].asked
  /\ inflight # 0 => \E c \in TokenCallers :
                       tokenCall[c].phase = "leads" /\ tokenCall[c].awaits = inflight
  /\ \A c, d \in TokenCallers :
       tokenCall[c].phase = "leads" /\ tokenCall[d].phase = "leads" => c = d
============================================================================
