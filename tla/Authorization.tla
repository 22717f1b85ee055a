---------------------------- MODULE Authorization ----------------------------
(***************************************************************************)
(* Role-based access control (src/security/rbac.ts, authorization.ts) with *)
(* its rate limiters (rate-limiter.ts) and the session spend the caller    *)
(* reports.  The middleware decides in one turn and then awaits the        *)
(* request, whose cost is spent only when it ends; the clock of the        *)
(* limiters may step back.                                                 *)
(***************************************************************************)
EXTENDS Naturals, Integers

CONSTANTS
  Users,
  RolePolicies,   \* definitions to try for the one configured role
  WireRequests,   \* requests to try
  Capacity,       \* rateLimit.maxRequests
  Window,         \* rateLimit.windowMs, in ticks of the clock
  MaxClock,       \* bound: clock
  MaxCharge,      \* bound: cost of one request
  MaxAdmitted     \* bound: requests admitted per user

ASSUME AuthorizationAssumption ==
  /\ Capacity \in Nat \ {0}
  /\ Window \in Nat \ {0}
  /\ MaxCharge \in Nat /\ MaxClock \in Nat /\ MaxAdmitted \in Nat
  /\ \A p \in RolePolicies :
       /\ p.malformed \subseteq {"providers", "models", "tools", "denied", "tokens", "budget"}
       /\ p.tokens \subseteq Nat /\ p.budget \subseteq Int
       /\ "budget" \notin p.malformed => p.budget \subseteq Nat
  /\ \A w \in WireRequests : w.body.tokens \subseteq Int

----------------------------------------------------------------------------
(* A role.  A list is a set of at most one list, a limit one of at most    *)
(* one number: {} is undefined.  A model pattern is the set of models it   *)
(* matches.  malformed names the fields that hold something else; of a     *)
(* malformed session budget, budget keeps a negative number, and {} is one *)
(* that no spending reaches: NaN, Infinity, a text.                        *)
Overlap(p) == \E a \in p.tools, d \in p.denied : a \cap d # {}

(* validateRbacConfig().                                                   *)
Validates(p) ==
  /\ p.malformed = {}
  /\ ~Overlap(p)
  /\ p.defaulted \in {"unset", "limited"}

(* resolveRequestFromContext(): the provider of the URL gives way to the   *)
(* body's; {} when neither a provider nor a model is known.                *)
ResolveRequest(w) ==
  LET provider == IF w.body.provider # "" THEN w.body.provider ELSE w.url
  IN  IF provider = "" /\ w.body.model = "" THEN {}
      ELSE {[provider |-> provider, model |-> w.body.model, tokens |-> w.body.tokens,
             tool |-> w.body.tool]}

Budgeted(p) == p.budget # {} \/ "budget" \in p.malformed

(* A list that restricts the subject: declared, and not empty.             *)
Restricts(list) == \E l \in list : l # {}

Because(why, condition) == IF condition THEN {why} ELSE {}

(* Mutant: a request without a model passes in strict mode too.            *)
RoleRefusalsLenient(p, r, isStrict) ==
  UNION {
    Because("invalid", p.malformed \ {"budget"} # {}),
    Because("unidentified", isStrict /\ Restricts(p.providers) /\ r.provider = ""),
    Because("provider", r.provider # "" /\ \E l \in p.providers : l # {} /\ r.provider \notin l),
    Because("model", r.model # "" /\ \E l \in p.models : l # {} /\ \A m \in l : r.model \notin m),
    Because("tool", r.tool # "" /\ \E l \in p.denied : r.tool \in l),
    Because("tool", r.tool # "" /\ \E l \in p.tools : l # {} /\ r.tool \notin l),
    Because("tokens", \E n \in p.tokens, asked \in r.tokens : asked > n)}

(* evaluateRoleRequest(): every reason to refuse; the code returns the     *)
(* first.  A tool nobody named is skipped, in strict mode too, and nothing *)
(* looks at how a session budget is formed.                                *)
RoleRefusals(p, r, isStrict) ==
  UNION {
    Because("invalid", p.malformed \ {"budget"} # {}),
    Because("unidentified", isStrict /\ Restricts(p.providers) /\ r.provider = ""),
    Because("provider", r.provider # "" /\ \E l \in p.providers : l # {} /\ r.provider \notin l),
    Because("unidentified", isStrict /\ Restricts(p.models) /\ r.model = ""),
    Because("model", r.model # "" /\ \E l \in p.models : l # {} /\ \A m \in l : r.model \notin m),
    Because("tool", r.tool # "" /\ \E l \in p.denied : r.tool \in l),
    Because("tool", r.tool # "" /\ \E l \in p.tools : l # {} /\ r.tool \notin l),
    Because("tokens", \E n \in p.tokens, asked \in r.tokens : asked > n)}

(* evaluateAuthorization(): the role, the session budget, the request.     *)
(* purse is what resolveBudget() says was spent, {} without an answer; it  *)
(* gives no limit of its own.                                              *)
Refusals(known, p, request, isStrict, purse) ==
  IF ~known THEN Because("role", isStrict)
  ELSE UNION ({Because("purse", isStrict /\ Budgeted(p) /\ purse = {}),
               Because("budget", \E b \in p.budget, s \in purse : s >= b),
               Because("unidentified", isStrict /\ request = {})}
              \cup {RoleRefusals(p, r, isStrict) : r \in request})

(* checkPermission(): permissive, with neither a tool nor a purse.         *)
CheckPermission(p, r) == Refusals(TRUE, p, {[r EXCEPT !.tool = ""]}, FALSE, {}) = {}

----------------------------------------------------------------------------
VARIABLES
  policy,    \* the configured role, "limited"
  strict,    \* enforcement
  purseful,  \* options.resolveBudget is set
  clock,
  bucket,    \* the registry: {} or the user's one limiter.  Tokens are
             \* counted in Window-ths, so that a tick refills Capacity of them
  running,   \* admitted requests in progress, by user
  purses,    \* dollars spent so far, by user
  verdict,   \* the latest decision and what it was made of
  tally      \* history: tokens granted, the clock's highest value, the
             \* creation of the limiter, and the most requests in progress

accessVars == <<policy, strict, purseful, clock, bucket, running, purses, verdict, tally>>

NoVerdict == [why |-> {"none"}, known |-> FALSE, request |-> {}, purse |-> {}]
Allowed(v) == v.why = {}

AuthorizationTypeOK ==
  /\ policy \in RolePolicies
  /\ strict \in BOOLEAN /\ purseful \in BOOLEAN
  /\ clock \in 0..MaxClock
  /\ bucket \in [Users -> SUBSET [tokens : 0..(Capacity * Window), at : 0..MaxClock]]
  /\ running \in [Users -> 0..MaxAdmitted]
  /\ purses \in [Users -> 0..(MaxAdmitted * MaxCharge)]
  /\ tally \in [granted : [Users -> 0..MaxAdmitted], high : 0..MaxClock,
                born : [Users -> 0..MaxClock], peak : [Users -> 0..MaxAdmitted]]

AuthorizationInit ==
  /\ policy \in RolePolicies
  /\ strict \in BOOLEAN
  /\ purseful \in BOOLEAN
  /\ clock = 0
  /\ bucket = [u \in Users |-> {}]
  /\ running = [u \in Users |-> 0]
  /\ purses = [u \in Users |-> 0]
  /\ verdict = NoVerdict
  /\ tally = [granted |-> [u \in Users |-> 0], high |-> 0,
              born |-> [u \in Users |-> 0], peak |-> [u \in Users |-> 0]]

Least(a, b) == IF a < b THEN a ELSE b
Most(a, b) == IF a > b THEN a ELSE b

(* _refill(): a clock that stepped back refills nothing.                   *)
Refill(l) ==
  IF clock <= l.at THEN l
  ELSE [tokens |-> Least(Capacity * Window, l.tokens + Capacity * (clock - l.at)), at |-> clock]

(* getOrCreate(), and the refill of its limiter.                           *)
Limiter(u) ==
  IF bucket[u] = {} THEN [tokens |-> Capacity * Window, at |-> clock]
  ELSE Refill(CHOOSE l \in bucket[u] : TRUE)

(* One call of the middleware, up to the await of ctx.next().  who is a    *)
(* set of at most one user; asks is what resolveRole() returns, and ""     *)
(* takes the default role, which "elsewhere" leaves undefined.             *)
Authorize(who, asks, w) ==
  LET name == IF asks = "" THEN IF policy.defaulted = "unset" THEN "default" ELSE policy.defaulted
              ELSE asks
      known == name = "limited"
      limited == known /\ policy.rated /\ who # {}
      purse == IF purseful /\ known THEN {purses[u] : u \in who} ELSE {}
      short == limited /\ \E u \in who : Limiter(u).tokens < Window
      why == IF short THEN {"rate"}
             ELSE Refusals(known, policy, ResolveRequest(w), strict, purse)
  IN  /\ \A u \in who : tally.granted[u] < MaxAdmitted /\ running[u] < MaxAdmitted
      /\ verdict' = [why |-> why, known |-> known, request |-> ResolveRequest(w), purse |-> purse]
      /\ bucket' = [u \in Users |->
           IF limited /\ u \in who
           THEN {[Limiter(u) EXCEPT !.tokens = IF short THEN @ ELSE @ - Window]} ELSE bucket[u]]
      /\ running' = [u \in Users |-> IF u \in who /\ why = {} THEN running[u] + 1 ELSE running[u]]
      /\ tally' = [tally EXCEPT
           !.granted = [u \in Users |-> IF limited /\ ~short /\ u \in who THEN @[u] + 1 ELSE @[u]],
           !.born = [u \in Users |-> IF limited /\ u \in who /\ bucket[u] = {} THEN clock ELSE @[u]],
           !.peak = [u \in Users |-> Most(@[u], running'[u])]]
  /\ UNCHANGED <<policy, strict, purseful, clock, purses>>

(* A request ends, and the caller's accounting charges its user; spend is  *)
(* followed for a role with a budget only.                                 *)
RequestCharged(u, cost) ==
  /\ running[u] > 0
  /\ ~Budgeted(policy) => cost = 0
  /\ purses[u] + cost <= MaxAdmitted * MaxCharge
  /\ running' = [running EXCEPT ![u] = @ - 1]
  /\ purses' = [purses EXCEPT ![u] = @ + cost]
  /\ verdict' = NoVerdict
  /\ UNCHANGED <<policy, strict, purseful, clock, bucket, tally>>

(* Date.now() moves on, or is set back.                                    *)
ClockMoves(t) ==
  /\ t # clock
  /\ clock' = t
  /\ tally' = [tally EXCEPT !.high = Most(@, t)]
  /\ verdict' = NoVerdict
  /\ UNCHANGED <<policy, strict, purseful, bucket, running, purses>>

Askers == {{}} \cup {{u} : u \in Users}

AuthorizationNext ==
  \/ \E who \in Askers, asks \in {"", "limited", "unknown"}, w \in WireRequests :
       Authorize(who, asks, w)
  \/ \E u \in Users, cost \in 0..MaxCharge : RequestCharged(u, cost)
  \/ \E t \in 0..MaxClock : ClockMoves(t)

AuthorizationSpec == AuthorizationInit /\ [][AuthorizationNext]_accessVars

----------------------------------------------------------------------------
(* Nothing a request is known to be goes past a list or a limit its role   *)
(* declares; strict mode lets nothing pass that a declared list, budget or *)
(* role could not be held against (a tool excepted); a configuration that  *)
(* validated is never called invalid; and checkPermission() never refuses  *)
(* what the middleware lets through.  A malformed field refuses, save a    *)
(* malformed session budget, which is only asked for a purse.              *)
AllowedByPolicy ==
  /\ Allowed(verdict) /\ verdict.known =>
       /\ \A r \in verdict.request :
            /\ \A l \in policy.providers : l = {} \/ r.provider \in l \cup {""}
            /\ \A l \in policy.models : l = {} \/ r.model = "" \/ \E m \in l : r.model \in m
            /\ \A l \in policy.tools : l = {} \/ r.tool \in l \cup {""}
            /\ \A l \in policy.denied : r.tool \notin l \ {""}
            /\ \A n \in policy.tokens, asked \in r.tokens : asked <= n
            /\ policy.malformed \subseteq {"budget"}
            /\ CheckPermission(policy, r)
            /\ strict => (Restricts(policy.providers) => r.provider # "")
                                 /\ (Restricts(policy.models) => r.model # "")
       /\ strict => verdict.request # {} /\ (Budgeted(policy) => verdict.purse # {})
  /\ Allowed(verdict) /\ strict => verdict.known
  /\ Validates(policy) => "invalid" \notin verdict.why

(* A user is granted no more requests than the limiter's burst and the     *)
(* refill since it was made allow, wherever the clock was set; and in      *)
(* strict mode spends at most the cost of the requests once in progress    *)
(* together beyond a session budget that spending can reach.               *)
LimitsHold ==
  \A u \in Users :
    /\ tally.granted[u] * Window <= Capacity * (Window + tally.high - tally.born[u])
    /\ \A b \in policy.budget :
         strict => purses[u] <= Most(b - 1, 0) + MaxCharge * tally.peak[u]
============================================================================
