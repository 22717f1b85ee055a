------------------------------- MODULE Routes -------------------------------
(***************************************************************************)
(* The server side of the framework bindings: the route handlers of        *)
(* src/frameworks/{nextjs,astro,remix}, the client pool and the request    *)
(* checks they share (shared/handler-core.ts), and the writers that turn a *)
(* stream of chunks into a response body (src/utils/sse-writer.ts).  The   *)
(* consumer of a body may cancel it at any time; dispose() may be called   *)
(* while requests are served.  A step is the code between two awaits.      *)
(***************************************************************************)
EXTENDS Naturals, Sequences, SequencesExt, FiniteSets

CONSTANTS
  Served,        \* requests to the route
  Models,        \* models a body may ask for
  OptionModel,   \* the model the route was made with
  Catalogued,    \* models the catalog knows for its provider
  ToolIds,
  MaxChunks,     \* bound: chunks of one stream
  MaxClients     \* bound: clients made

ASSUME RoutesAssumption ==
  OptionModel \in Models /\ MaxChunks \in Nat /\ MaxClients \in Nat \ {0}

----------------------------------------------------------------------------
(* The decisions in which the routes differ.                               *)
(*   pooled   clients come from the pool; otherwise the route has its own  *)
(*   answers  a JSON completion is answered ("json"), always or when the   *)
(*            body says stream: false                                      *)
(*   writer   the format of a streamed body: server-sent events, objects   *)
(*            of a streamed object, tagged lines, or bare text             *)
NextChat == [pooled |-> TRUE, answers |-> {"json", "stream"}, writer |-> "sse"]
AstroChat == NextChat
RemixChat == NextChat
NextCompletion == [pooled |-> TRUE, answers |-> {"json"}, writer |-> "none"]
AstroCompletion == NextCompletion
RemixCompletion == NextCompletion
StreamRoute == [pooled |-> FALSE, answers |-> {"stream"}, writer |-> "lines"]
StreamCompletion == [StreamRoute EXCEPT !.writer = "text"]
ObjectResponse == [StreamRoute EXCEPT !.writer = "object"]

RouteKinds ==
  {NextChat, AstroChat, RemixChat, NextCompletion, AstroCompletion, RemixCompletion,
   StreamRoute, StreamCompletion, ObjectResponse}

VARIABLES
  route,      \* the route of this behaviour
  trusting,   \* trustClientFields
  cached,     \* the pool's cache: {} or its client, by model
  owned,      \* the pool's clients, in the order they were made
  gone,       \* disposed clients
  made,       \* clients made so far
  disposing,  \* dispose(): 0, or one more than the clients it has disposed
  raced,      \* history: get() ran while dispose() was waiting
  req         \* the requests

routeVars == <<route, trusting, cached, owned, gone, made, disposing, raced, req>>

(* The body: readable or not, and the events of each tool call in it.      *)
(* seen is history: chunks with something to write pulled after a cancel.  *)
NewBody ==
  [state |-> "none", pending |-> {}, starts |-> [i \in ToolIds |-> 0],
   ends |-> [i \in ToolIds |-> 0], finals |-> 0, failed |-> FALSE, chunks |-> 0, seen |-> 0]

NewServed == [phase |-> "new", client |-> 0, dead |-> FALSE, told |-> "none", body |-> NewBody]

RoutesTypeOK ==
  /\ route \in RouteKinds
  /\ trusting \in BOOLEAN
  /\ cached \in [Models -> SUBSET (1..MaxClients)]
  /\ owned \in Seq(1..MaxClients)
  /\ gone \subseteq 1..MaxClients
  /\ made \in 0..MaxClients
  /\ disposing \in 0..(MaxClients + 1)
  /\ raced \in BOOLEAN
  /\ \A r \in Served :
       /\ req[r].phase \in {"new", "reading", "hook", "completing", "streaming", "failing",
                            "reporting", "over"}
       /\ req[r].client \in 0..MaxClients
       /\ req[r].told \in {"none", "answer", "message", "masked", "stream"}
       /\ req[r].body.state \in {"none", "open", "cancelled", "closed"}

RoutesInit ==
  /\ route \in RouteKinds
  /\ trusting \in BOOLEAN
  /\ cached = [m \in Models |-> {}]
  /\ owned = <<>>
  /\ gone = {}
  /\ made = 0
  /\ disposing = 0
  /\ raced = FALSE
  /\ req = [r \in Served |-> NewServed]

poolVars == <<cached, owned, gone, made, disposing, raced>>
Phase(r) == req[r].phase

----------------------------------------------------------------------------
(* The client pool.                                                        *)

(* get(): the cached client, or a new one.  A model the catalog does not   *)
(* know throws, and leaves the new client among the owned and uncached.    *)
Get(m) ==
  IF cached[m] # {} THEN UNCHANGED poolVars
  ELSE /\ made < MaxClients
       /\ made' = made + 1
       /\ owned' = Append(owned, made + 1)
       /\ cached' = IF m \in Catalogued THEN [cached EXCEPT ![m] = {made + 1}] ELSE cached
       /\ raced' = (raced \/ disposing # 0)
       /\ UNCHANGED <<gone, disposing>>

Got(m) == IF cached[m] # {} THEN CHOOSE c \in cached[m] : TRUE ELSE made + 1

(* dispose() clears the cache and disposes the first client.               *)
StartDispose ==
  /\ route.pooled
  /\ disposing = 0 /\ owned # <<>>
  /\ cached' = [m \in Models |-> {}]
  /\ gone' = gone \cup {owned[1]}
  /\ disposing' = 2
  /\ UNCHANGED <<route, trusting, owned, made, raced, req>>

(* The client is disposed; the loop over the set also reaches the clients  *)
(* that were added meanwhile.                                              *)
DisposeNext ==
  /\ disposing # 0
  /\ IF disposing <= Len(owned)
     THEN /\ gone' = gone \cup {owned[disposing]}
          /\ disposing' = disposing + 1
          /\ UNCHANGED owned
     ELSE owned' = <<>> /\ disposing' = 0 /\ UNCHANGED gone
  /\ UNCHANGED <<route, trusting, cached, made, raced, req>>

----------------------------------------------------------------------------
(* A request, up to its response.                                          *)

(* A request comes in, in the place of one that is over.                   *)
ServeRequest(r) ==
  /\ Phase(r) \in {"new", "over"}
  /\ req' = [req EXCEPT ![r] = [NewServed EXCEPT !.phase = "reading"]]
  /\ UNCHANGED <<route, trusting, poolVars>>

(* errorResponse(): the message of a caller's or a configuration error, no *)
(* detail of any other.  The pooled routes await onError() first; a route  *)
(* of its own lets onError() answer, which is the same here.               *)
Failing(r, told) == [req EXCEPT ![r].phase = "failing", ![r].told = told]

(* The body is too long, not JSON, or misses or exceeds in a field.        *)
RejectBody(r) ==
  /\ Phase(r) = "reading"
  /\ req' = Failing(r, "message")
  /\ UNCHANGED <<route, trusting, poolVars>>

(* resolveChatFields(), resolveCompletionFields(): the model is the body's *)
(* only if the route trusts it.                                            *)
ResolveModel(asked) == IF trusting /\ asked # {} THEN asked ELSE {OptionModel}

(* The fields are resolved and the client is got, before onRequest().      *)
AcceptBody(r, asked) ==
  /\ Phase(r) = "reading"
  /\ IF route.pooled
     THEN \E m \in ResolveModel(asked) :
            /\ Get(m)
            /\ req' = IF m \in Catalogued
                      THEN [req EXCEPT ![r].phase = "hook", ![r].client = Got(m),
                                       ![r].dead = (Got(m) \in gone)]
                      ELSE Failing(r, "message")
     ELSE req' = [req EXCEPT ![r].phase = "hook"] /\ UNCHANGED poolVars
  /\ UNCHANGED <<route, trusting>>

(* onRequest() resolves, or there is none: the completion is asked for, or *)
(* the response is made and its stream starts by itself.                   *)
HookPasses(r) ==
  /\ Phase(r) = "hook"
  /\ \E how \in route.answers :
       req' = IF how = "json" THEN [req EXCEPT ![r].phase = "completing"]
              ELSE [req EXCEPT ![r].phase = "streaming", ![r].told = "stream",
                               ![r].body.state = "open"]
  /\ UNCHANGED <<route, trusting, poolVars>>

HookRejects(r) ==
  /\ Phase(r) = "hook"
  /\ route.writer \notin {"text", "object"}
  /\ \E told \in {"message", "masked"} : req' = Failing(r, told)
  /\ UNCHANGED <<route, trusting, poolVars>>

Completed(r) ==
  /\ Phase(r) = "completing"
  /\ req' = [req EXCEPT ![r].phase = "over", ![r].told = "answer"]
  /\ UNCHANGED <<route, trusting, poolVars>>

(* The provider fails, or the caller's signal aborts the completion.       *)
CompletionFails(r) ==
  /\ Phase(r) = "completing"
  /\ \E told \in {"message", "masked"} : req' = Failing(r, told)
  /\ UNCHANGED <<route, trusting, poolVars>>

(* onError() settles.  Where it throws the framework answers instead.      *)
ErrorReported(r) ==
  /\ Phase(r) = "failing"
  /\ \E told \in {req[r].told, "masked"} : req' = [req EXCEPT ![r].phase = "over", ![r].told = told]
  /\ UNCHANGED <<route, trusting, poolVars>>

----------------------------------------------------------------------------
(* The body of a streamed response.                                        *)

Body(r) == req[r].body

WithBody(r, b) == [req EXCEPT ![r].body = b]

(* The last events of a body whose source threw, or that was cancelled     *)
(* when something was to be written: enqueue() then throws, and so does    *)
(* close(), which nobody hears of.                                         *)
Broken(b, final) ==
  IF b.state = "open"
  THEN [b EXCEPT !.state = "closed", !.failed = TRUE, !.finals = @ + final]
  ELSE b

(* A tool_call chunk: its start if it is new, and its end.                 *)
WriteTool(b, id, last) ==
  [b EXCEPT !.starts[id] = IF id \in b.pending THEN @ ELSE @ + 1,
            !.ends[id] = IF last THEN @ + 1 ELSE @,
            !.pending = IF last THEN @ \ {id} ELSE @ \cup {id}]

(* The server-sent events of both kinds say [DONE] even then.              *)
SaysDone == IF route.writer \in {"sse", "object"} THEN 1 ELSE 0

(* After a failed write: the pooled routes close at once; the others await *)
(* onError() first, with the body still open.                              *)
BreakBody(r) ==
  IF route.writer \in {"lines", "text"}
  THEN [req EXCEPT ![r].phase = "reporting"]
  ELSE [req EXCEPT ![r].phase = "over", ![r].body = Broken(@, SaysDone)]

(* A chunk with something to write in this format.  If the body was        *)
(* cancelled the write throws, and the loop returns the iterator.          *)
WriteChunk(r, ids, last) ==
  /\ Phase(r) = "streaming"
  /\ Body(r).chunks < MaxChunks
  /\ LET b == [Body(r) EXCEPT !.chunks = @ + 1]
     IN  IF b.state = "open"
         THEN \/ ids = {} /\ req' = WithBody(r, b)
              \/ \E id \in ids : route.writer = "sse" /\ req' = WithBody(r, WriteTool(b, id, last))
         ELSE req' = [BreakBody(r) EXCEPT ![r].body.chunks = b.chunks, ![r].body.seen = @ + 1]
  /\ UNCHANGED <<route, trusting, poolVars>>

(* finish and performance chunks, reasoning and data nobody asked for.     *)
SkipChunk(r) ==
  /\ Phase(r) = "streaming"
  /\ Body(r).chunks < MaxChunks
  /\ req' = [req EXCEPT ![r].body.chunks = @ + 1]
  /\ UNCHANGED <<route, trusting, poolVars>>

(* Mutant: the calls still pending at the end are not ended.               *)
SourceEndsUnflushed(r) ==
  /\ Phase(r) = "streaming"
  /\ req' = IF Body(r).state = "open"
            THEN [req EXCEPT ![r].phase = "over", ![r].body.state = "closed",
                             ![r].body.finals = @ + SaysDone]
            ELSE BreakBody(r)
  /\ UNCHANGED <<route, trusting, poolVars>>

(* The chunks end: pending calls are ended, then [DONE], then close().     *)
(* The lines and the text end without a write, after onComplete(), so only *)
(* close() can throw.                                                      *)
SourceEnds(r) ==
  /\ Phase(r) = "streaming"
  /\ LET b == Body(r)
     IN  req' = IF b.state = "open"
                THEN [req EXCEPT ![r].phase = "over", ![r].body.state = "closed",
                                 ![r].body.finals = @ + SaysDone,
                                 ![r].body.ends = [i \in ToolIds |->
                                    IF i \in b.pending THEN b.ends[i] + 1 ELSE b.ends[i]]]
                ELSE IF SaysDone = 1 THEN BreakBody(r)
                ELSE [req EXCEPT ![r].phase = "over"]
  /\ UNCHANGED <<route, trusting, poolVars>>

(* The source throws: a provider error, or the request's aborted signal;   *)
(* or onComplete() does.                                                   *)
SourceThrows(r) ==
  /\ Phase(r) = "streaming"
  /\ req' = BreakBody(r)
  /\ UNCHANGED <<route, trusting, poolVars>>

(* onError() settles, or throws, which skips the last line: finally closes.*)
StreamErrorReported(r) ==
  /\ Phase(r) = "reporting"
  /\ req' = [req EXCEPT ![r].phase = "over", ![r].body = Broken(@, 0)]
  /\ UNCHANGED <<route, trusting, poolVars>>

(* The consumer cancels the body: no code of the handler runs.             *)
CancelBody(r) ==
  /\ Body(r).state = "open"
  /\ req' = [req EXCEPT ![r].body.state = "cancelled"]
  /\ UNCHANGED <<route, trusting, poolVars>>

RoutesNext ==
  \/ \E r \in Served :
       \/ ServeRequest(r) \/ RejectBody(r) \/ HookPasses(r) \/ HookRejects(r)
       \/ \E asked \in {{}} \cup {{m} : m \in Models} : AcceptBody(r, asked)
       \/ Completed(r) \/ CompletionFails(r) \/ ErrorReported(r)
       \/ \E ids \in SUBSET ToolIds, last \in BOOLEAN : WriteChunk(r, ids, last)
       \/ SkipChunk(r) \/ SourceEnds(r) \/ SourceThrows(r) \/ StreamErrorReported(r)
       \/ CancelBody(r)
  \/ StartDispose \/ DisposeNext

RoutesSpec == RoutesInit /\ [][RoutesNext]_routeVars

----------------------------------------------------------------------------
(* In every body each tool call is ended as often as it was started, or    *)
(* once less while it is pending; a body that ended without an error has   *)
(* ended them all and says [DONE] exactly once, an event stream even after *)
(* an error; nothing but the write in hand is pulled from the source for a *)
(* body that was cancelled.  And the pool loses no client: each is owned   *)
(* or disposed, none is handed out disposed unless get() overlapped        *)
(* dispose().                                                              *)
ResponsesWhole ==
  /\ \A r \in Served :
       LET b == req[r].body IN
       /\ \A i \in ToolIds : b.starts[i] - b.ends[i] \in {0, 1}
       /\ b.state = "closed" => /\ b.finals = SaysDone
                                /\ ~b.failed => b.starts = b.ends
       /\ b.seen <= 1
       /\ Phase(r) = "over" => req[r].told # "none" /\ b.state # "open"
       /\ req[r].dead => raced
  /\ 1..made = ToSet(owned) \cup gone
============================================================================
