------------------------------ MODULE UIHooks ------------------------------
(***************************************************************************)
(* The chat, completion and object hooks of src/frameworks: one component  *)
(* instance, the requests its user starts one after the other, and the     *)
(* state they share (isLoading, the abort controller, the message list).   *)
(*                                                                         *)
(* The bindings are copies of one design that differ in a few decisions;   *)
(* a record names the decisions of each, and a behaviour runs one of them. *)
(* A step is the code between two awaits.  stop() settles the pending      *)
(* fetch or read only after the running task, so calls made in the same    *)
(* task, and whatever happens while a tool is awaited, come in between.    *)
(***************************************************************************)
EXTENDS Naturals, Sequences, SequencesExt, FiniteSets

CONSTANTS
  MaxRequests,  \* bound: requests started over the life of the component
  MaxLateTools  \* bound: tool calls of one request parsed before a stop() and begun after it

ASSUME BoundsAssumption == MaxRequests \in Nat /\ MaxLateTools \in Nat

Reqs == 1..MaxRequests

----------------------------------------------------------------------------
(* The decisions of a binding.                                             *)
(*   ops      what starts a request; "clear" when the hook offers it       *)
(*   guarded  the ops that return early while isLoading                    *)
(*   stale    handlers close over the state of the last render             *)
(*   nulls    stop() and the finally block forget the abort controller     *)
(*   inserts  when the answer's message joins the list: with the question, *)
(*            with the response, with the response but onto the history    *)
(*            that was sent, with the first text; "reset" and "keep" are   *)
(*            the hooks of a single text or object, emptied at start or not*)
(*   target   the message a delta goes to                                  *)
(*   tools    onToolCall is awaited inside the stream loop                 *)
(*   clearStops  clear() calls stop()                                      *)
Chat ==
  [ops |-> {"submit", "append", "reload", "clear"}, guarded |-> {"submit", "reload"},
   stale |-> FALSE, nulls |-> TRUE, inserts |-> "question", target |-> "own",
   tools |-> TRUE, clearStops |-> FALSE]

ReactChat == [Chat EXCEPT !.stale = TRUE]
VueChat == Chat
SvelteChat == Chat
SolidChat ==
  [Chat EXCEPT !.ops = @ \ {"submit"}, !.guarded = {"reload"}, !.nulls = FALSE]
QwikChat ==
  [Chat EXCEPT !.ops = @ \ {"submit"}, !.guarded = {"reload"}, !.nulls = FALSE]
AngularChat ==
  [Chat EXCEPT !.ops = {"submit", "clear"}, !.target = "last", !.clearStops = TRUE]
NextChat ==
  [Chat EXCEPT !.ops = @ \ {"submit"}, !.guarded = {}, !.nulls = FALSE,
               !.inserts = "response", !.target = "last", !.tools = FALSE]
AstroChat == NextChat
RemixChat == [NextChat EXCEPT !.ops = Chat.ops, !.inserts = "history"]
ClientChat ==
  [Chat EXCEPT !.ops = @ \ {"append"}, !.stale = TRUE, !.inserts = "text",
               !.target = "lastAnswer", !.tools = FALSE, !.clearStops = TRUE]

Single ==
  [Chat EXCEPT !.ops = {"submit", "clear"}, !.guarded = {"submit"},
               !.inserts = "reset", !.target = "only", !.tools = FALSE]
Unguarded == [Single EXCEPT !.ops = {"submit"}, !.guarded = {}, !.nulls = FALSE]

ReactCompletion == [Single EXCEPT !.stale = TRUE]
VueCompletion == Single
SvelteCompletion == Single
AngularCompletion == [Single EXCEPT !.clearStops = TRUE]
SolidCompletion == Unguarded
QwikCompletion == Unguarded
NextCompletion == Unguarded
ClientCompletion ==
  [Single EXCEPT !.stale = TRUE, !.inserts = "keep", !.clearStops = TRUE]
ReactObject == [Single EXCEPT !.stale = TRUE]
VueObject == Single
SvelteObject == Single
AngularObject == [Single EXCEPT !.clearStops = TRUE]
SolidObject == Unguarded

Hooks ==
  {ReactChat, VueChat, SvelteChat, SolidChat, QwikChat, AngularChat, NextChat,
   AstroChat, RemixChat, ClientChat, ReactCompletion, VueCompletion,
   SvelteCompletion, AngularCompletion, SolidCompletion, QwikCompletion,
   NextCompletion, ClientCompletion, ReactObject, VueObject, SvelteObject,
   AngularObject, SolidObject}

----------------------------------------------------------------------------
VARIABLES
  hook,     \* the binding of this behaviour
  loading,  \* isLoading
  ctrl,     \* the request whose controller the hook holds; 0 for null
  list,     \* messages, or the single text
  seen,     \* what the handlers' closures hold of loading and list
  run,      \* the requests
  next,     \* the next request to start
  overlap   \* history: "now" from a start beside a live request until all are done

hookVars == <<hook, loading, ctrl, list, seen, run, next, overlap>>

(* A message: the request it was made for, 0 for a question, and the last  *)
(* request that wrote its content.                                         *)
Message == [role : {"user", "assistant"}, by : 0..MaxRequests, shows : 0..MaxRequests]

Question == [role |-> "user", by |-> 0, shows |-> 0]
Answer(r) == [role |-> "assistant", by |-> r, shows |-> 0]

Phases == {"new", "fetch", "read", "tool", "done"}

HooksTypeOK ==
  /\ hook \in Hooks
  /\ loading \in BOOLEAN
  /\ ctrl \in 0..MaxRequests
  /\ list \in Seq(Message)
  /\ seen \in [loading : BOOLEAN, kept : Seq(Message)]
  /\ run \in [Reqs -> [phase : Phases, aborted : BOOLEAN, late : 0..MaxLateTools,
                       sent : Seq(Message)]]
  /\ next \in 1..(MaxRequests + 1)
  /\ overlap \in {"none", "now", "past"}

At(phase) == [phase |-> phase, aborted |-> FALSE, late |-> 0, sent |-> <<>>]

HooksInit ==
  /\ hook \in Hooks
  /\ loading = FALSE
  /\ ctrl = 0
  /\ list = <<>>
  /\ seen = [loading |-> FALSE, kept |-> <<>>]
  /\ run = [r \in Reqs |-> At("new")]
  /\ next = 1
  /\ overlap = "none"

Live(r) == run[r].phase \in {"fetch", "read", "tool"}
Streaming(r) == Live(r) /\ ~run[r].aborted
Busy == {r \in Reqs : Live(r)}

UpToLastUser(m) ==
  LET users == {i \in DOMAIN m : m[i].role = "user"}
  IN  IF users = {} THEN <<>> ELSE SubSeq(m, 1, CHOOSE i \in users : \A j \in users : j <= i)

(* What handlers use of the state their closure holds: isLoading, and, in  *)
(* the reload() of the hooks that answer in place, the messages to keep.   *)
View(l, m) ==
  [loading |-> l,
   kept |-> IF "reload" \in hook.ops /\ hook.inserts = "question" THEN UpToLastUser(m) ELSE <<>>]

(* The hook's state becomes loading l and messages m; closures see it now, *)
(* or at the next render.                                                  *)
Publish(l, m) ==
  /\ loading' = l
  /\ list' = m
  /\ seen' = IF hook.stale THEN seen ELSE View(l, m)

----------------------------------------------------------------------------
(* Starting a request.                                                     *)

DropLastAnswer(m) ==
  IF m # <<>> /\ Last(m).role = "assistant" THEN Front(m) ELSE m

(* The messages once request r has been asked for through op.              *)
Asked(r, op) ==
  CASE hook.inserts = "reset" -> <<Answer(r)>>
    [] hook.inserts = "keep" -> list
    [] hook.inserts = "question" ->
         IF op = "reload" THEN Append(seen.kept, Answer(r))
         ELSE list \o <<Question, Answer(r)>>
    [] hook.inserts \in {"response", "history"} ->
         IF op = "reload" THEN Front(list) ELSE Append(list, Question)
    [] hook.inserts = "text" ->
         Append(IF op = "reload" THEN DropLastAnswer(list) ELSE list, Question)

(* The history that is sent, kept where the response's message joins it.   *)
Sent(r, op) == IF hook.inserts = "history" THEN Asked(r, op) ELSE <<>>

(* What the early returns of op leave: reload needs a message to answer.   *)
Allowed(op) ==
  /\ op \in hook.ops
  /\ op \in hook.guarded => ~seen.loading
  /\ op = "reload" =>
       CASE hook.inserts = "question" -> seen.kept # <<>>
         [] hook.inserts = "text" -> next > 1
         [] OTHER -> list # <<>>

(* handleSubmit(), append(), reload() up to the await of fetch().          *)
Begin(op) ==
  /\ next \in Reqs
  /\ Allowed(op)
  /\ Publish(TRUE, Asked(next, op))
  /\ run' = [run EXCEPT ![next].phase = "fetch", ![next].sent = Sent(next, op)]
  /\ ctrl' = next
  /\ next' = next + 1
  /\ overlap' = IF Busy # {} THEN "now" ELSE overlap
  /\ UNCHANGED hook

----------------------------------------------------------------------------
(* The stream loop of a request.                                           *)

(* The messages once r has written its content so far.                     *)
Written(r, m) ==
  CASE hook.target = "own" ->
         [i \in DOMAIN m |->
            IF m[i].role = "assistant" /\ m[i].by = r THEN [m[i] EXCEPT !.shows = r] ELSE m[i]]
    [] hook.target = "only" -> <<[Answer(r) EXCEPT !.shows = r]>>
    [] hook.target = "last" ->
         IF m = <<>> THEN m ELSE [m EXCEPT ![Len(m)].shows = r]
    [] hook.target = "lastAnswer" ->
         IF m # <<>> /\ Last(m).role = "assistant" THEN [m EXCEPT ![Len(m)].shows = r]
         ELSE Append(m, [Answer(r) EXCEPT !.shows = r])

(* fetch() resolves with an ok response that has a body.                   *)
Respond(r) ==
  /\ run[r].phase = "fetch"
  /\ ~run[r].aborted
  /\ run' = [run EXCEPT ![r].phase = "read"]
  /\ Publish(loading,
             CASE hook.inserts = "response" -> Append(list, Answer(r))
               [] hook.inserts = "history" -> Append(run[r].sent, Answer(r))
               [] OTHER -> list)
  /\ UNCHANGED <<hook, ctrl, next, overlap>>

(* A text, tool or usage message updates the answer.                       *)
Delta(r) ==
  /\ run[r].phase = "read"
  /\ ~run[r].aborted
  /\ Publish(loading, Written(r, list))
  /\ UNCHANGED <<hook, ctrl, run, next, overlap>>

(* tool_call_end with a handler: its promise is awaited.                   *)
CallTool(r) ==
  /\ hook.tools
  /\ run[r].phase = "read"
  /\ ~run[r].aborted
  /\ run' = [run EXCEPT ![r].phase = "tool"]
  /\ UNCHANGED <<hook, loading, ctrl, list, seen, next, overlap>>

(* Mutant: the finally block leaves isLoading alone.                       *)
FinallyStillLoading(r, m) ==
  /\ run' = [run EXCEPT ![r] = At("done")]
  /\ Publish(loading, m)
  /\ ctrl' = IF hook.nulls THEN 0 ELSE ctrl
  /\ overlap' = IF overlap = "now" /\ Busy = {r} THEN "past" ELSE overlap
  /\ UNCHANGED <<hook, next>>

(* The end of r, with the finally block: isLoading falls and the held      *)
(* controller is forgotten, whichever request set them.                    *)
Finally(r, m) ==
  /\ run' = [run EXCEPT ![r] = At("done")]
  /\ Publish(FALSE, m)
  /\ ctrl' = IF hook.nulls THEN 0 ELSE ctrl
  /\ overlap' = IF overlap = "now" /\ Busy = {r} THEN "past" ELSE overlap
  /\ UNCHANGED <<hook, next>>

(* Mutant: a stopped request's tool is never given up, nor its result read.*)
ToolReturnsToTheLiving(r) ==
  /\ run[r].phase = "tool"
  /\ ~run[r].aborted
  /\ run' = [run EXCEPT ![r].phase = "read"]
  /\ Publish(loading, Written(r, list))
  /\ UNCHANGED <<hook, ctrl, next, overlap>>

(* The tool settles; its result is written even to a stopped request.  A   *)
(* stopped one then finishes what was already parsed: another tool call, a *)
(* last message or an error, before its next read rejects.                 *)
ToolReturns(r) ==
  /\ run[r].phase = "tool"
  /\ \/ /\ run' = [run EXCEPT ![r].phase = "read"]
        /\ Publish(loading, Written(r, list))
        /\ UNCHANGED <<hook, ctrl, next, overlap>>
     \/ /\ run[r].aborted
        /\ run[r].late < MaxLateTools
        /\ run' = [run EXCEPT ![r].late = @ + 1]
        /\ Publish(loading, Written(r, list))
        /\ UNCHANGED <<hook, ctrl, next, overlap>>
     \/ /\ run[r].aborted
        /\ Finally(r, Written(r, list))

(* The stream ends: onFinish, and useChat of react-client pushes its final *)
(* message when no message shows this answer yet.                          *)
End(r) ==
  /\ run[r].phase = "read"
  /\ ~run[r].aborted
  /\ Finally(r,
             IF hook.inserts = "text" /\ \A i \in DOMAIN list : list[i] # [Answer(r) EXCEPT !.shows = r]
             THEN Append(list, [Answer(r) EXCEPT !.shows = r]) ELSE list)

(* A bad status, no body, a network failure or an "error" message.         *)
RequestFails(r) ==
  /\ run[r].phase \in {"fetch", "read"}
  /\ ~run[r].aborted
  /\ Finally(r, list)

(* The pending fetch or read rejects with AbortError, which is swallowed.  *)
AbortLands(r) ==
  /\ run[r].phase \in {"fetch", "read"}
  /\ run[r].aborted
  /\ Finally(r, list)

----------------------------------------------------------------------------
(* stop() and clear(); a stop() with nothing held only lowers isLoading.   *)

Halt(m) ==
  /\ run' = IF ctrl = 0 \/ ~Live(ctrl) THEN run ELSE [run EXCEPT ![ctrl].aborted = TRUE]
  /\ ctrl' = IF hook.nulls THEN 0 ELSE ctrl
  /\ Publish(FALSE, m)
  /\ UNCHANGED <<hook, next, overlap>>

Stop == (loading \/ ctrl # 0) /\ Halt(list)

Clear ==
  /\ "clear" \in hook.ops
  /\ list # <<>>
  /\ IF hook.clearStops THEN Halt(<<>>)
     ELSE Publish(loading, <<>>) /\ UNCHANGED <<hook, ctrl, run, next, overlap>>

(* React renders again and the handlers close over the current state.      *)
Render ==
  /\ hook.stale
  /\ seen' = View(loading, list)
  /\ UNCHANGED <<hook, loading, ctrl, list, run, next, overlap>>

HooksNext ==
  \/ \E op \in {"submit", "append", "reload"} : Begin(op)
  \/ \E r \in Reqs : \/ Respond(r) \/ Delta(r) \/ CallTool(r) \/ ToolReturns(r)
                     \/ End(r) \/ RequestFails(r) \/ AbortLands(r)
  \/ Stop
  \/ Clear
  \/ Render

HooksSpec == HooksInit /\ [][HooksNext]_hookVars

----------------------------------------------------------------------------
(* While no request is started beside a live one, and again once all of an *)
(* overlapping group are over, isLoading says exactly whether a request    *)
(* that was not stopped is in progress, on every path out of one.  And     *)
(* stop() reaches the newest request: the hook holds its controller, or it *)
(* is a hook that nulls the controller and an older request has outlived   *)
(* its start.                                                              *)
LoadingTellsTruth ==
  /\ overlap # "now" => (loading <=> \E r \in Reqs : Streaming(r))
  /\ \A r \in Reqs : r = next - 1 /\ Streaming(r) =>
       ctrl = r \/ (hook.nulls /\ overlap = "now")

(* A text stands in the message made for it.  The hooks that address their *)
(* answer by id keep this whatever overlaps, late tool results included;   *)
(* the others until requests overlap.                                      *)
AnswersInPlace ==
  hook.target = "own" \/ overlap = "none" =>
    \A i \in DOMAIN list : list[i].shows \in {0, list[i].by}

(* A stopped request ends, from a read, a fetch or an awaited tool.  Stops *)
(* and ends are for good and requests finitely many, so it says as much    *)
(* that again and again no stopped one is left.                            *)
StoppedRequestsEnd ==
  []<>(\A r \in Reqs : run[r].aborted => run[r].phase = "done")
============================================================================
