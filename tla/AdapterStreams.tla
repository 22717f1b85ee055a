--------------------------- MODULE AdapterStreams ---------------------------
(***************************************************************************)
(* How the tool calls of a streamed answer get from a provider's events    *)
(* through its adapter (src/adapters) to streamText() of the client, which *)
(* runs them.  A step is one event, for which the adapter has some chunks, *)
(* or one chunk, which streamText() takes: it may wait for a tool between  *)
(* two of them.  The provider cuts a call's arguments, or its text, into   *)
(* pieces where it likes, puts reasoning between them, ends the answer as  *)
(* it likes, or breaks off.                                                *)
(***************************************************************************)
EXTENDS Naturals, Sequences, SequencesExt, FiniteSets

CONSTANTS
  MaxBlocks,  \* bound: parts of an answer
  MaxPieces,  \* bound: pieces of a call's arguments
  MaxSpoken   \* bound: calls of an answer that has calls in its text

ASSUME AnswerAssumption == MaxBlocks \in Nat /\ MaxPieces \in Nat \ {0}

Blocks == 1..MaxBlocks

----------------------------------------------------------------------------
(* The decisions of an adapter.                                            *)
(*   wire     "delta": pieces by index, of several calls at once;          *)
(*            "block": one block after the other; "whole": a call is one   *)
(*            event                                                        *)
(*   tools    the request offers the tools                                 *)
(*   inline   calls written into the text are parsed, unless the text is   *)
(*            taken for reasoning                                          *)
(*   flushes  a delta adapter delivers what it still holds at the end      *)
(*   holds    it collects a block's pieces itself                          *)
(*   indexed  its chunks carry an index                                    *)
(*   retries  it asks again without max_tokens when that is refused        *)
OpenAI ==
  [wire |-> "delta", tools |-> TRUE, inline |-> TRUE, flushes |-> TRUE,
   holds |-> TRUE, indexed |-> TRUE, retries |-> TRUE]
GenericOpenAI == OpenAI
Perplexity == [GenericOpenAI EXCEPT !.tools = FALSE, !.inline = FALSE]
Azure == [OpenAI EXCEPT !.inline = FALSE, !.flushes = FALSE, !.retries = FALSE]
HuggingFace == Azure
Groq == [Azure EXCEPT !.tools = FALSE]
Ollama == Groq
Anthropic == [OpenAI EXCEPT !.wire = "block", !.inline = FALSE, !.retries = FALSE]
Bedrock == [Anthropic EXCEPT !.holds = FALSE]
Cohere == [Bedrock EXCEPT !.indexed = FALSE]
GoogleGenAI == [Cohere EXCEPT !.wire = "whole"]
GoogleVertex == GoogleGenAI

Adapters ==
  {OpenAI, GenericOpenAI, Perplexity, Azure, HuggingFace, Groq, Ollama, Anthropic,
   Bedrock, Cohere, GoogleGenAI, GoogleVertex}

VARIABLES
  adapter,   \* the adapter of this behaviour
  answer,    \* what the model answers: text and calls, with their pieces
  link,      \* the request and the stream; finish is "calls" once it made the adapter flush
  sent,      \* pieces sent of each block
  held,      \* the adapter's pending calls: pieces held, of a call it knows
  due,       \* chunks of the last event that streamText() has not taken
  taken,     \* streamText(): pendingToolCalls and stepToolCalls
  reading,   \* what ReasoningNormalizer and TextToolCallParser make of the content
  mixed,     \* history: an event carried content and pieces of calls
  untidy,    \* history: the tags of reasoning were not where they do no harm
  said       \* history: what the provider sent while they were: nothing since the start or
             \* since some reasoning ended ("fresh"), "text", or reasoning ("in")

adapterVars == <<adapter, answer, link, sent, held, due, taken, reading, mixed, untidy, said>>

(* A call of streamText() is known by its block; 0 has no name.            *)
NoEntry == [call |-> 0, form |-> "none", n |-> 0]
Keys == 0..(2 * MaxBlocks)
Thoughts == {"fresh", "text", "tail", "in", "stray"}
Forms == {"none", "text", "quoted", "object", "raw", "nameless"}
Recorded == [call : 0..MaxBlocks, how : {"whole", "raw", "empty", "refused"}]

AdapterTypeOK ==
  /\ adapter \in Adapters
  /\ answer \in [Blocks -> [kind : {"text", "call", "inline"}, size : 0..MaxPieces]]
  /\ link \in [phase : {"asked", "open", "closed", "cut", "threw"}, again : BOOLEAN,
               finish : {"none", "calls", "other"}]
  /\ sent \in [Blocks -> 0..(MaxPieces + 2)]
  /\ held \in [Blocks -> [known : BOOLEAN, named : BOOLEAN, n : 0..MaxPieces]]
  /\ due \subseteq [key : Keys, call : 0..MaxBlocks, n : 0..MaxPieces, form : Forms, done : BOOLEAN]
  /\ taken.pending \in [Keys -> [call : 0..MaxBlocks, n : 0..MaxPieces, form : Forms]]
  /\ taken.calls \in Seq(Recorded)
  /\ reading \in [think : Thoughts, parse : {"out", "in", "torn"}]
  /\ mixed \in BOOLEAN /\ untidy \in BOOLEAN /\ said \in {"fresh", "text", "in"}

Kinds(a) == {"text"} \cup (IF a.tools THEN {"call"} ELSE {})
                     \cup (IF a.wire = "delta" THEN {"inline"} ELSE {})

(* Where arguments come as an object or in the text, they are one piece.   *)
Sizes(a, kind) == IF kind = "call" /\ a.wire # "whole" /\ a.indexed THEN 0..MaxPieces ELSE {1}

(* The deltas that carry a block: a call without arguments is one, a call  *)
(* in the text has an opening and a closing tag, other text is told apart  *)
(* by its tags only.                                                       *)
Length(i) ==
  CASE answer[i].kind = "call" -> IF answer[i].size = 0 THEN 1 ELSE answer[i].size
    [] answer[i].kind = "inline" -> 2
    [] answer[i].kind = "text" -> 0

NothingTaken == [pending |-> [k \in Keys |-> NoEntry], calls |-> <<>>]
NotHeld == [known |-> FALSE, named |-> FALSE, n |-> 0]
Nothing == [i \in Blocks |-> NotHeld]

AdapterInit ==
  /\ adapter \in Adapters
  /\ answer \in [Blocks -> UNION {[kind : {k}, size : Sizes(adapter, k)] : k \in Kinds(adapter)}]
  /\ (\E i \in Blocks : answer[i].kind = "inline") =>
       Cardinality({i \in Blocks : answer[i].kind # "text"}) <= MaxSpoken
  /\ link = [phase |-> "asked", again |-> FALSE, finish |-> "none"]
  /\ sent = [i \in Blocks |-> 0]
  /\ held = Nothing
  /\ due = {}
  /\ taken = NothingTaken
  /\ reading = [think |-> "fresh", parse |-> "out"]
  /\ mixed = FALSE
  /\ untidy = FALSE
  /\ said = "fresh"

----------------------------------------------------------------------------
(* streamText(): tool_call chunks add up by index until one says done.     *)

(* What becomes of the collected arguments.  An empty text is read as {},  *)
(* anything but an object is an error record, and so is a nameless call.   *)
Outcome(e) ==
  IF e.call = 0 THEN "refused"
  ELSE CASE e.form = "none" -> IF answer[e.call].size = 0 THEN "whole" ELSE "empty"
         [] e.form = "text" -> IF e.n = answer[e.call].size THEN "whole" ELSE "refused"
         [] e.form = "object" -> "whole"
         [] e.form = "raw" -> "raw"
         [] e.form \in {"quoted", "nameless"} -> "refused"

AddCall(calls, e) == Append(calls, [call |-> e.call, how |-> Outcome(e)])

(* Mutant: a finished call stays among the pending ones.                   *)
TakeKeeping(t, chunk) ==
  LET old == t.pending[chunk.key]
      entry == [call |-> IF chunk.call # 0 THEN chunk.call ELSE old.call,
                form |-> IF chunk.form # "none" THEN chunk.form ELSE old.form,
                n |-> old.n + chunk.n]
  IN  [pending |-> [t.pending EXCEPT ![chunk.key] = entry],
       calls |-> IF chunk.done THEN AddCall(t.calls, entry) ELSE t.calls]

Take(t, chunk) ==
  LET old == t.pending[chunk.key]
      entry == [call |-> IF chunk.call # 0 THEN chunk.call ELSE old.call,
                form |-> IF chunk.form # "none" THEN chunk.form ELSE old.form,
                n |-> old.n + chunk.n]
  IN  IF chunk.done
      THEN [pending |-> [t.pending EXCEPT ![chunk.key] = NoEntry],
            calls |-> AddCall(t.calls, entry)]
      ELSE [t EXCEPT !.pending[chunk.key] = entry]

(* The chunks of one event are of calls apart, and nothing below depends   *)
(* on their order.                                                         *)
TakeChunk(chunk) ==
  /\ chunk \in due
  /\ due' = due \ {chunk}
  /\ taken' = Take(taken, chunk)
  /\ UNCHANGED <<adapter, answer, link, sent, held, reading, mixed, untidy, said>>

(* After the end of the stream whatever is pending counts as finished.     *)
TakeRest(key) ==
  /\ link.phase \in {"closed", "cut"}
  /\ due = {}
  /\ taken.pending[key] # NoEntry
  /\ taken' = [pending |-> [taken.pending EXCEPT ![key] = NoEntry],
               calls |-> AddCall(taken.calls, taken.pending[key])]
  /\ UNCHANGED <<adapter, answer, link, sent, held, due, reading, mixed, untidy, said>>

----------------------------------------------------------------------------
(* The request.                                                            *)

(* The adapter reads on once its last chunk was taken.                     *)
Open == link.phase = "open" /\ due = {}

ResponseOk ==
  /\ link.phase = "asked"
  /\ link' = [link EXCEPT !.phase = "open"]
  /\ UNCHANGED <<adapter, answer, sent, held, due, taken, reading, mixed, untidy, said>>

(* 400 because of max_tokens: asked once more without it.                  *)
AskUncapped ==
  /\ link.phase = "asked"
  /\ adapter.retries
  /\ ~link.again
  /\ link' = [link EXCEPT !.again = TRUE]
  /\ UNCHANGED <<adapter, answer, sent, held, due, taken, reading, mixed, untidy, said>>

(* A bad status, or the connection breaks; read() rejects.                 *)
StreamThrows ==
  /\ link.phase = "asked" \/ Open
  /\ link' = [link EXCEPT !.phase = "threw"]
  /\ UNCHANGED <<adapter, answer, sent, held, due, taken, reading, mixed, untidy, said>>

----------------------------------------------------------------------------
(* Deltas.                                                                 *)

Unsent(kind) == {i \in Blocks : answer[i].kind = kind /\ sent[i] < Length(i)}

(* What the adapter holds, as chunks: one whole object each, or the text   *)
(* that does not parse -- no text does not -- as the "raw" field of one.   *)
(* Only a call's first delta has its name.                                 *)
Flush(h) ==
  {[key |-> i, call |-> i, n |-> h[i].n, done |-> TRUE,
    form |-> IF ~h[i].named THEN "nameless"
             ELSE IF h[i].n = answer[i].size /\ h[i].n > 0 THEN "object" ELSE "raw"] :
     i \in {b \in Blocks : h[b].known}}

(* The pieces of arguments in a delta of the call.                         *)
Piece(i) == IF answer[i].size = 0 THEN 0 ELSE 1

(* A delta with the next piece of the calls in cs, and with the reason why *)
(* the answer ends, or "none".                                             *)
ToolDelta(cs, reason) ==
  /\ Open /\ adapter.wire = "delta" /\ link.finish = "none"
  /\ cs \subseteq Unsent("call")
  /\ reason # "none" => Unsent("call") = cs /\ \A i \in cs : sent[i] + 1 = Length(i)
  /\ cs # {} \/ reason # "none"
  /\ sent' = [i \in Blocks |-> IF i \in cs THEN sent[i] + 1 ELSE sent[i]]
  /\ LET h == [i \in Blocks |->
                 IF i \in cs THEN [known |-> TRUE, named |-> held[i].named \/ sent[i] = 0,
                                   n |-> held[i].n + Piece(i)]
                 ELSE held[i]]
     IN  IF reason = "calls" THEN due' = Flush(h) /\ held' = Nothing
         ELSE held' = h /\ UNCHANGED due
  /\ link' = [link EXCEPT !.finish = reason]
  /\ UNCHANGED <<adapter, answer, taken, reading, mixed, untidy, said>>

----------------------------------------------------------------------------
(* Content, and the tags of reasoning in it.                               *)

(* How a delta's content is come by: "fed" to the normalizer, "beside" a   *)
(* reasoning field and passed over with it, or "none"; whether the         *)
(* normalizer's text with it (content itself, once there is other text)    *)
(* begins with a tag; whether there is a closing tag in it, and at the     *)
(* very end; and otherwise, whether an opening tag, or the beginning of    *)
(* one, stands amid it.  A tag cut between deltas is in the one with its   *)
(* end, and a fresh start that is but the beginning of a tag changes       *)
(* nothing.                                                                *)
Plain == [way |-> "fed", first |-> "none", closing |-> FALSE, last |-> FALSE, amid |-> FALSE]
Opening == [Plain EXCEPT !.first = "open"]

Tagged ==
  {[Plain EXCEPT !.first = f, !.closing = c, !.last = l] :
     f \in {"none", "open", "close"}, c \in BOOLEAN, l \in BOOLEAN}
Marks ==
  {m \in Tagged : m.last \/ m.first = "close" => m.closing}
  \cup {[Plain EXCEPT !.amid = TRUE], [Plain EXCEPT !.way = "beside"], [Plain EXCEPT !.way = "none"]}

(* feedText(): "fresh" with an empty buffer, "text" with the tail of some  *)
(* text, which a tag does not begin, "tail" with one that it may, "in" a   *)
(* tag, and "stray" in one though its closing tag is in the buffer.        *)

(* Mutant: the buffer keeps what it has when a tag closes.                 *)
FeedTextUncleared(m) ==
  LET enters == m.last \/ (reading.think = "fresh" /\ m.first = "open")
  IN  {o \in [think : Thoughts, hidden : BOOLEAN] :
         \/ /\ reading.think = "in" /\ ~m.closing
            /\ o = [think |-> "in", hidden |-> TRUE]
         \/ /\ reading.think = "stray" \/ (reading.think = "in" /\ m.closing)
            /\ o.think = "text"
         \/ /\ reading.think \in {"fresh", "text", "tail"} /\ (enters \/ reading.think = "tail")
            /\ o = [think |-> IF m.closing THEN "stray" ELSE "in", hidden |-> TRUE]
         \/ /\ reading.think \in {"fresh", "text", "tail"} /\ ~enters
            /\ o = [think |-> IF reading.think = "tail" \/ m # Plain THEN "tail" ELSE "text",
                    hidden |-> m.first # "none"]}

(* What becomes of the buffer, and whether the content is hidden from the  *)
(* parser: taken for reasoning, or dropped for looking like a tag.  What   *)
(* is left of it when a tag closes may be nothing, and is not hidden then. *)
FeedText(m) ==
  LET enters == m.last \/ (reading.think = "fresh" /\ m.first = "open")
  IN  {o \in [think : Thoughts, hidden : BOOLEAN] :
         \/ /\ reading.think = "in" /\ ~m.closing
            /\ o = [think |-> "in", hidden |-> TRUE]
         \/ /\ reading.think = "stray" \/ (reading.think = "in" /\ m.closing)
            /\ o.think = "fresh"
         \/ /\ reading.think \in {"fresh", "text", "tail"} /\ (enters \/ reading.think = "tail")
            /\ o = [think |-> IF m.closing THEN "stray" ELSE "in", hidden |-> TRUE]
         \/ /\ reading.think \in {"fresh", "text", "tail"} /\ ~enters
            /\ o = [think |-> IF reading.think = "tail" \/ m # Plain THEN "tail" ELSE "text",
                    hidden |-> m.first # "none"]}

(* What the parser is given, and what the normalizer is left with.         *)
PassedOn(m) ==
  IF m.way = "fed" THEN FeedText(m) ELSE {[think |-> reading.think, hidden |-> m.way = "beside"]}

(* A tag where it does no harm: an opening one at a fresh start, a closing *)
(* one at the end of reasoning, and neither with the text of a call, which *)
(* is not in the reasoning or beside it either.                            *)
Tidy(m, spoken) ==
  \/ m = Plain /\ (said = "in" => ~spoken)
  \/ m = Opening /\ said = "fresh" /\ ~spoken
  \/ m.way = "fed" /\ m.last /\ m.first # "open" /\ said = "in" /\ ~spoken
  \/ m.way = "beside" /\ ~spoken
  \/ m.way = "none"

Said(m) ==
  IF m = Opening THEN "in"
  ELSE IF m.way = "fed" /\ m.last THEN "fresh"
  ELSE IF m = Plain /\ said = "fresh" THEN "text" ELSE said

(* The parser keeps a call from its opening tag to the closing one.  It is *)
(* "torn" when some of that was hidden from it.  The calls it has whole    *)
(* once a delta closed some:                                               *)
Parsed(closed) ==
  {i \in closed : CASE reading.parse = "out" -> sent[i] = 0
                    [] reading.parse = "in" -> TRUE
                    [] reading.parse = "torn" -> \E j \in closed : j < i}

(* A torn one may still parse, as another call than it was.                *)
Altered(closed) == {i \in closed : reading.parse = "torn" /\ \A j \in closed : i <= j}

ParseNext(hidden, closed, begun) ==
  IF hidden THEN IF reading.parse = "in" THEN "torn" ELSE reading.parse
  ELSE IF begun # {} THEN IF closed = {} /\ reading.parse = "torn" THEN "torn" ELSE "in"
  ELSE IF closed # {} THEN "out" ELSE reading.parse

(* The ids and indexes of the calls in one text are those of the last.     *)
Inlined == {i \in Blocks : answer[i].kind = "inline"
                           /\ \E k \in DOMAIN taken.calls : taken.calls[k].call = i}
InlineChunk(i, emitted, form) ==
  [key |-> MaxBlocks + emitted, call |-> i, form |-> form, n |-> 1, done |-> TRUE]

(* Whether it matters what the content looks like: a call is read from it. *)
Watched == adapter.inline /\ \E i \in Blocks : answer[i].kind = "inline"

(* A delta with content, or an event with a finish_reason and no delta.    *)
(* The content closes the calls of the text up to one and may begin the    *)
(* next.  Pieces of calls beside it, and the reason to flush them, are     *)
(* passed over.                                                            *)
ContentDelta(m, upto, begins, cs, reason) ==
  LET closed == {i \in Unsent("inline") : i <= upto}
      left == Unsent("inline") \ closed
      begun == {i \in left : begins /\ sent[i] = 0 /\ \A j \in left : i <= j}
      spoken == closed \cup begun # {} \/ \E i \in Unsent("inline") : sent[i] > 0
  IN  /\ Open /\ adapter.wire = "delta" /\ link.finish = "none"
      /\ cs \subseteq Unsent("call")
      /\ reason # "none" => Unsent("call") = cs /\ \A i \in cs : sent[i] + 1 = Length(i)
      /\ m.way = "none" => closed \cup begun = {}
      /\ sent' = [i \in Blocks |-> IF i \in closed THEN 2
                                   ELSE IF i \in begun \cup cs THEN sent[i] + 1 ELSE sent[i]]
      /\ IF ~Watched THEN due' = {} /\ UNCHANGED <<reading, untidy, said>>
         ELSE \E o \in PassedOn(m) :
                \E altered \in SUBSET (IF o.hidden THEN {} ELSE Altered(closed)) :
                  LET whole == IF o.hidden THEN {} ELSE Parsed(closed)
                      emitted == Cardinality(Inlined \cup whole \cup altered)
                  IN  /\ due' = {InlineChunk(i, emitted, "object") : i \in whole}
                                \cup {InlineChunk(i, emitted, "raw") : i \in altered}
                      /\ reading' = [think |-> o.think, parse |-> ParseNext(o.hidden, closed, begun)]
                      /\ untidy' = (untidy \/ ~Tidy(m, spoken))
                      /\ said' = IF untidy' THEN said ELSE Said(m)
      /\ mixed' = (mixed \/ cs # {})
      /\ link' = [link EXCEPT !.finish = IF reason = "none" THEN "none" ELSE "other"]
      /\ UNCHANGED <<adapter, answer, held, taken>>

----------------------------------------------------------------------------
(* Blocks: an event for the start, one per piece and one for the stop.     *)

(* sent[i] counts all of these events.                                     *)
Current(i) ==
  /\ Open /\ adapter.wire = "block"
  /\ \A j \in 1..(i - 1) : sent[j] = answer[j].size + 2
  /\ sent' = [sent EXCEPT ![i] = @ + 1]

Key(i) == IF adapter.indexed THEN i ELSE 0

Partial(i, form, n) ==
  [key |-> Key(i), call |-> i, form |-> form, n |-> n, done |-> FALSE]

BlockStart(i) ==
  /\ Current(i)
  /\ sent[i] = 0
  /\ IF answer[i].kind # "call" THEN UNCHANGED <<held, due>>
     ELSE IF adapter.holds
     THEN held' = [held EXCEPT ![i].known = TRUE, ![i].named = TRUE] /\ UNCHANGED due
     ELSE due' = {Partial(i, "none", 0)} /\ UNCHANGED held
  /\ UNCHANGED <<adapter, answer, link, taken, reading, mixed, untidy, said>>

(* Bedrock turns the piece of text it gets into a JSON string; Cohere      *)
(* turns the object it gets into JSON.                                     *)
BlockPiece(i) ==
  /\ Current(i)
  /\ sent[i] \in 1..answer[i].size
  /\ IF answer[i].kind # "call" THEN UNCHANGED <<held, due>>
     ELSE IF adapter.holds
     THEN held' = [held EXCEPT ![i].n = @ + 1] /\ UNCHANGED due
     ELSE /\ due' = {Partial(i, IF adapter.indexed THEN "quoted" ELSE "object", 1)}
          /\ UNCHANGED held
  /\ UNCHANGED <<adapter, answer, link, taken, reading, mixed, untidy, said>>

(* Only Bedrock's adapter does not ask whether the block was a call.       *)
BlockStop(i) ==
  /\ Current(i)
  /\ sent[i] = answer[i].size + 1
  /\ IF adapter.holds
     THEN /\ due' = {[key |-> i, call |-> i, n |-> held[i].n, done |-> TRUE,
                      form |-> IF held[i].n = 0 THEN "none" ELSE "text"] :
                       b \in {b \in {i} : held[b].known}}
          /\ held' = [held EXCEPT ![i] = NotHeld]
     ELSE /\ due' = {[key |-> Key(i), call |-> 0, form |-> "none", n |-> 0, done |-> TRUE] :
                       b \in {b \in {i} : answer[b].kind = "call" \/ adapter.indexed}}
          /\ UNCHANGED held
  /\ UNCHANGED <<adapter, answer, link, taken, reading, mixed, untidy, said>>

(* An event with the parts from i to j: text, and whole function calls     *)
(* that are told apart by nothing but their order.                         *)
WholeParts(i, j) ==
  /\ Open /\ adapter.wire = "whole"
  /\ \A k \in Blocks : (sent[k] = 0) <=> (k >= i)
  /\ sent' = [k \in Blocks |-> IF k \in i..j THEN 1 ELSE sent[k]]
  /\ due' = {[key |-> 0, call |-> k, form |-> "object", n |-> 1, done |-> TRUE] :
               k \in {b \in i..j : answer[b].kind = "call"}}
  /\ UNCHANGED <<adapter, answer, link, held, taken, reading, mixed, untidy, said>>

----------------------------------------------------------------------------
(* The end.                                                                *)

AllSent ==
  \A i \in Blocks :
    sent[i] = CASE adapter.wire = "block" -> answer[i].size + 2
                [] adapter.wire = "delta" -> Length(i)
                [] adapter.wire = "whole" -> 1

(* read() says done, after the whole answer or before.  An inline call     *)
(* that was not closed becomes text.                                       *)
EndStream ==
  /\ Open
  /\ link' = [link EXCEPT !.phase = IF AllSent THEN "closed" ELSE "cut"]
  /\ due' = IF adapter.wire = "delta" /\ adapter.flushes THEN Flush(held) ELSE {}
  /\ held' = Nothing
  /\ UNCHANGED <<adapter, answer, sent, taken, reading, mixed, untidy, said>>

Reasons == {"none", "calls", "other"}

AdapterNext ==
  \/ ResponseOk \/ AskUncapped \/ StreamThrows \/ EndStream
  \/ \E chunk \in due : TakeChunk(chunk)
  \/ \E key \in Keys : TakeRest(key)
  \/ \E cs \in SUBSET Unsent("call"), reason \in Reasons :
       \/ ToolDelta(cs, reason)
       \/ \E m \in IF Watched THEN Marks ELSE {Plain}, upto \in {0} \cup Unsent("inline"),
              begins \in {FALSE, Watched} : ContentDelta(m, upto, begins, cs, reason)
  \/ \E i \in Blocks : BlockStart(i) \/ BlockPiece(i) \/ BlockStop(i)
                       \/ \E j \in i..MaxBlocks : WholeParts(i, j)

AdapterSpec == AdapterInit /\ [][AdapterNext]_adapterVars

----------------------------------------------------------------------------
(* What the model called for.                                              *)
Called ==
  {i \in Blocks : answer[i].kind = "call" \/ (answer[i].kind = "inline" /\ adapter.inline)}

(* What an adapter that parses collected text hands on of a call that has  *)
(* no arguments is {"raw": ""}.                                            *)
Spoiled(i) == adapter.wire = "delta" /\ answer[i].kind = "call" /\ answer[i].size = 0

(* No call is run twice.  One is run with no arguments, with the raw text  *)
(* of a part of them or with others than its own only if the answer broke  *)
(* off, content hid a piece, or a tag of reasoning was in the way -- or    *)
(* if it has none and its adapter parses what is not there.  And an answer *)
(* that arrived in full has exactly its calls run, each with all its       *)
(* arguments, wherever tidy reasoning stands around those in the text --   *)
(* through an adapter without a flush at the end only if the provider said *)
(* "tool_calls" in a delta of its own, and never through Bedrock's.        *)
CallsFaithful ==
  LET dependable ==
        /\ link.phase = "closed" /\ due = {} /\ taken.pending = NothingTaken.pending
        /\ ~mixed /\ ~untidy
        /\ adapter # Bedrock
        /\ adapter.wire = "delta" /\ ~adapter.flushes => link.finish = "calls"
  IN  /\ \A i, j \in DOMAIN taken.calls :
           taken.calls[i].call = taken.calls[j].call /\ taken.calls[i].call # 0 => i = j
      /\ \A i \in DOMAIN taken.calls :
           taken.calls[i].how \in {"raw", "empty"} =>
             mixed \/ untidy \/ link.phase = "cut" \/ Spoiled(taken.calls[i].call)
      /\ dependable =>
           ToSet(taken.calls) =
             {[call |-> i, how |-> IF Spoiled(i) THEN "raw" ELSE "whole"] : i \in Called}

(* client.ts:1249 "If no tool calls, we're done": a recorded call is one   *)
(* the model made.                                                         *)
OnlyModelCalls == \A i \in DOMAIN taken.calls : taken.calls[i].call # 0
============================================================================
