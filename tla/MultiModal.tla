----------------------------- MODULE MultiModal -----------------------------
(***************************************************************************)
(* The calls of src/client/client.ts that are no chat: embed(),            *)
(* generateImage(), generateSpeech(), transcribe() and rerank(), which     *)
(* run _runMultiModal() over one request of an adapter.                    *)
(*                                                                         *)
(* Two calls of one operation meet at the provider's breaker.  What an     *)
(* adapter's method makes of a response is a record: whether it sends      *)
(* anything, and what the caller gets when the body holds what was asked   *)
(* for ("good"), is JSON without it ("hollow") or is no JSON ("garbled"):  *)
(* a "value", a result with "nothing" in it, or an "error".                *)
(***************************************************************************)
EXTENDS BreakerOps, FiniteSets, Sequences, TLC

CONSTANTS
  UnaryCalls,   \* concurrent calls, numbered as they begin
  UnaryRetries  \* policy.retry.maxRetries

ASSUME MultiModalAssumption == IsFiniteSet(UnaryCalls) /\ UnaryRetries \in Nat

VARIABLES
  asked,    \* what this behaviour's calls ask: the adapter's method, the policy
  circuit,  \* the provider's breaker
  unary     \* [UnaryCalls -> the state of a call]

unaryVars == <<asked, circuit, unary>>

----------------------------------------------------------------------------
Reads(good, hollow, garbled) ==
  [sends |-> TRUE, good |-> good, hollow |-> hollow, garbled |-> garbled]

Mapped == Reads("value", "error", "error")      \* data.data.map(...)
Defaulted == Reads("value", "nothing", "error") \* data.data ?? []
Verbatim == Reads("value", "value", "value")    \* the body as it comes
Refusing == [Mapped EXCEPT !.sends = FALSE]     \* a method that only throws

(* transcribe() of the OpenAI wire reads "json" and "text" as text and the *)
(* other formats, "srt" too, as JSON.                                      *)
Transcripts == {Verbatim, Defaulted, Reads("error", "error", "error")}

(* What each adapter offers: its methods, with every way of reading that   *)
(* its parameters choose between.                                          *)
OpenAIUnary ==
  [embed |-> {Mapped}, generateImage |-> {Mapped}, generateSpeech |-> {Verbatim}]
OpenAITranscribe == [transcribe |-> Transcripts]
AzureUnary ==
  [embed |-> {Mapped}, generateImage |-> {Mapped}, generateSpeech |-> {Verbatim}]
AzureTranscribe == [transcribe |-> Transcripts]
OpenAICompatibleUnary == [embed |-> {Mapped}]
GroqUnary == [transcribe |-> Transcripts]
OllamaUnary == [embed |-> {Defaulted}]
HuggingFaceUnary ==
  [embed |-> {Defaulted}, generateImage |-> {Defaulted, Verbatim},
   transcribe |-> {Reads("value", "value", "error")}]
GoogleUnary ==
  [embed |-> {Defaulted}, generateImage |-> {Defaulted}, generateSpeech |-> {Defaulted},
   transcribe |-> {Defaulted}]
VertexUnary ==
  [embed |-> {Defaulted}, generateImage |-> {Defaulted}, generateSpeech |-> {Defaulted},
   transcribe |-> {Defaulted}]
BedrockUnary == [embed |-> {Defaulted}]
CohereUnary == [embed |-> {Defaulted}, rerank |-> {Mapped}]
CohereRerank == [embed |-> {Refusing}, rerank |-> {Defaulted}]
VoyageAI == [embed |-> {Mapped}]
Deepgram == [embed |-> {Refusing}, transcribe |-> {Defaulted}]
ElevenLabs == [embed |-> {Refusing}, generateSpeech |-> {Verbatim}]
ChatOnly == <<>>

UnaryAdapters ==
  {OpenAIUnary @@ OpenAITranscribe, AzureUnary @@ AzureTranscribe, OpenAICompatibleUnary,
   GroqUnary, OllamaUnary, HuggingFaceUnary, GoogleUnary, VertexUnary, BedrockUnary,
   CohereUnary, CohereRerank, VoyageAI, Deepgram, ElevenLabs, ChatOnly}

Operations == {"embed", "generateImage", "generateSpeech", "transcribe", "rerank"}

(* The ways one operation of one adapter reads; none, if it lacks it.      *)
Readings(a, o) == IF o \in DOMAIN a THEN a[o] ELSE {}

Methods == UNION {Readings(a, o) : a \in UnaryAdapters, o \in Operations}

----------------------------------------------------------------------------
NewUnary ==
  [phase |-> "new", attempt |-> 0, cut |-> FALSE, late |-> FALSE,
   events |-> <<>>, reports |-> 0]

(* A call is "due" before an attempt, "sent" while the provider has it,    *)
(* "resting" between two attempts.  "late" is history: its signal was      *)
(* aborted while it was not sent.                                          *)
UnaryPhases ==
  {"new", "due", "sent", "resting", "unsupported", "refused", "answered", "failed"}

MultiModalTypeOK ==
  /\ asked \in [method : SUBSET Methods, network : BOOLEAN]
  /\ circuit \in BreakerType
  /\ \A c \in UnaryCalls :
       /\ unary[c].phase \in UnaryPhases
       /\ unary[c].attempt \in 0..UnaryRetries
       /\ unary[c].cut \in BOOLEAN /\ unary[c].late \in BOOLEAN
       /\ unary[c].reports \in 0..(UnaryRetries + 1)

MultiModalInit ==
  /\ \E a \in UnaryAdapters, o \in Operations, network \in BOOLEAN :
       asked \in {[method |-> m, network |-> network] :
                    m \in IF Readings(a, o) = {} THEN {{}} ELSE {{r} : r \in Readings(a, o)}}
  /\ circuit = ClosedBreaker
  /\ unary = [c \in UnaryCalls |-> NewUnary]

UnderWay == {c \in UnaryCalls : unary[c].phase \in {"due", "sent", "resting"}}

UnaryEmit(c, phase, event) ==
  [unary EXCEPT ![c].phase = phase, ![c].events = Append(@, event)]

Begins(c) ==
  /\ unary[c].phase = "new"
  /\ \A d \in UnaryCalls : d < c => unary[d].phase # "new"

(* A method the adapter lacks: ConfigurationError, before any event.       *)
BeginUnsupported(c) ==
  /\ Begins(c)
  /\ asked.method = {}
  /\ unary' = [unary EXCEPT ![c].phase = "unsupported"]
  /\ UNCHANGED <<asked, circuit>>

(* request.start, then _prepareRequest() asks the breaker, once.           *)
BeginAdmitted(c) ==
  /\ Begins(c)
  /\ asked.method # {}
  /\ IsAvailable(circuit)
  /\ circuit' = Admit(circuit)
  /\ unary' = UnaryEmit(c, "due", "start")
  /\ UNCHANGED asked

(* CircuitBreakerOpenError leaves through circuit_breaker.open alone.      *)
BeginRefused(c) ==
  /\ Begins(c)
  /\ asked.method # {}
  /\ ~IsAvailable(circuit)
  /\ unary' = [unary EXCEPT ![c].phase = "refused", ![c].events = <<"start", "open">>]
  /\ UNCHANGED <<asked, circuit>>

(* The catch of _runMultiModal(): whatever was thrown counts against the   *)
(* provider and is tried again while attempts are left, the listed         *)
(* statuses always, all else if the policy retries network errors.         *)
Fails(c, listed) ==
  LET again == unary[c].attempt < UnaryRetries /\ (listed \/ asked.network)
  IN  /\ circuit' = RecordFailure(circuit)
      /\ unary' = [UnaryEmit(c, IF again THEN "resting" ELSE "failed",
                                IF again THEN "retrying" ELSE "failed")
                    EXCEPT ![c].reports = @ + 1, ![c].cut = again /\ @,
                           ![c].late = @ \/ (again /\ unary[c].cut)]
      /\ UNCHANGED asked

(* Mutant: an answer is not reported to the breaker.                       *)
SucceedsUnreported(c) ==
  /\ unary' = [UnaryEmit(c, "answered", "completed")
                EXCEPT ![c].reports = @ + 1, ![c].cut = FALSE]
  /\ UNCHANGED <<asked, circuit>>

Succeeds(c) ==
  /\ circuit' = RecordSuccess(circuit)
  /\ unary' = [UnaryEmit(c, "answered", "completed")
                EXCEPT ![c].reports = @ + 1, ![c].cut = FALSE]
  /\ UNCHANGED asked

(* Mutant: the transport does not look at the signal before it sends.      *)
SendsRegardless(c, m) == m.sends

(* transport.request() with a signal that has been aborted rejects before  *)
(* anything is sent.                                                       *)
Sends(c, m) == m.sends /\ ~unary[c].cut

(* One attempt: fn(signal).                                                *)
Attempt(c) ==
  /\ unary[c].phase = "due"
  /\ \E m \in asked.method :
       IF Sends(c, m)
       THEN /\ unary' = [unary EXCEPT ![c].phase = "sent"]
            /\ UNCHANGED <<asked, circuit>>
       ELSE Fails(c, FALSE)

(* The provider answers with a body, which the method reads.               *)
Reply(c) ==
  /\ unary[c].phase = "sent"
  /\ \E m \in asked.method, body \in {"good", "hollow", "garbled"} :
       IF m[body] = "error" THEN Fails(c, FALSE) ELSE Succeeds(c)

(* A status that is no success (ProviderRequestError), or no answer: the   *)
(* network fails, or the signal is aborted meanwhile.                      *)
ReplyFails(c) ==
  /\ unary[c].phase = "sent"
  /\ \E listed \in BOOLEAN : Fails(c, listed)

(* sleep(delay) has no signal: only time ends it.                          *)
RestEnds(c) ==
  /\ unary[c].phase = "resting"
  /\ unary' = [unary EXCEPT ![c].phase = "due", ![c].attempt = @ + 1]
  /\ UNCHANGED <<asked, circuit>>

(* The caller aborts, or the scoped timeout of the call passes.  Nobody    *)
(* disposes of it, but an abort after the end finds nothing to stop, and   *)
(* "cut" is forgotten.                                                     *)
CutOff(c) ==
  /\ c \in UnderWay
  /\ ~unary[c].cut
  /\ unary' = [unary EXCEPT ![c].cut = TRUE, ![c].late = @ \/ unary[c].phase # "sent"]
  /\ UNCHANGED <<asked, circuit>>

CircuitCools ==
  /\ circuit.state = "open" /\ ~circuit.cooled
  /\ circuit' = Cool(circuit)
  /\ UNCHANGED <<asked, unary>>

MultiModalNext ==
  \/ \E c \in UnaryCalls :
       \/ BeginUnsupported(c) \/ BeginAdmitted(c) \/ BeginRefused(c)
       \/ Attempt(c) \/ Reply(c) \/ ReplyFails(c) \/ RestEnds(c) \/ CutOff(c)
  \/ CircuitCools

MultiModalSpec == MultiModalInit /\ [][MultiModalNext]_unaryVars

----------------------------------------------------------------------------
(* The places of a half-open circuit belong to calls under way: a call     *)
(* that is over has given its place back, whatever ended it.  (An open one *)
(* keeps a count that nobody reads, and forgets it when it turns half-open.) *)
PlacesGivenBack ==
  circuit.state = "half_open" => circuit.halfOpenCalls <= Cardinality(UnderWay)

(* A call whose signal was aborted while no attempt of it was out sends    *)
(* nothing any more and is never answered, although its retries go on: all *)
(* that is left to it is to fail.                                          *)
NothingSentLate ==
  \A c \in UnaryCalls : unary[c].late => unary[c].phase \in {"due", "resting", "failed"}

(* An admitted call tells the breaker once per attempt, and its listeners  *)
(* of every retry and of one end; a refused call ends with the refusal.    *)
CallsReported ==
  \A c \in UnaryCalls :
    LET u == unary[c]
        count(e) == Cardinality({i \in DOMAIN u.events : u.events[i] = e})
    IN  /\ count("retrying") + count("completed") + count("failed") = u.reports
        /\ count("completed") = 1 <=> u.phase = "answered"
        /\ count("failed") = 1 <=> u.phase = "failed"
        /\ u.phase \in {"unsupported", "refused"} => u.reports = 0
        /\ count("retrying") <= UnaryRetries

(* _runMultiModal(): a call of an adapter's single request, its retries    *)
(* and its end, as its provider, its breaker and its listeners see them.   *)
UnaryCallsAccounted == PlacesGivenBack /\ NothingSentLate /\ CallsReported
============================================================================
