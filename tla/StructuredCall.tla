--------------------------- MODULE StructuredCall ---------------------------
(***************************************************************************)
(* One structured model call (model_harness/driver.py) through an adapter  *)
(* (openai_adapter.py, anthropic_adapter.py) to a server that may answer   *)
(* anything: the driver starts at the strongest mode the adapter declares  *)
(* and walks down the ladder of modes until an answer validates.           *)
(*                                                                         *)
(* A text is known by what _extract_json and the schema make of it.  The   *)
(* host's addresses may change at any time, so every resolution of the     *)
(* host is a step of its own.                                              *)
(***************************************************************************)
EXTENDS Naturals, Sequences, EndpointPolicy

CONSTANTS Adapters,      \* configured adapters: [family, best, supported]
          CallUrls,      \* endpoints in ModelConnectorConfig
          DriverChecks,  \* run_structured got an endpoint policy
          AdapterChecks  \* the adapter was built with one

\* StructuredOutputMode and _MODE_STRENGTH: a higher rung is a weaker mode.
Rungs == {"native_schema", "json_object", "prompted"}
Strength == [native_schema |-> 1, json_object |-> 2, prompted |-> 3]
Weaker(m, n) == Strength[m] > Strength[n]
Modes == Rungs \cup {"none"}

\* ProviderCapabilities as an adapter declares them, supported being what modes()
\* returns: for the OpenAI adapter every mode from its best one down, whichever
\* that is by default or override.  An Anthropic adapter leaves json_object out by
\* default, and an override may name any supported_modes: nothing checks that the
\* best mode is among them.
Downward(best) == {m \in Rungs : best # "none" /\ ~Weaker(best, m)}
OpenAIAdapter(best) == [family |-> "openai", best |-> best, supported |-> Downward(best)]
AnthropicAdapter ==
  [family |-> "anthropic", best |-> "native_schema", supported |-> {"native_schema", "prompted"}]
Adapter == {OpenAIAdapter(m) : m \in Modes}
           \cup [family : {"anthropic"}, best : Modes, supported : SUBSET Rungs]
ASSUME AdapterAssumption == Adapters \subseteq Adapter
ASSUME UrlAssumption == \A u \in CallUrls : u.scheme \in STRING /\ u.host \in STRING
ASSUME ChecksAssumption == DriverChecks \in BOOLEAN /\ AdapterChecks \in BOOLEAN

VARIABLES phase,     \* of the call
          adapter, url, floor,  \* its arguments; floor is request.mode or minimum
          todo,      \* rungs of the ladder not yet tried
          moved,     \* history: the host has moved since the adapter last checked it
          sent,      \* requests posted: [mode, guarantee, allowed, moved]
          repaired,  \* HarnessResult.repaired
          outcome,   \* what the caller gets: [kind, mode, raw]
          kinds      \* what the endpoint's host resolves to now

callVars == <<phase, adapter, url, floor, todo, moved, sent, repaired, outcome, kinds>>

-----------------------------------------------------------------------------
\* select_mode raises; otherwise the adapter's best mode is taken.
NoMode(a, f) ==
  \/ a.best = "none"
  \/ f # "none" /\ Weaker(a.best, f)

\* _rungs_from: from the best mode down, gaps skipped.
RungsIgnoringGaps(start, supported) == {m \in Rungs : ~Weaker(start, m)}
RungsFrom(start, supported) == {m \in supported : ~Weaker(start, m)}
AnyRung(rungs) == rungs
Strongest(rungs) == {m \in rungs : \A n \in rungs : ~Weaker(m, n)}

\* _build_payload: what the server is asked to guarantee.  Only the prompt
\* carries the schema where the adapter has nothing better.
Guarantee(family, mode) ==
  IF mode = "native_schema" THEN "schema"
  ELSE IF mode = "json_object" /\ family = "openai" THEN "json"
  ELSE "nothing"

\* A reply: the tool_use block of an Anthropic answer, and the text, which is
\* `missing` for an OpenAI answer whose content is null and for an Anthropic
\* one without text blocks, and `broken` where the body is not JSON or has not
\* the shape that is read (no choices, blocks that are not objects, ...).
Texts == {"valid", "fenced", "mismatch", "null", "prose", "empty"}
Reply == [tool : {"absent", "valid", "mismatch"}, text : Texts \cup {"missing", "broken"}]
ExtractText(family, mode, r) ==
  IF family = "anthropic" /\ mode = "native_schema" /\ r.tool # "absent" THEN r.tool
  ELSE IF family = "anthropic" /\ r.text = "missing" THEN "empty"
  ELSE r.text
\* _extract_json, then model_validate: null, prose and nothing do not parse,
\* a mismatch parses and fails the schema.
Parses(t) == t \in {"valid", "fenced", "mismatch"}
Validates(t) == t \in {"valid", "fenced"}

NoOutcome == [kind |-> "pending", mode |-> "none", raw |-> "empty"]
Error(kind) == [kind |-> kind, mode |-> "none", raw |-> "empty"]
Result(mode, raw) == [kind |-> "result", mode |-> mode, raw |-> raw]

-----------------------------------------------------------------------------
CallInit ==
  /\ phase = "idle" /\ adapter \in Adapters /\ url \in CallUrls /\ floor \in Modes
  /\ todo = {} /\ moved = FALSE /\ sent = <<>> /\ repaired = FALSE /\ outcome = NoOutcome
  /\ kinds \in SUBSET AddressKinds

\* run_structured up to the first rung.
Select ==
  /\ phase = "idle"
  /\ IF DriverChecks /\ ~ValidateUrl(url, kinds)
     THEN phase' = "done" /\ outcome' = Error("EndpointRejected") /\ todo' = {}
     ELSE IF NoMode(adapter, floor)
     THEN phase' = "done" /\ outcome' = Error("StructuredOutputUnsupported") /\ todo' = {}
     ELSE phase' = "rung" /\ todo' = RungsFrom(adapter.best, adapter.supported)
          /\ UNCHANGED outcome
  /\ UNCHANGED <<adapter, url, floor, moved, sent, repaired, kinds>>

\* provider.complete up to the POST: the adapter checks the endpoint again.
RefusesAtFirst == AdapterChecks /\ sent = <<>> /\ ~ValidateUrl(url, kinds)
AdapterRefuses == AdapterChecks /\ ~ValidateUrl(url, kinds)
CheckEndpoint ==
  /\ phase = "rung" /\ todo # {}
  /\ IF AdapterRefuses
     THEN phase' = "done" /\ outcome' = Error("EndpointRejected")
     ELSE phase' = "ready" /\ UNCHANGED outcome
  /\ moved' = FALSE
  /\ UNCHANGED <<adapter, url, floor, todo, sent, repaired, kinds>>

\* The POST, for the strongest mode left.  httpx resolves the host itself.
PostAs(mode) ==
  /\ sent' = Append(sent, [mode |-> mode, guarantee |-> Guarantee(adapter.family, mode),
                           allowed |-> ValidateUrl(url, kinds), moved |-> moved])
  /\ phase' = "waiting" /\ todo' = todo \ {mode}
  /\ UNCHANGED <<adapter, url, floor, moved, repaired, outcome, kinds>>
Post == phase = "ready" /\ \E mode \in Strongest(todo) : PostAs(mode)

\* The ladder bottomed out.  `assert last_raw is not None` fails where no rung
\* was ever tried, because the modes from the best one down are all unsupported.
Exhausted ==
  /\ phase = "rung" /\ todo = {}
  /\ phase' = "done"
  /\ outcome' = Error(IF sent = <<>> THEN "AssertionError" ELSE "StructuredOutputUnsupported")
  /\ UNCHANGED <<adapter, url, floor, todo, moved, sent, repaired, kinds>>

\* The rest of the loop body for an answer.  What a malformed body raises
\* (JSONDecodeError, KeyError, IndexError, TypeError, AttributeError) leaves the
\* adapter and the driver; MalformedReply stands for all of them.
Degrade(flag) == phase' = "rung" /\ repaired' = flag /\ UNCHANGED outcome
DegradeSilently == Degrade(repaired)
DegradeLoudly == Degrade(TRUE)
Finish(o) == phase' = "done" /\ outcome' = o /\ UNCHANGED repaired
Asked == sent[Len(sent)]
Take(text) ==
  IF text = "missing" THEN Finish(Error("AttributeError"))
  ELSE IF text = "broken" THEN Finish(Error("MalformedReply"))
  ELSE IF Validates(text) THEN Finish(Result(Asked.mode, text))
  ELSE DegradeLoudly
Answer ==
  /\ phase = "waiting"
  /\ \E r \in Reply : Take(ExtractText(adapter.family, Asked.mode, r))
  /\ UNCHANGED <<adapter, url, floor, todo, moved, sent, kinds>>

\* A transport failure, an error status or the timeout: the driver catches
\* none of them.
TransportFails ==
  /\ phase = "waiting"
  /\ Finish(Error("HTTPError"))
  /\ UNCHANGED <<adapter, url, floor, todo, moved, sent, kinds>>

\* The name of the endpoint's host now resolves to something else.
HostMoves == /\ kinds' \in SUBSET AddressKinds
             /\ moved' = (moved \/ kinds' # kinds)
             /\ UNCHANGED <<phase, adapter, url, floor, todo, sent, repaired, outcome>>

CallNext == Select \/ CheckEndpoint \/ Post \/ Exhausted \/ Answer \/ TransportFails \/ HostMoves

\* timeout_s bounds every read of httpx: a server that is silent for so long
\* fails.  One that sends a byte now and then is not bounded by the code, and is
\* taken to finish.
CallFairness == WF_callVars(CheckEndpoint) /\ WF_callVars(Post) /\ WF_callVars(Exhausted)
                /\ WF_callVars(Answer \/ TransportFails)
CallSpec == CallInit /\ [][CallNext]_callVars /\ CallFairness
=============================================================================
