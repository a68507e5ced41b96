------------------------- MODULE StructuredCallProps -------------------------
(* What a structured call promises its caller. *)
EXTENDS StructuredCall

Guarantees == {"schema", "json", "nothing"}
Documented == {"EndpointRejected", "StructuredOutputUnsupported", "SchemaValidationFailed", "HTTPError"}
Errors == Documented \cup {"AttributeError", "MalformedReply", "AssertionError"}
Sent == [mode : Rungs, guarantee : Guarantees, allowed : BOOLEAN, moved : BOOLEAN]

\* Types of the driver's locals and of what it hands back; the ladder holds
\* modes of the adapter only.
CallTypeOK ==
  /\ phase \in {"idle", "rung", "ready", "waiting", "done"} /\ moved \in BOOLEAN
  /\ adapter \in Adapters /\ url \in CallUrls /\ floor \in Modes
  /\ todo \in SUBSET adapter.supported /\ sent \in Seq(Sent) /\ repaired \in BOOLEAN
  /\ outcome \in [kind : Errors \cup {"pending", "result"}, mode : Modes, raw : Texts]
  /\ kinds \in SUBSET AddressKinds
  /\ phase = "waiting" => sent # <<>>
  /\ phase = "ready" => todo # {}

\* Each request of a call asks for less than the one before it, so a call makes
\* at most as many requests as there are modes (driver.py, the ladder).
LadderDescends ==
  \A i, j \in 1..Len(sent) : i < j => Weaker(sent[j].mode, sent[i].mode)

\* mode_used is the mode of the request that was answered, that request asked
\* for the guarantee of the mode, repaired says whether an earlier answer was
\* thrown away, and the data validated (contract.py, HarnessResult).  The one
\* mode that promises more than it asks for is json_object on an Anthropic
\* adapter whose capabilities were overridden (anthropic_adapter.py:72-76).
Promise == [native_schema |-> "schema", json_object |-> "json", prompted |-> "nothing"]
Overridden == adapter.family = "anthropic" /\ outcome.mode = "json_object"
ResultIsHonest ==
  outcome.kind = "result" =>
    /\ Asked.mode = outcome.mode
    /\ Asked.guarantee = Promise[outcome.mode] <=> ~Overridden
    /\ repaired <=> Len(sent) > 1
    /\ Validates(outcome.raw)

\* A host that moves to a refused address gets no further request, unless it
\* moves in the instant between the adapter's check and its POST: the adapter
\* checks before every request, not only before the first (the gap that is left
\* is recorded at endpoint_policy.py:67-70).
FailsClosed == AdapterChecks => \A i \in 1..Len(sent) : sent[i].allowed \/ sent[i].moved

\* Whatever the server does, a call ends.
CallEnds == phase = "rung" ~> phase = "done"

\* The four statements below are false of the code (README, Findings).

\* run_structured's docstring: "the driver will use a stronger mode if the
\* provider supports one, but never a weaker one" than the caller's minimum.
FloorHolds ==
  outcome.kind = "result" /\ floor # "none" => ~Weaker(outcome.mode, floor)

\* contract.py:47-49 on _extract_json, which strips markdown fences: "It runs
\* only on the PROMPTED rung and its result carries mode_used=PROMPTED, so a
\* caller can tell a scrape from a guarantee".
ScrapesAreMarked ==
  outcome.kind = "result" /\ outcome.raw = "fenced" => outcome.mode = "prompted"

\* What contract.py:87-94 says a mode means, of the mode a result names: the
\* provider was asked for that guarantee.
ModeIsTrue == outcome.kind = "result" => Asked.guarantee = Promise[outcome.mode]

\* A call that has asked a server raises what the docstrings list (driver.py:71-78,
\* and openai_adapter.py:176-181 for the adapter), whatever the server answers.
ErrorsAreDocumented ==
  sent # <<>> => outcome.kind \in Documented \cup {"pending", "result"}
=============================================================================
