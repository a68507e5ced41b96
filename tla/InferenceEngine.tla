--------------------------- MODULE InferenceEngine ---------------------------
(***************************************************************************)
(* One request for a summary or a cleanup (services/inference.py): the     *)
(* stored settings are read once, a model is chosen if none is set, and    *)
(* the completion is asked for, with retries (_retry.py) unless it is      *)
(* streamed.  The client of the SDK has retries of its own below that, and *)
(* nothing turns them off.  Meanwhile the user may install and remove      *)
(* models and change the setting.  Delays are seconds, those of _retry.py. *)
(***************************************************************************)
EXTENDS ModelChoice

CONSTANTS Listings,     \* what the server may have installed, in its order
          Settings,      \* what the user may set as the model, NoModel for none
          MaxAttempts,  \* of the retry decorator
          BaseDelay, MaxDelay,
          SdkRetries    \* max_retries of the SDK's client, its default here

ASSUME ListingAssumption ==
  Listings \subseteq Seq(ModelNames) /\ Settings \subseteq ModelNames \cup {NoModel}
ASSUME RetryAssumption ==
  MaxAttempts \in Nat \ {0} /\ BaseDelay \in Nat /\ MaxDelay \in Nat /\ SdkRetries \in Nat

VARIABLES installed,  \* on the server, now
          chosen,     \* model_name in the settings file, now
          step,       \* where the request is
          streamed,   \* the caller wants a stream
          wished,     \* model_name when the engine was built
          listed,     \* the models.list answer the choice was made from
          model,      \* engine.model_name
          asked,      \* the model each call of create named
          posted,     \* how many requests each call has sent
          failures,   \* how each failed
          delays      \* seconds slept before each retry

engineVars == <<installed, chosen, step, streamed, wished, listed, model, asked, posted,
                failures, delays>>

\* _resolve_model_name: the first tier that has an answer.
Own == "artifice-transcribe"
ChatModel(names, tier) == ResolveModel("chat", names, Own, tier, NoModel).name
TierOrder == <<"laptop", "desktop", "mac_unified">>
Answering(names) == {i \in DOMAIN TierOrder : ChatModel(names, TierOrder[i]) # NoModel}
PickFirstListed(names) == IF names = <<>> THEN NoModel ELSE names[1]
PickModel(names) ==
  IF Answering(names) = {} THEN NoModel ELSE ChatModel(names, TierOrder[First(Answering(names))])

\* delay = min(base_delay * 2 ** (attempt - 1), max_delay)
Power[n \in 0..MaxAttempts] == IF n = 0 THEN 1 ELSE 2 * Power[n - 1]
Delay(attempt) ==
  LET grown == BaseDelay * Power[attempt - 1] IN IF grown < MaxDelay THEN grown ELSE MaxDelay

\* What the decorator repeats: connection failures and timeouts.
Failures == {"connection", "timeout", "status"}
Retryable(failure) == failure \in {"connection", "timeout"}
MayRetry(attempts) == attempts < MaxAttempts

-----------------------------------------------------------------------------
EngineInit ==
  /\ installed \in Listings /\ chosen \in Settings
  /\ step = "idle" /\ streamed = FALSE /\ wished = NoModel /\ listed = <<>> /\ model = NoModel
  /\ asked = <<>> /\ posted = <<>> /\ failures = <<>> /\ delays = <<>>

\* summarize_job, cleanup_job, inference_generate: a new engine per request.
NewEngine ==
  /\ step = "idle"
  /\ streamed' \in BOOLEAN /\ wished' = chosen /\ model' = chosen
  /\ step' = IF chosen = NoModel THEN "listing" ELSE "calling"
  /\ UNCHANGED <<installed, chosen, listed, asked, posted, failures, delays>>

\* models.list answers, or fails and the request ends.
ListModels ==
  /\ step = "listing"
  /\ listed' = installed /\ model' = PickModel(installed)
  /\ step' = IF PickModel(installed) = NoModel THEN "failed" ELSE "calling"
  /\ UNCHANGED <<installed, chosen, streamed, wished, asked, posted, failures, delays>>
ListFails ==
  /\ step = "listing" /\ step' = "failed"
  /\ UNCHANGED <<installed, chosen, streamed, wished, listed, model, asked, posted, failures,
                 delays>>

\* chat.completions.create is called and sends its request.
AskRereads ==
  /\ step = "calling"
  /\ step' = "waiting" /\ asked' = Append(asked, IF chosen # NoModel THEN chosen ELSE model)
  /\ posted' = Append(posted, 1)
  /\ UNCHANGED <<installed, chosen, streamed, wished, listed, model, failures, delays>>
Ask ==
  /\ step = "calling"
  /\ step' = "waiting" /\ asked' = Append(asked, model) /\ posted' = Append(posted, 1)
  /\ UNCHANGED <<installed, chosen, streamed, wished, listed, model, failures, delays>>

\* Within the call the SDK sends the request again: after a failed connection, a
\* timeout, or a status it takes for passing (408, 409, 429, 5xx).
Tries == posted[Len(posted)]
Resend ==
  /\ step = "waiting" /\ Tries <= SdkRetries
  /\ posted' = [posted EXCEPT ![Len(posted)] = @ + 1]
  /\ UNCHANGED <<installed, chosen, step, streamed, wished, listed, model, asked, failures,
                 delays>>

Answered ==
  /\ step = "waiting" /\ step' = "answered"
  /\ UNCHANGED <<installed, chosen, streamed, wished, listed, model, asked, posted, failures,
                 delays>>

\* The call fails; _create_chat_completion is decorated, _stream_response is not.
\* Only a status may end it before the SDK's retries are used up.
RepeatsStreams(failure) == Retryable(failure) /\ MayRetry(Len(asked))
Repeats(failure) == ~streamed /\ Retryable(failure) /\ MayRetry(Len(asked))
AskFails ==
  /\ step = "waiting"
  /\ \E failure \in Failures :
       /\ Retryable(failure) => Tries > SdkRetries
       /\ failures' = Append(failures, failure)
       /\ IF Repeats(failure)
          THEN step' = "calling" /\ delays' = Append(delays, Delay(Len(asked)))
          ELSE step' = "failed" /\ UNCHANGED delays
  /\ UNCHANGED <<installed, chosen, streamed, wished, listed, model, asked, posted>>

\* The user changes the server's models, or the setting.
UserInstalls ==
  /\ installed' \in Listings
  /\ UNCHANGED <<chosen, step, streamed, wished, listed, model, asked, posted, failures, delays>>
UserChooses ==
  /\ chosen' \in Settings
  /\ UNCHANGED <<installed, step, streamed, wished, listed, model, asked, posted, failures, delays>>

EngineNext == NewEngine \/ ListModels \/ ListFails \/ Ask \/ Resend \/ Answered \/ AskFails
              \/ UserInstalls \/ UserChooses

\* The SDK bounds every read by its timeout: a server that is silent for so long
\* fails, and the request is sent again or the call ends.
EngineFairness == WF_engineVars(ListFails) /\ WF_engineVars(Ask)
                  /\ WF_engineVars(Resend \/ Answered \/ AskFails)
EngineSpec == EngineInit /\ [][EngineNext]_engineVars /\ EngineFairness
=============================================================================
