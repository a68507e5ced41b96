------------------------ MODULE InferenceEngineProps ------------------------
(* What the summary and cleanup requests promise. *)
EXTENDS InferenceEngine, FiniteSets

Delays == {Delay(n) : n \in 1..MaxAttempts}
Named == ModelNames \cup {NoModel}
EngineTypeOK ==
  /\ installed \in Listings /\ chosen \in Settings
  /\ step \in {"idle", "listing", "calling", "waiting", "answered", "failed"}
  /\ streamed \in BOOLEAN /\ wished \in Named /\ listed \in Seq(ModelNames) /\ model \in Named
  /\ asked \in Seq(ModelNames) /\ posted \in Seq(1..(SdkRetries + 1)) /\ failures \in Seq(Failures) /\ delays \in Seq(Delays)

\* A model the user chose is never replaced, whatever is installed and whatever
\* fails, and a retry asks for the same model (resolution.py: "Falling back here
\* would silently run a different model than the user asked for").
ChoiceIsKept ==
  asked # <<>> =>
    LET fit == IF wished # NoModel THEN wished ELSE PickModel(listed) IN
    \A i \in 1..Len(asked) : asked[i] = fit

\* Without a choice the request runs on a chat model that was installed when
\* the list was read, never on an embedding model (inference.py:126-128), and
\* on the best recommendation for a laptop that was there.
PickIsSound ==
  wished = NoModel /\ asked # <<>> =>
    /\ \E i \in 1..Len(listed) : listed[i] = model
    /\ model \notin EmbedNames
    /\ \A k \in 1..Len(Recommended[Own]["laptop"]) :
         Usable(listed, Recommended[Own]["laptop"][k], "chat") =>
           \E b \in 1..k : Canon[Recommended[Own]["laptop"][b].name] = Canon[model]

\* The call is repeated only after a failure that may be repeated and that the
\* SDK has given up on, is made at most MaxAttempts times and once when its answer
\* is streamed, each call sends at most 1 + SdkRetries requests, and every delay
\* is at most MaxDelay and not shorter than the one before (_retry.py and the
\* client of inference.py:115).
RetriesAreSound ==
  /\ Len(asked) <= MaxAttempts /\ Len(posted) = Len(asked)
  /\ streamed => Len(asked) <= 1
  /\ \A i \in 1..Len(asked) :
       /\ posted[i] <= 1 + SdkRetries
       /\ i > 1 => Retryable(failures[i - 1]) /\ posted[i - 1] = 1 + SdkRetries
  /\ \A i \in 1..Len(delays) : delays[i] <= MaxDelay /\ (i > 1 => delays[i - 1] <= delays[i])

\* _retry.py:46: "max_attempts: Total number of attempts (1 = no retry, 4 = up to
\* 3 retries)", of the requests a completion sends: the pairs count them.
\* False: the SDK retries too (README, Findings).
Requests == {r \in (1..Len(posted)) \X (1..(SdkRetries + 1)) : r[2] <= posted[r[1]]}
TotalIsBounded == Cardinality(Requests) <= MaxAttempts

\* The user's own choice wins, exactly as spelled where that is installed; a
\* missing choice gives no model; vision is never guessed; an answer is always
\* an installed name; a usable recommendation is taken before any other model
\* (resolution.py:135-150, for every role and tier).
Installed(name) == \E i \in 1..Len(installed) : installed[i] = name
Sound(r, role, recs, configured) ==
  /\ r.name # NoModel => Installed(r.name)
  /\ configured # NoModel =>
       IF Installed(configured) THEN r.name = configured
       ELSE r.name # NoModel => Canon[r.name] = Canon[configured]
  /\ configured = NoModel =>
       (r.source = "recommended" <=> UsableOf(installed, recs, role) # {})
  /\ role = "vision" /\ r.name # NoModel => r.source \in {"user_choice", "recommended"}
ResolutionIsSound ==
  step = "idle" =>
    \A app \in Apps, role \in Roles, tier \in Tiers \cup {"none"} :
      Sound(ResolveModel(role, installed, app, tier, chosen), role, Recommendations(app, tier), chosen)

\* A request ends: answered, or failed with an error the user sees.
RequestEnds == step \in {"listing", "calling"} ~> step \in {"answered", "failed"}
=============================================================================
