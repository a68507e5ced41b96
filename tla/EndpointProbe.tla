---------------------------- MODULE EndpointProbe ----------------------------
(***************************************************************************)
(* Looking for local model servers (model_harness/discovery.py):           *)
(* detect_local_servers probes every known endpoint at once, each probe    *)
(* asks its server for two lists, and any server may answer anything, or   *)
(* stop answering between the two.  Model names are a set: callers sort    *)
(* them.  A hint is known by the condition that gives it.                  *)
(***************************************************************************)
CONSTANTS Endpoints,     \* keys of KNOWN_ENDPOINTS
          PortProvider,  \* endpoint -> provider of its port, or "none"
          Names          \* model names a server may list

Providers == {"ollama", "lm-studio", "generic-api"}
ASSUME EndpointAssumption == PortProvider \in [Endpoints -> Providers \cup {"none"}]

VARIABLES scan,      \* detect_local_servers: idle, running, returned
          at,        \* endpoint -> where its probe is
          lists,     \* endpoint -> which lists answered: tags, ids
          malformed, \* endpoint -> some 200 answer was not JSON
          models,    \* endpoint -> names listed so far
          report,    \* endpoint -> its ProbeResult, when there is one
          results    \* endpoints in the list detect_local_servers returns

probeVars == <<scan, at, lists, malformed, models, report, results>>

Transport == {"connect", "timeout", "network", "other"}
NoReport == [reachable |-> FALSE, provider |-> "none", models |-> {}, hint |-> "pending"]

\* Where the exception of a dropped request ends up in the user's hint.
HintOf(failure) ==
  IF failure \in {"connect", "other"} THEN "runner_down" ELSE failure

\* The provider, from what answered and from the port.
PortDecides(port, answered) ==
  IF port # "none" THEN port
  ELSE IF answered = {"ids"} THEN "generic-api" ELSE "ollama"
Detected(port, answered) ==
  IF answered = {"ids"} /\ port \in {"ollama", "none"} THEN "generic-api"
  ELSE IF port = "none" THEN "ollama"
  ELSE port

\* The end of probe_endpoint; `failure` is what ended it early, or "none".
Reachable(answered, names, port) ==
  [reachable |-> TRUE, provider |-> Detected(port, answered), models |-> names,
   hint |-> IF Detected(port, answered) = "ollama" /\ names = {} THEN "pull_a_model" ELSE "none"]
Unreachable(port, hint) ==
  [reachable |-> FALSE, provider |-> port, models |-> {}, hint |-> hint]
ConclusionOfFailure(port, answered, names, bad, failure) ==
  IF failure # "none" THEN Unreachable(port, HintOf(failure))
  ELSE IF answered # {} THEN Reachable(answered, names, port)
  ELSE Unreachable(port, IF bad THEN "malformed" ELSE "no_list")
Conclusion(port, answered, names, bad, failure) ==
  IF answered # {} THEN Reachable(answered, names, port)
  ELSE IF failure # "none" THEN Unreachable(port, HintOf(failure))
  ELSE Unreachable(port, IF bad THEN "malformed" ELSE "no_list")

-----------------------------------------------------------------------------
ProbeInit ==
  /\ scan = "idle" /\ at = [e \in Endpoints |-> "idle"]
  /\ lists = [e \in Endpoints |-> {}] /\ malformed = [e \in Endpoints |-> FALSE]
  /\ models = [e \in Endpoints |-> {}] /\ report = [e \in Endpoints |-> NoReport]
  /\ results = {}

\* GET /api/byom/detect: gather starts one task per endpoint.
StartScan ==
  /\ scan = "idle"
  /\ scan' = "running" /\ at' = [e \in Endpoints |-> "checking"]
  /\ UNCHANGED <<lists, malformed, models, report, results>>

\* _probe_one and probe_endpoint ask the policy; a refused endpoint gives None
\* or an EndpointRejected that gather keeps.
Check(e) ==
  /\ at[e] = "checking"
  /\ \E next \in {"tags", "refused"} : at' = [at EXCEPT ![e] = next]
  /\ UNCHANGED <<scan, lists, malformed, models, report, results>>

Conclude(e, answered, names, bad, failure) ==
  /\ report' = [report EXCEPT ![e] =
                  Conclusion(PortProvider[e], answered, names, bad, failure)]
  /\ at' = [at EXCEPT ![e] = "done"]
\* After the first list comes the second, after the second the conclusion.
Advance(e, answered, names, bad) ==
  IF at[e] = "tags"
  THEN at' = [at EXCEPT ![e] = "ids"] /\ UNCHANGED report
  ELSE Conclude(e, answered, names, bad, "none")

\* _probe_ollama_tags or _probe_openai_models got a list, possibly empty.
ListAnswers(e) ==
  /\ at[e] \in {"tags", "ids"}
  /\ \E names \in SUBSET Names :
       /\ lists' = [lists EXCEPT ![e] = @ \cup {at[e]}]
       /\ models' = [models EXCEPT ![e] = @ \cup names]
       /\ Advance(e, lists[e] \cup {at[e]}, models[e] \cup names, malformed[e])
  /\ UNCHANGED <<scan, malformed, results>>

\* The server answered, without a list: not 200, or a body that is not JSON.
OtherAnswer(e) ==
  /\ at[e] \in {"tags", "ids"}
  /\ \E bad \in {malformed[e], TRUE} :
       /\ malformed' = [malformed EXCEPT ![e] = bad]
       /\ Advance(e, lists[e], models[e], bad)
  /\ UNCHANGED <<scan, lists, models, results>>

\* The request never got an answer: the second list is not asked for.
RequestFails(e) ==
  /\ at[e] \in {"tags", "ids"}
  /\ \E failure \in Transport : Conclude(e, lists[e], models[e], malformed[e], failure)
  /\ UNCHANGED <<scan, lists, malformed, models, results>>

\* JSON of another shape raises AttributeError or TypeError, which is not
\* caught here.
WrongShape(e) ==
  /\ at[e] \in {"tags", "ids"}
  /\ at' = [at EXCEPT ![e] = "raised"]
  /\ UNCHANGED <<scan, lists, malformed, models, report, results>>

\* gather(return_exceptions=True) waits for all; what is not a ProbeResult is
\* left out.
EndedCleanly == {"done", "refused"}
Ended == {"done", "refused", "raised"}
Gathered == {e \in Endpoints : at[e] = "done"}
EndScan ==
  /\ scan = "running" /\ \A e \in Endpoints : at[e] \in Ended
  /\ scan' = "returned" /\ results' = Gathered
  /\ UNCHANGED <<at, lists, malformed, models, report>>

ProbeStep(e) == Check(e) \/ ListAnswers(e) \/ OtherAnswer(e) \/ RequestFails(e) \/ WrongShape(e)
ProbeNext == StartScan \/ EndScan \/ \E e \in Endpoints : ProbeStep(e)

\* Every GET ends: each read is bounded by the client's timeout, and no server goes
\* on dripping bytes for ever.
ProbeFairness == WF_probeVars(EndScan) /\ \A e \in Endpoints : WF_probeVars(ProbeStep(e))
ProbeSpec == ProbeInit /\ [][ProbeNext]_probeVars /\ ProbeFairness
=============================================================================
