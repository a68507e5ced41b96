------------------------- MODULE EndpointProbeProps -------------------------
(* What a scan for model servers may tell the user. *)
EXTENDS EndpointProbe

Hints == {"runner_down", "timeout", "network", "malformed", "no_list", "pull_a_model", "none", "pending"}
ProbeResult == [reachable : BOOLEAN, provider : Providers \cup {"none"},
                models : SUBSET Names, hint : Hints]

ProbeTypeOK ==
  /\ scan \in {"idle", "running", "returned"}
  /\ at \in [Endpoints -> {"idle", "checking", "tags", "ids", "done", "refused", "raised"}]
  /\ lists \in [Endpoints -> SUBSET {"tags", "ids"}] /\ malformed \in [Endpoints -> BOOLEAN]
  /\ models \in [Endpoints -> SUBSET Names] /\ report \in [Endpoints -> ProbeResult]
  /\ results \in SUBSET Endpoints

\* A server that answered one list is in the results, as reachable and with the
\* names it gave, even when it went away before the other list or answered that
\* one with something else, and one that answered neither is not reachable
\* (discovery.py:343-344, "At least one endpoint answered before the connection
\* dropped").  The exception is a server whose other answer is JSON of another
\* shape: discovery.py:386-387 re-raises that, and the server is left out.
ReachableIffAnswered ==
  scan = "returned" =>
    /\ \A e \in Endpoints : lists[e] # {} => e \in results \/ at[e] = "raised"
    /\ \A e \in results :
         /\ report[e].reachable <=> lists[e] # {}
         /\ report[e].reachable => report[e].models = models[e]

\* detect_local_servers, discovery.py:472-473: "One ProbeResult per known
\* endpoint that passed policy validation, regardless of whether the server was
\* reachable."  False where an answer has another shape (README, Findings).
EveryServerReported ==
  scan = "returned" => \A e \in Endpoints : at[e] # "refused" => e \in results

\* "If the port heuristic says ollama but /api/tags did not answer, the port is
\* wrong": only a server with Ollama's own list is called Ollama, and only then
\* is `ollama pull` advised (discovery.py:405-421).
OllamaIsProven ==
  \A e \in results :
    \/ report[e].reachable /\ report[e].provider = "ollama"
    \/ report[e].hint = "pull_a_model"
    => "tags" \in lists[e]

\* A scan ends, whatever the servers do.
ScanEnds == scan = "running" ~> scan = "returned"
=============================================================================
