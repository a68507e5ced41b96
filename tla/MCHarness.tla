----------------------------- MODULE MCHarness -----------------------------
(* The model harness on small instances.  The structured call, the scan for   *)
(* servers and the application's own request share no state: each is checked  *)
(* while the others stand still, and `part` says which one moves.             *)
EXTENDS StructuredCallProps, EndpointProbeProps, InferenceEngineProps, ModelDependenciesProps,
        Registry

VARIABLE part

\* Every adapter a deployer can build.
Deployed == Adapter
OneUrl == {[scheme |-> "http", host |-> "box"], [scheme |-> "other", host |-> "box"]}

\* One endpoint per way the port names a provider, and an unknown port.
Ports == [e \in {"ollama", "vllm"} |-> KnownEndpoints[e]] @@ ("elsewhere" :> "none")

\* The registry's names, one of them in LM Studio's spelling too.
Served == {<<>>, <<"nomic-embed-text">>, <<"nomic-embed-text", "qwen2.5:7b">>,
           <<"aya-expanse:8b", "qwen2.5:14b", "phi4-mini:3.8b">>,
           <<"nomic-embed-text", "llama3.2-3b">>, <<"qwen2.5:32b", "llama3.2-3b", "llama3.2:3b">>,
           <<"llama3.1:8b", "richardyoung/olmocr2:7b-q8">>}
Wishes == {"", "llama3.2:3b", "llama3.2-3b", "qwen2.5:14b"}
AllNames == RecommendedNames \cup {"llama3.2-3b"}
Spelling == [n \in AllNames |-> IF n = "llama3.2-3b" THEN "llama3.2:3b" ELSE n]

\* Every graph over three of the registry's ASR models, its own among them.
ThreeModels == {"whisper-large-v3", "pyannote-speaker-diarization", "pyannote-embedding"}
Sizes == [k \in ThreeModels |-> AsrModels[k].size]
GatedModels == {k \in ThreeModels : AsrModels[k].gated}
TwoAtMost == {s \in BoundedSeq(ThreeModels, 2) : Len(s) = 2 => s[1] # s[2]}
AllGraphs == [ThreeModels -> TwoAtMost]
OneGraph == {[k \in ThreeModels |-> AsrModels[k].depends_on]}

\* The parts that stand still, each in one of its initial states.
IdleCall == /\ adapter = AnthropicAdapter /\ url \in CallUrls /\ url.scheme = "http"
            /\ floor = "prompted" /\ kinds = {} /\ CallInit
IdleEngine == installed = <<>> /\ chosen = NoModel /\ EngineInit
IdleDeps == deps \in OneGraph /\ key = "whisper-large-v3" /\ DepsInit
MCInit ==
  /\ ProbeInit
  /\ \/ part = "call" /\ CallInit /\ IdleEngine /\ IdleDeps
     \/ part = "scan" /\ IdleCall /\ IdleEngine /\ IdleDeps
     \/ part = "engine" /\ IdleCall /\ EngineInit /\ IdleDeps
     \/ part = "consent" /\ IdleCall /\ IdleEngine /\ DepsInit
MCNext ==
  /\ UNCHANGED part
  /\ \/ part = "call" /\ CallNext /\ UNCHANGED <<probeVars, engineVars, depsVars>>
     \/ part = "scan" /\ ProbeNext /\ UNCHANGED <<callVars, engineVars, depsVars>>
     \/ part = "engine" /\ EngineNext /\ UNCHANGED <<callVars, probeVars, depsVars>>
     \/ part = "consent" /\ DepsNext /\ UNCHANGED <<callVars, probeVars, engineVars>>
MCSpec == MCInit /\ [][MCNext]_<<part, callVars, probeVars, engineVars, depsVars>>
          /\ CallFairness /\ ProbeFairness /\ EngineFairness /\ WF_depsVars(DepsNext)

\* Types of the four parts.
HarnessTypeOK == CallTypeOK /\ ProbeTypeOK /\ EngineTypeOK /\ DepsTypeOK

\* Whatever servers answer, every call, scan, request and walk ends.
HarnessEnds == CallEnds /\ ScanEnds /\ RequestEnds /\ WalkEnds
=============================================================================
