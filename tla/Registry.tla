------------------------------ MODULE Registry ------------------------------
(***************************************************************************)
(* The tables of model_harness/registry.py.  What a dialog prints about a  *)
(* model (memory, badges, notes) is left out; sizes are megabytes, rounded *)
(* up.                                                                     *)
(***************************************************************************)
EXTENDS Naturals, Sequences, TLC

\* KNOWN_ENDPOINTS: the provider of each server's port.
KnownEndpoints == [ollama |-> "ollama", lm_studio |-> "lm-studio", vllm |-> "generic-api"]

\* ASR_MODELS.
Asr(size, gated, deps) == [size |-> size, gated |-> gated, depends_on |-> deps]
AsrModels ==
  ("whisper-large-v3"             :> Asr(3088, FALSE, <<>>)) @@
  ("parakeet-tdt-1.1b"            :> Asr(4284, FALSE, <<>>)) @@
  ("pyannote-speaker-diarization" :> Asr(6, TRUE, <<"pyannote-embedding">>)) @@
  ("pyannote-embedding"           :> Asr(97, TRUE, <<>>))

\* _RECOMMENDATIONS, best first.
Chat(name) == [name |-> name, role |-> "chat", vision |-> FALSE]
Ocr(name) == [name |-> name, role |-> "vision", vision |-> TRUE]
Translate(name) == [name |-> name, role |-> "translation", vision |-> FALSE]
Embed(name) == [name |-> name, role |-> "embedding", vision |-> FALSE]

OcrPair == <<Ocr("richardyoung/olmocr2:7b-q8"), Ocr("allenai/olmocr-2-7b")>>
OcrModels ==
  [laptop      |-> Append(OcrPair, Translate("aya-expanse:8b")),
   desktop     |-> Append(OcrPair, Translate("aya-expanse:32b")),
   mac_unified |-> Append(OcrPair, Translate("aya-expanse:8b"))]
DraftModels ==
  [laptop      |-> <<Chat("llama3.2:3b"), Chat("qwen2.5:7b")>>,
   desktop     |-> <<Chat("qwen2.5:32b"), Chat("llama3.1:8b")>>,
   mac_unified |-> <<Chat("qwen2.5:14b"), Chat("llama3.1:8b")>>]
GraphModels == [t \in DOMAIN DraftModels |-> Append(DraftModels[t], Embed("nomic-embed-text"))]
TranscribeModels ==
  [DraftModels EXCEPT !.laptop = <<Chat("llama3.2:3b"), Chat("phi4-mini:3.8b")>>]
RecommendedModels ==
  ("artifice-ocr" :> OcrModels) @@ ("artifice-graph" :> GraphModels) @@
  ("artifice-draft" :> DraftModels) @@ ("artifice-transcribe" :> TranscribeModels)
AllRecommendations ==
  {RecommendedModels[a][t][i] : a \in DOMAIN RecommendedModels, t \in DOMAIN DraftModels, i \in 1..2}
  \cup {Embed("nomic-embed-text")} \cup {OcrModels[t][3] : t \in DOMAIN OcrModels}
RecommendedNames == {r.name : r \in AllRecommendations}
=============================================================================
