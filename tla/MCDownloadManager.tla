------------------------- MODULE MCDownloadManager -------------------------
(* DownloadManager on small instances. *)
EXTENDS DownloadManagerProps, TLC
CONSTANTS k1, emb, whisper, c1, c2, s1

\* One key with a dependency, as whisper and the pyannote embedding.
OneKey == {k1}
OneKeyModels == [k \in OneKey |-> <<whisper, emb>>]
\* One key of a single model, as most of the registry.
SingleModel == [k \in OneKey |-> <<whisper>>]

CallerSymmetry == Permutations({c1, c2})
=============================================================================
