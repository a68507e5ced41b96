----------------------- MODULE ModelDependenciesProps -----------------------
(* What the user is told before a download is what will be downloaded. *)
EXTENDS ModelDependencies

DepsTypeOK ==
  /\ deps \in Graphs /\ key \in AsrKeys
  /\ queue \in Seq(AsrKeys) /\ closure \in Seq(AsrKeys) /\ closure # <<>>

\* The models a key needs: it, and what those need.
Closed(S) == \A k \in S : ToSet(deps[k]) \subseteq S
Needed == {k \in AsrKeys : \A S \in SUBSET AsrKeys : key \in S /\ Closed(S) => k \in S}

\* What a download of some models brings, each byte once.
Bytes(models) == UNION {{k} \X (1..Size[k]) : k \in models}

\* The answer is the key first, then every model it needs, directly or through
\* others, each once even when the graph has diamonds or cycles; so the total
\* the user consents to is that of the whole download, and the token is asked
\* for when any model of it is gated (registry.py: "MUST sum a model's own
\* size_bytes with the size_bytes of every entry reachable through depends_on").
ConsentIsHonest ==
  /\ closure[1] = key
  /\ \A i, j \in 1..Len(closure) : i # j => closure[i] # closure[j]
  /\ ToSet(closure) \subseteq Needed
  /\ queue = <<>> =>
       /\ Needed \subseteq ToSet(closure)
       /\ TotalSize(closure) = Cardinality(Bytes(Needed))
       /\ RequiresToken(closure) <=> Needed \cap Gated # {}

\* The walk ends, even where models depend on each other.
WalkEnds == <>(queue = <<>>)
=============================================================================
