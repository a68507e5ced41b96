-------------------------- MODULE ModelDependencies --------------------------
(***************************************************************************)
(* What the consent dialog tells of a download                             *)
(* (services/download/registry.py, api/v1/models.py): the models a key     *)
(* needs, their total size, and whether a token is needed.  `depends_on`   *)
(* is data a maintainer edits, so any graph of keys may come.              *)
(***************************************************************************)
EXTENDS Naturals, Sequences, FiniteSets, SequencesExt

CONSTANTS AsrKeys,     \* keys of ASR_MODELS
          Size, Gated, \* key -> size_bytes; keys with requires_hf_token
          Graphs       \* key -> depends_on, every one that may come

ASSUME AsrAssumption ==
  /\ Size \in [AsrKeys -> Nat] /\ Gated \subseteq AsrKeys
  /\ Graphs \subseteq [AsrKeys -> Seq(AsrKeys)]

VARIABLES deps,    \* the registry's depends_on
          key,     \* the model asked for
          queue,   \* dependencies still to be looked at
          closure  \* the result so far; `seen` is the set of its elements

depsVars == <<deps, key, queue, closure>>

DepsInit ==
  /\ deps \in Graphs /\ key \in AsrKeys
  /\ queue = deps[key] /\ closure = <<key>>

\* The loop of resolve_transitive, breadth first.
Unseen(d, seen) == d \notin seen
Fresh(ds, seen) == FlattenSeq([i \in DOMAIN ds |-> IF Unseen(ds[i], seen) THEN <<ds[i]>> ELSE <<>>])
PopNew ==
  /\ queue # <<>> /\ Unseen(Head(queue), ToSet(closure))
  /\ closure' = Append(closure, Head(queue))
  /\ queue' = Tail(queue) \o Fresh(deps[Head(queue)], ToSet(closure'))
  /\ UNCHANGED <<deps, key>>
PopSeen ==
  /\ queue # <<>> /\ ~Unseen(Head(queue), ToSet(closure))
  /\ queue' = Tail(queue)
  /\ UNCHANGED <<deps, key, closure>>

\* total_transitive_size and requires_token.
OwnSize(models) == Size[models[1]]
TotalSize(models) ==
  LET sum[n \in 0..Len(models)] == IF n = 0 THEN 0 ELSE sum[n - 1] + Size[models[n]]
  IN sum[Len(models)]
RequiresToken(models) == \E k \in ToSet(models) : k \in Gated

DepsNext == PopNew \/ PopSeen
DepsSpec == DepsInit /\ [][DepsNext]_depsVars /\ WF_depsVars(DepsNext)
=============================================================================
