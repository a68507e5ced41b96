----------------------------- MODULE ModelChoice -----------------------------
(***************************************************************************)
(* Which installed model serves a role (model_harness/resolution.py, on    *)
(* the recommendations of registry.py).  A name is a model value: Canon    *)
(* maps it to the form two spellings of one model share (`:` against `-`), *)
(* and EmbedNames are the names that contain "embed".                      *)
(***************************************************************************)
EXTENDS Naturals, Sequences

CONSTANTS ModelNames, Canon, EmbedNames,
          Recommended,   \* application -> tier -> its recommendations, best first
          NoModel        \* None, and the empty setting

Apps == {"artifice-ocr", "artifice-graph", "artifice-draft", "artifice-transcribe"}
Tiers == {"laptop", "desktop", "mac_unified"}
Roles == {"vision", "chat", "translation", "embedding"}
Recommendation == [name : ModelNames, role : Roles, vision : BOOLEAN]

ASSUME NameAssumption ==
  /\ NoModel \notin ModelNames /\ EmbedNames \subseteq ModelNames
  /\ Canon \in [ModelNames -> ModelNames]
  /\ \A m, n \in ModelNames : Canon[m] = Canon[n] => (m \in EmbedNames <=> n \in EmbedNames)
\* The registry recommends embedding models for embedding and for nothing else.
ASSUME RegistryAssumption ==
  /\ Recommended \in [Apps -> [Tiers -> Seq(Recommendation)]]
  /\ \A a \in Apps, t \in Tiers : \A i \in 1..Len(Recommended[a][t]) :
       Recommended[a][t][i].name \in EmbedNames <=> Recommended[a][t][i].role = "embedding"

\* The element of s at the first of the places I, or NoModel.
First(I) == CHOOSE i \in I : \A k \in I : i <= k
AtFirst(s, I) == IF I = {} THEN NoModel ELSE s[First(I)]

\* _find_installed: the exact name, else the first name of the same form.
Spelled(installed, name) == {i \in DOMAIN installed : installed[i] = name}
SameForm(installed, name) == {i \in DOMAIN installed : Canon[installed[i]] = Canon[name]}
FindByForm(installed, name) == AtFirst(installed, SameForm(installed, name))
FindInstalled(installed, name) ==
  IF Spelled(installed, name) # {} THEN name ELSE AtFirst(installed, SameForm(installed, name))

\* A recommendation that serves the role and is installed; its model.
Serves(rec, role) == rec.role = role /\ (role = "vision" => rec.vision)
Usable(installed, rec, role) == Serves(rec, role) /\ FindInstalled(installed, rec.name) # NoModel
UsableOf(installed, recs, role) == {i \in DOMAIN recs : Usable(installed, recs[i], role)}

\* What a bare name allows: nothing is guessed to have vision.
Fallback(installed, role) ==
  IF role = "vision" THEN NoModel
  ELSE IF role = "embedding" THEN AtFirst(installed, {i \in DOMAIN installed : installed[i] \in EmbedNames})
  ELSE AtFirst(installed, {i \in DOMAIN installed : installed[i] \notin EmbedNames})

Resolution(name, source) == [name |-> name, source |-> source]

\* resolve_model; tier = "none" stands for a call without an application or tier.
Recommendations(app, tier) == IF tier \in Tiers THEN Recommended[app][tier] ELSE <<>>
Unchosen(role, installed, recs) ==
  LET usable == UsableOf(installed, recs, role) IN
  IF usable # {}
  THEN Resolution(FindInstalled(installed, recs[First(usable)].name), "recommended")
  ELSE Resolution(Fallback(installed, role),
                  IF Fallback(installed, role) = NoModel THEN "none_available" ELSE "fallback")
ResolveModel(role, installed, app, tier, configured) ==
  IF configured # NoModel
  THEN Resolution(FindInstalled(installed, configured),
                  IF FindInstalled(installed, configured) = NoModel
                  THEN "configured_missing" ELSE "user_choice")
  ELSE Unchosen(role, installed, Recommendations(app, tier))
=============================================================================
