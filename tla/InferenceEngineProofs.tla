------------------------ MODULE InferenceEngineProofs ------------------------
(***************************************************************************)
(* Which model a request runs on, for any registry, any models on the      *)
(* server, any choice of the user, whenever either changes.                *)
(***************************************************************************)
EXTENDS InferenceEngineProps, WellFoundedInduction, TLAPS

\* Settings and listings are made of names.
LEMMA ListedNames ==
  /\ \A l \in Listings : l \in Seq(ModelNames)
  /\ \A c \in Settings : c \in Named
  /\ \A t \in Tiers : Recommended[Own][t] \in Seq(Recommendation)
PROOF BY ListingAssumption, RegistryAssumption DEF Named, Own, Apps

\* A nonempty set of places has a first one.
LEMMA FirstIsLeast ==
  ASSUME NEW I \in SUBSET Nat, I # {}
  PROVE  First(I) \in I /\ \A k \in I : First(I) <= k
PROOF
<1> DEFINE R == {ss \in Nat \X Nat : ss[1] < ss[2]}
<1>1. IsWellFoundedOn(R, Nat) BY NatLessThanWellFounded DEF OpToRel
<1> HIDE DEF R
<1>2. PICK x \in I : \A y \in I : ~(<<y, x>> \in R)
  BY <1>1, WFMin
<1>3. \A y \in I : x <= y
  <2> TAKE y \in I
  <2>1. x \in Nat /\ y \in Nat /\ ~(y < x) BY <1>2 DEF R
  <2> QED BY <2>1
<1> QED BY <1>3 DEF First

\* The element at the first of some places of a sequence of names is a name.
LEMMA AtFirstType ==
  ASSUME NEW s \in Seq(ModelNames), NEW I \in SUBSET (DOMAIN s)
  PROVE  /\ AtFirst(s, I) \in Named
         /\ AtFirst(s, I) = NoModel <=> I = {}
         /\ I # {} => First(I) \in I /\ AtFirst(s, I) = s[First(I)]
PROOF
<1>1. CASE I = {} BY <1>1 DEF AtFirst, Named
<1>2. CASE I # {}
  <2>1. I \in SUBSET Nat OBVIOUS
  <2>2. First(I) \in I BY <1>2, <2>1, FirstIsLeast
  <2>3. s[First(I)] \in ModelNames BY <2>2
  <2> QED BY <1>2, <2>2, <2>3, NameAssumption DEF AtFirst, Named
<1> QED BY <1>1, <1>2

\* _find_installed returns an installed name of the form asked for, or None.
LEMMA FoundIsInstalled ==
  ASSUME NEW s \in Seq(ModelNames), NEW name \in ModelNames
  PROVE  /\ FindInstalled(s, name) \in Named
         /\ FindInstalled(s, name) # NoModel =>
              /\ \E i \in 1..Len(s) : s[i] = FindInstalled(s, name)
              /\ Canon[FindInstalled(s, name)] = Canon[name]
PROOF
<1>1. CASE Spelled(s, name) # {}
  <2>1. FindInstalled(s, name) = name BY <1>1 DEF FindInstalled
  <2>2. PICK i \in DOMAIN s : s[i] = name BY <1>1 DEF Spelled
  <2> QED BY <2>1, <2>2 DEF Named
<1>2. CASE Spelled(s, name) = {}
  <2>1. FindInstalled(s, name) = AtFirst(s, SameForm(s, name)) BY <1>2 DEF FindInstalled
  <2>2. SameForm(s, name) \in SUBSET (DOMAIN s) BY DEF SameForm
  <2>3. AtFirst(s, SameForm(s, name)) # NoModel =>
          First(SameForm(s, name)) \in SameForm(s, name)
          /\ AtFirst(s, SameForm(s, name)) = s[First(SameForm(s, name))]
    BY <2>2, AtFirstType
  <2>4. AtFirst(s, SameForm(s, name)) \in Named BY <2>2, AtFirstType
  <2>5. \A i \in SameForm(s, name) : i \in 1..Len(s) /\ Canon[s[i]] = Canon[name]
    BY DEF SameForm
  <2> QED BY <2>1, <2>3, <2>4, <2>5
<1> QED BY <1>1, <1>2

\* Without a choice, the answer for chat on a tier is None or an installed name
\* that is not an embedding model's; it is None exactly when only embedding
\* models are installed; and it is the first recommendation that is usable.
LEMMA ChatIsSound ==
  ASSUME NEW s \in Seq(ModelNames), NEW t \in Tiers
  PROVE  /\ ChatModel(s, t) \in Named
         /\ ChatModel(s, t) = NoModel <=> \A i \in 1..Len(s) : s[i] \in EmbedNames
         /\ ChatModel(s, t) # NoModel =>
              (\E i \in 1..Len(s) : s[i] = ChatModel(s, t)) /\ ChatModel(s, t) \notin EmbedNames
         /\ \A k \in 1..Len(Recommended[Own][t]) :
              Usable(s, Recommended[Own][t][k], "chat") =>
                \E b \in 1..k : Canon[Recommended[Own][t][b].name] = Canon[ChatModel(s, t)]
PROOF
<1> DEFINE recs == Recommended[Own][t]
           usable == UsableOf(s, recs, "chat")
           places == {i \in DOMAIN s : s[i] \notin EmbedNames}
<1>1. recs \in Seq(Recommendation) /\ DOMAIN recs = 1..Len(recs) /\ Len(recs) \in Nat
  BY ListedNames
<1>2. \A i \in 1..Len(recs) : recs[i].name \in ModelNames
  <2>1. \A i \in 1..Len(recs) : recs[i] \in Recommendation BY <1>1
  <2> QED BY <2>1 DEF Recommendation
<1>3. ChatModel(s, t) = Unchosen("chat", s, recs).name
  BY DEF ChatModel, ResolveModel, Recommendations
<1>4. places \in SUBSET (DOMAIN s) /\ DOMAIN s = 1..Len(s) OBVIOUS
<1>5. usable \subseteq 1..Len(recs) /\ \A i \in 1..Len(recs) :
        i \in usable <=> Usable(s, recs[i], "chat")
  BY <1>1 DEF UsableOf
<1>6. CASE usable # {}
  <2>1. usable \in SUBSET Nat BY <1>5
  <2>2. First(usable) \in usable /\ \A k \in usable : First(usable) <= k
    BY <1>6, <2>1, FirstIsLeast
  <2> DEFINE rec == recs[First(usable)]
  <2>3. First(usable) \in 1..Len(recs) /\ rec.name \in ModelNames /\ Usable(s, rec, "chat")
    BY <1>2, <1>5, <2>2
  <2>4. ChatModel(s, t) = FindInstalled(s, rec.name)
    BY <1>3, <1>6 DEF Unchosen, Resolution
  <2>5. ChatModel(s, t) # NoModel BY <2>3, <2>4 DEF Usable
  <2>6. (\E i \in 1..Len(s) : s[i] = ChatModel(s, t)) /\ Canon[ChatModel(s, t)] = Canon[rec.name]
        /\ ChatModel(s, t) \in ModelNames
    BY <2>3, <2>4, <2>5, FoundIsInstalled DEF Named
  <2>7. rec.name \notin EmbedNames
    BY <2>3, RegistryAssumption DEF Usable, Serves, Own, Apps
  <2>8. ChatModel(s, t) \notin EmbedNames BY <2>3, <2>6, <2>7, NameAssumption
  <2>9. \A k \in 1..Len(recs) : Usable(s, recs[k], "chat") =>
          \E b \in 1..k : Canon[recs[b].name] = Canon[ChatModel(s, t)]
    <3> SUFFICES ASSUME NEW k \in 1..Len(recs), Usable(s, recs[k], "chat")
                 PROVE  \E b \in 1..k : Canon[recs[b].name] = Canon[ChatModel(s, t)]
      OBVIOUS
    <3>1. First(usable) \in 1..k BY <1>1, <1>5, <2>2, <2>3
    <3> QED BY <2>6, <3>1
  <2> QED BY <2>5, <2>6, <2>8, <2>9 DEF Named
<1>7. CASE usable = {}
  <2>1. ChatModel(s, t) = AtFirst(s, places)
    BY <1>3, <1>7 DEF Unchosen, Resolution, Fallback
  <2>2. ChatModel(s, t) \in Named /\ (ChatModel(s, t) = NoModel <=> places = {})
        /\ (places # {} => First(places) \in places /\ ChatModel(s, t) = s[First(places)])
    BY <1>4, <2>1, AtFirstType
  <2>3. \A k \in 1..Len(recs) : ~Usable(s, recs[k], "chat") BY <1>5, <1>7
  <2> QED BY <1>4, <2>2, <2>3
<1> QED BY <1>6, <1>7

\* Whatever a tier recommends, None on one tier is None on all of them: the
\* loop over the tiers never gets past the first, and its other two never
\* change the answer (inference.py:158-168).
THEOREM FirstTierDecides ==
  ASSUME NEW s \in Seq(ModelNames)
  PROVE  PickModel(s) = ChatModel(s, "laptop")
PROOF
<1>1. \A t \in Tiers : ChatModel(s, t) = NoModel <=> \A i \in 1..Len(s) : s[i] \in EmbedNames
  BY ChatIsSound
<1>2. DOMAIN TierOrder = {1, 2, 3} /\ TierOrder[1] = "laptop"
      /\ \A i \in {1, 2, 3} : TierOrder[i] \in Tiers
  BY DEF TierOrder, Tiers
<1>3. CASE ChatModel(s, "laptop") = NoModel
  <2>1. \A i \in {1, 2, 3} : ChatModel(s, TierOrder[i]) = NoModel
    BY <1>1, <1>2, <1>3
  <2>2. Answering(s) = {} BY <1>2, <2>1 DEF Answering
  <2> QED BY <1>3, <2>2 DEF PickModel
<1>4. CASE ChatModel(s, "laptop") # NoModel
  <2>1. 1 \in Answering(s) /\ Answering(s) \subseteq {1, 2, 3} BY <1>2, <1>4 DEF Answering
  <2>2. First(Answering(s)) \in Answering(s) /\ First(Answering(s)) <= 1
    <3>1. Answering(s) \in SUBSET Nat BY <2>1
    <3> QED BY <2>1, <3>1, FirstIsLeast
  <2>3. First(Answering(s)) = 1 BY <2>1, <2>2
  <2> QED BY <1>2, <2>1, <2>3 DEF PickModel
<1> QED BY <1>3, <1>4

\* Until the settings are read nothing is asked; from then on the model is the
\* one they name, or the one picked from the list that was read.
ChoiceInv ==
  /\ step \in {"idle", "listing"} => asked = <<>>
  /\ step = "listing" => wished = NoModel /\ model = NoModel
  /\ step \in {"calling", "waiting", "answered"} \/ asked # <<>> =>
       /\ model \in ModelNames
       /\ model = IF wished # NoModel THEN wished ELSE PickModel(listed)
  /\ step = "waiting" => asked # <<>>
  /\ \A i \in 1..Len(asked) : asked[i] = model
\* Every call has sent a request.
PostedInv == Len(posted) = Len(asked)
EngineInv == EngineTypeOK /\ ChoiceInv /\ PostedInv

LEMMA PickType == ASSUME NEW s \in Seq(ModelNames) PROVE PickModel(s) \in Named
PROOF BY FirstTierDecides, ChatIsSound DEF Tiers

\* What a call has sent is in range.
LEMMA PostedRange ==
  ASSUME posted \in Seq(1..(SdkRetries + 1)), NEW i \in 1..Len(posted)
  PROVE  posted[i] \in 1..(SdkRetries + 1)
PROOF
<1> DEFINE range == 1..(SdkRetries + 1)
<1>1. posted \in Seq(range) OBVIOUS
<1> HIDE DEF range
<1>2. posted[i] \in range BY <1>1
<1> QED BY <1>2 DEF range

\* A resent request is counted with the last call, and with no other.
LEMMA ResendPosts ==
  ASSUME EngineInv, Resend
  PROVE  /\ posted' \in Seq(1..(SdkRetries + 1)) /\ Len(posted') = Len(posted)
         /\ \A i \in 1..Len(posted) : i # Len(posted) => posted'[i] = posted[i]
PROOF
<1>1. posted \in Seq(1..(SdkRetries + 1)) /\ Len(posted) \in 1..Len(posted)
  <2>1. posted \in Seq(1..(SdkRetries + 1)) /\ asked \in Seq(ModelNames) /\ asked # <<>>
    BY DEF EngineInv, EngineTypeOK, ChoiceInv, Resend
  <2>2. Len(posted) = Len(asked) /\ Len(asked) \in Nat \ {0} BY <2>1 DEF EngineInv, PostedInv
  <2> QED BY <2>1, <2>2
<1>2. posted[Len(posted)] \in 1..(SdkRetries + 1) BY <1>1, PostedRange
<1>3. posted[Len(posted)] + 1 \in 1..(SdkRetries + 1)
  BY <1>2, RetryAssumption DEF Resend, Tries
<1>4. posted' = [posted EXCEPT ![Len(posted)] = posted[Len(posted)] + 1] BY DEF Resend
<1> QED BY <1>1, <1>3, <1>4

\* The inductive invariant holds in every reachable state.
THEOREM EngineInvariantHolds == EngineSpec => []EngineInv
PROOF
<1>1. EngineInit => EngineInv
  <2> SUFFICES ASSUME EngineInit PROVE EngineInv OBVIOUS
  <2>1. listed \in Seq(ModelNames) /\ asked \in Seq(ModelNames) /\ failures \in Seq(Failures)
        /\ delays \in Seq(Delays) /\ posted \in Seq(1..(SdkRetries + 1))
    BY DEF EngineInit
  <2>2. Len(asked) = 0 /\ asked = <<>> /\ posted = <<>> BY DEF EngineInit
  <2>3. EngineTypeOK BY <2>1 DEF EngineInit, EngineTypeOK, Named
  <2>4. ChoiceInv /\ PostedInv BY <2>2 DEF EngineInit, ChoiceInv, PostedInv
  <2> QED BY <2>3, <2>4 DEF EngineInv
<1>2. EngineInv /\ [EngineNext]_engineVars => EngineInv'
  <2> SUFFICES ASSUME EngineInv, [EngineNext]_engineVars PROVE EngineInv' OBVIOUS
  <2> USE DEF EngineInv
  <2>1. CASE NewEngine
    <3>1. wished' = chosen /\ model' = chosen /\ asked' = <<>> /\ Len(asked') = 0
          /\ chosen \in Named
          /\ step' = IF chosen = NoModel THEN "listing" ELSE "calling"
      BY <2>1, ListedNames DEF NewEngine, EngineTypeOK, ChoiceInv
    <3>2. EngineTypeOK' BY <2>1, <3>1 DEF NewEngine, EngineTypeOK
    <3>3. ChoiceInv' /\ PostedInv' BY <2>1, <3>1 DEF ChoiceInv, Named, NewEngine, PostedInv
    <3> QED BY <3>2, <3>3
  <2>2. CASE ListModels
    <3>1. installed \in Seq(ModelNames) BY ListedNames DEF EngineTypeOK
    <3>2. PickModel(installed) \in Named BY <3>1, PickType
    <3>3. wished' = NoModel /\ listed' = installed /\ model' = PickModel(installed)
          /\ asked' = <<>> /\ Len(asked') = 0
          /\ step' = IF PickModel(installed) = NoModel THEN "failed" ELSE "calling"
      BY <2>2 DEF ListModels, ChoiceInv
    <3>4. EngineTypeOK' BY <2>2, <3>1, <3>2, <3>3 DEF ListModels, EngineTypeOK
    <3>5. PickModel(installed)' = PickModel(listed') BY <3>3, <2>2 DEF ListModels
    <3>6. ChoiceInv' BY <3>2, <3>3 DEF ChoiceInv, Named
    <3>7. PostedInv' BY <2>2 DEF ListModels, PostedInv
    <3> QED BY <3>4, <3>6, <3>7
  <2>3. CASE ListFails
    BY <2>3 DEF ListFails, EngineTypeOK, ChoiceInv, PostedInv
  <2>4. CASE Ask
    <3>1. model \in ModelNames /\ asked \in Seq(ModelNames) /\ model' = model
          /\ asked' = Append(asked, model) /\ wished' = wished /\ listed' = listed
          /\ step' = "waiting"
      BY <2>4 DEF Ask, EngineTypeOK, ChoiceInv
    <3>2. Len(asked') = Len(asked) + 1 /\ asked'[Len(asked')] = model
          /\ \A i \in 1..Len(asked) : asked'[i] = asked[i]
      BY <3>1
    <3>3. \A i \in 1..Len(asked') : asked'[i] = model
      <4> TAKE i \in 1..Len(asked')
      <4>1. i \in 1..Len(asked) \/ i = Len(asked') BY <3>1, <3>2
      <4> QED BY <3>2, <4>1 DEF ChoiceInv
    <3>4. EngineTypeOK' /\ PostedInv'
      <4>1. /\ posted \in Seq(1..(SdkRetries + 1)) /\ posted' = Append(posted, 1)
            /\ 1 \in 1..(SdkRetries + 1)
        BY <2>4, RetryAssumption DEF Ask, EngineTypeOK
      <4>2. posted' \in Seq(1..(SdkRetries + 1)) /\ Len(posted') = Len(posted) + 1 BY <4>1
      <4> QED BY <2>4, <3>1, <3>2, <4>2 DEF Ask, EngineTypeOK, PostedInv
    <3>5. model = IF wished # NoModel THEN wished ELSE PickModel(listed)
      BY <2>4 DEF Ask, ChoiceInv
    <3>6. ChoiceInv' BY <3>1, <3>3, <3>5 DEF ChoiceInv
    <3> QED BY <3>4, <3>6
  <2>5. CASE Answered
    BY <2>5 DEF Answered, EngineTypeOK, ChoiceInv, PostedInv
  <2>6. CASE AskFails
    <3> PICK failure \in Failures :
          /\ Retryable(failure) => Tries > SdkRetries
          /\ failures' = Append(failures, failure)
          /\ IF Repeats(failure)
             THEN step' = "calling" /\ delays' = Append(delays, Delay(Len(asked)))
             ELSE step' = "failed" /\ UNCHANGED delays
      BY <2>6 DEF AskFails
    <3>1. UNCHANGED <<installed, chosen, streamed, wished, listed, model, asked, posted>>
          /\ step = "waiting" /\ step' \in {"calling", "failed"}
      BY <2>6 DEF AskFails
    <3>2. failures' \in Seq(Failures) BY DEF EngineTypeOK
    <3>3. delays' \in Seq(Delays)
      <4>1. delays \in Seq(Delays) BY DEF EngineTypeOK
      <4>2. CASE Repeats(failure)
        <5>1. Len(asked) < MaxAttempts BY <4>2 DEF Repeats, MayRetry
        <5>2. Len(asked) \in Nat \ {0} BY <3>1 DEF EngineTypeOK, ChoiceInv
        <5>3. Len(asked) \in 1..MaxAttempts BY <5>1, <5>2, RetryAssumption
        <5>4. Delay(Len(asked)) \in Delays BY <5>3 DEF Delays
        <5> QED BY <4>1, <4>2, <5>4
      <4>3. CASE ~Repeats(failure) BY <4>1, <4>3
      <4> QED BY <4>2, <4>3
    <3>4. EngineTypeOK' BY <3>1, <3>2, <3>3 DEF EngineTypeOK
    <3>5. ChoiceInv' /\ PostedInv' BY <3>1 DEF ChoiceInv, PostedInv
    <3> QED BY <3>4, <3>5
  <2>7. CASE UserInstalls BY <2>7 DEF UserInstalls, EngineTypeOK, ChoiceInv, PostedInv
  <2>8. CASE UserChooses BY <2>8 DEF UserChooses, EngineTypeOK, ChoiceInv, PostedInv
  <2>9. CASE UNCHANGED engineVars BY <2>9 DEF engineVars, EngineTypeOK, ChoiceInv, PostedInv
  <2>10. CASE Resend
    <3>1. /\ posted' \in Seq(1..(SdkRetries + 1)) /\ Len(posted') = Len(posted)
          /\ UNCHANGED <<installed, chosen, step, streamed, wished, listed, model, asked, failures,
                         delays>>
      BY <2>10, ResendPosts DEF Resend
    <3> QED BY <3>1 DEF EngineTypeOK, ChoiceInv, PostedInv
  <2> QED BY <2>1, <2>2, <2>3, <2>4, <2>5, <2>6, <2>7, <2>8, <2>9, <2>10 DEF EngineNext
<1> QED BY <1>1, <1>2, PTL DEF EngineSpec

\* Types of the request and of what it remembers.
THEOREM EngineTypesHold == EngineSpec => []EngineTypeOK
PROOF BY EngineInvariantHolds, PTL DEF EngineInv

\* A model the user chose is never replaced.
THEOREM ChoiceHolds == EngineSpec => []ChoiceIsKept
PROOF
<1>1. EngineInv => ChoiceIsKept
  BY DEF EngineInv, EngineTypeOK, ChoiceInv, ChoiceIsKept
<1> QED BY EngineInvariantHolds, <1>1, PTL

\* Without a choice a request runs on an installed chat model, the best one
\* recommended for a laptop.
THEOREM PickHolds == EngineSpec => []PickIsSound
PROOF
<1>1. EngineInv => PickIsSound
  <2> SUFFICES ASSUME EngineInv, wished = NoModel, asked # <<>>
               PROVE  /\ \E i \in 1..Len(listed) : listed[i] = model
                      /\ model \notin EmbedNames
                      /\ \A k \in 1..Len(Recommended[Own]["laptop"]) :
                           Usable(listed, Recommended[Own]["laptop"][k], "chat") =>
                             \E b \in 1..k :
                               Canon[Recommended[Own]["laptop"][b].name] = Canon[model]
    BY DEF PickIsSound
  <2>1. listed \in Seq(ModelNames) BY DEF EngineInv, EngineTypeOK
  <2>2. model = PickModel(listed) /\ model \in ModelNames BY DEF EngineInv, ChoiceInv
  <2>3. model = ChatModel(listed, "laptop") /\ model # NoModel
    BY <2>1, <2>2, FirstTierDecides, NameAssumption
  <2> QED BY <2>1, <2>3, ChatIsSound DEF Tiers
<1> QED BY EngineInvariantHolds, <1>1, PTL
-----------------------------------------------------------------------------
\* Induction over the natural numbers, for a set of numbers.
LEMMA EngineInduction ==
  ASSUME NEW N \in SUBSET Nat, 0 \in N, \A n \in N : n + 1 \in N
  PROVE  \A n \in Nat : n \in N
PROOF
<1> SUFFICES ASSUME Nat \ N # {} PROVE FALSE OBVIOUS
<1> DEFINE x == First(Nat \ N)
<1>1. x \in Nat \ N /\ \A k \in Nat \ N : x <= k BY FirstIsLeast
<1> HIDE DEF x
<1>2. x # 0 /\ x - 1 \in Nat /\ ~(x <= x - 1) BY <1>1
<1>3. x - 1 \in N BY <1>1, <1>2
<1>4. (x - 1) + 1 = x BY <1>1
<1> QED BY <1>1, <1>3, <1>4

\* The powers of two, up to the last attempt: Power is a recursive function, so
\* that there is one is shown by induction.
IsPower(f, n) == f = [i \in 0..n |-> IF i = 0 THEN 1 ELSE 2 * f[i - 1]]

LEMMA PowerIsDefined ==
  /\ Power \in [0..MaxAttempts -> Nat]
  /\ \A n \in 1..MaxAttempts : Power[n] = 2 * Power[n - 1]
PROOF
<1> DEFINE N == {n \in Nat : \E f \in [0..n -> Nat] : IsPower(f, n)}
<1>1. 0 \in N
  <2> DEFINE f == [i \in 0..0 |-> 1]
  <2>1. f \in [0..0 -> Nat] /\ IsPower(f, 0) BY DEF IsPower
  <2> QED BY <2>1
<1>2. ASSUME NEW n \in N PROVE n + 1 \in N
  <2>1. n \in Nat BY <1>2
  <2>2. PICK f \in [0..n -> Nat] : IsPower(f, n) BY <1>2
  <2> DEFINE g == [i \in 0..(n + 1) |-> IF i = n + 1 THEN 2 * f[n] ELSE f[i]]
  <2>3. f[n] \in Nat /\ 2 * f[n] \in Nat BY <2>1
  <2>4. g \in [0..(n + 1) -> Nat]
    <3>1. \A i \in 0..(n + 1) : i = n + 1 \/ i \in 0..n BY <2>1
    <3> QED BY <2>3, <3>1
  <2>5. \A i \in 0..(n + 1) : g[i] = IF i = 0 THEN 1 ELSE 2 * g[i - 1]
    <3> TAKE i \in 0..(n + 1)
    <3>1. CASE i = n + 1
      <4>1. i # 0 /\ i - 1 = n /\ n \in 0..(n + 1) /\ n # n + 1 BY <2>1, <3>1
      <4> QED BY <3>1, <4>1
    <3>2. CASE i # n + 1
      <4>1. i \in 0..n BY <2>1, <3>2
      <4>2. g[i] = f[i] BY <3>2
      <4>3. f[i] = IF i = 0 THEN 1 ELSE 2 * f[i - 1] BY <2>2, <4>1 DEF IsPower
      <4>4. i # 0 => i - 1 \in 0..(n + 1) /\ i - 1 # n + 1 BY <2>1, <4>1
      <4>5. i # 0 => g[i - 1] = f[i - 1] BY <4>4
      <4> QED BY <4>2, <4>3, <4>5
    <3> QED BY <3>1, <3>2
  <2>6. IsPower(g, n + 1) BY <2>4, <2>5 DEF IsPower
  <2> QED BY <2>1, <2>4, <2>6
<1>3. MaxAttempts \in N
  <2> HIDE DEF N
  <2>1. N \in SUBSET Nat BY DEF N
  <2> QED BY <1>1, <1>2, <2>1, EngineInduction, RetryAssumption
<1>4. PICK f \in [0..MaxAttempts -> Nat] : IsPower(f, MaxAttempts) BY <1>3
<1>5. IsPower(Power, MaxAttempts) BY <1>4 DEF Power, IsPower
<1> DEFINE E == {n \in Nat : n > MaxAttempts \/ Power[n] = f[n]}
<1>6. 0 \in E
  <2>1. 0 \in 0..MaxAttempts BY RetryAssumption
  <2> QED BY <1>4, <1>5, <2>1 DEF IsPower
<1>7. ASSUME NEW n \in E PROVE n + 1 \in E
  <2>1. n \in Nat /\ n + 1 \in Nat BY <1>7
  <2>2. CASE n + 1 > MaxAttempts BY <2>1, <2>2
  <2>3. CASE ~(n + 1 > MaxAttempts)
    <3>1. n + 1 \in 0..MaxAttempts /\ n + 1 # 0 /\ (n + 1) - 1 = n /\ ~(n > MaxAttempts)
      BY <2>1, <2>3, RetryAssumption
    <3>2. Power[n + 1] = 2 * Power[n] /\ f[n + 1] = 2 * f[n]
      BY <1>4, <1>5, <3>1 DEF IsPower
    <3>3. Power[n] = f[n] BY <1>7, <3>1
    <3> QED BY <2>1, <3>2, <3>3
  <2> QED BY <2>2, <2>3
<1>8. \A n \in Nat : n \in E
  <2> HIDE DEF E
  <2>1. E \in SUBSET Nat BY DEF E
  <2> QED BY <1>6, <1>7, <2>1, EngineInduction
<1>9. \A n \in 0..MaxAttempts : Power[n] = f[n] BY <1>8, RetryAssumption
<1>10. Power = f BY <1>4, <1>5, <1>9 DEF IsPower
<1>11. \A n \in 1..MaxAttempts : f[n] = 2 * f[n - 1]
  <2> TAKE n \in 1..MaxAttempts
  <2>1. n \in 0..MaxAttempts /\ n # 0 BY RetryAssumption
  <2> QED BY <1>4, <2>1 DEF IsPower
<1> QED BY <1>10, <1>11

\* Delays do not shrink, and none is longer than MaxDelay.
LEMMA DelaysGrow ==
  ASSUME NEW n \in 1..MaxAttempts
  PROVE  /\ Delay(n) \in Nat /\ Delay(n) <= MaxDelay
         /\ n > 1 => Delay(n - 1) <= Delay(n)
PROOF
<1> DEFINE a == Power[n - 1]
           b == Power[n - 2]
<1>1. n - 1 \in 0..MaxAttempts /\ a \in Nat BY PowerIsDefined, RetryAssumption
<1>2. BaseDelay * a \in Nat BY <1>1, RetryAssumption
<1>3. Delay(n) = IF BaseDelay * a < MaxDelay THEN BaseDelay * a ELSE MaxDelay BY DEF Delay
<1>4. CASE n > 1
  <2>1. n - 1 \in 1..MaxAttempts /\ n - 2 \in 0..MaxAttempts /\ (n - 1) - 1 = n - 2
    BY <1>4, RetryAssumption
  <2>2. b \in Nat /\ a = 2 * b BY <2>1, PowerIsDefined
  <2>3. Delay(n - 1) = IF BaseDelay * b < MaxDelay THEN BaseDelay * b ELSE MaxDelay
    BY <2>1 DEF Delay
  <2> HIDE DEF a, b
  <2>4. BaseDelay * b \in Nat /\ BaseDelay * a = 2 * (BaseDelay * b)
    <3>1. \A u, v \in Nat : u * v \in Nat /\ u * (2 * v) = 2 * (u * v) OBVIOUS
    <3> QED BY <2>2, <3>1, RetryAssumption
  <2>5. BaseDelay * b <= BaseDelay * a BY <2>4
  <2> QED BY <1>2, <1>3, <2>3, <2>4, <2>5, RetryAssumption
<1>5. CASE ~(n > 1) BY <1>2, <1>3, <1>5, RetryAssumption
<1> QED BY <1>4, <1>5

\* What has been asked and sent, what failed and what was waited for go together.
RetryInv ==
  /\ Len(asked) <= MaxAttempts /\ Len(delays) <= Len(asked) /\ Len(asked) <= Len(delays) + 1
  /\ streamed => Len(delays) = 0
  /\ Len(delays) <= Len(failures)
  /\ \A i \in 1..Len(delays) : delays[i] = Delay(i) /\ Retryable(failures[i])
  /\ \A i \in 1..Len(delays) : posted[i] = 1 + SdkRetries
  /\ step \in {"idle", "listing"} => Len(asked) = 0 /\ Len(failures) = 0 /\ Len(delays) = 0
  /\ step = "calling" =>
       Len(asked) = Len(delays) /\ Len(failures) = Len(delays) /\ Len(asked) < MaxAttempts
  /\ step = "waiting" => Len(asked) = Len(delays) + 1 /\ Len(failures) = Len(delays)

LEMMA RetryInvHolds == EngineSpec => []RetryInv
PROOF
<1>1. EngineInit => RetryInv
  <2> SUFFICES ASSUME EngineInit PROVE RetryInv OBVIOUS
  <2>1. Len(asked) = 0 /\ Len(failures) = 0 /\ Len(delays) = 0 /\ step = "idle"
    BY DEF EngineInit
  <2> QED BY <2>1, RetryAssumption DEF RetryInv
<1>2. EngineInv /\ RetryInv /\ [EngineNext]_engineVars => RetryInv'
  <2> SUFFICES ASSUME EngineInv, RetryInv, [EngineNext]_engineVars PROVE RetryInv' OBVIOUS
  <2>0. Len(asked) \in Nat /\ Len(failures) \in Nat /\ Len(delays) \in Nat
        /\ delays \in Seq(Delays) /\ failures \in Seq(Failures) /\ asked \in Seq(ModelNames)
        /\ posted \in Seq(1..(SdkRetries + 1)) /\ Len(posted) = Len(asked)
    BY DEF EngineInv, EngineTypeOK, PostedInv
  <2>1. CASE NewEngine
    <3>1. asked' = asked /\ failures' = failures /\ delays' = delays /\ step = "idle"
          /\ posted' = posted
          /\ step' \in {"listing", "calling"}
      BY <2>1 DEF NewEngine
    <3> QED BY <3>1, RetryAssumption DEF RetryInv
  <2>2. CASE ListModels \/ ListFails
    <3>1. asked' = asked /\ failures' = failures /\ delays' = delays /\ step = "listing"
          /\ streamed' = streamed /\ step' \in {"failed", "calling"} /\ posted' = posted
      BY <2>2 DEF ListModels, ListFails
    <3> QED BY <3>1, RetryAssumption DEF RetryInv
  <2>3. CASE Ask
    <3>1. asked' = Append(asked, model) /\ failures' = failures /\ delays' = delays
          /\ streamed' = streamed /\ step = "calling" /\ step' = "waiting"
          /\ posted' = Append(posted, 1)
      BY <2>3 DEF Ask
    <3>2. Len(asked') = Len(asked) + 1 /\ \A i \in 1..Len(posted) : posted'[i] = posted[i]
      BY <2>0, <3>1
    <3> QED BY <2>0, <3>1, <3>2, RetryAssumption DEF RetryInv
  <2>4. CASE Answered
    <3>1. asked' = asked /\ failures' = failures /\ delays' = delays
          /\ streamed' = streamed /\ step' = "answered" /\ posted' = posted
      BY <2>4 DEF Answered
    <3> QED BY <3>1 DEF RetryInv
  <2>5. CASE AskFails
    <3>1. PICK failure \in Failures :
            /\ Retryable(failure) => Tries > SdkRetries
            /\ failures' = Append(failures, failure)
            /\ IF Repeats(failure)
               THEN step' = "calling" /\ delays' = Append(delays, Delay(Len(asked)))
               ELSE step' = "failed" /\ UNCHANGED delays
      BY <2>5 DEF AskFails
    <3>2. asked' = asked /\ posted' = posted /\ streamed' = streamed /\ step = "waiting"
          /\ Len(asked) = Len(delays) + 1 /\ Len(failures) = Len(delays)
      BY <2>5 DEF AskFails, RetryInv
    <3>3. /\ Len(failures') = Len(failures) + 1 /\ failures'[Len(failures) + 1] = failure
          /\ \A i \in 1..Len(failures) : failures'[i] = failures[i]
      BY <2>0, <3>1
    <3>4. CASE Repeats(failure)
      <4>1. ~streamed /\ Retryable(failure) /\ Len(asked) < MaxAttempts
        BY <3>4 DEF Repeats, MayRetry
      <4>2. Delay(Len(asked)) \in Delays
        <5>1. Len(asked) \in 1..MaxAttempts BY <2>0, <3>2, <4>1, RetryAssumption
        <5> QED BY <5>1 DEF Delays
      <4>3. /\ Len(delays') = Len(delays) + 1 /\ delays'[Len(delays) + 1] = Delay(Len(delays) + 1)
            /\ \A i \in 1..Len(delays) : delays'[i] = delays[i]
        BY <2>0, <3>1, <3>2, <3>4, <4>2
      <4>4. \A i \in 1..Len(delays') : delays'[i] = Delay(i) /\ Retryable(failures'[i])
        <5> TAKE i \in 1..Len(delays')
        <5>1. CASE i \in 1..Len(delays) BY <2>0, <3>2, <3>3, <4>3, <5>1 DEF RetryInv
        <5>2. CASE i = Len(delays) + 1 BY <3>2, <3>3, <4>1, <4>3, <5>2
        <5> QED BY <2>0, <4>3, <5>1, <5>2
      <4>5. step' = "calling" BY <3>1, <3>4
      <4>6. \A i \in 1..Len(delays') : posted'[i] = 1 + SdkRetries
        <5>1. posted[Len(posted)] \in 1..(SdkRetries + 1) /\ posted[Len(posted)] > SdkRetries
          <6>1. Len(posted) \in 1..Len(posted) BY <2>0, <3>2
          <6> QED BY <2>0, <3>1, <4>1, <6>1, PostedRange DEF Tries
        <5>2. posted[Len(delays) + 1] = 1 + SdkRetries
          BY <2>0, <3>2, <5>1, RetryAssumption
        <5> QED BY <2>0, <3>2, <4>3, <5>2 DEF RetryInv
      <4> QED BY <2>0, <3>2, <3>3, <4>1, <4>3, <4>4, <4>5, <4>6 DEF RetryInv
    <3>5. CASE ~Repeats(failure)
      <4>1. delays' = delays /\ step' = "failed" BY <3>1, <3>5
      <4>2. \A i \in 1..Len(delays) : delays[i] = Delay(i) /\ Retryable(failures'[i])
        BY <2>0, <3>2, <3>3 DEF RetryInv
      <4> QED BY <2>0, <3>2, <3>3, <4>1, <4>2 DEF RetryInv
    <3> QED BY <3>4, <3>5
  <2>6. CASE UserInstalls \/ UserChooses \/ UNCHANGED engineVars
    <3>1. asked' = asked /\ failures' = failures /\ delays' = delays
          /\ streamed' = streamed /\ step' = step /\ posted' = posted
      BY <2>6 DEF UserInstalls, UserChooses, engineVars
    <3> QED BY <3>1 DEF RetryInv
  <2>7. CASE Resend
    <3>1. asked' = asked /\ failures' = failures /\ delays' = delays
          /\ streamed' = streamed /\ step' = step /\ step = "waiting"
          /\ Len(asked) = Len(delays) + 1
      BY <2>7 DEF Resend, RetryInv
    <3>2. \A i \in 1..Len(delays) : posted'[i] = posted[i]
      BY <2>0, <2>7, <3>1, ResendPosts
    <3> QED BY <3>1, <3>2 DEF RetryInv
  <2> QED BY <2>1, <2>2, <2>3, <2>4, <2>5, <2>6, <2>7 DEF EngineNext
<1> QED BY <1>1, <1>2, EngineInvariantHolds, PTL DEF EngineSpec

\* The call is repeated only after a failure that may be repeated and that the
\* SDK has given up on, at most MaxAttempts times, never when streamed, each call
\* sends at most 1 + SdkRetries requests, and delays grow and are bounded, whatever
\* the attempts, the delays and the SDK's retries are set to.
THEOREM RetriesHold == EngineSpec => []RetriesAreSound
PROOF
<1>1. EngineInv /\ RetryInv => RetriesAreSound
  <2> SUFFICES ASSUME EngineInv, RetryInv PROVE RetriesAreSound OBVIOUS
  <2>0. Len(asked) \in Nat /\ Len(delays) \in Nat BY DEF EngineInv, EngineTypeOK
  <2>1. streamed => Len(asked) <= 1 BY <2>0 DEF RetryInv
  <2>2. \A i \in 1..Len(asked) :
          /\ posted[i] <= 1 + SdkRetries
          /\ i > 1 => Retryable(failures[i - 1]) /\ posted[i - 1] = 1 + SdkRetries
    <3> TAKE i \in 1..Len(asked)
    <3>1. i > 1 => i - 1 \in 1..Len(delays) BY <2>0 DEF RetryInv
    <3>2. posted[i] \in 1..(SdkRetries + 1)
      BY PostedRange DEF EngineInv, EngineTypeOK, PostedInv
    <3> QED BY <3>1, <3>2, RetryAssumption DEF RetryInv
  <2>3. Len(delays) <= MaxAttempts
    BY <2>0, RetryAssumption DEF RetryInv
  <2>4. \A i \in 1..Len(delays) : delays[i] <= MaxDelay /\ (i > 1 => delays[i - 1] <= delays[i])
    <3> TAKE i \in 1..Len(delays)
    <3>1. i \in 1..MaxAttempts /\ delays[i] = Delay(i) BY <2>0, <2>3, RetryAssumption DEF RetryInv
    <3>2. i > 1 => i - 1 \in 1..Len(delays) BY <2>0
    <3>3. i > 1 => delays[i - 1] = Delay(i - 1) BY <3>2 DEF RetryInv
    <3> QED BY <3>1, <3>3, DelaysGrow
  <2> QED BY <2>1, <2>2, <2>4 DEF RetriesAreSound, RetryInv, EngineInv, PostedInv
<1> QED BY EngineInvariantHolds, RetryInvHolds, <1>1, PTL
-----------------------------------------------------------------------------
\* What a resolution promises, for any role, recommendations and choice.
LEMMA FallbackIsInstalled ==
  ASSUME installed \in Seq(ModelNames), NEW role \in Roles
  PROVE  /\ Fallback(installed, role) # NoModel => Installed(Fallback(installed, role))
         /\ role = "vision" => Fallback(installed, role) = NoModel
PROOF
<1>1. \A I \in SUBSET (DOMAIN installed) :
        AtFirst(installed, I) # NoModel => Installed(AtFirst(installed, I))
  <2> SUFFICES ASSUME NEW I \in SUBSET (DOMAIN installed), AtFirst(installed, I) # NoModel
               PROVE  Installed(AtFirst(installed, I))
    OBVIOUS
  <2>1. I # {} BY DEF AtFirst
  <2>2. First(I) \in I /\ AtFirst(installed, I) = installed[First(I)] BY <2>1, AtFirstType
  <2>3. First(I) \in 1..Len(installed) BY <2>2
  <2> QED BY <2>2, <2>3 DEF Installed
<1>2. /\ {i \in DOMAIN installed : installed[i] \in EmbedNames} \in SUBSET (DOMAIN installed)
      /\ {i \in DOMAIN installed : installed[i] \notin EmbedNames} \in SUBSET (DOMAIN installed)
  OBVIOUS
<1>3. CASE role = "vision" BY <1>3 DEF Fallback
<1>4. CASE role = "embedding"
  <2>1. Fallback(installed, role)
          = AtFirst(installed, {i \in DOMAIN installed : installed[i] \in EmbedNames})
    BY <1>4 DEF Fallback
  <2> QED BY <1>1, <1>2, <1>4, <2>1
<1>5. CASE role \notin {"vision", "embedding"}
  <2>1. Fallback(installed, role)
          = AtFirst(installed, {i \in DOMAIN installed : installed[i] \notin EmbedNames})
    BY <1>5 DEF Fallback
  <2> QED BY <1>1, <1>2, <1>5, <2>1
<1> QED BY <1>3, <1>4, <1>5

LEMMA UnchosenIsSound ==
  ASSUME installed \in Seq(ModelNames), NEW role \in Roles, NEW recs \in Seq(Recommendation)
  PROVE  Sound(Unchosen(role, installed, recs), role, recs, NoModel)
PROOF
<1> DEFINE usable == UsableOf(installed, recs, role)
           r == Unchosen(role, installed, recs)
<1>1. CASE usable # {}
  <2>1. usable \in SUBSET Nat /\ usable \subseteq 1..Len(recs)
        /\ \A i \in usable : Usable(installed, recs[i], role)
    BY DEF UsableOf
  <2>2. First(usable) \in usable BY <1>1, <2>1, FirstIsLeast
  <2> DEFINE name == recs[First(usable)].name
  <2>3. name \in ModelNames /\ FindInstalled(installed, name) # NoModel
    <3>1. recs[First(usable)] \in Recommendation BY <2>1, <2>2
    <3> QED BY <2>1, <2>2, <3>1 DEF Recommendation, Usable
  <2>4. r = [name |-> FindInstalled(installed, name), source |-> "recommended"]
    BY <1>1 DEF Unchosen, Resolution
  <2>5. r.name = FindInstalled(installed, name) /\ r.source = "recommended" BY <2>4
  <2> HIDE DEF name
  <2>6. Installed(r.name) BY <2>3, <2>5, FoundIsInstalled DEF Installed
  <2> QED BY <1>1, <2>5, <2>6 DEF Sound
<1>2. CASE usable = {}
  <2>1. r = [name |-> Fallback(installed, role),
             source |-> IF Fallback(installed, role) = NoModel THEN "none_available" ELSE "fallback"]
    BY <1>2 DEF Unchosen, Resolution
  <2>2. r.name = Fallback(installed, role) /\ r.source # "recommended" BY <2>1
  <2>3. (r.name # NoModel => Installed(r.name)) /\ (role = "vision" => r.name = NoModel)
    BY <2>2, FallbackIsInstalled
  <2> QED BY <1>2, <2>2, <2>3 DEF Sound
<1> QED BY <1>1, <1>2

LEMMA ChosenIsSound ==
  ASSUME installed \in Seq(ModelNames), NEW role \in Roles, NEW recs,
         NEW app, NEW tier, NEW configured \in ModelNames
  PROVE  Sound(ResolveModel(role, installed, app, tier, configured), role, recs, configured)
PROOF
<1> DEFINE r == ResolveModel(role, installed, app, tier, configured)
<1>1. configured # NoModel BY NameAssumption
<1>2. r = [name |-> FindInstalled(installed, configured),
           source |-> IF FindInstalled(installed, configured) = NoModel
                      THEN "configured_missing" ELSE "user_choice"]
  BY <1>1 DEF ResolveModel, Resolution
<1>3. r.name = FindInstalled(installed, configured)
      /\ (r.name # NoModel => r.source = "user_choice")
  BY <1>2
<1>4. r.name # NoModel => Installed(r.name) /\ Canon[r.name] = Canon[configured]
  BY <1>3, FoundIsInstalled DEF Installed
<1>5. Installed(configured) => r.name = configured
  <2> SUFFICES ASSUME Installed(configured) PROVE r.name = configured OBVIOUS
  <2>1. PICK i \in 1..Len(installed) : installed[i] = configured BY DEF Installed
  <2>2. i \in Spelled(installed, configured) BY <2>1 DEF Spelled
  <2> QED BY <1>3, <2>2 DEF FindInstalled
<1> QED BY <1>1, <1>3, <1>4, <1>5 DEF Sound

\* The user's choice wins, a missing choice gives no model, vision is never
\* guessed, an answer is an installed name and a usable recommendation comes
\* before any guess: for every role, application and tier (resolution.py:135-150).
THEOREM ResolutionHolds == EngineSpec => []ResolutionIsSound
PROOF
<1>1. EngineTypeOK => ResolutionIsSound
  <2> SUFFICES ASSUME EngineTypeOK, NEW app \in Apps, NEW role \in Roles,
                      NEW tier \in Tiers \cup {"none"}
               PROVE  Sound(ResolveModel(role, installed, app, tier, chosen), role,
                            Recommendations(app, tier), chosen)
    BY DEF ResolutionIsSound
  <2>1. installed \in Seq(ModelNames) /\ chosen \in Named BY ListedNames DEF EngineTypeOK
  <2>2. CASE chosen \in ModelNames BY <2>1, <2>2, ChosenIsSound
  <2>3. CASE chosen = NoModel
    <3>1. Recommendations(app, tier) \in Seq(Recommendation)
      <4>1. CASE tier \in Tiers
        <5>1. Recommendations(app, tier) = Recommended[app][tier] BY <4>1 DEF Recommendations
        <5> QED BY <4>1, <5>1, RegistryAssumption
      <4>2. CASE tier \notin Tiers
        BY <4>2 DEF Recommendations
      <4> QED BY <4>1, <4>2
    <3>2. ResolveModel(role, installed, app, tier, chosen)
            = Unchosen(role, installed, Recommendations(app, tier))
      BY <2>3 DEF ResolveModel
    <3> HIDE DEF Recommendations
    <3> QED BY <2>1, <2>3, <3>1, <3>2, UnchosenIsSound
  <2> QED BY <2>1, <2>2, <2>3 DEF Named
<1> QED BY EngineTypesHold, <1>1, PTL
=============================================================================
