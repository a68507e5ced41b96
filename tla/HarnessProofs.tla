----------------------------- MODULE HarnessProofs -----------------------------
(***************************************************************************)
(* What a scan reports, for any endpoints and names, whatever each server  *)
(* answers and wherever it stops answering; what the user consents to, for *)
(* any registry and dependencies; and that the harness together keeps what *)
(* each of its parts keeps.                                                *)
(***************************************************************************)
EXTENDS MCHarness, StructuredCallProofs, InferenceEngineProofs,
        FiniteSetTheorems, SequenceTheorems, TLAPS

-----------------------------------------------------------------------------
(* The scan of the local servers.                                             *)

\* A report that says of endpoint e what its server answered.
True(e) ==
  /\ report[e].reachable <=> lists[e] # {}
  /\ report[e].reachable => report[e].models = models[e]
  /\ (report[e].reachable /\ report[e].provider = "ollama") \/ report[e].hint = "pull_a_model"
     => "tags" \in lists[e]

\* Every probe that is done made a true report, and a scan has results only
\* when every probe has ended: none of them moves any more.  A probe that never
\* asked its server has no list.
Unasked == {"idle", "checking", "refused"}
ProbeInv ==
  /\ ProbeTypeOK
  /\ \A e \in Endpoints : at[e] = "done" => True(e)
  /\ \A e \in Endpoints : at[e] \in Unasked => lists[e] = {}
  /\ scan = "returned" => results = Gathered /\ \A e \in Endpoints : at[e] \in Ended
  /\ scan # "returned" => results = {}
  /\ scan = "idle" => \A e \in Endpoints : at[e] = "idle"

\* How probe_endpoint concludes.
LEMMA ConclusionIsTrue ==
  ASSUME NEW port \in Providers \cup {"none"}, NEW answered \in SUBSET {"tags", "ids"},
         NEW names \in SUBSET Names, NEW bad \in BOOLEAN,
         NEW failure \in Transport \cup {"none"},
         NEW r, r = Conclusion(port, answered, names, bad, failure)
  PROVE  /\ r \in ProbeResult
         /\ r.reachable <=> answered # {}
         /\ r.reachable => r.models = names
         /\ (r.reachable /\ r.provider = "ollama") \/ r.hint = "pull_a_model"
            => "tags" \in answered
PROOF
<1>1. CASE answered # {}
  <2>1. r = Reachable(answered, names, port) BY <1>1 DEF Conclusion
  <2>2. Detected(port, answered) \in Providers BY DEF Detected, Providers
  <2>3. "tags" \notin answered => answered = {"ids"} BY <1>1
  <2>4. Detected(port, answered) = "ollama" => "tags" \in answered
    BY <2>3 DEF Detected
  <2>5. r.reachable = TRUE /\ r.provider = Detected(port, answered) /\ r.models = names
        /\ r.hint = IF Detected(port, answered) = "ollama" /\ names = {}
                    THEN "pull_a_model" ELSE "none"
    BY <2>1 DEF Reachable
  <2>6. r \in ProbeResult BY <2>1, <2>2 DEF Reachable, ProbeResult, Hints
  <2> QED BY <1>1, <2>4, <2>5, <2>6
<1>2. CASE answered = {}
  <2>1. PICK hint \in Hints \ {"pull_a_model"} : r = Unreachable(port, hint)
    BY <1>2 DEF Conclusion, Hints, HintOf, Transport
  <2>2. r.reachable = FALSE /\ r.hint = hint BY <2>1 DEF Unreachable
  <2>3. r \in ProbeResult BY <2>1 DEF Unreachable, ProbeResult
  <2> QED BY <1>2, <2>1, <2>2, <2>3
<1> QED BY <1>1, <1>2

\* A step of one probe whose answer moves it on, in terms of that endpoint:
\* the lists, names and malformed flag it leaves behind.
LEMMA AdvanceKeeps ==
  ASSUME ProbeInv, NEW e \in Endpoints, at[e] \in {"tags", "ids"},
         NEW answered \in SUBSET {"tags", "ids"}, NEW names \in SUBSET Names,
         NEW bad \in BOOLEAN, NEW failure \in Transport \cup {"none"},
         lists' = [lists EXCEPT ![e] = answered], models' = [models EXCEPT ![e] = names],
         malformed' = [malformed EXCEPT ![e] = bad], UNCHANGED <<scan, results>>,
         \/ Conclude(e, answered, names, bad, failure)
         \/ at' = [at EXCEPT ![e] = "ids"] /\ UNCHANGED report
  PROVE  ProbeInv'
PROOF
<1>1. scan # "returned" /\ scan # "idle"
  BY DEF ProbeInv, Ended
<1>2. PortProvider[e] \in Providers \cup {"none"} BY EndpointAssumption
<1> DEFINE r == Conclusion(PortProvider[e], answered, names, bad, failure)
<1>3. /\ r \in ProbeResult
      /\ r.reachable <=> answered # {}
      /\ r.reachable => r.models = names
      /\ (r.reachable /\ r.provider = "ollama") \/ r.hint = "pull_a_model" => "tags" \in answered
  <2>1. \A c : c = Conclusion(PortProvider[e], answered, names, bad, failure) =>
          /\ c \in ProbeResult
          /\ c.reachable <=> answered # {}
          /\ c.reachable => c.models = names
          /\ (c.reachable /\ c.provider = "ollama") \/ c.hint = "pull_a_model"
             => "tags" \in answered
    BY <1>2, ConclusionIsTrue
  <2> QED BY <2>1
<1> HIDE DEF r
<1>4. \/ report' = [report EXCEPT ![e] = r] /\ at' = [at EXCEPT ![e] = "done"]
      \/ report' = report /\ at' = [at EXCEPT ![e] = "ids"]
  BY DEF Conclude, r
<1>5. ProbeTypeOK'
  BY <1>3, <1>4 DEF ProbeInv, ProbeTypeOK
<1>6. \A d \in Endpoints : at'[d] = "done" => True(d)'
  <2> SUFFICES ASSUME NEW d \in Endpoints, at'[d] = "done" PROVE True(d)' OBVIOUS
  <2>1. CASE d = e
    <3>1. report'[e] = r /\ lists'[e] = answered /\ models'[e] = names
      BY <1>4, <2>1 DEF ProbeInv, ProbeTypeOK
    <3> QED BY <1>3, <2>1, <3>1 DEF True
  <2>2. CASE d # e
    <3>1. at[d] = "done" /\ report'[d] = report[d] /\ lists'[d] = lists[d] /\ models'[d] = models[d]
      BY <1>4, <2>2 DEF ProbeInv, ProbeTypeOK
    <3> QED BY <3>1 DEF ProbeInv, True
  <2> QED BY <2>1, <2>2
<1>7. \A d \in Endpoints : at'[d] \in Unasked => lists'[d] = {}
  <2> SUFFICES ASSUME NEW d \in Endpoints, at'[d] \in Unasked PROVE lists'[d] = {} OBVIOUS
  <2>1. d # e BY <1>4 DEF ProbeInv, ProbeTypeOK, Unasked
  <2>2. at[d] = at'[d] /\ lists'[d] = lists[d]
    BY <1>4, <2>1 DEF ProbeInv, ProbeTypeOK
  <2> QED BY <2>2 DEF ProbeInv
<1> QED BY <1>1, <1>5, <1>6, <1>7 DEF ProbeInv

\* A step that moves one probe without a report.
LEMMA MoveKeeps ==
  ASSUME ProbeInv, NEW e \in Endpoints, at[e] \in {"checking", "tags", "ids"},
         NEW next \in {"tags", "refused", "raised"}, at' = [at EXCEPT ![e] = next],
         next = "refused" => at[e] = "checking",
         UNCHANGED <<scan, lists, malformed, models, report, results>>
  PROVE  ProbeInv'
PROOF
<1>1. scan # "returned" /\ scan # "idle" BY DEF ProbeInv, Ended
<1>2. ProbeTypeOK' BY DEF ProbeInv, ProbeTypeOK
<1>3. \A d \in Endpoints : at'[d] = "done" => True(d)'
  BY DEF ProbeInv, ProbeTypeOK, True
<1>4. \A d \in Endpoints : at'[d] \in Unasked => lists'[d] = {}
  BY DEF ProbeInv, ProbeTypeOK, Unasked
<1> QED BY <1>1, <1>2, <1>3, <1>4 DEF ProbeInv

LEMMA ProbeStepKeeps == ASSUME ProbeInv, NEW e \in Endpoints, ProbeStep(e) PROVE ProbeInv'
PROOF
<1>1. CASE Check(e) BY <1>1, MoveKeeps DEF Check
<1>2. CASE ListAnswers(e)
  <2> PICK names \in SUBSET Names :
        /\ lists' = [lists EXCEPT ![e] = @ \cup {at[e]}]
        /\ models' = [models EXCEPT ![e] = @ \cup names]
        /\ Advance(e, lists[e] \cup {at[e]}, models[e] \cup names, malformed[e])
    BY <1>2 DEF ListAnswers
  <2>1. at[e] \in {"tags", "ids"} /\ UNCHANGED <<scan, malformed, results>>
    BY <1>2 DEF ListAnswers
  <2>2. lists[e] \cup {at[e]} \in SUBSET {"tags", "ids"} /\ models[e] \cup names \in SUBSET Names
        /\ malformed[e] \in BOOLEAN /\ malformed' = [malformed EXCEPT ![e] = malformed[e]]
    BY <2>1 DEF ProbeInv, ProbeTypeOK
  <2>3. \/ Conclude(e, lists[e] \cup {at[e]}, models[e] \cup names, malformed[e], "none")
        \/ at' = [at EXCEPT ![e] = "ids"] /\ UNCHANGED report
    BY DEF Advance
  <2> DEFINE answered == lists[e] \cup {at[e]}
             named == models[e] \cup names
  <2>4. lists' = [lists EXCEPT ![e] = answered] /\ models' = [models EXCEPT ![e] = named]
    OBVIOUS
  <2> HIDE DEF answered, named
  <2> QED BY <2>1, <2>2, <2>3, <2>4, AdvanceKeeps DEF answered, named
<1>3. CASE OtherAnswer(e)
  <2> PICK bad \in {malformed[e], TRUE} :
        malformed' = [malformed EXCEPT ![e] = bad] /\ Advance(e, lists[e], models[e], bad)
    BY <1>3 DEF OtherAnswer
  <2>1. at[e] \in {"tags", "ids"} /\ UNCHANGED <<scan, lists, models, results>>
    BY <1>3 DEF OtherAnswer
  <2>2. lists[e] \in SUBSET {"tags", "ids"} /\ models[e] \in SUBSET Names /\ bad \in BOOLEAN
        /\ lists' = [lists EXCEPT ![e] = lists[e]] /\ models' = [models EXCEPT ![e] = models[e]]
    BY <2>1 DEF ProbeInv, ProbeTypeOK
  <2>3. \/ Conclude(e, lists[e], models[e], bad, "none")
        \/ at' = [at EXCEPT ![e] = "ids"] /\ UNCHANGED report
    BY DEF Advance
  <2> QED BY <2>1, <2>2, <2>3, AdvanceKeeps
<1>4. CASE RequestFails(e)
  <2> PICK failure \in Transport : Conclude(e, lists[e], models[e], malformed[e], failure)
    BY <1>4 DEF RequestFails
  <2>1. at[e] \in {"tags", "ids"} /\ UNCHANGED <<scan, lists, malformed, models, results>>
    BY <1>4 DEF RequestFails
  <2>2. lists[e] \in SUBSET {"tags", "ids"} /\ models[e] \in SUBSET Names /\ malformed[e] \in BOOLEAN
        /\ lists' = [lists EXCEPT ![e] = lists[e]] /\ models' = [models EXCEPT ![e] = models[e]]
        /\ malformed' = [malformed EXCEPT ![e] = malformed[e]]
    BY <2>1 DEF ProbeInv, ProbeTypeOK
  <2> QED BY <2>1, <2>2, AdvanceKeeps
<1>5. CASE WrongShape(e) BY <1>5, MoveKeeps DEF WrongShape
<1> QED BY <1>1, <1>2, <1>3, <1>4, <1>5 DEF ProbeStep

\* The inductive invariant holds in every reachable state.
THEOREM ProbeInvariantHolds == ProbeSpec => []ProbeInv
PROOF
<1>1. ProbeInit => ProbeInv
  <2> SUFFICES ASSUME ProbeInit PROVE ProbeInv OBVIOUS
  <2>1. NoReport \in ProbeResult BY DEF NoReport, ProbeResult, Hints
  <2> QED BY <2>1 DEF ProbeInit, ProbeInv, ProbeTypeOK, Unasked
<1>2. ProbeInv /\ [ProbeNext]_probeVars => ProbeInv'
  <2> SUFFICES ASSUME ProbeInv, [ProbeNext]_probeVars PROVE ProbeInv' OBVIOUS
  <2>1. CASE StartScan
    BY <2>1 DEF StartScan, ProbeInv, ProbeTypeOK, True, Unasked
  <2>2. CASE EndScan
    <3>1. ProbeTypeOK' BY <2>2 DEF EndScan, ProbeInv, ProbeTypeOK, Gathered
    <3>2. \A e \in Endpoints : at'[e] = "done" => True(e)'
      BY <2>2 DEF EndScan, ProbeInv, True
    <3> QED BY <2>2, <3>1, <3>2 DEF EndScan, ProbeInv, Gathered, Ended
  <2>3. CASE \E e \in Endpoints : ProbeStep(e) BY <2>3, ProbeStepKeeps
  <2>4. CASE UNCHANGED probeVars
    BY <2>4 DEF probeVars, ProbeInv, ProbeTypeOK, True, Gathered, Ended
  <2> QED BY <2>1, <2>2, <2>3, <2>4 DEF ProbeNext
<1> QED BY <1>1, <1>2, PTL DEF ProbeSpec

\* Types of the probes, of their reports and of the scan.
THEOREM ProbeTypesHold == ProbeSpec => []ProbeTypeOK
PROOF BY ProbeInvariantHolds, PTL DEF ProbeInv

\* Every server that answered a list is in the results, as reachable and with the
\* names it gave, unless its other answer was of another shape; a server in the
\* results that answered none is not reachable.
THEOREM ReachableHolds == ProbeSpec => []ReachableIffAnswered
PROOF
<1>1. ProbeInv => ReachableIffAnswered
  <2> SUFFICES ASSUME ProbeInv, scan = "returned"
               PROVE  /\ \A e \in Endpoints : lists[e] # {} => e \in results \/ at[e] = "raised"
                      /\ \A e \in results :
                           /\ report[e].reachable <=> lists[e] # {}
                           /\ report[e].reachable => report[e].models = models[e]
    BY DEF ReachableIffAnswered
  <2>1. results = Gathered /\ \A e \in Endpoints : at[e] \in Ended BY DEF ProbeInv
  <2>2. \A e \in Endpoints : lists[e] # {} => at[e] \in {"done", "raised"}
    BY <2>1 DEF ProbeInv, Ended, Unasked
  <2> QED BY <2>1, <2>2 DEF ProbeInv, True, Gathered
<1> QED BY ProbeInvariantHolds, <1>1, PTL

\* Only a server with Ollama's own list is called Ollama.
THEOREM OllamaHolds == ProbeSpec => []OllamaIsProven
PROOF
<1>1. ProbeInv => OllamaIsProven
  BY DEF ProbeInv, OllamaIsProven, True, Gathered
<1> QED BY ProbeInvariantHolds, <1>1, PTL

-----------------------------------------------------------------------------
(* The dependencies of a model.                                               *)

\* A list of keys, and what it holds.
Keys == Seq(AsrKeys)

LEMMA ConcatHolds ==
  ASSUME NEW s \in Keys, NEW t \in Keys
  PROVE  s \o t \in Keys /\ ToSet(s \o t) = ToSet(s) \cup ToSet(t)
PROOF
<1>1. /\ s \o t \in Seq(AsrKeys) /\ Len(s \o t) = Len(s) + Len(t)
      /\ \A i \in 1..(Len(s) + Len(t)) :
           (s \o t)[i] = IF i <= Len(s) THEN s[i] ELSE t[i - Len(s)]
  BY ConcatProperties DEF Keys
<1>2. /\ Len(s) \in Nat /\ DOMAIN s = 1..Len(s) /\ Len(t) \in Nat /\ DOMAIN t = 1..Len(t)
      /\ DOMAIN (s \o t) = 1..(Len(s) + Len(t))
  BY <1>1 DEF Keys
<1> DEFINE u == s \o t
<1> HIDE DEF u
<1>3. \A i \in 1..Len(s) : i \in DOMAIN u /\ u[i] = s[i] BY <1>1, <1>2 DEF u
<1>4. \A i \in 1..Len(t) : i + Len(s) \in DOMAIN u /\ u[i + Len(s)] = t[i]
  <2> TAKE i \in 1..Len(t)
  <2>1. i + Len(s) \in 1..(Len(s) + Len(t)) /\ ~(i + Len(s) <= Len(s)) /\ (i + Len(s)) - Len(s) = i
    BY <1>2
  <2> QED BY <1>1, <1>2, <2>1 DEF u
<1>5. \A i \in DOMAIN u : u[i] \in ToSet(s) \cup ToSet(t)
  <2> TAKE i \in DOMAIN u
  <2>1. i \in 1..(Len(s) + Len(t)) BY <1>2 DEF u
  <2>2. CASE i <= Len(s)
    <3>1. i \in DOMAIN s /\ u[i] = s[i] BY <1>1, <1>2, <2>1, <2>2 DEF u
    <3> QED BY <3>1 DEF ToSet
  <2>3. CASE ~(i <= Len(s))
    <3>1. i - Len(s) \in DOMAIN t /\ u[i] = t[i - Len(s)] BY <1>1, <1>2, <2>1, <2>3 DEF u
    <3> QED BY <3>1 DEF ToSet
  <2> QED BY <2>2, <2>3
<1>6. ToSet(s) \subseteq ToSet(u) BY <1>2, <1>3 DEF ToSet
<1>7. ToSet(t) \subseteq ToSet(u) BY <1>2, <1>4 DEF ToSet
<1>8. ToSet(u) \subseteq ToSet(s) \cup ToSet(t) BY <1>5 DEF ToSet
<1> QED BY <1>1, <1>6, <1>7, <1>8 DEF u, Keys

-----------------------------------------------------------------------------
\* Fresh keeps the dependencies that have not been seen.  FlattenSeq is a
\* recursive function, so what it computes is shown by induction.
Follow(s, t) == s \o t
IsFlat(f, ss, n) == f = [i \in 1..n |-> IF i = 1 THEN ss[i] ELSE Follow(f[i - 1], ss[i])]

LEMMA FlatExists ==
  ASSUME NEW ss \in Seq(Keys), NEW m \in 1..Len(ss)
  PROVE  \E f : IsFlat(f, ss, m)
PROOF
<1> DEFINE N == {n \in Nat : n = 0 \/ \E f : IsFlat(f, ss, n)}
<1>1. 0 \in N OBVIOUS
<1>2. ASSUME NEW n \in N PROVE n + 1 \in N
  <2>1. n \in Nat /\ n + 1 \in Nat BY <1>2
  <2>2. CASE n = 0
    <3> DEFINE f == [i \in 1..1 |-> ss[1]]
    <3>1. IsFlat(f, ss, n + 1) BY <2>2 DEF IsFlat
    <3> QED BY <2>1, <3>1
  <2>3. CASE n # 0
    <3>1. PICK f : IsFlat(f, ss, n) BY <1>2, <2>3
    <3> DEFINE g == [i \in 1..(n + 1) |-> IF i = n + 1 THEN Follow(f[n], ss[n + 1]) ELSE f[i]]
    <3>2. \A i \in 1..(n + 1) : g[i] = IF i = 1 THEN ss[i] ELSE Follow(g[i - 1], ss[i])
      <4> TAKE i \in 1..(n + 1)
      <4>1. CASE i = n + 1
        <5>1. i # 1 /\ i - 1 = n /\ n \in 1..(n + 1) /\ n # n + 1 BY <2>1, <2>3, <4>1
        <5> QED BY <4>1, <5>1
      <4>2. CASE i # n + 1
        <5>1. i \in 1..n BY <2>1, <4>2
        <5>2. f[i] = IF i = 1 THEN ss[i] ELSE Follow(f[i - 1], ss[i]) BY <3>1, <5>1 DEF IsFlat
        <5>3. i # 1 => i - 1 \in 1..(n + 1) /\ i - 1 # n + 1 BY <2>1, <5>1
        <5>4. i # 1 => g[i - 1] = f[i - 1] BY <5>3
        <5>5. g[i] = f[i] BY <4>2
        <5> QED BY <5>2, <5>4, <5>5
      <4> QED BY <4>1, <4>2
    <3>3. g = [i \in 1..(n + 1) |-> g[i]] OBVIOUS
    <3> HIDE DEF g
    <3>4. IsFlat(g, ss, n + 1) BY <3>2, <3>3 DEF IsFlat
    <3> QED BY <2>1, <3>4
  <2> QED BY <2>2, <2>3
<1>3. N \in SUBSET Nat OBVIOUS
<1>4. m \in N
  <2> HIDE DEF N
  <2>1. m \in Nat OBVIOUS
  <2> QED BY <1>1, <1>2, <1>3, <2>1, EngineInduction
<1> QED BY <1>4

LEMMA FlatHolds ==
  ASSUME NEW ss \in Seq(Keys)
  PROVE  /\ FlattenSeq(ss) \in Keys
         /\ ToSet(FlattenSeq(ss)) = UNION {ToSet(ss[i]) : i \in 1..Len(ss)}
PROOF
<1> DEFINE L == Len(ss)
<1>1. L \in Nat /\ \A i \in 1..L : ss[i] \in Keys OBVIOUS
<1>2. CASE L = 0
  <2>1. FlattenSeq(ss) = <<>> /\ <<>> \in Keys BY <1>2 DEF FlattenSeq, Keys
  <2>2. ToSet(<<>>) = {} BY DEF ToSet
  <2>3. UNION {ToSet(ss[i]) : i \in 1..L} = {} BY <1>2
  <2> QED BY <2>1, <2>2, <2>3
<1>3. CASE L # 0
  <2> DEFINE f == CHOOSE g : IsFlat(g, ss, L)
  <2>1. FlattenSeq(ss) = f[L] BY <1>3 DEF FlattenSeq, IsFlat, Follow
  <2>2. IsFlat(f, ss, L)
    <3>1. L \in 1..L BY <1>1, <1>3
    <3> QED BY <3>1, FlatExists
  <2> HIDE DEF f
  <2>3. f[1] = ss[1] /\ \A i \in 1..L : i # 1 => f[i] = Follow(f[i - 1], ss[i])
    <3>1. \A i \in 1..L : f[i] = IF i = 1 THEN ss[i] ELSE Follow(f[i - 1], ss[i])
      BY <2>2 DEF IsFlat
    <3> QED BY <1>1, <1>3, <3>1
  <2> DEFINE Held(n) == UNION {ToSet(ss[i]) : i \in 1..n}
             N == {n \in Nat : n = 0 \/ n > L \/ (f[n] \in Keys /\ ToSet(f[n]) = Held(n))}
  <2>4. 0 \in N /\ N \in SUBSET Nat OBVIOUS
  <2>5. ASSUME NEW n \in N PROVE n + 1 \in N
    <3>1. n \in Nat /\ n + 1 \in Nat BY <2>5
    <3>2. CASE n + 1 > L BY <3>1, <3>2
    <3>3. CASE n = 0 /\ ~(n + 1 > L)
      <4>1. f[n + 1] = ss[1] /\ ss[1] \in Keys BY <1>1, <1>3, <2>3, <3>3
      <4>2. Held(n + 1) = ToSet(ss[1]) BY <3>3
      <4> QED BY <3>1, <4>1, <4>2
    <3>4. CASE n # 0 /\ ~(n + 1 > L)
      <4>1. n + 1 \in 1..L /\ n + 1 # 1 /\ (n + 1) - 1 = n /\ ~(n > L) BY <1>1, <3>1, <3>4
      <4>2. f[n] \in Keys /\ ToSet(f[n]) = Held(n) BY <2>5, <3>4, <4>1
      <4>3. f[n + 1] = f[n] \o ss[n + 1] BY <2>3, <4>1 DEF Follow
      <4>4. ss[n + 1] \in Keys BY <1>1, <4>1
      <4>5. f[n + 1] \in Keys /\ ToSet(f[n + 1]) = Held(n) \cup ToSet(ss[n + 1])
        BY <4>2, <4>3, <4>4, ConcatHolds
      <4>6. \A i : i \in 1..(n + 1) <=> i \in 1..n \/ i = n + 1 BY <3>1
      <4>7. Held(n + 1) = Held(n) \cup ToSet(ss[n + 1]) BY <4>6
      <4> QED BY <3>1, <4>5, <4>7
    <3> QED BY <3>2, <3>3, <3>4
  <2>6. L \in N
    <3> HIDE DEF N
    <3> QED BY <1>1, <2>4, <2>5, EngineInduction
  <2> QED BY <1>1, <1>3, <2>1, <2>6
<1> QED BY <1>2, <1>3

LEMMA FreshHolds ==
  ASSUME NEW ds \in Keys, NEW seen
  PROVE  Fresh(ds, seen) \in Keys /\ ToSet(Fresh(ds, seen)) = ToSet(ds) \ seen
PROOF
<1> DEFINE ss == [i \in DOMAIN ds |-> IF Unseen(ds[i], seen) THEN <<ds[i]>> ELSE <<>>]
<1>1. Len(ds) \in Nat /\ DOMAIN ds = 1..Len(ds) /\ \A i \in 1..Len(ds) : ds[i] \in AsrKeys
  BY DEF Keys
<1>2. \A i \in 1..Len(ds) : ss[i] = IF ds[i] \in seen THEN <<>> ELSE <<ds[i]>>
  BY <1>1 DEF Unseen
<1>3. \A k \in AsrKeys : <<>> \in Keys /\ <<k>> \in Keys BY DEF Keys
<1>4. \A i \in 1..Len(ds) : ss[i] \in Keys BY <1>1, <1>2, <1>3
<1>5. ss \in Seq(Keys) /\ Len(ss) = Len(ds) BY <1>1, <1>4
<1>6. Fresh(ds, seen) = FlattenSeq(ss) BY DEF Fresh
<1> HIDE DEF ss
<1>7. \A k : ToSet(<<k>>) = {k} BY DEF ToSet
<1>8. ToSet(<<>>) = {} BY DEF ToSet
<1>9. \A i \in 1..Len(ds) : ToSet(ss[i]) = {ds[i]} \ seen BY <1>2, <1>7, <1>8
<1>10. UNION {ToSet(ss[i]) : i \in 1..Len(ds)} = ToSet(ds) \ seen BY <1>1, <1>9 DEF ToSet
<1> QED BY <1>5, <1>6, <1>10, FlatHolds

-----------------------------------------------------------------------------
\* The sum over a list without repetition is the number of bytes it stands for.
IsTotal(f, s, n) == f = [i \in 0..n |-> IF i = 0 THEN 0 ELSE f[i - 1] + Size[s[i]]]

LEMMA TotalExists ==
  ASSUME NEW s \in Keys
  PROVE  \E f : IsTotal(f, s, Len(s))
PROOF
<1> DEFINE N == {n \in Nat : \E f : IsTotal(f, s, n)}
<1>1. 0 \in N
  <2> DEFINE f == [i \in 0..0 |-> 0]
  <2>1. IsTotal(f, s, 0) BY DEF IsTotal
  <2> QED BY <2>1
<1>2. ASSUME NEW n \in N PROVE n + 1 \in N
  <2>1. n \in Nat /\ n + 1 \in Nat BY <1>2
  <2>2. PICK f : IsTotal(f, s, n) BY <1>2
  <2> DEFINE g == [i \in 0..(n + 1) |-> IF i = n + 1 THEN f[n] + Size[s[n + 1]] ELSE f[i]]
  <2>3. \A i \in 0..(n + 1) : g[i] = IF i = 0 THEN 0 ELSE g[i - 1] + Size[s[i]]
    <3> TAKE i \in 0..(n + 1)
    <3>1. CASE i = n + 1
      <4>1. i # 0 /\ i - 1 = n /\ n \in 0..(n + 1) /\ n # n + 1 BY <2>1, <3>1
      <4> QED BY <3>1, <4>1
    <3>2. CASE i # n + 1
      <4>1. i \in 0..n BY <2>1, <3>2
      <4>2. f[i] = IF i = 0 THEN 0 ELSE f[i - 1] + Size[s[i]] BY <2>2, <4>1 DEF IsTotal
      <4>3. i # 0 => i - 1 \in 0..(n + 1) /\ i - 1 # n + 1 BY <2>1, <4>1
      <4>4. i # 0 => g[i - 1] = f[i - 1] BY <4>3
      <4>5. g[i] = f[i] BY <3>2
      <4> QED BY <4>2, <4>4, <4>5
    <3> QED BY <3>1, <3>2
  <2>4. g = [i \in 0..(n + 1) |-> g[i]] OBVIOUS
  <2> HIDE DEF g
  <2>5. IsTotal(g, s, n + 1) BY <2>3, <2>4 DEF IsTotal
  <2> QED BY <2>1, <2>5
<1>3. N \in SUBSET Nat /\ Len(s) \in Nat BY DEF Keys
<1>4. Len(s) \in N
  <2> HIDE DEF N
  <2> QED BY <1>1, <1>2, <1>3, EngineInduction
<1> QED BY <1>4

LEMMA TotalIsBytes ==
  ASSUME NEW s \in Keys, \A i, j \in 1..Len(s) : i # j => s[i] # s[j]
  PROVE  TotalSize(s) = Cardinality(Bytes(ToSet(s)))
PROOF
<1> DEFINE L == Len(s)
           f == CHOOSE g : IsTotal(g, s, L)
           Part(n) == {s[i] : i \in 1..n}
<1>1. L \in Nat /\ DOMAIN s = 1..L /\ \A i \in 1..L : s[i] \in AsrKeys BY DEF Keys
<1>2. TotalSize(s) = f[L] BY DEF TotalSize, IsTotal
<1>3. IsTotal(f, s, L) BY TotalExists
<1> HIDE DEF f
<1>4. f[0] = 0 /\ \A i \in 1..L : f[i] = f[i - 1] + Size[s[i]]
  <2>1. \A i \in 0..L : f[i] = IF i = 0 THEN 0 ELSE f[i - 1] + Size[s[i]] BY <1>3 DEF IsTotal
  <2>2. 0 \in 0..L /\ \A i \in 1..L : i \in 0..L /\ i # 0 BY <1>1
  <2> QED BY <2>1, <2>2
<1> DEFINE Counted(n) == IsFiniteSet(Bytes(Part(n))) /\ Cardinality(Bytes(Part(n))) = f[n]
           N == {n \in Nat : n > L \/ Counted(n)}
<1>5. 0 \in N
  <2>1. Part(0) = {} OBVIOUS
  <2>2. Bytes({}) = {} BY DEF Bytes
  <2> QED BY <1>4, <2>1, <2>2, FS_EmptySet
<1>6. ASSUME NEW n \in N PROVE n + 1 \in N
  <2>1. n \in Nat /\ n + 1 \in Nat BY <1>6
  <2>2. CASE n + 1 > L BY <2>1, <2>2
  <2>3. CASE ~(n + 1 > L)
    <3>1. n + 1 \in 1..L /\ (n + 1) - 1 = n /\ ~(n > L) BY <1>1, <2>1, <2>3
    <3>2. Counted(n) BY <1>6, <3>1
    <3> DEFINE k == s[n + 1]
               B == Bytes(Part(n))
               C == {k} \X (1..Size[k])
    <3>3. k \in AsrKeys /\ Size[k] \in Nat BY <1>1, <3>1, AsrAssumption
    <3>4. k \notin Part(n)
      <4> SUFFICES ASSUME NEW i \in 1..n, s[i] = k PROVE FALSE OBVIOUS
      <4>1. i \in 1..L /\ i # n + 1 BY <1>1, <2>1, <3>1
      <4> QED BY <3>1, <4>1
    <3>5. Bytes(Part(n + 1)) = B \cup C
      <4>1. \A i : i \in 1..(n + 1) <=> i \in 1..n \/ i = n + 1 BY <2>1
      <4>2. Part(n + 1) = Part(n) \cup {k} BY <4>1
      <4> HIDE DEF k, Part
      <4> QED BY <4>2 DEF Bytes
    <3>6. B \cap C = {}
      <4> HIDE DEF k, Part
      <4>1. \A p \in B : p[1] \in Part(n) BY DEF Bytes
      <4>2. \A p \in C : p[1] = k OBVIOUS
      <4> QED BY <3>4, <4>1, <4>2
    <3>7. IsFiniteSet(C) /\ Cardinality(C) = Size[k]
      <4> HIDE DEF k
      <4>1. IsFiniteSet(1..Size[k]) /\ Cardinality(1..Size[k]) = Size[k]
        <5>1. 1 \in Int /\ Size[k] \in Int /\ (1 > Size[k] => Size[k] = 0) BY <3>3
        <5>2. IsFiniteSet(1..Size[k])
              /\ Cardinality(1..Size[k]) = IF 1 > Size[k] THEN 0 ELSE Size[k] - 1 + 1
          BY <5>1, FS_Interval
        <5> QED BY <5>1, <5>2
      <4>2. IsFiniteSet({k}) /\ Cardinality({k}) = 1 BY FS_Singleton
      <4>3. IsFiniteSet(C) /\ Cardinality(C) = Cardinality({k}) * Cardinality(1..Size[k])
        BY <4>1, <4>2, FS_Product
      <4>4. 1 * Size[k] = Size[k] BY <3>3
      <4> QED BY <4>1, <4>2, <4>3, <4>4
    <3>8. IsFiniteSet(B \cup C) /\ Cardinality(B \cup C) = f[n] + Size[k]
      <4> HIDE DEF k, Part, B, C
      <4>1. IsFiniteSet(B) /\ Cardinality(B) = f[n] BY <3>2 DEF B
      <4>2. Cardinality(B) \in Nat BY <4>1, FS_CardinalityType
      <4>3. Cardinality(B \cap C) = 0 BY <3>6, FS_EmptySet
      <4>4. IsFiniteSet(B \cup C)
            /\ Cardinality(B \cup C) = Cardinality(B) + Cardinality(C) - Cardinality(B \cap C)
        BY <3>7, <4>1, FS_Union
      <4> QED BY <3>3, <3>7, <4>1, <4>2, <4>3, <4>4
    <3>9. f[n + 1] = f[n] + Size[k] BY <1>4, <3>1
    <3>10. Counted(n + 1)
      <4> HIDE DEF k, Part, B, C
      <4> QED BY <3>5, <3>8, <3>9
    <3> QED BY <2>1, <3>10
  <2> QED BY <2>2, <2>3
<1>7. L \in N
  <2> HIDE DEF N
  <2>1. N \in SUBSET Nat BY DEF N
  <2> QED BY <1>1, <1>5, <1>6, <2>1, EngineInduction
<1>8. Part(L) = ToSet(s)
  <2>1. ToSet(s) = {s[i] : i \in DOMAIN s} BY DEF ToSet
  <2> QED BY <1>1, <2>1
<1>9. Counted(L)
  <2> HIDE DEF Counted
  <2>1. ~(L > L) BY <1>1
  <2> QED BY <1>7, <2>1
<1> HIDE DEF Part, L
<1> QED BY <1>2, <1>8, <1>9
-----------------------------------------------------------------------------
\* What holds of the walk at every step: the keys already answered and the ones
\* waiting are all needed, and whatever an answered key depends on is answered
\* or waits.
Waits == \A k \in ToSet(closure) : ToSet(deps[k]) \subseteq ToSet(closure) \cup ToSet(queue)
Once == \A i, j \in 1..Len(closure) : i # j => closure[i] # closure[j]
DepsInv ==
  /\ DepsTypeOK
  /\ closure[1] = key
  /\ Once
  /\ ToSet(closure) \subseteq Needed
  /\ ToSet(queue) \subseteq Needed
  /\ Waits

LEMMA NeededFollows ==
  ASSUME DepsTypeOK
  PROVE  /\ key \in Needed /\ Needed \subseteq AsrKeys
         /\ \A k \in Needed : ToSet(deps[k]) \subseteq Needed
PROOF
<1>1. deps \in [AsrKeys -> Seq(AsrKeys)] /\ key \in AsrKeys BY AsrAssumption DEF DepsTypeOK
<1>2. key \in Needed /\ Needed \subseteq AsrKeys BY <1>1 DEF Needed
<1>3. ASSUME NEW k \in Needed, NEW d \in ToSet(deps[k]) PROVE d \in Needed
  <2>1. k \in AsrKeys /\ \A S \in SUBSET AsrKeys : key \in S /\ Closed(S) => k \in S
    BY <1>3 DEF Needed
  <2>2. deps[k] \in Seq(AsrKeys) BY <1>1, <2>1
  <2>3. d \in AsrKeys BY <1>3, <2>2 DEF ToSet
  <2>4. ASSUME NEW S \in SUBSET AsrKeys, key \in S, Closed(S) PROVE d \in S
    <3>1. k \in S BY <2>1, <2>4
    <3>2. ToSet(deps[k]) \subseteq S BY <2>4, <3>1 DEF Closed
    <3> QED BY <1>3, <3>2
  <2> QED BY <2>3, <2>4 DEF Needed
<1> QED BY <1>2, <1>3

LEMMA DepsStarts == DepsInit => DepsInv
PROOF
<1> SUFFICES ASSUME DepsInit PROVE DepsInv OBVIOUS
<1> USE DEF DepsInit
<1>1. deps \in [AsrKeys -> Seq(AsrKeys)] /\ key \in AsrKeys BY AsrAssumption
<1>2. closure = <<key>> /\ Len(closure) = 1 /\ closure[1] = key /\ closure \in Seq(AsrKeys)
  BY <1>1
<1>3. DepsTypeOK BY <1>1, <1>2 DEF DepsTypeOK
<1>4. ToSet(closure) = {key} BY <1>2 DEF ToSet
<1>5. Once BY <1>2 DEF Once
<1>6. key \in Needed /\ ToSet(deps[key]) \subseteq Needed BY <1>3, NeededFollows
<1>7. Waits BY <1>4 DEF Waits
<1> QED BY <1>2, <1>3, <1>4, <1>5, <1>6, <1>7 DEF DepsInv

LEMMA HeadAndRest ==
  ASSUME NEW s \in Keys, s # <<>>
  PROVE  /\ Head(s) \in AsrKeys /\ Tail(s) \in Keys
         /\ ToSet(s) = {Head(s)} \cup ToSet(Tail(s))
PROOF
<1>1. Len(s) \in Nat /\ Len(s) >= 1 /\ DOMAIN s = 1..Len(s) BY DEF Keys
<1>2. Head(s) = s[1] /\ s[1] \in AsrKeys BY <1>1 DEF Keys
<1>3. /\ Tail(s) \in Seq(AsrKeys) /\ Len(Tail(s)) = Len(s) - 1
      /\ \A i \in 1..(Len(s) - 1) : Tail(s)[i] = s[i + 1]
  BY HeadTailProperties DEF Keys
<1> DEFINE t == Tail(s)
<1> HIDE DEF t
<1>4. DOMAIN t = 1..(Len(s) - 1) BY <1>1, <1>3 DEF t
<1>5. \A i \in DOMAIN s : s[i] = s[1] \/ s[i] \in ToSet(t)
  <2> TAKE i \in DOMAIN s
  <2>1. CASE i = 1 BY <2>1
  <2>2. CASE i # 1
    <3>1. i - 1 \in DOMAIN t /\ t[i - 1] = s[i]
      <4>1. i - 1 \in 1..(Len(s) - 1) /\ (i - 1) + 1 = i BY <1>1, <2>2
      <4> QED BY <1>3, <1>4, <4>1 DEF t
    <3> QED BY <3>1 DEF ToSet
  <2> QED BY <2>1, <2>2
<1>6. \A i \in DOMAIN t : t[i] \in ToSet(s)
  <2> TAKE i \in DOMAIN t
  <2>1. i \in 1..(Len(s) - 1) /\ i + 1 \in DOMAIN s BY <1>1, <1>4
  <2> QED BY <1>3, <2>1 DEF ToSet, t
<1>7. s[1] \in ToSet(s) BY <1>1 DEF ToSet
<1>8. ToSet(s) = {s[1]} \cup ToSet(t) BY <1>5, <1>6, <1>7 DEF ToSet
<1> QED BY <1>2, <1>3, <1>8 DEF t, Keys

LEMMA AppendHolds ==
  ASSUME NEW s \in Keys, NEW k \in AsrKeys
  PROVE  /\ Append(s, k) \in Keys /\ Append(s, k) # <<>>
         /\ Len(Append(s, k)) = Len(s) + 1
         /\ Append(s, k)[Len(s) + 1] = k
         /\ \A i \in 1..Len(s) : Append(s, k)[i] = s[i]
         /\ ToSet(Append(s, k)) = ToSet(s) \cup {k}
PROOF
<1> DEFINE t == Append(s, k)
<1>1. /\ t \in Seq(AsrKeys) /\ t # <<>> /\ Len(t) = Len(s) + 1 /\ t[Len(s) + 1] = k
      /\ \A i \in 1..Len(s) : t[i] = s[i]
  BY AppendProperties DEF Keys
<1>2. Len(s) \in Nat /\ DOMAIN s = 1..Len(s) BY DEF Keys
<1> HIDE DEF t
<1>3. DOMAIN t = 1..(Len(s) + 1) BY <1>1
<1>4. \A i : i \in DOMAIN t <=> i \in DOMAIN s \/ i = Len(s) + 1 BY <1>2, <1>3
<1>5. ToSet(t) = ToSet(s) \cup {k} BY <1>1, <1>2, <1>4 DEF ToSet
<1> QED BY <1>1, <1>5 DEF t, Keys

LEMMA DepsKeeps == DepsInv /\ [DepsNext]_depsVars => DepsInv'
PROOF
<1> SUFFICES ASSUME DepsInv, [DepsNext]_depsVars PROVE DepsInv' OBVIOUS
<1>1. /\ DepsTypeOK /\ deps \in [AsrKeys -> Seq(AsrKeys)] /\ deps \in Graphs /\ key \in AsrKeys
      /\ queue \in Keys /\ closure \in Keys /\ closure # <<>>
  BY AsrAssumption DEF DepsInv, DepsTypeOK, Keys
<1>2. /\ closure[1] = key /\ Once /\ ToSet(closure) \subseteq Needed
      /\ ToSet(queue) \subseteq Needed /\ Waits
  BY DEF DepsInv
<1>3. /\ key \in Needed /\ Needed \subseteq AsrKeys
      /\ \A k \in Needed : ToSet(deps[k]) \subseteq Needed
  BY <1>1, NeededFollows
<1>4. CASE PopNew
  <2> DEFINE k == Head(queue)
             more == Fresh(deps[k], ToSet(closure'))
  <2>1. /\ queue # <<>> /\ k \notin ToSet(closure)
        /\ closure' = Append(closure, k) /\ queue' = Tail(queue) \o more
        /\ deps' = deps /\ key' = key
    BY <1>4 DEF PopNew, Unseen
  <2>2. k \in AsrKeys /\ Tail(queue) \in Keys /\ ToSet(queue) = {k} \cup ToSet(Tail(queue))
    BY <1>1, <2>1, HeadAndRest
  <2>3. deps[k] \in Keys BY <1>1, <2>2 DEF Keys
  <2>4. more \in Keys /\ ToSet(more) = ToSet(deps[k]) \ ToSet(closure') BY <2>3, FreshHolds
  <2> HIDE DEF k, more
  <2>5. /\ closure' \in Keys /\ closure' # <<>> /\ Len(closure') = Len(closure) + 1
        /\ closure'[Len(closure) + 1] = k /\ \A i \in 1..Len(closure) : closure'[i] = closure[i]
        /\ ToSet(closure') = ToSet(closure) \cup {k}
    BY <1>1, <2>1, <2>2, AppendHolds
  <2>6. queue' \in Keys /\ ToSet(queue') = ToSet(Tail(queue)) \cup ToSet(more)
    BY <2>1, <2>2, <2>4, ConcatHolds
  <2>7. Len(closure) \in Nat /\ Len(closure) >= 1 /\ DOMAIN closure = 1..Len(closure)
    BY <1>1 DEF Keys
  <2>8. Needed' = Needed BY <2>1 DEF Needed, Closed
  <2>9. DepsTypeOK' BY <1>1, <2>1, <2>5, <2>6 DEF DepsTypeOK, Keys
  <2>10. (closure[1] = key)' BY <1>2, <2>1, <2>5, <2>7
  <2>11. Once'
    <3> SUFFICES ASSUME NEW i \in 1..Len(closure'), NEW j \in 1..Len(closure'), i # j
                 PROVE  closure'[i] # closure'[j]
      BY DEF Once
    <3>1. \A n \in 1..Len(closure) : closure'[n] # k
      <4> TAKE n \in 1..Len(closure)
      <4>1. closure[n] \in ToSet(closure) BY <2>7 DEF ToSet
      <4> QED BY <2>1, <2>5, <4>1
    <3>2. \A n \in 1..Len(closure') : n \in 1..Len(closure) \/ n = Len(closure) + 1
      BY <2>5, <2>7
    <3>3. CASE i \in 1..Len(closure) /\ j \in 1..Len(closure) BY <1>2, <2>5, <3>3 DEF Once
    <3>4. CASE i = Len(closure) + 1 /\ j \in 1..Len(closure) BY <2>5, <3>1, <3>4
    <3>5. CASE j = Len(closure) + 1 /\ i \in 1..Len(closure) BY <2>5, <3>1, <3>5
    <3> QED BY <3>2, <3>3, <3>4, <3>5
  <2>12. k \in Needed /\ ToSet(deps[k]) \subseteq Needed BY <1>2, <1>3, <2>2
  <2>13. (ToSet(closure) \subseteq Needed)' BY <1>2, <2>5, <2>8, <2>12
  <2>14. (ToSet(queue) \subseteq Needed)' BY <1>2, <2>2, <2>4, <2>6, <2>8, <2>12
  <2>15. Waits'
    <3> SUFFICES ASSUME NEW m \in ToSet(closure'), NEW d \in ToSet(deps[m])
                 PROVE  d \in ToSet(closure') \cup ToSet(queue')
      BY <2>1 DEF Waits
    <3>1. CASE m = k BY <2>4, <2>6, <3>1
    <3>2. CASE m \in ToSet(closure)
      <4>1. d \in ToSet(closure) \cup ToSet(queue) BY <1>2, <3>2 DEF Waits
      <4> QED BY <2>2, <2>5, <2>6, <4>1
    <3> QED BY <2>5, <3>1, <3>2
  <2> QED BY <2>9, <2>10, <2>11, <2>13, <2>14, <2>15 DEF DepsInv
<1>5. CASE PopSeen
  <2> DEFINE k == Head(queue)
  <2>1. /\ queue # <<>> /\ k \in ToSet(closure) /\ queue' = Tail(queue)
        /\ deps' = deps /\ key' = key /\ closure' = closure
    BY <1>5 DEF PopSeen, Unseen
  <2>2. k \in AsrKeys /\ Tail(queue) \in Keys /\ ToSet(queue) = {k} \cup ToSet(Tail(queue))
    BY <1>1, <2>1, HeadAndRest
  <2> HIDE DEF k
  <2>3. Needed' = Needed BY <2>1 DEF Needed, Closed
  <2>4. DepsTypeOK' BY <1>1, <2>1, <2>2 DEF DepsTypeOK, Keys
  <2>5. Once' BY <1>2, <2>1 DEF Once
  <2>6. Waits'
    <3> SUFFICES ASSUME NEW m \in ToSet(closure), NEW d \in ToSet(deps[m])
                 PROVE  d \in ToSet(closure) \cup ToSet(queue')
      BY <2>1 DEF Waits
    <3>1. d \in ToSet(closure) \cup ToSet(queue) BY <1>2 DEF Waits
    <3> QED BY <2>1, <2>2, <3>1
  <2> QED BY <1>2, <2>1, <2>2, <2>3, <2>4, <2>5, <2>6 DEF DepsInv
<1>6. CASE UNCHANGED depsVars
  <2> USE <1>6 DEF depsVars
  <2>1. Needed' = Needed BY DEF Needed, Closed
  <2>2. DepsTypeOK' BY <1>1 DEF DepsTypeOK, Keys
  <2>3. Once' BY <1>2 DEF Once
  <2>4. Waits' BY <1>2 DEF Waits
  <2> QED BY <1>2, <2>1, <2>2, <2>3, <2>4 DEF DepsInv
<1> QED BY <1>4, <1>5, <1>6 DEF DepsNext

\* A walk that has ended has every model the key needs.
LEMMA DepsInvIsHonest == DepsInv => ConsentIsHonest
PROOF
<1> SUFFICES ASSUME DepsInv PROVE ConsentIsHonest OBVIOUS
<1>1. /\ DepsTypeOK /\ closure[1] = key /\ Once /\ ToSet(closure) \subseteq Needed /\ Waits
      /\ closure \in Keys /\ closure # <<>> /\ queue \in Keys
  BY DEF DepsInv, DepsTypeOK, Keys
<1>2. ASSUME queue = <<>> PROVE Needed \subseteq ToSet(closure)
  <2>1. ToSet(queue) = {} BY <1>2 DEF ToSet
  <2>2. Closed(ToSet(closure)) BY <1>1, <2>1 DEF Closed, Waits
  <2>3. key \in ToSet(closure)
    <3>1. 1 \in DOMAIN closure BY <1>1 DEF Keys
    <3> QED BY <1>1, <3>1 DEF ToSet
  <2>4. ToSet(closure) \in SUBSET AsrKeys BY <1>1 DEF Needed
  <2> QED BY <2>2, <2>3, <2>4 DEF Needed
<1>3. TotalSize(closure) = Cardinality(Bytes(ToSet(closure))) BY <1>1, TotalIsBytes DEF Once
<1>4. queue = <<>> => ToSet(closure) = Needed BY <1>1, <1>2
<1>5. RequiresToken(closure) <=> ToSet(closure) \cap Gated # {} BY DEF RequiresToken
<1> QED BY <1>1, <1>3, <1>4, <1>5 DEF ConsentIsHonest, Once

\* The walk keeps its types.
THEOREM DepsTypes == DepsSpec => []DepsTypeOK
PROOF
<1>1. DepsInv => DepsTypeOK BY DEF DepsInv
<1> QED BY <1>1, DepsStarts, DepsKeeps, PTL DEF DepsSpec

\* Whatever the registry's depends_on says, diamonds and cycles included, the
\* models a user is asked to consent to are the key and the ones it needs, each
\* once; the total shown is the size of that download, and the token is asked
\* for when one of them is gated.
THEOREM ConsentHolds == DepsSpec => []ConsentIsHonest
PROOF
BY DepsStarts, DepsKeeps, DepsInvIsHonest, PTL DEF DepsSpec

-----------------------------------------------------------------------------
(* The harness together.                                                      *)

\* The harness is its four parts: a behaviour of it is one of each of them, the
\* fairness of each included, so what is proved of a part holds of the whole.
THEOREM HarnessIsItsParts == MCSpec => CallSpec /\ ProbeSpec /\ EngineSpec /\ DepsSpec
PROOF
<1>1. MCInit => CallInit /\ ProbeInit /\ EngineInit /\ DepsInit
  BY DEF MCInit, IdleCall, IdleEngine, IdleDeps
<1> DEFINE vars == <<part, callVars, probeVars, engineVars, depsVars>>
<1>2. [MCNext]_vars => [CallNext]_callVars BY DEF MCNext
<1>3. [MCNext]_vars => [ProbeNext]_probeVars BY DEF MCNext
<1>4. [MCNext]_vars => [EngineNext]_engineVars BY DEF MCNext
<1>5. [MCNext]_vars => [DepsNext]_depsVars BY DEF MCNext
<1>6. MCSpec => CallSpec BY <1>1, <1>2, PTL DEF MCSpec, CallSpec
<1>7. MCSpec => ProbeSpec BY <1>1, <1>3, PTL DEF MCSpec, ProbeSpec
<1>8. MCSpec => EngineSpec BY <1>1, <1>4, PTL DEF MCSpec, EngineSpec
<1>9. MCSpec => DepsSpec BY <1>1, <1>5, PTL DEF MCSpec, DepsSpec
<1> QED BY <1>6, <1>7, <1>8, <1>9, PTL

\* The types of the whole harness, whatever part moves.
THEOREM HarnessTypes == MCSpec => []HarnessTypeOK
PROOF
<1>1. CallTypeOK /\ ProbeTypeOK /\ EngineTypeOK /\ DepsTypeOK => HarnessTypeOK
  BY DEF HarnessTypeOK
<1> QED
  BY <1>1, HarnessIsItsParts, CallTypesHold, ProbeTypesHold, EngineTypesHold, DepsTypes, PTL

\* Every promise of the harness at once: the ladder descends, a result says how
\* it was obtained, every request was checked, a scan reports the servers that
\* answered, a chosen model is kept, retries are bounded, and the consent asked
\* for is that of the download.
THEOREM HarnessIsSafe ==
  MCSpec => [](/\ LadderDescends /\ ResultIsHonest /\ FailsClosed
               /\ ReachableIffAnswered /\ OllamaIsProven
               /\ ChoiceIsKept /\ PickIsSound /\ RetriesAreSound /\ ResolutionIsSound
               /\ ConsentIsHonest)
PROOF
BY HarnessIsItsParts, LadderHolds, HonestyHolds, ClosedHolds, ReachableHolds, OllamaHolds,
   ChoiceHolds, PickHolds, RetriesHold, ResolutionHolds, ConsentHolds, PTL
=============================================================================
