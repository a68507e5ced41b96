------------------------ MODULE StructuredCallProofs ------------------------
(***************************************************************************)
(* What a structured call promises, for every set of adapters and          *)
(* endpoints, every policy and whatever servers and name service do.       *)
(***************************************************************************)
EXTENDS StructuredCallProps, TLAPS

\* What the ladder keeps: the rungs left are weaker than the ones tried, and each
\* request asked for the guarantee of its mode.
LadderInv ==
  /\ \A m \in todo : \A i \in 1..Len(sent) : Weaker(m, sent[i].mode)
  /\ LadderDescends
RequestsInv ==
  \A i \in 1..Len(sent) :
    /\ sent[i].mode \in adapter.supported
    /\ sent[i].guarantee = Guarantee(adapter.family, sent[i].mode)
\* Where `repaired` is in step with the number of requests.
RepairedInv ==
  /\ phase = "idle" => sent = <<>> /\ ~repaired
  /\ phase = "waiting" => (repaired <=> Len(sent) > 1)
  /\ phase \in {"rung", "ready"} => (repaired <=> Len(sent) > 0)
  /\ phase # "done" => outcome = NoOutcome

\* A host that has passed the check and has not moved is still allowed.
CheckedInv == AdapterChecks /\ phase = "ready" /\ ~moved => ValidateUrl(url, kinds)

CallInv == CallTypeOK /\ LadderInv /\ RequestsInv /\ RepairedInv /\ ResultIsHonest
           /\ CheckedInv /\ FailsClosed

\* The modes are ordered by strength.
LEMMA Order ==
  /\ Strength["native_schema"] = 1 /\ Strength["json_object"] = 2 /\ Strength["prompted"] = 3
  /\ \A m \in Rungs : Strength[m] \in Nat
  /\ \A m, n \in Rungs : m # n => Weaker(m, n) \/ Weaker(n, m)
  /\ \A m \in Rungs : ~Weaker(m, m)
  /\ \A l, m, n \in Rungs : Weaker(l, m) /\ Weaker(m, n) => Weaker(l, n)
PROOF BY DEF Strength, Rungs, Weaker

\* What an adapter declares.
LEMMA AdapterTypes ==
  ASSUME NEW a \in Adapters
  PROVE  a.family \in {"openai", "anthropic"} /\ a.best \in Modes /\ a.supported \in SUBSET Rungs
PROOF
<1>1. CASE \E m \in Modes : a = OpenAIAdapter(m) BY <1>1 DEF OpenAIAdapter, Downward
<1>2. CASE a \in [family : {"anthropic"}, best : Modes, supported : SUBSET Rungs] BY <1>2
<1> QED BY <1>1, <1>2, AdapterAssumption DEF Adapter

\* The promise of a mode is the guarantee the request asks for, except where an
\* Anthropic adapter is asked for a plain JSON object.
LEMMA PromiseKept ==
  ASSUME NEW a \in Adapters, NEW m \in a.supported
  PROVE  Guarantee(a.family, m) = Promise[m] <=> ~(a.family = "anthropic" /\ m = "json_object")
PROOF
<1>1. m \in Rungs /\ a.family \in {"openai", "anthropic"}
  BY AdapterTypes
<1>2. Promise["native_schema"] = "schema" /\ Promise["json_object"] = "json"
      /\ Promise["prompted"] = "nothing"
  BY DEF Promise
<1> QED BY <1>1, <1>2 DEF Rungs, Guarantee

LEMMA CallStarts == CallInit => CallInv
PROOF
<1> SUFFICES ASSUME CallInit PROVE CallInv OBVIOUS
<1>1. CallTypeOK
  <2>1. outcome \in [kind : Errors \cup {"pending", "result"}, mode : Modes, raw : Texts]
    BY DEF CallInit, NoOutcome, Modes, Texts
  <2>2. sent \in Seq(Sent) /\ todo \in SUBSET adapter.supported BY DEF CallInit
  <2> QED BY <2>1, <2>2 DEF CallInit, CallTypeOK
<1>2. Len(sent) = 0 BY DEF CallInit
<1>3. outcome.kind = "pending" BY DEF CallInit, NoOutcome
<1> QED BY <1>1, <1>2, <1>3 DEF CallInit, CallInv, LadderInv, LadderDescends, RequestsInv,
           RepairedInv, ResultIsHonest, CheckedInv, FailsClosed

\* A request goes out for the strongest rung left.
LEMMA PostKeeps ==
  ASSUME CallInv, phase = "ready", NEW mode \in Strongest(todo), PostAs(mode)
  PROVE  CallInv'
PROOF
<1> DEFINE new == [mode |-> mode, guarantee |-> Guarantee(adapter.family, mode),
                   allowed |-> ValidateUrl(url, kinds), moved |-> moved]
<1>1. mode \in todo /\ mode \in adapter.supported /\ mode \in Rungs
  BY AdapterTypes DEF CallInv, CallTypeOK, Strongest
<1>2. new \in Sent
  <2>1. Guarantee(adapter.family, mode) \in Guarantees BY DEF Guarantee, Guarantees
  <2>2. ValidateUrl(url, kinds) \in BOOLEAN BY DEF ValidateUrl
  <2>3. moved \in BOOLEAN BY DEF CallInv, CallTypeOK
  <2> QED BY <1>1, <2>1, <2>2, <2>3 DEF Sent
<1>3. sent \in Seq(Sent) /\ todo \subseteq Rungs
  BY AdapterTypes DEF CallInv, CallTypeOK
<1>4. sent' = Append(sent, new) /\ sent' \in Seq(Sent) /\ Len(sent') = Len(sent) + 1
      /\ sent'[Len(sent')] = new /\ \A i \in 1..Len(sent) : sent'[i] = sent[i]
  BY <1>2, <1>3 DEF PostAs
<1>5. CallTypeOK'
  BY <1>1, <1>4 DEF CallInv, CallTypeOK, PostAs
<1>6. \A i \in 1..Len(sent) : Weaker(mode, sent[i].mode)
  BY <1>1 DEF CallInv, LadderInv
<1>7. \A m \in todo' : Weaker(m, mode)
  <2> TAKE m \in todo'
  <2>1. m \in todo /\ m # mode /\ m \in Rungs BY <1>3 DEF PostAs
  <2>2. ~Weaker(mode, m) BY <2>1 DEF Strongest
  <2> QED BY <1>1, <2>1, <2>2, Order
<1>8. LadderInv'
  <2>1. \A m \in todo' : \A i \in 1..Len(sent') : Weaker(m, sent'[i].mode)
    <3> TAKE m \in todo'
    <3> TAKE i \in 1..Len(sent')
    <3>1. m \in todo BY DEF PostAs
    <3>2. CASE i = Len(sent') BY <3>2, <1>4, <1>7
    <3>3. CASE i # Len(sent')
      <4>1. i \in 1..Len(sent) BY <3>3, <1>3, <1>4
      <4> QED BY <3>1, <4>1, <1>4 DEF CallInv, LadderInv
    <3> QED BY <3>2, <3>3
  <2>2. LadderDescends'
    <3> SUFFICES ASSUME NEW i \in 1..Len(sent'), NEW j \in 1..Len(sent'), i < j
                 PROVE  Weaker(sent'[j].mode, sent'[i].mode)
      BY DEF LadderDescends, Weaker, Strength
    <3>1. i \in 1..Len(sent) BY <1>3, <1>4
    <3>2. CASE j = Len(sent') BY <3>1, <3>2, <1>4, <1>6
    <3>3. CASE j # Len(sent')
      <4>1. j \in 1..Len(sent) BY <3>3, <1>3, <1>4
      <4> QED BY <3>1, <4>1, <1>4 DEF CallInv, LadderInv, LadderDescends
    <3> QED BY <3>2, <3>3
  <2> QED BY <2>1, <2>2 DEF LadderInv, Weaker, Strength
<1>9. RequestsInv'
  <2> SUFFICES ASSUME NEW i \in 1..Len(sent')
               PROVE  sent'[i].mode \in adapter.supported
                      /\ sent'[i].guarantee = Guarantee(adapter.family, sent'[i].mode)
    BY DEF RequestsInv, PostAs, Guarantee
  <2>1. CASE i = Len(sent') BY <2>1, <1>1, <1>4
  <2>2. CASE i # Len(sent')
    <3>1. i \in 1..Len(sent) BY <2>2, <1>3, <1>4
    <3> QED BY <3>1, <1>4 DEF CallInv, RequestsInv
  <2> QED BY <2>1, <2>2
<1>10. RepairedInv'
  BY <1>3, <1>4 DEF CallInv, RepairedInv, PostAs, NoOutcome
<1>11. ResultIsHonest'
  <2>1. outcome'.kind = "pending" BY DEF CallInv, RepairedInv, PostAs, NoOutcome
  <2> QED BY <2>1 DEF ResultIsHonest
<1>12. FailsClosed'
  <2> SUFFICES ASSUME AdapterChecks, NEW i \in 1..Len(sent')
               PROVE  sent'[i].allowed \/ sent'[i].moved
    BY DEF FailsClosed
  <2>1. ValidateUrl(url, kinds) \/ moved BY DEF CallInv, CheckedInv
  <2>2. CASE i = Len(sent') BY <2>1, <2>2, <1>4
  <2>3. CASE i # Len(sent')
    <3>1. i \in 1..Len(sent) BY <2>3, <1>3, <1>4
    <3> QED BY <3>1, <1>4 DEF CallInv, FailsClosed
  <2> QED BY <2>2, <2>3
<1>13. CheckedInv' BY DEF CheckedInv, PostAs
<1> QED BY <1>5, <1>8, <1>9, <1>10, <1>11, <1>12, <1>13 DEF CallInv

\* The facts about the requests outlive a step that posts none.
LEMMA LadderStands ==
  ASSUME CallInv, UNCHANGED <<adapter, url, floor, todo, sent>>
  PROVE  /\ \A m \in todo' : \A i \in 1..Len(sent') : Weaker(m, sent'[i].mode)
         /\ LadderDescends' /\ RequestsInv' /\ FailsClosed'
PROOF BY DEF CallInv, LadderInv, LadderDescends, RequestsInv, FailsClosed, Guarantee, Weaker, Strength

\* A call that ends in an error, or still waits, has no result to be honest about.
LEMMA NoResult ==
  ASSUME outcome'.kind \notin {"result"}
  PROVE  ResultIsHonest'
PROOF BY DEF ResultIsHonest

LEMMA SelectKeeps == ASSUME CallInv, Select PROVE CallInv'
PROOF
<1>1. sent' = <<>> /\ Len(sent') = 0 /\ ~repaired' /\ adapter' = adapter /\ outcome = NoOutcome
  BY DEF Select, CallInv, RepairedInv
<1>2. \/ phase' = "done" /\ todo' = {}
         /\ outcome' \in {Error("EndpointRejected"), Error("StructuredOutputUnsupported")}
      \/ phase' = "rung" /\ todo' = RungsFrom(adapter.best, adapter.supported)
         /\ outcome' = NoOutcome /\ ~NoMode(adapter, floor)
  BY <1>1 DEF Select
<1>3. todo' \in SUBSET adapter.supported
  BY <1>2 DEF RungsFrom
<1>4. outcome' \in [kind : Errors \cup {"pending", "result"}, mode : Modes, raw : Texts]
      /\ outcome'.kind \notin {"result"}
  BY <1>2 DEF Error, NoOutcome, Errors, Documented, Modes, Texts
<1>5. CallTypeOK'
  BY <1>1, <1>2, <1>3, <1>4 DEF Select, CallInv, CallTypeOK
<1>6. LadderInv' /\ RequestsInv' /\ FailsClosed' /\ CheckedInv'
  BY <1>1, <1>2, <1>3 DEF LadderInv, LadderDescends, RequestsInv, FailsClosed, CheckedInv
<1>7. RepairedInv'
  BY <1>1, <1>2 DEF RepairedInv
<1> QED BY <1>4, <1>5, <1>6, <1>7, NoResult DEF CallInv

\* A step that ends the call with an error.
LEMMA ErrorKeeps ==
  ASSUME CallInv, UNCHANGED <<adapter, url, floor, todo, sent, repaired, kinds>>,
         moved' \in BOOLEAN, phase' = "done", NEW kind \in Errors, outcome' = Error(kind)
  PROVE  CallInv'
PROOF
<1>1. outcome' \in [kind : Errors \cup {"pending", "result"}, mode : Modes, raw : Texts]
      /\ outcome'.kind \notin {"result"}
  BY DEF Error, Errors, Documented, Modes, Texts
<1>2. CallTypeOK' BY <1>1 DEF CallInv, CallTypeOK
<1>3. LadderInv' /\ RequestsInv' /\ FailsClosed' /\ CheckedInv'
  BY LadderStands DEF LadderInv, CheckedInv
<1>4. RepairedInv' BY DEF RepairedInv
<1> QED BY <1>1, <1>2, <1>3, <1>4, NoResult DEF CallInv

LEMMA ExhaustedKeeps == ASSUME CallInv, Exhausted PROVE CallInv'
PROOF
<1>1. PICK kind \in {"AssertionError", "StructuredOutputUnsupported"} : outcome' = Error(kind)
  BY DEF Exhausted
<1>2. kind \in Errors /\ moved' \in BOOLEAN
  BY DEF Errors, Documented, Exhausted, CallInv, CallTypeOK
<1> QED BY <1>1, <1>2, ErrorKeeps DEF Exhausted

\* The adapter refuses the endpoint, or has just seen that it is allowed.
LEMMA CheckKeeps == ASSUME CallInv, CheckEndpoint PROVE CallInv'
PROOF
<1>1. moved' = FALSE /\ UNCHANGED <<adapter, url, floor, todo, sent, repaired, kinds>>
      /\ phase = "rung" /\ todo # {}
  BY DEF CheckEndpoint
<1>2. CASE AdapterRefuses
  <2>1. phase' = "done" /\ outcome' = Error("EndpointRejected") BY <1>2 DEF CheckEndpoint
  <2> QED BY <1>1, <2>1, ErrorKeeps DEF Errors, Documented
<1>3. CASE ~AdapterRefuses
  <2>1. phase' = "ready" /\ outcome' = outcome BY <1>3 DEF CheckEndpoint
  <2>2. CallTypeOK' BY <1>1, <2>1 DEF CallInv, CallTypeOK
  <2>3. LadderInv' /\ RequestsInv' /\ FailsClosed' BY <1>1, LadderStands DEF LadderInv
  <2>4. RepairedInv' BY <1>1, <2>1 DEF CallInv, RepairedInv, NoOutcome
  <2>5. CheckedInv' BY <1>1, <1>3 DEF CheckedInv, AdapterRefuses, ValidateUrl
  <2>6. outcome'.kind = "pending" BY <1>1, <2>1 DEF CallInv, RepairedInv, NoOutcome
  <2> QED BY <2>2, <2>3, <2>4, <2>5, <2>6, NoResult DEF CallInv
<1> QED BY <1>2, <1>3

LEMMA AnswerKeeps == ASSUME CallInv, Answer PROVE CallInv'
PROOF
<1> PICK r \in Reply : Take(ExtractText(adapter.family, Asked.mode, r))
  BY DEF Answer
<1> DEFINE text == ExtractText(adapter.family, Asked.mode, r)
<1>1. Take(text) /\ phase = "waiting" /\ UNCHANGED <<adapter, url, floor, todo, moved, sent, kinds>>
  BY DEF Answer
<1>2. text \in Texts \cup {"missing", "broken"} /\ moved' \in BOOLEAN
  BY <1>1 DEF ExtractText, Reply, Texts, CallInv, CallTypeOK
<1>3. sent \in Seq(Sent) /\ sent # <<>> /\ Len(sent) > 0 /\ Asked \in Sent
      /\ Asked = sent[Len(sent)] /\ Len(sent) \in 1..Len(sent)
  BY <1>1 DEF CallInv, CallTypeOK, Asked
<1>4. CASE text \in {"missing", "broken"}
  <2>1. PICK kind \in {"AttributeError", "MalformedReply"} : Finish(Error(kind))
    BY <1>1, <1>4 DEF Take
  <2> QED BY <1>1, <1>2, <2>1, ErrorKeeps DEF Finish, Errors
<1>5. CASE text \notin {"missing", "broken"} /\ Validates(text)
  <2>1. phase' = "done" /\ outcome' = Result(Asked.mode, text) /\ repaired' = repaired
    BY <1>1, <1>5 DEF Take, Finish
  <2>2. outcome' \in [kind : Errors \cup {"pending", "result"}, mode : Modes, raw : Texts]
    BY <1>2, <1>3, <1>5, <2>1 DEF Result, Sent, Modes
  <2>3. CallTypeOK' BY <1>1, <2>1, <2>2 DEF CallInv, CallTypeOK
  <2>4. LadderInv' /\ RequestsInv' /\ FailsClosed' /\ CheckedInv'
    BY <1>1, <2>1, LadderStands DEF LadderInv, CheckedInv
  <2>5. RepairedInv' BY <2>1 DEF RepairedInv
  <2>6. Asked.mode \in adapter.supported /\ Asked.guarantee = Guarantee(adapter.family, Asked.mode)
    BY <1>3 DEF CallInv, RequestsInv
  <2>7. Asked.guarantee = Promise[Asked.mode]
        <=> ~(adapter.family = "anthropic" /\ Asked.mode = "json_object")
    BY <2>6, PromiseKept DEF CallInv, CallTypeOK
  <2>8. repaired <=> Len(sent) > 1 BY <1>1 DEF CallInv, RepairedInv
  <2>9. Asked' = Asked BY <1>1 DEF Asked
  <2>10. outcome'.kind = "result" /\ outcome'.mode = Asked.mode /\ outcome'.raw = text
    BY <2>1 DEF Result
  <2>11. ResultIsHonest'
    BY <1>1, <1>5, <2>1, <2>7, <2>8, <2>9, <2>10
       DEF ResultIsHonest, Overridden, Validates, Promise
  <2> QED BY <2>3, <2>4, <2>5, <2>10, <2>11 DEF CallInv
<1>6. CASE text \notin {"missing", "broken"} /\ ~Validates(text)
  <2>1. phase' = "rung" /\ repaired' = TRUE /\ outcome' = NoOutcome
    BY <1>1, <1>6 DEF Take, DegradeLoudly, Degrade, CallInv, RepairedInv
  <2>2. outcome' = outcome BY <1>1, <2>1 DEF CallInv, RepairedInv
  <2>3. CallTypeOK' BY <1>1, <1>3, <2>1, <2>2 DEF CallInv, CallTypeOK
  <2>4. LadderInv' /\ RequestsInv' /\ FailsClosed' /\ CheckedInv'
    BY <1>1, <1>3, <2>1, LadderStands DEF LadderInv, CheckedInv
  <2>5. RepairedInv' BY <1>1, <1>3, <2>1 DEF RepairedInv
  <2>6. outcome'.kind = "pending" BY <2>1 DEF NoOutcome
  <2> QED BY <2>3, <2>4, <2>5, <2>6, NoResult DEF CallInv
<1> QED BY <1>4, <1>5, <1>6

\* A host that moves touches nothing the call has kept.
LEMMA HostKeeps == ASSUME CallInv, HostMoves PROVE CallInv'
PROOF
<1>1. CallTypeOK' BY DEF HostMoves, CallInv, CallTypeOK
<1>2. LadderInv' /\ RequestsInv' /\ FailsClosed'
  BY LadderStands DEF HostMoves, LadderInv, CallInv
<1>3. RepairedInv' BY DEF HostMoves, CallInv, RepairedInv, NoOutcome
<1>4. ResultIsHonest'
  BY DEF HostMoves, CallInv, ResultIsHonest, Overridden, Asked, Validates, Promise
<1>5. CheckedInv'
  BY DEF HostMoves, CallInv, CallTypeOK, CheckedInv, ValidateUrl
<1> QED BY <1>1, <1>2, <1>3, <1>4, <1>5 DEF CallInv

\* The inductive invariant holds in every reachable state.
THEOREM CallInvariantHolds == CallSpec => []CallInv
PROOF
<1>1. CallInv /\ [CallNext]_callVars => CallInv'
  <2> SUFFICES ASSUME CallInv, [CallNext]_callVars PROVE CallInv' OBVIOUS
  <2>1. CASE Select BY <2>1, SelectKeeps
  <2>2. CASE Post
    <3> PICK mode \in Strongest(todo) : PostAs(mode) BY <2>2 DEF Post
    <3> QED BY <2>2, PostKeeps DEF Post
  <2>3. CASE Exhausted BY <2>3, ExhaustedKeeps
  <2>4. CASE Answer BY <2>4, AnswerKeeps
  <2>5. CASE TransportFails
    BY <2>5, ErrorKeeps DEF TransportFails, Finish, Errors, Documented, CallInv, CallTypeOK
  <2>6. CASE HostMoves BY <2>6, HostKeeps
  <2>7. CASE UNCHANGED callVars
    <3>1. HostMoves BY <2>7 DEF callVars, HostMoves, CallInv, CallTypeOK
    <3> QED BY <3>1, HostKeeps
  <2>8. CASE CheckEndpoint BY <2>8, CheckKeeps
  <2> QED BY <2>8, <2>1, <2>2, <2>3, <2>4, <2>5, <2>6, <2>7 DEF CallNext
<1> QED BY CallStarts, <1>1, PTL DEF CallSpec

\* Types, and the ladder holds modes of the adapter only.
THEOREM CallTypesHold == CallSpec => []CallTypeOK
PROOF BY CallInvariantHolds, PTL DEF CallInv

\* Every request asks for less than the ones before it.
THEOREM LadderHolds == CallSpec => []LadderDescends
PROOF
<1>1. CallInv => LadderDescends BY DEF CallInv, LadderInv
<1> QED BY CallInvariantHolds, <1>1, PTL

\* A result names the mode of the request that was answered, which asked for that
\* mode's guarantee unless the adapter was overridden; repaired is true of it.
THEOREM HonestyHolds == CallSpec => []ResultIsHonest
PROOF BY CallInvariantHolds, PTL DEF CallInv

\* A request leaves for a host the policy refuses only if the host moved between
\* the check of that very request and its POST.
THEOREM ClosedHolds == CallSpec => []FailsClosed
PROOF BY CallInvariantHolds, PTL DEF CallInv
=============================================================================
