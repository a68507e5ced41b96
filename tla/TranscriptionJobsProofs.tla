----------------------- MODULE TranscriptionJobsProofs -----------------------
(***************************************************************************)
(* Theorems about TranscriptionJobs, for any jobs, files, concurrent       *)
(* requests and engines, across every deletion, reload and restart.        *)
(***************************************************************************)
EXTENDS TranscriptionJobsProps, TLAPS

(* The inductive invariant, part by part. *)

\* Points at which a task has a job; at "whisper", "diarize" and "align" it may
\* be a preload.
Serving == {"auto", "manual", "seed", "fetch", "begin", "engine", "hear", "decode", "label",
            "store", "fail", "unload"}

\* The status of the i-th job of a task that has come to point p.
Allowed(p, i) ==
  IF i > 1 \/ p \notin InHand \cup {"unload"} THEN {"queued", "deleted"}
  ELSE IF p = "unload" THEN {"completed", "failed", "deleted"}
  ELSE {"processing", "deleted"}

QueueInv ==
  \A t \in Tasks :
    /\ tpc[t] = "free" => todo[t] = <<>>
    /\ tpc[t] \in Serving => todo[t] # <<>>
    /\ \A i \in 1..Len(todo[t]) : row[todo[t][i]] \in Allowed(tpc[t], i)

\* The two halves of ProcessingIsInHand.
HandInv == \A j \in accepted : row[j] = "processing" =>
             \E t \in Tasks : todo[t] # <<>> /\ Job(t) = j /\ tpc[t] \in InHand
ApartInv == \A t, u \in Tasks : \A i \in 1..Len(todo[t]), k \in 1..Len(todo[u]) :
              todo[t][i] = todo[u][k] => t = u /\ i = k

\* A file that a job is to read is there, unless its owner is being deleted.
KeptIn(f, there, going, status) ==
  f \in there \/ (f \in Jobs /\ (f \in going \/ status[f] = "deleted"))
Kept(f) == KeptIn(f, files, deleting, row)
AudioInv ==
  /\ \A j \in accepted : Kept(source[j]) /\ row[j] # "absent"
  /\ \A j \in deleting : Present(j)
  /\ \A t \in Tasks :
       /\ tpc[t] = "auto" => source[Job(t)] = Job(t)
       /\ tpc[t] = "batch" => /\ \A f \in pending[t] : Kept(f)
                              /\ \A i \in 1..Len(todo[t]) : Kept(source[todo[t][i]])

IInv == TypeOK /\ QueueInv /\ HandInv /\ ApartInv /\ AudioInv

-----------------------------------------------------------------------------
(* Facts about one task. *)

\* The current job of a task and those after it.
LEMMA JobFacts ==
  ASSUME TypeOK, NEW t \in Tasks, todo[t] # <<>>
  PROVE  /\ Job(t) \in Jobs /\ 1 \in 1..Len(todo[t]) /\ todo[t][1] = Job(t)
         /\ Remaining(t) \in Seq(Jobs)
         /\ Len(Remaining(t)) = Len(todo[t]) - 1
         /\ \A i \in 1..Len(Remaining(t)) : i + 1 \in 1..Len(todo[t]) /\ Remaining(t)[i] = todo[t][i+1]
PROOF
<1>1. todo[t] \in Seq(Jobs) BY DEF TypeOK
<1> QED BY <1>1 DEF Job, Remaining

LEMMA AllowedFacts ==
  /\ \A p \in InHand : Allowed(p, 1) = {"processing", "deleted"}
  /\ Allowed("unload", 1) = {"completed", "failed", "deleted"}
  /\ \A p \in Points \ (InHand \cup {"unload"}) : Allowed(p, 1) = {"queued", "deleted"}
BY DEF Allowed, InHand, Points

LEMMA EntryIsJob ==
  ASSUME TypeOK, NEW t \in Tasks, NEW i \in 1..Len(todo[t])
  PROVE  todo[t][i] \in Jobs
PROOF
<1>1. todo[t] \in Seq(Jobs) BY DEF TypeOK
<1> QED BY <1>1

\* Steps of a task that touch neither rows nor files: the engine's work on the job in
\* hand, and preloading.
Works(t, p) ==
  /\ tpc' = [tpc EXCEPT ![t] = p] /\ p \in Points
  /\ UNCHANGED <<row, error, segs, files, source, accepted, deleting, todo, pending>>
  /\ todo[t] # <<>> => tpc[t] \in InHand /\ p \in InHand
  /\ todo[t] = <<>> => tpc[t] \notin Serving /\ p \in {"free", "whisper", "diarize", "align"}
EngineStep(t) ==
  \/ TakeEngine(t) \/ NoEngine(t) \/ Hear(t) \/ Decode(t) \/ Label(t) \/ Preload(t)
  \/ \E kind \in ModelKinds : Load(t, kind) \/ LoadFails(t, kind)

LEMMA EngineWorks ==
  ASSUME QueueInv, NEW t \in Tasks, EngineStep(t)
  PROVE  \E p \in Points : Works(t, p)
PROOF
<1> USE DEF rowVars, diskVars, Goto, Works, Points, InHand, Serving
<1>q. (tpc[t] = "free" => todo[t] = <<>>) /\ (tpc[t] \in Serving => todo[t] # <<>>) BY DEF QueueInv
<1>1. CASE TakeEngine(t) BY <1>1, <1>q DEF TakeEngine
<1>2. CASE NoEngine(t) BY <1>2, <1>q DEF NoEngine, Raise
<1>3. CASE Hear(t) BY <1>3, <1>q DEF Hear
<1>4. CASE Decode(t) BY <1>4, <1>q DEF Decode, Use, Raise
<1>5. CASE Label(t) BY <1>5, <1>q DEF Label, Use, Raise
<1>6. CASE Preload(t) BY <1>6, <1>q DEF Preload
<1>7. ASSUME NEW kind \in ModelKinds, Load(t, kind) PROVE \E p \in Points : Works(t, p)
  BY <1>7, <1>q DEF Load, ModelKinds, Unloaded, Afterwards, Preloaded
<1>8. ASSUME NEW kind \in ModelKinds, LoadFails(t, kind) PROVE \E p \in Points : Works(t, p)
  BY <1>8, <1>q DEF LoadFails, ModelKinds, Unloaded, Preloaded, Raise
<1> QED BY <1>1, <1>2, <1>3, <1>4, <1>5, <1>6, <1>7, <1>8 DEF EngineStep

\* The other steps of a task.
JobStep(t) ==
  \/ \E j \in Jobs, mode \in {"auto", "manual"} : Upload(t, j, mode)
  \/ BatchList(t) \/ UploadFails(t) \/ Persist(t) \/ Seed(t)
  \/ \E j \in Jobs, f \in Files : BatchAdd(t, j, f)
  \/ BatchAnswer(t) \/ FetchNothing(t) \/ Fetch(t) \/ Begin(t) \/ Store(t) \/ Fail(t) \/ Unload(t)
LEMMA NextCases ==
  Next => \/ \E t \in Tasks : EngineStep(t) \/ JobStep(t)
          \/ \E j \in Jobs : DeleteFiles(j) \/ DeleteRow(j)
          \/ Reload \/ Enroll \/ Restart
BY DEF Next, ColdNext, Request, Batch, Serve, Delete, EngineStep, JobStep

-----------------------------------------------------------------------------
(* Types. *)

LEMMA EngineTypes ==
  ASSUME TypeOK, NEW t \in Tasks, EngineStep(t), NEW p \in Points, Works(t, p)
  PROVE  TypeOK'
PROOF
<1> USE DEF TypeOK, engineVars, Causes, ModelKinds, Unloaded
<1>w. /\ tpc' \in [Tasks -> Points]
      /\ UNCHANGED <<row, error, segs, files, source, accepted, deleting, todo, pending>>
  BY DEF Works
<1>b. Build => built' \in 0..MaxEngines /\ engine' \in Engines
  BY EnginesAssumption DEF Build, Engines
<1>g. GetEngine(t) => /\ built' \in 0..MaxEngines /\ engine' \in Engines \cup {None}
                      /\ using' \in [Tasks -> Engines \cup {None}]
  BY <1>b DEF GetEngine
<1>1. CASE TakeEngine(t) \/ Preload(t) BY <1>1, <1>w, <1>g DEF TakeEngine, Preload
<1>2. CASE NoEngine(t) BY <1>2, <1>w DEF NoEngine, Raise
<1>3. CASE Hear(t) BY <1>3, <1>w DEF Hear
<1>4. CASE Decode(t) \/ Label(t) BY <1>4, <1>w DEF Decode, Label, Use, Raise
<1>5. ASSUME NEW kind \in ModelKinds, Load(t, kind) PROVE TypeOK'
  <2>1. loaded' \in [Engines -> SUBSET ModelKinds] BY <1>5 DEF Load, Keep
  <2>2. using' \in [Tasks -> Engines \cup {None}] BY <1>5 DEF Load, Preloaded
  <2> QED BY <1>5, <1>w, <2>1, <2>2 DEF Load
<1>6. ASSUME NEW kind \in ModelKinds, LoadFails(t, kind) PROVE TypeOK'
  <2>2. using' \in [Tasks -> Engines \cup {None}] BY <1>6 DEF LoadFails, Preloaded
  <2>3. caught' \in [Tasks -> Causes] BY <1>6 DEF LoadFails, Raise
  <2> QED BY <1>6, <1>w, <2>2, <2>3 DEF LoadFails
<1> QED BY <1>1, <1>2, <1>3, <1>4, <1>5, <1>6 DEF EngineStep

LEMMA JobTypes ==
  ASSUME TypeOK, QueueInv, NEW t \in Tasks, JobStep(t)
  PROVE  TypeOK'
PROOF
<1> USE DEF rowVars, diskVars, taskVars, engineVars, Goto
<1>q. tpc[t] \in Serving => todo[t] # <<>> BY DEF QueueInv
<1>j. todo[t] # <<>> => Job(t) \in Jobs /\ Job(t) \in Files /\ Remaining(t) \in Seq(Jobs)
  BY JobFacts DEF Files
<1>e. <<>> \in Seq(Jobs) /\ \A j \in Jobs : <<j>> \in Seq(Jobs) /\ Append(todo[t], j) \in Seq(Jobs)
  BY DEF TypeOK
<1>1. ASSUME NEW j \in Jobs, NEW mode \in {"auto", "manual"}, Upload(t, j, mode) PROVE TypeOK'
  BY <1>1, <1>e DEF Upload, NewRow, TypeOK, Points, Files
<1>2. CASE BatchList(t) BY <1>2 DEF BatchList, TypeOK, Points
<1>3. CASE UploadFails(t) BY <1>3, <1>e DEF UploadFails, TypeOK, Points
<1>4. CASE Persist(t) BY <1>4, <1>q, <1>j DEF Persist, TypeOK, Points, Serving
<1>5. CASE Seed(t) BY <1>5, <1>q, <1>j, <1>e DEF Seed, Publish, TypeOK, Points, Serving
<1>6. ASSUME NEW j \in Jobs, NEW f \in Files, BatchAdd(t, j, f) PROVE TypeOK'
  BY <1>6, <1>e DEF BatchAdd, NewRow, TypeOK
<1>7. CASE BatchAnswer(t)
  <2>1. accepted' \in SUBSET Jobs BY <1>7, EntryIsJob DEF BatchAnswer, TypeOK
  <2> QED BY <1>7, <2>1 DEF BatchAnswer, TypeOK, Points
<1>8. CASE FetchNothing(t) BY <1>8 DEF FetchNothing, TypeOK, Points
<1>9. CASE Fetch(t) BY <1>9 DEF Fetch, TypeOK, Points
<1>10. CASE Begin(t) BY <1>10 DEF Begin, Escape, TypeOK, Points
<1>11. CASE Store(t) BY <1>11, <1>q, <1>j DEF Store, Publish, Escape, TypeOK, Points, Serving
<1>12. CASE Fail(t) BY <1>12 DEF Fail, RecordFailure, Escape, TypeOK, Points, Causes
<1>13. CASE Unload(t)
  <2>1. loaded' \in [Engines -> SUBSET ModelKinds] BY <1>13 DEF Unload, Free, TypeOK
  <2>2. built' \in 0..MaxEngines /\ engine' \in Engines \cup {None}
    BY <1>13, EnginesAssumption DEF Unload, Build, TypeOK, Engines
  <2>3. todo' \in [Tasks -> Seq(Jobs)] BY <1>13, <1>q, <1>j, <1>e DEF Unload, TypeOK, Serving
  <2>4. tpc' \in [Tasks -> Points] BY <1>13 DEF Unload, TypeOK, Points
  <2> QED BY <1>13, <2>1, <2>2, <2>3, <2>4 DEF Unload, TypeOK
<1> QED BY <1>1, <1>2, <1>3, <1>4, <1>5, <1>6, <1>7, <1>8, <1>9, <1>10, <1>11, <1>12, <1>13
        DEF JobStep

LEMMA OtherTypes ==
  ASSUME TypeOK, Reload \/ Enroll \/ Restart \/ (\E j \in Jobs : DeleteFiles(j) \/ DeleteRow(j))
                 \/ UNCHANGED vars
  PROVE  TypeOK'
PROOF
<1> USE DEF rowVars, diskVars, taskVars, engineVars, TypeOK
<1>1. CASE Reload
  <2>1. loaded' \in [Engines -> SUBSET ModelKinds] BY <1>1 DEF Reload
  <2>2. built' \in 0..MaxEngines /\ engine' \in Engines \cup {None}
    BY <1>1, EnginesAssumption DEF Reload, Build, Engines
  <2> QED BY <1>1, <2>1, <2>2 DEF Reload
<1>2. CASE Restart BY <1>2, EnginesAssumption DEF Restart, Points, Causes
<1>3. ASSUME NEW j \in Jobs, DeleteFiles(j) PROVE TypeOK' BY <1>3 DEF DeleteFiles, Unlink
<1>4. ASSUME NEW j \in Jobs, DeleteRow(j) PROVE TypeOK' BY <1>4 DEF DeleteRow
<1>5. CASE UNCHANGED vars BY <1>5 DEF vars
<1>6. CASE Enroll
  <2>1. built' \in 0..MaxEngines /\ engine' \in Engines \cup {None}
    BY <1>6, EnginesAssumption DEF Enroll, Build, Engines
  <2>2. PICK kinds \in SUBSET ModelKinds : loaded' = [loaded EXCEPT ![engine'] = @ \cup kinds]
    BY <1>6 DEF Enroll, ModelKinds, Unloaded
  <2>3. loaded' \in [Engines -> SUBSET ModelKinds] BY <2>2
  <2> QED BY <1>6, <2>1, <2>3 DEF Enroll
<1> QED BY <1>1, <1>2, <1>3, <1>4, <1>5, <1>6

-----------------------------------------------------------------------------
(* What each step does to the queues: a row changes only for the job in hand, or  *)
(* for one that no task has.                                                  *)

\* A step of one task, in terms of the rows its queue may be left with.
LEMMA QueueKept ==
  ASSUME TypeOK, QueueInv, ApartInv, NEW t \in Tasks, NEW p \in Points, NEW q \in Seq(Jobs),
         tpc' = [tpc EXCEPT ![t] = p], todo' = [todo EXCEPT ![t] = q],
         \A u \in Tasks \ {t} : \A i \in 1..Len(todo[u]) : row'[todo[u][i]] = row[todo[u][i]],
         p = "free" => q = <<>>, p \in Serving => q # <<>>,
         \A i \in 1..Len(q) : row'[q[i]] \in Allowed(p, i),
         \A i, k \in 1..Len(q) : q[i] = q[k] => i = k,
         \A u \in Tasks \ {t} : \A i \in 1..Len(todo[u]), k \in 1..Len(q) : todo[u][i] # q[k]
  PROVE  QueueInv' /\ ApartInv'
PROOF
<1>1. \A u \in Tasks : /\ tpc'[u] = IF u = t THEN p ELSE tpc[u]
                       /\ todo'[u] = IF u = t THEN q ELSE todo[u]
  BY DEF TypeOK
<1>2. QueueInv' BY <1>1 DEF QueueInv
<1>3. ApartInv' BY <1>1 DEF ApartInv
<1> QED BY <1>2, <1>3

\* A step that changes the row of the job in hand at most.
LEMMA HeadKept ==
  ASSUME TypeOK, QueueInv, ApartInv, NEW t \in Tasks, NEW p \in Points, todo[t] # <<>>,
         tpc' = [tpc EXCEPT ![t] = p], todo' = todo, p # "free",
         \A j \in Jobs \ {Job(t)} : row'[j] = row[j],
         row'[Job(t)] \in Allowed(p, 1)
  PROVE  QueueInv' /\ ApartInv'
PROOF
<1>1. todo' = [todo EXCEPT ![t] = todo[t]] /\ todo[t] \in Seq(Jobs) BY DEF TypeOK
<1>2. \A u \in Tasks \ {t} : \A i \in 1..Len(todo[u]) : row'[todo[u][i]] = row[todo[u][i]]
  BY JobFacts, EntryIsJob DEF ApartInv
<1>3. ASSUME NEW i \in 1..Len(todo[t]), i # 1 PROVE row'[todo[t][i]] \in Allowed(p, i)
  <2>1. row'[todo[t][i]] = row[todo[t][i]] BY <1>3, JobFacts, EntryIsJob DEF ApartInv
  <2>2. i > 1 BY <1>3, <1>1
  <2> QED BY <2>1, <2>2 DEF QueueInv, Allowed
<1>4. row'[todo[t][1]] \in Allowed(p, 1) BY JobFacts
<1>5. ASSUME NEW i \in 1..Len(todo[t]) PROVE row'[todo[t][i]] \in Allowed(p, i)
  <2>1. CASE i = 1 BY <1>4, <2>1
  <2>2. CASE i # 1 BY <1>3, <2>2
  <2> QED BY <2>1, <2>2
<1>6. /\ \A i, k \in 1..Len(todo[t]) : todo[t][i] = todo[t][k] => i = k
      /\ \A u \in Tasks \ {t} : \A i \in 1..Len(todo[u]), k \in 1..Len(todo[t]) : todo[u][i] # todo[t][k]
  BY DEF ApartInv
<1> QED BY <1>1, <1>2, <1>5, <1>6, QueueKept

\* A task that ends what it does.
LEMMA QueueEmptied ==
  ASSUME TypeOK, QueueInv, ApartInv, NEW t \in Tasks,
         tpc' = [tpc EXCEPT ![t] = "free"], todo' = [todo EXCEPT ![t] = <<>>],
         \A u \in Tasks \ {t} : \A i \in 1..Len(todo[u]) : row'[todo[u][i]] = row[todo[u][i]]
  PROVE  QueueInv' /\ ApartInv'
PROOF
<1>1. <<>> \in Seq(Jobs) /\ Len(<<>>) = 0 /\ 1..0 = {} OBVIOUS
<1> QED BY <1>1, QueueKept DEF Points, Serving

LEMMA EngineQueues ==
  ASSUME TypeOK, QueueInv, ApartInv, NEW t \in Tasks, NEW p \in Points, Works(t, p)
  PROVE  QueueInv' /\ ApartInv'
PROOF
<1>1. CASE todo[t] # <<>>
  <2>1. row'[Job(t)] \in Allowed(p, 1)
    <3>1. row[Job(t)] \in Allowed(tpc[t], 1) BY <1>1, JobFacts DEF QueueInv
    <3> QED BY <1>1, <3>1, AllowedFacts DEF Works
  <2> QED BY <1>1, <2>1, HeadKept DEF Works, InHand
<1>2. CASE todo[t] = <<>>
  <2>1. /\ todo' = [todo EXCEPT ![t] = <<>>] /\ <<>> \in Seq(Jobs) /\ Len(<<>>) = 0 /\ 1..0 = {}
        /\ row' = row
    BY <1>2 DEF Works, TypeOK
  <2> QED BY <1>2, <2>1, QueueKept DEF Works, Serving
<1> QED BY <1>1, <1>2

\* A new row is of a job that no task has.
LEMMA NewRowFacts ==
  ASSUME TypeOK, QueueInv, NEW j \in Jobs, NEW f, NewRow(j, f)
  PROVE  /\ \A u \in Tasks : \A i \in 1..Len(todo[u]) :
              todo[u][i] # j /\ row'[todo[u][i]] = row[todo[u][i]]
         /\ row'[j] = "queued" /\ \A k \in Jobs \ {j} : row'[k] = row[k]
PROOF
<1>1. \A u \in Tasks : \A i \in 1..Len(todo[u]) : row[todo[u][i]] # "absent"
  BY DEF QueueInv, Allowed
<1>2. \A u \in Tasks : \A i \in 1..Len(todo[u]) : todo[u][i] # j
  BY <1>1 DEF NewRow
<1>3. row' = [row EXCEPT ![j] = "queued"] BY DEF NewRow
<1> QED BY <1>2, <1>3, EntryIsJob DEF TypeOK

\* A row changed by a task is its current job's.
LEMMA PublishFacts ==
  ASSUME TypeOK, NEW j \in Jobs, NEW heard, Publish(j, heard), row[j] \in {"queued", "processing", "deleted"}
  PROVE  row'[j] \in {"completed", "deleted"} /\ \A k \in Jobs \ {j} : row'[k] = row[k]
BY DEF Publish, Present, TypeOK, rowVars

LEMMA JobQueues ==
  ASSUME TypeOK, QueueInv, ApartInv, NEW t \in Tasks, JobStep(t)
  PROVE  QueueInv' /\ ApartInv'
PROOF
<1> USE DEF rowVars, diskVars, taskVars, engineVars, Goto, Points
<1>q. (tpc[t] \in Serving => todo[t] # <<>>) /\ (tpc[t] = "free" => todo[t] = <<>>) BY DEF QueueInv
<1>j. todo[t] # <<>> => Job(t) \in Jobs /\ row[Job(t)] \in Allowed(tpc[t], 1)
  BY JobFacts DEF QueueInv
<1>o. todo[t] # <<>> => \A u \in Tasks \ {t} : \A i \in 1..Len(todo[u]) : todo[u][i] \in Jobs \ {Job(t)}
  <2> SUFFICES ASSUME todo[t] # <<>>, NEW u \in Tasks \ {t}, NEW i \in 1..Len(todo[u])
                PROVE  todo[u][i] \in Jobs \ {Job(t)}
    OBVIOUS
  <2>1. todo[u][i] \in Jobs BY EntryIsJob
  <2>2. 1 \in 1..Len(todo[t]) /\ Job(t) = todo[t][1] BY JobFacts
  <2>3. todo[u][i] # todo[t][1] BY <2>2 DEF ApartInv
  <2> QED BY <2>1, <2>2, <2>3
<1>1. ASSUME NEW j \in Jobs, NEW mode \in {"auto", "manual"}, Upload(t, j, mode)
      PROVE  QueueInv' /\ ApartInv'
  <2>1. <<j>> \in Seq(Jobs) /\ Len(<<j>>) = 1 /\ <<j>>[1] = j /\ 1..1 = {1} /\ <<j>> # <<>> OBVIOUS
  <2>2. row'[j] \in Allowed(mode, 1) BY <1>1, NewRowFacts DEF Upload, Allowed, InHand
  <2>3. \A i \in 1..Len(<<j>>) : row'[<<j>>[i]] \in Allowed(mode, i) BY <2>1, <2>2
  <2>4. \A u \in Tasks \ {t} : \A i \in 1..Len(todo[u]), k \in 1..Len(<<j>>) : todo[u][i] # <<j>>[k]
    BY <1>1, <2>1, NewRowFacts DEF Upload
  <2>5. \A u \in Tasks \ {t} : \A i \in 1..Len(todo[u]) : row'[todo[u][i]] = row[todo[u][i]]
    BY <1>1, NewRowFacts DEF Upload
  <2>6. \A i, k \in 1..Len(<<j>>) : <<j>>[i] = <<j>>[k] => i = k BY <2>1
  <2>7. tpc' = [tpc EXCEPT ![t] = mode] /\ todo' = [todo EXCEPT ![t] = <<j>>] BY <1>1 DEF Upload
  <2> QED BY <2>1, <2>3, <2>4, <2>5, <2>6, <2>7, QueueKept
<1>2. CASE BatchList(t)
  <2>1. /\ todo' = [todo EXCEPT ![t] = <<>>] /\ <<>> \in Seq(Jobs) /\ Len(<<>>) = 0 /\ 1..0 = {}
        /\ row' = row /\ tpc' = [tpc EXCEPT ![t] = "batch"]
    BY <1>2, <1>q DEF BatchList, TypeOK
  <2> QED BY <2>1, QueueKept DEF Serving
<1>3. CASE UploadFails(t) BY <1>3, QueueEmptied DEF UploadFails
<1>4. CASE Persist(t)
  <2>1. PICK p \in {"seed", "fetch"} : tpc' = [tpc EXCEPT ![t] = p] BY <1>4 DEF Persist
  <2>2. row'[Job(t)] \in Allowed(p, 1)
    BY <1>4, <1>q, <1>j DEF Persist, Serving, Allowed, InHand
  <2> QED BY <1>4, <1>q, <2>1, <2>2, HeadKept DEF Persist, Serving
<1>5. CASE Seed(t)
  <2>1. row[Job(t)] \in {"queued", "deleted"} /\ Job(t) \in Jobs /\ todo[t] # <<>>
    BY <1>5, <1>q, <1>j DEF Seed, Serving, Allowed, InHand
  <2>2. \A k \in Jobs \ {Job(t)} : row'[k] = row[k] BY <1>5, <2>1, PublishFacts DEF Seed
  <2> QED BY <1>5, <1>o, <2>1, <2>2, QueueEmptied DEF Seed
<1>6. ASSUME NEW j \in Jobs, NEW f \in Files, BatchAdd(t, j, f) PROVE QueueInv' /\ ApartInv'
  <2> DEFINE q == Append(todo[t], j)
  <2>1. todo[t] \in Seq(Jobs) BY DEF TypeOK
  <2>2. /\ q \in Seq(Jobs) /\ Len(q) = Len(todo[t]) + 1 /\ q[Len(q)] = j /\ Len(q) \in Nat
        /\ \A i \in 1..Len(todo[t]) : q[i] = todo[t][i]
        /\ \A i \in 1..Len(q) : i = Len(q) \/ i \in 1..Len(todo[t])
    BY <2>1
  <2>3. NewRow(j, f) /\ tpc[t] = "batch" /\ todo' = [todo EXCEPT ![t] = q] /\ tpc' = [tpc EXCEPT ![t] = "batch"]
    BY <1>6 DEF BatchAdd, TypeOK
  <2> HIDE DEF q
  <2>4. \A i \in 1..Len(todo[t]) : row[todo[t][i]] \in {"queued", "deleted"}
    BY <2>3 DEF QueueInv, Allowed, InHand
  <2>5. \A i \in 1..Len(q) : row'[q[i]] \in Allowed("batch", i)
    BY <2>2, <2>3, <2>4, NewRowFacts DEF Allowed, InHand
  <2>6. \A i, k \in 1..Len(q) : q[i] = q[k] => i = k
    BY <2>2, <2>3, NewRowFacts DEF ApartInv
  <2>7. \A u \in Tasks \ {t} : \A i \in 1..Len(todo[u]), k \in 1..Len(q) : todo[u][i] # q[k]
    BY <2>2, <2>3, NewRowFacts DEF ApartInv
  <2>8. \A u \in Tasks \ {t} : \A i \in 1..Len(todo[u]) : row'[todo[u][i]] = row[todo[u][i]]
    BY <2>3, NewRowFacts
  <2>9. "batch" # "free" /\ "batch" \notin Serving BY DEF Serving
  <2> QED BY <2>2, <2>3, <2>5, <2>6, <2>7, <2>8, <2>9, QueueKept
<1>7. CASE BatchAnswer(t)
  <2>1. CASE todo[t] = <<>> BY <1>7, <2>1, QueueEmptied DEF BatchAnswer, TypeOK
  <2>2. CASE todo[t] # <<>>
    <3>1. row'[Job(t)] \in Allowed("fetch", 1)
      BY <1>7, <1>j, <2>2 DEF BatchAnswer, Allowed, InHand
    <3> QED BY <1>7, <2>2, <3>1, HeadKept DEF BatchAnswer
  <2> QED BY <2>1, <2>2
<1>8. CASE FetchNothing(t)
  <2>1. row'[Job(t)] \in Allowed("unload", 1) /\ todo[t] # <<>>
    BY <1>8, <1>q, <1>j DEF FetchNothing, Serving, Present, Allowed, InHand
  <2> QED BY <1>8, <2>1, HeadKept DEF FetchNothing
<1>9. CASE Fetch(t)
  <2>1. row'[Job(t)] \in Allowed("begin", 1) /\ todo[t] # <<>>
    BY <1>9, <1>q, <1>j DEF Fetch, Serving, Allowed, InHand
  <2> QED BY <1>9, <2>1, HeadKept DEF Fetch
<1>10. CASE Begin(t)
  <2>1. row[Job(t)] \in {"queued", "deleted"} /\ todo[t] # <<>> /\ Job(t) \in Jobs
    BY <1>10, <1>q, <1>j DEF Begin, Serving, Allowed, InHand
  <2>2. CASE RowThere(Job(t))
    <3>1. /\ tpc' = [tpc EXCEPT ![t] = "engine"] /\ row'[Job(t)] = "processing" /\ todo' = todo
          /\ \A j \in Jobs \ {Job(t)} : row'[j] = row[j]
      BY <1>10, <2>1, <2>2 DEF Begin, TypeOK
    <3>2. row'[Job(t)] \in Allowed("engine", 1) BY <3>1, AllowedFacts DEF InHand
    <3> QED BY <2>1, <3>1, <3>2, HeadKept
  <2>3. CASE ~RowThere(Job(t))
    BY <1>10, <2>1, <2>3, HeadKept DEF Begin, RowThere, Present, Allowed, InHand
  <2> QED BY <2>2, <2>3
<1>11. CASE Store(t)
  <2>1. row[Job(t)] \in {"processing", "deleted"} /\ todo[t] # <<>> /\ Job(t) \in Jobs
    BY <1>11, <1>q, <1>j DEF Store, Serving, Allowed, InHand
  <2>2. row'[Job(t)] \in {"completed", "deleted"} /\ \A k \in Jobs \ {Job(t)} : row'[k] = row[k]
    BY <1>11, <2>1, PublishFacts DEF Store
  <2> QED BY <1>11, <2>1, <2>2, AllowedFacts, HeadKept DEF Store
<1>12. CASE Fail(t)
  <2>1. row[Job(t)] \in {"processing", "deleted"} /\ todo[t] # <<>> /\ Job(t) \in Jobs
    BY <1>12, <1>q, <1>j DEF Fail, Serving, Allowed, InHand
  <2>2. row'[Job(t)] \in {"failed", "deleted"} /\ \A k \in Jobs \ {Job(t)} : row'[k] = row[k]
    BY <1>12, <2>1 DEF Fail, RowThere, Present, RecordFailure, TypeOK
  <2> QED BY <1>12, <2>1, <2>2, AllowedFacts, HeadKept DEF Fail
<1>13. CASE Unload(t)
  <2>0. todo[t] # <<>> /\ row' = row BY <1>13, <1>q DEF Unload, Serving
  <2>1. CASE t \in escaped \/ Remaining(t) = <<>>
    BY <1>13, <2>0, <2>1, QueueEmptied DEF Unload
  <2>2. CASE t \notin escaped /\ Remaining(t) # <<>>
    <3> DEFINE q == Remaining(t)
    <3>1. /\ tpc' = [tpc EXCEPT ![t] = "fetch"] /\ todo' = [todo EXCEPT ![t] = q] /\ q # <<>>
          /\ q \in Seq(Jobs) /\ \A i \in 1..Len(q) : /\ i \in Nat /\ i + 1 \in 1..Len(todo[t]) /\ i + 1 > 1
                                                    /\ q[i] = todo[t][i+1]
      BY <1>13, <2>0, <2>2, JobFacts DEF Unload
    <3> HIDE DEF q
    <3>2. \A i \in 1..Len(q) : row'[q[i]] \in Allowed("fetch", i)
      BY <2>0, <3>1 DEF QueueInv, Allowed, InHand
    <3>3. \A i, k \in 1..Len(q) : q[i] = q[k] => i = k
      <4> SUFFICES ASSUME NEW i \in 1..Len(q), NEW k \in 1..Len(q), q[i] = q[k] PROVE i = k
        OBVIOUS
      <4>1. i + 1 = k + 1 BY <3>1 DEF ApartInv
      <4> QED BY <3>1, <4>1
    <3>4. \A u \in Tasks \ {t} : \A i \in 1..Len(todo[u]), k \in 1..Len(q) : todo[u][i] # q[k]
      BY <3>1 DEF ApartInv
    <3> QED BY <2>0, <3>1, <3>2, <3>3, <3>4, QueueKept
  <2> QED BY <2>1, <2>2
<1> QED BY <1>1, <1>2, <1>3, <1>4, <1>5, <1>6, <1>7, <1>8, <1>9, <1>10, <1>11, <1>12, <1>13
        DEF JobStep

LEMMA OtherQueues ==
  ASSUME TypeOK, QueueInv, ApartInv,
         Reload \/ Enroll \/ Restart \/ (\E j \in Jobs : DeleteFiles(j) \/ DeleteRow(j)) \/ UNCHANGED vars
  PROVE  QueueInv' /\ ApartInv'
PROOF
<1> USE DEF rowVars, diskVars, taskVars, engineVars
<1>1. ASSUME NEW j \in Jobs, DeleteRow(j) PROVE QueueInv' /\ ApartInv'
  <2>1. \A k \in Jobs : row'[k] = IF k = j THEN "deleted" ELSE row[k]
    BY <1>1 DEF DeleteRow, TypeOK
  <2>2. \A t \in Tasks : \A i \in 1..Len(todo[t]) : row'[todo[t][i]] \in Allowed(tpc[t], i)
    BY <2>1, EntryIsJob DEF QueueInv, Allowed
  <2>3. todo' = todo /\ tpc' = tpc BY <1>1 DEF DeleteRow
  <2> QED BY <2>2, <2>3 DEF QueueInv, ApartInv
<1>2. CASE Reload \/ Enroll \/ (\E j \in Jobs : DeleteFiles(j)) \/ UNCHANGED vars
  BY <1>2 DEF Reload, Enroll, DeleteFiles, vars, QueueInv, ApartInv
<1>3. CASE Restart
  <2>1. \A t \in Tasks : tpc'[t] = "free" /\ todo'[t] = <<>> BY <1>3 DEF Restart
  <2>2. Len(<<>>) = 0 /\ 1..0 = {} OBVIOUS
  <2> QED BY <2>1, <2>2 DEF QueueInv, ApartInv, Serving
<1> QED BY <1>1, <1>2, <1>3

-----------------------------------------------------------------------------
(* A processing job is in hand.                                               *)

\* A step of one task that makes no other job processing or accepted keeps those of
\* the others in their hands.
LEMMA HandKept ==
  ASSUME TypeOK, HandInv, NEW t \in Tasks, NEW p \in Points, tpc' = [tpc EXCEPT ![t] = p],
         \A u \in Tasks \ {t} : todo'[u] = todo[u],
         \A j \in accepted' : row'[j] = "processing" =>
           \/ j \in accepted /\ row[j] = "processing" /\ (todo[t] = <<>> \/ j # Job(t))
           \/ todo'[t] # <<>> /\ Job(t)' = j /\ p \in InHand
  PROVE  HandInv'
PROOF
<1>1. \A u \in Tasks : tpc'[u] = IF u = t THEN p ELSE tpc[u] BY DEF TypeOK
<1> SUFFICES ASSUME NEW j \in accepted', row'[j] = "processing"
             PROVE  \E u \in Tasks : todo'[u] # <<>> /\ Job(u)' = j /\ tpc'[u] \in InHand
  BY DEF HandInv
<1>2. CASE todo'[t] # <<>> /\ Job(t)' = j /\ p \in InHand BY <1>1, <1>2
<1>3. CASE j \in accepted /\ row[j] = "processing" /\ (todo[t] = <<>> \/ j # Job(t))
  <2>1. PICK u \in Tasks : todo[u] # <<>> /\ Job(u) = j /\ tpc[u] \in InHand
    BY <1>3 DEF HandInv
  <2>2. u # t BY <1>3, <2>1
  <2>3. todo'[u] = todo[u] /\ tpc'[u] = tpc[u] BY <1>1, <2>2
  <2> QED BY <2>1, <2>3 DEF Job
<1> QED BY <1>2, <1>3

LEMMA EngineHand ==
  ASSUME TypeOK, HandInv, NEW t \in Tasks, NEW p \in Points, Works(t, p)
  PROVE  HandInv'
BY HandKept DEF Works, Job

LEMMA JobHand ==
  ASSUME TypeOK, QueueInv, HandInv, ApartInv, NEW t \in Tasks, JobStep(t)
  PROVE  HandInv'
PROOF
<1> USE DEF rowVars, diskVars, taskVars, engineVars, Goto, Points
<1>q. (tpc[t] \in Serving => todo[t] # <<>>) /\ (tpc[t] = "free" => todo[t] = <<>>) BY DEF QueueInv
<1>j. todo[t] # <<>> => Job(t) \in Jobs /\ row[Job(t)] \in Allowed(tpc[t], 1)
  BY JobFacts DEF QueueInv
<1>t. \A q : todo' = [todo EXCEPT ![t] = q] => \A u \in Tasks \ {t} : todo'[u] = todo[u]
  BY DEF TypeOK
<1>1. ASSUME NEW j \in Jobs, NEW mode \in {"auto", "manual"}, Upload(t, j, mode) PROVE HandInv'
  <2>1. todo[t] = <<>> /\ accepted' = accepted /\ \A k \in accepted' : k # j => row'[k] = row[k]
    BY <1>1, <1>q, NewRowFacts DEF Upload, TypeOK
  <2>2. row'[j] = "queued" BY <1>1, NewRowFacts DEF Upload
  <2>3. \A k \in accepted' : row'[k] = "processing" =>
           k \in accepted /\ row[k] = "processing" /\ (todo[t] = <<>> \/ k # Job(t))
    BY <2>1, <2>2
  <2>4. tpc' = [tpc EXCEPT ![t] = mode] /\ \A u \in Tasks \ {t} : todo'[u] = todo[u]
    BY <1>1, <1>t DEF Upload
  <2> QED BY <2>3, <2>4, HandKept
<1>2. CASE BatchList(t) BY <1>2, <1>q, HandKept DEF BatchList
<1>3. CASE UploadFails(t) \/ Persist(t)
  <2>1. todo[t] # <<>> /\ row[Job(t)] # "processing" /\ row' = row
        /\ accepted' \subseteq accepted \cup {Job(t)}
    BY <1>3, <1>q, <1>j, AllowedFacts DEF UploadFails, Persist, Serving, InHand
  <2> QED BY <1>3, <1>t, <2>1, HandKept DEF UploadFails, Persist
<1>4. CASE Seed(t)
  <2>1. todo[t] # <<>> /\ Job(t) \in Jobs /\ row[Job(t)] \in {"queued", "deleted"}
    BY <1>4, <1>q, <1>j, AllowedFacts DEF Seed, Serving, InHand
  <2>2. row'[Job(t)] # "processing" /\ \A k \in Jobs \ {Job(t)} : row'[k] = row[k]
    BY <1>4, <2>1, PublishFacts DEF Seed
  <2>3. \A j \in accepted' : row'[j] = "processing" =>
           j \in accepted /\ row[j] = "processing" /\ (todo[t] = <<>> \/ j # Job(t))
    BY <1>4, <2>1, <2>2 DEF Seed, TypeOK
  <2>4. tpc' = [tpc EXCEPT ![t] = "free"] /\ \A u \in Tasks \ {t} : todo'[u] = todo[u]
    BY <1>4, <1>t DEF Seed
  <2> QED BY <2>3, <2>4, HandKept
<1>5. ASSUME NEW j \in Jobs, NEW f \in Files, BatchAdd(t, j, f) PROVE HandInv'
  <2>1. row'[j] = "queued" /\ \A k \in Jobs \ {j} : row'[k] = row[k]
    BY <1>5, NewRowFacts DEF BatchAdd
  <2>2. todo[t] # <<>> => row[Job(t)] # "processing"
    BY <1>5, <1>j, AllowedFacts DEF BatchAdd, InHand
  <2>3. tpc' = [tpc EXCEPT ![t] = "batch"] BY <1>5 DEF BatchAdd, TypeOK
  <2>4. \A k \in accepted' : row'[k] = "processing" =>
           k \in accepted /\ row[k] = "processing" /\ (todo[t] = <<>> \/ k # Job(t))
    BY <1>5, <2>1, <2>2 DEF BatchAdd, TypeOK
  <2>5. tpc' = [tpc EXCEPT ![t] = "batch"] /\ \A u \in Tasks \ {t} : todo'[u] = todo[u]
    BY <1>5, <1>t, <2>3 DEF BatchAdd
  <2> QED BY <2>4, <2>5, HandKept
<1>6. CASE BatchAnswer(t)
  <2>1. \A i \in 1..Len(todo[t]) : row[todo[t][i]] # "processing"
    BY <1>6 DEF BatchAnswer, QueueInv, Allowed, InHand
  <2>2. todo[t] # <<>> => row[Job(t)] # "processing" BY <2>1, JobFacts
  <2> QED BY <1>6, <2>1, <2>2, HandKept DEF BatchAnswer
<1>7. CASE FetchNothing(t) \/ Fetch(t)
  <2>1. todo[t] # <<>> /\ row[Job(t)] # "processing"
    BY <1>7, <1>q, <1>j, AllowedFacts DEF FetchNothing, Fetch, Serving, InHand
  <2> QED BY <1>7, <2>1, HandKept DEF FetchNothing, Fetch
<1>8. CASE Begin(t)
  <2>1. todo[t] # <<>> /\ Job(t) \in Jobs /\ row[Job(t)] \in {"queued", "deleted"}
    BY <1>8, <1>q, <1>j, AllowedFacts DEF Begin, Serving, InHand
  <2>2. Job(t)' = Job(t) /\ todo' = todo /\ accepted' = accepted BY <1>8 DEF Begin, Job
  <2>3. CASE RowThere(Job(t))
    <3>1. tpc' = [tpc EXCEPT ![t] = "engine"] /\ \A k \in Jobs \ {Job(t)} : row'[k] = row[k]
      BY <1>8, <2>3 DEF Begin, TypeOK
    <3>2. \A j \in accepted' : row'[j] = "processing" =>
             \/ j \in accepted /\ row[j] = "processing" /\ (todo[t] = <<>> \/ j # Job(t))
             \/ todo'[t] # <<>> /\ Job(t)' = j /\ "engine" \in InHand
      BY <2>1, <2>2, <3>1 DEF TypeOK, InHand
    <3> QED BY <2>2, <3>1, <3>2, HandKept
  <2>4. CASE ~RowThere(Job(t)) BY <1>8, <2>1, <2>4, HandKept DEF Begin
  <2> QED BY <2>3, <2>4
<1>9. CASE Store(t)
  <2>1. todo[t] # <<>> /\ Job(t) \in Jobs /\ row[Job(t)] \in {"processing", "deleted"}
    BY <1>9, <1>q, <1>j, AllowedFacts DEF Store, Serving, InHand
  <2>2. row'[Job(t)] # "processing" /\ \A k \in Jobs \ {Job(t)} : row'[k] = row[k]
    BY <1>9, <2>1, PublishFacts DEF Store
  <2>3. \A j \in accepted' : row'[j] = "processing" =>
           j \in accepted /\ row[j] = "processing" /\ (todo[t] = <<>> \/ j # Job(t))
    BY <1>9, <2>1, <2>2 DEF Store, TypeOK
  <2>4. tpc' = [tpc EXCEPT ![t] = "unload"] /\ \A u \in Tasks \ {t} : todo'[u] = todo[u]
    BY <1>9 DEF Store
  <2> QED BY <2>3, <2>4, HandKept
<1>10. CASE Fail(t)
  <2>1. todo[t] # <<>> /\ Job(t) \in Jobs /\ row[Job(t)] \in {"processing", "deleted"}
    BY <1>10, <1>q, <1>j, AllowedFacts DEF Fail, Serving, InHand
  <2>2. row'[Job(t)] # "processing" /\ \A k \in Jobs \ {Job(t)} : row'[k] = row[k]
    BY <1>10, <2>1 DEF Fail, RowThere, Present, RecordFailure, TypeOK
  <2>3. \A j \in accepted' : row'[j] = "processing" =>
           j \in accepted /\ row[j] = "processing" /\ (todo[t] = <<>> \/ j # Job(t))
    BY <1>10, <2>1, <2>2 DEF Fail, TypeOK
  <2>4. tpc' = [tpc EXCEPT ![t] = "unload"] /\ \A u \in Tasks \ {t} : todo'[u] = todo[u]
    BY <1>10 DEF Fail
  <2> QED BY <2>3, <2>4, HandKept
<1>11. CASE Unload(t)
  <2>1. todo[t] # <<>> /\ row[Job(t)] # "processing" /\ row' = row
    BY <1>11, <1>q, <1>j, AllowedFacts DEF Unload, Serving
  <2>2. \A j \in accepted' : row'[j] = "processing" =>
           j \in accepted /\ row[j] = "processing" /\ (todo[t] = <<>> \/ j # Job(t))
    BY <1>11, <2>1 DEF Unload
  <2>3. tpc' = [tpc EXCEPT ![t] = IF (IF t \in escaped THEN <<>> ELSE Remaining(t)) = <<>>
                                  THEN "free" ELSE "fetch"]
        /\ \A u \in Tasks \ {t} : todo'[u] = todo[u]
    BY <1>11, <1>t DEF Unload
  <2> QED BY <2>2, <2>3, HandKept
<1> QED BY <1>1, <1>2, <1>3, <1>4, <1>5, <1>6, <1>7, <1>8, <1>9, <1>10, <1>11 DEF JobStep

LEMMA OtherHand ==
  ASSUME TypeOK, HandInv,
         Reload \/ Enroll \/ Restart \/ (\E j \in Jobs : DeleteFiles(j) \/ DeleteRow(j)) \/ UNCHANGED vars
  PROVE  HandInv'
PROOF
<1> USE DEF rowVars, diskVars, taskVars, engineVars
<1>1. ASSUME NEW j \in Jobs, DeleteRow(j) PROVE HandInv'
  <2>1. \A k \in Jobs : row'[k] = "processing" => row[k] = "processing"
    BY <1>1 DEF DeleteRow, TypeOK
  <2>2. todo' = todo /\ tpc' = tpc /\ accepted' = accepted BY <1>1 DEF DeleteRow
  <2> QED BY <2>1, <2>2 DEF HandInv, Job, TypeOK
<1>2. CASE Reload \/ Enroll \/ (\E j \in Jobs : DeleteFiles(j)) \/ UNCHANGED vars
  BY <1>2 DEF Reload, Enroll, DeleteFiles, vars, HandInv, Job
<1>3. CASE Restart BY <1>3 DEF Restart, HandInv
<1> QED BY <1>1, <1>2, <1>3

-----------------------------------------------------------------------------
(* The audio of accepted jobs.                                                *)

\* A step of a task that adds files only, and lets no row come back.
LEMMA AudioKept ==
  ASSUME TypeOK, AudioInv, NEW t \in Tasks, NEW p \in Points, tpc' = [tpc EXCEPT ![t] = p],
         \A u \in Tasks \ {t} : todo'[u] = todo[u] /\ pending'[u] = pending[u],
         files \subseteq files', deleting' = deleting,
         \A j \in Jobs : row[j] = "deleted" => row'[j] = "deleted",
         \A j \in Jobs : Present(j) => Present(j)',
         \A j \in Jobs : row[j] # "absent" => source'[j] = source[j],
         \A u \in Tasks \ {t} : /\ tpc[u] = "auto" => source'[Job(u)] = source[Job(u)]
                                /\ \A i \in 1..Len(todo[u]) : source'[todo[u][i]] = source[todo[u][i]],
         \A j \in accepted' \ accepted : KeptIn(source'[j], files', deleting', row') /\ row'[j] # "absent",
         p = "auto" => (source[Job(t)] = Job(t))',
         p = "batch" => /\ \A f \in pending'[t] : KeptIn(f, files', deleting', row')
                        /\ \A i \in 1..Len(todo'[t]) : KeptIn(source'[todo'[t][i]], files', deleting', row')
  PROVE  AudioInv'
PROOF
<1>1. \A u \in Tasks : tpc'[u] = IF u = t THEN p ELSE tpc[u] BY DEF TypeOK
<1>2. \A f : Kept(f) => KeptIn(f, files', deleting', row') BY DEF Kept, KeptIn
<1>3. \A j \in accepted' : KeptIn(source'[j], files', deleting', row') /\ row'[j] # "absent"
  <2> SUFFICES ASSUME NEW j \in accepted
               PROVE  KeptIn(source'[j], files', deleting', row') /\ row'[j] # "absent"
    OBVIOUS
  <2>1. j \in Jobs /\ Kept(source[j]) /\ row[j] # "absent" BY DEF AudioInv, TypeOK
  <2>2. source'[j] = source[j] /\ (Present(j) => Present(j)') BY <2>1
  <2>3. row'[j] # "absent" BY <2>1, <2>2 DEF Present
  <2> QED BY <1>2, <2>1, <2>2, <2>3
<1>4. \A j \in deleting' : Present(j)' BY DEF AudioInv, TypeOK
<1>5. \A u \in Tasks \ {t} : tpc'[u] = "auto" => (source[Job(u)] = Job(u))'
  BY <1>1 DEF AudioInv, Job
<1>6. \A u \in Tasks \ {t} : tpc'[u] = "batch" =>
        /\ \A f \in pending'[u] : KeptIn(f, files', deleting', row')
        /\ \A i \in 1..Len(todo'[u]) : KeptIn(source'[todo'[u][i]], files', deleting', row')
  <2> SUFFICES ASSUME NEW u \in Tasks \ {t}, tpc[u] = "batch"
               PROVE  /\ \A f \in pending[u] : KeptIn(f, files', deleting', row')
                      /\ \A i \in 1..Len(todo[u]) : KeptIn(source'[todo[u][i]], files', deleting', row')
    BY <1>1
  <2>1. /\ \A f \in pending[u] : Kept(f)
        /\ \A i \in 1..Len(todo[u]) : Kept(source[todo[u][i]])
    BY DEF AudioInv
  <2> QED BY <1>2, <2>1
<1> QED BY <1>1, <1>3, <1>4, <1>5, <1>6 DEF AudioInv, Kept

\* The same for a step that makes no new row.
LEMMA SourceKept ==
  ASSUME TypeOK, AudioInv, NEW t \in Tasks, NEW p \in Points, tpc' = [tpc EXCEPT ![t] = p],
         \A u \in Tasks \ {t} : todo'[u] = todo[u] /\ pending'[u] = pending[u],
         files \subseteq files', deleting' = deleting, source' = source,
         \A j \in Jobs : /\ row[j] = "deleted" => row'[j] = "deleted"
                         /\ Present(j) => Present(j)',
         \A j \in accepted' \ accepted : KeptIn(source[j], files', deleting', row') /\ row'[j] # "absent",
         p # "auto",
         p = "batch" => /\ \A f \in pending'[t] : KeptIn(f, files', deleting', row')
                        /\ \A i \in 1..Len(todo'[t]) : KeptIn(source[todo'[t][i]], files', deleting', row')
  PROVE  AudioInv'
BY AudioKept

LEMMA EngineAudio ==
  ASSUME TypeOK, AudioInv, NEW t \in Tasks, NEW p \in Points, Works(t, p)
  PROVE  AudioInv'
PROOF
<1>1. p # "auto" /\ p # "batch" BY DEF Works, InHand
<1>2. \A j \in Jobs : Present(j) => Present(j)' BY DEF Works, Present
<1> QED BY <1>1, <1>2, SourceKept DEF Works

LEMMA JobAudio ==
  ASSUME TypeOK, QueueInv, ApartInv, AudioInv, NEW t \in Tasks, JobStep(t)
  PROVE  AudioInv'
PROOF
<1> USE DEF rowVars, diskVars, taskVars, engineVars, Goto, Points
<1>q. (tpc[t] \in Serving => todo[t] # <<>>) /\ (tpc[t] = "free" => todo[t] = <<>>) BY DEF QueueInv
<1>j. todo[t] # <<>> => Job(t) \in Jobs /\ row[Job(t)] \in Allowed(tpc[t], 1)
  BY JobFacts DEF QueueInv
<1>t. \A q : /\ todo' = [todo EXCEPT ![t] = q] => \A u \in Tasks \ {t} : todo'[u] = todo[u]
             /\ pending' = [pending EXCEPT ![t] = q] => \A u \in Tasks \ {t} : pending'[u] = pending[u]
  BY DEF TypeOK
<1>p. row' = row => \A j \in Jobs : Present(j) => Present(j)' BY DEF Present
<1>k. \A f \in files : KeptIn(f, files, deleting, row) BY DEF KeptIn
<1>n. ASSUME NEW j \in Jobs, NEW f, NewRow(j, f)
      PROVE  /\ files' = files /\ deleting' = deleting /\ source' = [source EXCEPT ![j] = f]
             /\ source'[j] = f
             /\ \A k \in Jobs : /\ row[k] = "deleted" => row'[k] = "deleted"
                                /\ Present(k) => Present(k)'
                                /\ row[k] # "absent" => source'[k] = source[k]
             /\ \A u \in Tasks : \A i \in 1..Len(todo[u]) : source'[todo[u][i]] = source[todo[u][i]]
             /\ \A u \in Tasks : tpc[u] = "auto" => source'[Job(u)] = source[Job(u)]
  <2>1. source' = [source EXCEPT ![j] = f] /\ files' = files /\ deleting' = deleting /\ row[j] = "absent"
    BY <1>n DEF NewRow
  <2>2. \A k \in Jobs : source'[k] = IF k = j THEN f ELSE source[k] BY <2>1 DEF TypeOK
  <2>3. row'[j] = "queued" /\ \A k \in Jobs \ {j} : row'[k] = row[k] BY <1>n, NewRowFacts
  <2>4. \A k \in Jobs : Present(k) => Present(k)' BY <2>1, <2>3 DEF Present
  <2>5. \A u \in Tasks : \A i \in 1..Len(todo[u]) : todo[u][i] \in Jobs \ {j}
    BY <1>n, NewRowFacts, EntryIsJob
  <2>6. \A u \in Tasks : tpc[u] = "auto" => Job(u) \in Jobs \ {j}
    BY <2>5, JobFacts DEF QueueInv, Serving
  <2> QED BY <2>1, <2>2, <2>3, <2>4, <2>5, <2>6
<1>1. ASSUME NEW j \in Jobs, NEW mode \in {"auto", "manual"}, Upload(t, j, mode) PROVE AudioInv'
  <2>1. NewRow(j, j) /\ tpc' = [tpc EXCEPT ![t] = mode] /\ accepted' = accepted /\ pending' = pending
        /\ todo' = [todo EXCEPT ![t] = <<j>>]
    BY <1>1 DEF Upload
  <2>2. todo'[t] = <<j>> BY <2>1 DEF TypeOK
  <2>3. Job(t)' = j BY <2>2 DEF Job
  <2>4. source'[j] = j BY <1>n, <2>1
  <2>5. (source[Job(t)] = Job(t))' BY <2>3, <2>4
  <2>6. \A u \in Tasks \ {t} : todo'[u] = todo[u] /\ pending'[u] = pending[u] BY <1>t, <2>1
  <2> QED BY <1>n, <2>1, <2>5, <2>6, AudioKept
<1>2. CASE BatchList(t)
  <2>1. /\ todo'[t] = <<>> /\ pending'[t] = files /\ Len(<<>>) = 0 /\ 1..0 = {}
    BY <1>2, <1>q DEF BatchList, TypeOK
  <2>2. tpc' = [tpc EXCEPT ![t] = "batch"] /\ accepted' = accepted /\ todo' = todo /\ row' = row
        /\ files' = files /\ deleting' = deleting /\ source' = source
        /\ pending' = [pending EXCEPT ![t] = files]
    BY <1>2 DEF BatchList
  <2> QED BY <1>t, <1>p, <1>k, <2>1, <2>2, SourceKept
<1>3. CASE UploadFails(t) BY <1>3, <1>t, <1>p, SourceKept DEF UploadFails
<1>4. CASE Persist(t)
  <2>1. /\ files \subseteq files' /\ Job(t) \in files' /\ row' = row /\ source' = source
        /\ deleting' = deleting /\ todo' = todo /\ pending' = pending
    BY <1>4 DEF Persist
  <2>2. \A j \in accepted' \ accepted : j = Job(t) /\ tpc[t] = "auto" BY <1>4 DEF Persist
  <2>3. row[Job(t)] # "absent" BY <1>4, <1>q, <1>j, AllowedFacts DEF Persist, Serving, InHand
  <2>4. \A j \in accepted' \ accepted : source[j] = j BY <2>2 DEF AudioInv
  <2>5. \A j \in accepted' \ accepted : KeptIn(source[j], files', deleting', row') /\ row'[j] # "absent"
    BY <2>1, <2>2, <2>3, <2>4 DEF KeptIn
  <2>6. PICK p \in {"seed", "fetch"} : tpc' = [tpc EXCEPT ![t] = p] BY <1>4 DEF Persist
  <2> QED BY <1>p, <2>1, <2>5, <2>6, SourceKept
<1>5. CASE Seed(t)
  <2>1. Job(t) \in Jobs /\ row[Job(t)] \in {"queued", "deleted"}
    BY <1>5, <1>q, <1>j, AllowedFacts DEF Seed, Serving, InHand
  <2>2. row'[Job(t)] = (IF row[Job(t)] = "deleted" THEN "deleted" ELSE "completed")
        /\ \A k \in Jobs \ {Job(t)} : row'[k] = row[k]
    BY <1>5, <2>1 DEF Seed, Publish, Present, TypeOK
  <2>3. \A k \in Jobs : (row[k] = "deleted" => row'[k] = "deleted") /\ (Present(k) => Present(k)')
    BY <2>1, <2>2 DEF Present
  <2> QED BY <1>5, <1>t, <2>3, SourceKept DEF Seed
<1>6. ASSUME NEW j \in Jobs, NEW f \in Files, BatchAdd(t, j, f) PROVE AudioInv'
  <2> DEFINE q == Append(todo[t], j)
  <2>1. /\ NewRow(j, f) /\ tpc[t] = "batch" /\ f \in pending[t] /\ accepted' = accepted
        /\ todo' = [todo EXCEPT ![t] = q] /\ pending' = [pending EXCEPT ![t] = @ \ {f}]
        /\ tpc' = [tpc EXCEPT ![t] = "batch"]
    BY <1>6 DEF BatchAdd, TypeOK
  <2>2. todo[t] \in Seq(Jobs) /\ pending'[t] = pending[t] \ {f} /\ todo'[t] = q BY <2>1 DEF TypeOK
  <2>3. /\ Len(q) = Len(todo[t]) + 1 /\ q[Len(q)] = j
        /\ \A i \in 1..Len(todo[t]) : q[i] = todo[t][i]
        /\ \A i \in 1..Len(q) : i = Len(q) \/ i \in 1..Len(todo[t])
    BY <2>2
  <2> HIDE DEF q
  <2>4. \A g : KeptIn(g, files, deleting, row) => KeptIn(g, files', deleting', row')
    BY <1>n, <2>1 DEF KeptIn
  <2>5. /\ \A g \in pending[t] : KeptIn(g, files, deleting, row)
        /\ \A i \in 1..Len(todo[t]) : KeptIn(source[todo[t][i]], files, deleting, row)
    BY <2>1 DEF AudioInv, Kept
  <2>6. \A i \in 1..Len(q) : KeptIn(source'[q[i]], files', deleting', row')
    BY <1>n, <2>1, <2>3, <2>4, <2>5
  <2>7. \A u \in Tasks \ {t} : todo'[u] = todo[u] /\ pending'[u] = pending[u] BY <2>1 DEF TypeOK
  <2> QED BY <1>n, <2>1, <2>2, <2>4, <2>5, <2>6, <2>7, AudioKept
<1>7. CASE BatchAnswer(t)
  <2>1. \A j \in accepted' \ accepted : KeptIn(source[j], files, deleting, row) /\ row[j] # "absent"
    BY <1>7 DEF BatchAnswer, AudioInv, Kept, QueueInv, Allowed, InHand
  <2>2. PICK p \in {"free", "fetch"} : tpc' = [tpc EXCEPT ![t] = p] BY <1>7 DEF BatchAnswer
  <2>3. /\ row' = row /\ files' = files /\ deleting' = deleting /\ source' = source /\ todo' = todo
        /\ pending' = [pending EXCEPT ![t] = {}]
    BY <1>7 DEF BatchAnswer
  <2> QED BY <1>t, <1>p, <2>1, <2>2, <2>3, SourceKept
<1>8. CASE FetchNothing(t) BY <1>8, <1>p, SourceKept DEF FetchNothing
<1>9. CASE Fetch(t) BY <1>9, <1>p, SourceKept DEF Fetch
<1>10. CASE Begin(t)
  <2>1. Job(t) \in Jobs /\ row[Job(t)] \in {"queued", "deleted"}
    BY <1>10, <1>q, <1>j, AllowedFacts DEF Begin, Serving, InHand
  <2>2. row'[Job(t)] = (IF row[Job(t)] = "deleted" THEN "deleted" ELSE "processing")
        /\ \A k \in Jobs \ {Job(t)} : row'[k] = row[k]
    BY <1>10, <2>1 DEF Begin, RowThere, Present, TypeOK
  <2>3. \A k \in Jobs : (row[k] = "deleted" => row'[k] = "deleted") /\ (Present(k) => Present(k)')
    BY <2>1, <2>2 DEF Present
  <2>4. PICK p \in {"engine", "unload"} : tpc' = [tpc EXCEPT ![t] = p] BY <1>10 DEF Begin
  <2> QED BY <1>10, <2>3, <2>4, SourceKept DEF Begin
<1>11. CASE Store(t)
  <2>1. Job(t) \in Jobs /\ row[Job(t)] \in {"processing", "deleted"}
    BY <1>11, <1>q, <1>j, AllowedFacts DEF Store, Serving, InHand
  <2>2. row'[Job(t)] = (IF row[Job(t)] = "deleted" THEN "deleted" ELSE "completed")
        /\ \A k \in Jobs \ {Job(t)} : row'[k] = row[k]
    BY <1>11, <2>1 DEF Store, Publish, Present, TypeOK
  <2>3. \A k \in Jobs : (row[k] = "deleted" => row'[k] = "deleted") /\ (Present(k) => Present(k)')
    BY <2>1, <2>2 DEF Present
  <2> QED BY <1>11, <2>3, SourceKept DEF Store
<1>12. CASE Fail(t)
  <2>1. Job(t) \in Jobs /\ row[Job(t)] \in {"processing", "deleted"}
    BY <1>12, <1>q, <1>j, AllowedFacts DEF Fail, Serving, InHand
  <2>2. row'[Job(t)] = (IF row[Job(t)] = "deleted" THEN "deleted" ELSE "failed")
        /\ \A k \in Jobs \ {Job(t)} : row'[k] = row[k]
    BY <1>12, <2>1 DEF Fail, RowThere, Present, RecordFailure, TypeOK
  <2>3. \A k \in Jobs : (row[k] = "deleted" => row'[k] = "deleted") /\ (Present(k) => Present(k)')
    BY <2>1, <2>2 DEF Present
  <2> QED BY <1>12, <2>3, SourceKept DEF Fail
<1>13. CASE Unload(t)
  <2>1. PICK p \in {"free", "fetch"} : tpc' = [tpc EXCEPT ![t] = p] BY <1>13 DEF Unload
  <2>2. /\ row' = row /\ files' = files /\ deleting' = deleting /\ source' = source
        /\ pending' = pending /\ accepted' = accepted
        /\ \A u \in Tasks \ {t} : todo'[u] = todo[u]
    BY <1>13, <1>t DEF Unload
  <2> QED BY <1>p, <2>1, <2>2, SourceKept
<1> QED BY <1>1, <1>2, <1>3, <1>4, <1>5, <1>6, <1>7, <1>8, <1>9, <1>10, <1>11, <1>12, <1>13
        DEF JobStep

LEMMA OtherAudio ==
  ASSUME TypeOK, AudioInv,
         Reload \/ Enroll \/ Restart \/ (\E j \in Jobs : DeleteFiles(j) \/ DeleteRow(j)) \/ UNCHANGED vars
  PROVE  AudioInv'
PROOF
<1> USE DEF rowVars, diskVars, taskVars, engineVars, Kept
<1>d. ASSUME source' = source, accepted' = accepted, tpc' = tpc, todo' = todo, pending' = pending,
             \A f : Kept(f) => KeptIn(f, files', deleting', row'), \A j \in deleting' : Present(j)',
             \A j \in Jobs : row[j] # "absent" => row'[j] # "absent"
      PROVE  AudioInv'
  BY <1>d DEF AudioInv, Job, TypeOK
<1>1. ASSUME NEW j \in Jobs, DeleteFiles(j) PROVE AudioInv'
  <2>1. \A f : Kept(f) => KeptIn(f, files', deleting', row') BY <1>1 DEF DeleteFiles, Unlink, KeptIn
  <2>2. \A k \in deleting' : Present(k)' BY <1>1 DEF DeleteFiles, AudioInv, Present
  <2> QED BY <1>1, <1>d, <2>1, <2>2 DEF DeleteFiles
<1>2. ASSUME NEW j \in Jobs, DeleteRow(j) PROVE AudioInv'
  <2>1. \A k \in Jobs : row'[k] = IF k = j THEN "deleted" ELSE row[k]
    BY <1>2 DEF DeleteRow, TypeOK
  <2>2. \A f : Kept(f) => KeptIn(f, files', deleting', row') BY <1>2, <2>1 DEF DeleteRow, KeptIn
  <2>3. \A k \in deleting' : Present(k)' BY <1>2, <2>1 DEF DeleteRow, AudioInv, Present, TypeOK
  <2>4. \A k \in Jobs : row[k] # "absent" => row'[k] # "absent" BY <2>1
  <2> QED BY <1>2, <1>d, <2>2, <2>3, <2>4 DEF DeleteRow
<1>3. CASE Reload \/ Enroll \/ UNCHANGED vars
  <2>1. \A k \in deleting' : Present(k)' BY <1>3 DEF Reload, Enroll, vars, AudioInv, Present
  <2> QED BY <1>3, <1>d, <2>1 DEF Reload, Enroll, vars
<1>4. CASE Restart
  <2>1. \A t \in Tasks : tpc'[t] = "free" BY <1>4 DEF Restart
  <2> QED BY <1>4, <2>1 DEF Restart, AudioInv
<1> QED BY <1>1, <1>2, <1>3, <1>4

-----------------------------------------------------------------------------
(* The invariant holds.                                                       *)

LEMMA InitInv == Init => IInv
PROOF
<1> SUFFICES ASSUME Init PROVE IInv
  OBVIOUS
<1>0. <<>> \in Seq(Jobs) /\ Len(<<>>) = 0 /\ 1..0 = {} OBVIOUS
<1>1. TypeOK BY <1>0, EnginesAssumption DEF Init, TypeOK, Points, Causes, Files
<1>2. QueueInv BY <1>0 DEF Init, QueueInv, Serving
<1>3. HandInv /\ ApartInv BY <1>0 DEF Init, HandInv, ApartInv
<1>4. AudioInv BY DEF Init, AudioInv
<1> QED BY <1>1, <1>2, <1>3, <1>4 DEF IInv

LEMMA NextInv == IInv /\ [Next]_vars => IInv'
PROOF
<1> SUFFICES ASSUME IInv, [Next]_vars PROVE IInv'
  OBVIOUS
<1> USE DEF IInv
<1>1. ASSUME NEW t \in Tasks, EngineStep(t) PROVE IInv'
  <2>1. PICK p \in Points : Works(t, p) BY <1>1, EngineWorks
  <2> QED BY <1>1, <2>1, EngineTypes, EngineQueues, EngineHand, EngineAudio
<1>2. ASSUME NEW t \in Tasks, JobStep(t) PROVE IInv'
  BY <1>2, JobTypes, JobQueues, JobHand, JobAudio
<1>3. CASE Reload \/ Enroll \/ Restart \/ (\E j \in Jobs : DeleteFiles(j) \/ DeleteRow(j)) \/ UNCHANGED vars
  BY <1>3, OtherTypes, OtherQueues, OtherHand, OtherAudio
<1> QED BY <1>1, <1>2, <1>3, NextCases

\* For any jobs, files, requests and engines: types, queues that share no job, and the
\* status of each job in step with the point its task has reached.
THEOREM JobsInvariantHolds == Spec => []IInv
BY InitInv, NextInv, PTL DEF Spec

\* Types, for any jobs, files, requests and engines.
THEOREM JobTypesHold == Spec => []TypeOK
PROOF
<1>1. IInv => TypeOK BY DEF IInv
<1> QED BY <1>1, JobsInvariantHolds, PTL

\* A job shown as processing is in the hands of exactly one task of the process that
\* accepted it, however tasks, deletions, reloads and restarts interleave (routes.py:263).
THEOREM ProcessingHolds == Spec => []ProcessingIsInHand
PROOF
<1>1. IInv => ProcessingIsInHand BY DEF IInv, HandInv, ApartInv, ProcessingIsInHand
<1> QED BY <1>1, JobsInvariantHolds, PTL

\* No deletion takes the audio of a job that waits or runs, unless the job that
\* uploaded it goes (jobs.py:596).
THEOREM AudioHolds == Spec => []AudioIsKept
PROOF
<1>1. IInv => AudioIsKept
  <2> SUFFICES ASSUME IInv, NEW j \in accepted
               PROVE  \/ source[j] \in files
                      \/ source[j] \in Jobs /\ (source[j] \in deleting \/ row[source[j]] = "deleted")
    BY DEF AudioIsKept
  <2>1. Kept(source[j]) BY DEF IInv, AudioInv
  <2> QED BY <2>1 DEF Kept, KeptIn
<1> QED BY <1>1, JobsInvariantHolds, PTL

-----------------------------------------------------------------------------
(* Refinement: the jobs implement JobContract.                                *)

\* What a step makes of the statuses a client sees, when it changes one row.
LEMMA StatusStep ==
  ASSUME TypeOK, NEW j \in Jobs, NEW s, row' = [row EXCEPT ![j] = s]
  PROVE  [k \in Jobs |-> Status(k)]' =
         [[k \in Jobs |-> Status(k)] EXCEPT ![j] = IF s = "absent" THEN "none"
                                                   ELSE IF s = "deleted" THEN "gone" ELSE s]
PROOF
<1>1. \A k \in Jobs : row'[k] = IF k = j THEN s ELSE row[k] BY DEF TypeOK
<1> QED BY <1>1 DEF Status

LEMMA SameContract ==
  ASSUME row' = row, segs' = segs PROVE UNCHANGED Contract!contractVars
BY DEF Contract!contractVars, Status

LEMMA PublishRefines ==
  ASSUME TypeOK, NEW j \in Jobs, NEW heard \in {{}, {j}}, Publish(j, heard), row[j] \in {"queued", "processing", "deleted"}
  PROVE  Contract!Next \/ UNCHANGED Contract!contractVars
PROOF
<1>1. CASE row[j] = "deleted"
  BY <1>1, SameContract DEF Publish, Present, rowVars
<1>2. CASE row[j] # "deleted"
  <2>1. row' = [row EXCEPT ![j] = "completed"] /\ segs' \in {segs, segs \cup {j}}
    BY <1>2 DEF Publish, Present
  <2>2. Status(j) \in {"queued", "processing"} BY <1>2 DEF Status
  <2>3. Contract!Complete(j) BY <2>1, <2>2, StatusStep DEF Contract!Complete, Contract!Move
  <2> QED BY <2>3 DEF Contract!Next
<1> QED BY <1>1, <1>2

LEMMA JobRefines ==
  ASSUME IInv, NEW t \in Tasks, JobStep(t)
  PROVE  Contract!Next \/ UNCHANGED Contract!contractVars
PROOF
<1> USE DEF rowVars, Goto
<1>y. TypeOK BY DEF IInv
<1>q. tpc[t] \in Serving => todo[t] # <<>> BY DEF IInv, QueueInv
<1>j. todo[t] # <<>> => Job(t) \in Jobs /\ row[Job(t)] \in Allowed(tpc[t], 1)
  BY <1>y, JobFacts DEF IInv, QueueInv
<1>n. ASSUME NEW j \in Jobs, NEW f, NewRow(j, f) PROVE Contract!Next
  <2>1. row' = [row EXCEPT ![j] = "queued"] /\ segs' = segs /\ Status(j) = "none"
    BY <1>n DEF NewRow, Status
  <2>2. Contract!Submit(j) BY <1>y, <2>1, StatusStep DEF Contract!Submit, Contract!Move
  <2> QED BY <2>2 DEF Contract!Next
<1>1. CASE \E j \in Jobs, mode \in {"auto", "manual"} : Upload(t, j, mode) BY <1>1, <1>n DEF Upload
<1>2. CASE \E j \in Jobs, f \in Files : BatchAdd(t, j, f) BY <1>2, <1>n DEF BatchAdd
<1>3. CASE Seed(t)
  <2>1. Job(t) \in Jobs /\ row[Job(t)] \in {"queued", "deleted"}
    BY <1>3, <1>q, <1>j, AllowedFacts DEF Seed, Serving, InHand, Points
  <2> QED BY <1>3, <1>y, <2>1, PublishRefines DEF Seed
<1>4. CASE Store(t)
  <2>1. Job(t) \in Jobs /\ row[Job(t)] \in {"processing", "deleted"}
    BY <1>4, <1>q, <1>j, AllowedFacts DEF Store, Serving, InHand
  <2> QED BY <1>4, <1>y, <2>1, PublishRefines DEF Store
<1>5. CASE Begin(t)
  <2>1. Job(t) \in Jobs /\ row[Job(t)] \in {"queued", "deleted"}
    BY <1>5, <1>q, <1>j, AllowedFacts DEF Begin, Serving, InHand, Points
  <2>2. CASE row[Job(t)] = "queued"
    <3>1. row' = [row EXCEPT ![Job(t)] = "processing"] /\ segs' = segs /\ Status(Job(t)) = "queued"
      BY <1>5, <2>2 DEF Begin, RowThere, Present, Status
    <3>2. Contract!Begin(Job(t))
      BY <1>y, <2>1, <3>1, StatusStep DEF Contract!Begin, Contract!Move
    <3> QED BY <2>1, <3>2 DEF Contract!Next
  <2>3. CASE row[Job(t)] = "deleted"
    BY <1>5, <2>3, SameContract DEF Begin, RowThere, Present
  <2> QED BY <2>1, <2>2, <2>3
<1>6. CASE Fail(t)
  <2>1. Job(t) \in Jobs /\ row[Job(t)] \in {"processing", "deleted"}
    BY <1>6, <1>q, <1>j, AllowedFacts DEF Fail, Serving, InHand
  <2>2. CASE row[Job(t)] = "processing"
    <3>1. row' = [row EXCEPT ![Job(t)] = "failed"] /\ segs' = segs /\ Status(Job(t)) = "processing"
      BY <1>6, <2>2 DEF Fail, RowThere, Present, RecordFailure, Status
    <3>2. Contract!Fail(Job(t))
      BY <1>y, <2>1, <3>1, StatusStep DEF Contract!Fail, Contract!Move
    <3> QED BY <2>1, <3>2 DEF Contract!Next
  <2>3. CASE row[Job(t)] = "deleted"
    BY <1>6, <2>3, SameContract DEF Fail, RowThere, Present
  <2> QED BY <2>1, <2>2, <2>3
<1>7. CASE BatchList(t) \/ UploadFails(t) \/ Persist(t) \/ BatchAnswer(t) \/ FetchNothing(t)
           \/ Fetch(t) \/ Unload(t)
  BY <1>7, SameContract DEF BatchList, UploadFails, Persist, BatchAnswer, FetchNothing, Fetch, Unload
<1> QED BY <1>1, <1>2, <1>3, <1>4, <1>5, <1>6, <1>7 DEF JobStep

LEMMA JobContractStep == IInv /\ [Next]_vars => [Contract!Next]_(Contract!contractVars)
PROOF
<1> SUFFICES ASSUME IInv, [Next]_vars PROVE Contract!Next \/ UNCHANGED Contract!contractVars
  OBVIOUS
<1>1. ASSUME NEW t \in Tasks, EngineStep(t) PROVE UNCHANGED Contract!contractVars
  <2>1. PICK p \in Points : Works(t, p) BY <1>1, EngineWorks DEF IInv
  <2> QED BY <2>1, SameContract DEF Works
<1>2. ASSUME NEW j \in Jobs, DeleteRow(j) PROVE Contract!Next
  <2>1. row' = [row EXCEPT ![j] = "deleted"] /\ segs' = segs \ {j} BY <1>2 DEF DeleteRow
  <2>2. Status(j) \in {"queued", "processing", "completed", "failed"}
    BY <1>2 DEF DeleteRow, IInv, AudioInv, TypeOK, Present, Status
  <2>3. Contract!Discard(j) BY <2>1, <2>2, StatusStep DEF IInv, Contract!Discard, Contract!Move
  <2> QED BY <2>3 DEF Contract!Next
<1>3. CASE Reload \/ Enroll \/ Restart \/ (\E j \in Jobs : DeleteFiles(j)) \/ UNCHANGED vars
  BY <1>3, SameContract DEF Reload, Enroll, Restart, DeleteFiles, rowVars, vars
<1> QED BY <1>1, <1>2, <1>3, JobRefines, NextCases

\* Every step of the handlers, tasks and deletions is a step of JobContract or changes
\* nothing a client sees: a job has one outcome, gets its transcript in the step that
\* completes it or (nothing heard) never, and never comes back once deleted.
THEOREM JobsImplement == Spec => ContractSpec
PROOF
<1>1. Init => Contract!Init BY DEF Init, Contract!Init, Status
<1> QED BY <1>1, JobContractStep, JobsInvariantHolds, PTL DEF Spec, ContractSpec, Contract!Spec

-----------------------------------------------------------------------------
(* Without preloads and enrolments, unload() frees what jobs have loaded.     *)

\* Points from which a task goes on to unload the engine that is current by then.
WillUnload == {"whisper", "diarize", "align", "decode", "label", "store", "fail", "unload"}

\* Nothing is loaded into an engine that is not built, and while the current one holds
\* a model some task is on its way to unload it.
ModelInv ==
  /\ engine # None => engine <= built
  /\ \A t \in Tasks : using[t] # None => using[t] <= built
  /\ \A e \in Engines : e > built => loaded[e] = {}
  /\ engine # None /\ loaded[engine] \cap Unloaded # {} => \E t \in Tasks : tpc[t] \in WillUnload
  /\ \A t \in Tasks : tpc[t] \in {"whisper", "diarize", "align"} => todo[t] # <<>>

\* A step of one task that loads nothing, builds nothing and does not end unloading.
LEMMA ModelsKept ==
  ASSUME TypeOK, ModelInv, NEW t \in Tasks, NEW p \in Points, tpc' = [tpc EXCEPT ![t] = p],
         engine' = engine, built' = built, loaded' = loaded,
         \A u \in Tasks : using'[u] \in {using[u], None},
         \A u \in Tasks \ {t} : todo'[u] = todo[u],
         tpc[t] \in WillUnload => p \in WillUnload,
         p \in {"whisper", "diarize", "align"} => todo'[t] # <<>>
  PROVE  ModelInv'
PROOF
<1>1. \A u \in Tasks : tpc'[u] = IF u = t THEN p ELSE tpc[u] BY DEF TypeOK
<1>2. (\E u \in Tasks : tpc[u] \in WillUnload) => \E u \in Tasks : tpc'[u] \in WillUnload
  BY <1>1
<1>3. \A u \in Tasks : using'[u] # None => using'[u] <= built' BY DEF ModelInv
<1>4. \A u \in Tasks : tpc'[u] \in {"whisper", "diarize", "align"} => todo'[u] # <<>>
  BY <1>1 DEF ModelInv
<1> QED BY <1>2, <1>3, <1>4 DEF ModelInv

\* An engine that was just built holds nothing.
LEMMA BuiltEmpty ==
  ASSUME TypeOK, ModelInv, Build
  PROVE  /\ engine' = built + 1 /\ built' = built + 1 /\ engine' \in Engines /\ loaded[engine'] = {}
         /\ built \in Nat /\ engine' # None
BY EnginesAssumption, NamesAssumption DEF Build, TypeOK, ModelInv, Engines

LEMMA EngineModels ==
  ASSUME TypeOK, QueueInv, ModelInv, NEW t \in Tasks, EngineStep(t), ~Preload(t)
  PROVE  ModelInv'
PROOF
<1> USE DEF engineVars, Goto, Points, WillUnload
<1>q. tpc[t] \in Serving => todo[t] # <<>> BY DEF QueueInv
<1>1. CASE TakeEngine(t)
  <2>0. \A u \in Tasks : tpc'[u] = IF u = t THEN "hear" ELSE tpc[u]
    BY <1>1 DEF TakeEngine, TypeOK
  <2>1. CASE engine # None
    <3>1. engine' = engine /\ built' = built /\ loaded' = loaded /\ todo' = todo
          /\ \A u \in Tasks : using'[u] = IF u = t THEN engine ELSE using[u]
      BY <1>1, <2>1 DEF TakeEngine, GetEngine, TypeOK
    <3> QED BY <1>1, <2>0, <2>1, <3>1 DEF TakeEngine, ModelInv
  <2>2. CASE engine = None
    <3>1. Build /\ loaded' = loaded /\ todo' = todo /\ using' = [using EXCEPT ![t] = engine']
      BY <1>1, <2>2 DEF TakeEngine, GetEngine
    <3>2. \A u \in Tasks : using'[u] = IF u = t THEN engine' ELSE using[u] BY <3>1 DEF TypeOK
    <3>3. \A u \in Tasks : using[u] # None => using[u] <= built + 1
      BY <3>1, BuiltEmpty DEF ModelInv, TypeOK, Engines
    <3>4. \A e \in Engines : e > built' => loaded[e] = {}
      BY <3>1, BuiltEmpty DEF ModelInv, Engines
    <3> QED BY <2>0, <3>1, <3>2, <3>3, <3>4, BuiltEmpty DEF ModelInv
  <2> QED BY <2>1, <2>2
<1>2. CASE NoEngine(t)
  BY <1>2, ModelsKept DEF NoEngine, Raise
<1>3. CASE Hear(t)
  <2>1. PICK p \in {"store", "whisper"} : tpc' = [tpc EXCEPT ![t] = p] BY <1>3 DEF Hear
  <2> QED BY <1>3, <1>q, <2>1, ModelsKept DEF Hear, Serving
<1>4. CASE Decode(t) \/ Label(t)
  <2>1. PICK p \in {"align", "store", "fail"} : tpc' = [tpc EXCEPT ![t] = p]
    BY <1>4 DEF Decode, Label, Use, Raise
  <2>2. todo[t] # <<>> BY <1>4, <1>q DEF Decode, Label, Use, Serving
  <2> QED BY <1>4, <2>1, <2>2, ModelsKept DEF Decode, Label, Use
<1>5. ASSUME NEW kind \in ModelKinds, LoadFails(t, kind) PROVE ModelInv'
  <2>1. todo[t] # <<>> BY <1>5 DEF LoadFails, ModelKinds, Unloaded, ModelInv
  <2> QED BY <1>5, <2>1, ModelsKept DEF LoadFails, Raise, ModelKinds, Unloaded
<1>6. ASSUME NEW kind \in ModelKinds, Load(t, kind) PROVE ModelInv'
  <2>1. todo[t] # <<>> BY <1>6 DEF Load, ModelKinds, Unloaded, ModelInv
  <2>2. PICK p \in {"diarize", "decode", "label"} : tpc' = [tpc EXCEPT ![t] = p]
    BY <1>6, <2>1 DEF Load, Afterwards, ModelKinds, Unloaded
  <2>3. /\ engine' = engine /\ built' = built /\ todo' = todo /\ using' = using
        /\ loaded' = [loaded EXCEPT ![using[t]] = @ \cup {kind}]
    BY <1>6, <2>1 DEF Load, Keep
  <2>4. \A u \in Tasks : tpc'[u] = IF u = t THEN p ELSE tpc[u] BY <2>2 DEF TypeOK
  <2>5. \E u \in Tasks : tpc'[u] \in WillUnload BY <2>4
  <2>6. \A e \in Engines : e > built => loaded'[e] = {}
    <3> SUFFICES ASSUME NEW e \in Engines, e > built PROVE loaded'[e] = {}
      OBVIOUS
    <3>1. using[t] # e
      <4>1. e \in Nat /\ built \in Nat BY EnginesAssumption DEF TypeOK, Engines
      <4>2. e # None BY NamesAssumption DEF Engines
      <4>3. using[t] # None => using[t] <= built BY DEF ModelInv
      <4> QED BY <4>1, <4>2, <4>3
    <3>2. loaded'[e] = loaded[e] BY <2>3, <3>1 DEF TypeOK
    <3> QED BY <3>2 DEF ModelInv
  <2> QED BY <2>1, <2>3, <2>4, <2>5, <2>6 DEF ModelInv
<1> QED BY <1>1, <1>2, <1>3, <1>4, <1>5, <1>6 DEF EngineStep

\* The current engine emptied, and perhaps another built.
LEMMA FreedModels ==
  ASSUME TypeOK, ModelInv,
         loaded' = IF engine = None THEN loaded ELSE [loaded EXCEPT ![engine] = @ \ Unloaded],
         Build \/ (engine' = engine /\ built' = built),
         \A u \in Tasks : using'[u] \in {using[u], None},
         \A u \in Tasks : tpc'[u] \in {"whisper", "diarize", "align"} => todo'[u] # <<>>
  PROVE  ModelInv'
PROOF
<1>1. \A e \in Engines : loaded'[e] = (IF engine = e THEN loaded[e] \ Unloaded ELSE loaded[e])
  BY NamesAssumption DEF TypeOK, Engines
<1>2. CASE Build
  <2>1. \A e \in Engines : e > built' => loaded'[e] = {}
    BY <1>1, <1>2, BuiltEmpty DEF ModelInv, Engines
  <2>2. loaded'[engine'] = {} BY <1>1, <1>2, BuiltEmpty
  <2>3. \A u \in Tasks : using'[u] # None => using'[u] <= built'
    BY <1>2, BuiltEmpty DEF ModelInv, TypeOK, Engines
  <2> QED BY <1>2, <2>1, <2>2, <2>3, BuiltEmpty DEF ModelInv
<1>3. CASE engine' = engine /\ built' = built
  <2>1. engine # None => loaded'[engine'] \cap Unloaded = {} BY <1>1, <1>3 DEF TypeOK
  <2>2. \A u \in Tasks : using'[u] # None => using'[u] <= built' BY <1>3 DEF ModelInv
  <2>3. \A e \in Engines : e > built' => loaded'[e] = {} BY <1>1, <1>3 DEF ModelInv
  <2> QED BY <1>3, <2>1, <2>2, <2>3 DEF ModelInv
<1> QED BY <1>2, <1>3

LEMMA JobModels ==
  ASSUME TypeOK, QueueInv, ModelInv, NEW t \in Tasks, JobStep(t)
  PROVE  ModelInv'
PROOF
<1> USE DEF taskVars, engineVars, Goto, Points, WillUnload
<1>t. \A q : todo' = [todo EXCEPT ![t] = q] => \A u \in Tasks \ {t} : todo'[u] = todo[u]
  BY DEF TypeOK
<1>1. ASSUME NEW j \in Jobs, NEW mode \in {"auto", "manual"}, Upload(t, j, mode) PROVE ModelInv'
  BY <1>1, <1>t, ModelsKept DEF Upload
<1>2. ASSUME NEW j \in Jobs, NEW f \in Files, BatchAdd(t, j, f) PROVE ModelInv'
  <2>1. tpc' = [tpc EXCEPT ![t] = "batch"] BY <1>2 DEF BatchAdd, TypeOK
  <2> QED BY <1>2, <1>t, <2>1, ModelsKept DEF BatchAdd
<1>3. CASE BatchList(t) \/ UploadFails(t) \/ Seed(t) \/ Store(t) \/ Fail(t) \/ FetchNothing(t) \/ Fetch(t)
  <2>1. PICK p \in {"batch", "free", "unload", "begin"} :
          tpc' = [tpc EXCEPT ![t] = p] /\ (tpc[t] \in WillUnload => p \in WillUnload)
    BY <1>3 DEF BatchList, UploadFails, Seed, Store, Fail, FetchNothing, Fetch
  <2> QED BY <1>3, <1>t, <2>1, ModelsKept DEF BatchList, UploadFails, Seed, Store, Fail, FetchNothing, Fetch
<1>4. CASE Persist(t) \/ BatchAnswer(t) \/ Begin(t)
  <2>1. PICK p \in {"seed", "fetch", "free", "engine", "unload"} :
          tpc' = [tpc EXCEPT ![t] = p] /\ (tpc[t] \in WillUnload => p \in WillUnload)
    BY <1>4 DEF Persist, BatchAnswer, Begin
  <2> QED BY <1>4, <2>1, ModelsKept DEF Persist, BatchAnswer, Begin
<1>5. CASE Unload(t)
  <2>1. PICK p \in {"free", "fetch"} : tpc' = [tpc EXCEPT ![t] = p] BY <1>5 DEF Unload
  <2>2. \A u \in Tasks : tpc'[u] = IF u = t THEN p ELSE tpc[u] BY <2>1 DEF TypeOK
  <2>3. \A u \in Tasks : tpc'[u] \in {"whisper", "diarize", "align"} => todo'[u] # <<>>
    BY <1>5, <1>t, <2>2 DEF Unload, ModelInv
  <2>4. \A u \in Tasks : using'[u] \in {using[u], None} BY <1>5 DEF Unload, TypeOK
  <2> QED BY <1>5, <2>3, <2>4, FreedModels DEF Unload, Free
<1> QED BY <1>1, <1>2, <1>3, <1>4, <1>5 DEF JobStep

LEMMA ColdStep == IInv /\ ModelInv /\ [ColdNext]_vars => ModelInv'
PROOF
<1> SUFFICES ASSUME IInv, ModelInv, [ColdNext]_vars PROVE ModelInv'
  OBVIOUS
<1> USE DEF IInv
<1>1. CASE Reload BY <1>1, FreedModels DEF Reload, taskVars, ModelInv
<1>2. CASE Restart
  <2>1. engine' = None /\ built' = 0 /\ \A e \in Engines : loaded'[e] = {} BY <1>2 DEF Restart
  <2>2. \A t \in Tasks : tpc'[t] = "free" /\ using'[t] = None BY <1>2 DEF Restart
  <2> QED BY <2>1, <2>2 DEF ModelInv
<1>3. CASE (\E j \in Jobs : DeleteFiles(j) \/ DeleteRow(j)) \/ UNCHANGED vars
  BY <1>3 DEF DeleteFiles, DeleteRow, vars, taskVars, engineVars, ModelInv
<1>4. ASSUME NEW t \in Tasks, EngineStep(t), ~Preload(t) PROVE ModelInv'
  BY <1>4, EngineModels
<1>5. ASSUME NEW t \in Tasks, JobStep(t) PROVE ModelInv' BY <1>5, JobModels
<1>6. ColdNext => \/ \E t \in Tasks : (EngineStep(t) /\ ~Preload(t)) \/ JobStep(t)
                  \/ Reload \/ Restart \/ \E j \in Jobs : DeleteFiles(j) \/ DeleteRow(j)
  <2>1. ASSUME NEW t \in Tasks, tpc[t] # "free" PROVE ~Preload(t) BY <2>1 DEF Preload
  <2>2. ASSUME NEW t \in Tasks, EngineStep(t), tpc[t] = "free" PROVE Preload(t)
    BY <2>2 DEF EngineStep, TakeEngine, NoEngine, Hear, Decode, Label, Use, Load, LoadFails, ModelKinds, Unloaded
  <2>3. ASSUME NEW t \in Tasks, Serve(t), tpc[t] = "free" PROVE JobStep(t)
    BY <2>3 DEF Serve, JobStep, TakeEngine, NoEngine, Hear, Decode, Label, Use, Load, LoadFails, ModelKinds, Unloaded
  <2>4. ASSUME NEW t \in Tasks, Serve(t) PROVE (EngineStep(t) /\ ~Preload(t)) \/ JobStep(t)
    BY <2>1, <2>3, <2>4 DEF Serve, EngineStep, JobStep
  <2> QED BY <2>4 DEF ColdNext, Request, Batch, Delete, JobStep
<1> QED BY <1>1, <1>2, <1>3, <1>4, <1>5, <1>6

\* For any jobs, requests and engines, as long as nobody preloads or enrols: when no
\* task is active the recognition and diarization models are out of the current engine,
\* although tasks and reloads unload engines that are not the ones they loaded
\* (routes.py:371).  It says nothing of alignment models, which stay (NoModelsStay).
THEOREM ModelsHold == ColdSpec => []ModelsAreFreed
PROOF
<1>1. Init => ModelInv
  BY DEF Init, ModelInv
<1>2. [ColdNext]_vars => [Next]_vars BY DEF Next
<1>3. IInv /\ ModelInv => ModelsAreFreed BY DEF ModelInv, ModelsAreFreed, Idle, WillUnload
<1> QED BY <1>1, <1>2, <1>3, InitInv, NextInv, ColdStep, PTL DEF ColdSpec
=============================================================================
