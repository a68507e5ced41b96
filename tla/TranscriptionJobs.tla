-------------------------- MODULE TranscriptionJobs --------------------------
(***************************************************************************)
(* Transcription jobs: uploads and batches (api/v1/transcription.py), the  *)
(* background task that transcribes a job (_run_transcription and the      *)
(* engine singleton of api/v1/routes.py, the engine's model cache of       *)
(* services/transcription.py), deletion (api/v1/jobs.py), engine reload    *)
(* and preload, and the death of the process.                              *)
(*                                                                         *)
(* A task t is what one request leads to: its handler and then, after the  *)
(* response, its background tasks one after the other, todo[t].  Tasks     *)
(* interleave at every await and inside asyncio.to_thread.                 *)
(*                                                                         *)
(* Engines are numbered in the order one process builds them; MaxEngines   *)
(* bounds how many.  Each job id is used once.                             *)
(***************************************************************************)
EXTENDS Naturals, Sequences, FiniteSets

CONSTANTS Jobs,        \* ids of TranscriptionJob rows
          Drops,       \* audio files the user puts into the upload directory
          Tasks,       \* requests served at the same time
          MaxEngines,  \* bound: engines built by one process
          None         \* no engine, no file

ASSUME EnginesAssumption == MaxEngines \in Nat \ {0}
ASSUME NamesAssumption == None \notin Jobs \cup Drops \cup (1..MaxEngines)

Engines == 1..MaxEngines
Files == Jobs \cup Drops   \* an upload is named after its job
Unloaded == {"whisper", "diarize"}   \* what unload() lets go of
ModelKinds == Unloaded \cup {"align"}  \* alignment models, of any language

VARIABLES
  row,       \* TranscriptionJob.status, or "absent" / "deleted"
  error,     \* TranscriptionJob.error_message, by cause
  segs,      \* jobs that have TranscriptSegment rows
  files,     \* audio files in the upload directory
  source,    \* the file a job is to transcribe
  accepted,  \* jobs the living process has answered 202 for
  deleting,  \* delete_job requests between unlink and commit
  tpc, todo, \* per task: control point, jobs still to do (head: current)
  pending,   \* per batch request: files listed and not yet queued
  using,     \* per task: the engine object it holds
  caught,    \* per task: the exception of its except clause
  escaped,   \* tasks whose current job ends with an exception
  engine,    \* the singleton _engine
  built,     \* engines built so far
  loaded     \* engine -> models in memory

rowVars == <<row, error, segs>>
diskVars == <<files, source, accepted, deleting>>
taskVars == <<tpc, todo, pending, using, caught, escaped>>
engineVars == <<engine, built, loaded>>
vars == <<rowVars, diskVars, taskVars, engineVars>>

Job(t) == Head(todo[t])
Present(j) == row[j] \notin {"absent", "deleted"}
Goto(t, p) == tpc' = [tpc EXCEPT ![t] = p]

-----------------------------------------------------------------------------
(* Faulty variants of some of the definitions below: the mistakes that the   *)
(* properties are there to catch.  No specification uses them.               *)

PublishBeforeStatus(j, heard) == segs' = segs \cup heard /\ UNCHANGED <<row, error>>
FailureUnrecorded(t) == UNCHANGED <<row, error>>
StatusOutsideEnum(t) ==
  row' = [row EXCEPT ![Job(t)] = "error"] /\ UNCHANGED error
FreeUnlessEscaped(t) == loaded' = IF engine = None \/ t \in escaped THEN loaded
                                  ELSE [loaded EXCEPT ![engine] = @ \ Unloaded]
UnlinkSource(j) == files' = files \ {source[j]}
RemainingSkipsOne(t) ==
  IF Len(todo[t]) > 1 THEN Tail(Tail(todo[t])) ELSE <<>>

-----------------------------------------------------------------------------
Init ==
  /\ row = [j \in Jobs |-> "absent"] /\ error = [j \in Jobs |-> "none"]
  /\ segs = {} /\ files \in SUBSET Drops /\ source = [j \in Jobs |-> None]
  /\ accepted = {} /\ deleting = {}
  /\ tpc = [t \in Tasks |-> "free"] /\ todo = [t \in Tasks |-> <<>>]
  /\ pending = [t \in Tasks |-> {}] /\ using = [t \in Tasks |-> None]
  /\ caught = [t \in Tasks |-> "none"] /\ escaped = {}
  /\ engine = None /\ built = 0 /\ loaded = [e \in Engines |-> {}]

-----------------------------------------------------------------------------
(* create_transcription: commit the row, then write the audio file, then     *)
(* either finish (manual mode) or answer and hand over to the background.    *)

NewRow(j, f) ==
  /\ row[j] = "absent"
  /\ row' = [row EXCEPT ![j] = "queued"]
  /\ source' = [source EXCEPT ![j] = f]
  /\ UNCHANGED <<error, segs, files, deleting>>

\* `mode` is "auto" or "manual": the point the handler goes on from.
Upload(t, j, mode) ==
  /\ tpc[t] = "free" /\ NewRow(j, j)
  /\ Goto(t, mode)
  /\ todo' = [todo EXCEPT ![t] = <<j>>]
  /\ UNCHANGED <<accepted, pending, using, caught, escaped, engineVars>>

\* A file name without a usable component, or a full disk: the row stays.
UploadFails(t) ==
  /\ tpc[t] \in {"auto", "manual"}
  /\ Goto(t, "free") /\ todo' = [todo EXCEPT ![t] = <<>>]
  /\ UNCHANGED <<rowVars, diskVars, pending, using, caught, escaped, engineVars>>

Persist(t) ==
  /\ tpc[t] \in {"auto", "manual"}
  /\ files' = files \cup {Job(t)}
  /\ IF tpc[t] = "manual"
     THEN Goto(t, "seed") /\ UNCHANGED accepted
     ELSE Goto(t, "fetch") /\ accepted' = accepted \cup {Job(t)}
  /\ UNCHANGED <<rowVars, source, deleting>>
  /\ UNCHANGED <<todo, pending, using, caught, escaped, engineVars>>

\* One transaction: status and transcript; `heard` is {j} when there are segments
\* to write and {} when there are none.  UPDATE of a deleted row raises.
Publish(j, heard) ==
  IF Present(j)
  THEN /\ row' = [row EXCEPT ![j] = "completed"] /\ segs' = segs \cup heard
       /\ UNCHANGED error
  ELSE UNCHANGED rowVars

Seed(t) ==
  /\ tpc[t] = "seed"
  /\ Publish(Job(t), {Job(t)})
  /\ Goto(t, "free") /\ todo' = [todo EXCEPT ![t] = <<>>]
  /\ UNCHANGED <<diskVars, pending, using, caught, escaped, engineVars>>

-----------------------------------------------------------------------------
(* create_batch_transcription: one row per audio file that is there *)

BatchList(t) ==
  /\ tpc[t] = "free" /\ files # {}
  /\ Goto(t, "batch") /\ pending' = [pending EXCEPT ![t] = files]
  /\ UNCHANGED <<rowVars, diskVars, todo, using, caught, escaped, engineVars>>

BatchAdd(t, j, f) ==
  /\ tpc[t] = "batch" /\ f \in pending[t] /\ NewRow(j, f)
  /\ pending' = [pending EXCEPT ![t] = @ \ {f}]
  /\ todo' = [todo EXCEPT ![t] = Append(@, j)]
  /\ UNCHANGED <<accepted, tpc, using, caught, escaped, engineVars>>

\* All listed files are queued (or the model's job ids are used up).
BatchAnswer(t) ==
  /\ tpc[t] = "batch"
  /\ pending[t] = {} \/ \A j \in Jobs : row[j] # "absent"
  /\ accepted' = accepted \cup {todo[t][i] : i \in 1..Len(todo[t])}
  /\ pending' = [pending EXCEPT ![t] = {}]
  /\ IF todo[t] = <<>> THEN Goto(t, "free") ELSE Goto(t, "fetch")
  /\ UNCHANGED <<rowVars, files, source, deleting>>
  /\ UNCHANGED <<todo, using, caught, escaped, engineVars>>

-----------------------------------------------------------------------------
(* _get_engine: the singleton, built on first use unless an import fails *)

Build == built < MaxEngines /\ built' = built + 1 /\ engine' = built + 1
GetEngine(t) ==
  IF engine # None
  THEN using' = [using EXCEPT ![t] = engine] /\ UNCHANGED <<engine, built>>
  ELSE Build /\ using' = [using EXCEPT ![t] = engine']

\* Parts of the background task.  An exception is an error message to record.
Raise(t, cause) ==
  /\ caught' = [caught EXCEPT ![t] = cause]
  /\ Goto(t, "fail")

\* UPDATE of a row that a DELETE has removed: StaleDataError, and again in the
\* except clause, so that the exception leaves the background task.
RowThere(j) == Present(j)
Escape(t) == escaped' = escaped \cup {t}

-----------------------------------------------------------------------------
(* _run_transcription(job), run by task t *)

\* db.get finds no row: return, through the finally clause.
FetchNothing(t) ==
  /\ tpc[t] = "fetch" /\ ~Present(Job(t))
  /\ Goto(t, "unload")
  /\ UNCHANGED <<rowVars, diskVars, todo, pending, using, caught, escaped, engineVars>>

Fetch(t) ==
  /\ tpc[t] = "fetch" /\ Present(Job(t))
  /\ Goto(t, "begin")
  /\ UNCHANGED <<rowVars, diskVars, todo, pending, using, caught, escaped, engineVars>>

Begin(t) ==
  /\ tpc[t] = "begin"
  /\ IF RowThere(Job(t))
     THEN /\ row' = [row EXCEPT ![Job(t)] = "processing"]
          /\ Goto(t, "engine") /\ UNCHANGED escaped
     ELSE Escape(t) /\ Goto(t, "unload") /\ UNCHANGED row
  /\ UNCHANGED <<error, segs, diskVars, todo, pending, using, caught, engineVars>>

TakeEngine(t) ==
  /\ tpc[t] = "engine"
  /\ GetEngine(t)
  /\ Goto(t, "hear")
  /\ UNCHANGED <<rowVars, diskVars, todo, pending, caught, escaped, loaded>>

NoEngine(t) ==
  /\ tpc[t] = "engine" /\ engine = None
  /\ Raise(t, "AsrUnavailable")
  /\ UNCHANGED <<rowVars, diskVars, todo, pending, using, escaped, engineVars>>

\* is_near_silent: skip the models; a missing file is not silent.
Hear(t) ==
  /\ tpc[t] = "hear"
  /\ \/ source[Job(t)] \in files /\ Goto(t, "store")
     \/ Goto(t, "whisper")
  /\ UNCHANGED <<rowVars, diskVars, todo, pending, using, caught, escaped, engineVars>>

\* _ensure_models, _get_align_model: each model is loaded unless the engine has
\* it, the alignment model once the language is known.  A task without a job is a
\* preload.
Afterwards(t, kind) ==
  CASE kind = "whisper" -> "diarize"
    [] kind = "diarize" -> IF todo[t] = <<>> THEN "align" ELSE "decode"
    [] kind = "align" -> "label"
Keep(t, kind) == loaded' = [loaded EXCEPT ![using[t]] = @ \cup {kind}]
Preloaded(t) == Goto(t, "free") /\ using' = [using EXCEPT ![t] = None]
Load(t, kind) ==
  /\ tpc[t] = kind
  /\ Keep(t, kind)
  /\ IF kind = "align" /\ todo[t] = <<>> THEN Preloaded(t)
     ELSE Goto(t, Afterwards(t, kind)) /\ UNCHANGED using
  /\ UNCHANGED <<rowVars, diskVars, todo, pending, caught, escaped, engine, built>>

\* Loading raises: fatal to a job, reported by preload.  The alignment model of
\* this language may be missing although that of another is there.
LoadFails(t, kind) ==
  /\ tpc[t] = kind /\ (kind = "align" \/ kind \notin loaded[using[t]])
  /\ IF todo[t] = <<>> THEN Preloaded(t) /\ UNCHANGED caught
     ELSE Raise(t, "load") /\ UNCHANGED using
  /\ UNCHANGED <<rowVars, diskVars, todo, pending, escaped, engineVars>>

\* transcribe reads self._whisper_model and the file; then, aligned (which reads
\* the file again, as the next step does), self._diarize_model and the file.
Use(t, p, kind, next) ==
  /\ tpc[t] = p
  /\ IF kind \notin loaded[using[t]] THEN Raise(t, "model_is_None")
     ELSE \/ source[Job(t)] \in files /\ Goto(t, next) /\ UNCHANGED caught
          \/ Raise(t, "audio")
  /\ UNCHANGED <<rowVars, diskVars, todo, pending, using, escaped, engineVars>>

Decode(t) == Use(t, "decode", "whisper", "align")
Label(t) == Use(t, "label", "diarize", "store")

\* Segments, speaker mappings, embeddings and the status in one commit.  The
\* engine may have found no segments: the job is completed all the same.
Store(t) ==
  /\ tpc[t] = "store"
  /\ \E heard \in {{}, {Job(t)}} : Publish(Job(t), heard)
  /\ IF RowThere(Job(t)) THEN UNCHANGED escaped ELSE Escape(t)
  /\ Goto(t, "unload")
  /\ UNCHANGED <<diskVars, todo, pending, using, caught, engineVars>>

RecordFailure(t) ==
  /\ row' = [row EXCEPT ![Job(t)] = "failed"]
  /\ error' = [error EXCEPT ![Job(t)] = caught[t]]
Fail(t) ==
  /\ tpc[t] = "fail"
  /\ IF RowThere(Job(t)) THEN RecordFailure(t) /\ UNCHANGED escaped
     ELSE Escape(t) /\ UNCHANGED <<row, error>>
  /\ caught' = [caught EXCEPT ![t] = "none"]
  /\ Goto(t, "unload")
  /\ UNCHANGED <<segs, diskVars, todo, pending, using, engineVars>>

\* The finally clause unloads the engine that is current now, or builds one
\* if there is none.  Then the next background task of the response, unless
\* an exception has ended them.  unload() keeps the alignment models.
Free(t) == loaded' = IF engine = None THEN loaded
                     ELSE [loaded EXCEPT ![engine] = @ \ Unloaded]
Remaining(t) == Tail(todo[t])
Unload(t) ==
  LET rest == IF t \in escaped THEN <<>> ELSE Remaining(t)
  IN /\ tpc[t] = "unload"
     /\ Free(t)
     /\ (engine = None /\ Build) \/ UNCHANGED <<engine, built>>
     /\ todo' = [todo EXCEPT ![t] = rest]
     /\ Goto(t, IF rest = <<>> THEN "free" ELSE "fetch")
     /\ using' = [using EXCEPT ![t] = None]
     /\ escaped' = escaped \ {t}
     /\ UNCHANGED <<rowVars, diskVars, pending, caught>>

-----------------------------------------------------------------------------
(* delete_job: unlink the job's own uploads, then delete the row with all    *)
(* that hangs on it.                                                         *)

Unlink(j) == files' = files \ {j}
DeleteFiles(j) ==
  /\ Present(j) /\ j \notin deleting
  /\ Unlink(j)
  /\ deleting' = deleting \cup {j}
  /\ UNCHANGED <<rowVars, source, accepted, taskVars, engineVars>>

DeleteRow(j) ==
  /\ j \in deleting
  /\ row' = [row EXCEPT ![j] = "deleted"] /\ segs' = segs \ {j}
  /\ deleting' = deleting \ {j}
  /\ UNCHANGED <<error, files, source, accepted, taskVars, engineVars>>

-----------------------------------------------------------------------------
(* health_preload loads the models, enroll_speaker those of _ensure_models,  *)
(* and neither unloads them; update_config makes _reload_engine unload the   *)
(* old engine and build another, or keep the old when that fails.            *)

Preload(t) ==
  /\ tpc[t] = "free"
  /\ GetEngine(t)
  /\ Goto(t, "whisper")
  /\ UNCHANGED <<rowVars, diskVars, todo, pending, caught, escaped, loaded>>

\* extract_speaker_embedding runs on the event loop: no await from _get_engine to
\* its return.  Loading may fail at either model.
Enroll ==
  /\ (engine # None /\ UNCHANGED <<engine, built>>) \/ (engine = None /\ Build)
  /\ \E kinds \in {{}, {"whisper"}, Unloaded} :
       loaded' = [loaded EXCEPT ![engine'] = @ \cup kinds]
  /\ UNCHANGED <<rowVars, diskVars, taskVars>>

Reload ==
  /\ loaded' = IF engine = None THEN loaded ELSE [loaded EXCEPT ![engine] = @ \ Unloaded]
  /\ Build \/ UNCHANGED <<engine, built>>
  /\ UNCHANGED <<rowVars, diskVars, taskVars>>

\* The process dies and comes back: rows and files stay, nothing is resumed.
Restart ==
  /\ tpc' = [t \in Tasks |-> "free"] /\ todo' = [t \in Tasks |-> <<>>]
  /\ pending' = [t \in Tasks |-> {}] /\ using' = [t \in Tasks |-> None]
  /\ caught' = [t \in Tasks |-> "none"] /\ escaped' = {} /\ deleting' = {}
  /\ engine' = None /\ built' = 0 /\ loaded' = [e \in Engines |-> {}]
  /\ accepted' = {}
  /\ UNCHANGED <<rowVars, files, source>>

-----------------------------------------------------------------------------
Request(t) == \E j \in Jobs, mode \in {"auto", "manual"} : Upload(t, j, mode)
Batch(t) == BatchList(t)
Serve(t) ==
  \/ UploadFails(t) \/ Persist(t) \/ Seed(t)
  \/ \E j \in Jobs, f \in Files : BatchAdd(t, j, f)
  \/ BatchAnswer(t)
  \/ FetchNothing(t) \/ Fetch(t) \/ Begin(t) \/ TakeEngine(t) \/ NoEngine(t)
  \/ Hear(t) \/ (\E kind \in ModelKinds : Load(t, kind) \/ LoadFails(t, kind))
  \/ Decode(t) \/ Label(t) \/ Store(t) \/ Fail(t) \/ Unload(t)
Delete == \E j \in Jobs : DeleteFiles(j) \/ DeleteRow(j)

ColdNext == \/ \E t \in Tasks : Request(t) \/ Batch(t) \/ Serve(t)
            \/ Reload \/ Delete \/ Restart
Next == ColdNext \/ Enroll \/ \E t \in Tasks : Preload(t)
Spec == Init /\ [][Next]_vars

\* One process where nobody transcribes by hand and only what was uploaded is
\* deleted; the same where anything may be deleted; uploads alone.
Uploaded(j) == source[j] = j
AutoUpload(t) == \E j \in Jobs : Upload(t, j, "auto")
FairNext == \/ Reload \/ Enroll
            \/ \E t \in Tasks : AutoUpload(t) \/ Batch(t) \/ Serve(t) \/ Preload(t)
            \/ \E j \in Jobs : (Uploaded(j) /\ DeleteFiles(j)) \/ DeleteRow(j)
RunNext == FairNext \/ Delete
SoloNext == \E t \in Tasks : AutoUpload(t) \/ Serve(t)
=============================================================================
