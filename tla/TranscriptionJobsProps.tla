----------------------- MODULE TranscriptionJobsProps -----------------------
(* Properties of TranscriptionJobs: what its runs check. *)
EXTENDS TranscriptionJobs

Points == {"free", "auto", "manual", "seed", "batch", "fetch", "begin", "engine",
           "hear", "whisper", "diarize", "decode", "align", "label", "store", "fail", "unload"}
Causes == {"none", "AsrUnavailable", "load", "audio", "model_is_None"}

\* Every variable has its type.
TypeOK ==
  /\ row \in [Jobs -> {"absent", "queued", "processing", "completed", "failed", "deleted"}]
  /\ error \in [Jobs -> Causes] /\ segs \subseteq Jobs /\ files \subseteq Files
  /\ source \in [Jobs -> Files \cup {None}]
  /\ accepted \subseteq Jobs /\ deleting \subseteq Jobs
  /\ tpc \in [Tasks -> Points] /\ todo \in [Tasks -> Seq(Jobs)]
  /\ pending \in [Tasks -> SUBSET Files] /\ using \in [Tasks -> Engines \cup {None}]
  /\ caught \in [Tasks -> Causes] /\ escaped \subseteq Tasks
  /\ engine \in Engines \cup {None} /\ built \in 0..MaxEngines
  /\ loaded \in [Engines -> SUBSET ModelKinds]

\* Points of _run_transcription between its first commit and its last.
InHand == {"engine", "hear", "whisper", "diarize", "decode", "align", "label", "store",
           "fail"}

\* A job shown as processing is in the hands of exactly one background task, and
\* no other task will come to it (routes.py:263), as long as the process that accepted it lives.
ProcessingIsInHand ==
  /\ \A j \in accepted : row[j] = "processing" =>
       \E t \in Tasks : todo[t] # <<>> /\ Job(t) = j /\ tpc[t] \in InHand
  /\ \A t, u \in Tasks : \A i \in 1..Len(todo[t]), k \in 1..Len(todo[u]) :
       todo[t][i] = todo[u][k] => t = u /\ i = k

\* A job that waits or runs still has its audio, unless the job that uploaded it
\* is being deleted: deleting a job never takes the audio of a batch job that
\* reads a dropped file or a living job's upload (jobs.py:596).
AudioIsKept ==
  \A j \in accepted : row[j] \in {"queued", "processing"} =>
    \/ source[j] \in files
    \/ source[j] \in Jobs /\ (source[j] \in deleting \/ row[source[j]] = "deleted")

Idle == \A t \in Tasks : tpc[t] = "free"

\* When nothing runs, the recognition and diarization models that jobs have loaded
\* are out of the current engine, although tasks and reloads unload engines that are
\* not their own (routes.py:371).  A run without preloads and enrolments checks it:
\* those load models and leave them there.  Alignment models: see NoModelsStay.
ModelsAreFreed == Idle /\ engine # None => loaded[engine] \cap Unloaded = {}

\* Unloading frees the memory of the models (services/transcription.py:32): when
\* nothing runs and only jobs have run, the current engine holds none.  False: unload leaves
\* the alignment models (README, Findings).
NoModelsStay == Idle /\ engine # None => loaded[engine] = {}

\* No job fails because the model it has just loaded is gone: the engine caches
\* its models until unload is called (services/transcription.py:31).
LoadedModelsStay == \A j \in Jobs : error[j] # "model_is_None"

-----------------------------------------------------------------------------
(* The jobs implement JobContract. *)

Status(j) == IF row[j] = "absent" THEN "none" ELSE IF row[j] = "deleted" THEN "gone" ELSE row[j]
Contract == INSTANCE JobContract WITH
  status <- [j \in Jobs |-> Status(j)], transcripts <- segs
ContractSpec == Contract!Spec

-----------------------------------------------------------------------------
(* Liveness.  The event loop and its threads run every task that can go on,   *)
(* and a started deletion is carried out; users and reloads owe nothing.      *)

Fairness == /\ \A t \in Tasks : WF_vars(Serve(t))
            /\ \A j \in Jobs : WF_vars(DeleteRow(j))
FairSpec == Init /\ [][FairNext]_vars /\ Fairness
RunSpec == Init /\ [][RunNext]_vars /\ Fairness
ColdSpec == Init /\ [][ColdNext]_vars
SoloSpec == Init /\ [][SoloNext]_vars

\* A job that was accepted as queued ends: completed, failed, or deleted by the
\* user (transcription.py:273, app.js:429 polls for it).
AcceptedJobsEnd ==
  \A j \in Jobs : j \in accepted ~> row[j] \in {"completed", "failed", "deleted"}

=============================================================================
