# A verification development for Artifice Transcribe

This directory models the parts of Artifice Transcribe whose behaviour depends on who does
what when: model downloads, transcription jobs with their shared engine, the editing of
transcripts, the names of speakers, the files the application keeps, and the model harness
through which it talks to language-model servers. The models are TLA+; TLC checks them on
small instances and TLAPS proves theorems about them for every value of the constants: every
safety property of every passing run is also a theorem. Paths below are relative to
`src/apps/artifice-transcribe/src/artifice_transcribe/` unless they start with `packages/`
or `tests/`.

## 1. Inventory of the system

| Component | State it keeps | Operations | What is hard | What makes it correct |
|---|---|---|---|---|
| Download manager (`services/download/manager.py`, `worker.py`, `models.py`) | four dictionaries keyed by request key (`_active`, `_cancel_flags`, `_inner_threads`, `_queues`), one lock, `DownloadSet` objects, cancel `Event`s | `start_download`, `cancel_download`, `subscribe_events`, `unsubscribe_events`; one worker thread per download, one daemon thread per model it downloads | callers, workers, polls that raise and un-cancellable `snapshot_download` threads interleave; only some steps hold the lock; objects are looked up by key after the lock is gone | one unfinished download and one writer per key; each worker uses its own set and flag; a finished set is final and tells its outcome; cancel ends a download even on a hung network |
| Model API (`api/v1/models.py`, `services/download/__init__.py`) | consent file; per-viewer SSE queue | grant and revoke consent, start, status, cancel, SSE stream | bounded queues drop events; generator decides when the stream is over | `completed` is true when heard; every stream ends; consents are not lost |
| Model registry (`services/download/registry.py`) | constant table | `resolve_transitive` | cycles, shared dependencies | closure without duplicates, the model itself first |
| Job creation (`api/v1/transcription.py`) | job rows, uploaded audio | upload, hand transcription, batch | row is committed before the audio is written; one response carries many background tasks | an accepted job ends; audio is kept while it is needed |
| Worker and engine (`api/v1/routes.py`, `services/transcription.py`, `services/asr_backend.py`) | `_engine` singleton, its cached models; job rows | `_run_transcription`, `_get_engine`, `_reload_engine`, `preload`, `unload` | concurrent tasks share and unload one engine; the row may be deleted at any await; the process may die | one final outcome per job, a transcript only when completed, models freed when idle |
| Parakeet engine (`services/parakeet_engine.py`) | model cache | chunked decoding | chunk stitching | words neither lost nor doubled at a seam |
| Job and segment API (`api/v1/jobs.py`) | segments, edit history, tags, speaker mappings, dictionary | edit, history, split, merge, rename, dictionary, delete | read-modify-write over awaits; sequences of splits and merges | no words lost; history leads to the text; one mapping per label |
| Speaker library (`api/v1/speakers.py`, `api/v1/routes.py:380-443`) | speakers, embeddings, mappings | enrol, delete, match, auto-match | a session sends a change only with its next query; other requests act in between | hand-given names and matches, never anything else, end up on a label |
| Settings (`config.py`, `api/v1/config.py`) | settings object and file | update, reset | applied field by field before a failure | settings describe the engine in use |
| BYOM (`web/routers/byom.py`, `services/inference.py`, `_retry.py`) | provider file | test, save, choose a model, delete; complete and stream | read-modify-write of a file in several system calls, by coroutines and pool threads; retries | a key never meets another server; the file stays private; operations that do not overlap do what they say; retry bound |
| Model harness (`packages/model-harness`) | model registry, provider file | structured-output ladder, resolution, discovery, endpoint policy | fallbacks and their order | never weaker than promised |
| secure_io (`packages/secure-io`) | private files | atomic write, migration | crash between system calls | old or new content, never a torn one |
| Shared UI (`packages/shared-ui`) | handoff files, preferences | create, read, clean up handoffs; update preferences | two applications on one directory | a handoff is read once at most; preferences not lost |
| Exports, search, health, schemas, window, logging, output layout, web client | none of their own | read and format | none | formatting |

Interactions. HTTP handlers run on one event loop; every `await` is a point where another
handler may run, and `asyncio.to_thread` runs engine code beside the loop. Starlette runs
the background tasks of a response one after the other and drops the rest when one raises.
Handlers reach the download manager from any thread. Jobs share the engine singleton;
settings changes replace it. Handlers share the database, each with a session of its own:
an UPDATE of a row another session has deleted raises (`StaleDataError`).

The stores (provider file, consent file, legacy data, speaker rows) share no state with each
other, nor do the parts of the harness. What ties the parts together is small: the consent a
download needs is a set in `DownloadManager` and a file in `ConsentFile`; the model list a
download works through is the constant `Models` there and the result of
`ModelDependencies`; every request of a structured call asks `EndpointPolicy` again;
an inference request picks its model with `ModelChoice`.

`PROJECT.json` lists the hazards, each at its line, with the properties that cover it or
the reason none does yet.

## 2. Modules

| Module | What it is |
|---|---|
| `DownloadManager` | the manager, its callers, worker threads, `snapshot_download` threads and SSE streams |
| `DownloadContract` | the abstract promise of the manager, per key |
| `TranscriptionJobs` | job creation, background worker, engine, deletion, reload, restart |
| `JobContract` | the abstract promise about one job |
| `SegmentEditor` | segments of a finished job: correction, split, merge, history |
| `Speakers` | names of a job's speakers: renames, matching, enrolment |
| `ProviderFile` | the provider file and the handlers that load and save it |
| `ConsentFile` | the file of download consents, with writes cut short |
| `LegacyMigration` | the move of an older version's data at start-up |
| `StructuredCall`, `EndpointPolicy` | one structured model call down the ladder of modes, and the policy each request is checked against |
| `EndpointProbe` | the concurrent scan for local model servers |
| `InferenceEngine`, `ModelChoice` | one summary or cleanup request: settings, model, retries; which installed model serves a role |
| `ModelDependencies` | the models a download needs and what consent is asked for |
| `Registry` | the constant tables of the model registry, for the instances |
| `...Props` | per component: type invariant, safety, action and liveness properties, refinement mapping, fairness |
| `DownloadManagerProofs`, `TranscriptionJobsProofs`, `SegmentEditorProofs`, `SpeakersProofs`, `StructuredCallProofs`, `InferenceEngineProofs` | inductive invariants and theorems of one component |
| `StoresProofs`, `HarnessProofs` | those of the other stores and of the other parts of the harness, and the composition: what is proved of a part holds of `MCStores` and `MCHarness` |
| `MCDownloadManager`, `MCTranscriptionJobs`, `MCSegmentEditor`, `MCStores`, `MCHarness` | the small instances |

`MCStores` holds the four stores side by side and `MCHarness` the four parts of the
harness; a variable `part` says which one moves, so one run checks all of them and its state
count is the sum, not the product.

### 2.1 DownloadManager

State. `active`, `cancelFlags`, `innerThreads`, `queues` are the four dictionaries,
`lock` the manager's lock. DownloadSet objects are numbered in creation order; number *n*
also stands for the cancel Event made with set *n* and for its worker thread, so "the
worker uses its own set" is `wset[w] = w`. `state`, `finished`, `message` are the fields
of the set. `wpc`, `idx`, `errored`, `wset`, `wflag` are a worker's control point and
locals, `inner` the fate of the `snapshot_download` thread it starts for each model,
`spc`, `follows`, `buffer` an SSE generator. `heard` records what a viewer has been sent.

Actions. A step is the code between two points where another thread can be seen to
matter: an acquisition of the lock, a write to a shared object, an event. So `TopCancelled`
marks the model and sets `finished`, and only `SayCancelled` writes the message and emits
`cancelled`; `start_download` is three steps because its check and its insertion happen
under one acquisition (`StartEnter`, `StartAccept`/`StartDecline`, `StartCreate`);
`cancel_download` is two steps without the lock. `snapshot_download` returns or raises
when it likes, or never.

Counting the cached bytes, or the callback of the poll, may raise while the thread runs
(`PollRaises`); the `except` clause registers nothing, so such a thread is lost: alive and
in no dictionary. A live thread is `Stray` from there on and `Tracked` otherwise, and the
contract has the two as `stray` and `writing`. `OneTrackedWriter` is what holds;
`OneWriterPerKey`, of all threads, is what the code means and does not hold (see Findings),
and so for `FinishedMeansTerminal`: a cancelled set is finished while later models are idle.

Left out: byte counts, speeds and texts of events, model sizes, the availability scan, and
`cleanup`, a public method nobody calls.
`Busy` keeps the code's test: an entry that is not finished, or whose registered inner
thread is alive.

### 2.2 TranscriptionJobs

A task is what one request leads to: the handler, then its background tasks (`todo`), one
after the other. `row` is the status column with "absent" and "deleted", `source` the
audio a job reads, `accepted` the jobs the living process has answered 202 for. Engines
are numbered as they are built; `loaded` is the model cache of each, `using` the engine
object a task holds while the singleton `engine` may have been replaced.

`Begin`, `Store` and `Fail` are the three commits of `_run_transcription`. A row deleted in
between makes the commit raise, and the except clause raise again: `Escape`, which ends the
task and drops what is behind it in `todo`. `Unload` is the finally clause: it calls
`_get_engine`, so it unloads whatever engine is current, and builds one if there is none. An
engine caches models of three kinds and `Unloaded` are the two that `unload` clears:
alignment models stay until the engine is replaced. `Preload` and `Enroll` load models
without a job and unload nothing. A decoding may give no segments at all: `Store` then
completes a job that has no transcript. `DeleteFiles` and `DeleteRow` are the two halves of
`delete_job`. `Restart` is the death of the process: rows and files stay, nothing is
resumed.

Each run has the next-state relation its question is about. `ColdSpec` is everything but
preloads and enrolments, so that an idle engine should hold no more than alignment models
(`ModelsAreFreed`). `FairSpec` is one process in which users delete what they uploaded,
`RunSpec` adds the deletion of any job, batches included, and `SoloSpec` is uploads alone.

Left out: decoding itself (an outcome), file names, prompts and languages, auto-matching
of speakers after the commit (it touches speaker mappings only).

### 2.3 SegmentEditor

`segs` holds the segments of one job by number; numbers follow insertion, the order in
which SQLite returns rows of equal start. Texts are sequences of characters, one of them
white space, because splitting strips the halves and merging puts one space between.
Times are ticks, and a split puts the boundary at any tick inside the segment (the code
takes the ratio of the position to the length of the text). `versions` holds the rows of
the history, `Cascade` the foreign key that takes them along with their segment. `Edit`
stands for one item of a PATCH request; the items of a request are consecutive edits.

One window edits at a time, so a handler is one step. Two windows do lose words, as both
handlers read a segment, await, and write it back; nothing in the repository promises
otherwise. A transcript starts as any of `Transcripts`, of which
`TranscriptAssumption` says what the recogniser and the store guarantee: segments sorted by
start. Times may be missing (0.0), equal or end before they start. Or it starts as
`HandSeed`, one segment from 0.0 to 0.0, which hand transcription and a near-silent recording
have in common. The history variable `asr` keeps the first transcript. Splits cannot
mend one that overlaps, so `NoOverlap`, `MergeTakesNeighbour`, `MergeUndoesSplit` and
`WordsKept` speak of those that were `Orderly`; `MergeFindsNeighbour` is the same promise for
all and does not hold. Left out: speaker labels, tags, metadata.

### 2.4 Stores

`ProviderFile`. An async handler gives up the event loop only while it probes an endpoint
(`at[h] = "probe"`); a sync one runs in the thread pool beside it, so `HasTurn` binds
coroutines only. From there each system call of `_load_inference_config` and of secure_io's
`write_private_json_verified` is a step: look, move the legacy file in, read and repair,
truncate, restrict, write, chmod, verify, one second try. `host` picks the platform and
whether its file system keeps permissions; on POSIX a descriptor may outlive the name
(`opened`), on Windows the path is opened anew. `Crash` may happen between any two. Two
history variables say what operations that do not overlap should leave: `want` and `alone`.
On POSIX a handler that saves without having loaded writes first and restricts afterwards;
`SecretsArePrivate` names the one case where the file may stay open, that write failing half-way
(`MayStayOpen`), and `SecretsTouchPrivateFiles`, the promise of secure_io's docstring, does not
hold. `disk` is "garbled" after a write over another's: it then reads as the defaults.

`ConsentFile`. A read, change and write has no await in it, so handlers do not interleave;
but `write_private_json` truncates first, and what is cut short reads as no consents at all:
one torn write loses the consents of all the models, which is why `NothingIsLost` is
promised only until then (`torn`).

`LegacyMigration` follows `config.py` and secure_io's migration: the database, then each upload,
by rename or by copy and unlink; the process may die at each step, a copy may fail, and a
later start may have other settings. What it shows besides its property: a partial copy
of the database stays at the new path and is used by the application from then on, with the
whole original beside it; a failed move lets the application create a database of its
own, after which the older one is never moved.

`Speakers`. A request's session is `draft` (what it sees), `held` (the change it has not sent)
and `left` (renames still to do). SQLAlchemy sends a change with the next query or with the
commit, and does not send one that equals the value it read (`Changes`), so a rename to
the name just read can be lost to a match that commits in between. SQLite lets one session
hold changes (`locker`); another that wants to write waits, or fails (`LockTimeout`). Two
renames of a label without a row insert two, and every later rename of it fails (`TwoRows`).
Clips are stored under the last path component of the name, so two enrolments, also of
different names, may share one file (`path` of a clip): the second to store decides which
voice both read. `VoicesAreTheirOwn` says that does not happen, and it does. Voices are
model values with a table of how alike they are, as integers; cosine similarity is not
computed. `MatchList` is the loop of `_auto_match_speakers` as a recursive function. Two
history variables say what requests that do not overlap should leave: `wanted` and `solo`.

### 2.5 Harness

`StructuredCall` is `run_structured` with the OpenAI-compatible adapter under any of its
modes and the Anthropic one under any override: every exit of a rung is an action, a text is
known by whether it is JSON, validates, or is missing, and a 200 answer may have a body of
any other shape, which raises an error of its own out of the call. `kinds` is what the host
resolves to at this moment, changed by the environment at any step. An adapter checks the
policy (`CheckEndpoint`) and then posts (`Post`), for which the name is resolved again: the
gap that endpoint_policy.py:67-70 records. `moved` remembers whether the host moved in it,
and `FailsClosed` says a request leaves for a forbidden address only then. `EndpointPolicy`
is operators only. `EndpointProbe` has one process per known port, each with two requests to
a server that may answer anything; JSON of another shape raises, and drops the server from
the scan. `InferenceEngine` reads the settings once, lists the server's models when none is
set, asks, and retries as `_retry.py` does; the user installs models and changes the setting
at any step. Below one attempt of the decorator the OpenAI SDK sends the request up to `1 +
SdkRetries` times; the SDK is external and `SdkRetries` is its default of 2, which
`inference.py:115` leaves as it is. `ModelChoice` is `resolve_model`, `_find_installed` and
the tier loop as operators, with first-match indices in place of loops. `ModelDependencies`
is the breadth-first walk of `resolve_transitive`, one dequeued key a step, over every
graph, those with diamonds and cycles included.

Left out: texts of prompts, repairs and error messages, redaction, the pieces of a stream.

## 3. Runs

| Run | Instance | What it shows |
|---|---|---|
| `download_safety` | one key with a dependency, 2 callers, 2 DownloadSets | one worker and one tracked writer per key however start, cancel, restart and failing polls race; outcomes; the contract; finished sets are final |
| `download_hung` | one model, 2 callers, 2 sets; no assumption on the network | a cancelled download ends |
| `download_streams` | one caller, one set, one viewer with a queue of 2 | bounded queues, truth of `completed`, end of streams |
| `jobs_safety` | 2 jobs, 2 tasks, 2 dropped files, 2 engines; no preload, no enrolment | the job contract, ownership of processing jobs, audio, memory |
| `jobs_fair` | 2 jobs, 1 task, 2 dropped files, preloads and enrolments | accepted jobs end |
| `editor_words` | three segments in order, or with missing times, or a seed; two corrections, up to five segments created | words kept in order, no overlap, merge takes the neighbour and undoes a split |
| `stores` | provider file with 2 coroutines and a pool thread on every platform; 2 consents; a database and 2 uploads; 2 speakers, 2 requests, 2 known voices | keys stay with their endpoint, files end up private, choices are kept, consent fails closed, nothing of the older version is lost, names have a reason |
| `harness` | every adapter, overrides included, one host that moves; 3 ports; 7 listings, 4 settings; every graph of 3 models | the ladder descends, results are of the mode they carry unless an override says otherwise, the policy fails closed, reports are true, choices are kept, retries are bounded, consent is honest, everything ends |
| `download_lost_writer`, `jobs_batch_deleted`, `jobs_shared_engine`, `editor_hand_merge` | small instances of the same | violations: see Findings |

The larger runs have 4.1 million (`stores`), 3.4 million (`jobs_safety`), 1.2 million
(`download_safety`), 0.8 million (`editor_words`), 0.6 million (`jobs_fair`) and 0.2 million
(`harness`) distinct states.

Bounds. `MaxSets` bounds the DownloadSets created in a behaviour: two are the smallest
number with a restart, under which the first set's threads may still live. Two models per
key are the smallest number with "the model before" and "the model after" the one cancelled.
`QueueDepth` is small so that queues overflow at once. Two callers give every race of the
lock. `MaxEngines` bounds the engines one process builds; two give a reload under a running
task. Each job id is used once. When a bound is reached the model declines the request,
which is a step the code could also take (`StartDecline`, no more uploads), so no behaviour
is cut short in the middle.

Three segments are the smallest number with one before and one after those merged; five
allow a split of a split, `MaxEdits` a correction before and after. At the bounds an
editor with nothing left to split or merge stops, so its runs do not check for deadlock.

In `stores`, two coroutines and one thread are the smallest mix with both kinds of overlap,
one endpoint beside the shipped one is enough to confuse two keys, and two model names to
lose a choice. Two uploads give a directory that is half moved. Two speakers and bodies
of up to two renames show a session that holds one change while it looks up the next;
`MaxKnown` 2 gives a closest and a second-best voice. In `harness`, three ports are one
per way a port names a provider; the listings are those with no model, only an embedding
model, a recommended one, one in LM Studio's spelling, both spellings, and a vision model;
three models are the smallest graph with a diamond or a cycle behind the key. `MaxAttempts`
4 with `MaxDelay` 3 makes the cap on the delay bite (1, 2, 3 instead of 4). `stores` and
`harness` put parts side by side. A harness part stops when its call, scan or walk has ended and
`jobs_shared_engine` when its uploads are used up, so these runs do not check
for deadlock.

Symmetry is used in safety runs only.

Fairness. `WorkerFairness`: threads that can run are run; a thread that waits for the
lock gets it, since no holder blocks (strong fairness, as lock acquisition is enabled
again and again). `StreamFairness`: the event loop polls the generators; a queue that is
drained faster than it is filled is found empty again and again. `QuietUsers`: users
stop clicking Cancel. Nothing is assumed of the network. `Fairness` of the jobs: the event
loop and its threads run every task that can go on, and a started deletion is carried
out. Users, batches and reloads owe nothing. `CallFairness`, `ProbeFairness` and
`EngineFairness`: the code goes on when it can, and every HTTP request comes back; what it
comes back with is open. httpx's timeouts bound each read, not the answer: a server that
sends a byte now and then for ever is outside this assumption. That the poll of a download
raises is never assumed.

## 4. Findings

Each of these is a run, and `PROJECT.json` quotes the comment or test it contradicts.

- `download_lost_writer`: when the polling of a download raises, its thread goes on unregistered,
  and a restart writes into the same cache beside it.
- `jobs_batch_deleted`: deleting a job of a batch while it is worked on leaves the jobs
  behind it queued for ever.
- `jobs_shared_engine`: a task that ends unloads the models another task is about to use;
  that one fails with an error about `None`.
- `editor_hand_merge`: in a hand-transcription job, and in one of a near-silent recording, every
  segment starts at 0.0, so two halves of a split can never be merged again.

Each of the following is a statement of the repository with a formula that TLC refutes when it
is put in the place of the properties of the named `.cfg`.

| Formula (`.cfg`) | The repository says | The code does |
|---|---|---|
| `FinishedMeansTerminal` (`DownloadSafety`) | `services/download/models.py:61` on `finished`: "`True` when every model has reached a terminal state" | a cancelled download is finished while its later models are idle (`manager.py:243`) |
| `NoModelsStay` (`JobsSafety`) | `services/transcription.py:32`: "Calling `unload()` frees VRAM explicitly" | `unload` (170-177) keeps the alignment models |
| `VoicesAreTheirOwn` (`Stores`) | `api/v1/speakers.py:51`: enrolment is by "a short audio clip of their voice" | two names with the same last path component share one clip file (59-66), so an enrolment may read the other's voice |
| `SecretsTouchPrivateFiles` (`Stores`) | `packages/secure-io/src/secure_io/__init__.py:43`: "The secret never touches an unprotected file" | on POSIX a file that is open to others is truncated and written (146-148) before it is restricted (149); if the write fails it stays open |
| `FloorHolds` (`Harness`) | `packages/model-harness/src/model_harness/driver.py:51-53`: "never a weaker one" than the minimum | after a validation failure the ladder goes on below it (101) |
| `ScrapesAreMarked` (`Harness`) | `contract.py:47-49`: `_extract_json` "runs only on the PROMPTED rung" | `driver.py:122` runs it on every rung |
| `ModeIsTrue` (`Harness`) | `contract.py:92` on JSON_OBJECT: "The provider guarantees syntactically valid JSON" | an Anthropic adapter with that mode as its override asks for nothing (`anthropic_adapter.py:191-237`) |
| `ErrorsAreDocumented` (`Harness`) | `driver.py:71-78`, `openai_adapter.py:176-181`: the errors of a call | a 200 answer of another shape raises KeyError, JSONDecodeError and others (`openai_adapter.py:199-201`) |
| `EveryServerReported` (`Harness`) | `discovery.py:472`: "One ProbeResult per known endpoint that passed policy validation" | an answer of another shape drops the server (386-387), also when it had answered the other list |
| `TotalIsBounded` (`Harness`) | `_retry.py:46`: "Total number of attempts" | `inference.py:115` leaves the SDK's own retries on: up to twelve requests for one completion, three for a streamed one |

Met on the way, without a formula: a
`cancelled` event is sent while the `snapshot_download` thread still writes
(`DownloadManager!CancelRegister`); a job deleted while its upload is written leaves its audio
(`TranscriptionJobs!Persist`); the registry's docstring
(`packages/model-harness/src/model_harness/registry.py:176`) calls Parakeet data only, while
`services/parakeet_engine.py` is in use; `packages/shared-ui/shared_ui/suite.py:48` says it
persists atomically, while two applications share one temporary name.

## 5. Proofs

`DownloadManagerProofs` proves, for any keys, models, callers, viewers and bounds:
`TypesHold`, `OneWorkerHolds`, `OwnSetHolds`, `OneWriterHolds` (of the threads the manager has
not lost), `FinishedStaysFinal`, `OutcomeHolds`, `CompletedHolds` and `Implements` (the manager
implements `DownloadContract`).

The argument. None of these is inductive alone. `IInv` adds: who holds the lock is at a
point where it should (`LockInv`) and the entry it has checked is still not busy; sets are
created in order and an unborn one has no thread (`BirthInv`); an unfinished set is the one
its key's entry names (`ActiveInv`, which gives `OneWorkerPerKey`); each control point of a
worker fixes whether its set is finished and where its index is (`WorkerInv`); entries name
sets of their own key (`EntriesInv`); a live thread that is not lost either belongs to the
model its worker is polling or is the registered thread of its key (`WriterInv`, which with
the busy test gives `OneTrackedWriter`); and a lost one is behind its worker, so that it
stays what it is (`StrayInv`). `WriterInv` is why the code registers the thread before it
marks the set finished; with the two lines the other way round the invariant fails. The
refinement rests on the same invariant: `StartCreate` is the contract's Start because
`LockInv` remembers that the key is not busy, `TopDownload` is Write because no other
tracked thread of the key lives. `OutcomeInv` adds what each control point of a worker knows
of its models: those before the current one are done or in error, a failure among them is
noted in `errored`, those behind it are untouched. `EventInv` says every event queued or
sent is true, and stays so since an ended set stays as it is.

`TranscriptionJobsProofs` proves, for any jobs, files, concurrent requests and engines, and
across deletions, reloads and restarts: `JobTypesHold`, `ProcessingHolds`, `AudioHolds`,
`JobsImplement` (the jobs implement `JobContract`, in which a transcript is written when a
job completes or not at all) and, without preloads and enrolments (`ColdSpec`),
`ModelsHold`, which is about the recognition and diarization models. The invariant: the jobs
in a task's hands have the status its control point allows (`QueueInv`), a processing job is
the current one of some task (`HandInv`), no job is in two hands (`ApartInv`), and whatever
a job or a batch is still to read is there unless its owner is being deleted (`AudioInv`; it
needs to say so of the files a batch has listed and not yet answered for). `ModelInv`, for
`ModelsHold`: while the current engine holds a model of those kinds, some task is on its way
to the finally clause that unloads it.

`StoresProofs` proves `ConsentHolds`, `NothingIsLostHolds`, `ProviderTypesHold`,
`KeyStaysHolds`, `SecretsHold` and `ChoicesHold`, for any models, files, endpoints and
handlers. The consents in the file and in the write in hand are among those agreed to
(`ConsentInv`); a partial copy has its original (`MigrationInv`); every configuration
anywhere pairs a key with its endpoint; and a handler that runs alone finds the file as its
last step left it (`SoloInv`, `Place`), so that what it leaves is private, in whole or in
part, but for the failing write `MayStayOpen` names. `ChoicesKept` needs two more: each
control point belongs to one kind of operation (`KindsInv`), and at each of them `Progress`
says how far a handler that runs alone has come (`KeptInv`): until it saves, what is shown
is what it found; what it holds gives what it was asked for; once it has written, that is in
the file. Of handlers that overlap nothing is said until the last of them ends.

`SpeakersProofs` proves `SpeakersTypesHold` and `NamesHold`, for any labels, voices,
likenesses, requests and known speakers. `SessionInv`: whatever the tables, the renames to do
and the change in hand hold has a reason, at most one session holds changes, and only a
request that renames has any. `KnownInv`: who is known was enrolled or comes from an
older version, whose voices match nobody; a clip is torn or what somebody recorded for its
path, which other names may share: whose voice a name has is therefore not proved, only that it
was enrolled. `RenamesInv` relates the history to the rows
and is what `NamesAreHonest` needs for requests that do not overlap: at rest every label with
at most one row is `Settled`, and while one request alone renames, each label is `Due`:
its name comes with a rename still to do (`Coming`), or with the change in hand, or is in
the session's view already. A change in hand `Fits` the table it was read from; without this
a flushed UPDATE could hit another row. `MatchList` is a recursive function: that it exists
and lists each match once is an induction over the number of labels (`PickExists`,
`MatchListHolds`), and that the least index of a best score is well defined is another
(`ClosestIsBest`).

`StructuredCallProofs` proves `CallTypesHold`, `LadderHolds`, `HonestyHolds` and
`ClosedHolds`, for any set of adapters: the rungs left are weaker than those tried
(`LadderInv`), each request asked for what its kind of adapter asks for in its mode
(`RequestsInv`), which is what the mode promises except under an Anthropic `json_object`
override, `repaired` is in step with the number of requests (`RepairedInv`), and between
check and request the address is the one checked unless the host has moved (`CheckedInv`).
`InferenceEngineProofs` proves `ChoiceHolds`, `PickHolds`, `RetriesHold`, `ResolutionHolds`,
and `FirstTierDecides`: a tier without a usable model means none on any tier, so the loop
over tiers never reaches its second turn. `RetriesHold` bounds the calls, and for any
`SdkRetries` the requests of each call (`PostedInv`: one count per call). It needs the
powers of two that the delays are made of: the recursive function exists and grows, by
induction up to the last attempt, and requests, failures and delays are in step.
`ResolutionHolds` is about `resolve_model` as a function: whatever the role, the listing and
the user's choice, the first rule that applies gives an installed name, and vision is never
guessed.

`HarnessProofs` proves `ReachableHolds` and `OllamaHolds`: a probe that is done made a true
report, a server that answered a list is reported or has raised, and a scan returns when all have
ended (`ProbeInv`); and `DepsTypes` and `ConsentHolds`:
the keys answered and those waiting are needed, no key is answered twice, and whatever an
answered key depends on is answered or waits (`DepsInv`), so when nothing waits the answer is
closed and, being needed, is the least closed set. The size shown is a sum over the set: it
does not depend on the order of the walk, by induction on the length (`TotalIsBytes`).

Composition. `HarnessIsItsParts` and `StoresAreTheirParts` prove that a behaviour of the
composed module is a behaviour of each of its parts (a step of another part is a stutter of
this one); hence `HarnessTypes`, `StoresTypes`, `HarnessIsSafe` and `StoresAreSafe`, all
the promises of the parts at once.

`SegmentEditorProofs` proves, for any typed texts and any bounds, `TypesHold` of every
transcript the recogniser or a seed may start with, and `NeverOverlap`, `MergesNeighbours`,
`MergesUndoSplits` and `WordsAreKept` of those that are orderly at first. `NoOverlap` is
inductive together with `TypeOK`: a split puts both halves inside the old segment, and
between a segment and the first one that starts later there is no third, so joining them
covers nobody else's time. Without overlap no two segments start at once, so "the first that
starts later" is the one shown next. The words of a text are its characters without the
white ones, and a strip takes white ones only (`StripsSayTheSame`), so halves say together
what the segment said, and so does a joined segment. Every segment has a place, its start
and number, and what the transcript says is the words place by place; replacing two
neighbours by one segment that says what they said, in the place of the first, leaves it as
it was, and a split is that backwards.

Inductions over data (lengths, attempts, counts) rest on the well-foundedness of `<` on the
naturals, applied to a set of numbers: a recursive function is written as a choice among the
functions that satisfy its equation, one is shown to exist by induction, and what it computes
by another.

Assumptions used: those the modules name for their constants. `ModelsAssumption` (each key
has between one and `MaxModels` models), `QueueAssumption` (positive queue depth),
`NoneAssumption` (None is none of the others) of the manager; `EnginesAssumption` and
`NamesAssumption` of the jobs; `ProviderAssumption`, `MigrationAssumption`,
`SpeakersAssumption` (labels heard are labels of the job, an older version's speakers have
voices of the old format, likeness is an integer); `PolicyAssumption`, `EndpointAssumption`;
`NameAssumption` (two spellings of a model are both embedding models or neither),
`RegistryAssumption` (embedding models are recommended for embedding only),
`ListingAssumption` and `RetryAssumption`; `AdapterAssumption` (the adapters are among those
a deployer can build), `UrlAssumption` and `ChecksAssumption` of a call; `AsrAssumption` of
the walk; `TextAssumption`, `BoundsAssumption` and `TranscriptAssumption` (sorted by start)
of the editor. TLC evaluates each in the runs.

Model-checked only: liveness (the installed provers reason neither about fairness nor
ENABLED): `CancelEndsDownload`, `StreamsEnd`, `AcceptedJobsEnd`, `HarnessEnds`.

## 6. Plan

1. Settings: the field-by-field update with a failure in the middle, and the engine build
   behind it.
2. Two windows on one transcript: edits, splits and merges that overlap.
3. Preferences and handoffs of the suite, with its other applications as environment.
4. Parakeet's chunk stitching against a reference, on small sequences of tokens.
5. Proofs of what a preloaded engine keeps.

## 7. Not modelled

Exports, search, schemas, templates, styles, packaging and CI have no state of their own.
The numeric side of the engines (decoding, alignment, embeddings, the silence threshold)
is outside TLC's reach and appears as a nondeterministic outcome; so does Parakeet, whose
engine follows the protocol of the WhisperX one. The window, dialogs, logging and bootstrap
code is operating-system glue. The web client is the environment: its requests are the
inputs of the actions, its comments some of the properties.

Of modelled components: the field-by-field update of the other settings; tags, metadata and
the dictionary of a job (single-row updates); a rename body that names one label twice; the
Hugging Face token file, which goes the way of the provider file; the reading of a Windows ACL,
which is an outcome; secure_io's move of a whole directory, which this application does not
call. Of the suite's shared files this application only registers itself, removes expired
handoffs and writes two preferences.

Failures left out: a commit that fails with "database is locked" while its row is still there
(the models of jobs know only rows that are gone; `Speakers` has the locked database);
a read of the provider or consent file that fails once and falls back to the defaults;
a server that drips bytes for ever (see Fairness). `FinishedIsFinal` is about the status of
a download's models, not about `message`, which the worker writes after `finished`.
