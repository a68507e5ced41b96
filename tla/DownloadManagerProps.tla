------------------------ MODULE DownloadManagerProps ------------------------
(* Properties of DownloadManager: what its runs check and its theorems state. *)
EXTENDS DownloadManager

WorkerPoints == {"unborn", "begin", "top", "poll", "won", "stop", "mark", "lost",
                 "lost_check", "say_cancelled", "say_quiet", "say_end", "exit"}

CallTypes ==
  /\ consents \subseteq Keys /\ lock \in Callers \cup {None}
  /\ at \in [Callers -> {"idle", "check", "create", "cancel"}]
  /\ wants \in [Callers -> Keys \cup {None}]
  /\ made \in 0..MaxSets
DictTypes ==
  /\ active \in [Keys -> Ids \cup {None}]
  /\ cancelFlags \in [Keys -> Ids \cup {None}]
  /\ innerThreads \in [Keys -> Threads \cup {None}]
  /\ queues \in [Keys -> SUBSET Clients]
SetTypes ==
  /\ keyOf \in [Ids -> Keys \cup {None}]
  /\ state \in [Ids -> [Slots -> ModelStates]]
  /\ finished \subseteq Ids /\ message \in [Ids -> Messages] /\ cancelled \subseteq Ids
WorkTypes ==
  /\ wpc \in [Ids -> WorkerPoints]
  /\ wset \in [Ids -> Ids \cup {None}] /\ wflag \in [Ids -> Ids \cup {None}]
  /\ idx \in [Ids -> 1..(MaxModels + 1)] /\ errored \subseteq Ids
  /\ inner \in [Ids -> [Slots -> {"unborn", "running", "ok", "error"}]]
SseTypes ==
  /\ spc \in [Clients -> {"off", "open", "last", "returned", "dropped"}]
  /\ follows \in [Clients -> Keys \cup {None}]
  /\ buffer \in [Clients -> Seq(Events)]
  /\ \A s \in Clients : Len(buffer[s]) <= QueueDepth
  /\ heard \in [Clients -> SUBSET Events]

\* Every variable has its type: dictionaries hold known objects or nothing, and
\* no SSE queue of manager.py:195 grows beyond its depth.
TypeOK == CallTypes /\ DictTypes /\ SetTypes /\ WorkTypes /\ SseTypes

-----------------------------------------------------------------------------
Born(n) == wpc[n] # "unborn"
Unfinished(n) == Born(n) /\ n \notin finished
Writes(n, i) == inner[n][i] = "running"

\* A live thread the manager has lost: its worker took a polling error for the
\* end of the download and never registered it.
Stray(n, i) ==
  /\ Writes(n, i)
  /\ state[n][i] = "error" \/ (wpc[n] = "lost" /\ idx[n] = i)
Tracked(n, i) == Writes(n, i) /\ ~Stray(n, i)

\* No two observers race into creating duplicate workers for a key: a key has at
\* most one unfinished DownloadSet (start_download's docstring, manager.py:119).
OneWorkerPerKey ==
  \A m, n \in Ids : Unfinished(m) /\ Unfinished(n) /\ keyOf[m] = keyOf[n] => m = n

\* A worker updates the DownloadSet and obeys the cancel Event made for it, though
\* it looks both up by key after start_download has let go (manager.py:235).
WorkersOwnTheirSet ==
  \A w \in Ids : wpc[w] \notin {"unborn", "begin"} => wset[w] = w /\ wflag[w] = w

\* Of the snapshot_download threads a manager knows of, at most one writes for a
\* key, also when a cancelled download is restarted while its uncancellable thread
\* lives (manager.py:135).  The threads a polling error has lost are left out.
OneTrackedWriter ==
  \A m, n \in Ids, i, j \in Slots :
    Tracked(m, i) /\ Tracked(n, j) /\ keyOf[m] = keyOf[n] => m = n /\ i = j

\* What manager.py:135-138 sets out to guarantee: no second snapshot_download ever
\* writes into the cache directory of a key beside a live one.  False
\* (download_lost_writer).
OneWriterPerKey ==
  \A m, n \in Ids, i, j \in Slots :
    Writes(m, i) /\ Writes(n, j) /\ keyOf[m] = keyOf[n] => m = n /\ i = j

Used(n) == 1..Len(Models[keyOf[n]])

\* A finished set tells its outcome by itself, whatever events were dropped: all
\* models done, or one in error or cancelled, and none downloading (manager.py:71).
\* The models after a cancelled one stay idle; see FinishedMeansTerminal.
OutcomeRecorded ==
  \A n \in finished :
    /\ \A i \in Used(n) : state[n][i] # "downloading"
    /\ \/ \A i \in Used(n) : state[n][i] = "done"
       \/ \E i \in Used(n) : state[n][i] \in {"error", "cancelled"}

\* What models.py:61 says of `finished`: every model has reached a terminal state.
\* False: those after a cancelled one stay idle (README, Findings).
FinishedMeansTerminal ==
  \A n \in finished : \A i \in Used(n) : state[n][i] \in {"done", "error", "cancelled"}

\* A viewer told `completed` can rely on it: every model is done (app.js:2352).
CompletedIsTrue ==
  \A s \in Clients : \A e \in heard[s] :
    e.type = "completed" =>
      \A i \in 1..Len(Models[keyOf[e.set]]) : state[e.set][i] = "done"

\* A finished set stays as it was: no late step of its worker, of a later worker
\* or of a cancel changes a model's state or takes `finished` back.
FinishedIsFinal ==
  [][\A n \in finished : n \in finished' /\ state'[n] = state[n]]_<<finished, state>>

-----------------------------------------------------------------------------
(* The manager implements DownloadContract. *)

Phase(k) == IF active[k] = None THEN "never"
            ELSE IF active[k] \in finished THEN "ended" ELSE "running"
Contract == INSTANCE DownloadContract WITH
  phase <- [k \in Keys |-> Phase(k)],
  writing <- {k \in Keys : \E n \in Ids, i \in Slots : keyOf[n] = k /\ Tracked(n, i)},
  stray <- {k \in Keys : \E n \in Ids, i \in Slots : keyOf[n] = k /\ Stray(n, i)}
ContractSpec == Contract!Spec

-----------------------------------------------------------------------------
(* Liveness.  Threads are scheduled: each worker step that can be taken is    *)
(* taken, PollRaises apart, which only befalls it, and so are the steps of a  *)
(* caller inside the manager.  A thread that waits for the lock gets it in    *)
(* the end, since holders only run a few lines (strong fairness).  A stream   *)
(* drains its queue faster than events arrive, one per half second or click,  *)
(* so it finds the queue empty again and again.  Users and the network owe    *)
(* nothing.                                                                   *)

WorkerFairness ==
  /\ \A w \in Ids : WF_vars(Work(w)) /\ SF_vars(ModelDone(w)) /\ SF_vars(CancelRegister(w))
  /\ \A c \in Callers : WF_vars(StartStep(c)) /\ WF_vars(CancelEmit(c))
StreamFairness ==
  \A s \in Clients : WF_vars(Stream(s)) /\ SF_vars(StreamSeesEnd(s)) /\ SF_vars(StreamReturn(s))
\* Users stop clicking Cancel at some point.
QuietUsers == <>[][~ \E c \in Callers, k \in Keys : CancelSet(c, k)]_vars

\* No assumption on the network: snapshot_download may hang for ever.
HungSpec == Spec /\ WorkerFairness
StreamSpec == Spec /\ WorkerFairness /\ StreamFairness /\ QuietUsers

\* Cancel works on a hung network: once the Event of a download is set its worker
\* finishes the set and exits, whatever snapshot_download does (worker.py:97).
CancelEndsDownload ==
  \A n \in Ids : n \in cancelled /\ Born(n) ~> n \in finished /\ wpc[n] = "exit"

\* No viewer is left on heartbeats (models.py:257): if the workers come to rest, on
\* whichever of their exits, every SSE stream is closed.
AtRest == \A w \in Ids : wpc[w] \in {"unborn", "exit"}
Streaming(s) == spc[s] \in {"open", "last"}
StreamsEnd == \A s \in Clients : <>[]AtRest => ~ <>[]Streaming(s)

=============================================================================
