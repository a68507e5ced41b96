--------------------------- MODULE DownloadManager ---------------------------
(***************************************************************************)
(* The ASR model download manager (services/download/manager.py and        *)
(* worker.py) with the HTTP handlers that drive it (api/v1/models.py).     *)
(*                                                                         *)
(* Processes: callers (request handlers, or any thread that calls the      *)
(* manager), one worker thread per DownloadSet, one snapshot_download      *)
(* thread per model a worker has reached, and the SSE streams.             *)
(*                                                                         *)
(* DownloadSet objects are numbered in creation order.  Number n stands    *)
(* for the object, for the cancel Event created with it and for the worker *)
(* thread started for it.  MaxSets bounds how many are ever created.       *)
(***************************************************************************)
EXTENDS Naturals, Sequences, FiniteSets

CONSTANTS Keys,        \* registry keys a request can name
          Repos,       \* Hugging Face repositories
          Models,      \* key -> sequence of repos: resolve_transitive(key)
          MaxModels,   \* length of the longest such sequence
          Callers,     \* threads that call the manager
          Clients,     \* SSE viewers
          MaxSets,     \* bound: DownloadSets created in a behaviour
          QueueDepth,  \* _SSE_QUEUE_DEPTH
          None         \* absent dictionary entry, free lock

Ids == 1..MaxSets
Slots == 1..MaxModels

ASSUME ModelsAssumption ==
  /\ MaxSets \in Nat /\ MaxModels \in Nat
  /\ Models \in [Keys -> Seq(Repos)]
  /\ \A k \in Keys : Len(Models[k]) \in Slots

ASSUME QueueAssumption == QueueDepth \in Nat \ {0}

Threads == [set : Ids, slot : Slots]
ASSUME NoneAssumption == None \notin Callers \cup Ids \cup Keys \cup Threads

ModelStates == {"idle", "downloading", "done", "error", "cancelled"}
Messages == {"none", "cancelled_by_user", "some_models_failed"}
EventTypes == {"progress", "error", "cancelling", "cancelled", "completed"}
\* `set` tags an event with the DownloadSet it is about; the code sends the key.
Events == [type : EventTypes, set : Ids]

VARIABLES
  consents,      \* keys with recorded consent
  lock,          \* holder of self._lock, or None
  at, wants,     \* per caller: where it is in a manager call, and on which key
  made,          \* number of DownloadSets created so far
  active,        \* self._active:        key -> DownloadSet
  cancelFlags,   \* self._cancel_flags:  key -> cancel Event
  innerThreads,  \* self._inner_threads: key -> snapshot_download thread
  queues,        \* self._queues:        key -> subscribed clients
  keyOf,         \* DownloadSet.request_key
  state,         \* DownloadSet.models[i].state
  finished,      \* DownloadSets whose `finished` is True
  message,       \* DownloadSet.error_message
  cancelled,     \* cancel Events that are set
  wpc, wset, wflag, idx, errored,  \* per worker: control point and locals
  inner,         \* snapshot_download threads: set -> slot -> progress
  spc, follows,  \* per SSE stream: control point and key
  buffer,        \* the stream's bounded event queue
  heard          \* what the viewer has been sent, ticks left out

callVars == <<consents, lock, at, wants, made>>
dictVars == <<active, cancelFlags, innerThreads, queues>>
setVars == <<keyOf, state, finished, message, cancelled>>
workVars == <<wpc, wset, wflag, idx, errored, inner>>
sseVars == <<spc, follows, buffer, heard>>
vars == <<callVars, dictVars, setVars, workVars, sseVars>>

Alive(t) == t \in Threads /\ inner[t.set][t.slot] = "running"
Key(w) == keyOf[w]
Last(w) == Len(Models[Key(w)])
Goto(w, p) == wpc' = [wpc EXCEPT ![w] = p]

-----------------------------------------------------------------------------
(* Faulty variants of some of the definitions below: the mistakes that the   *)
(* properties are there to catch.  No specification uses them.               *)

NoMutualExclusion == TRUE
BusyIgnoringInner(k) == active[k] \in Ids \ finished
NotRegistered(w) == UNCHANGED innerThreads
CancelLeavesModel(w, s) ==
  state' = IF s = "cancelled" THEN state
           ELSE [state EXCEPT ![wset[w]][idx[w]] = s]
FinishUnlessErrored(w) ==
  finished' = IF w \in errored THEN finished ELSE finished \cup {wset[w]}
BusyIgnoringWorker(k) == active[k] \in Ids /\ Alive(innerThreads[k])
StopBetweenModelsOnly(w) == wpc[w] = "top" /\ wflag[w] \in cancelled
LastModelFailed(w) == state[wset[w]][Last(w)] = "error"
OfferUnbounded(k, type, n) ==
  [c \in Clients |-> IF c \in queues[k]
                     THEN Append(buffer[c], [type |-> type, set |-> n])
                     ELSE buffer[c]]
CancelFinishesAtOnce(c, k) ==
  /\ at[c] = "idle" /\ cancelFlags[k] \in Ids
  /\ cancelled' = cancelled \cup {cancelFlags[k]}
  /\ finished' = finished \cup {cancelFlags[k]}
  /\ at' = [at EXCEPT ![c] = "cancel"] /\ wants' = [wants EXCEPT ![c] = k]
  /\ UNCHANGED <<consents, lock, made, dictVars, workVars, sseVars>>
  /\ UNCHANGED <<keyOf, state, message>>

-----------------------------------------------------------------------------
LockFree == lock = None
Register(w) ==
  innerThreads' = [innerThreads EXCEPT ![Key(w)] = [set |-> w, slot |-> idx[w]]]
Mark(w, s) == state' = [state EXCEPT ![wset[w]][idx[w]] = s]
Finish(w) == finished' = finished \cup {wset[w]}
StopRequested(w) == wflag[w] \in cancelled

\* _emit: offer an event to every queue of key k; a full queue drops it.
Offer(k, type, n) ==
  [c \in Clients |-> IF c \in queues[k] /\ Len(buffer[c]) < QueueDepth
                     THEN Append(buffer[c], [type |-> type, set |-> n])
                     ELSE buffer[c]]
Emit(k, type, n) == /\ buffer' = Offer(k, type, n)
                    /\ UNCHANGED <<spc, follows, heard>>

Init ==
  /\ consents = {} /\ lock = None /\ made = 0
  /\ at = [c \in Callers |-> "idle"] /\ wants = [c \in Callers |-> None]
  /\ active = [k \in Keys |-> None] /\ cancelFlags = [k \in Keys |-> None]
  /\ innerThreads = [k \in Keys |-> None] /\ queues = [k \in Keys |-> {}]
  /\ keyOf = [n \in Ids |-> None] /\ finished = {} /\ cancelled = {}
  /\ state = [n \in Ids |-> [i \in Slots |-> "idle"]]
  /\ message = [n \in Ids |-> "none"]
  /\ wpc = [n \in Ids |-> "unborn"] /\ idx = [n \in Ids |-> 1]
  /\ wset = [n \in Ids |-> None] /\ wflag = [n \in Ids |-> None]
  /\ errored = {} /\ inner = [n \in Ids |-> [i \in Slots |-> "unborn"]]
  /\ spc = [c \in Clients |-> "off"] /\ follows = [c \in Clients |-> None]
  /\ buffer = [c \in Clients |-> <<>>] /\ heard = [c \in Clients |-> {}]

-----------------------------------------------------------------------------
(* Consent *)

RecordConsent(k) == /\ consents' = consents \cup {k}
                    /\ UNCHANGED <<lock, at, wants, made>>
                    /\ UNCHANGED <<dictVars, setVars, workVars, sseVars>>
RevokeConsent(k) == /\ consents' = consents \ {k}
                    /\ UNCHANGED <<lock, at, wants, made>>
                    /\ UNCHANGED <<dictVars, setVars, workVars, sseVars>>

-----------------------------------------------------------------------------
(* start_download: lock; check consent, duplicates and a live inner thread; *)
(* create the set and start its worker; unlock                              *)

StartEnter(c, k) ==
  /\ at[c] = "idle" /\ LockFree
  /\ lock' = c
  /\ at' = [at EXCEPT ![c] = "check"] /\ wants' = [wants EXCEPT ![c] = k]
  /\ UNCHANGED <<consents, made, dictVars, setVars, workVars, sseVars>>

\* The existing set is still in progress, or its inner thread still writes.
Busy(k) == /\ active[k] \in Ids
           /\ active[k] \in finished => Alive(innerThreads[k])

\* PermissionError, or the existing DownloadSet is returned (or the model's
\* bound MaxSets is reached).
StartDecline(c) ==
  /\ at[c] = "check"
  /\ wants[c] \notin consents \/ Busy(wants[c]) \/ made = MaxSets
  /\ lock' = None /\ at' = [at EXCEPT ![c] = "idle"]
  /\ UNCHANGED <<consents, wants, made, dictVars, setVars, workVars, sseVars>>

StartAccept(c) ==
  /\ at[c] = "check"
  /\ wants[c] \in consents /\ ~Busy(wants[c])
  /\ made < MaxSets
  /\ at' = [at EXCEPT ![c] = "create"]
  /\ UNCHANGED <<consents, lock, wants, made>>
  /\ UNCHANGED <<dictVars, setVars, workVars, sseVars>>

StartCreate(c) ==
  LET k == wants[c]
      n == made + 1
  IN /\ at[c] = "create" /\ n \in Ids
     /\ made' = n /\ lock' = None /\ at' = [at EXCEPT ![c] = "idle"]
     /\ active' = [active EXCEPT ![k] = n]
     /\ cancelFlags' = [cancelFlags EXCEPT ![k] = n]
     /\ keyOf' = [keyOf EXCEPT ![n] = k]
     /\ wpc' = [wpc EXCEPT ![n] = "begin"]
     /\ UNCHANGED <<consents, wants, innerThreads, queues>>
     /\ UNCHANGED <<state, finished, message, cancelled>>
     /\ UNCHANGED <<wset, wflag, idx, errored, inner, sseVars>>

-----------------------------------------------------------------------------
(* cancel_download takes no lock: set the Event, then emit `cancelling` *)

CancelSet(c, k) ==
  /\ at[c] = "idle" /\ cancelFlags[k] \in Ids
  /\ cancelled' = cancelled \cup {cancelFlags[k]}
  /\ at' = [at EXCEPT ![c] = "cancel"] /\ wants' = [wants EXCEPT ![c] = k]
  /\ UNCHANGED <<consents, lock, made, dictVars, workVars, sseVars>>
  /\ UNCHANGED <<keyOf, state, finished, message>>

CancelEmit(c) ==
  LET k == wants[c]
  IN /\ at[c] = "cancel"
     /\ at' = [at EXCEPT ![c] = "idle"]
     /\ IF cancelFlags[k] \in Ids
        THEN Emit(k, "cancelling", cancelFlags[k])
        ELSE UNCHANGED sseVars
     /\ UNCHANGED <<consents, lock, wants, made, dictVars, setVars, workVars>>

-----------------------------------------------------------------------------
(* The worker thread of set w: _download_worker.  Every access to a         *)
(* DownloadSet goes through wset[w] and wflag[w], read when it starts.      *)

WorkerBegin(w) ==
  /\ wpc[w] = "begin"
  /\ wset' = [wset EXCEPT ![w] = active[Key(w)]]
  /\ wflag' = [wflag EXCEPT ![w] = cancelFlags[Key(w)]]
  /\ Goto(w, "top")
  /\ UNCHANGED <<idx, errored, inner, callVars, dictVars, setVars, sseVars>>

\* Cancelled before model idx: only that model is marked.
TopCancelled(w) ==
  /\ wpc[w] = "top" /\ idx[w] <= Last(w) /\ StopRequested(w)
  /\ Mark(w, "cancelled")
  /\ Finish(w)
  /\ Goto(w, "say_cancelled")
  /\ UNCHANGED <<keyOf, message, cancelled, wset, wflag, idx, errored, inner>>
  /\ UNCHANGED <<callVars, dictVars, sseVars>>

\* Start model idx: launch its snapshot_download thread and start polling, or
\* fail to (the cache directory cannot be made, the thread cannot start).
TopDownload(w) ==
  /\ wpc[w] = "top" /\ idx[w] <= Last(w) /\ ~StopRequested(w)
  /\ Mark(w, "downloading")
  /\ Emit(Key(w), "progress", w)
  /\ \/ inner' = [inner EXCEPT ![w][idx[w]] = "running"] /\ Goto(w, "poll")
     \/ Goto(w, "lost") /\ UNCHANGED inner
  /\ UNCHANGED <<keyOf, finished, message, cancelled, wset, wflag, idx, errored>>
  /\ UNCHANGED <<callVars, dictVars>>

\* All models handled: `finished` first, the verdict in the next step.
TopEnd(w) ==
  /\ wpc[w] = "top" /\ idx[w] > Last(w)
  /\ Finish(w)
  /\ Goto(w, "say_end")
  /\ UNCHANGED <<keyOf, state, message, cancelled, wset, wflag, idx, errored>>
  /\ UNCHANGED <<inner, callVars, dictVars, sseVars>>

\* One turn of the polling loop: download_done is looked at before cancel.
PollTick(w) ==
  /\ wpc[w] = "poll" /\ inner[w][idx[w]] = "running" /\ ~StopRequested(w)
  /\ Emit(Key(w), "progress", w)
  /\ UNCHANGED <<callVars, dictVars, setVars, workVars>>

Poll(w) ==
  /\ wpc[w] = "poll"
  /\ \/ inner[w][idx[w]] = "ok" /\ Goto(w, "won")
     \/ inner[w][idx[w]] = "error" /\ Goto(w, "lost")
     \/ inner[w][idx[w]] = "running" /\ StopRequested(w) /\ Goto(w, "stop")
  /\ UNCHANGED <<wset, wflag, idx, errored, inner>>
  /\ UNCHANGED <<callVars, dictVars, setVars, sseVars>>

\* Counting the cached bytes, or the callback, raises in a turn of the loop: the
\* same handler as a failed download, whether the thread has ended or runs on.
PollRaises(w) ==
  /\ wpc[w] = "poll"
  /\ Goto(w, "lost")
  /\ UNCHANGED <<wset, wflag, idx, errored, inner>>
  /\ UNCHANGED <<callVars, dictVars, setVars, sseVars>>

\* Register the thread under the lock, mark the model DONE, go on.
ModelDone(w) ==
  /\ wpc[w] = "won" /\ LockFree
  /\ Register(w)
  /\ Mark(w, "done")
  /\ Emit(Key(w), "progress", w)
  /\ idx' = [idx EXCEPT ![w] = @ + 1]
  /\ Goto(w, "top")
  /\ UNCHANGED <<callVars, active, cancelFlags, queues>>
  /\ UNCHANGED <<keyOf, finished, message, cancelled, wset, wflag, errored, inner>>

\* except _CancelledError: register the thread that is still running ...
CancelRegister(w) ==
  /\ wpc[w] = "stop" /\ LockFree
  /\ Register(w)
  /\ Goto(w, "mark")
  /\ UNCHANGED <<callVars, active, cancelFlags, queues, setVars, sseVars>>
  /\ UNCHANGED <<wset, wflag, idx, errored, inner>>

\* ... then CANCELLED and finished ...
CancelMark(w) ==
  /\ wpc[w] = "mark"
  /\ Mark(w, "cancelled")
  /\ Finish(w)
  /\ Goto(w, "say_cancelled")
  /\ UNCHANGED <<keyOf, message, cancelled, wset, wflag, idx, errored, inner>>
  /\ UNCHANGED <<callVars, dictVars, sseVars>>

\* ... then the message and the event, and return.
SayCancelled(w) ==
  /\ wpc[w] = "say_cancelled"
  /\ message' = [message EXCEPT ![wset[w]] = "cancelled_by_user"]
  /\ Emit(Key(w), "cancelled", w)
  /\ Goto(w, "exit")
  /\ UNCHANGED <<callVars, dictVars, keyOf, state, finished, cancelled>>
  /\ UNCHANGED <<wset, wflag, idx, errored, inner>>

\* except Exception: the model is in ERROR and an event says so ...
ModelError(w) ==
  /\ wpc[w] = "lost"
  /\ Mark(w, "error")
  /\ errored' = errored \cup {w}
  /\ Emit(Key(w), "error", w)
  /\ Goto(w, "lost_check")
  /\ UNCHANGED <<callVars, dictVars, keyOf, finished, message, cancelled>>
  /\ UNCHANGED <<wset, wflag, idx, inner>>

\* ... then the next model, or, when cancelled, finish without an event.
ErrorContinue(w) ==
  /\ wpc[w] = "lost_check" /\ ~StopRequested(w)
  /\ idx' = [idx EXCEPT ![w] = @ + 1]
  /\ Goto(w, "top")
  /\ UNCHANGED <<wset, wflag, errored, inner, callVars, dictVars, setVars, sseVars>>

ErrorCancelled(w) ==
  /\ wpc[w] = "lost_check" /\ StopRequested(w)
  /\ Finish(w)
  /\ Goto(w, "say_quiet")
  /\ UNCHANGED <<keyOf, state, message, cancelled, wset, wflag, idx, errored>>
  /\ UNCHANGED <<inner, callVars, dictVars, sseVars>>

SayQuiet(w) ==
  /\ wpc[w] = "say_quiet"
  /\ message' = [message EXCEPT ![wset[w]] = "cancelled_by_user"]
  /\ Goto(w, "exit")
  /\ UNCHANGED <<callVars, dictVars, keyOf, state, finished, cancelled>>
  /\ UNCHANGED <<wset, wflag, idx, errored, inner, sseVars>>

SomeFailed(w) == w \in errored

\* After the loop: an overall error message, or the `completed` event.
SayEnd(w) ==
  /\ wpc[w] = "say_end"
  /\ IF SomeFailed(w)
     THEN /\ message' = [message EXCEPT ![wset[w]] =
                           "some_models_failed"]
          /\ UNCHANGED sseVars
     ELSE Emit(Key(w), "completed", w) /\ UNCHANGED message
  /\ Goto(w, "exit")
  /\ UNCHANGED <<callVars, dictVars, keyOf, state, finished, cancelled>>
  /\ UNCHANGED <<wset, wflag, idx, errored, inner>>

\* What the worker does of itself, and what befalls it.
Work(w) ==
  \/ WorkerBegin(w) \/ TopCancelled(w) \/ TopDownload(w) \/ TopEnd(w)
  \/ PollTick(w) \/ Poll(w) \/ ModelDone(w)
  \/ CancelRegister(w) \/ CancelMark(w) \/ SayCancelled(w)
  \/ ModelError(w) \/ ErrorContinue(w) \/ ErrorCancelled(w)
  \/ SayQuiet(w) \/ SayEnd(w)
Worker(w) == Work(w) \/ PollRaises(w)

\* snapshot_download of slot i of set n returns or raises; it has no cancel hook.
InnerEnd(n, i) ==
  /\ inner[n][i] = "running"
  /\ \E r \in {"ok", "error"} : inner' = [inner EXCEPT ![n][i] = r]
  /\ UNCHANGED <<wpc, wset, wflag, idx, errored>>
  /\ UNCHANGED <<callVars, dictVars, setVars, sseVars>>

-----------------------------------------------------------------------------
(* stream_download_progress: one SSE generator per client *)

StreamOpen(s, k) ==
  /\ spc[s] \notin {"open", "last"} /\ active[k] \in Ids
  /\ spc' = [spc EXCEPT ![s] = "open"] /\ follows' = [follows EXCEPT ![s] = k]
  /\ buffer' = [buffer EXCEPT ![s] = <<>>] /\ heard' = [heard EXCEPT ![s] = {}]
  /\ queues' = [queues EXCEPT ![k] = @ \cup {s}]
  /\ UNCHANGED <<callVars, active, cancelFlags, innerThreads, setVars, workVars>>

StreamSend(s) ==
  /\ spc[s] \in {"open", "last"} /\ buffer[s] # <<>>
  /\ buffer' = [buffer EXCEPT ![s] = Tail(@)]
  /\ heard' = IF Head(buffer[s]).type = "progress" THEN heard
              ELSE [heard EXCEPT ![s] = @ \cup {Head(buffer[s])}]
  /\ UNCHANGED <<spc, follows, callVars, dictVars, setVars, workVars>>

\* Queue drained and the set of the key is finished: one last drain.
StreamSeesEnd(s) ==
  /\ spc[s] = "open" /\ buffer[s] = <<>> /\ active[follows[s]] \in finished
  /\ spc' = [spc EXCEPT ![s] = "last"]
  /\ UNCHANGED <<follows, buffer, heard, callVars, dictVars, setVars, workVars>>

Unsubscribe(s, p) ==
  /\ spc' = [spc EXCEPT ![s] = p]
  /\ queues' = [queues EXCEPT ![follows[s]] = @ \ {s}]
  /\ UNCHANGED <<follows, buffer, heard, active, cancelFlags, innerThreads>>
  /\ UNCHANGED <<callVars, setVars, workVars>>

StreamReturn(s) == spc[s] = "last" /\ buffer[s] = <<>> /\ Unsubscribe(s, "returned")

\* The browser goes away: the generator's finally clause.
StreamDrop(s) == spc[s] \in {"open", "last"} /\ Unsubscribe(s, "dropped")

Stream(s) == StreamSend(s) \/ StreamSeesEnd(s) \/ StreamReturn(s)

-----------------------------------------------------------------------------
StartStep(c) == StartDecline(c) \/ StartAccept(c) \/ StartCreate(c)

Next ==
  \/ \E k \in Keys : RecordConsent(k) \/ RevokeConsent(k)
  \/ \E c \in Callers, k \in Keys : StartEnter(c, k) \/ CancelSet(c, k)
  \/ \E c \in Callers : StartStep(c) \/ CancelEmit(c)
  \/ \E w \in Ids : Worker(w)
  \/ \E n \in Ids, i \in Slots : InnerEnd(n, i)
  \/ \E s \in Clients, k \in Keys : StreamOpen(s, k)
  \/ \E s \in Clients : Stream(s) \/ StreamDrop(s)

Spec == Init /\ [][Next]_vars
=============================================================================
