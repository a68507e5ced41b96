------------------------ MODULE DownloadManagerProofs ------------------------
(* Theorems about DownloadManager, for every number of keys, models, callers, *)
(* viewers and downloads.                                                     *)
EXTENDS DownloadManagerProps, TLAPS, SequenceTheorems

(* The inductive invariant, part by part. *)

\* Only the holder of the lock is inside start_download, and what it has found
\* out about its key still holds when it creates the set.
LockInv ==
  \A c \in Callers :
    /\ at[c] \in {"check", "create"} => lock = c /\ wants[c] \in Keys
    /\ at[c] = "create" => ~Busy(wants[c]) /\ made < MaxSets

\* Sets that have not been created have no thread; a created one has a key.
BirthInv ==
  /\ \A n \in Ids : n > made => ~Born(n)
  /\ \A n \in Ids : ~Born(n) => n \notin finished /\ \A i \in Slots : ~Writes(n, i)
  /\ \A n \in Ids : Born(n) => keyOf[n] \in Keys

\* The dictionaries know every unfinished set, and the Event of one whose worker
\* has not looked yet.
ActiveInv ==
  \A n \in Ids : Unfinished(n) =>
    /\ active[keyOf[n]] = n
    /\ wpc[n] = "begin" => cancelFlags[keyOf[n]] = n

Working == {"begin", "top", "poll", "won", "stop", "mark", "lost", "lost_check"}
OnModel == {"poll", "won", "stop", "mark", "lost", "lost_check"}

\* A worker is finished with its set exactly from its last steps on.
WorkerInv ==
  \A w \in Ids :
    /\ wpc[w] \in Working => w \notin finished
    /\ wpc[w] \in OnModel => idx[w] <= Last(w)

\* What the dictionaries hold for a key belongs to that key.
EntriesInv ==
  \A k \in Keys :
    /\ active[k] \in Ids => Born(active[k]) /\ keyOf[active[k]] = k
    /\ innerThreads[k] \in Threads =>
         Born(innerThreads[k].set) /\ keyOf[innerThreads[k].set] = k

\* A live snapshot_download that is not lost belongs to the set the dictionaries
\* know, and either its worker watches it or it is registered as left running.
WriterOf(n, i) ==
  /\ active[keyOf[n]] = n
  /\ \/ wpc[n] \in {"poll", "stop"} /\ i = idx[n]
     \/ /\ wpc[n] \in {"mark", "say_cancelled", "exit"}
        /\ innerThreads[keyOf[n]] = [set |-> n, slot |-> i]
WriterInv == \A n \in Ids, i \in Slots : Tracked(n, i) => WriterOf(n, i)

\* A lost one is behind its worker, so that no later mark of the worker meets it.
StrayOf(n, i) == i <= idx[n] /\ (i = idx[n] => wpc[n] \in {"lost_check", "say_quiet", "exit"})
StrayInv ==
  \A n \in Ids, i \in Slots : Writes(n, i) /\ state[n][i] = "error" => StrayOf(n, i)

\* What every worker and caller relies on, and what is known of the threads.
CoreInv == /\ TypeOK /\ LockInv /\ BirthInv /\ ActiveInv /\ WorkerInv
           /\ WorkersOwnTheirSet /\ EntriesInv
IInv == CoreInv /\ WriterInv /\ StrayInv

-----------------------------------------------------------------------------
(* An event offered to a queue keeps the queue well typed and within its depth. *)
LEMMA OfferType ==
  ASSUME TypeOK, NEW k, NEW type \in EventTypes, NEW n \in Ids
  PROVE  /\ Offer(k, type, n) \in [Clients -> Seq(Events)]
         /\ \A s \in Clients : Len(Offer(k, type, n)[s]) <= QueueDepth
<1> DEFINE e == [type |-> type, set |-> n]
<1>1. e \in Events BY DEF Events
<1>2. \A s \in Clients : buffer[s] \in Seq(Events) BY DEF TypeOK, SseTypes
<1>3. \A s \in Clients : /\ Append(buffer[s], e) \in Seq(Events)
                         /\ Len(Append(buffer[s], e)) = Len(buffer[s]) + 1
  BY <1>1, <1>2, AppendProperties
<1>4. \A s \in Clients : Len(buffer[s]) \in Nat /\ Len(buffer[s]) <= QueueDepth
  BY <1>2, LenProperties DEF TypeOK, SseTypes
<1> QED BY <1>1, <1>2, <1>3, <1>4, QueueAssumption DEF Offer

\* The bounds are natural numbers.
LEMMA Sizes == MaxSets \in Nat /\ MaxModels \in Nat
BY ModelsAssumption

\* A key names a non-empty sequence of models, at most MaxModels of them.
LEMMA KeyModels ==
  ASSUME NEW k \in Keys
  PROVE  Len(Models[k]) \in Slots
BY ModelsAssumption

\* _emit (manager.py:66) keeps the SSE queues well typed.
LEMMA EmitTypes ==
  ASSUME TypeOK, NEW k, NEW type \in EventTypes, NEW n \in Ids, Emit(k, type, n)
  PROVE  SseTypes'
BY OfferType DEF Emit, TypeOK, SseTypes

\* Opening a stream (models.py:219) keeps the SSE queues well typed.
LEMMA OpenTypes ==
  ASSUME TypeOK, NEW s \in Clients, NEW k \in Keys, StreamOpen(s, k)
  PROVE  SseTypes'
<1>1. <<>> \in Seq(Events) /\ Len(<<>>) = 0 BY EmptySeq
<1>2. Len(<<>>) <= QueueDepth BY <1>1, QueueAssumption
<1> QED BY <1>1, <1>2 DEF StreamOpen, TypeOK, SseTypes

\* Sending the head of a queue (models.py:246) keeps the SSE queues well typed.
LEMMA SendTypes ==
  ASSUME TypeOK, NEW s \in Clients, StreamSend(s)
  PROVE  SseTypes'
<1>1. buffer[s] \in Seq(Events) /\ buffer[s] # <<>> /\ Len(buffer[s]) <= QueueDepth
  BY DEF StreamSend, TypeOK, SseTypes
<1>2. Head(buffer[s]) \in Events /\ Tail(buffer[s]) \in Seq(Events)
      /\ Len(Tail(buffer[s])) = Len(buffer[s]) - 1
  BY <1>1, HeadTailProperties
<1>3. Len(buffer[s]) \in Nat BY <1>1, LenProperties
<1>4. Len(Tail(buffer[s])) <= QueueDepth BY <1>1, <1>2, <1>3, QueueAssumption
<1> QED BY <1>1, <1>2, <1>4 DEF StreamSend, TypeOK, SseTypes

\* Marking a model of a set (models.py:30) keeps the sets well typed.
LEMMA MarkTypes ==
  ASSUME TypeOK, NEW w \in Ids, NEW s \in ModelStates, Mark(w, s)
  PROVE  state' \in [Ids -> [Slots -> ModelStates]]
BY DEF Mark, TypeOK, SetTypes

\* What a worker past its first step knows.
LEMMA WorkerKnows ==
  ASSUME CoreInv, NEW w \in Ids, Born(w)
  PROVE  /\ keyOf[w] \in Keys /\ Last(w) \in Slots
         /\ wpc[w] = "begin" => active[Key(w)] = w /\ cancelFlags[Key(w)] = w
         /\ wpc[w] # "begin" => wset[w] = w /\ wflag[w] = w
         /\ wpc[w] \in OnModel => idx[w] \in Slots
<1>1. keyOf[w] \in Keys BY DEF CoreInv, BirthInv
<1>2. Last(w) \in Slots BY <1>1, KeyModels DEF Last, Key
<1>3. wpc[w] \in WorkerPoints /\ idx[w] \in 1..(MaxModels + 1)
  BY DEF CoreInv, TypeOK, WorkTypes
<1>4. wpc[w] \in OnModel => idx[w] \in Slots
  BY <1>2, <1>3, Sizes DEF CoreInv, WorkerInv, Slots
<1>5. wpc[w] = "begin" => active[Key(w)] = w /\ cancelFlags[Key(w)] = w
  BY DEF CoreInv, WorkerInv, ActiveInv, Working, Unfinished, Key
<1>6. wpc[w] # "begin" => wset[w] = w /\ wflag[w] = w
  BY DEF CoreInv, WorkersOwnTheirSet, Born
<1> QED BY <1>1, <1>2, <1>4, <1>5, <1>6

\* Finishing a set (models.py:60) keeps the sets well typed.
LEMMA FinishTypes ==
  ASSUME CoreInv, NEW w \in Ids, Born(w), wpc[w] # "begin", Finish(w)
  PROVE  finished' \subseteq Ids
BY WorkerKnows DEF CoreInv, TypeOK, SetTypes, Finish

\* Types depend on the variables of their group only.
LEMMA Frame ==
  /\ CallTypes /\ UNCHANGED callVars => CallTypes'
  /\ DictTypes /\ UNCHANGED dictVars => DictTypes'
  /\ SetTypes /\ UNCHANGED setVars => SetTypes'
  /\ WorkTypes /\ UNCHANGED workVars => WorkTypes'
  /\ SseTypes /\ UNCHANGED sseVars => SseTypes'
BY DEF callVars, dictVars, setVars, workVars, sseVars, CallTypes, DictTypes,
       SetTypes, WorkTypes, SseTypes

\* The empty manager satisfies the invariant.
LEMMA InitIInv == Init => IInv
<1> SUFFICES ASSUME Init PROVE IInv OBVIOUS
<1>1. TypeOK
  <2>1. CallTypes BY Sizes DEF Init, CallTypes
  <2>2. DictTypes BY DEF Init, DictTypes
  <2>3. SetTypes BY DEF Init, SetTypes, ModelStates, Messages
  <2>4. WorkTypes BY Sizes DEF Init, WorkTypes, WorkerPoints
  <2>5. SseTypes
    <3>1. <<>> \in Seq(Events) /\ Len(<<>>) = 0 BY EmptySeq
    <3> QED BY <3>1, QueueAssumption DEF Init, SseTypes
  <2> QED BY <2>1, <2>2, <2>3, <2>4, <2>5 DEF TypeOK
<1>2. LockInv /\ BirthInv /\ ActiveInv /\ WorkerInv /\ WorkersOwnTheirSet
  BY DEF Init, LockInv, BirthInv, ActiveInv, WorkerInv, WorkersOwnTheirSet, Born,
         Unfinished, Writes, Working, OnModel, Ids, Slots
<1>3. EntriesInv /\ WriterInv /\ StrayInv
  BY NoneAssumption DEF Init, EntriesInv, WriterInv, StrayInv, Tracked, Writes
<1> QED BY <1>1, <1>2, <1>3 DEF IInv, CoreInv

-----------------------------------------------------------------------------
(* No step breaks the types. *)
LEMMA TypeStep == CoreInv /\ [Next]_vars => TypeOK'
<1> SUFFICES ASSUME CoreInv, [Next]_vars PROVE TypeOK'
  OBVIOUS
<1>0. TypeOK BY DEF CoreInv
<1> USE <1>0 DEF TypeOK
<1>1. ASSUME NEW k \in Keys, RecordConsent(k) PROVE TypeOK'
  <2>1. DictTypes' /\ SetTypes' /\ WorkTypes' /\ SseTypes'
    BY <1>1, Frame DEF RecordConsent
  <2>2. CallTypes'
    BY <1>1 DEF RecordConsent, CallTypes
  <2> QED BY <2>1, <2>2
<1>2. ASSUME NEW k \in Keys, RevokeConsent(k) PROVE TypeOK'
  <2>1. DictTypes' /\ SetTypes' /\ WorkTypes' /\ SseTypes'
    BY <1>2, Frame DEF RevokeConsent
  <2>2. CallTypes'
    BY <1>2 DEF RevokeConsent, CallTypes
  <2> QED BY <2>1, <2>2
<1>3. ASSUME NEW c \in Callers, NEW k \in Keys, StartEnter(c, k) PROVE TypeOK'
  <2>1. DictTypes' /\ SetTypes' /\ WorkTypes' /\ SseTypes'
    BY <1>3, Frame DEF StartEnter
  <2>2. CallTypes'
    BY <1>3 DEF StartEnter, CallTypes
  <2> QED BY <2>1, <2>2
<1>4. ASSUME NEW c \in Callers, NEW k \in Keys, CancelSet(c, k) PROVE TypeOK'
  <2>1. DictTypes' /\ WorkTypes' /\ SseTypes'
    BY <1>4, Frame DEF CancelSet
  <2>2. CallTypes'
    BY <1>4 DEF CancelSet, CallTypes
  <2>3. SetTypes'
    BY <1>4 DEF CancelSet, SetTypes
  <2> QED BY <2>1, <2>2, <2>3
<1>5. ASSUME NEW c \in Callers, StartDecline(c) PROVE TypeOK'
  <2>1. DictTypes' /\ SetTypes' /\ WorkTypes' /\ SseTypes'
    BY <1>5, Frame DEF StartDecline
  <2>2. CallTypes'
    BY <1>5 DEF StartDecline, CallTypes
  <2> QED BY <2>1, <2>2
<1>6. ASSUME NEW c \in Callers, StartAccept(c) PROVE TypeOK'
  <2>1. DictTypes' /\ SetTypes' /\ WorkTypes' /\ SseTypes'
    BY <1>6, Frame DEF StartAccept
  <2>2. CallTypes'
    BY <1>6 DEF StartAccept, CallTypes
  <2> QED BY <2>1, <2>2
<1>7. ASSUME NEW c \in Callers, StartCreate(c) PROVE TypeOK'
  <2>1. SseTypes'
    BY <1>7, Frame DEF StartCreate
  <2>2. CallTypes'
    BY <1>7, Sizes DEF StartCreate, CallTypes, Ids
  <2>3. DictTypes'
    BY <1>7 DEF StartCreate, DictTypes
  <2>4. SetTypes'
    BY <1>7 DEF StartCreate, SetTypes, CallTypes
  <2>5. WorkTypes'
    BY <1>7 DEF StartCreate, WorkTypes, WorkerPoints
  <2> QED BY <2>1, <2>2, <2>3, <2>4, <2>5
<1>8. ASSUME NEW c \in Callers, CancelEmit(c) PROVE TypeOK'
  <2>1. DictTypes' /\ SetTypes' /\ WorkTypes'
    BY <1>8, Frame DEF CancelEmit
  <2>2. CallTypes'
    BY <1>8 DEF CancelEmit, CallTypes
  <2>3. SseTypes'
    BY <1>8, EmitTypes, Frame DEF CancelEmit, SseTypes, EventTypes
  <2> QED BY <2>1, <2>2, <2>3
<1>9. ASSUME NEW w \in Ids, WorkerBegin(w) PROVE TypeOK'
  <2>1. CallTypes' /\ DictTypes' /\ SetTypes' /\ SseTypes'
    BY <1>9, Frame DEF WorkerBegin
  <2>2. WorkTypes'
    BY <1>9, WorkerKnows DEF WorkerBegin, WorkTypes, Goto, WorkerPoints, Born
  <2> QED BY <2>1, <2>2
<1>10. ASSUME NEW w \in Ids, TopCancelled(w) PROVE TypeOK'
  <2>1. CallTypes' /\ DictTypes' /\ SseTypes'
    BY <1>10, Frame DEF TopCancelled
  <2>2. SetTypes'
    BY <1>10, MarkTypes, FinishTypes DEF TopCancelled, SetTypes, ModelStates, Born
  <2>3. WorkTypes'
    BY <1>10 DEF TopCancelled, WorkTypes, Goto, WorkerPoints
  <2> QED BY <2>1, <2>2, <2>3
<1>11. ASSUME NEW w \in Ids, TopDownload(w) PROVE TypeOK'
  <2>1. CallTypes' /\ DictTypes'
    BY <1>11, Frame DEF TopDownload
  <2>2. SetTypes'
    BY <1>11, MarkTypes DEF TopDownload, SetTypes, ModelStates
  <2>3. WorkTypes'
    <3>1. inner' \in {[inner EXCEPT ![w][idx[w]] = "running"], inner}
          /\ (Goto(w, "poll") \/ Goto(w, "lost")) /\ UNCHANGED <<wset, wflag, idx, errored>>
      BY <1>11 DEF TopDownload
    <3>2. inner' \in [Ids -> [Slots -> {"unborn", "running", "ok", "error"}]]
      BY <3>1 DEF WorkTypes
    <3>3. wpc' \in [Ids -> WorkerPoints] BY <3>1 DEF WorkTypes, Goto, WorkerPoints
    <3> QED BY <3>1, <3>2, <3>3 DEF WorkTypes
  <2>4. SseTypes'
    BY <1>11, EmitTypes DEF TopDownload, SseTypes, EventTypes
  <2> QED BY <2>1, <2>2, <2>3, <2>4
<1>12. ASSUME NEW w \in Ids, TopEnd(w) PROVE TypeOK'
  <2>1. CallTypes' /\ DictTypes' /\ SseTypes'
    BY <1>12, Frame DEF TopEnd
  <2>2. SetTypes'
    BY <1>12, FinishTypes DEF TopEnd, SetTypes, Born
  <2>3. WorkTypes'
    BY <1>12 DEF TopEnd, WorkTypes, Goto, WorkerPoints
  <2> QED BY <2>1, <2>2, <2>3
<1>13. ASSUME NEW w \in Ids, PollTick(w) PROVE TypeOK'
  <2>1. CallTypes' /\ DictTypes' /\ SetTypes' /\ WorkTypes'
    BY <1>13, Frame DEF PollTick
  <2>2. SseTypes'
    BY <1>13, EmitTypes DEF PollTick, SseTypes, EventTypes
  <2> QED BY <2>1, <2>2
<1>14. ASSUME NEW w \in Ids, Poll(w) \/ PollRaises(w) PROVE TypeOK'
  <2>1. CallTypes' /\ DictTypes' /\ SetTypes' /\ SseTypes'
    BY <1>14, Frame DEF Poll, PollRaises
  <2>2. WorkTypes'
    BY <1>14 DEF Poll, PollRaises, WorkTypes, Goto, WorkerPoints
  <2> QED BY <2>1, <2>2
<1>15. ASSUME NEW w \in Ids, ModelDone(w) PROVE TypeOK'
  <2>1. CallTypes'
    BY <1>15, Frame DEF ModelDone
  <2>2. DictTypes'
    BY <1>15, WorkerKnows DEF ModelDone, DictTypes, Register, Threads, OnModel, Born
  <2>3. SetTypes'
    BY <1>15, MarkTypes DEF ModelDone, SetTypes, ModelStates
  <2>4. WorkTypes'
    BY <1>15, WorkerKnows, Sizes DEF ModelDone, WorkTypes, Goto, WorkerPoints, OnModel, Born, Slots
  <2>5. SseTypes'
    BY <1>15, EmitTypes DEF ModelDone, SseTypes, EventTypes
  <2> QED BY <2>1, <2>2, <2>3, <2>4, <2>5
<1>16. ASSUME NEW w \in Ids, CancelRegister(w) PROVE TypeOK'
  <2>1. CallTypes' /\ SetTypes' /\ SseTypes'
    BY <1>16, Frame DEF CancelRegister
  <2>2. DictTypes'
    BY <1>16, WorkerKnows DEF CancelRegister, DictTypes, Register, Threads, OnModel, Born
  <2>3. WorkTypes'
    BY <1>16 DEF CancelRegister, WorkTypes, Goto, WorkerPoints
  <2> QED BY <2>1, <2>2, <2>3
<1>17. ASSUME NEW w \in Ids, CancelMark(w) PROVE TypeOK'
  <2>1. CallTypes' /\ DictTypes' /\ SseTypes'
    BY <1>17, Frame DEF CancelMark
  <2>2. SetTypes'
    BY <1>17, MarkTypes, FinishTypes DEF CancelMark, SetTypes, ModelStates, Born
  <2>3. WorkTypes'
    BY <1>17 DEF CancelMark, WorkTypes, Goto, WorkerPoints
  <2> QED BY <2>1, <2>2, <2>3
<1>18. ASSUME NEW w \in Ids, SayCancelled(w) PROVE TypeOK'
  <2>1. CallTypes' /\ DictTypes'
    BY <1>18, Frame DEF SayCancelled
  <2>2. SetTypes'
    BY <1>18 DEF SayCancelled, SetTypes, Messages
  <2>3. WorkTypes'
    BY <1>18 DEF SayCancelled, WorkTypes, Goto, WorkerPoints
  <2>4. SseTypes'
    BY <1>18, EmitTypes DEF SayCancelled, SseTypes, EventTypes
  <2> QED BY <2>1, <2>2, <2>3, <2>4
<1>19. ASSUME NEW w \in Ids, ModelError(w) PROVE TypeOK'
  <2>1. CallTypes' /\ DictTypes'
    BY <1>19, Frame DEF ModelError
  <2>2. SetTypes'
    BY <1>19, MarkTypes DEF ModelError, SetTypes, ModelStates
  <2>3. WorkTypes'
    BY <1>19 DEF ModelError, WorkTypes, Goto, WorkerPoints
  <2>4. SseTypes'
    BY <1>19, EmitTypes DEF ModelError, SseTypes, EventTypes
  <2> QED BY <2>1, <2>2, <2>3, <2>4
<1>20. ASSUME NEW w \in Ids, ErrorContinue(w) PROVE TypeOK'
  <2>1. CallTypes' /\ DictTypes' /\ SetTypes' /\ SseTypes'
    BY <1>20, Frame DEF ErrorContinue
  <2>2. WorkTypes'
    BY <1>20, WorkerKnows, Sizes DEF ErrorContinue, WorkTypes, Goto, WorkerPoints, OnModel, Born, Slots
  <2> QED BY <2>1, <2>2
<1>21. ASSUME NEW w \in Ids, ErrorCancelled(w) PROVE TypeOK'
  <2>1. CallTypes' /\ DictTypes' /\ SseTypes'
    BY <1>21, Frame DEF ErrorCancelled
  <2>2. SetTypes'
    BY <1>21, FinishTypes DEF ErrorCancelled, SetTypes, Born
  <2>3. WorkTypes'
    BY <1>21 DEF ErrorCancelled, WorkTypes, Goto, WorkerPoints
  <2> QED BY <2>1, <2>2, <2>3
<1>22. ASSUME NEW w \in Ids, SayQuiet(w) PROVE TypeOK'
  <2>1. CallTypes' /\ DictTypes' /\ SseTypes'
    BY <1>22, Frame DEF SayQuiet
  <2>2. SetTypes'
    BY <1>22 DEF SayQuiet, SetTypes, Messages
  <2>3. WorkTypes'
    BY <1>22 DEF SayQuiet, WorkTypes, Goto, WorkerPoints
  <2> QED BY <2>1, <2>2, <2>3
<1>23. ASSUME NEW w \in Ids, SayEnd(w) PROVE TypeOK'
  <2>1. CallTypes' /\ DictTypes'
    BY <1>23, Frame DEF SayEnd
  <2>2. SetTypes'
    BY <1>23 DEF SayEnd, SetTypes, Messages
  <2>3. WorkTypes'
    BY <1>23 DEF SayEnd, WorkTypes, Goto, WorkerPoints
  <2>4. SseTypes'
    BY <1>23, EmitTypes, Frame DEF SayEnd, SseTypes, EventTypes
  <2> QED BY <2>1, <2>2, <2>3, <2>4
<1>24. ASSUME NEW n \in Ids, NEW i \in Slots, InnerEnd(n, i) PROVE TypeOK'
  <2>1. CallTypes' /\ DictTypes' /\ SetTypes' /\ SseTypes'
    BY <1>24, Frame DEF InnerEnd
  <2>2. WorkTypes'
    BY <1>24 DEF InnerEnd, WorkTypes
  <2> QED BY <2>1, <2>2
<1>25. ASSUME NEW s \in Clients, NEW k \in Keys, StreamOpen(s, k) PROVE TypeOK'
  <2>1. CallTypes' /\ SetTypes' /\ WorkTypes'
    BY <1>25, Frame DEF StreamOpen
  <2>2. DictTypes'
    BY <1>25 DEF StreamOpen, DictTypes
  <2>3. SseTypes'
    BY <1>25, OpenTypes DEF StreamOpen, SseTypes
  <2> QED BY <2>1, <2>2, <2>3
<1>26. ASSUME NEW s \in Clients, StreamSend(s) PROVE TypeOK'
  <2>1. CallTypes' /\ DictTypes' /\ SetTypes' /\ WorkTypes'
    BY <1>26, Frame DEF StreamSend
  <2>2. SseTypes'
    BY <1>26, SendTypes DEF StreamSend, SseTypes
  <2> QED BY <2>1, <2>2
<1>27. ASSUME NEW s \in Clients, StreamSeesEnd(s) PROVE TypeOK'
  <2>1. CallTypes' /\ DictTypes' /\ SetTypes' /\ WorkTypes'
    BY <1>27, Frame DEF StreamSeesEnd
  <2>2. SseTypes'
    BY <1>27 DEF StreamSeesEnd, SseTypes
  <2> QED BY <2>1, <2>2
<1>28. ASSUME NEW s \in Clients, StreamReturn(s) PROVE TypeOK'
  <2>1. CallTypes' /\ SetTypes' /\ WorkTypes'
    BY <1>28, Frame DEF StreamReturn, Unsubscribe
  <2>2. DictTypes'
    BY <1>28 DEF StreamReturn, DictTypes, Unsubscribe
  <2>3. SseTypes'
    BY <1>28 DEF StreamReturn, SseTypes, Unsubscribe
  <2> QED BY <2>1, <2>2, <2>3
<1>29. ASSUME NEW s \in Clients, StreamDrop(s) PROVE TypeOK'
  <2>1. CallTypes' /\ SetTypes' /\ WorkTypes'
    BY <1>29, Frame DEF StreamDrop, Unsubscribe
  <2>2. DictTypes'
    BY <1>29 DEF StreamDrop, DictTypes, Unsubscribe
  <2>3. SseTypes'
    BY <1>29 DEF StreamDrop, SseTypes, Unsubscribe
  <2> QED BY <2>1, <2>2, <2>3
<1>30. CASE UNCHANGED vars
  BY <1>30, Frame DEF vars
<1> QED
  BY <1>1, <1>2, <1>3, <1>4, <1>5, <1>6, <1>7, <1>8, <1>9, <1>10, <1>11, <1>12, <1>13, <1>14, <1>15, <1>16, <1>17, <1>18, <1>19, <1>20, <1>21, <1>22, <1>23, <1>24, <1>25, <1>26, <1>27, <1>28, <1>29, <1>30
     DEF Next, Worker, Work, Stream, StartStep
-----------------------------------------------------------------------------
(* No step breaks the rest of the invariant. *)
Parts == /\ LockInv /\ BirthInv /\ ActiveInv /\ WorkerInv
         /\ WorkersOwnTheirSet /\ EntriesInv

\* Each part depends on these variables only.
LEMMA PartsFrame ==
  /\ LockInv /\ UNCHANGED <<at, lock, wants, made, active, finished, innerThreads, inner>>
       => LockInv'
  /\ BirthInv /\ UNCHANGED <<made, wpc, finished, inner, keyOf>> => BirthInv'
  /\ ActiveInv /\ UNCHANGED <<wpc, finished, active, keyOf, cancelFlags>> => ActiveInv'
  /\ WorkerInv /\ UNCHANGED <<wpc, finished, idx, keyOf>> => WorkerInv'
  /\ WorkersOwnTheirSet /\ UNCHANGED <<wpc, wset, wflag>> => WorkersOwnTheirSet'
  /\ EntriesInv /\ UNCHANGED <<active, innerThreads, wpc, keyOf>> => EntriesInv'
BY DEF LockInv, BirthInv, ActiveInv, WorkerInv, WorkersOwnTheirSet, EntriesInv,
       Busy, Alive, Born, Unfinished, Writes, Last, Key

\* No step breaks the other parts of the invariant.
LEMMA PartsStep == CoreInv /\ [Next]_vars => Parts'
<1> SUFFICES ASSUME CoreInv, [Next]_vars PROVE Parts'
  OBVIOUS
<1>0. TypeOK /\ Parts BY DEF CoreInv, Parts
<1> USE <1>0 DEF TypeOK, Parts
<1>1. ASSUME NEW k \in Keys, RecordConsent(k) PROVE Parts'
  BY <1>1, PartsFrame DEF RecordConsent, callVars, dictVars, setVars, workVars, sseVars
<1>2. ASSUME NEW k \in Keys, RevokeConsent(k) PROVE Parts'
  BY <1>2, PartsFrame DEF RevokeConsent, callVars, dictVars, setVars, workVars, sseVars
<1>3. ASSUME NEW c \in Callers, NEW k \in Keys, StartEnter(c, k) PROVE Parts'
  <2>1. BirthInv' /\ ActiveInv' /\ WorkerInv' /\ WorkersOwnTheirSet' /\ EntriesInv'
    BY <1>3, PartsFrame DEF StartEnter, callVars, dictVars, setVars, workVars, sseVars
  <2>2. LockInv'
    BY <1>3, NoneAssumption DEF StartEnter, LockFree, LockInv, Busy, Alive, CallTypes,
       dictVars, setVars, workVars
  <2> QED BY <2>1, <2>2
<1>4. ASSUME NEW c \in Callers, NEW k \in Keys, CancelSet(c, k) PROVE Parts'
  <2>1. BirthInv' /\ ActiveInv' /\ WorkerInv' /\ WorkersOwnTheirSet' /\ EntriesInv'
    BY <1>4, PartsFrame DEF CancelSet, callVars, dictVars, setVars, workVars, sseVars
  <2>2. LockInv'
    BY <1>4 DEF CancelSet, LockInv, Busy, Alive, CallTypes, SetTypes, DictTypes,
       callVars, dictVars, setVars, workVars, sseVars
  <2> QED BY <2>1, <2>2
<1>5. ASSUME NEW c \in Callers, StartDecline(c) PROVE Parts'
  <2>1. BirthInv' /\ ActiveInv' /\ WorkerInv' /\ WorkersOwnTheirSet' /\ EntriesInv'
    BY <1>5, PartsFrame DEF StartDecline, callVars, dictVars, setVars, workVars, sseVars
  <2>2. LockInv'
    BY <1>5 DEF StartDecline, LockInv, Busy, Alive, CallTypes, SetTypes, DictTypes,
       callVars, dictVars, setVars, workVars, sseVars
  <2> QED BY <2>1, <2>2
<1>6. ASSUME NEW c \in Callers, StartAccept(c) PROVE Parts'
  <2>1. BirthInv' /\ ActiveInv' /\ WorkerInv' /\ WorkersOwnTheirSet' /\ EntriesInv'
    BY <1>6, PartsFrame DEF StartAccept, callVars, dictVars, setVars, workVars, sseVars
  <2>2. LockInv'
    BY <1>6 DEF StartAccept, LockInv, Busy, Alive, CallTypes, SetTypes, DictTypes,
       callVars, dictVars, setVars, workVars, sseVars
  <2> QED BY <2>1, <2>2
<1>7. ASSUME NEW c \in Callers, StartCreate(c) PROVE Parts'
  <2>1. LockInv'
    BY <1>7 DEF StartCreate, LockInv, Busy, Alive, CallTypes, SetTypes, DictTypes,
       callVars, dictVars, setVars, workVars, sseVars
  <2>2. BirthInv'
    <3>1. /\ made + 1 \in Ids /\ lock = c /\ wants[c] \in Keys /\ ~Busy(wants[c])
          /\ \A d \in Callers : at[d] \in {"check", "create"} => d = c
      BY <1>7 DEF StartCreate, LockInv
    <3>2. ~Born(made + 1) /\ made + 1 \notin finished /\ made + 1 > made
      BY <1>7, Sizes DEF StartCreate, BirthInv, CallTypes, Ids
    <3>3. /\ made' = made + 1 /\ wpc' = [wpc EXCEPT ![made + 1] = "begin"]
          /\ keyOf' = [keyOf EXCEPT ![made + 1] = wants[c]]
          /\ active' = [active EXCEPT ![wants[c]] = made + 1]
          /\ cancelFlags' = [cancelFlags EXCEPT ![wants[c]] = made + 1]
          /\ UNCHANGED <<finished, inner, idx, innerThreads>>
      BY <1>7 DEF StartCreate
    <3>4. ASSUME NEW n \in Ids, n # made + 1
          PROVE (Born(n)' <=> Born(n)) /\ keyOf'[n] = keyOf[n]
      BY <3>1, <3>3, <3>4 DEF Born, WorkTypes, SetTypes
    <3>5. wpc'[made + 1] = "begin" /\ keyOf'[made + 1] \in Keys
      BY <3>1, <3>3 DEF WorkTypes, SetTypes
    <3>6. \A n \in Ids : n > made' => ~Born(n)'
      <4> SUFFICES ASSUME NEW n \in Ids, n > made' PROVE ~Born(n)' OBVIOUS
      <4>1. n > made + 1 BY <3>3
      <4>2. n > made /\ n # made + 1 BY <4>1, Sizes DEF CallTypes, Ids
      <4> QED BY <4>2, <3>4 DEF BirthInv
    <3>7. \A n \in Ids : ~Born(n)' => n \notin finished' /\ \A i \in Slots : ~Writes(n, i)'
      <4> SUFFICES ASSUME NEW n \in Ids, ~Born(n)'
                   PROVE n \notin finished' /\ \A i \in Slots : ~Writes(n, i)'
        OBVIOUS
      <4>1. ~Born(n) BY <3>4, <3>5 DEF Born
      <4>2. n \notin finished /\ \A i \in Slots : ~Writes(n, i) BY <4>1 DEF BirthInv
      <4>3. inner' = inner /\ finished' = finished BY <3>3
      <4> QED BY <4>2, <4>3 DEF Writes
    <3>8. \A n \in Ids : Born(n)' => keyOf'[n] \in Keys
      BY <3>4, <3>5 DEF BirthInv
    <3> QED BY <3>6, <3>7, <3>8 DEF BirthInv
  <2>3. ActiveInv'
    <3>1. /\ made + 1 \in Ids /\ lock = c /\ wants[c] \in Keys /\ ~Busy(wants[c])
          /\ \A d \in Callers : at[d] \in {"check", "create"} => d = c
      BY <1>7 DEF StartCreate, LockInv
    <3>2. ~Born(made + 1) /\ made + 1 \notin finished /\ made + 1 > made
      BY <1>7, Sizes DEF StartCreate, BirthInv, CallTypes, Ids
    <3>3. /\ made' = made + 1 /\ wpc' = [wpc EXCEPT ![made + 1] = "begin"]
          /\ keyOf' = [keyOf EXCEPT ![made + 1] = wants[c]]
          /\ active' = [active EXCEPT ![wants[c]] = made + 1]
          /\ cancelFlags' = [cancelFlags EXCEPT ![wants[c]] = made + 1]
          /\ UNCHANGED <<finished, inner, idx, innerThreads>>
      BY <1>7 DEF StartCreate
    <3>4. \A n \in Ids : Unfinished(n) => keyOf[n] # wants[c]
      BY <3>1 DEF ActiveInv, Unfinished, Busy
    <3>5. ASSUME NEW n \in Ids, Unfinished(n)', n # made + 1 PROVE Unfinished(n)
      <4>1. wpc'[n] = wpc[n] BY <3>3, <3>5 DEF WorkTypes
      <4> QED BY <3>3, <3>5, <4>1 DEF Unfinished, Born
    <3>6. \A n \in Ids : Unfinished(n) => keyOf[n] \in Keys
      BY DEF BirthInv, Unfinished
    <3> QED BY <3>1, <3>3, <3>4, <3>5, <3>6
         DEF ActiveInv, WorkTypes, SetTypes, DictTypes
  <2>4. WorkerInv'
    <3>1. /\ made + 1 \in Ids /\ lock = c /\ wants[c] \in Keys /\ ~Busy(wants[c])
          /\ \A d \in Callers : at[d] \in {"check", "create"} => d = c
      BY <1>7 DEF StartCreate, LockInv
    <3>2. ~Born(made + 1) /\ made + 1 \notin finished /\ made + 1 > made
      BY <1>7, Sizes DEF StartCreate, BirthInv, CallTypes, Ids
    <3>3. /\ made' = made + 1 /\ wpc' = [wpc EXCEPT ![made + 1] = "begin"]
          /\ keyOf' = [keyOf EXCEPT ![made + 1] = wants[c]]
          /\ active' = [active EXCEPT ![wants[c]] = made + 1]
          /\ cancelFlags' = [cancelFlags EXCEPT ![wants[c]] = made + 1]
          /\ UNCHANGED <<finished, inner, idx, innerThreads>>
      BY <1>7 DEF StartCreate
    <3> QED BY <3>1, <3>2, <3>3 DEF WorkerInv, Working, OnModel, Last, Key, Born,
           WorkTypes, SetTypes
  <2>5. WorkersOwnTheirSet'
    BY <1>7 DEF StartCreate, WorkersOwnTheirSet, WorkTypes, callVars, dictVars,
       setVars, workVars, sseVars
  <2>6. EntriesInv'
    <3>1. /\ made + 1 \in Ids /\ lock = c /\ wants[c] \in Keys /\ ~Busy(wants[c])
          /\ \A d \in Callers : at[d] \in {"check", "create"} => d = c
      BY <1>7 DEF StartCreate, LockInv
    <3>2. ~Born(made + 1) /\ made + 1 \notin finished /\ made + 1 > made
      BY <1>7, Sizes DEF StartCreate, BirthInv, CallTypes, Ids
    <3>3. /\ made' = made + 1 /\ wpc' = [wpc EXCEPT ![made + 1] = "begin"]
          /\ keyOf' = [keyOf EXCEPT ![made + 1] = wants[c]]
          /\ active' = [active EXCEPT ![wants[c]] = made + 1]
          /\ cancelFlags' = [cancelFlags EXCEPT ![wants[c]] = made + 1]
          /\ UNCHANGED <<finished, inner, idx, innerThreads>>
      BY <1>7 DEF StartCreate
    <3>4. \A n \in Ids : Born(n) => Born(n)' /\ keyOf'[n] = keyOf[n]
      BY <3>2, <3>3 DEF Born, WorkTypes, SetTypes
    <3>5. \A k \in Keys : innerThreads[k] \in Threads => innerThreads[k].set \in Ids
      BY DEF Threads
    <3>6. wpc'[made + 1] # "unborn" /\ keyOf'[made + 1] = wants[c]
      BY <3>1, <3>3 DEF WorkTypes, SetTypes
    <3> QED BY <3>1, <3>3, <3>4, <3>5, <3>6 DEF EntriesInv, DictTypes, Born
  <2> QED BY <2>1, <2>2, <2>3, <2>4, <2>5, <2>6
<1>8. ASSUME NEW c \in Callers, CancelEmit(c) PROVE Parts'
  <2>1. BirthInv' /\ ActiveInv' /\ WorkerInv' /\ WorkersOwnTheirSet' /\ EntriesInv'
    BY <1>8, PartsFrame DEF CancelEmit, callVars, dictVars, setVars, workVars, sseVars
  <2>2. LockInv'
    BY <1>8 DEF CancelEmit, LockInv, Busy, Alive, CallTypes, SetTypes, DictTypes,
       callVars, dictVars, setVars, workVars, sseVars
  <2> QED BY <2>1, <2>2
<1>9. ASSUME NEW w \in Ids, WorkerBegin(w) PROVE Parts'
  <2>1. LockInv'
    BY <1>9, PartsFrame DEF WorkerBegin, callVars, dictVars, setVars, workVars, sseVars
  <2>2. BirthInv'
    BY <1>9, WorkerKnows DEF WorkerBegin, BirthInv, Born, Writes, WorkTypes,
       SetTypes, CallTypes, Goto, Finish, Register, callVars, dictVars, setVars,
       workVars, sseVars
  <2>3. ActiveInv'
    BY <1>9, WorkerKnows DEF WorkerBegin, ActiveInv, Unfinished, Born, Key,
       WorkTypes, SetTypes, DictTypes, Goto, Finish, Register, callVars, dictVars,
       setVars, workVars, sseVars
  <2>4. WorkerInv'
    BY <1>9, WorkerKnows DEF WorkerBegin, WorkerInv, Working, OnModel, Last, Key,
       WorkTypes, SetTypes, Goto, Finish, Register, callVars, dictVars, setVars,
       workVars, sseVars, Born
  <2>5. WorkersOwnTheirSet'
    BY <1>9, WorkerKnows DEF WorkerBegin, WorkersOwnTheirSet, WorkTypes, Goto,
       Finish, Register, callVars, dictVars, setVars, workVars, sseVars, Born
  <2>6. EntriesInv'
    BY <1>9, WorkerKnows DEF WorkerBegin, EntriesInv, Born, Key, WorkTypes,
       SetTypes, DictTypes, Goto, Finish, Register, callVars, dictVars, setVars,
       workVars, sseVars
  <2> QED BY <2>1, <2>2, <2>3, <2>4, <2>5, <2>6
<1>10. ASSUME NEW w \in Ids, TopCancelled(w) PROVE Parts'
  <2>1. LockInv'
    BY <1>10, WorkerKnows DEF TopCancelled, LockInv, Busy, Alive, CallTypes,
       SetTypes, DictTypes, Goto, Finish, Register, callVars, dictVars, setVars,
       workVars, sseVars, Born
  <2>2. BirthInv'
    BY <1>10, WorkerKnows DEF TopCancelled, BirthInv, Born, Writes, WorkTypes,
       SetTypes, CallTypes, Goto, Finish, Register, callVars, dictVars, setVars,
       workVars, sseVars
  <2>3. ActiveInv'
    BY <1>10, WorkerKnows DEF TopCancelled, ActiveInv, Unfinished, Born, Key,
       WorkTypes, SetTypes, DictTypes, Goto, Finish, Register, callVars, dictVars,
       setVars, workVars, sseVars
  <2>4. WorkerInv'
    BY <1>10, WorkerKnows DEF TopCancelled, WorkerInv, Working, OnModel, Last, Key,
       WorkTypes, SetTypes, Goto, Finish, Register, callVars, dictVars, setVars,
       workVars, sseVars, Born
  <2>5. WorkersOwnTheirSet'
    BY <1>10, WorkerKnows DEF TopCancelled, WorkersOwnTheirSet, WorkTypes, Goto,
       Finish, Register, callVars, dictVars, setVars, workVars, sseVars, Born
  <2>6. EntriesInv'
    BY <1>10, WorkerKnows DEF TopCancelled, EntriesInv, Born, Key, WorkTypes,
       SetTypes, DictTypes, Goto, Finish, Register, callVars, dictVars, setVars,
       workVars, sseVars
  <2> QED BY <2>1, <2>2, <2>3, <2>4, <2>5, <2>6
<1>11. ASSUME NEW w \in Ids, TopDownload(w) PROVE Parts'
  <2>1. LockInv'
    <3>1. /\ wpc[w] = "top" /\ wset[w] = w /\ idx[w] \in Slots /\ w \notin finished
          /\ keyOf[w] \in Keys
      BY <1>11, WorkerKnows, Sizes DEF TopDownload, Born, WorkerInv, Working, WorkTypes, Slots
    <3>2. /\ inner' \in {[inner EXCEPT ![w][idx[w]] = "running"], inner}
          /\ UNCHANGED <<keyOf, active, finished, idx, innerThreads, at, lock, wants, made>>
      BY <1>11 DEF TopDownload, callVars, dictVars
    <3>3. active[keyOf[w]] = w
      BY <3>1 DEF ActiveInv, Unfinished, Born
    <3>4. \A k \in Keys : Alive(innerThreads[k])' /\ ~Alive(innerThreads[k])
                          => innerThreads[k] \in Threads /\ innerThreads[k].set = w
      BY <3>2 DEF Alive, Threads, WorkTypes
    <3>5. \A k \in Keys : Busy(k)' => Busy(k)
      BY <3>1, <3>2, <3>3, <3>4 DEF Busy, EntriesInv
    <3> QED BY <3>2, <3>5 DEF LockInv
  <2>2. BirthInv'
    BY <1>11, WorkerKnows DEF TopDownload, BirthInv, Born, Writes, WorkTypes,
       SetTypes, CallTypes, Goto, Finish, Register, callVars, dictVars, setVars,
       workVars, sseVars
  <2>3. ActiveInv'
    BY <1>11, WorkerKnows DEF TopDownload, ActiveInv, Unfinished, Born, Key,
       WorkTypes, SetTypes, DictTypes, Goto, Finish, Register, callVars, dictVars,
       setVars, workVars, sseVars
  <2>4. WorkerInv'
    BY <1>11, WorkerKnows DEF TopDownload, WorkerInv, Working, OnModel, Last, Key,
       WorkTypes, SetTypes, Goto, Finish, Register, callVars, dictVars, setVars,
       workVars, sseVars, Born
  <2>5. WorkersOwnTheirSet'
    BY <1>11, WorkerKnows DEF TopDownload, WorkersOwnTheirSet, WorkTypes, Goto,
       Finish, Register, callVars, dictVars, setVars, workVars, sseVars, Born
  <2>6. EntriesInv'
    <3>1. PICK p \in {"poll", "lost"} : wpc' = [wpc EXCEPT ![w] = p]
      BY <1>11 DEF TopDownload, Goto
    <3>2. UNCHANGED <<active, innerThreads, keyOf>> BY <1>11 DEF TopDownload, dictVars
    <3> QED BY <3>1, <3>2 DEF EntriesInv, Born, WorkTypes
  <2> QED BY <2>1, <2>2, <2>3, <2>4, <2>5, <2>6
<1>12. ASSUME NEW w \in Ids, TopEnd(w) PROVE Parts'
  <2>1. LockInv'
    BY <1>12, WorkerKnows DEF TopEnd, LockInv, Busy, Alive, CallTypes, SetTypes,
       DictTypes, Goto, Finish, Register, callVars, dictVars, setVars, workVars,
       sseVars, Born
  <2>2. BirthInv'
    <3>1. wset[w] = w /\ finished' = finished \cup {w} /\ wpc[w] = "top"
      BY <1>12, WorkerKnows DEF TopEnd, Finish, Born
    <3>2. UNCHANGED <<inner, keyOf, made>> /\ wpc' = [wpc EXCEPT ![w] = "say_end"]
      BY <1>12 DEF TopEnd, Goto, callVars
    <3> QED BY <3>1, <3>2 DEF BirthInv, Born, Writes, WorkTypes
  <2>3. ActiveInv'
    BY <1>12, WorkerKnows DEF TopEnd, ActiveInv, Unfinished, Born, Key, WorkTypes,
       SetTypes, DictTypes, Goto, Finish, Register, callVars, dictVars, setVars,
       workVars, sseVars
  <2>4. WorkerInv'
    BY <1>12, WorkerKnows DEF TopEnd, WorkerInv, Working, OnModel, Last, Key,
       WorkTypes, SetTypes, Goto, Finish, Register, callVars, dictVars, setVars,
       workVars, sseVars, Born
  <2>5. WorkersOwnTheirSet'
    BY <1>12, WorkerKnows DEF TopEnd, WorkersOwnTheirSet, WorkTypes, Goto, Finish,
       Register, callVars, dictVars, setVars, workVars, sseVars, Born
  <2>6. EntriesInv'
    BY <1>12, WorkerKnows DEF TopEnd, EntriesInv, Born, Key, WorkTypes, SetTypes,
       DictTypes, Goto, Finish, Register, callVars, dictVars, setVars, workVars,
       sseVars
  <2> QED BY <2>1, <2>2, <2>3, <2>4, <2>5, <2>6
<1>13. ASSUME NEW w \in Ids, PollTick(w) PROVE Parts'
  BY <1>13, PartsFrame DEF PollTick, callVars, dictVars, setVars, workVars, sseVars
<1>14. ASSUME NEW w \in Ids, Poll(w) \/ PollRaises(w) PROVE Parts'
  <2>1. LockInv'
    BY <1>14, PartsFrame DEF Poll, PollRaises, callVars, dictVars, setVars, workVars, sseVars
  <2>2. BirthInv'
    <3>1. PICK p \in {"won", "lost", "stop"} : wpc' = [wpc EXCEPT ![w] = p]
      BY <1>14 DEF Poll, PollRaises, Goto
    <3>2. wpc[w] = "poll" /\ UNCHANGED <<inner, keyOf, made, finished>>
      BY <1>14 DEF Poll, PollRaises, callVars, setVars
    <3> QED BY <3>1, <3>2 DEF BirthInv, Born, Writes, WorkTypes
  <2>3. ActiveInv'
    BY <1>14, WorkerKnows DEF Poll, PollRaises, ActiveInv, Unfinished, Born, Key, WorkTypes,
       SetTypes, DictTypes, Goto, Finish, Register, callVars, dictVars, setVars,
       workVars, sseVars
  <2>4. WorkerInv'
    BY <1>14, WorkerKnows DEF Poll, PollRaises, WorkerInv, Working, OnModel, Last, Key,
       WorkTypes, SetTypes, Goto, Finish, Register, callVars, dictVars, setVars,
       workVars, sseVars, Born
  <2>5. WorkersOwnTheirSet'
    BY <1>14, WorkerKnows DEF Poll, PollRaises, WorkersOwnTheirSet, WorkTypes, Goto, Finish,
       Register, callVars, dictVars, setVars, workVars, sseVars, Born
  <2>6. EntriesInv'
    <3>1. PICK p \in {"won", "lost", "stop"} : wpc' = [wpc EXCEPT ![w] = p]
      BY <1>14 DEF Poll, PollRaises, Goto
    <3>2. wpc[w] = "poll" /\ UNCHANGED <<active, innerThreads, keyOf>>
      BY <1>14 DEF Poll, PollRaises, dictVars, setVars
    <3> QED BY <3>1, <3>2 DEF EntriesInv, Born, Threads, WorkTypes
  <2> QED BY <2>1, <2>2, <2>3, <2>4, <2>5, <2>6
<1>15. ASSUME NEW w \in Ids, ModelDone(w) PROVE Parts'
  <2>1. LockInv'
    <3>1. \A c \in Callers : at[c] \notin {"check", "create"}
      BY <1>15, NoneAssumption DEF ModelDone, LockFree, LockInv
    <3> QED BY <1>15, <3>1 DEF ModelDone, LockInv, callVars
  <2>2. BirthInv'
    BY <1>15, WorkerKnows DEF ModelDone, BirthInv, Born, Writes, WorkTypes,
       SetTypes, CallTypes, Goto, Finish, Register, callVars, dictVars, setVars,
       workVars, sseVars
  <2>3. ActiveInv'
    BY <1>15, WorkerKnows DEF ModelDone, ActiveInv, Unfinished, Born, Key,
       WorkTypes, SetTypes, DictTypes, Goto, Finish, Register, callVars, dictVars,
       setVars, workVars, sseVars
  <2>4. WorkerInv'
    BY <1>15, WorkerKnows DEF ModelDone, WorkerInv, Working, OnModel, Last, Key,
       WorkTypes, SetTypes, Goto, Finish, Register, callVars, dictVars, setVars,
       workVars, sseVars, Born
  <2>5. WorkersOwnTheirSet'
    BY <1>15, WorkerKnows DEF ModelDone, WorkersOwnTheirSet, WorkTypes, Goto,
       Finish, Register, callVars, dictVars, setVars, workVars, sseVars, Born
  <2>6. EntriesInv'
    BY <1>15, WorkerKnows DEF ModelDone, EntriesInv, Born, Key, WorkTypes,
       SetTypes, DictTypes, Goto, Finish, Register, callVars, dictVars, setVars,
       workVars, sseVars
  <2> QED BY <2>1, <2>2, <2>3, <2>4, <2>5, <2>6
<1>16. ASSUME NEW w \in Ids, CancelRegister(w) PROVE Parts'
  <2>1. LockInv'
    <3>1. \A c \in Callers : at[c] \notin {"check", "create"}
      BY <1>16, NoneAssumption DEF CancelRegister, LockFree, LockInv
    <3> QED BY <1>16, <3>1 DEF CancelRegister, LockInv, callVars
  <2>2. BirthInv'
    BY <1>16, WorkerKnows DEF CancelRegister, BirthInv, Born, Writes, WorkTypes,
       SetTypes, CallTypes, Goto, Finish, Register, callVars, dictVars, setVars,
       workVars, sseVars
  <2>3. ActiveInv'
    BY <1>16, WorkerKnows DEF CancelRegister, ActiveInv, Unfinished, Born, Key,
       WorkTypes, SetTypes, DictTypes, Goto, Finish, Register, callVars, dictVars,
       setVars, workVars, sseVars
  <2>4. WorkerInv'
    BY <1>16, WorkerKnows DEF CancelRegister, WorkerInv, Working, OnModel, Last,
       Key, WorkTypes, SetTypes, Goto, Finish, Register, callVars, dictVars,
       setVars, workVars, sseVars, Born
  <2>5. WorkersOwnTheirSet'
    BY <1>16, WorkerKnows DEF CancelRegister, WorkersOwnTheirSet, WorkTypes, Goto,
       Finish, Register, callVars, dictVars, setVars, workVars, sseVars, Born
  <2>6. EntriesInv'
    BY <1>16, WorkerKnows DEF CancelRegister, EntriesInv, Born, Key, WorkTypes,
       SetTypes, DictTypes, Goto, Finish, Register, callVars, dictVars, setVars,
       workVars, sseVars
  <2> QED BY <2>1, <2>2, <2>3, <2>4, <2>5, <2>6
<1>17. ASSUME NEW w \in Ids, CancelMark(w) PROVE Parts'
  <2>1. LockInv'
    BY <1>17, WorkerKnows DEF CancelMark, LockInv, Busy, Alive, CallTypes,
       SetTypes, DictTypes, Goto, Finish, Register, callVars, dictVars, setVars,
       workVars, sseVars, Born
  <2>2. BirthInv'
    BY <1>17, WorkerKnows DEF CancelMark, BirthInv, Born, Writes, WorkTypes,
       SetTypes, CallTypes, Goto, Finish, Register, callVars, dictVars, setVars,
       workVars, sseVars
  <2>3. ActiveInv'
    BY <1>17, WorkerKnows DEF CancelMark, ActiveInv, Unfinished, Born, Key,
       WorkTypes, SetTypes, DictTypes, Goto, Finish, Register, callVars, dictVars,
       setVars, workVars, sseVars
  <2>4. WorkerInv'
    BY <1>17, WorkerKnows DEF CancelMark, WorkerInv, Working, OnModel, Last, Key,
       WorkTypes, SetTypes, Goto, Finish, Register, callVars, dictVars, setVars,
       workVars, sseVars, Born
  <2>5. WorkersOwnTheirSet'
    BY <1>17, WorkerKnows DEF CancelMark, WorkersOwnTheirSet, WorkTypes, Goto,
       Finish, Register, callVars, dictVars, setVars, workVars, sseVars, Born
  <2>6. EntriesInv'
    BY <1>17, WorkerKnows DEF CancelMark, EntriesInv, Born, Key, WorkTypes,
       SetTypes, DictTypes, Goto, Finish, Register, callVars, dictVars, setVars,
       workVars, sseVars
  <2> QED BY <2>1, <2>2, <2>3, <2>4, <2>5, <2>6
<1>18. ASSUME NEW w \in Ids, SayCancelled(w) PROVE Parts'
  <2>1. LockInv'
    BY <1>18, PartsFrame DEF SayCancelled, callVars, dictVars, setVars, workVars, sseVars
  <2>2. BirthInv'
    BY <1>18, WorkerKnows DEF SayCancelled, BirthInv, Born, Writes, WorkTypes,
       SetTypes, CallTypes, Goto, Finish, Register, callVars, dictVars, setVars,
       workVars, sseVars
  <2>3. ActiveInv'
    BY <1>18, WorkerKnows DEF SayCancelled, ActiveInv, Unfinished, Born, Key,
       WorkTypes, SetTypes, DictTypes, Goto, Finish, Register, callVars, dictVars,
       setVars, workVars, sseVars
  <2>4. WorkerInv'
    BY <1>18, WorkerKnows DEF SayCancelled, WorkerInv, Working, OnModel, Last, Key,
       WorkTypes, SetTypes, Goto, Finish, Register, callVars, dictVars, setVars,
       workVars, sseVars, Born
  <2>5. WorkersOwnTheirSet'
    BY <1>18, WorkerKnows DEF SayCancelled, WorkersOwnTheirSet, WorkTypes, Goto,
       Finish, Register, callVars, dictVars, setVars, workVars, sseVars, Born
  <2>6. EntriesInv'
    BY <1>18, WorkerKnows DEF SayCancelled, EntriesInv, Born, Key, WorkTypes,
       SetTypes, DictTypes, Goto, Finish, Register, callVars, dictVars, setVars,
       workVars, sseVars
  <2> QED BY <2>1, <2>2, <2>3, <2>4, <2>5, <2>6
<1>19. ASSUME NEW w \in Ids, ModelError(w) PROVE Parts'
  <2>1. LockInv'
    BY <1>19, PartsFrame DEF ModelError, callVars, dictVars, setVars, workVars, sseVars
  <2>2. BirthInv'
    BY <1>19, WorkerKnows DEF ModelError, BirthInv, Born, Writes, WorkTypes,
       SetTypes, CallTypes, Goto, Finish, Register, callVars, dictVars, setVars,
       workVars, sseVars
  <2>3. ActiveInv'
    BY <1>19, WorkerKnows DEF ModelError, ActiveInv, Unfinished, Born, Key,
       WorkTypes, SetTypes, DictTypes, Goto, Finish, Register, callVars, dictVars,
       setVars, workVars, sseVars
  <2>4. WorkerInv'
    BY <1>19, WorkerKnows DEF ModelError, WorkerInv, Working, OnModel, Last, Key,
       WorkTypes, SetTypes, Goto, Finish, Register, callVars, dictVars, setVars,
       workVars, sseVars, Born
  <2>5. WorkersOwnTheirSet'
    BY <1>19, WorkerKnows DEF ModelError, WorkersOwnTheirSet, WorkTypes, Goto,
       Finish, Register, callVars, dictVars, setVars, workVars, sseVars, Born
  <2>6. EntriesInv'
    BY <1>19, WorkerKnows DEF ModelError, EntriesInv, Born, Key, WorkTypes,
       SetTypes, DictTypes, Goto, Finish, Register, callVars, dictVars, setVars,
       workVars, sseVars
  <2> QED BY <2>1, <2>2, <2>3, <2>4, <2>5, <2>6
<1>20. ASSUME NEW w \in Ids, ErrorContinue(w) PROVE Parts'
  <2>1. LockInv'
    BY <1>20, PartsFrame DEF ErrorContinue, callVars, dictVars, setVars, workVars, sseVars
  <2>2. BirthInv'
    BY <1>20, WorkerKnows DEF ErrorContinue, BirthInv, Born, Writes, WorkTypes,
       SetTypes, CallTypes, Goto, Finish, Register, callVars, dictVars, setVars,
       workVars, sseVars
  <2>3. ActiveInv'
    BY <1>20, WorkerKnows DEF ErrorContinue, ActiveInv, Unfinished, Born, Key,
       WorkTypes, SetTypes, DictTypes, Goto, Finish, Register, callVars, dictVars,
       setVars, workVars, sseVars
  <2>4. WorkerInv'
    BY <1>20, WorkerKnows DEF ErrorContinue, WorkerInv, Working, OnModel, Last,
       Key, WorkTypes, SetTypes, Goto, Finish, Register, callVars, dictVars,
       setVars, workVars, sseVars, Born
  <2>5. WorkersOwnTheirSet'
    BY <1>20, WorkerKnows DEF ErrorContinue, WorkersOwnTheirSet, WorkTypes, Goto,
       Finish, Register, callVars, dictVars, setVars, workVars, sseVars, Born
  <2>6. EntriesInv'
    BY <1>20, WorkerKnows DEF ErrorContinue, EntriesInv, Born, Key, WorkTypes,
       SetTypes, DictTypes, Goto, Finish, Register, callVars, dictVars, setVars,
       workVars, sseVars
  <2> QED BY <2>1, <2>2, <2>3, <2>4, <2>5, <2>6
<1>21. ASSUME NEW w \in Ids, ErrorCancelled(w) PROVE Parts'
  <2>1. LockInv'
    BY <1>21, WorkerKnows DEF ErrorCancelled, LockInv, Busy, Alive, CallTypes,
       SetTypes, DictTypes, Goto, Finish, Register, callVars, dictVars, setVars,
       workVars, sseVars, Born
  <2>2. BirthInv'
    BY <1>21, WorkerKnows DEF ErrorCancelled, BirthInv, Born, Writes, WorkTypes,
       SetTypes, CallTypes, Goto, Finish, Register, callVars, dictVars, setVars,
       workVars, sseVars
  <2>3. ActiveInv'
    BY <1>21, WorkerKnows DEF ErrorCancelled, ActiveInv, Unfinished, Born, Key,
       WorkTypes, SetTypes, DictTypes, Goto, Finish, Register, callVars, dictVars,
       setVars, workVars, sseVars
  <2>4. WorkerInv'
    BY <1>21, WorkerKnows DEF ErrorCancelled, WorkerInv, Working, OnModel, Last,
       Key, WorkTypes, SetTypes, Goto, Finish, Register, callVars, dictVars,
       setVars, workVars, sseVars, Born
  <2>5. WorkersOwnTheirSet'
    BY <1>21, WorkerKnows DEF ErrorCancelled, WorkersOwnTheirSet, WorkTypes, Goto,
       Finish, Register, callVars, dictVars, setVars, workVars, sseVars, Born
  <2>6. EntriesInv'
    BY <1>21, WorkerKnows DEF ErrorCancelled, EntriesInv, Born, Key, WorkTypes,
       SetTypes, DictTypes, Goto, Finish, Register, callVars, dictVars, setVars,
       workVars, sseVars
  <2> QED BY <2>1, <2>2, <2>3, <2>4, <2>5, <2>6
<1>22. ASSUME NEW w \in Ids, SayQuiet(w) PROVE Parts'
  <2>1. LockInv'
    BY <1>22, PartsFrame DEF SayQuiet, callVars, dictVars, setVars, workVars, sseVars
  <2>2. BirthInv'
    BY <1>22, WorkerKnows DEF SayQuiet, BirthInv, Born, Writes, WorkTypes,
       SetTypes, CallTypes, Goto, Finish, Register, callVars, dictVars, setVars,
       workVars, sseVars
  <2>3. ActiveInv'
    BY <1>22, WorkerKnows DEF SayQuiet, ActiveInv, Unfinished, Born, Key,
       WorkTypes, SetTypes, DictTypes, Goto, Finish, Register, callVars, dictVars,
       setVars, workVars, sseVars
  <2>4. WorkerInv'
    BY <1>22, WorkerKnows DEF SayQuiet, WorkerInv, Working, OnModel, Last, Key,
       WorkTypes, SetTypes, Goto, Finish, Register, callVars, dictVars, setVars,
       workVars, sseVars, Born
  <2>5. WorkersOwnTheirSet'
    BY <1>22, WorkerKnows DEF SayQuiet, WorkersOwnTheirSet, WorkTypes, Goto,
       Finish, Register, callVars, dictVars, setVars, workVars, sseVars, Born
  <2>6. EntriesInv'
    BY <1>22, WorkerKnows DEF SayQuiet, EntriesInv, Born, Key, WorkTypes, SetTypes,
       DictTypes, Goto, Finish, Register, callVars, dictVars, setVars, workVars,
       sseVars
  <2> QED BY <2>1, <2>2, <2>3, <2>4, <2>5, <2>6
<1>23. ASSUME NEW w \in Ids, SayEnd(w) PROVE Parts'
  <2>1. LockInv'
    BY <1>23, PartsFrame DEF SayEnd, callVars, dictVars, setVars, workVars, sseVars
  <2>2. BirthInv'
    BY <1>23, WorkerKnows DEF SayEnd, BirthInv, Born, Writes, WorkTypes, SetTypes,
       CallTypes, Goto, Finish, Register, callVars, dictVars, setVars, workVars,
       sseVars
  <2>3. ActiveInv'
    BY <1>23, WorkerKnows DEF SayEnd, ActiveInv, Unfinished, Born, Key, WorkTypes,
       SetTypes, DictTypes, Goto, Finish, Register, callVars, dictVars, setVars,
       workVars, sseVars
  <2>4. WorkerInv'
    BY <1>23, WorkerKnows DEF SayEnd, WorkerInv, Working, OnModel, Last, Key,
       WorkTypes, SetTypes, Goto, Finish, Register, callVars, dictVars, setVars,
       workVars, sseVars, Born
  <2>5. WorkersOwnTheirSet'
    BY <1>23, WorkerKnows DEF SayEnd, WorkersOwnTheirSet, WorkTypes, Goto, Finish,
       Register, callVars, dictVars, setVars, workVars, sseVars, Born
  <2>6. EntriesInv'
    BY <1>23, WorkerKnows DEF SayEnd, EntriesInv, Born, Key, WorkTypes, SetTypes,
       DictTypes, Goto, Finish, Register, callVars, dictVars, setVars, workVars,
       sseVars
  <2> QED BY <2>1, <2>2, <2>3, <2>4, <2>5, <2>6
<1>24. ASSUME NEW n \in Ids, NEW i \in Slots, InnerEnd(n, i) PROVE Parts'
  <2>1. ActiveInv' /\ WorkerInv' /\ WorkersOwnTheirSet' /\ EntriesInv'
    BY <1>24, PartsFrame DEF InnerEnd, callVars, dictVars, setVars, workVars, sseVars
  <2>2. LockInv'
    BY <1>24 DEF InnerEnd, LockInv, Busy, Alive, CallTypes, SetTypes, DictTypes,
       callVars, dictVars, setVars, workVars, sseVars
  <2>3. BirthInv'
    BY <1>24 DEF InnerEnd, BirthInv, Born, Writes, WorkTypes, SetTypes, CallTypes,
       callVars, dictVars, setVars, workVars, sseVars
  <2> QED BY <2>1, <2>2, <2>3
<1>25. ASSUME NEW s \in Clients, NEW k \in Keys, StreamOpen(s, k) PROVE Parts'
  BY <1>25, PartsFrame DEF StreamOpen, callVars, dictVars, setVars, workVars, sseVars
<1>26. ASSUME NEW s \in Clients, StreamSend(s) PROVE Parts'
  BY <1>26, PartsFrame DEF StreamSend, callVars, dictVars, setVars, workVars, sseVars
<1>27. ASSUME NEW s \in Clients, StreamSeesEnd(s) PROVE Parts'
  BY <1>27, PartsFrame DEF StreamSeesEnd, callVars, dictVars, setVars, workVars, sseVars
<1>28. ASSUME NEW s \in Clients, StreamReturn(s) PROVE Parts'
  BY <1>28, PartsFrame DEF StreamReturn, callVars, dictVars, setVars, workVars, sseVars, Unsubscribe
<1>29. ASSUME NEW s \in Clients, StreamDrop(s) PROVE Parts'
  BY <1>29, PartsFrame DEF StreamDrop, callVars, dictVars, setVars, workVars, sseVars, Unsubscribe
<1>30. CASE UNCHANGED vars
  BY <1>30, PartsFrame DEF vars, callVars, dictVars, setVars, workVars, sseVars
<1> QED
  BY <1>1, <1>2, <1>3, <1>4, <1>5, <1>6, <1>7, <1>8, <1>9, <1>10, <1>11, <1>12, <1>13, <1>14, <1>15, <1>16, <1>17, <1>18, <1>19, <1>20, <1>21, <1>22, <1>23, <1>24, <1>25, <1>26, <1>27, <1>28, <1>29, <1>30
     DEF Next, Worker, Work, Stream, StartStep

\* A worker's step is its own.
LEMMA OwnStep ==
  ASSUME CoreInv, NEW w \in Ids, Worker(w)
  PROVE  /\ \A u \in Ids \ {w} : /\ wpc'[u] = wpc[u] /\ idx'[u] = idx[u] /\ state'[u] = state[u]
                                 /\ u \in errored' <=> u \in errored
         /\ keyOf' = keyOf /\ active' = active /\ Last(w) \in Slots /\ (wpc[w] # "begin" => wset[w] = w)
         /\ wpc[w] \in OnModel => idx[w] \in Slots /\ idx[w] <= Last(w)
         /\ idx[w] \in Nat /\ wpc \in [Ids -> WorkerPoints]
         /\ state \in [Ids -> [Slots -> ModelStates]] /\ idx \in [Ids -> 1..(MaxModels + 1)]
PROOF
<1>1. Born(w)
  BY DEF Worker, Work, PollRaises, Born, WorkerBegin, TopCancelled, TopDownload, TopEnd, PollTick, Poll, ModelDone,
         CancelRegister, CancelMark, SayCancelled, ModelError, ErrorContinue, ErrorCancelled,
         SayQuiet, SayEnd
<1>2. /\ wpc \in [Ids -> WorkerPoints] /\ idx \in [Ids -> 1..(MaxModels + 1)]
      /\ state \in [Ids -> [Slots -> ModelStates]]
  BY DEF CoreInv, TypeOK, WorkTypes, SetTypes
<1>3. Last(w) \in Slots /\ (wpc[w] # "begin" => wset[w] = w)
      /\ (wpc[w] \in OnModel => idx[w] \in Slots)
  BY <1>1, WorkerKnows
<1>4. wpc[w] \in OnModel => idx[w] <= Last(w) BY DEF CoreInv, WorkerInv
<1>5. idx[w] \in Nat BY <1>2
<1>6. keyOf' = keyOf /\ active' = active
  BY DEF Worker, Work, PollRaises, WorkerBegin, TopCancelled, TopDownload, TopEnd, PollTick, Poll, ModelDone,
         CancelRegister, CancelMark, SayCancelled, ModelError, ErrorContinue, ErrorCancelled,
         SayQuiet, SayEnd, setVars, dictVars
<1>7. ASSUME NEW u \in Ids \ {w}
      PROVE  /\ wpc'[u] = wpc[u] /\ idx'[u] = idx[u] /\ state'[u] = state[u]
             /\ u \in errored' <=> u \in errored
  BY <1>2, <1>3 DEF Worker, Work, PollRaises, WorkerBegin, TopCancelled, TopDownload, TopEnd, PollTick, Poll, ModelDone,
         CancelRegister, CancelMark, SayCancelled, ModelError, ErrorContinue, ErrorCancelled,
         SayQuiet, SayEnd, Goto, Mark, setVars, workVars
<1> QED BY <1>2, <1>3, <1>4, <1>5, <1>6, <1>7

\* What happens to the threads of set w in a step of its worker that starts none
\* and loses none.
LEMMA SameThreads ==
  ASSUME IInv, NEW w \in Ids, Worker(w), ~TopDownload(w), ~PollRaises(w),
         NEW n \in Ids, NEW i \in Slots
  PROVE  (Writes(n, i)' <=> Writes(n, i)) /\ (Stray(n, i)' <=> Stray(n, i))
<1>1. /\ \A u \in Ids \ {w} : wpc'[u] = wpc[u] /\ idx'[u] = idx[u] /\ state'[u] = state[u]
      /\ wpc[w] # "begin" => wset[w] = w
      /\ wpc[w] \in OnModel => idx[w] \in Slots /\ idx[w] <= Last(w)
      /\ Last(w) \in Slots /\ idx[w] \in Nat /\ wpc \in [Ids -> WorkerPoints]
      /\ state \in [Ids -> [Slots -> ModelStates]] /\ idx \in [Ids -> 1..(MaxModels + 1)]
  BY OwnStep DEF IInv
<1>2. inner' = inner
  BY DEF Worker, Work, WorkerBegin, TopCancelled, TopEnd, PollTick, Poll, ModelDone,
         CancelRegister, CancelMark, SayCancelled, ModelError, ErrorContinue, ErrorCancelled,
         SayQuiet, SayEnd, workVars
<1>3. CASE n # w BY <1>1, <1>2, <1>3 DEF Stray, Writes
<1>4. CASE n = w
  <2> DEFINE keeps == state' = state
             marks(s) == state'[w] = [state[w] EXCEPT ![idx[w]] = s]
  <2>1. Writes(w, i) /\ state[w][i] = "error" => StrayOf(w, i) BY DEF IInv, StrayInv
  <2>2. CASE WorkerBegin(w) \/ PollTick(w) \/ CancelRegister(w) \/ ErrorContinue(w)
             \/ ErrorCancelled(w) \/ SayCancelled(w) \/ SayQuiet(w) \/ SayEnd(w) \/ TopEnd(w)
    <3>1. keeps /\ wpc[w] # "lost" /\ wpc'[w] # "lost"
      BY <1>1, <2>2 DEF WorkerBegin, PollTick, CancelRegister, ErrorContinue, ErrorCancelled,
         SayCancelled, SayQuiet, SayEnd, TopEnd, Goto, setVars, workVars
    <3> QED BY <1>2, <1>4, <3>1 DEF Stray, Writes
  <2>3. CASE Poll(w)
    <3>1. keeps /\ wpc[w] # "lost" /\ idx' = idx
          /\ (wpc'[w] = "lost" => inner[w][idx[w]] = "error")
      BY <1>1, <2>3 DEF Poll, Goto, setVars
    <3> QED BY <1>2, <1>4, <3>1 DEF Stray, Writes
  <2>4. CASE TopCancelled(w) \/ CancelMark(w) \/ ModelDone(w)
    <3>1. wpc[w] \in {"top", "mark", "won"} /\ wpc'[w] # "lost" /\ idx[w] <= Last(w)
      BY <1>1, <2>4 DEF TopCancelled, CancelMark, ModelDone, Goto, OnModel
    <3>2. marks("cancelled") \/ marks("done")
      BY <1>1, <2>4, <3>1 DEF TopCancelled, CancelMark, ModelDone, Mark
    <3>3. Writes(w, i) /\ state[w][i] = "error" => i # idx[w]
      BY <2>1, <3>1 DEF StrayOf
    <3>4. i = idx[w] => state'[w][i] # "error" BY <1>1, <3>2
    <3>5. i # idx[w] => state'[w][i] = state[w][i] BY <1>1, <3>2
    <3> QED BY <1>2, <1>4, <3>1, <3>3, <3>4, <3>5 DEF Stray, Writes
  <2>5. CASE ModelError(w)
    <3>1. wpc[w] = "lost" /\ wpc'[w] = "lost_check" /\ idx' = idx /\ idx[w] \in Slots
      BY <1>1, <2>5 DEF ModelError, Goto, OnModel
    <3>2. marks("error") BY <1>1, <2>5, <3>1 DEF ModelError, Mark
    <3>3. i = idx[w] => state'[w][i] = "error" BY <1>1, <3>2
    <3>4. i # idx[w] => state'[w][i] = state[w][i] BY <1>1, <3>2
    <3> QED BY <1>2, <1>4, <3>1, <3>3, <3>4 DEF Stray, Writes
  <2> QED BY <2>2, <2>3, <2>4, <2>5 DEF Worker, Work
<1> QED BY <1>3, <1>4

\* A step of a worker keeps what is known of the threads of the other sets.
LEMMA OthersThreads ==
  ASSUME IInv, NEW w \in Ids, Worker(w), NEW n \in Ids \ {w}, NEW i \in Slots
  PROVE  /\ Tracked(n, i)' => WriterOf(n, i)'
         /\ (Writes(n, i) /\ state[n][i] = "error")' => StrayOf(n, i)'
         /\ (Tracked(n, i)' <=> Tracked(n, i)) /\ (Stray(n, i)' <=> Stray(n, i))
<1>1. wpc'[n] = wpc[n] /\ idx'[n] = idx[n] /\ state'[n] = state[n]
      /\ keyOf' = keyOf /\ active' = active
  BY OwnStep DEF IInv
<1>2. inner'[n] = inner[n]
  BY DEF IInv, CoreInv, TypeOK, WorkTypes, Worker, Work, PollRaises, WorkerBegin, TopCancelled,
         TopDownload, TopEnd, PollTick, Poll, ModelDone, CancelRegister, CancelMark, SayCancelled,
         ModelError, ErrorContinue, ErrorCancelled, SayQuiet, SayEnd, workVars
<1>3. Tracked(n, i)' <=> Tracked(n, i) BY <1>1, <1>2 DEF Tracked, Stray, Writes
<1>4. Stray(n, i)' <=> Stray(n, i) BY <1>1, <1>2 DEF Stray, Writes
<1>5. Tracked(n, i)' => WriterOf(n, i)'
  <2> SUFFICES ASSUME Tracked(n, i) PROVE WriterOf(n, i)' BY <1>3
  <2>1. WriterOf(n, i) BY DEF IInv, WriterInv
  <2>2. innerThreads'[keyOf[n]] = innerThreads[keyOf[n]]
    <3>1. CASE UNCHANGED innerThreads BY <3>1
    <3>2. CASE ModelDone(w) \/ CancelRegister(w)
      <4>1. wpc[w] \in {"won", "stop"} /\ Register(w) BY <3>2 DEF ModelDone, CancelRegister
      <4>2. active[keyOf[w]] = w
        BY <4>1 DEF IInv, CoreInv, WorkerInv, ActiveInv, Unfinished, Born, Working
      <4>3. keyOf[n] # keyOf[w] BY <2>1, <4>2 DEF WriterOf
      <4> QED BY <4>1, <4>3 DEF Register, Key, IInv, CoreInv, TypeOK, DictTypes
    <3> QED BY <3>1, <3>2 DEF Worker, Work, PollRaises, WorkerBegin, TopCancelled,
         TopDownload, TopEnd, PollTick, Poll, CancelMark, SayCancelled,
         ModelError, ErrorContinue, ErrorCancelled, SayQuiet, SayEnd, dictVars
  <2> QED BY <1>1, <2>1, <2>2 DEF WriterOf
<1>6. (Writes(n, i) /\ state[n][i] = "error")' => StrayOf(n, i)'
  BY <1>1, <1>2 DEF IInv, StrayInv, Writes, StrayOf
<1> QED BY <1>3, <1>4, <1>5, <1>6

\* No thread of a set is alive at the model its worker is about to start.
LEMMA NoneAhead ==
  ASSUME IInv, NEW w \in Ids, wpc[w] = "top", idx[w] \in Slots
  PROVE  ~Writes(w, idx[w]) /\ \A i \in Slots : ~Tracked(w, i)
<1>1. \A i \in Slots : ~Tracked(w, i) BY DEF IInv, WriterInv, WriterOf
<1>2. ~Stray(w, idx[w]) BY DEF IInv, StrayInv, StrayOf, Stray
<1> QED BY <1>1, <1>2 DEF Tracked

\* A step of a worker keeps what is known of its own threads: it starts one and
\* watches it, leaves it registered when cancelled, or loses it.
LEMMA OwnThreads ==
  ASSUME IInv, NEW w \in Ids, Worker(w), NEW i \in Slots
  PROVE  /\ Tracked(w, i)' => WriterOf(w, i)'
         /\ (Writes(w, i) /\ state[w][i] = "error")' => StrayOf(w, i)'
<1>1. /\ keyOf' = keyOf /\ active' = active /\ (wpc[w] # "begin" => wset[w] = w)
      /\ wpc[w] \in OnModel => idx[w] \in Slots /\ idx[w] <= Last(w)
      /\ Last(w) \in Slots /\ idx[w] \in Nat /\ wpc \in [Ids -> WorkerPoints]
      /\ state \in [Ids -> [Slots -> ModelStates]] /\ idx \in [Ids -> 1..(MaxModels + 1)]
  BY OwnStep DEF IInv
<1>2. i \in Nat /\ MaxModels \in Nat /\ Last(w) \in Nat BY <1>1, Sizes DEF Slots
<1>o. /\ Tracked(w, i) => WriterOf(w, i)
      /\ Writes(w, i) /\ state[w][i] = "error" => StrayOf(w, i)
  BY DEF IInv, WriterInv, StrayInv
<1>3. CASE TopDownload(w)
  <2>1. wpc[w] = "top" /\ idx[w] \in Slots /\ wset[w] = w /\ w \notin finished
    BY <1>1, <1>3, Sizes DEF TopDownload, Slots, IInv, CoreInv, WorkerInv, Working
  <2>2. active[keyOf[w]] = w BY <2>1 DEF IInv, CoreInv, ActiveInv, Unfinished, Born
  <2>3. state'[w] = [state[w] EXCEPT ![idx[w]] = "downloading"] /\ idx' = idx
    BY <1>1, <1>3, <2>1 DEF TopDownload, Mark
  <2>4. ~Writes(w, idx[w]) /\ ~Tracked(w, i) BY <2>1, NoneAhead
  <2>5. i # idx[w] => inner'[w][i] = inner[w][i] /\ state'[w][i] = state[w][i]
    BY <1>1, <1>3, <2>1, <2>3 DEF TopDownload, IInv, CoreInv, TypeOK, WorkTypes
  <2>6. state'[w][idx[w]] = "downloading" BY <1>1, <2>1, <2>3
  <2>7. CASE i # idx[w]
    <3>1. Writes(w, i)' => Writes(w, i) /\ state[w][i] = "error" /\ state'[w][i] = "error"
      BY <2>1, <2>4, <2>5, <2>7 DEF Writes, Tracked, Stray
    <3>2. ~Tracked(w, i)' BY <3>1 DEF Tracked, Stray, Writes
    <3> QED BY <1>o, <2>3, <2>7, <3>1, <3>2 DEF StrayOf
  <2>8. CASE i = idx[w]
    <3>1. Writes(w, i)' => wpc'[w] = "poll"
      BY <1>1, <1>3, <2>4, <2>8 DEF TopDownload, Goto, Writes
    <3> QED BY <1>1, <2>2, <2>3, <2>6, <2>8, <3>1 DEF WriterOf, Tracked
  <2> QED BY <2>7, <2>8
<1>4. CASE PollRaises(w)
  <2>1. wpc[w] = "poll" /\ wpc'[w] = "lost" /\ UNCHANGED <<state, inner, idx>>
    BY <1>1, <1>4 DEF PollRaises, Goto, setVars
  <2>2. ~Tracked(w, i)' BY <1>o, <2>1 DEF Tracked, Stray, Writes, WriterOf
  <2> QED BY <1>o, <2>1, <2>2 DEF Writes, StrayOf
<1>5. CASE ~TopDownload(w) /\ ~PollRaises(w)
  <2>1. (Writes(w, i)' <=> Writes(w, i)) /\ (Tracked(w, i)' <=> Tracked(w, i))
    BY <1>5, SameThreads DEF Tracked
  <2>2. Tracked(w, i) => WriterOf(w, i)'
    <3> SUFFICES ASSUME Tracked(w, i) PROVE WriterOf(w, i)' OBVIOUS
    <3>1. CASE PollTick(w) BY <1>o, <3>1 DEF PollTick, WriterOf, dictVars, setVars, workVars
    <3>2. CASE Poll(w)
      <4>1. wpc'[w] = "stop"
        BY <1>1, <1>o, <3>2 DEF Poll, Goto, Tracked, Writes, WriterOf
      <4> QED BY <1>1, <1>o, <3>2, <4>1 DEF Poll, WriterOf
    <3>3. CASE CancelRegister(w)
      <4>1. keyOf[w] \in Keys
        BY <3>3 DEF CancelRegister, IInv, CoreInv, BirthInv, Born
      <4>2. innerThreads'[keyOf[w]] = [set |-> w, slot |-> idx[w]]
        BY <3>3, <4>1 DEF CancelRegister, Register, Key, IInv, CoreInv, TypeOK, DictTypes
      <4>3. wpc[w] = "stop" /\ wpc'[w] = "mark" BY <1>1, <3>3 DEF CancelRegister, Goto
      <4> QED BY <1>1, <1>o, <4>2, <4>3 DEF WriterOf
    <3>4. CASE CancelMark(w) \/ SayCancelled(w)
      BY <1>1, <1>o, <3>4 DEF CancelMark, SayCancelled, Goto, WriterOf, dictVars
    <3>5. wpc[w] \in {"poll", "stop", "mark", "say_cancelled"}
      BY <1>o DEF WriterOf, Worker, Work, PollRaises, WorkerBegin, TopCancelled,
         TopDownload, TopEnd, PollTick, Poll, ModelDone, CancelRegister, CancelMark, SayCancelled,
         ModelError, ErrorContinue, ErrorCancelled, SayQuiet, SayEnd
    <3> QED BY <1>5, <3>1, <3>2, <3>3, <3>4, <3>5 DEF Worker, Work, WorkerBegin, TopCancelled,
         TopEnd, ModelDone, ModelError, ErrorContinue, ErrorCancelled, SayQuiet, SayEnd
  <2>3. (Writes(w, i) /\ state[w][i] = "error")' => StrayOf(w, i)'
    <3> SUFFICES ASSUME Writes(w, i)', state'[w][i] = "error" PROVE StrayOf(w, i)'
      OBVIOUS
    <3>1. Stray(w, i)' /\ Stray(w, i) BY <1>5, SameThreads DEF Stray
    <3>2. CASE wpc[w] = "lost" /\ idx[w] = i
      <4>1. ModelError(w)
        BY <1>5, <3>2 DEF Worker, Work, WorkerBegin, TopCancelled, TopEnd, PollTick, Poll,
           ModelDone, CancelRegister, CancelMark, SayCancelled, ErrorContinue, ErrorCancelled,
           SayQuiet, SayEnd
      <4> QED BY <1>1, <3>2, <4>1 DEF ModelError, Goto, StrayOf
    <3>3. CASE state[w][i] = "error"
      <4>1. StrayOf(w, i) BY <1>o, <3>1, <3>3 DEF Stray
      <4>2. idx'[w] = idx[w] \/ (idx'[w] = idx[w] + 1 /\ (ModelDone(w) \/ ErrorContinue(w)))
        BY <1>1, <1>5 DEF Worker, Work, WorkerBegin, TopCancelled, TopEnd, PollTick, Poll,
           ModelDone, CancelRegister, CancelMark, SayCancelled, ModelError, ErrorContinue,
           ErrorCancelled, SayQuiet, SayEnd, workVars
      <4>3. CASE idx'[w] = idx[w] + 1
        BY <1>1, <1>2, <4>1, <4>3 DEF StrayOf
      <4>4. CASE idx'[w] = idx[w] /\ i # idx[w]
        BY <4>1, <4>4 DEF StrayOf
      <4>5. CASE idx'[w] = idx[w] /\ i = idx[w]
        <5>1. wpc[w] \in {"lost_check", "say_quiet", "exit"} BY <4>1, <4>5 DEF StrayOf
        <5>2. wpc'[w] \in {"say_quiet", "exit"} \/ ErrorContinue(w)
          BY <1>1, <1>5, <5>1 DEF Worker, Work, WorkerBegin, TopCancelled, TopEnd, PollTick, Poll,
             ModelDone, CancelRegister, CancelMark, SayCancelled, ModelError,
             ErrorCancelled, SayQuiet, SayEnd, Goto
        <5>3. ~ErrorContinue(w) BY <1>1, <4>5 DEF ErrorContinue
        <5> QED BY <4>1, <4>5, <5>2, <5>3 DEF StrayOf
      <4> QED BY <4>2, <4>3, <4>4, <4>5
    <3> QED BY <3>1, <3>2, <3>3 DEF Stray
  <2> QED BY <2>1, <2>2, <2>3
<1> QED BY <1>3, <1>4, <1>5

\* A key that start_download finds free has no thread the manager knows of.
LEMMA FreeKey ==
  ASSUME IInv, NEW k \in Keys, ~Busy(k), NEW n \in Ids, NEW i \in Slots, Tracked(n, i)
  PROVE  keyOf[n] # k
<1> SUFFICES ASSUME keyOf[n] = k PROVE FALSE
  OBVIOUS
<1>1. WriterOf(n, i) BY DEF IInv, WriterInv
<1>2. n \in finished /\ ~Alive(innerThreads[k]) BY <1>1 DEF Busy, WriterOf
<1>3. wpc[n] \notin {"poll", "stop"} BY <1>2 DEF IInv, CoreInv, WorkerInv, Working
<1>4. innerThreads[k] = [set |-> n, slot |-> i] BY <1>1, <1>3 DEF WriterOf
<1> QED BY <1>2, <1>4 DEF Alive, Threads, Tracked, Writes

\* No step breaks what is known of the live snapshot_download threads.
LEMMA WriterStep == IInv /\ [Next]_vars => WriterInv' /\ StrayInv'
<1> SUFFICES ASSUME IInv, [Next]_vars PROVE WriterInv' /\ StrayInv'
  OBVIOUS
<1>1. ASSUME NEW w \in Ids, Worker(w) PROVE WriterInv' /\ StrayInv'
  <2>1. \A n \in Ids, i \in Slots :
          /\ Tracked(n, i)' => WriterOf(n, i)'
          /\ (Writes(n, i) /\ state[n][i] = "error")' => StrayOf(n, i)'
    BY <1>1, OwnThreads, OthersThreads
  <2> QED BY <2>1 DEF WriterInv, StrayInv
<1>2. ASSUME NEW c \in Callers, StartCreate(c) PROVE WriterInv' /\ StrayInv'
  <2>1. /\ made + 1 \in Ids /\ wants[c] \in Keys /\ ~Busy(wants[c])
    BY <1>2 DEF StartCreate, IInv, CoreInv, LockInv
  <2>2. ~Born(made + 1) /\ \A i \in Slots : ~Writes(made + 1, i)
    BY <2>1, Sizes DEF IInv, CoreInv, TypeOK, BirthInv, CallTypes, Ids
  <2>3. /\ wpc' = [wpc EXCEPT ![made + 1] = "begin"]
        /\ keyOf' = [keyOf EXCEPT ![made + 1] = wants[c]]
        /\ active' = [active EXCEPT ![wants[c]] = made + 1]
        /\ UNCHANGED <<state, inner, idx, innerThreads>>
    BY <1>2 DEF StartCreate
  <2>4. \A n \in Ids, i \in Slots : Tracked(n, i) => keyOf[n] # wants[c]
    BY <2>1, FreeKey
  <2>5. ASSUME NEW n \in Ids, NEW i \in Slots, Writes(n, i)'
        PROVE  /\ Writes(n, i) /\ n # made + 1 /\ wpc'[n] = wpc[n] /\ keyOf'[n] = keyOf[n]
               /\ keyOf[n] \in Keys
    <3>1. Writes(n, i) /\ n # made + 1 BY <2>2, <2>3, <2>5 DEF Writes
    <3>2. Born(n) /\ keyOf[n] \in Keys BY <3>1 DEF IInv, CoreInv, BirthInv
    <3> QED BY <2>3, <3>1, <3>2 DEF IInv, CoreInv, TypeOK, WorkTypes, SetTypes
  <2>6. ASSUME NEW n \in Ids, NEW i \in Slots, Tracked(n, i)' PROVE WriterOf(n, i)'
    <3>1. Tracked(n, i) BY <2>3, <2>5, <2>6 DEF Tracked, Stray
    <3>2. WriterOf(n, i) BY <3>1 DEF IInv, WriterInv
    <3>3. active'[keyOf[n]] = active[keyOf[n]]
      BY <2>3, <2>4, <2>5, <2>6, <3>1 DEF Tracked, IInv, CoreInv, TypeOK, DictTypes
    <3> QED BY <2>3, <2>5, <2>6, <3>2, <3>3 DEF WriterOf, Tracked
  <2>7. ASSUME NEW n \in Ids, NEW i \in Slots, (Writes(n, i) /\ state[n][i] = "error")'
        PROVE  StrayOf(n, i)'
    BY <2>3, <2>5, <2>7 DEF IInv, StrayInv, StrayOf
  <2> QED BY <2>6, <2>7 DEF WriterInv, StrayInv
<1>3. ASSUME NEW m \in Ids, NEW j \in Slots, InnerEnd(m, j) PROVE WriterInv' /\ StrayInv'
  <2>1. UNCHANGED <<state, wpc, idx, active, keyOf, innerThreads>>
    BY <1>3 DEF InnerEnd, dictVars, setVars
  <2>2. \A n \in Ids, i \in Slots : Writes(n, i)' => Writes(n, i)
    BY <1>3 DEF InnerEnd, Writes, IInv, CoreInv, TypeOK, WorkTypes
  <2> QED BY <2>1, <2>2 DEF IInv, WriterInv, StrayInv, Tracked, Stray, WriterOf, StrayOf
<1>4. CASE UNCHANGED <<inner, state, wpc, idx, active, keyOf, innerThreads>>
  BY <1>4 DEF IInv, WriterInv, StrayInv, Tracked, Stray, Writes, WriterOf, StrayOf
<1>5. \/ \E w \in Ids : Worker(w)
      \/ \E c \in Callers : StartCreate(c)
      \/ \E n \in Ids, i \in Slots : InnerEnd(n, i)
      \/ UNCHANGED <<inner, state, wpc, idx, active, keyOf, innerThreads>>
  BY DEF Next, Stream, StartStep, vars, Unsubscribe, callVars, dictVars, setVars, workVars, sseVars,
         RecordConsent, RevokeConsent, StartEnter, CancelSet, StartDecline, StartAccept, CancelEmit,
         StreamOpen, StreamSend, StreamSeesEnd, StreamReturn, StreamDrop
<1> QED BY <1>1, <1>2, <1>3, <1>4, <1>5

-----------------------------------------------------------------------------
(* The invariant holds, and with it the safety properties of the runs. *)

\* IInv holds in every reachable state: the dictionaries, the worker and the inner
\* thread of each DownloadSet agree, whoever calls start or cancel.
THEOREM InvariantHolds == Spec => []IInv
<1>1. Init => IInv BY InitIInv
<1>2. IInv /\ [Next]_vars => IInv'
  BY TypeStep, PartsStep, WriterStep DEF IInv, CoreInv, Parts
<1> QED BY <1>1, <1>2, PTL DEF Spec

\* Types, and the bound on the SSE queues (manager.py:195).
THEOREM TypesHold == Spec => []TypeOK
<1>1. IInv => TypeOK BY DEF IInv, CoreInv
<1> QED BY <1>1, InvariantHolds, PTL

\* Concurrent calls of start_download never leave two unfinished downloads of one
\* key (manager.py:119): both would have to be the one the dictionary knows.
LEMMA OneWorker == CoreInv => OneWorkerPerKey
BY DEF CoreInv, ActiveInv, OneWorkerPerKey

THEOREM OneWorkerHolds == Spec => []OneWorkerPerKey
<1>1. IInv => OneWorkerPerKey BY OneWorker DEF IInv
<1> QED BY <1>1, InvariantHolds, PTL

\* Every worker finds the set and the Event made for it (manager.py:235).
THEOREM OwnSetHolds == Spec => []WorkersOwnTheirSet
<1>1. IInv => WorkersOwnTheirSet BY DEF IInv, CoreInv
<1> QED BY <1>1, InvariantHolds, PTL

\* Two snapshot_download threads that the manager knows of never write for one key,
\* however downloads are cancelled and started again (manager.py:135).
LEMMA OneWriter == IInv => OneTrackedWriter
<1> SUFFICES ASSUME IInv, NEW m \in Ids, NEW n \in Ids, NEW i \in Slots, NEW j \in Slots,
                    Tracked(m, i), Tracked(n, j), keyOf[m] = keyOf[n]
             PROVE  m = n /\ i = j
  BY DEF OneTrackedWriter
<1>1. WriterOf(m, i) /\ WriterOf(n, j) BY DEF IInv, WriterInv
<1>2. m = n BY <1>1 DEF WriterOf
<1>3. CASE wpc[n] \in {"poll", "stop"} BY <1>1, <1>2, <1>3 DEF WriterOf
<1>4. CASE wpc[n] \notin {"poll", "stop"}
  <2>1. [set |-> n, slot |-> i] = [set |-> n, slot |-> j] BY <1>1, <1>2, <1>4 DEF WriterOf
  <2> QED BY <1>2, <2>1
<1> QED BY <1>2, <1>3, <1>4

\* At any time one snapshot_download thread at most writes for a key, whatever was
\* cancelled, restarted or is hung, the threads that a polling error made the
\* manager forget apart (manager.py:135-141, 346).
THEOREM OneWriterHolds == Spec => []OneTrackedWriter
BY OneWriter, InvariantHolds, PTL

-----------------------------------------------------------------------------
(* The steps that matter to a download's outcome, and all the others. *)

Ending(w) == TopCancelled(w) \/ TopEnd(w) \/ CancelMark(w) \/ ErrorCancelled(w)
Marking(w) == ModelDone(w) \/ ModelError(w)

\* A step that is neither of a worker that marks nor of one that finishes leaves finished sets alone.
LEMMA OtherSteps ==
  [Next]_vars =>
    \/ \E c \in Callers : StartCreate(c)
    \/ \E w \in Ids : TopDownload(w) \/ Ending(w) \/ Marking(w)
    \/ \E n \in Ids, i \in Slots : InnerEnd(n, i)
    \/ UNCHANGED <<active, finished, keyOf, inner, state>>
BY DEF Next, Worker, Work, PollRaises, Stream, StartStep, Ending, Marking, vars, Unsubscribe,
       callVars, dictVars, setVars, workVars, sseVars, RecordConsent,
       RevokeConsent, StartEnter, CancelSet, StartDecline, StartAccept,
       CancelEmit, WorkerBegin, PollTick, Poll, CancelRegister, SayCancelled,
       ErrorContinue, SayQuiet, SayEnd, StreamOpen, StreamSend, StreamSeesEnd,
       StreamReturn, StreamDrop

\* A worker marks a model, or finishes, only while its set is unfinished.
LEMMA MarkerUnfinished ==
  ASSUME CoreInv, NEW w \in Ids, TopDownload(w) \/ Ending(w) \/ Marking(w)
  PROVE  /\ w \notin finished /\ Born(w) /\ wset[w] = w /\ Key(w) \in Keys
         /\ active[Key(w)] = w
<1>1. wpc[w] \in Working /\ wpc[w] # "begin" /\ Born(w)
  BY DEF Ending, Marking, TopDownload, TopCancelled, TopEnd, CancelMark, ErrorCancelled,
         ModelDone, ModelError, Working, Born
<1>2. w \notin finished BY <1>1 DEF CoreInv, WorkerInv
<1>3. wset[w] = w /\ Key(w) \in Keys BY <1>1, WorkerKnows DEF Key
<1>4. active[Key(w)] = w BY <1>1, <1>2 DEF CoreInv, ActiveInv, Unfinished, Key
<1> QED BY <1>1, <1>2, <1>3, <1>4

\* No step changes a finished set.
LEMMA FinalStep ==
  CoreInv /\ [Next]_vars =>
    [\A n \in finished : n \in finished' /\ state'[n] = state[n]]_<<finished, state>>
<1> SUFFICES ASSUME CoreInv, [Next]_vars, NEW n \in finished
             PROVE  n \in finished' /\ state'[n] = state[n]
  OBVIOUS
<1>0. n \in Ids /\ state \in [Ids -> [Slots -> ModelStates]]
  BY DEF CoreInv, TypeOK, SetTypes
<1>1. ASSUME NEW c \in Callers, StartCreate(c) PROVE n \in finished' /\ state'[n] = state[n]
  BY <1>1 DEF StartCreate
<1>2. ASSUME NEW w \in Ids, TopDownload(w) \/ Ending(w) \/ Marking(w)
      PROVE  n \in finished' /\ state'[n] = state[n]
  <2>1. n # w /\ wset[w] = w BY <1>2, MarkerUnfinished
  <2>2. (\E s : Mark(w, s)) \/ UNCHANGED state
    BY <1>2 DEF Ending, Marking, TopDownload, TopCancelled, TopEnd, CancelMark,
                ErrorCancelled, ModelDone, ModelError
  <2>3. Finish(w) \/ UNCHANGED finished
    BY <1>2 DEF Ending, Marking, TopDownload, TopCancelled, TopEnd, CancelMark,
                ErrorCancelled, ModelDone, ModelError
  <2> QED BY <1>0, <2>1, <2>2, <2>3 DEF Mark, Finish
<1>3. ASSUME NEW m \in Ids, NEW i \in Slots, InnerEnd(m, i)
      PROVE  n \in finished' /\ state'[n] = state[n]
  BY <1>3 DEF InnerEnd, setVars
<1> QED BY <1>1, <1>2, <1>3, OtherSteps

\* No late step of a worker, of a later worker or of a cancel changes a finished set.
THEOREM FinishedStaysFinal == Spec => FinishedIsFinal
<1>1. IInv /\ [Next]_vars =>
        [\A n \in finished : n \in finished' /\ state'[n] = state[n]]_<<finished, state>>
  BY FinalStep DEF IInv
<1> QED BY <1>1, InvariantHolds, PTL DEF Spec, FinishedIsFinal

-----------------------------------------------------------------------------
(* Refinement: the manager implements DownloadContract. *)

PhaseNow == [k \in Keys |-> Phase(k)]
WritingNow == {k \in Keys : \E n \in Ids, i \in Slots : keyOf[n] = k /\ Tracked(n, i)}
StrayNow == {k \in Keys : \E n \in Ids, i \in Slots : keyOf[n] = k /\ Stray(n, i)}

\* The empty manager is the initial state of the contract.
LEMMA ContractInit == Init => Contract!Init
BY NoneAssumption DEF Init, Contract!Init, Phase, Tracked, Stray, Writes

\* StartCreate is Start: its key is neither running nor written.
LEMMA StartRefines ==
  ASSUME IInv, NEW c \in Callers, StartCreate(c)
  PROVE  Contract!Start(wants[c])
<1> DEFINE k == wants[c]
           n == made + 1
<1>1. k \in Keys /\ n \in Ids /\ ~Busy(k) BY DEF StartCreate, IInv, CoreInv, LockInv
<1>2. n \notin finished /\ ~Born(n) /\ \A i \in Slots : ~Writes(n, i)
  BY <1>1, Sizes DEF IInv, CoreInv, BirthInv, TypeOK, CallTypes, Ids
<1>3. /\ active' = [active EXCEPT ![k] = n] /\ keyOf' = [keyOf EXCEPT ![n] = k]
      /\ wpc' = [wpc EXCEPT ![n] = "begin"]
      /\ UNCHANGED <<finished, inner, state, idx>>
  BY DEF StartCreate
<1>4. active[k] \in Ids \cup {None} BY <1>1 DEF IInv, CoreInv, TypeOK, DictTypes
<1>5. PhaseNow[k] # "running" BY <1>1, <1>4 DEF PhaseNow, Phase, Busy
<1>6. k \notin WritingNow BY <1>1, FreeKey DEF WritingNow
<1>7. PhaseNow' = [PhaseNow EXCEPT ![k] = "running"]
  <2>1. active \in [Keys -> Ids \cup {None}] BY DEF IInv, CoreInv, TypeOK, DictTypes
  <2>2. n # None BY <1>1, NoneAssumption
  <2> QED BY <1>1, <1>2, <1>3, <2>1, <2>2 DEF PhaseNow, Phase
<1>8. UNCHANGED WritingNow /\ UNCHANGED StrayNow
  <2>1. keyOf \in [Ids -> Keys \cup {None}] /\ wpc \in [Ids -> WorkerPoints]
    BY DEF IInv, CoreInv, TypeOK, SetTypes, WorkTypes
  <2>2. \A m \in Ids, i \in Slots : Writes(m, i)' <=> Writes(m, i) BY <1>3 DEF Writes
  <2>3. \A m \in Ids, i \in Slots :
          Writes(m, i) => keyOf'[m] = keyOf[m] /\ wpc'[m] = wpc[m]
    BY <1>2, <1>3, <2>1
  <2>4. \A m \in Ids, i \in Slots : (Tracked(m, i)' <=> Tracked(m, i))
    BY <1>3, <2>2, <2>3 DEF Tracked, Stray
  <2>5. \A m \in Ids, i \in Slots : (Stray(m, i)' <=> Stray(m, i))
    BY <1>3, <2>2, <2>3 DEF Stray
  <2>6. \A m \in Ids, i \in Slots : Tracked(m, i) \/ Stray(m, i) => keyOf'[m] = keyOf[m]
    BY <2>3 DEF Tracked, Stray
  <2>7. \A m \in Ids, i \in Slots, q \in Keys :
          /\ (keyOf'[m] = q /\ Tracked(m, i)') <=> (keyOf[m] = q /\ Tracked(m, i))
          /\ (keyOf'[m] = q /\ Stray(m, i)') <=> (keyOf[m] = q /\ Stray(m, i))
    BY <2>4, <2>5, <2>6
  <2> QED BY <2>7 DEF WritingNow, StrayNow
<1> QED BY <1>5, <1>6, <1>7, <1>8 DEF Contract!Start, PhaseNow, WritingNow, StrayNow

\* Steps that change neither the sets nor the threads are stutters of the contract.
LEMMA StutterRefines ==
  ASSUME UNCHANGED <<active, finished, keyOf>>,
         \A n \in Ids, i \in Slots : (Tracked(n, i)' <=> Tracked(n, i)) /\ (Stray(n, i)' <=> Stray(n, i))
  PROVE  UNCHANGED Contract!contractVars
<1>1. \A n \in Ids, i \in Slots, k \in Keys :
        /\ (keyOf'[n] = k /\ Tracked(n, i)') <=> (keyOf[n] = k /\ Tracked(n, i))
        /\ (keyOf'[n] = k /\ Stray(n, i)') <=> (keyOf[n] = k /\ Stray(n, i))
  <2>1. keyOf' = keyOf OBVIOUS
  <2> QED BY <2>1
<1>2. UNCHANGED WritingNow /\ UNCHANGED StrayNow BY <1>1 DEF WritingNow, StrayNow
<1>3. UNCHANGED PhaseNow BY DEF PhaseNow, Phase
<1> QED BY <1>2, <1>3 DEF Contract!contractVars, PhaseNow, WritingNow, StrayNow

\* TopDownload is Write, as no other thread of the key is known; when the launch
\* fails it changes nothing.
LEMMA WriteRefines ==
  ASSUME IInv, NEW w \in Ids, TopDownload(w)
  PROVE  Contract!Write(Key(w)) \/ UNCHANGED Contract!contractVars
<1>1. /\ w \notin finished /\ Key(w) \in Keys /\ active[Key(w)] = w /\ wset[w] = w
  BY MarkerUnfinished DEF IInv
<1>2. wpc[w] = "top" /\ UNCHANGED <<active, finished, keyOf, idx>>
  BY DEF TopDownload, dictVars
<1>3. PhaseNow[Key(w)] = "running" BY <1>1, NoneAssumption DEF PhaseNow, Phase
<1>4. idx[w] \in Slots
  BY Sizes, <1>1, KeyModels DEF TopDownload, Last, Key, IInv, CoreInv, TypeOK, WorkTypes, Slots
<1>5. ~Writes(w, idx[w]) /\ \A i \in Slots : ~Tracked(w, i) BY <1>2, <1>4, NoneAhead
<1>6. Key(w) \notin WritingNow
  <2> SUFFICES ASSUME NEW m \in Ids, NEW i \in Slots, Tracked(m, i), keyOf[m] = Key(w)
               PROVE  FALSE
    BY DEF WritingNow
  <2>1. m = w BY <1>1 DEF IInv, WriterInv, WriterOf
  <2> QED BY <1>5, <2>1
<1>7. UNCHANGED PhaseNow BY <1>2 DEF PhaseNow, Phase
<1>8. /\ inner \in [Ids -> [Slots -> {"unborn", "running", "ok", "error"}]]
      /\ state \in [Ids -> [Slots -> ModelStates]] /\ wpc \in [Ids -> WorkerPoints]
  BY DEF IInv, CoreInv, TypeOK, WorkTypes, SetTypes
<1>9. ASSUME NEW m \in Ids, NEW i \in Slots, ~(m = w /\ i = idx[w])
      PROVE  (Tracked(m, i)' <=> Tracked(m, i)) /\ (Stray(m, i)' <=> Stray(m, i))
  <2>1. Writes(m, i)' <=> Writes(m, i)
    BY <1>4, <1>8, <1>9 DEF TopDownload, Writes
  <2>2. state'[m][i] = state[m][i] BY <1>1, <1>4, <1>8, <1>9 DEF TopDownload, Mark
  <2>3. wpc'[m] = "lost" /\ idx[m] = i <=> wpc[m] = "lost" /\ idx[m] = i
    BY <1>2, <1>8, <1>9 DEF TopDownload, Goto
  <2> QED BY <1>2, <2>1, <2>2, <2>3 DEF Tracked, Stray
<1>10. ~Stray(w, idx[w]) /\ ~Tracked(w, idx[w]) BY <1>5 DEF Stray, Tracked
<1>11. CASE inner' = [inner EXCEPT ![w][idx[w]] = "running"] /\ Goto(w, "poll")
  <2>1. Writes(w, idx[w])' BY <1>2, <1>4, <1>8, <1>11 DEF Writes
  <2>2. state'[w][idx[w]] = "downloading" BY <1>1, <1>4, <1>8 DEF TopDownload, Mark
  <2>3. wpc'[w] = "poll" BY <1>8, <1>11 DEF Goto
  <2>4. Tracked(w, idx[w])' /\ ~Stray(w, idx[w])' BY <1>2, <2>1, <2>2, <2>3 DEF Tracked, Stray
  <2>5. WritingNow' = WritingNow \cup {Key(w)}
    BY <1>1, <1>2, <1>4, <1>9, <2>4 DEF WritingNow, Key
  <2>6. StrayNow' = StrayNow BY <1>2, <1>4, <1>9, <1>10, <2>4 DEF StrayNow
  <2> QED BY <1>3, <1>6, <1>7, <2>5, <2>6
          DEF Contract!Write, PhaseNow, WritingNow, StrayNow
<1>12. CASE inner' = inner
  <2>1. ~Writes(w, idx[w])' BY <1>2, <1>5, <1>12 DEF Writes
  <2>2. ~Stray(w, idx[w])' /\ ~Tracked(w, idx[w])' BY <1>2, <2>1 DEF Stray, Tracked, Writes
  <2>3. \A m \in Ids, i \in Slots :
          (Tracked(m, i)' <=> Tracked(m, i)) /\ (Stray(m, i)' <=> Stray(m, i))
    BY <1>2, <1>9, <1>10, <2>2 DEF Tracked, Stray, Writes
  <2> QED BY <1>2, <2>3, StutterRefines
<1> QED BY <1>11, <1>12 DEF TopDownload

\* PollRaises is Lose when the thread is alive.
LEMMA LoseRefines ==
  ASSUME IInv, NEW w \in Ids, PollRaises(w)
  PROVE  (Key(w) \in Keys /\ Contract!Lose(Key(w))) \/ UNCHANGED Contract!contractVars
<1>1. /\ wpc[w] = "poll" /\ wpc' = [wpc EXCEPT ![w] = "lost"]
      /\ UNCHANGED <<active, finished, keyOf, inner, state, idx>>
  BY DEF PollRaises, Goto, dictVars, setVars
<1>2. wpc \in [Ids -> WorkerPoints] /\ idx[w] \in Slots /\ Born(w) /\ Key(w) \in Keys
  BY <1>1, WorkerKnows DEF IInv, CoreInv, TypeOK, WorkTypes, OnModel, Born, Key
<1>3. active[Key(w)] = w /\ w \notin finished
  BY <1>1 DEF IInv, CoreInv, WorkerInv, ActiveInv, Unfinished, Born, Working, Key
<1>4. ASSUME NEW m \in Ids, NEW i \in Slots, ~(m = w /\ i = idx[w])
      PROVE  (Tracked(m, i)' <=> Tracked(m, i)) /\ (Stray(m, i)' <=> Stray(m, i))
  <2>1. wpc'[m] = "lost" /\ idx[m] = i <=> wpc[m] = "lost" /\ idx[m] = i
    BY <1>1, <1>2, <1>4
  <2> QED BY <1>1, <2>1 DEF Tracked, Stray, Writes
<1>5. Writes(w, idx[w]) => state[w][idx[w]] # "error"
  BY <1>1, <1>2 DEF IInv, StrayInv, StrayOf
<1>6. CASE Writes(w, idx[w])
  <2>1. Tracked(w, idx[w]) /\ ~Stray(w, idx[w]) BY <1>1, <1>5, <1>6 DEF Tracked, Stray
  <2>2. Stray(w, idx[w])' /\ ~Tracked(w, idx[w])'
    BY <1>1, <1>2, <1>6 DEF Tracked, Stray, Writes
  <2>3. \A m \in Ids, i \in Slots : Tracked(m, i) /\ keyOf[m] = Key(w) => m = w /\ i = idx[w]
    BY <1>2, <2>1, OneWriter DEF OneTrackedWriter, Key
  <2>4. WritingNow' = WritingNow \ {Key(w)}
    BY <1>1, <1>2, <1>4, <2>1, <2>2, <2>3 DEF WritingNow, Key
  <2>5. StrayNow' = StrayNow \cup {Key(w)}
    BY <1>1, <1>2, <1>4, <2>1, <2>2 DEF StrayNow, Key
  <2>6. Key(w) \in WritingNow BY <1>2, <2>1 DEF WritingNow, Key
  <2>7. PhaseNow' = PhaseNow /\ PhaseNow[Key(w)] = "running"
    BY <1>1, <1>2, <1>3, NoneAssumption DEF PhaseNow, Phase
  <2> QED BY <1>2, <2>4, <2>5, <2>6, <2>7
          DEF Contract!Lose, PhaseNow, WritingNow, StrayNow
<1>7. CASE ~Writes(w, idx[w])
  <2>1. \A m \in Ids, i \in Slots :
          (Tracked(m, i)' <=> Tracked(m, i)) /\ (Stray(m, i)' <=> Stray(m, i))
    BY <1>1, <1>4, <1>7 DEF Tracked, Stray, Writes
  <2> QED BY <1>1, <2>1, StutterRefines
<1> QED BY <1>6, <1>7

\* InnerEnd is Rest, as the thread was the only one known of its key, or, for a
\* lost one, StrayRest unless another lost one lives on.
LEMMA RestRefines ==
  ASSUME IInv, NEW n \in Ids, NEW i \in Slots, InnerEnd(n, i)
  PROVE  Contract!Next \/ UNCHANGED Contract!contractVars
<1>1. Writes(n, i) /\ UNCHANGED <<active, finished, keyOf, state, wpc, idx>>
  BY DEF InnerEnd, Writes, dictVars, setVars
<1>2. PICK r \in {"ok", "error"} : inner' = [inner EXCEPT ![n][i] = r] BY DEF InnerEnd
<1>3. keyOf[n] \in Keys BY <1>1 DEF IInv, CoreInv, BirthInv
<1>4. UNCHANGED PhaseNow BY <1>1 DEF PhaseNow, Phase
<1>5. inner \in [Ids -> [Slots -> {"unborn", "running", "ok", "error"}]]
  BY DEF IInv, CoreInv, TypeOK, WorkTypes
<1>6. \A m \in Ids, j \in Slots : Writes(m, j)' <=> Writes(m, j) /\ ~(m = n /\ j = i)
  BY <1>2, <1>5 DEF Writes
<1>7. \A m \in Ids, j \in Slots :
        /\ Tracked(m, j)' <=> Tracked(m, j) /\ ~(m = n /\ j = i)
        /\ Stray(m, j)' <=> Stray(m, j) /\ ~(m = n /\ j = i)
  BY <1>1, <1>6 DEF Tracked, Stray
<1>8. CASE Tracked(n, i)
  <2>1. \A m \in Ids, j \in Slots :
          Tracked(m, j) /\ keyOf[m] = keyOf[n] => m = n /\ j = i
    BY <1>8, OneWriter DEF OneTrackedWriter
  <2>2. ~Stray(n, i) BY <1>8 DEF Tracked
  <2>3. StrayNow' = StrayNow BY <1>1, <1>7, <2>2 DEF StrayNow
  <2>4. WritingNow' = WritingNow \ {keyOf[n]} BY <1>1, <1>7, <2>1 DEF WritingNow
  <2>5. keyOf[n] \in WritingNow BY <1>3, <1>8 DEF WritingNow
  <2>6. Contract!Rest(keyOf[n])
    BY <1>4, <2>3, <2>4, <2>5 DEF Contract!Rest, PhaseNow, WritingNow, StrayNow
  <2> QED BY <1>3, <2>6 DEF Contract!Next
<1>9. CASE ~Tracked(n, i)
  <2>1. Stray(n, i) BY <1>1, <1>9 DEF Tracked
  <2>2. WritingNow' = WritingNow BY <1>1, <1>7, <1>9 DEF WritingNow
  <2>3. keyOf[n] \in StrayNow BY <1>3, <2>1 DEF StrayNow
  <2>4. \A k \in Keys : k # keyOf[n] => (k \in StrayNow' <=> k \in StrayNow)
    BY <1>1, <1>7 DEF StrayNow
  <2>5. StrayNow' \subseteq Keys /\ StrayNow \subseteq Keys BY DEF StrayNow
  <2>6. CASE keyOf[n] \in StrayNow'
    <3>1. StrayNow' = StrayNow BY <2>3, <2>4, <2>5, <2>6
    <3> QED BY <1>4, <2>2, <3>1 DEF Contract!contractVars, PhaseNow, WritingNow, StrayNow
  <2>7. CASE keyOf[n] \notin StrayNow'
    <3>1. StrayNow' = StrayNow \ {keyOf[n]} BY <2>3, <2>4, <2>5, <2>7
    <3>2. Contract!StrayRest(keyOf[n])
      BY <1>4, <2>2, <2>3, <3>1 DEF Contract!StrayRest, PhaseNow, WritingNow, StrayNow
    <3> QED BY <1>3, <3>2 DEF Contract!Next
  <2> QED BY <2>6, <2>7
<1> QED BY <1>8, <1>9

\* The four steps that set `finished` are End.
LEMMA EndRefines ==
  ASSUME IInv, NEW w \in Ids, Ending(w)
  PROVE  Contract!End(Key(w))
<1>1. /\ w \notin finished /\ wset[w] = w /\ Key(w) \in Keys /\ active[Key(w)] = w
  BY MarkerUnfinished DEF IInv
<1>2. Finish(w) /\ UNCHANGED <<active, keyOf, inner>>
  BY DEF Ending, TopCancelled, TopEnd, CancelMark, ErrorCancelled, dictVars
<1>3. finished' = finished \cup {w} BY <1>1, <1>2 DEF Finish
<1>4. PhaseNow[Key(w)] = "running" BY <1>1, NoneAssumption DEF PhaseNow, Phase
<1>5. \A k \in Keys : k # Key(w) => active[k] # w
  BY <1>1 DEF IInv, CoreInv, EntriesInv, Key
<1>6. PhaseNow' = [PhaseNow EXCEPT ![Key(w)] = "ended"]
  BY <1>1, <1>2, <1>3, <1>5, NoneAssumption DEF PhaseNow, Phase
<1>7. UNCHANGED WritingNow /\ UNCHANGED StrayNow
  <2>1. Worker(w) BY DEF Ending, Worker, Work
  <2>2. wpc[w] \in WorkerPoints /\ wpc[w] # "poll"
    BY OwnStep, <2>1 DEF Ending, TopCancelled, TopEnd, CancelMark, ErrorCancelled, IInv
  <2>3. ~TopDownload(w) /\ ~PollRaises(w)
    <3>1. TopDownload(w) => UNCHANGED finished BY DEF TopDownload
    <3>2. finished' # finished BY <1>1, <1>3
    <3> QED BY <2>2, <3>1, <3>2 DEF PollRaises
  <2>4. \A n \in Ids, i \in Slots : (Tracked(n, i)' <=> Tracked(n, i)) /\ (Stray(n, i)' <=> Stray(n, i))
    BY <2>1, <2>3, SameThreads DEF Tracked
  <2>5. \A n \in Ids, i \in Slots, k \in Keys :
          /\ (keyOf'[n] = k /\ Tracked(n, i)') <=> (keyOf[n] = k /\ Tracked(n, i))
          /\ (keyOf'[n] = k /\ Stray(n, i)') <=> (keyOf[n] = k /\ Stray(n, i))
    BY <1>2, <2>4
  <2> QED BY <2>5 DEF WritingNow, StrayNow
<1> QED BY <1>4, <1>6, <1>7 DEF Contract!End, PhaseNow, WritingNow, StrayNow

\* Every step of the manager is a step of the contract or a stutter.
LEMMA ContractStep ==
  IInv /\ [Next]_vars => [Contract!Next]_(Contract!contractVars)
<1> SUFFICES ASSUME IInv, [Next]_vars
             PROVE  Contract!Next \/ UNCHANGED Contract!contractVars
  OBVIOUS
<1>1. ASSUME NEW c \in Callers, StartCreate(c) PROVE Contract!Next
  <2>1. wants[c] \in Keys BY <1>1 DEF StartCreate, IInv, CoreInv, LockInv
  <2> QED BY <1>1, <2>1, StartRefines DEF Contract!Next
<1>2. ASSUME NEW w \in Ids, Worker(w) PROVE Contract!Next \/ UNCHANGED Contract!contractVars
  <2>1. CASE TopDownload(w)
    BY <2>1, WriteRefines, MarkerUnfinished DEF IInv, Contract!Next
  <2>2. CASE PollRaises(w) BY <2>2, LoseRefines DEF Contract!Next
  <2>3. CASE Ending(w) BY <2>3, EndRefines, MarkerUnfinished DEF IInv, Contract!Next
  <2>4. CASE ~TopDownload(w) /\ ~PollRaises(w) /\ ~Ending(w)
    <3>1. UNCHANGED <<active, finished, keyOf>>
      BY <1>2, <2>4 DEF Ending, Worker, Work, WorkerBegin, PollTick, Poll, ModelDone,
         CancelRegister, SayCancelled, ModelError, ErrorContinue, SayQuiet, SayEnd,
         dictVars, setVars
    <3>2. \A n \in Ids, i \in Slots :
            (Tracked(n, i)' <=> Tracked(n, i)) /\ (Stray(n, i)' <=> Stray(n, i))
      BY <1>2, <2>4, SameThreads DEF Tracked
    <3> QED BY <3>1, <3>2, StutterRefines
  <2> QED BY <2>1, <2>2, <2>3, <2>4
<1>3. ASSUME NEW n \in Ids, NEW i \in Slots, InnerEnd(n, i)
      PROVE  Contract!Next \/ UNCHANGED Contract!contractVars
  BY <1>3, RestRefines
<1>4. CASE UNCHANGED <<inner, state, wpc, idx, active, keyOf, finished>>
  <2>1. \A n \in Ids, i \in Slots :
            (Tracked(n, i)' <=> Tracked(n, i)) /\ (Stray(n, i)' <=> Stray(n, i))
    BY <1>4 DEF Tracked, Stray, Writes
  <2> QED BY <1>4, <2>1, StutterRefines
<1>5. \/ \E w \in Ids : Worker(w)
      \/ \E c \in Callers : StartCreate(c)
      \/ \E n \in Ids, i \in Slots : InnerEnd(n, i)
      \/ UNCHANGED <<inner, state, wpc, idx, active, keyOf, finished>>
  BY DEF Next, Stream, StartStep, vars, Unsubscribe, callVars, dictVars, setVars, workVars, sseVars,
         RecordConsent, RevokeConsent, StartEnter, CancelSet, StartDecline, StartAccept, CancelEmit,
         StreamOpen, StreamSend, StreamSeesEnd, StreamReturn, StreamDrop
<1> QED BY <1>1, <1>2, <1>3, <1>4, <1>5

\* Per key: a download runs or not, a new one starts only when the old one has
\* ended and nothing the manager knows of writes for it (manager.py:119-142).
THEOREM Implements == Spec => ContractSpec
<1>1. IInv /\ [Next]_vars => [Contract!Next]_(Contract!contractVars)
  BY ContractStep
<1> QED BY <1>1, ContractInit, InvariantHolds, PTL DEF Spec, ContractSpec, Contract!Spec

-----------------------------------------------------------------------------
(* The outcome of a download.                                                 *)

Fetching == {"poll", "won", "stop", "mark", "lost"}
Told == {"say_cancelled", "say_quiet", "say_end", "exit"}

\* What a finished set tells, and what `completed` means.
Recorded(n) ==
  /\ \A i \in 1..Last(n) : state[n][i] # "downloading"
  /\ \/ \A i \in 1..Last(n) : state[n][i] = "done"
     \/ \E i \in 1..Last(n) : state[n][i] \in {"error", "cancelled"}
AllDone(n) == \A i \in 1..Last(n) : state[n][i] = "done"

\* The models before the current one were handled, and a failure among them is noted.
Handled(w) ==
  /\ \A i \in Slots : i < idx[w] => state[w][i] \in {"done", "error"}
  /\ IF w \in errored THEN \E i \in Slots : i < idx[w] /\ i <= Last(w) /\ state[w][i] = "error"
     ELSE \A i \in Slots : i < idx[w] => state[w][i] = "done"
Untouched(w, m) == \A i \in Slots : i >= m => state[w][i] = "idle"

OutcomeOf(w) ==
  /\ wpc[w] = "unborn" => w \notin errored
  /\ wpc[w] \in {"unborn", "begin", "top"} => Handled(w) /\ Untouched(w, idx[w])
  /\ wpc[w] \in Fetching => Handled(w) /\ Untouched(w, idx[w] + 1)
  /\ wpc[w] = "lost_check" => /\ \A i \in Slots : i < idx[w] => state[w][i] \in {"done", "error"}
                              /\ state[w][idx[w]] = "error" /\ w \in errored
                              /\ Untouched(w, idx[w] + 1)
  /\ wpc[w] \in Told => Recorded(w)
  /\ wpc[w] = "say_end" /\ w \notin errored => AllDone(w)
OutcomeInv == \A w \in Ids : OutcomeOf(w)

\* What a worker's own variables are leaves its outcome as it was.
LEMMA OutcomeFrame ==
  ASSUME NEW w \in Ids, OutcomeOf(w), wpc'[w] = wpc[w], idx'[w] = idx[w], state'[w] = state[w],
         keyOf'[w] = keyOf[w], w \in errored' <=> w \in errored
  PROVE  OutcomeOf(w)'
BY DEF OutcomeOf, Handled, Untouched, Recorded, AllDone, Last, Key

LEMMA WorkerOutcome ==
  ASSUME CoreInv, OutcomeInv, NEW w \in Ids, Worker(w)
  PROVE  OutcomeOf(w)'
PROOF
<1> USE DEF Fetching, Told, Goto
<1>n. \A i \in Slots : i \in Nat BY Sizes DEF Slots
<1>o. OutcomeOf(w) BY DEF OutcomeInv
<1>f. /\ keyOf' = keyOf /\ Last(w) \in Slots /\ (wpc[w] # "begin" => wset[w] = w)
      /\ wpc[w] \in OnModel => idx[w] \in Slots /\ idx[w] <= Last(w)
      /\ idx[w] \in Nat /\ wpc \in [Ids -> WorkerPoints]
      /\ state \in [Ids -> [Slots -> ModelStates]] /\ idx \in [Ids -> 1..(MaxModels + 1)]
  BY OwnStep
<1>l. Last(w)' = Last(w) BY <1>f DEF Last, Key
<1>s. Last(w) \in Nat /\ \A i : i \in 1..Last(w) <=> i \in Slots /\ i <= Last(w)
  BY <1>f, Sizes DEF Slots
<1>i. idx[w] \in 1..(MaxModels + 1) /\ (idx[w] <= Last(w) => idx[w] \in Slots)
  BY <1>f, <1>s
<1>1. CASE WorkerBegin(w)
  <2>1. wpc'[w] = "top" /\ wpc[w] = "begin" /\ idx' = idx /\ state' = state /\ errored' = errored
    BY <1>1, <1>f DEF WorkerBegin, setVars
  <2> QED BY <2>1, <1>o, <1>l DEF OutcomeOf, Handled, Untouched
<1>2. CASE TopCancelled(w)
  <2>1. wpc'[w] = "say_cancelled" /\ wpc[w] = "top" /\ idx[w] <= Last(w) /\ idx[w] \in Slots
    BY <1>2, <1>f, <1>i DEF TopCancelled
  <2>2. \A i \in Slots : state'[w][i] = IF i = idx[w] THEN "cancelled" ELSE state[w][i]
    BY <1>2, <1>f, <2>1 DEF TopCancelled, Mark
  <2>3. \A i \in Slots : state[w][i] # "downloading" BY <1>o, <1>f, <1>n, <2>1 DEF OutcomeOf, Handled, Untouched
  <2>4. Recorded(w)' BY <1>s, <1>l, <2>1, <2>2, <2>3 DEF Recorded
  <2> QED BY <2>1, <2>4 DEF OutcomeOf
<1>3. CASE TopDownload(w)
  <2>1. wpc'[w] \in {"poll", "lost"} /\ wpc[w] = "top" /\ idx' = idx /\ errored' = errored /\ idx[w] \in Slots
    BY <1>3, <1>f, <1>i DEF TopDownload
  <2>2. \A i \in Slots : state'[w][i] = IF i = idx[w] THEN "downloading" ELSE state[w][i]
    BY <1>3, <1>f, <2>1 DEF TopDownload, Mark
  <2>3. Handled(w) /\ Untouched(w, idx[w]) BY <1>o, <2>1 DEF OutcomeOf
  <2>4. Handled(w)' BY <1>f, <1>l, <1>n, <2>1, <2>2, <2>3 DEF Handled
  <2>5. Untouched(w, idx[w] + 1)' BY <1>f, <1>n, <2>1, <2>2, <2>3 DEF Untouched
  <2> QED BY <2>1, <2>4, <2>5 DEF OutcomeOf
<1>4. CASE TopEnd(w)
  <2>1. wpc'[w] = "say_end" /\ wpc[w] = "top" /\ idx[w] > Last(w) /\ state' = state
        /\ errored' = errored
    BY <1>4, <1>f DEF TopEnd
  <2>2. Handled(w) BY <1>o, <2>1 DEF OutcomeOf
  <2>3. Recorded(w) BY <1>f, <1>n, <1>s, <2>1, <2>2 DEF Handled, Recorded
  <2>4. w \notin errored => AllDone(w) BY <1>f, <1>n, <1>s, <2>1, <2>2 DEF Handled, AllDone
  <2> QED BY <1>l, <2>1, <2>3, <2>4 DEF OutcomeOf, Recorded, AllDone
<1>5. CASE PollTick(w)
  BY <1>5, <1>o, <1>l DEF PollTick, setVars, workVars, OutcomeOf, Handled, Untouched
<1>6. CASE Poll(w) \/ PollRaises(w)
  <2>1. wpc'[w] \in {"won", "lost", "stop"} /\ wpc[w] = "poll" /\ idx' = idx /\ state' = state
        /\ errored' = errored
    BY <1>6, <1>f DEF Poll, PollRaises, setVars
  <2> QED BY <2>1, <1>o, <1>l DEF OutcomeOf, Handled, Untouched
<1>7. CASE ModelDone(w)
  <2>1. wpc'[w] = "top" /\ wpc[w] = "won" /\ idx'[w] = idx[w] + 1 /\ errored' = errored
        /\ idx[w] \in Slots
    BY <1>7, <1>f DEF ModelDone, OnModel
  <2>2. \A i \in Slots : state'[w][i] = IF i = idx[w] THEN "done" ELSE state[w][i]
    BY <1>7, <1>f, <2>1 DEF ModelDone, Mark
  <2>3. Handled(w) /\ Untouched(w, idx[w] + 1) BY <1>o, <2>1 DEF OutcomeOf
  <2>4. Handled(w)'
    <3>1. \A i \in Slots : i < idx[w] + 1 <=> i < idx[w] \/ i = idx[w] BY <1>i, <1>n
    <3>2. \A i \in Slots : i < idx'[w] => state'[w][i] \in {"done", "error"}
      BY <2>1, <2>2, <2>3, <3>1 DEF Handled
    <3>3. CASE w \in errored
      <4>1. PICK i \in Slots : i < idx[w] /\ i <= Last(w) /\ state[w][i] = "error"
        BY <2>3, <3>3 DEF Handled
      <4>2. i # idx[w] BY <4>1, <1>i, <1>n
      <4>3. i < idx'[w] /\ i <= Last(w)' /\ state'[w][i] = "error"
        BY <4>1, <4>2, <3>1, <2>1, <2>2, <1>l
      <4> QED BY <4>3, <3>2, <3>3, <2>1 DEF Handled
    <3>4. CASE w \notin errored
      <4>1. \A i \in Slots : i < idx'[w] => state'[w][i] = "done"
        BY <2>1, <2>2, <2>3, <3>1, <3>4 DEF Handled
      <4> QED BY <4>1, <3>2, <3>4, <2>1 DEF Handled
    <3> QED BY <3>3, <3>4
  <2>5. Untouched(w, idx[w])' BY <1>f, <1>n, <2>1, <2>2, <2>3 DEF Untouched
  <2> QED BY <2>1, <2>4, <2>5 DEF OutcomeOf
<1>8. CASE CancelRegister(w)
  <2>1. wpc'[w] = "mark" /\ wpc[w] = "stop" /\ idx' = idx /\ state' = state /\ errored' = errored
    BY <1>8, <1>f DEF CancelRegister, setVars
  <2> QED BY <2>1, <1>o, <1>l DEF OutcomeOf, Handled, Untouched
<1>9. CASE CancelMark(w)
  <2>1. wpc'[w] = "say_cancelled" /\ wpc[w] = "mark" /\ idx[w] <= Last(w) /\ idx[w] \in Slots
    BY <1>9, <1>f DEF CancelMark, OnModel
  <2>2. \A i \in Slots : state'[w][i] = IF i = idx[w] THEN "cancelled" ELSE state[w][i]
    BY <1>9, <1>f, <2>1 DEF CancelMark, Mark
  <2>3. \A i \in Slots : i # idx[w] => state[w][i] # "downloading"
    <3>1. /\ \A i \in Slots : i < idx[w] => state[w][i] \in {"done", "error"}
          /\ \A i \in Slots : i >= idx[w] + 1 => state[w][i] = "idle"
      BY <1>o, <2>1 DEF OutcomeOf, Handled, Untouched
    <3>2. \A i \in Slots : i # idx[w] => i < idx[w] \/ i >= idx[w] + 1 BY <1>i, <1>n
    <3> QED BY <3>1, <3>2
  <2>4. Recorded(w)' BY <1>s, <1>l, <2>1, <2>2, <2>3 DEF Recorded
  <2> QED BY <2>1, <2>4 DEF OutcomeOf
<1>10. CASE SayCancelled(w) \/ SayQuiet(w) \/ SayEnd(w)
  <2>1. wpc'[w] = "exit" /\ wpc[w] \in Told /\ state' = state
    BY <1>10, <1>f DEF SayCancelled, SayQuiet, SayEnd
  <2> QED BY <2>1, <1>o, <1>l DEF OutcomeOf, Recorded
<1>11. CASE ModelError(w)
  <2>1. wpc'[w] = "lost_check" /\ wpc[w] = "lost" /\ idx' = idx /\ w \in errored' /\ idx[w] \in Slots
    BY <1>11, <1>f DEF ModelError, OnModel
  <2>2. \A i \in Slots : state'[w][i] = IF i = idx[w] THEN "error" ELSE state[w][i]
    BY <1>11, <1>f, <2>1 DEF ModelError, Mark
  <2>3. Handled(w) /\ Untouched(w, idx[w] + 1) BY <1>o, <2>1 DEF OutcomeOf
  <2>4. Untouched(w, idx[w] + 1)' BY <1>f, <1>n, <2>1, <2>2, <2>3 DEF Untouched
  <2>5. \A i \in Slots : i < idx'[w] => state'[w][i] \in {"done", "error"}
    BY <2>1, <2>2, <2>3 DEF Handled
  <2>6. state'[w][idx'[w]] = "error" BY <2>1, <2>2
  <2> QED BY <2>1, <2>4, <2>5, <2>6 DEF OutcomeOf
<1>12. CASE ErrorContinue(w)
  <2>1. wpc'[w] = "top" /\ wpc[w] = "lost_check" /\ idx'[w] = idx[w] + 1 /\ state' = state
        /\ errored' = errored /\ idx[w] \in Slots /\ idx[w] <= Last(w)
    BY <1>12, <1>f DEF ErrorContinue, OnModel, setVars
  <2>2. /\ \A i \in Slots : i < idx[w] => state[w][i] \in {"done", "error"}
        /\ state[w][idx[w]] = "error" /\ w \in errored /\ Untouched(w, idx[w] + 1)
    BY <1>o, <2>1 DEF OutcomeOf
  <2>3. Handled(w)'
    <3>1. \A i \in Slots : i < idx[w] + 1 <=> i < idx[w] \/ i = idx[w] BY <1>i, <1>n
    <3>2. \A i \in Slots : i < idx'[w] => state'[w][i] \in {"done", "error"}
      BY <2>1, <2>2, <3>1
    <3>3. idx[w] < idx'[w] /\ idx[w] <= Last(w)' /\ state'[w][idx[w]] = "error" /\ w \in errored'
      BY <2>1, <2>2, <1>i, <1>l
    <3> QED BY <3>2, <3>3, <2>1 DEF Handled
  <2>4. Untouched(w, idx[w])' BY <1>f, <1>n, <2>1, <2>2 DEF Untouched
  <2> QED BY <2>1, <2>3, <2>4 DEF OutcomeOf
<1>13. CASE ErrorCancelled(w)
  <2>1. wpc'[w] = "say_quiet" /\ wpc[w] = "lost_check" /\ state' = state /\ idx[w] \in Slots
        /\ idx[w] <= Last(w)
    BY <1>13, <1>f DEF ErrorCancelled, OnModel
  <2>2. /\ \A i \in Slots : i < idx[w] => state[w][i] \in {"done", "error"}
        /\ state[w][idx[w]] = "error" /\ Untouched(w, idx[w] + 1)
    BY <1>o, <2>1 DEF OutcomeOf
  <2>3. Recorded(w)
    <3>1. \A i \in Slots : i < idx[w] \/ i = idx[w] \/ i >= idx[w] + 1 BY <1>i, <1>n
    <3>2. \A i \in Slots : state[w][i] # "downloading" BY <2>2, <3>1 DEF Untouched
    <3>3. idx[w] \in 1..Last(w) BY <2>1, <1>s
    <3> QED BY <1>s, <2>2, <3>2, <3>3 DEF Recorded
  <2> QED BY <1>l, <2>1, <2>3 DEF OutcomeOf, Recorded
<1> QED BY <1>1, <1>2, <1>3, <1>4, <1>5, <1>6, <1>7, <1>8, <1>9, <1>10, <1>11, <1>12, <1>13
        DEF Worker, Work

LEMMA OutcomeStep == CoreInv /\ OutcomeInv /\ [Next]_vars => OutcomeInv'
PROOF
<1> SUFFICES ASSUME CoreInv, OutcomeInv, [Next]_vars PROVE OutcomeInv'
  OBVIOUS
<1>1. ASSUME NEW w \in Ids, Worker(w) PROVE OutcomeInv'
  <2>1. ASSUME NEW u \in Ids \ {w} PROVE OutcomeOf(u)'
    BY <1>1, OwnStep, OutcomeFrame DEF OutcomeInv
  <2> QED BY <1>1, <2>1, WorkerOutcome DEF OutcomeInv
<1>2. ASSUME NEW c \in Callers, StartCreate(c) PROVE OutcomeInv'
  <2>0. PICK n \in Ids : n = made + 1 BY <1>2 DEF StartCreate
  <2>1. n \in Ids /\ idx' = idx /\ state' = state /\ errored' = errored
        /\ wpc' = [wpc EXCEPT ![n] = "begin"] /\ keyOf' = [keyOf EXCEPT ![n] = wants[c]]
    BY <1>2, <2>0 DEF StartCreate
  <2>2. ~Born(n) BY <2>0, Sizes DEF CoreInv, BirthInv, TypeOK, CallTypes, Ids
  <2>3. /\ wpc \in [Ids -> WorkerPoints] /\ keyOf \in [Ids -> Keys \cup {None}]
        /\ idx \in [Ids -> 1..(MaxModels + 1)]
    BY DEF CoreInv, TypeOK, WorkTypes, SetTypes
  <2>4. ASSUME NEW u \in Ids \ {n} PROVE OutcomeOf(u)'
    <3>1. wpc'[u] = wpc[u] /\ keyOf'[u] = keyOf[u] BY <2>1, <2>3
    <3> QED BY <2>1, <3>1, OutcomeFrame DEF OutcomeInv
  <2>5. OutcomeOf(n)'
    <3>1. wpc'[n] = "begin" BY <2>1, <2>3
    <3>2. OutcomeOf(n) /\ wpc[n] = "unborn" BY <2>1, <2>2 DEF OutcomeInv, Born
    <3>3. n \notin errored BY <3>2 DEF OutcomeOf
    <3> QED BY <2>1, <3>1, <3>2, <3>3 DEF OutcomeOf, Handled, Untouched, Fetching, Told
  <2> QED BY <2>4, <2>5 DEF OutcomeInv
<1>3. CASE UNCHANGED <<wpc, idx, state, keyOf, errored>>
  BY <1>3, OutcomeFrame DEF OutcomeInv
<1>4. \/ \E c \in Callers : StartCreate(c)
      \/ \E w \in Ids : Worker(w)
      \/ UNCHANGED <<wpc, idx, state, keyOf, errored>>
  BY DEF Next, Stream, StartStep, vars, Unsubscribe, callVars, dictVars, setVars, workVars, sseVars,
         RecordConsent, RevokeConsent, StartEnter, CancelSet, StartDecline, StartAccept, CancelEmit,
         InnerEnd, StreamOpen, StreamSend, StreamSeesEnd, StreamReturn, StreamDrop
<1> QED BY <1>1, <1>2, <1>3, <1>4

LEMMA OutcomeInit == Init => OutcomeInv
PROOF
<1> SUFFICES ASSUME Init, NEW w \in Ids PROVE OutcomeOf(w)
  BY DEF OutcomeInv
<1>1. /\ wpc[w] = "unborn" /\ idx[w] = 1 /\ w \notin errored
      /\ \A i \in Slots : state[w][i] = "idle"
  BY DEF Init
<1>2. \A i \in Slots : ~(i < 1) BY Sizes DEF Slots
<1>3. Handled(w) BY <1>1, <1>2 DEF Handled
<1> QED BY <1>1, <1>3 DEF OutcomeOf, Untouched, Fetching, Told

\* The worker of a finished set is past its last mark.
LEMMA ToldOutcome == CoreInv /\ OutcomeInv => OutcomeRecorded
<1> SUFFICES ASSUME CoreInv, OutcomeInv, NEW n \in finished
             PROVE  /\ \A i \in 1..Len(Models[keyOf[n]]) : state[n][i] # "downloading"
                    /\ \/ \A i \in 1..Len(Models[keyOf[n]]) : state[n][i] = "done"
                       \/ \E i \in 1..Len(Models[keyOf[n]]) : state[n][i] \in {"error", "cancelled"}
  BY DEF OutcomeRecorded, Used
<1>1. n \in Ids /\ wpc[n] \in WorkerPoints BY DEF CoreInv, TypeOK, SetTypes, WorkTypes
<1>2. wpc[n] \in Told
  BY <1>1 DEF CoreInv, WorkerInv, BirthInv, Born, Working, Told, WorkerPoints
<1> QED BY <1>1, <1>2 DEF OutcomeInv, OutcomeOf, Recorded, Last, Key

\* A finished download tells its outcome by itself, whatever events the viewers
\* missed (manager.py:71).
THEOREM OutcomeHolds == Spec => []OutcomeRecorded
<1>1. IInv => CoreInv BY DEF IInv
<1> QED BY <1>1, OutcomeInit, OutcomeStep, ToldOutcome, InvariantHolds, PTL DEF Spec

-----------------------------------------------------------------------------
(* What the viewers are told.                                                 *)

\* Events that tell the truth: a `completed` one is about a set that ended with
\* every model done.
TrueEvents == {e \in Events : e.type = "completed" => wpc[e.set] = "exit" /\ AllDone(e.set)}
EventInv == /\ buffer \in [Clients -> Seq(TrueEvents)]
            /\ heard \in [Clients -> SUBSET TrueEvents]

\* An ended download stays ended, with its models as they are, so a true event
\* stays true.
LEMMA TrueEventsStay ==
  ASSUME CoreInv, [Next]_vars
  PROVE  TrueEvents \subseteq TrueEvents'
PROOF
<1> SUFFICES ASSUME NEW n \in Ids, wpc[n] = "exit", AllDone(n) PROVE wpc'[n] = "exit" /\ AllDone(n)'
  BY DEF TrueEvents, Events
<1>0. wpc \in [Ids -> WorkerPoints] /\ keyOf \in [Ids -> Keys \cup {None}]
  BY DEF CoreInv, TypeOK, WorkTypes, SetTypes
<1>1. ASSUME NEW w \in Ids, Worker(w) PROVE wpc'[n] = wpc[n] /\ state'[n] = state[n] /\ keyOf' = keyOf
  <2>1. wpc[w] # "exit"
    BY <1>1 DEF Worker, Work, PollRaises, WorkerBegin, TopCancelled, TopDownload, TopEnd, PollTick, Poll, ModelDone,
           CancelRegister, CancelMark, SayCancelled, ModelError, ErrorContinue, ErrorCancelled,
           SayQuiet, SayEnd
  <2> QED BY <1>1, <2>1, OwnStep
<1>2. ASSUME NEW c \in Callers, StartCreate(c)
      PROVE  wpc'[n] = wpc[n] /\ state'[n] = state[n] /\ keyOf'[n] = keyOf[n]
  <2>0. PICK m \in Ids : m = made + 1 BY <1>2 DEF StartCreate
  <2>1. ~Born(m) BY <2>0, Sizes DEF CoreInv, BirthInv, TypeOK, CallTypes, Ids
  <2>2. n # m BY <2>1 DEF Born
  <2> QED BY <1>0, <1>2, <2>0, <2>2 DEF StartCreate
<1>3. \/ \E c \in Callers : StartCreate(c)
      \/ \E w \in Ids : Worker(w)
      \/ UNCHANGED <<wpc, state, keyOf>>
  BY DEF Next, Stream, StartStep, vars, Unsubscribe, callVars, dictVars, setVars, workVars, sseVars,
         RecordConsent, RevokeConsent, StartEnter, CancelSet, StartDecline, StartAccept, CancelEmit,
         InnerEnd, StreamOpen, StreamSend, StreamSeesEnd, StreamReturn, StreamDrop
<1>4. wpc'[n] = wpc[n] /\ state'[n] = state[n] /\ keyOf'[n] = keyOf[n] BY <1>1, <1>2, <1>3
<1> QED BY <1>4 DEF AllDone, Last, Key

\* Offering an event of a set of events keeps the queues within that set.
LEMMA OfferWithin ==
  ASSUME NEW G, buffer \in [Clients -> Seq(G)], NEW k, NEW type, NEW n, [type |-> type, set |-> n] \in G
  PROVE  Offer(k, type, n) \in [Clients -> Seq(G)]
PROOF
<1>1. \A s \in Clients : Append(buffer[s], [type |-> type, set |-> n]) \in Seq(G)
  BY AppendProperties
<1> QED BY <1>1 DEF Offer

LEMMA EventWorker ==
  ASSUME CoreInv, OutcomeInv, EventInv, NEW w \in Ids, Worker(w), TrueEvents \subseteq TrueEvents'
  PROVE  EventInv'
PROOF
<1> DEFINE G == TrueEvents'
<1>1. buffer \in [Clients -> Seq(G)] /\ heard \in [Clients -> SUBSET G]
  BY DEF EventInv
<1>2. \A type \in EventTypes \ {"completed"} : [type |-> type, set |-> w] \in G
  BY DEF TrueEvents, Events
<1>3. SayEnd(w) /\ ~SomeFailed(w) => [type |-> "completed", set |-> w] \in G
  <2> SUFFICES ASSUME SayEnd(w), ~SomeFailed(w) PROVE [type |-> "completed", set |-> w] \in G
    OBVIOUS
  <2>1. wpc \in [Ids -> WorkerPoints] BY OwnStep
  <2>2. AllDone(w) BY DEF SayEnd, SomeFailed, OutcomeInv, OutcomeOf
  <2>3. wpc'[w] = "exit" /\ AllDone(w)'
    BY <2>1, <2>2 DEF SayEnd, Goto, AllDone, Last, Key
  <2> QED BY <2>3 DEF TrueEvents, Events, EventTypes
<1> HIDE DEF G
<1>4. heard' = heard /\ \/ buffer' = buffer
                        \/ \E type \in EventTypes : /\ [type |-> type, set |-> w] \in G
                                                    /\ buffer' = Offer(Key(w), type, w)
  BY <1>2, <1>3 DEF Worker, Work, PollRaises, WorkerBegin, TopCancelled, TopDownload, TopEnd, PollTick, Poll, ModelDone,
         CancelRegister, CancelMark, SayCancelled, ModelError, ErrorContinue, ErrorCancelled,
         SayQuiet, SayEnd, Emit, sseVars, EventTypes
<1>5. buffer' \in [Clients -> Seq(G)]
  <2>1. ASSUME NEW type \in EventTypes, [type |-> type, set |-> w] \in G,
               buffer' = Offer(Key(w), type, w)
        PROVE  buffer' \in [Clients -> Seq(G)]
    <3>1. Offer(Key(w), type, w) \in [Clients -> Seq(G)] BY <1>1, <2>1, OfferWithin
    <3> QED BY <2>1, <3>1
  <2> QED BY <1>1, <1>4, <2>1
<1> QED BY <1>1, <1>4, <1>5 DEF EventInv, G

LEMMA EventStep == CoreInv /\ OutcomeInv /\ EventInv /\ [Next]_vars => EventInv'
PROOF
<1> SUFFICES ASSUME CoreInv, OutcomeInv, EventInv, [Next]_vars PROVE EventInv'
  OBVIOUS
<1> DEFINE G == TrueEvents'
<1>0. TrueEvents \subseteq TrueEvents' BY TrueEventsStay
<1>1. buffer \in [Clients -> Seq(G)] /\ heard \in [Clients -> SUBSET G]
  BY <1>0 DEF EventInv
<1>2. CASE \E w \in Ids : Worker(w) BY <1>0, <1>2, EventWorker
<1>3. ASSUME NEW c \in Callers, CancelEmit(c) PROVE EventInv'
  <2>1. /\ heard' = heard
        /\ \/ buffer' = buffer
           \/ /\ cancelFlags[wants[c]] \in Ids
              /\ buffer' = Offer(wants[c], "cancelling", cancelFlags[wants[c]])
    BY <1>3 DEF CancelEmit, Emit, sseVars
  <2>2. \A n \in Ids : [type |-> "cancelling", set |-> n] \in G
    BY DEF TrueEvents, Events, EventTypes
  <2> HIDE DEF G
  <2>3. buffer' \in [Clients -> Seq(G)]
    <3>1. cancelFlags[wants[c]] \in Ids =>
            Offer(wants[c], "cancelling", cancelFlags[wants[c]]) \in [Clients -> Seq(G)]
      BY <1>1, <2>2, OfferWithin
    <3> QED BY <1>1, <2>1, <3>1
  <2> QED BY <1>1, <2>1, <2>3 DEF EventInv, G
<1>4. ASSUME NEW s \in Clients, NEW k \in Keys, StreamOpen(s, k) PROVE EventInv'
  <2> HIDE DEF G
  <2>1. buffer' \in [Clients -> Seq(G)] /\ heard' \in [Clients -> SUBSET G]
    BY <1>1, <1>4 DEF StreamOpen
  <2> QED BY <2>1 DEF EventInv, G
<1>5. ASSUME NEW s \in Clients, StreamSend(s) PROVE EventInv'
  <2> HIDE DEF G
  <2>1. Tail(buffer[s]) \in Seq(G) /\ Head(buffer[s]) \in G
    BY <1>1, <1>5, HeadTailProperties DEF StreamSend
  <2>2. buffer' \in [Clients -> Seq(G)] /\ heard' \in [Clients -> SUBSET G]
    BY <1>1, <1>5, <2>1 DEF StreamSend
  <2> QED BY <2>2 DEF EventInv, G
<1>6. CASE UNCHANGED <<buffer, heard>>
  BY <1>1, <1>6 DEF EventInv
<1>7. \/ \E w \in Ids : Worker(w)
      \/ \E c \in Callers : CancelEmit(c)
      \/ \E s \in Clients, k \in Keys : StreamOpen(s, k)
      \/ \E s \in Clients : StreamSend(s)
      \/ UNCHANGED <<buffer, heard>>
  BY DEF Next, Stream, StartStep, vars, Unsubscribe, callVars, dictVars, setVars, workVars, sseVars,
         RecordConsent, RevokeConsent, StartEnter, CancelSet, StartDecline, StartAccept, StartCreate,
         InnerEnd, StreamSeesEnd, StreamReturn, StreamDrop
<1> QED BY <1>2, <1>3, <1>4, <1>5, <1>6, <1>7

\* No event has been sent in the empty manager.
LEMMA EventInit == Init => EventInv
<1>1. Init => buffer = [c \in Clients |-> <<>>] /\ heard = [c \in Clients |-> {}] BY DEF Init
<1>2. <<>> \in Seq(TrueEvents) BY EmptySeq
<1> QED BY <1>1, <1>2 DEF EventInv

\* A viewer that heard a true `completed` sees every model done.
LEMMA HeardIsTrue == EventInv => CompletedIsTrue
BY DEF EventInv, TrueEvents, CompletedIsTrue, AllDone, Last, Key

\* A viewer told `completed` can rely on it (app.js:2352): the event is only sent
\* when every model is done, and an ended download stays as it is.
THEOREM CompletedHolds == Spec => []CompletedIsTrue
<1>1. IInv => CoreInv BY DEF IInv
<1> QED BY <1>1, EventInit, HeardIsTrue, OutcomeStep, EventStep, OutcomeInit, InvariantHolds,
           PTL DEF Spec
=============================================================================
