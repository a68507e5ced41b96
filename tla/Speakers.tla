------------------------------ MODULE Speakers ------------------------------
(***************************************************************************)
(* The names of a job's speakers: rows of speaker_mappings, which a user   *)
(* renames, and which matching renames after the known speaker whose voice *)
(* is closest.  Every database call gives up the event loop.  A session    *)
(* sends the change it holds before its next query and with the commit;    *)
(* SQLite lets one session at a time hold changes that are not committed,  *)
(* and others neither see them nor wait for them when they only read.      *)
(***************************************************************************)
EXTENDS Integers, Sequences, FiniteSets

CONSTANTS Requests,   \* requests in hand at a time
          Labels,     \* the speaker labels of the job
          Heard,      \* those with an embedding, in the order of their rows
          Voices,     \* embeddings
          VoiceMaps,  \* the voices that the heard labels may have
          Likeness, Threshold,  \* how alike two voices are, and must be
          LegacyVoices,         \* embeddings of the pickle format, which cannot be read
          Given,      \* the [label, name] a user may give by hand
          Recorded,   \* the clips a user may upload: [name, voice, path]
          Introduced, \* the [label, name] a user may enroll from the job
          OldKnown,   \* the known speakers of an older version
          MaxKnown    \* bound on the known speakers

ASSUME SpeakersAssumption ==
  /\ Heard \in Seq(Labels) /\ Threshold \in Int /\ MaxKnown \in Nat
  /\ VoiceMaps \subseteq [{Heard[i] : i \in DOMAIN Heard} -> Voices]
  /\ Likeness \in [Voices \X Voices -> Int]
  /\ \A g \in Given : g.label \in Labels /\ g = [label |-> g.label, name |-> g.name]
  /\ \A c \in Recorded : c.voice \in Voices
  /\ \A g \in Introduced : g.label \in {Heard[i] : i \in DOMAIN Heard}
  /\ OldKnown \in Seq([name : {OldKnown[i].name : i \in DOMAIN OldKnown}, voice : LegacyVoices])
  /\ Len(OldKnown) <= MaxKnown

VARIABLES voiceOf,  \* the voice of each label that was heard
          rows,     \* speaker_mappings, as committed
          locker,   \* the request whose session holds changes, a set of at most one
          draft,    \* the rows as that session sees them
          known,    \* known_speakers, in the order of their rows
          clips,    \* the voice on the clip at each path, "torn" if none can be read
          doing,    \* what each request is at
          left,     \* the renames a request has still to do
          held,     \* the change its session holds, a sequence of at most one
          wanted,   \* history: the names the operations so far, one by one, leave
          solo      \* history: nobody overlapped since renaming last rested

tableVars == <<rows, locker, draft>>
knownVars == <<voiceOf, known, clips>>
sessionVars == <<doing, left, held>>
speakerVars == <<tableVars, knownVars, sessionVars, wanted, solo>>

Row(l, n) == [label |-> l, name |-> n]
NamesOf(l, table) == {table[i].name : i \in {j \in DOMAIN table : table[j].label = l}}
RowsOf(l, table) == {i \in DOMAIN table : table[i].label = l}
Speaker(n, v) == [name |-> n, voice |-> v]

At(r, what) == doing[r].what = what
\* The path of a clip is made of its file name and the last component of the name
\* it enrolls: clips of different names may share it.
Clip(n, v, p) == [name |-> n, voice |-> v, path |-> p]
NoClip == Clip("", "none", "none")
Doing(what, clip) == [what |-> what, clip |-> clip]
Idling == Doing("idle", NoClip)
Renaming(r) == doing[r].what \in {"rename", "read", "match"}
OthersIdle(r) == \A s \in Requests \ {r} : ~Renaming(s)

SpeakersInit ==
  /\ rows \in {[i \in DOMAIN Heard |-> Row(Heard[i], Heard[i])], <<>>}
  /\ locker = {} /\ draft = <<>>
  /\ voiceOf \in VoiceMaps
  /\ known \in {<<>>, OldKnown} /\ clips = [p \in {c.path : c \in Recorded} |-> "torn"]
  /\ doing = [r \in Requests |-> Idling]
  /\ left = [r \in Requests |-> <<>>] /\ held = [r \in Requests |-> <<>>]
  /\ wanted = [l \in Labels |-> NamesOf(l, rows)] /\ solo = TRUE

-----------------------------------------------------------------------------
(* Which known speaker a voice is.                                            *)

Score(v, i) == Likeness[<<v, known[i].voice>>]
Readable == {i \in DOMAIN known : known[i].voice \notin LegacyVoices}
Closest(v) ==
  CHOOSE i \in Readable : \A j \in Readable :
    Score(v, i) > Score(v, j) \/ (Score(v, i) = Score(v, j) /\ i <= j)
MatchesAnyone(l) == Readable # {}
Matches(l) == Readable # {} /\ Score(voiceOf[l], Closest(voiceOf[l])) >= Threshold
MatchName(l) == known[Closest(voiceOf[l])].name
MatchList ==
  LET Pick[i \in 0..Len(Heard)] ==
        IF i = 0 THEN <<>>
        ELSE IF Matches(Heard[i]) THEN Append(Pick[i-1], Row(Heard[i], MatchName(Heard[i])))
        ELSE Pick[i-1]
  IN  Pick[Len(Heard)]

-----------------------------------------------------------------------------
(* The session.  An update that does not change the value read is not sent.   *)

View(r) == IF r \in locker THEN draft ELSE rows
Changes(c) == c.row = 0 \/ c.name # c.was
Sent(c, table) ==
  IF c.row = 0 THEN Append(table, Row(c.label, c.name))
  ELSE IF c.name # c.was THEN [table EXCEPT ![c.row] = Row(c.label, c.name)] ELSE table
MustSend(r) == held[r] # <<>> /\ Changes(Head(held[r]))
MaySend(r) == MustSend(r) => locker \subseteq {r}
Flushed(r) == IF MustSend(r) THEN Sent(Head(held[r]), View(r)) ELSE View(r)
Locked(r) == IF MustSend(r) THEN {r} ELSE locker

\* The request ends, with what it committed or without it.
End(r, table, good) ==
  /\ rows' = table
  /\ locker' = locker \ {r} /\ draft' = (IF r \in locker THEN <<>> ELSE draft)
  /\ doing' = [doing EXCEPT ![r] = Idling]
  /\ left' = [left EXCEPT ![r] = <<>>] /\ held' = [held EXCEPT ![r] = <<>>]
  /\ wanted' = IF solo /\ good THEN wanted ELSE [l \in Labels |-> NamesOf(l, rows')]
  /\ solo' = OthersIdle(r)
  /\ UNCHANGED <<knownVars>>

-----------------------------------------------------------------------------
(* rename_speakers and _auto_match_speakers.                                  *)

RenameRequest(r, body) ==
  /\ At(r, "idle")
  /\ doing' = [doing EXCEPT ![r] = Doing("rename", NoClip)]
  /\ left' = [left EXCEPT ![r] = body]
  /\ wanted' = [l \in Labels |-> LET N == NamesOf(l, body) IN IF N = {} THEN wanted[l] ELSE N]
  /\ solo' = (solo /\ OthersIdle(r))
  /\ UNCHANGED <<tableVars, knownVars, held>>
MatchRequest(r) ==
  /\ At(r, "idle")
  /\ doing' = [doing EXCEPT ![r] = Doing("read", NoClip)]
  /\ solo' = (solo /\ OthersIdle(r))
  /\ UNCHANGED <<tableVars, knownVars, left, held, wanted>>
\* One embedding of the job that cannot be read ends the matching.
ReadKnown(r) ==
  /\ At(r, "read")
  /\ \A i \in DOMAIN Heard : voiceOf[Heard[i]] \notin LegacyVoices
  /\ doing' = [doing EXCEPT ![r] = Doing("match", NoClip)]
  /\ left' = [left EXCEPT ![r] = MatchList]
  /\ wanted' = [l \in Labels |->
       LET N == {s \in {known[i] : i \in Readable} :
                   /\ l \in {Heard[i] : i \in DOMAIN Heard} /\ wanted[l] # {}
                   /\ Likeness[<<voiceOf[l], s.voice>>] >= Threshold}
           best == {s \in N : \A o \in N :
                      Likeness[<<voiceOf[l], s.voice>>] >= Likeness[<<voiceOf[l], o.voice>>]}
       IN IF N = {} THEN wanted[l]
          ELSE {known[i].name : i \in {j \in Readable : known[j] \in best /\
                 \A k \in 1..(j-1) : known[k] \notin best}}]
  /\ UNCHANGED <<tableVars, knownVars, held, solo>>
MatchRaises(r) ==
  /\ At(r, "read")
  /\ \E i \in DOMAIN Heard : voiceOf[Heard[i]] \in LegacyVoices
  /\ End(r, rows, FALSE)

\* The next rename: send what is held, look the row up, hold the new name.
Update(i, l, n, table) == [row |-> i, label |-> l, name |-> n, was |-> table[i].name]
Insert(l, n) == [row |-> 0, label |-> l, name |-> n, was |-> n]
FirstRow(l, table) == CHOOSE i \in RowsOf(l, table) : \A j \in RowsOf(l, table) : i <= j
Looked(r, l, n, table) ==
  IF RowsOf(l, table) # {} THEN <<Update(FirstRow(l, table), l, n, table)>>
  ELSE IF At(r, "rename") THEN <<Insert(l, n)>> ELSE <<>>
Ambiguous(r) == At(r, "rename") /\ Cardinality(RowsOf(Head(left[r]).label, Flushed(r))) > 1
Lookup(r) ==
  /\ Renaming(r) /\ left[r] # <<>> /\ MaySend(r) /\ ~Ambiguous(r)
  /\ locker' = Locked(r) /\ draft' = (IF r \in Locked(r) THEN Flushed(r) ELSE draft)
  /\ held' = [held EXCEPT ![r] = Looked(r, Head(left[r]).label, Head(left[r]).name, Flushed(r))]
  /\ left' = [left EXCEPT ![r] = Tail(left[r])]
  /\ UNCHANGED <<rows, knownVars, doing, wanted, solo>>
\* scalar_one_or_none finds two rows and raises.
TwoRows(r) ==
  /\ Renaming(r) /\ left[r] # <<>> /\ MaySend(r) /\ Ambiguous(r)
  /\ End(r, rows, FALSE)
Commit(r) ==
  /\ doing[r].what \in {"rename", "match"} /\ left[r] = <<>> /\ MaySend(r)
  /\ End(r, IF r \in Locked(r) THEN Flushed(r) ELSE rows, TRUE)
\* The other session holds its changes too long: "database is locked".
LockTimeout(r) ==
  /\ Renaming(r) /\ ~MaySend(r)
  /\ End(r, rows, FALSE)

-----------------------------------------------------------------------------
(* The known speakers.                                                        *)

\* enroll_speaker: the clip is stored by a thread, and read back for its embedding.
EnrollRequest(r, c) ==
  /\ At(r, "idle") /\ Len(known) < MaxKnown
  /\ doing' = [doing EXCEPT ![r] = Doing("store", c)]
  /\ clips' = [clips EXCEPT ![c.path] = "torn"]
  /\ UNCHANGED <<tableVars, voiceOf, known, left, held, wanted, solo>>
ClipStored(r) ==
  /\ At(r, "store")
  /\ doing' = [doing EXCEPT ![r] = Doing("extract", doing[r].clip)]
  /\ clips' = [clips EXCEPT ![doing[r].clip.path] = doing[r].clip.voice]
  /\ UNCHANGED <<tableVars, voiceOf, known, left, held, wanted, solo>>
ClipOf(r) == clips[doing[r].clip.path]
\* Reading a clip that is being written raises, and so may the engine and the commit.
Extract(r) ==
  /\ At(r, "extract") /\ Len(known) < MaxKnown
  /\ \/ UNCHANGED known
     \/ ClipOf(r) # "torn" /\ known' = Append(known, Speaker(doing[r].clip.name, ClipOf(r)))
  /\ doing' = [doing EXCEPT ![r] = Idling]
  /\ UNCHANGED <<tableVars, voiceOf, clips, left, held, wanted, solo>>
\* enroll_speaker_from_job copies the embedding of a label, readable or not.
EnrollFromJob(g) ==
  /\ Len(known) < MaxKnown
  /\ known' = Append(known, Speaker(g.name, voiceOf[g.label]))
  /\ UNCHANGED <<tableVars, voiceOf, clips, sessionVars, wanted, solo>>
DeleteKnown(i) ==
  /\ i \in DOMAIN known
  /\ known' = SubSeq(known, 1, i - 1) \o SubSeq(known, i + 1, Len(known))
  /\ UNCHANGED <<tableVars, voiceOf, clips, sessionVars, wanted, solo>>

-----------------------------------------------------------------------------
\* A body names a label once; two renames show how a session holds the first.
Bodies == {<<a>> : a \in Given} \cup {<<p[1], p[2]>> : p \in {q \in Given \X Given : q[1].label # q[2].label}}

Renames(r) ==
  \/ \E body \in Bodies : RenameRequest(r, body)
  \/ MatchRequest(r) \/ ReadKnown(r) \/ MatchRaises(r)
  \/ Lookup(r) \/ TwoRows(r) \/ Commit(r) \/ LockTimeout(r)
Enrols(r) == (\E c \in Recorded : EnrollRequest(r, c)) \/ ClipStored(r) \/ Extract(r)
SpeakersNext ==
  \/ \E r \in Requests : Renames(r) \/ Enrols(r)
  \/ \E g \in Introduced : EnrollFromJob(g)
  \/ \E i \in 1..MaxKnown : DeleteKnown(i)
SpeakersSpec == SpeakersInit /\ [][SpeakersNext]_speakerVars
=============================================================================
