---------------------------- MODULE SegmentEditor ----------------------------
(***************************************************************************)
(* The segments of one finished job and what the editor does to them       *)
(* (api/v1/jobs.py): correct the text, split, merge, and the edit history  *)
(* (SegmentEditVersion).  One window edits at a time, so a handler is one  *)
(* step.                                                                   *)
(*                                                                         *)
(* Segments are numbered in insertion order, which is the order SQLite     *)
(* gives rows with equal start times.  A text is a sequence of characters  *)
(* of which Blank is white space.  Times are ticks; a split puts the       *)
(* boundary at any tick inside the segment, since the ratio pos / len(text)*)
(* says nothing else about it once the text has been edited.               *)
(***************************************************************************)
EXTENDS Integers, Sequences, FiniteSets

CONSTANTS Transcripts, \* what ASR may store: sequences of [start, end, text]
          Duration,    \* of the recording
          Typed,       \* texts the user types
          Chars,       \* characters of texts
          Blank,       \* the white space character
          MaxBorn,     \* bound: segments ever created
          MaxEdits     \* bound: text corrections

Segment == [start : Nat, end : Nat, text : Seq(Chars)]

ASSUME TextAssumption == Blank \in Chars /\ Typed \subseteq Seq(Chars)
ASSUME BoundsAssumption == MaxBorn \in Nat \ {0} /\ MaxEdits \in Nat /\ Duration \in Nat

\* ASR sorts the segments by their starts and promises nothing else of their times:
\* one that is missing is 0.0, so starts may be equal and an end come first.
ASSUME TranscriptAssumption ==
  \A t \in Transcripts :
    /\ t \in Seq(Segment) /\ Len(t) <= MaxBorn
    /\ \A i \in 1..Len(t) : t[i].start <= Duration /\ t[i].end <= Duration
    /\ \A i, k \in 1..Len(t) : i < k => t[i].start <= t[k].start

VARIABLES segs,      \* the segments by number
          born,      \* segments created so far
          versions,  \* rows of SegmentEditVersion; `at` stands for edited_at
          edits,     \* text corrections so far
          asr        \* history: the segments at first

vars == <<segs, born, versions, edits, asr>>

\* A recording that is near-silent, and one that is transcribed by hand.
HandSeed == <<[start |-> 0, end |-> 0, text |-> <<>>]>>

\* The segments of t are in time order and do not overlap.
Orderly(t) ==
  /\ \A i \in 1..Len(t) : t[i].start < t[i].end
  /\ \A i, k \in 1..Len(t) : i < k => t[i].end <= t[k].start

-----------------------------------------------------------------------------
\* text.lstrip, text.rstrip and text.strip.
LStrip(text) ==
  LET margin == {i \in 1..Len(text) : \A k \in 1..i : text[k] = Blank}
  IN SubSeq(text, Cardinality(margin) + 1, Len(text))
RStrip(text) ==
  LET margin == {i \in 1..Len(text) : \A k \in i..Len(text) : text[k] = Blank}
  IN SubSeq(text, 1, Len(text) - Cardinality(margin))
Strip(text) == LStrip(RStrip(text))

\* Segments that start later than s, and the first of them: equal starts are
\* not "later".
Later(S, s) == {r \in DOMAIN S : S[r].start > S[s].start}
LastLater(S, s) == {r \in Later(S, s) : \A q \in Later(S, s) : S[q].start <= S[r].start}
NextOf(S, s) ==
  {r \in Later(S, s) : \A q \in Later(S, s) :
     S[r].start < S[q].start \/ (S[r].start = S[q].start /\ r <= q)}

Splittable(S, s, pos) ==
  LET text == S[s].text IN
  /\ pos > 0 /\ pos < Len(text)
  /\ Strip(SubSeq(text, 1, pos)) # <<>>
  /\ Strip(SubSeq(text, pos + 1, Len(text))) # <<>>

Mids(S, s) ==
  IF S[s].start = S[s].end THEN {S[s].start}
  ELSE ((S[s].start + 1)..(S[s].end - 1)) \cup ((S[s].end + 1)..(S[s].start - 1))

\* Faulty variants of the definitions below; no specification uses them.
CutKeepsEnd(seg, pos, mid) ==
  [start |-> seg.start, end |-> seg.end, text |-> Strip(SubSeq(seg.text, 1, pos))]
RestSkipsOne(seg, pos, mid) ==
  [start |-> mid, end |-> seg.end,
   text |-> Strip(SubSeq(seg.text, pos + 2, Len(seg.text)))]
JoinKeepsEnd(seg, next) ==
  [start |-> seg.start, end |-> seg.end,
   text |-> RStrip(seg.text) \o <<Blank>> \o LStrip(next.text)]
NoCascade(r) == versions

\* The two halves of a split, and two segments made one.
Cut(seg, pos, mid) ==
  [start |-> seg.start, end |-> mid, text |-> Strip(SubSeq(seg.text, 1, pos))]
Rest(seg, pos, mid) ==
  [start |-> mid, end |-> seg.end,
   text |-> Strip(SubSeq(seg.text, pos + 1, Len(seg.text)))]
Join(seg, next) ==
  [start |-> seg.start, end |-> next.end,
   text |-> RStrip(seg.text) \o <<Blank>> \o LStrip(next.text)]

SplitInto(S, s, pos, mid, new) ==
  [r \in DOMAIN S \cup {new} |-> IF r = s THEN Cut(S[s], pos, mid)
                                 ELSE IF r = new THEN Rest(S[s], pos, mid)
                                 ELSE S[r]]

MergeWith(S, s, next) ==
  [r \in DOMAIN S \ {next} |-> IF r = s THEN Join(S[s], S[next]) ELSE S[r]]

\* ON DELETE CASCADE: the history of a segment goes with it.
Cascade(r) == {v \in versions : v.segment # r}

-----------------------------------------------------------------------------
Store(transcript) ==
  /\ segs = transcript /\ born = Len(transcript)
  /\ versions = {} /\ edits = 0 /\ asr = transcript

Init == \E t \in Transcripts \cup {HandSeed} : Store(t)

\* update_segments: one item of the request; an unchanged text is no edit.
Edit(s, text) ==
  /\ edits < MaxEdits
  /\ segs[s].text # text
  /\ edits' = edits + 1
  /\ versions' = versions \cup
       {[at |-> edits', segment |-> s, before |-> segs[s].text, after |-> text]}
  /\ segs' = [segs EXCEPT ![s].text = text]
  /\ UNCHANGED <<born, asr>>

Split(s, pos, mid) ==
  /\ born < MaxBorn
  /\ Splittable(segs, s, pos)
  /\ segs' = SplitInto(segs, s, pos, mid, born + 1)
  /\ born' = born + 1
  /\ UNCHANGED <<versions, edits, asr>>

\* merge_segments answers 400 when NextOf is empty.
Merge(s) ==
  \E next \in NextOf(segs, s) :
    /\ segs' = MergeWith(segs, s, next)
    /\ versions' = Cascade(next)
    /\ UNCHANGED <<born, edits, asr>>

Next ==
  \E s \in DOMAIN segs :
    \/ \E text \in Typed : Edit(s, text)
    \/ \E pos \in 1..Len(segs[s].text), mid \in Mids(segs, s) : Split(s, pos, mid)
    \/ Merge(s)

Spec == Init /\ [][Next]_vars
=============================================================================
