------------------------- MODULE SegmentEditorProps -------------------------
(* Properties of SegmentEditor: what its runs check. *)
EXTENDS SegmentEditor, SequencesExt

\* Every variable has its type, and every row of the history belongs to a
\* segment that exists.
TypeOK ==
  /\ asr \in Transcripts \cup {HandSeed} /\ born \in 0..MaxBorn /\ edits \in 0..MaxEdits
  /\ DOMAIN segs \subseteq 1..born /\ segs \in [DOMAIN segs -> Segment]
  /\ versions \subseteq [at : 1..edits, segment : DOMAIN segs,
                         before : Seq(Chars), after : Seq(Chars)]

\* The order in which segments are shown and exported: ORDER BY start_time
\* (jobs.py:97), and rows with equal start times by number.
Before(S, r, q) == S[r].start < S[q].start \/ (S[r].start = S[q].start /\ r < q)

\* The segment shown right after s; none after the last one.
ShownAfter(S, s) ==
  {q \in DOMAIN S : /\ Before(S, s, q)
                    /\ \A r \in DOMAIN S : ~(Before(S, s, r) /\ Before(S, r, q))}

\* A place for every segment that may be shown, in the order they are shown: a
\* place is a start time and a number.
PlaceOf(start, number) == start * (MaxBorn + 1) + number
Place(S, r) == PlaceOf(S[r].start, r)
Places == 1..PlaceOf(Duration, MaxBorn)

\* What the transcript says from its first place to its last, white space aside.
Letters(text) == FlattenSeq([i \in DOMAIN text |-> IF text[i] = Blank THEN <<>> ELSE <<text[i]>>])
LettersAt(S, p) ==
  IF \E r \in DOMAIN S : Place(S, r) = p
  THEN Letters(S[CHOOSE r \in DOMAIN S : Place(S, r) = p].text)
  ELSE <<>>
Spoken(S) == FlattenSeq([p \in Places |-> LettersAt(S, p)])

\* If the recognised segments were orderly, splitting and merging never lose, double
\* or reorder what was said: the transcript reads differently only after a correction
\* that the history records (jobs.py:174-183, 259-279, 353-356).
WordsKept ==
  [][Orderly(asr) /\ versions' \subseteq versions => Spoken(segs') = Spoken(segs)]_vars

\* If the recognised segments were orderly, no moment ever belongs to two segments,
\* whatever is split and merged, so that the player highlights one at a time.
Separate ==
  /\ \A s \in DOMAIN segs : segs[s].start < segs[s].end
  /\ \A s, r \in DOMAIN segs :
       s # r => segs[s].end <= segs[r].start \/ segs[r].end <= segs[s].start
NoOverlap == Orderly(asr) => Separate

\* merge joins a segment with the one shown right after it, and refuses only the
\* last one: the editor offers merging for any other (jobs.py:334-351).
MergeFindsNeighbour == \A s \in DOMAIN segs : NextOf(segs, s) = ShownAfter(segs, s)

\* It does so, whatever is split and merged, if the recognised segments were orderly.
MergeTakesNeighbour == Orderly(asr) => MergeFindsNeighbour

\* If the recognised segments were orderly, merging undoes any split: same segments,
\* same times, same words.
MergeUndoesSplit ==
  Orderly(asr) => \A s \in DOMAIN segs : \A pos \in 1..Len(segs[s].text), mid \in Mids(segs, s) :
    Splittable(segs, s, pos) =>
      LET halves == SplitInto(segs, s, pos, mid, born + 1) IN
      \A next \in NextOf(halves, s) :
        LET whole == MergeWith(halves, s, next) IN
        /\ DOMAIN whole = DOMAIN segs
        /\ whole[s].start = segs[s].start /\ whole[s].end = segs[s].end
        /\ Letters(whole[s].text) = Letters(segs[s].text)
=============================================================================
