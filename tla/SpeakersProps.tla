---------------------------- MODULE SpeakersProps ----------------------------
(* Properties of Speakers.                                                    *)
EXTENDS Speakers

\* Types; only the request whose session holds changes has a draft.
SpeakersTypeOK ==
  /\ \A i \in DOMAIN rows : rows[i].label \in Labels
  /\ locker \subseteq Requests /\ Cardinality(locker) <= 1 /\ (locker = {} => draft = <<>>)
  /\ Len(known) <= MaxKnown /\ \A r \in Requests : Len(held[r]) <= 1
  /\ \A r \in locker : Renaming(r)

\* A speaker has a name only with a reason: it is the label, or it was given to that
\* label by hand, or a voice enrolled under that name is like the label's
\* (routes.py:403); whatever requests overlap, fail or read before a deletion.  A
\* voice enrolled under a name may be from a clip of another name that shares the
\* path (speakers.py:66).
SamePath == {q \in Recorded \X Recorded : q[1].path = q[2].path}
Enrolled == {[name |-> q[1].name, voice |-> q[2].voice] : q \in SamePath} \cup
            {[name |-> g.name, voice |-> voiceOf[g.label]] : g \in Introduced}
Reason(row) ==
  \/ row.name = row.label \/ row \in Given
  \/ /\ row.label \in DOMAIN voiceOf
     /\ \E s \in Enrolled : /\ s.name = row.name /\ s.voice \notin LegacyVoices
                            /\ Likeness[<<voiceOf[row.label], s.voice>>] >= Threshold

\* And requests that do not overlap do what they say: a rename is kept, a match
\* gives each voice the closest of the known, the first of equals.
NamesAreHonest ==
  /\ \A i \in DOMAIN rows : Reason(rows[i])
  /\ (\A r \in Requests : ~Renaming(r)) =>
       \A l \in Labels : Cardinality(RowsOf(l, rows)) <= 1 => NamesOf(l, rows) = wanted[l]

\* Enrolment is by a clip of the speaker's voice (speakers.py:51): a known speaker has
\* the voice of a clip uploaded under that name, of a label of the job it was enrolled
\* from, or comes from an older version.  False where two names share the path of a
\* clip (README, Findings).
VoicesAreTheirOwn ==
  \A i \in DOMAIN known :
    \/ \E c \in Recorded : known[i] = Speaker(c.name, c.voice)
    \/ \E g \in Introduced : known[i] = Speaker(g.name, voiceOf[g.label])
    \/ known[i].voice \in LegacyVoices
=============================================================================
