---------------------------- MODULE SpeakersProofs ----------------------------
(***************************************************************************)
(* The names of the speakers are honest for any labels, voices, requests   *)
(* and known speakers.  SessionInv says what a session and the tables may  *)
(* hold, KnownInv what a known speaker and a stored clip come from, and    *)
(* RenamesInv what the history of the renames says of the rows, while they *)
(* rest and while one request alone is between them.                       *)
(***************************************************************************)
EXTENDS SpeakersProps, FiniteSetTheorems, SequenceTheorems, WellFoundedInduction,
        NaturalsInduction, TLAPS

-----------------------------------------------------------------------------
(* The names of the speakers.                                                 *)

Elements(s) == {s[i] : i \in DOMAIN s}
HeardSet == {Heard[i] : i \in DOMAIN Heard}

\* The names there may be, the rows that have a reason, the changes to such rows,
\* and the speakers there may be.
SpeakerNames == Labels \cup {g.name : g \in Given} \cup {s.name : s \in Enrolled}
HonestRow == {w \in [label : Labels, name : SpeakerNames] : Reason(w)}
HonestChange ==
  {c \in [row : Nat, label : Labels, name : SpeakerNames, was : SpeakerNames] :
     Reason(Row(c.label, c.name))}
OldSpeaker == [name : {OldKnown[i].name : i \in DOMAIN OldKnown}, voice : LegacyVoices]
Whats == {"idle", "rename", "read", "match", "store", "extract"}
Doings == [what : Whats, clip : {NoClip} \cup Recorded]

\* A request has renames to do, and changes to send, only while it renames.
Quiet(r) == doing[r].what \notin {"rename", "match"}
SessionInv ==
  /\ rows \in Seq(HonestRow) /\ draft \in Seq(HonestRow)
  /\ locker \subseteq Requests /\ \A r, s \in locker : r = s
  /\ locker = {} => draft = <<>>
  /\ doing \in [Requests -> Doings]
  /\ left \in [Requests -> Seq(HonestRow)]
  /\ held \in [Requests -> Seq(HonestChange)] /\ \A r \in Requests : Len(held[r]) <= 1
  /\ \A r \in Requests : Quiet(r) => left[r] = <<>> /\ held[r] = <<>> /\ r \notin locker
  /\ solo \in BOOLEAN

\* A clip is what somebody recorded for its path, or is being written.
VoicesAt(p) == {c.voice : c \in {x \in Recorded : x.path = p}}
KnownInv ==
  /\ voiceOf \in VoiceMaps
  /\ known \in Seq(OldSpeaker \cup Enrolled) /\ Len(known) <= MaxKnown
  /\ DOMAIN clips = {c.path : c \in Recorded}
  /\ \A p \in DOMAIN clips : clips[p] = "torn" \/ clips[p] \in VoicesAt(p)
  /\ \A r \in Requests : doing[r].what \in {"store", "extract"} => doing[r].clip \in Recorded

\* What the history says of the rows, label by label: where there is one row, or
\* none, its name is the wanted one; or the name comes with the change in hand, or
\* with a rename still to do.
AtMostOne(l, table) == \A i, j \in RowsOf(l, table) : i = j
Settled(l, table) == AtMostOne(l, table) => NamesOf(l, table) = wanted[l]
Coming(r, e, table) ==
  IF At(r, "rename") THEN wanted[e.label] = {e.name}
  ELSE AtMostOne(e.label, table) =>
         wanted[e.label] = IF RowsOf(e.label, table) = {} THEN {} ELSE {e.name}
Due(r, l, things, change, table) ==
  IF \E e \in Elements(things) : e.label = l
  THEN \A e \in Elements(things) : e.label = l => Coming(r, e, table)
  ELSE IF \E c \in Elements(change) : c.label = l
  THEN AtMostOne(l, table) => \A c \in Elements(change) : wanted[l] = {c.name}
  ELSE Settled(l, table)

\* The change in hand is one to the row it was made from.
Fits(r, c, table) ==
  IF c.row = 0 THEN At(r, "rename") /\ c.was = c.name /\ RowsOf(c.label, table) = {}
  ELSE c.row \in RowsOf(c.label, table) /\ table[c.row].name = c.was
OnTrack(r) ==
  /\ \A c \in Elements(held[r]) : Fits(r, c, View(r))
  /\ \A l \in Labels : Due(r, l, left[r], held[r], View(r))
RenamesInv ==
  /\ wanted = [l \in Labels |-> wanted[l]]
  /\ (\A r \in Requests : ~Renaming(r)) => solo /\ \A l \in Labels : Settled(l, rows)
  /\ solo => \A r \in Requests : Renaming(r) => OthersIdle(r) /\ OnTrack(r)

\* What a list holds once more is at its end.
LEMMA ElementsAppend ==
  ASSUME NEW S, NEW s \in Seq(S), NEW w \in S
  PROVE  /\ Append(s, w) \in Seq(S) /\ Elements(Append(s, w)) = Elements(s) \cup {w}
         /\ Len(Append(s, w)) = Len(s) + 1 /\ Append(s, w)[Len(s) + 1] = w
         /\ \A i \in 1..Len(s) : Append(s, w)[i] = s[i]
PROOF
<1> DEFINE t == Append(s, w)
<1>1. /\ t \in Seq(S) /\ t # <<>> /\ Len(t) = Len(s) + 1 /\ t[Len(s) + 1] = w
      /\ \A i \in 1..Len(s) : t[i] = s[i]
  BY AppendProperties
<1>2. Len(s) \in Nat /\ DOMAIN s = 1..Len(s) OBVIOUS
<1> HIDE DEF t
<1>3. DOMAIN t = 1..(Len(s) + 1) BY <1>1
<1>4. \A i : i \in DOMAIN t <=> i \in DOMAIN s \/ i = Len(s) + 1 BY <1>2, <1>3
<1>5. Elements(t) = Elements(s) \cup {w} BY <1>1, <1>2, <1>4 DEF Elements
<1> QED BY <1>1, <1>5 DEF t

\* What a list holds is its first element and the rest.
LEMMA ElementsTail ==
  ASSUME NEW S, NEW s \in Seq(S), s # <<>>
  PROVE  /\ Head(s) \in S /\ Tail(s) \in Seq(S)
         /\ Elements(s) = {Head(s)} \cup Elements(Tail(s))
PROOF
<1>1. Len(s) \in Nat /\ Len(s) >= 1 /\ DOMAIN s = 1..Len(s) OBVIOUS
<1>2. Head(s) = s[1] /\ s[1] \in S BY <1>1
<1>3. /\ Tail(s) \in Seq(S) /\ Len(Tail(s)) = Len(s) - 1
      /\ \A i \in 1..(Len(s) - 1) : Tail(s)[i] = s[i + 1]
  BY HeadTailProperties
<1> DEFINE t == Tail(s)
<1> HIDE DEF t
<1>4. DOMAIN t = 1..(Len(s) - 1) BY <1>1, <1>3 DEF t
<1>5. \A i \in DOMAIN s : s[i] = s[1] \/ s[i] \in Elements(t)
  <2> TAKE i \in DOMAIN s
  <2>1. CASE i = 1 BY <2>1
  <2>2. CASE i # 1
    <3>1. i - 1 \in DOMAIN t /\ t[i - 1] = s[i]
      <4>1. i - 1 \in 1..(Len(s) - 1) /\ (i - 1) + 1 = i BY <1>1, <2>2
      <4> QED BY <1>3, <1>4, <4>1 DEF t
    <3> QED BY <3>1 DEF Elements
  <2> QED BY <2>1, <2>2
<1>6. \A i \in DOMAIN t : t[i] \in Elements(s)
  <2> TAKE i \in DOMAIN t
  <2>1. i \in 1..(Len(s) - 1) /\ i + 1 \in DOMAIN s BY <1>1, <1>4
  <2> QED BY <1>3, <2>1 DEF Elements, t
<1>7. s[1] \in Elements(s) BY <1>1 DEF Elements
<1>8. Elements(s) = {s[1]} \cup Elements(t) BY <1>5, <1>6, <1>7 DEF Elements
<1> QED BY <1>2, <1>3, <1>8 DEF t

LEMMA OnlyElement ==
  ASSUME NEW S, NEW s \in Seq(S), s # <<>>, Len(s) <= 1
  PROVE  Head(s) \in S /\ Elements(s) = {Head(s)} /\ Tail(s) = <<>>
PROOF
<1>1. Len(s) = 1
  <2>1. Len(s) \in Nat /\ (Len(s) = 0 => s = <<>>) BY EmptySeq
  <2> QED BY <2>1
<1>2. Head(s) = s[1] /\ s[1] \in S /\ DOMAIN s = {1} BY <1>1
<1>3. Elements(s) = {s[1]} BY <1>2 DEF Elements
<1>4. Tail(s) = <<>>
  <2>1. Tail(s) \in Seq(S) /\ Len(Tail(s)) = 0 BY <1>1, HeadTailProperties
  <2> QED BY <2>1, EmptySeq
<1> QED BY <1>2, <1>3, <1>4

LEMMA ShortLists ==
  ASSUME NEW S
  PROVE  <<>> \in Seq(S) /\ Len(<<>>) = 0 /\ \A x \in S : <<x>> \in Seq(S) /\ Len(<<x>>) = 1
PROOF
OBVIOUS

-----------------------------------------------------------------------------
(* Which known speaker a voice is.                                            *)

\* Induction over the natural numbers, for a set of numbers.
LEMMA CountInduction ==
  ASSUME NEW N \in SUBSET Nat, 0 \in N, \A n \in N : n + 1 \in N
  PROVE  \A n \in Nat : n \in N
PROOF
<1> DEFINE R == {ss \in Nat \X Nat : ss[1] < ss[2]}
<1>1. IsWellFoundedOn(R, Nat) BY NatLessThanWellFounded DEF OpToRel
<1> HIDE DEF R
<1>2. SUFFICES ASSUME Nat \ N # {} PROVE FALSE OBVIOUS
<1>3. PICK x \in Nat \ N : \A y \in Nat \ N : ~(<<y, x>> \in R) BY <1>1, <1>2, WFMin
<1>4. x # 0 /\ x - 1 \in Nat /\ x - 1 < x /\ (x - 1) + 1 = x BY <1>3
<1>5. <<x - 1, x>> \in R BY <1>3, <1>4 DEF R
<1> QED BY <1>3, <1>4, <1>5

LEMMA VoiceFacts ==
  /\ HeardSet \subseteq Labels
  /\ \A f \in VoiceMaps : f \in [HeardSet -> Voices]
  /\ \A v, w \in Voices : Likeness[<<v, w>>] \in Int
  /\ Threshold \in Int
PROOF
<1>1. Heard \in Seq(Labels) /\ Threshold \in Int BY SpeakersAssumption
<1>2. HeardSet \subseteq Labels BY <1>1 DEF HeardSet
<1>3. Likeness \in [Voices \X Voices -> Int] BY SpeakersAssumption
<1>4. ASSUME NEW v \in Voices, NEW w \in Voices PROVE Likeness[<<v, w>>] \in Int
  <2>1. <<v, w>> \in Voices \X Voices OBVIOUS
  <2> QED BY <1>3, <2>1
<1>5. \A f \in VoiceMaps : f \in [HeardSet -> Voices] BY SpeakersAssumption DEF HeardSet
<1> QED BY <1>1, <1>2, <1>4, <1>5

\* A speaker whose embedding can be read was enrolled, with a voice that can be
\* compared.
LEMMA ReadableIsEnrolled ==
  ASSUME KnownInv, NEW i \in Readable
  PROVE  /\ i \in 1..Len(known) /\ known[i] \in Enrolled /\ known[i].voice \in Voices
         /\ known[i].voice \notin LegacyVoices
PROOF
<1>1. /\ i \in DOMAIN known /\ known[i].voice \notin LegacyVoices /\ i \in 1..Len(known)
      /\ known[i] \in OldSpeaker \cup Enrolled
  BY DEF Readable, KnownInv
<1>2. known[i] \in Enrolled BY <1>1 DEF OldSpeaker
<1>3. voiceOf \in [HeardSet -> Voices] BY VoiceFacts DEF KnownInv
<1>4. \A s \in Enrolled : s.voice \in Voices
  <2>1. \A q \in SamePath : q[2].voice \in Voices BY SpeakersAssumption DEF SamePath
  <2>2. \A g \in Introduced : voiceOf[g.label] \in Voices BY <1>3, SpeakersAssumption DEF HeardSet
  <2> QED BY <2>1, <2>2 DEF Enrolled
<1> QED BY <1>1, <1>2, <1>4

\* Of the readable speakers one is the closest, the first of equals.
Best(v, i, S) ==
  /\ i \in S
  /\ \A j \in S : Score(v, i) > Score(v, j) \/ (Score(v, i) = Score(v, j) /\ i <= j)
LEMMA ClosestIsBest ==
  ASSUME KnownInv, NEW v \in Voices, Readable # {}
  PROVE  Best(v, Closest(v), Readable)
PROOF
<1> DEFINE Upto(n) == {i \in Readable : i <= n}
           N == {n \in Nat : Upto(n) = {} \/ \E i : Best(v, i, Upto(n))}
<1>1. \A i \in Readable : i \in Nat /\ i > 0 /\ i <= Len(known) /\ Score(v, i) \in Int
  <2> TAKE i \in Readable
  <2>1. i \in 1..Len(known) /\ known[i].voice \in Voices BY ReadableIsEnrolled
  <2>2. Len(known) \in Nat BY DEF KnownInv
  <2>3. Score(v, i) \in Int BY <2>1, VoiceFacts DEF Score
  <2> QED BY <2>1, <2>2, <2>3
<1>2. 0 \in N
  <2>1. Upto(0) = {} BY <1>1
  <2> QED BY <2>1
<1>3. ASSUME NEW n \in N PROVE n + 1 \in N
  <2>1. n \in Nat /\ n + 1 \in Nat BY <1>3
  <2>2. CASE n + 1 \notin Readable
    <3>1. Upto(n + 1) = Upto(n) BY <1>1, <2>1, <2>2
    <3> QED BY <1>3, <2>1, <3>1
  <2>3. CASE n + 1 \in Readable
    <3>1. Upto(n + 1) = Upto(n) \cup {n + 1} BY <1>1, <2>1, <2>3
    <3>2. \A j \in Upto(n) : j \in Readable /\ j < n + 1 BY <1>1, <2>1
    <3> HIDE DEF Upto
    <3>3. CASE Upto(n) = {}
      <4>1. Best(v, n + 1, Upto(n + 1)) BY <1>1, <2>1, <2>3, <3>1, <3>3 DEF Best
      <4> QED BY <2>1, <4>1
    <3>4. CASE Upto(n) # {}
      <4>1. PICK i : Best(v, i, Upto(n)) BY <1>3, <3>4
      <4>2. i \in Upto(n) /\ i \in Readable /\ i < n + 1 BY <3>2, <4>1 DEF Best
      <4>3. CASE Score(v, n + 1) > Score(v, i)
        <5>1. ASSUME NEW j \in Upto(n + 1)
              PROVE  Score(v, n + 1) > Score(v, j) \/ (Score(v, n + 1) = Score(v, j) /\ n + 1 <= j)
          <6>1. CASE j = n + 1 BY <1>1, <2>1, <2>3, <6>1
          <6>2. CASE j \in Upto(n)
            <7>1. j \in Readable BY <3>2, <6>2
            <7>2. Score(v, i) >= Score(v, j) BY <1>1, <4>1, <4>2, <6>2, <7>1 DEF Best
            <7> QED BY <1>1, <2>3, <4>2, <4>3, <7>1, <7>2
          <6> QED BY <3>1, <6>1, <6>2
        <5>2. Best(v, n + 1, Upto(n + 1)) BY <3>1, <5>1 DEF Best
        <5> QED BY <2>1, <5>2
      <4>4. CASE ~(Score(v, n + 1) > Score(v, i))
        <5>1. ASSUME NEW j \in Upto(n + 1)
              PROVE  Score(v, i) > Score(v, j) \/ (Score(v, i) = Score(v, j) /\ i <= j)
          <6>1. CASE j = n + 1 BY <1>1, <2>1, <2>3, <4>2, <4>4, <6>1
          <6>2. CASE j \in Upto(n) BY <4>1, <6>2 DEF Best
          <6> QED BY <3>1, <6>1, <6>2
        <5>2. Best(v, i, Upto(n + 1)) BY <3>1, <4>2, <5>1 DEF Best
        <5> QED BY <2>1, <5>2
      <4> QED BY <4>3, <4>4
    <3> QED BY <3>3, <3>4
  <2> QED BY <2>2, <2>3
<1>4. Len(known) \in N
  <2> HIDE DEF N
  <2>1. N \in SUBSET Nat BY DEF N
  <2>2. Len(known) \in Nat BY DEF KnownInv
  <2> QED BY <1>2, <1>3, <2>1, <2>2, CountInduction
<1>5. Upto(Len(known)) = Readable BY <1>1
<1>6. \E i : Best(v, i, Readable) BY <1>4, <1>5
<1>7. \E i \in Readable : \A j \in Readable :
        Score(v, i) > Score(v, j) \/ (Score(v, i) = Score(v, j) /\ i <= j)
  BY <1>6 DEF Best
<1> QED BY <1>7 DEF Best, Closest

\* A label that matches takes the name of an enrolled voice like its own.
LEMMA MatchHasReason ==
  ASSUME KnownInv, NEW l \in HeardSet, voiceOf[l] \notin LegacyVoices, Matches(l)
  PROVE  Row(l, MatchName(l)) \in HonestRow
PROOF
<1>1. voiceOf \in [HeardSet -> Voices] /\ HeardSet \subseteq Labels
  BY VoiceFacts DEF KnownInv
<1> DEFINE i == Closest(voiceOf[l])
<1>2. Readable # {} /\ Score(voiceOf[l], i) >= Threshold BY DEF Matches
<1>3. i \in Readable BY <1>1, <1>2, ClosestIsBest DEF Best
<1> HIDE DEF i
<1>4. known[i] \in Enrolled /\ known[i].voice \notin LegacyVoices BY <1>3, ReadableIsEnrolled
<1>5. MatchName(l) = known[i].name BY DEF MatchName, i
<1>6. Row(l, MatchName(l)) = [label |-> l, name |-> known[i].name] BY <1>5 DEF Row
<1>7. known[i].name \in SpeakerNames BY <1>4 DEF SpeakerNames
<1>8. Reason([label |-> l, name |-> known[i].name])
  BY <1>1, <1>2, <1>4 DEF Reason, Score
<1> QED BY <1>1, <1>6, <1>7, <1>8 DEF HonestRow

\* MatchList is a recursive function; that there is one is shown by induction.
More(s, w) == Append(s, w)
IsPick(f, n) ==
  f = [i \in 0..n |-> IF i = 0 THEN <<>>
                      ELSE IF Matches(Heard[i]) THEN More(f[i-1], Row(Heard[i], MatchName(Heard[i])))
                      ELSE f[i-1]]

LEMMA PickExists == \E f : IsPick(f, Len(Heard))
PROOF
<1> DEFINE N == {n \in Nat : \E f : IsPick(f, n)}
           Step(i, s) == IF Matches(Heard[i]) THEN More(s, Row(Heard[i], MatchName(Heard[i]))) ELSE s
<1>s. \A f, n : IsPick(f, n) <=> f = [i \in 0..n |-> IF i = 0 THEN <<>> ELSE Step(i, f[i-1])]
  BY DEF IsPick
<1> HIDE DEF Step
<1>1. 0 \in N
  <2> DEFINE f == [i \in 0..0 |-> <<>>]
  <2>0. \A i \in 0..0 : i = 0 OBVIOUS
  <2>1. f = [i \in 0..0 |-> IF i = 0 THEN <<>> ELSE Step(i, f[i-1])] BY <2>0
  <2>2. IsPick(f, 0) BY <1>s, <2>1
  <2> QED BY <2>2
<1>2. ASSUME NEW n \in N PROVE n + 1 \in N
  <2>1. n \in Nat /\ n + 1 \in Nat BY <1>2
  <2>2. PICK f : IsPick(f, n) BY <1>2
  <2> DEFINE g == [i \in 0..(n + 1) |-> IF i = n + 1 THEN Step(n + 1, f[n]) ELSE f[i]]
  <2>3. \A i \in 0..(n + 1) : g[i] = IF i = 0 THEN <<>> ELSE Step(i, g[i - 1])
    <3> TAKE i \in 0..(n + 1)
    <3>1. CASE i = n + 1
      <4>1. i # 0 /\ i - 1 = n /\ n \in 0..(n + 1) /\ n # n + 1 BY <2>1, <3>1
      <4> QED BY <3>1, <4>1
    <3>2. CASE i # n + 1
      <4>1. i \in 0..n BY <2>1, <3>2
      <4>2. f[i] = IF i = 0 THEN <<>> ELSE Step(i, f[i - 1]) BY <1>s, <2>2, <4>1
      <4>3. i # 0 => i - 1 \in 0..(n + 1) /\ i - 1 # n + 1 BY <2>1, <4>1
      <4>4. i # 0 => g[i - 1] = f[i - 1] BY <4>3
      <4>5. g[i] = f[i] BY <3>2
      <4> QED BY <4>2, <4>4, <4>5
    <3> QED BY <3>1, <3>2
  <2>4. g = [i \in 0..(n + 1) |-> g[i]] OBVIOUS
  <2> HIDE DEF g
  <2>5. IsPick(g, n + 1) BY <1>s, <2>3, <2>4
  <2> QED BY <2>1, <2>5
<1>3. N \in SUBSET Nat /\ Len(Heard) \in Nat BY SpeakersAssumption
<1>4. Len(Heard) \in N
  <2> HIDE DEF N
  <2> QED BY <1>1, <1>2, <1>3, CountInduction
<1> QED BY <1>4

LEMMA MatchListHolds ==
  ASSUME KnownInv, \A l \in HeardSet : voiceOf[l] \notin LegacyVoices
  PROVE  /\ MatchList \in Seq(HonestRow)
         /\ \A e \in Elements(MatchList) : e.label \in HeardSet /\ Matches(e.label)
                                           /\ e.name = MatchName(e.label)
         /\ \A l \in HeardSet : Matches(l) => \E e \in Elements(MatchList) : e.label = l
PROOF
<1> DEFINE L == Len(Heard)
           f == CHOOSE g : IsPick(g, L)
           Entry(i) == Row(Heard[i], MatchName(Heard[i]))
<1>1. L \in Nat /\ DOMAIN Heard = 1..L /\ \A i \in 1..L : Heard[i] \in HeardSet
  BY SpeakersAssumption DEF HeardSet
<1>2. MatchList = f[L] BY DEF MatchList, IsPick, More
<1>3. IsPick(f, L) BY PickExists
<1> HIDE DEF f
<1>4. f[0] = <<>> /\ \A i \in 1..L : f[i] = IF Matches(Heard[i]) THEN More(f[i-1], Entry(i)) ELSE f[i-1]
  <2>1. \A i \in 0..L : f[i] = IF i = 0 THEN <<>>
                               ELSE IF Matches(Heard[i]) THEN More(f[i-1], Entry(i)) ELSE f[i-1]
    BY <1>3 DEF IsPick
  <2>2. 0 \in 0..L /\ \A i \in 1..L : i \in 0..L /\ i # 0 BY <1>1
  <2> QED BY <2>1, <2>2
<1>5. \A i \in 1..L : Matches(Heard[i]) => Entry(i) \in HonestRow
  <2> TAKE i \in 1..L
  <2> HAVE Matches(Heard[i])
  <2>1. Heard[i] \in HeardSet /\ voiceOf[Heard[i]] \notin LegacyVoices BY <1>1
  <2> QED BY <2>1, MatchHasReason
<1>6. \A i \in 1..L : Entry(i).label = Heard[i] /\ Entry(i).name = MatchName(Heard[i])
  BY DEF Row
<1> HIDE DEF Entry
<1> DEFINE Right(n) ==
             /\ f[n] \in Seq(HonestRow)
             /\ \A e \in Elements(f[n]) : e.label \in HeardSet /\ Matches(e.label)
                                          /\ e.name = MatchName(e.label)
             /\ \A i \in 1..n : Matches(Heard[i]) => \E e \in Elements(f[n]) : e.label = Heard[i]
           N == {n \in Nat : n > L \/ Right(n)}
<1>7. 0 \in N
  <2>1. <<>> \in Seq(HonestRow) /\ Elements(<<>>) = {} BY DEF Elements
  <2>2. ~(\E i : i \in 1..0) OBVIOUS
  <2>3. Right(0) BY <1>4, <2>1, <2>2
  <2> QED BY <2>3
<1>8. ASSUME NEW n \in N PROVE n + 1 \in N
  <2>1. n \in Nat /\ n + 1 \in Nat BY <1>8
  <2>2. CASE n + 1 > L BY <2>1, <2>2
  <2>3. CASE ~(n + 1 > L)
    <3>1. n + 1 \in 1..L /\ (n + 1) - 1 = n /\ ~(n > L) BY <1>1, <2>1, <2>3
    <3>2. Right(n) BY <1>8, <3>1
    <3>3. \A i : i \in 1..(n + 1) <=> i \in 1..n \/ i = n + 1 BY <2>1
    <3>4. CASE Matches(Heard[n + 1])
      <4> DEFINE w == Entry(n + 1)
                 t == f[n]
      <4>1. f[n + 1] = Append(t, w) BY <1>4, <3>1, <3>4 DEF More
      <4>2. w \in HonestRow BY <1>5, <3>1, <3>4
      <4>3. t \in Seq(HonestRow) BY <3>2
      <4> HIDE DEF w, t
      <4>4. Append(t, w) \in Seq(HonestRow) /\ Elements(Append(t, w)) = Elements(t) \cup {w}
        BY <4>2, <4>3, ElementsAppend
      <4>5. w.label = Heard[n + 1] /\ w.name = MatchName(Heard[n + 1]) /\ Heard[n + 1] \in HeardSet
        BY <1>1, <1>6, <3>1 DEF w
      <4>6. Elements(f[n + 1]) = Elements(f[n]) \cup {w} BY <4>1, <4>4 DEF t
      <4>7. f[n + 1] \in Seq(HonestRow) BY <4>1, <4>4
      <4>8. \A e \in Elements(f[n + 1]) : e.label \in HeardSet /\ Matches(e.label)
                                          /\ e.name = MatchName(e.label)
        BY <3>2, <3>4, <4>5, <4>6
      <4>9. \A i \in 1..(n + 1) : Matches(Heard[i]) => \E e \in Elements(f[n + 1]) : e.label = Heard[i]
        BY <3>2, <3>3, <4>5, <4>6
      <4>10. Right(n + 1) BY <4>7, <4>8, <4>9
      <4> QED BY <2>1, <4>10
    <3>5. CASE ~Matches(Heard[n + 1])
      <4>1. f[n + 1] = f[n] BY <1>4, <3>1, <3>5
      <4>2. Right(n + 1) BY <3>2, <3>3, <3>5, <4>1
      <4> QED BY <2>1, <4>2
    <3> QED BY <3>4, <3>5
  <2> QED BY <2>2, <2>3
<1>9. L \in N
  <2> HIDE DEF N
  <2>1. N \in SUBSET Nat BY DEF N
  <2> QED BY <1>1, <1>7, <1>8, <2>1, CountInduction
<1>10. Right(L)
  <2>1. ~(L > L) BY <1>1
  <2> HIDE DEF Right
  <2> QED BY <1>9, <2>1
<1>11. \A l \in HeardSet : \E i \in 1..L : Heard[i] = l BY <1>1 DEF HeardSet
<1> HIDE DEF L
<1> QED BY <1>2, <1>10, <1>11

\* What ReadKnown wants of a label is what the matching will do to it.
Alikes(l) == {s \in {known[i] : i \in Readable} :
                /\ l \in {Heard[i] : i \in DOMAIN Heard} /\ wanted[l] # {}
                /\ Likeness[<<voiceOf[l], s.voice>>] >= Threshold}
BestOf(l) == {s \in Alikes(l) : \A o \in Alikes(l) :
                Likeness[<<voiceOf[l], s.voice>>] >= Likeness[<<voiceOf[l], o.voice>>]}
FirstBest(l) == {i \in Readable : known[i] \in BestOf(l) /\ \A k \in 1..(i-1) : known[k] \notin BestOf(l)}
WantedOf(l) == IF Alikes(l) = {} THEN wanted[l] ELSE {known[i].name : i \in FirstBest(l)}

LEMMA WantedIsMatch ==
  ASSUME KnownInv, NEW l \in Labels
  PROVE  WantedOf(l) = IF l \in HeardSet /\ Matches(l) /\ wanted[l] # {} THEN {MatchName(l)}
                       ELSE wanted[l]
PROOF
<1> DEFINE v == voiceOf[l]
           c == Closest(v)
<1>1. l \in HeardSet => v \in Voices BY VoiceFacts DEF KnownInv
<1>2. \A i \in Readable : Likeness[<<v, known[i].voice>>] = Score(v, i) BY DEF Score
<1>3. l \in HeardSet => \A i \in Readable : Score(v, i) \in Int /\ i \in 1..Len(known)
  BY <1>1, ReadableIsEnrolled, VoiceFacts DEF Score
<1>4. l \in HeardSet /\ Readable # {} => Best(v, c, Readable) BY <1>1, ClosestIsBest
<1>5. Threshold \in Int BY VoiceFacts
<1>6. CASE l \in HeardSet /\ Matches(l) /\ wanted[l] # {}
  <2>1. Readable # {} /\ Score(v, c) >= Threshold BY <1>6 DEF Matches
  <2>2. c \in Readable /\ \A j \in Readable : Score(v, c) > Score(v, j) \/ (Score(v, c) = Score(v, j) /\ c <= j)
    BY <1>4, <1>6, <2>1 DEF Best
  <2> HIDE DEF c, v
  <2>3. \A i \in Readable : known[i] \in Alikes(l) <=> Score(v, i) >= Threshold
    BY <1>2, <1>6 DEF Alikes, HeardSet, v
  <2>4. \A s \in Alikes(l) : \E j \in Readable : s = known[j] /\ Score(v, j) = Likeness[<<v, s.voice>>]
    BY <1>2 DEF Alikes
  <2>5. known[c] \in BestOf(l)
    <3>1. known[c] \in Alikes(l) BY <2>1, <2>2, <2>3
    <3>2. ASSUME NEW o \in Alikes(l)
          PROVE  Likeness[<<v, known[c].voice>>] >= Likeness[<<v, o.voice>>]
      <4>1. PICK j \in Readable : o = known[j] /\ Score(v, j) = Likeness[<<v, o.voice>>] BY <2>4
      <4>2. Score(v, c) >= Score(v, j) BY <1>3, <1>6, <2>2
      <4> QED BY <1>2, <2>2, <4>1, <4>2
    <3> QED BY <3>1, <3>2 DEF BestOf, v
  <2>6. \A i \in Readable : known[i] \in BestOf(l) => Score(v, i) = Score(v, c)
    <3> TAKE i \in Readable
    <3> HAVE known[i] \in BestOf(l)
    <3>1. Likeness[<<v, known[i].voice>>] >= Likeness[<<v, known[c].voice>>]
      BY <2>5 DEF BestOf, v
    <3>2. Score(v, i) >= Score(v, c) BY <1>2, <2>2, <3>1
    <3> QED BY <1>3, <1>6, <2>2, <3>2
  <2>7. ASSUME NEW k \in 1..Len(known), known[k] \in BestOf(l) PROVE k \in Readable
    <3>1. PICK j \in Readable : known[k] = known[j] BY <2>4, <2>7 DEF BestOf
    <3>2. known[k].voice \notin LegacyVoices BY <3>1 DEF Readable
    <3>3. DOMAIN known = 1..Len(known) BY DEF KnownInv
    <3> QED BY <2>7, <3>2, <3>3 DEF Readable
  <2>8. Len(known) \in Nat BY DEF KnownInv
  <2>9. c \in FirstBest(l)
    <3>1. ASSUME NEW k \in 1..(c-1), known[k] \in BestOf(l) PROVE FALSE
      <4>1. c \in 1..Len(known) BY <1>3, <1>6, <2>2
      <4>2. k \in 1..Len(known) /\ k < c BY <2>8, <4>1
      <4>3. k \in Readable BY <2>7, <3>1, <4>2
      <4>4. Score(v, k) = Score(v, c) BY <2>6, <3>1, <4>3
      <4> QED BY <1>3, <1>6, <2>2, <4>1, <4>2, <4>3, <4>4
    <3> QED BY <2>2, <2>5, <3>1 DEF FirstBest
  <2>10. ASSUME NEW i \in FirstBest(l) PROVE i = c
    <3>1. i \in Readable /\ known[i] \in BestOf(l) /\ \A k \in 1..(i-1) : known[k] \notin BestOf(l)
      BY DEF FirstBest
    <3>2. i \in 1..Len(known) /\ c \in 1..Len(known) BY <1>3, <1>6, <2>2, <3>1
    <3>3. Score(v, i) = Score(v, c) /\ Score(v, c) \in Int BY <1>3, <1>6, <2>2, <2>6, <3>1
    <3>4. c <= i BY <2>2, <3>1, <3>3
    <3>5. ~(c < i)
      <4> SUFFICES ASSUME c < i PROVE FALSE OBVIOUS
      <4>1. c \in 1..(i-1) BY <2>8, <3>2
      <4> QED BY <2>5, <3>1, <4>1
    <3> QED BY <2>8, <3>2, <3>4, <3>5
  <2>11. {known[i].name : i \in FirstBest(l)} = {known[c].name} BY <2>9, <2>10
  <2>12. Alikes(l) # {} BY <2>5 DEF BestOf
  <2>13. MatchName(l) = known[c].name BY DEF MatchName, c, v
  <2> QED BY <1>6, <2>11, <2>12, <2>13 DEF WantedOf
<1>7. CASE ~(l \in HeardSet /\ Matches(l) /\ wanted[l] # {})
  <2>1. Alikes(l) = {}
    <3> SUFFICES ASSUME NEW s \in Alikes(l) PROVE FALSE OBVIOUS
    <3>1. PICK j \in Readable : s = known[j] /\ Likeness[<<v, s.voice>>] >= Threshold
                               /\ l \in HeardSet /\ wanted[l] # {}
      BY DEF Alikes, HeardSet
    <3>2. Score(v, j) >= Threshold BY <1>2, <3>1
    <3>3. Best(v, c, Readable) BY <1>4, <3>1
    <3>4. c \in Readable /\ Score(v, c) >= Score(v, j) BY <1>3, <3>1, <3>3 DEF Best
    <3>5. Score(v, c) \in Int /\ Score(v, j) \in Int BY <1>3, <3>1, <3>4
    <3> HIDE DEF c
    <3>6. Score(v, c) >= Threshold BY <1>5, <3>2, <3>4, <3>5
    <3>7. Matches(l) BY <3>4, <3>6 DEF Matches, c
    <3> QED BY <1>7, <3>1, <3>7
  <2> QED BY <1>7, <2>1 DEF WantedOf
<1> QED BY <1>6, <1>7

-----------------------------------------------------------------------------
(* A session sends the change it holds.                                       *)

LEMMA TableAppend ==
  ASSUME NEW table \in Seq(HonestRow), NEW w \in HonestRow, NEW l
  PROVE  /\ Append(table, w) \in Seq(HonestRow)
         /\ RowsOf(l, Append(table, w)) =
              RowsOf(l, table) \cup (IF w.label = l THEN {Len(table) + 1} ELSE {})
         /\ NamesOf(l, Append(table, w)) =
              NamesOf(l, table) \cup (IF w.label = l THEN {w.name} ELSE {})
PROOF
<1> DEFINE t == Append(table, w)
           n == Len(table) + 1
<1>1. /\ t \in Seq(HonestRow) /\ Len(t) = n /\ t[n] = w
      /\ \A i \in 1..Len(table) : t[i] = table[i]
  BY ElementsAppend
<1>2. Len(table) \in Nat /\ DOMAIN table = 1..Len(table) /\ DOMAIN t = 1..n BY <1>1
<1> HIDE DEF t
<1>3. \A i : i \in DOMAIN t <=> i \in DOMAIN table \/ i = n BY <1>2
<1>4. \A i \in DOMAIN table : t[i] = table[i] /\ i # n BY <1>1, <1>2
<1> HIDE DEF n
<1>5. RowsOf(l, t) = RowsOf(l, table) \cup (IF w.label = l THEN {n} ELSE {})
  BY <1>1, <1>3, <1>4 DEF RowsOf
<1>6. \A i \in RowsOf(l, table) : t[i] = table[i] BY <1>4 DEF RowsOf
<1>7. NamesOf(l, t) = {t[i].name : i \in RowsOf(l, t)}
      /\ NamesOf(l, table) = {table[i].name : i \in RowsOf(l, table)}
  BY DEF NamesOf, RowsOf
<1>8. NamesOf(l, t) = NamesOf(l, table) \cup (IF w.label = l THEN {w.name} ELSE {})
  BY <1>1, <1>5, <1>6, <1>7
<1> QED BY <1>1, <1>5, <1>8 DEF t, n

LEMMA TableUpdate ==
  ASSUME NEW table \in Seq(HonestRow), NEW w \in HonestRow, NEW i
  PROVE  /\ [table EXCEPT ![i] = w] \in Seq(HonestRow)
         /\ i \in DOMAIN table /\ table[i].label = w.label =>
              /\ \A l : RowsOf(l, [table EXCEPT ![i] = w]) = RowsOf(l, table)
              /\ \A l : l # w.label => NamesOf(l, [table EXCEPT ![i] = w]) = NamesOf(l, table)
              /\ w.name \in NamesOf(w.label, [table EXCEPT ![i] = w])
PROOF
<1> DEFINE t == [table EXCEPT ![i] = w]
<1>1. Len(table) \in Nat /\ table \in [1..Len(table) -> HonestRow] OBVIOUS
<1>2. t \in [1..Len(table) -> HonestRow] BY <1>1
<1>3. \A f : \A n \in Nat : f \in [1..n -> HonestRow] => f \in Seq(HonestRow)
  BY IsASeq
<1>4. t \in Seq(HonestRow) BY <1>1, <1>2, <1>3
<1>5. DOMAIN t = DOMAIN table /\ \A j \in DOMAIN table : t[j] = IF j = i THEN w ELSE table[j]
  OBVIOUS
<1> HIDE DEF t
<1>6. ASSUME i \in DOMAIN table, table[i].label = w.label
      PROVE  /\ \A l : RowsOf(l, t) = RowsOf(l, table)
             /\ \A l : l # w.label => NamesOf(l, t) = NamesOf(l, table)
             /\ w.name \in NamesOf(w.label, t)
  <2>1. \A l : RowsOf(l, t) = RowsOf(l, table) BY <1>5, <1>6 DEF RowsOf
  <2>2. \A l : NamesOf(l, t) = {t[j].name : j \in RowsOf(l, t)}
               /\ NamesOf(l, table) = {table[j].name : j \in RowsOf(l, table)}
    BY DEF NamesOf, RowsOf
  <2>3. \A l : l # w.label => \A j \in RowsOf(l, table) : t[j] = table[j]
    BY <1>5, <1>6 DEF RowsOf
  <2>4. i \in RowsOf(w.label, t) /\ t[i] = w BY <1>5, <1>6 DEF RowsOf
  <2>5. ASSUME NEW l, l # w.label PROVE NamesOf(l, t) = NamesOf(l, table)
    <3>1. RowsOf(l, t) = RowsOf(l, table) /\ \A j \in RowsOf(l, table) : t[j] = table[j]
      BY <2>1, <2>3, <2>5
    <3>2. {t[j].name : j \in RowsOf(l, t)} = {table[j].name : j \in RowsOf(l, table)} BY <3>1
    <3> QED BY <2>2, <3>2
  <2>6. w.name \in NamesOf(w.label, t) BY <2>2, <2>4
  <2> QED BY <2>1, <2>5, <2>6
<1> QED BY <1>4, <1>6 DEF t

\* The same, of a change that fits the table.
LEMMA SentHolds ==
  ASSUME NEW table \in Seq(HonestRow), NEW c \in HonestChange
  PROVE  /\ Sent(c, table) \in Seq(HonestRow)
         /\ \A r : Fits(r, c, table) =>
              /\ \A l : l # c.label => /\ RowsOf(l, Sent(c, table)) = RowsOf(l, table)
                                       /\ NamesOf(l, Sent(c, table)) = NamesOf(l, table)
              /\ AtMostOne(c.label, Sent(c, table)) =>
                   NamesOf(c.label, Sent(c, table)) = {c.name} /\ AtMostOne(c.label, table)
              /\ c.row # 0 => \A l : RowsOf(l, Sent(c, table)) = RowsOf(l, table)
PROOF
<1> DEFINE w == Row(c.label, c.name)
           t == Sent(c, table)
<1>1. w \in HonestRow /\ w.label = c.label /\ w.name = c.name
  BY DEF HonestRow, HonestChange, Row
<1> HIDE DEF w
<1>n. \A l, u : NamesOf(l, u) = {u[j].name : j \in RowsOf(l, u)} BY DEF NamesOf, RowsOf
<1>2. CASE c.row = 0
  <2>1. t = Append(table, w) BY <1>2 DEF Sent, w
  <2>2. t \in Seq(HonestRow)
        /\ \A l : /\ RowsOf(l, t) = RowsOf(l, table) \cup (IF w.label = l THEN {Len(table) + 1} ELSE {})
                  /\ NamesOf(l, t) = NamesOf(l, table) \cup (IF w.label = l THEN {w.name} ELSE {})
    BY <1>1, <2>1, TableAppend
  <2> HIDE DEF t
  <2>3. ASSUME NEW r, Fits(r, c, table)
        PROVE  /\ NamesOf(c.label, t) = {c.name} /\ AtMostOne(c.label, table)
    <3>1. RowsOf(c.label, table) = {} BY <1>2, <2>3 DEF Fits
    <3>2. NamesOf(c.label, table) = {} BY <1>n, <3>1
    <3> QED BY <1>1, <2>2, <3>1, <3>2 DEF AtMostOne
  <2>4. \A l : l # c.label => RowsOf(l, t) = RowsOf(l, table) /\ NamesOf(l, t) = NamesOf(l, table)
    BY <1>1, <2>2
  <2> QED BY <1>2, <2>2, <2>3, <2>4 DEF t
<1>3. CASE c.row # 0 /\ c.name # c.was
  <2>1. t = [table EXCEPT ![c.row] = w] BY <1>3 DEF Sent, w
  <2> DEFINE u == [table EXCEPT ![c.row] = w]
  <2> HIDE DEF t
  <2>u. u \in Seq(HonestRow)
        /\ (c.row \in DOMAIN table /\ table[c.row].label = w.label =>
              /\ \A l : RowsOf(l, u) = RowsOf(l, table)
              /\ \A l : l # w.label => NamesOf(l, u) = NamesOf(l, table)
              /\ w.name \in NamesOf(w.label, u))
    BY <1>1, TableUpdate
  <2> HIDE DEF u
  <2>2. t \in Seq(HonestRow)
        /\ (c.row \in DOMAIN table /\ table[c.row].label = w.label =>
              /\ \A l : RowsOf(l, t) = RowsOf(l, table)
              /\ \A l : l # w.label => NamesOf(l, t) = NamesOf(l, table)
              /\ w.name \in NamesOf(w.label, t))
    BY <2>1, <2>u DEF u
  <2>3. ASSUME NEW r, Fits(r, c, table)
        PROVE  /\ \A l : RowsOf(l, t) = RowsOf(l, table)
               /\ \A l : l # c.label => NamesOf(l, t) = NamesOf(l, table)
               /\ AtMostOne(c.label, t) => NamesOf(c.label, t) = {c.name} /\ AtMostOne(c.label, table)
    <3>1. c.row \in RowsOf(c.label, table) BY <1>3, <2>3 DEF Fits
    <3>2. c.row \in DOMAIN table /\ table[c.row].label = w.label BY <1>1, <3>1 DEF RowsOf
    <3>3. /\ \A l : RowsOf(l, t) = RowsOf(l, table)
          /\ \A l : l # c.label => NamesOf(l, t) = NamesOf(l, table)
          /\ c.name \in NamesOf(c.label, t)
      BY <1>1, <2>2, <3>2
    <3>4. AtMostOne(c.label, t) => NamesOf(c.label, t) = {c.name}
      BY <1>n, <3>3 DEF AtMostOne
    <3>5. AtMostOne(c.label, t) => AtMostOne(c.label, table) BY <3>3 DEF AtMostOne
    <3> QED BY <3>3, <3>4, <3>5
  <2> QED BY <1>3, <2>2, <2>3 DEF t
<1>4. CASE c.row # 0 /\ c.name = c.was
  <2>1. t = table BY <1>4 DEF Sent
  <2> HIDE DEF t
  <2>2. ASSUME NEW r, Fits(r, c, table), AtMostOne(c.label, table)
        PROVE  NamesOf(c.label, table) = {c.name}
    <3>1. c.row \in RowsOf(c.label, table) /\ table[c.row].name = c.name BY <1>4, <2>2 DEF Fits
    <3> QED BY <1>n, <2>2, <3>1 DEF AtMostOne
  <2> QED BY <1>4, <2>1, <2>2 DEF t
<1> QED BY <1>2, <1>3, <1>4

\* What a session would commit.
LEMMA FlushedIs ==
  ASSUME SessionInv, NEW r \in Requests
  PROVE  /\ View(r) \in Seq(HonestRow) /\ Flushed(r) \in Seq(HonestRow)
         /\ held[r] = <<>> => Elements(held[r]) = {} /\ Flushed(r) = View(r)
         /\ held[r] # <<>> => /\ Elements(held[r]) = {Head(held[r])}
                              /\ Head(held[r]) \in HonestChange
                              /\ Flushed(r) = Sent(Head(held[r]), View(r))
PROOF
<1>1. View(r) \in Seq(HonestRow) /\ held[r] \in Seq(HonestChange) /\ Len(held[r]) <= 1
  BY DEF SessionInv, View
<1>2. CASE held[r] = <<>>
  <2>1. Elements(held[r]) = {} BY <1>2 DEF Elements
  <2>2. Flushed(r) = View(r) BY <1>2 DEF Flushed, MustSend
  <2> QED BY <1>1, <1>2, <2>1, <2>2
<1>3. CASE held[r] # <<>>
  <2> DEFINE c == Head(held[r])
  <2>1. c \in HonestChange /\ Elements(held[r]) = {c} BY <1>1, <1>3, OnlyElement
  <2> HIDE DEF c
  <2>4. Sent(c, View(r)) \in Seq(HonestRow) BY <1>1, <2>1, SentHolds
  <2>5. MustSend(r) <=> Changes(c) BY <1>3 DEF MustSend, c
  <2>6. ~Changes(c) => Sent(c, View(r)) = View(r) BY DEF Sent, Changes
  <2>7. Flushed(r) = Sent(c, View(r)) BY <2>5, <2>6 DEF Flushed, c
  <2> QED BY <1>1, <1>3, <2>1, <2>4, <2>7 DEF c
<1> QED BY <1>2, <1>3

\* What is held is sent: every label keeps what is due to it.
LEMMA FlushTrack ==
  ASSUME SessionInv, NEW r \in Requests, OnTrack(r)
  PROVE  \A l \in Labels : Due(r, l, left[r], <<>>, Flushed(r))
PROOF
<1> DEFINE W == View(r)
           F == Flushed(r)
           L == left[r]
<1>1. \A l \in Labels : Due(r, l, L, held[r], W) BY DEF OnTrack
<1>e. Elements(<<>>) = {} BY DEF Elements
<1>2. CASE held[r] = <<>>
  <2>1. Flushed(r) = View(r) BY <1>2, FlushedIs
  <2> QED BY <1>1, <1>2, <2>1
<1>3. CASE held[r] # <<>>
  <2> DEFINE c == Head(held[r])
  <2>1. Elements(held[r]) = {c} /\ c \in HonestChange /\ F = Sent(c, W) /\ W \in Seq(HonestRow)
    BY <1>3, FlushedIs
  <2>2. Fits(r, c, W) BY <2>1 DEF OnTrack
  <2> HIDE DEF c, F, W
  <2>3. /\ \A l : l # c.label => RowsOf(l, F) = RowsOf(l, W) /\ NamesOf(l, F) = NamesOf(l, W)
        /\ AtMostOne(c.label, F) => NamesOf(c.label, F) = {c.name} /\ AtMostOne(c.label, W)
        /\ c.row # 0 => \A l : RowsOf(l, F) = RowsOf(l, W)
    BY <2>1, <2>2, SentHolds
  <2> HIDE DEF L
  <2>4. ASSUME NEW l \in Labels PROVE Due(r, l, L, <<>>, F)
    <3>1. CASE \E e \in Elements(L) : e.label = l
      <4>1. \A e \in Elements(L) : e.label = l => Coming(r, e, W) BY <1>1, <3>1 DEF Due
      <4>2. ~At(r, "rename") => c.row # 0 BY <2>2 DEF Fits
      <4>3. ~At(r, "rename") => RowsOf(l, F) = RowsOf(l, W) BY <2>3, <4>2
      <4>4. ASSUME NEW e \in Elements(L), e.label = l PROVE Coming(r, e, F)
        <5>1. Coming(r, e, W) BY <4>1, <4>4
        <5>2. CASE At(r, "rename") BY <5>1, <5>2 DEF Coming
        <5>3. CASE ~At(r, "rename")
          <6>1. AtMostOne(l, F) => AtMostOne(l, W) BY <4>3, <5>3 DEF AtMostOne
          <6> QED BY <4>3, <4>4, <5>1, <5>3, <6>1 DEF Coming
        <5> QED BY <5>2, <5>3
      <4> QED BY <3>1, <4>4 DEF Due
    <3>2. CASE ~(\E e \in Elements(L) : e.label = l) /\ l = c.label
      <4>1. AtMostOne(l, W) => wanted[l] = {c.name} BY <1>1, <2>1, <3>2 DEF Due
      <4>2. Settled(l, F) BY <2>3, <3>2, <4>1 DEF Settled
      <4> QED BY <1>e, <3>2, <4>2 DEF Due
    <3>3. CASE ~(\E e \in Elements(L) : e.label = l) /\ l # c.label
      <4>1. Settled(l, W) BY <1>1, <2>1, <3>3 DEF Due
      <4>2. RowsOf(l, F) = RowsOf(l, W) /\ NamesOf(l, F) = NamesOf(l, W) BY <2>3, <3>3
      <4>3. Settled(l, F) BY <4>1, <4>2 DEF Settled, AtMostOne
      <4> QED BY <1>e, <3>3, <4>3 DEF Due
    <3> QED BY <3>1, <3>2, <3>3
  <2> QED BY <2>4 DEF L, F
<1> QED BY <1>2, <1>3

LEMMA FirstRowIs ==
  ASSUME NEW l, NEW table \in Seq(HonestRow), RowsOf(l, table) # {}
  PROVE  FirstRow(l, table) \in RowsOf(l, table)
PROOF
<1> DEFINE R == {ss \in Nat \X Nat : ss[1] < ss[2]}
<1>1. IsWellFoundedOn(R, Nat) BY NatLessThanWellFounded DEF OpToRel
<1>2. RowsOf(l, table) \subseteq Nat
  <2>1. DOMAIN table = 1..Len(table) OBVIOUS
  <2> QED BY <2>1 DEF RowsOf
<1> HIDE DEF R
<1>3. PICK i \in RowsOf(l, table) : \A j \in RowsOf(l, table) : ~(<<j, i>> \in R)
  BY <1>1, <1>2, WFMin
<1>4. \A j \in RowsOf(l, table) : i <= j
  <2> TAKE j \in RowsOf(l, table)
  <2>1. i \in Nat /\ j \in Nat /\ ~(j < i) BY <1>2, <1>3 DEF R
  <2> QED BY <2>1
<1> QED BY <1>3, <1>4 DEF FirstRow

\* The next rename is looked up: what was due with it is now due with the change.
LEMMA LookupTrack ==
  ASSUME SessionInv, NEW r \in Requests, left[r] # <<>>, NEW F \in Seq(HonestRow),
         doing[r].what \in {"rename", "match"},
         NEW H, H = Looked(r, Head(left[r]).label, Head(left[r]).name, F)
  PROVE  /\ H \in Seq(HonestChange) /\ Len(H) \in {0, 1} /\ Tail(left[r]) \in Seq(HonestRow)
         /\ \A c \in Elements(H) : Fits(r, c, F)
         /\ (\A l \in Labels : Due(r, l, left[r], <<>>, F)) =>
              \A l \in Labels : Due(r, l, Tail(left[r]), H, F)
PROOF
<1> DEFINE L == left[r]
           e0 == Head(L)
           T == Tail(L)
<1>1. L \in Seq(HonestRow) BY DEF SessionInv
<1>2. e0 \in HonestRow /\ T \in Seq(HonestRow) /\ Elements(L) = {e0} \cup Elements(T)
  BY <1>1, ElementsTail
<1> HIDE DEF L, T, e0
<1> DEFINE l0 == e0.label
           n0 == e0.name
<1>3. l0 \in Labels /\ n0 \in SpeakerNames /\ e0 = [label |-> l0, name |-> n0] /\ Reason(e0)
  BY <1>2 DEF HonestRow
<1>4. Row(l0, n0) = e0 BY <1>3 DEF Row
<1>5. At(r, "match") <=> ~At(r, "rename") BY DEF At
<1>h. H = Looked(r, l0, n0, F) BY DEF L, e0
<1>e. Elements(<<>>) = {} BY DEF Elements
<1>o. \A x : Elements(<<x>>) = {x} BY DEF Elements
<1>n. \A l : NamesOf(l, F) = {F[j].name : j \in RowsOf(l, F)} BY DEF NamesOf, RowsOf
<1> HIDE DEF l0, n0
\* Whatever the lookup finds, what is due to the other labels is as before.
<1>d. ASSUME \A l \in Labels : Due(r, l, L, <<>>, F),
             \A c \in Elements(H) : c.label = l0,
             ~(\E e \in Elements(T) : e.label = l0) => Due(r, l0, T, H, F)
      PROVE  \A l \in Labels : Due(r, l, T, H, F)
  <2> TAKE l \in Labels
  <2>1. Due(r, l, L, <<>>, F) BY <1>d
  <2>2. CASE \E e \in Elements(T) : e.label = l
    <3>1. \A e \in Elements(T) : e.label = l => Coming(r, e, F) BY <1>2, <2>1, <2>2 DEF Due
    <3> QED BY <2>2, <3>1 DEF Due
  <2>3. CASE ~(\E e \in Elements(T) : e.label = l) /\ l = l0 BY <1>d, <2>3
  <2>4. CASE ~(\E e \in Elements(T) : e.label = l) /\ l # l0
    <3>1. ~(\E e \in Elements(L) : e.label = l) BY <1>2, <2>4 DEF l0
    <3>2. Settled(l, F) BY <1>e, <2>1, <3>1 DEF Due
    <3>3. ~(\E c \in Elements(H) : c.label = l) BY <1>d, <2>4
    <3> QED BY <2>4, <3>2, <3>3 DEF Due
  <2> QED BY <2>2, <2>3, <2>4
<1>c. ASSUME \A l \in Labels : Due(r, l, L, <<>>, F) PROVE Coming(r, e0, F)
  <2>1. e0 \in Elements(L) /\ e0.label = l0 BY <1>2 DEF l0
  <2>2. Due(r, l0, L, <<>>, F) BY <1>3, <1>c
  <2> QED BY <2>1, <2>2 DEF Due
<1>6. CASE RowsOf(l0, F) # {}
  <2> DEFINE i == FirstRow(l0, F)
             c == Update(i, l0, n0, F)
  <2>1. i \in RowsOf(l0, F) BY <1>6, FirstRowIs
  <2>2. i \in Nat /\ i \in DOMAIN F /\ F[i] \in HonestRow
    <3>1. DOMAIN F = 1..Len(F) /\ \A j \in DOMAIN F : F[j] \in HonestRow OBVIOUS
    <3> QED BY <2>1, <3>1 DEF RowsOf
  <2>3. H = <<c>> BY <1>6, <1>h DEF Looked
  <2> HIDE DEF i
  <2>4. /\ c.row = i /\ c.label = l0 /\ c.name = n0 /\ c.was = F[i].name
        /\ c = [row |-> i, label |-> l0, name |-> n0, was |-> F[i].name]
    BY DEF Update
  <2> HIDE DEF c
  <2>5. F[i].name \in SpeakerNames BY <2>2 DEF HonestRow
  <2>6. c \in HonestChange BY <1>3, <1>4, <2>2, <2>4, <2>5 DEF HonestChange
  <2>7. i # 0
    <3>1. DOMAIN F = 1..Len(F) OBVIOUS
    <3> QED BY <2>2, <3>1
  <2>8. Fits(r, c, F) BY <2>1, <2>4, <2>7 DEF Fits
  <2>9. ASSUME \A l \in Labels : Due(r, l, L, <<>>, F) PROVE \A l \in Labels : Due(r, l, T, H, F)
    <3>1. Coming(r, e0, F) BY <1>c, <2>9
    <3>2. AtMostOne(l0, F) => wanted[l0] = {n0} BY <1>6, <3>1 DEF Coming, l0, n0
    <3>3. ~(\E e \in Elements(T) : e.label = l0) => Due(r, l0, T, H, F)
      BY <1>o, <2>3, <2>4, <3>2 DEF Due
    <3> QED BY <1>d, <1>o, <2>3, <2>4, <2>9, <3>3
  <2>10. H \in Seq(HonestChange) /\ Len(H) \in {0, 1} BY <2>3, <2>6, ShortLists
  <2> QED BY <1>2, <1>o, <2>3, <2>8, <2>9, <2>10 DEF L, T
<1>7. CASE RowsOf(l0, F) = {} /\ At(r, "rename")
  <2> DEFINE c == Insert(l0, n0)
  <2>1. H = <<c>> BY <1>7, <1>h DEF Looked
  <2>2. /\ c.row = 0 /\ c.label = l0 /\ c.name = n0 /\ c.was = n0
        /\ c = [row |-> 0, label |-> l0, name |-> n0, was |-> n0]
    BY DEF Insert
  <2> HIDE DEF c
  <2>3. c \in HonestChange BY <1>3, <1>4, <2>2 DEF HonestChange
  <2>4. Fits(r, c, F) BY <1>7, <2>2 DEF Fits
  <2>5. ASSUME \A l \in Labels : Due(r, l, L, <<>>, F) PROVE \A l \in Labels : Due(r, l, T, H, F)
    <3>1. Coming(r, e0, F) BY <1>c, <2>5
    <3>2. wanted[l0] = {n0} BY <1>7, <3>1 DEF Coming, l0, n0
    <3>3. ~(\E e \in Elements(T) : e.label = l0) => Due(r, l0, T, H, F)
      BY <1>o, <2>1, <2>2, <3>2 DEF Due
    <3> QED BY <1>d, <1>o, <2>1, <2>2, <2>5, <3>3
  <2>6. H \in Seq(HonestChange) /\ Len(H) \in {0, 1} BY <2>1, <2>3, ShortLists
  <2> QED BY <1>2, <1>o, <2>1, <2>4, <2>5, <2>6 DEF L, T
<1>8. CASE RowsOf(l0, F) = {} /\ ~At(r, "rename")
  <2>1. H = <<>> BY <1>8, <1>h DEF Looked
  <2>2. ASSUME \A l \in Labels : Due(r, l, L, <<>>, F) PROVE \A l \in Labels : Due(r, l, T, H, F)
    <3>1. Coming(r, e0, F) BY <1>c, <2>2
    <3>2. AtMostOne(l0, F) BY <1>8 DEF AtMostOne
    <3>3. wanted[l0] = {} BY <1>8, <3>1, <3>2 DEF Coming, l0
    <3>4. NamesOf(l0, F) = {} BY <1>n, <1>8
    <3>5. Settled(l0, F) BY <3>3, <3>4 DEF Settled
    <3>6. ~(\E e \in Elements(T) : e.label = l0) => Due(r, l0, T, H, F)
      BY <1>e, <2>1, <3>5 DEF Due
    <3> QED BY <1>d, <1>e, <2>1, <2>2, <3>6
  <2>3. H \in Seq(HonestChange) /\ Len(H) \in {0, 1} BY <2>1, ShortLists
  <2> QED BY <1>2, <1>e, <2>1, <2>2, <2>3 DEF L, T
<1> QED BY <1>6, <1>7, <1>8

-----------------------------------------------------------------------------
(* What a session may do.                                                     *)

LEMMA VoiceStays == [SpeakersNext]_speakerVars => voiceOf' = voiceOf
PROOF
<1> SUFFICES ASSUME [SpeakersNext]_speakerVars PROVE voiceOf' = voiceOf OBVIOUS
<1>1. CASE UNCHANGED speakerVars BY <1>1 DEF speakerVars, knownVars
<1>2. ASSUME NEW r \in Requests, Renames(r) \/ Enrols(r) PROVE voiceOf' = voiceOf
  BY <1>2 DEF Renames, Enrols, RenameRequest, MatchRequest, ReadKnown, MatchRaises, Lookup,
              TwoRows, Commit, LockTimeout, EnrollRequest, ClipStored, Extract, End, knownVars
<1>3. ASSUME NEW g \in Introduced, EnrollFromJob(g) PROVE voiceOf' = voiceOf
  BY <1>3 DEF EnrollFromJob
<1>4. ASSUME NEW i \in 1..MaxKnown, DeleteKnown(i) PROVE voiceOf' = voiceOf
  BY <1>4 DEF DeleteKnown
<1> QED BY <1>1, <1>2, <1>3, <1>4 DEF SpeakersNext

\* While the voices stay, what a row may say stays.
LEMMA ReasonsStay ==
  ASSUME voiceOf' = voiceOf
  PROVE  /\ Enrolled' = Enrolled /\ SpeakerNames' = SpeakerNames
         /\ HonestRow' = HonestRow /\ HonestChange' = HonestChange
PROOF
<1>1. Enrolled' = Enrolled BY DEF Enrolled
<1>2. SpeakerNames' = SpeakerNames BY <1>1 DEF SpeakerNames
<1>3. \A w : Reason(w)' = Reason(w) BY <1>1 DEF Reason
<1>4. HonestRow' = HonestRow BY <1>2, <1>3 DEF HonestRow
<1>5. HonestChange' = HonestChange BY <1>2, <1>3 DEF HonestChange
<1> QED BY <1>1, <1>2, <1>4, <1>5

LEMMA BodyFacts ==
  ASSUME NEW body \in Bodies
  PROVE  /\ body \in Seq(HonestRow)
         /\ \A e, f \in Elements(body) : e.label = f.label => e = f
PROOF
<1>1. \A g \in Given : g \in HonestRow
  BY SpeakersAssumption DEF HonestRow, Reason, SpeakerNames
<1>2. CASE body \in {<<a>> : a \in Given}
  <2>1. PICK a \in Given : body = <<a>> BY <1>2
  <2>2. <<a>> \in Seq(HonestRow) BY <1>1, ShortLists
  <2>3. Elements(<<a>>) = {a} BY DEF Elements
  <2> QED BY <2>1, <2>2, <2>3
<1>3. CASE body \notin {<<a>> : a \in Given}
  <2>1. PICK p \in Given \X Given : p[1].label # p[2].label /\ body = <<p[1], p[2]>>
    BY <1>3 DEF Bodies
  <2> DEFINE a == p[1]
             b == p[2]
  <2>2. a \in HonestRow /\ b \in HonestRow /\ a.label # b.label BY <1>1, <2>1
  <2> HIDE DEF a, b
  <2>3. <<a, b>> \in Seq(HonestRow) BY <2>2
  <2>4. Elements(<<a, b>>) = {a, b} BY DEF Elements
  <2> QED BY <2>1, <2>2, <2>3, <2>4 DEF a, b
<1> QED BY <1>2, <1>3

\* One request's session changes.
LEMMA SessionKept ==
  ASSUME SessionInv, voiceOf' = voiceOf, NEW r \in Requests,
         NEW d \in Doings, NEW L \in Seq(HonestRow), NEW H \in Seq(HonestChange), Len(H) \in {0, 1},
         doing' = [doing EXCEPT ![r] = d], left' = [left EXCEPT ![r] = L],
         held' = [held EXCEPT ![r] = H],
         rows' \in Seq(HonestRow), draft' \in Seq(HonestRow),
         locker' = locker \ {r} \/ locker' = locker \/ locker' = {r},
         locker' = {} => draft' = <<>>,
         d.what \notin {"rename", "match"} => L = <<>> /\ H = <<>> /\ r \notin locker',
         solo' \in BOOLEAN
  PROVE  SessionInv'
PROOF
<1>1. HonestRow' = HonestRow /\ HonestChange' = HonestChange BY ReasonsStay
<1>2. rows' \in Seq(HonestRow') /\ draft' \in Seq(HonestRow') BY <1>1
<1>3. doing \in [Requests -> Doings] /\ doing' \in [Requests -> Doings] BY DEF SessionInv
<1>4. left \in [Requests -> Seq(HonestRow)] /\ held \in [Requests -> Seq(HonestChange)]
  BY DEF SessionInv
<1>5. left' \in [Requests -> Seq(HonestRow)] BY <1>4
<1>6. held' \in [Requests -> Seq(HonestChange)] BY <1>4
<1>7. \A s \in Requests : /\ doing'[s] = IF s = r THEN d ELSE doing[s]
                          /\ left'[s] = IF s = r THEN L ELSE left[s]
                          /\ held'[s] = IF s = r THEN H ELSE held[s]
  BY <1>3, <1>4
<1>8. locker \subseteq Requests /\ \A q, s \in locker : q = s BY DEF SessionInv
<1>9. locker' \subseteq Requests /\ \A q, s \in locker' : q = s BY <1>8
<1>10. \A s \in Requests : Len(held[s]) <= 1 BY DEF SessionInv
<1>11. \A s \in Requests : Len(held'[s]) <= 1
  <2>0. \A n \in {0, 1} : n <= 1 OBVIOUS
  <2>1. Len(H) <= 1 BY <2>0
  <2> QED BY <1>7, <1>10, <2>1
<1>12. ASSUME NEW s \in Requests, doing'[s].what \notin {"rename", "match"}
       PROVE  left'[s] = <<>> /\ held'[s] = <<>> /\ s \notin locker'
  <2>1. CASE s = r BY <1>7, <1>12, <2>1
  <2>2. CASE s # r
    <3>1. doing[s].what \notin {"rename", "match"} BY <1>7, <1>12, <2>2
    <3>2. left[s] = <<>> /\ held[s] = <<>> /\ s \notin locker BY <3>1 DEF SessionInv, Quiet
    <3>3. s \notin locker' BY <2>2, <3>2
    <3> QED BY <1>7, <2>2, <3>2, <3>3
  <2> QED BY <2>1, <2>2
<1> QED BY <1>1, <1>2, <1>3, <1>5, <1>6, <1>9, <1>11, <1>12 DEF SessionInv, Quiet

LEMMA EndKeepsSession ==
  ASSUME SessionInv, NEW r \in Requests, NEW table \in Seq(HonestRow), NEW good, End(r, table, good)
  PROVE  SessionInv'
PROOF
<1>1. /\ rows' = table /\ locker' = locker \ {r}
      /\ draft' = (IF r \in locker THEN <<>> ELSE draft)
      /\ doing' = [doing EXCEPT ![r] = Idling]
      /\ left' = [left EXCEPT ![r] = <<>>] /\ held' = [held EXCEPT ![r] = <<>>]
      /\ solo' = OthersIdle(r) /\ voiceOf' = voiceOf
  BY DEF End, knownVars
<1>2. Idling \in Doings /\ Idling.what = "idle" BY DEF Idling, Doing, Doings, Whats
<1>3. <<>> \in Seq(HonestRow) /\ <<>> \in Seq(HonestChange) /\ Len(<<>>) \in {0, 1} BY ShortLists
<1>4. draft' \in Seq(HonestRow) BY <1>1, <1>3 DEF SessionInv
<1>5. locker' = {} => draft' = <<>> BY <1>1 DEF SessionInv
<1>6. solo' \in BOOLEAN BY <1>1 DEF OthersIdle
<1>7. r \notin locker' BY <1>1
<1> QED BY <1>1, <1>2, <1>3, <1>4, <1>5, <1>6, <1>7, SessionKept

LEMMA SessionStep == SessionInv /\ KnownInv /\ [SpeakersNext]_speakerVars => SessionInv'
PROOF
<1> SUFFICES ASSUME SessionInv, KnownInv, [SpeakersNext]_speakerVars PROVE SessionInv'
  OBVIOUS
<1>v. voiceOf' = voiceOf BY VoiceStays
<1>h. HonestRow' = HonestRow /\ HonestChange' = HonestChange BY <1>v, ReasonsStay
<1>t. /\ rows \in Seq(HonestRow) /\ draft \in Seq(HonestRow) /\ doing \in [Requests -> Doings]
      /\ left \in [Requests -> Seq(HonestRow)] /\ held \in [Requests -> Seq(HonestChange)]
      /\ (locker = {} => draft = <<>>) /\ solo \in BOOLEAN
  BY DEF SessionInv
<1>l. \A s \in Requests : Len(held[s]) \in {0, 1}
  <2> TAKE s \in Requests
  <2>1. Len(held[s]) \in Nat /\ Len(held[s]) <= 1 BY <1>t DEF SessionInv
  <2>2. \A n \in Nat : n <= 1 => n \in {0, 1} OBVIOUS
  <2> QED BY <2>1, <2>2
<1>e. \A s \in Requests : /\ doing = [doing EXCEPT ![s] = doing[s]]
                          /\ left = [left EXCEPT ![s] = left[s]]
                          /\ held = [held EXCEPT ![s] = held[s]]
  BY <1>t
<1>u. ASSUME UNCHANGED <<rows, locker, draft, doing, left, held, solo>> PROVE SessionInv'
  BY <1>h, <1>u DEF SessionInv, Quiet
<1>1. CASE UNCHANGED speakerVars
  BY <1>1, <1>u DEF speakerVars, tableVars, sessionVars
<1>2. ASSUME NEW r \in Requests, NEW body \in Bodies, RenameRequest(r, body) PROVE SessionInv'
  <2> DEFINE d == Doing("rename", NoClip)
  <2>1. /\ doing' = [doing EXCEPT ![r] = d] /\ left' = [left EXCEPT ![r] = body]
        /\ UNCHANGED <<rows, locker, draft, held>> /\ solo' = (solo /\ OthersIdle(r))
    BY <1>2 DEF RenameRequest, tableVars
  <2>2. d \in Doings /\ d.what = "rename" BY DEF Doing, Doings, Whats
  <2>3. body \in Seq(HonestRow) BY BodyFacts
  <2>4. held' = [held EXCEPT ![r] = held[r]] /\ held[r] \in Seq(HonestChange)
    BY <1>e, <1>t, <2>1
  <2>5. solo' \in BOOLEAN BY <2>1 DEF OthersIdle
  <2> HIDE DEF d
  <2> QED BY <1>v, <1>t, <1>l, <2>1, <2>2, <2>3, <2>4, <2>5, SessionKept
<1>3. ASSUME NEW r \in Requests, MatchRequest(r) PROVE SessionInv'
  <2> DEFINE d == Doing("read", NoClip)
  <2>1. /\ doing' = [doing EXCEPT ![r] = d] /\ At(r, "idle")
        /\ UNCHANGED <<rows, locker, draft, left, held>> /\ solo' = (solo /\ OthersIdle(r))
    BY <1>3 DEF MatchRequest, tableVars
  <2>2. d \in Doings BY DEF Doing, Doings, Whats
  <2>3. held[r] = <<>> /\ left[r] = <<>> /\ r \notin locker BY <2>1 DEF SessionInv, Quiet, At
  <2>4. /\ held' = [held EXCEPT ![r] = held[r]] /\ held[r] \in Seq(HonestChange)
        /\ left' = [left EXCEPT ![r] = left[r]] /\ left[r] \in Seq(HonestRow)
    BY <1>e, <1>t, <2>1
  <2>5. solo' \in BOOLEAN BY <2>1 DEF OthersIdle
  <2> HIDE DEF d
  <2> QED BY <1>v, <1>t, <1>l, <2>1, <2>2, <2>3, <2>4, <2>5, SessionKept
<1>4. ASSUME NEW r \in Requests, ReadKnown(r) PROVE SessionInv'
  <2> DEFINE d == Doing("match", NoClip)
  <2>1. /\ doing' = [doing EXCEPT ![r] = d] /\ left' = [left EXCEPT ![r] = MatchList]
        /\ UNCHANGED <<rows, locker, draft, held, solo>>
        /\ \A i \in DOMAIN Heard : voiceOf[Heard[i]] \notin LegacyVoices
    BY <1>4 DEF ReadKnown, tableVars
  <2>2. d \in Doings /\ d.what = "match" BY DEF Doing, Doings, Whats
  <2>3. MatchList \in Seq(HonestRow)
    <3>1. \A l \in HeardSet : voiceOf[l] \notin LegacyVoices BY <2>1 DEF HeardSet
    <3> QED BY <3>1, MatchListHolds
  <2>4. held' = [held EXCEPT ![r] = held[r]] /\ held[r] \in Seq(HonestChange)
    BY <1>e, <1>t, <2>1
  <2> HIDE DEF d
  <2> QED BY <1>v, <1>t, <1>l, <2>1, <2>2, <2>3, <2>4, SessionKept
<1>5. ASSUME NEW r \in Requests, Lookup(r) PROVE SessionInv'
  <2> DEFINE F == Flushed(r)
             H == Looked(r, Head(left[r]).label, Head(left[r]).name, F)
  <2>1. /\ left[r] # <<>> /\ locker' = Locked(r)
        /\ draft' = (IF r \in Locked(r) THEN F ELSE draft)
        /\ held' = [held EXCEPT ![r] = H] /\ left' = [left EXCEPT ![r] = Tail(left[r])]
        /\ UNCHANGED <<rows, doing, solo>>
    BY <1>5 DEF Lookup
  <2>2. F \in Seq(HonestRow) BY FlushedIs
  <2>3. doing[r].what \in {"rename", "match"} BY <2>1 DEF SessionInv, Quiet
  <2>4. H \in Seq(HonestChange) /\ Len(H) \in {0, 1} /\ Tail(left[r]) \in Seq(HonestRow)
    <3> HIDE DEF F
    <3> QED BY <2>1, <2>2, <2>3, LookupTrack
  <2> HIDE DEF F, H
  <2>5. locker' = {r} \/ locker' = locker BY <2>1 DEF Locked
  <2>6. draft' \in Seq(HonestRow) BY <1>t, <2>1, <2>2
  <2>7. locker' = {} => draft' = <<>>
    <3> SUFFICES ASSUME locker' = {} PROVE draft' = <<>> OBVIOUS
    <3>1. locker = {} /\ r \notin Locked(r) BY <2>1, <2>5
    <3> QED BY <1>t, <2>1, <3>1
  <2>8. doing' = [doing EXCEPT ![r] = doing[r]] /\ doing[r] \in Doings BY <1>e, <1>t, <2>1
  <2> QED BY <1>v, <1>t, <2>1, <2>3, <2>4, <2>5, <2>6, <2>7, <2>8, SessionKept
<1>6. ASSUME NEW r \in Requests, MatchRaises(r) \/ TwoRows(r) \/ LockTimeout(r) PROVE SessionInv'
  <2>1. End(r, rows, FALSE) BY <1>6 DEF MatchRaises, TwoRows, LockTimeout
  <2> QED BY <1>t, <2>1, EndKeepsSession
<1>7. ASSUME NEW r \in Requests, Commit(r) PROVE SessionInv'
  <2> DEFINE T == IF r \in Locked(r) THEN Flushed(r) ELSE rows
  <2>1. End(r, T, TRUE) BY <1>7 DEF Commit
  <2>2. T \in Seq(HonestRow) BY <1>t, FlushedIs
  <2> HIDE DEF T
  <2> QED BY <2>1, <2>2, EndKeepsSession
<1>8. ASSUME NEW r \in Requests, NEW d \in Doings, d.what \notin {"rename", "match"}, Quiet(r),
             doing' = [doing EXCEPT ![r] = d],
             UNCHANGED <<rows, locker, draft, left, held, solo>>
      PROVE  SessionInv'
  <2>3. held[r] = <<>> /\ left[r] = <<>> /\ r \notin locker BY <1>8 DEF SessionInv
  <2>4. /\ held' = [held EXCEPT ![r] = held[r]] /\ held[r] \in Seq(HonestChange)
        /\ left' = [left EXCEPT ![r] = left[r]] /\ left[r] \in Seq(HonestRow)
    BY <1>e, <1>t, <1>8
  <2> QED BY <1>v, <1>t, <1>l, <1>8, <2>3, <2>4, SessionKept
<1>9. ASSUME NEW r \in Requests, NEW c \in Recorded, EnrollRequest(r, c) PROVE SessionInv'
  <2> DEFINE d == Doing("store", c)
  <2>1. /\ doing' = [doing EXCEPT ![r] = d] /\ At(r, "idle")
        /\ UNCHANGED <<rows, locker, draft, left, held, solo>>
    BY <1>9 DEF EnrollRequest, tableVars
  <2>2. d \in Doings /\ d.what = "store" BY DEF Doing, Doings, Whats
  <2> HIDE DEF d
  <2>3. Quiet(r) BY <2>1 DEF Quiet, At
  <2> QED BY <1>8, <2>1, <2>2, <2>3
<1>10. ASSUME NEW r \in Requests, ClipStored(r) PROVE SessionInv'
  <2> DEFINE d == Doing("extract", doing[r].clip)
  <2>1. /\ doing' = [doing EXCEPT ![r] = d] /\ At(r, "store")
        /\ UNCHANGED <<rows, locker, draft, left, held, solo>>
    BY <1>10 DEF ClipStored, tableVars
  <2>2. doing[r] \in Doings BY <1>t
  <2>3. d \in Doings /\ d.what = "extract" BY <2>2 DEF Doing, Doings, Whats
  <2> HIDE DEF d
  <2>5. Quiet(r) BY <2>1 DEF Quiet, At
  <2> QED BY <1>8, <2>1, <2>3, <2>5
<1>11. ASSUME NEW r \in Requests, Extract(r) PROVE SessionInv'
  <2>1. /\ doing' = [doing EXCEPT ![r] = Idling] /\ At(r, "extract")
        /\ UNCHANGED <<rows, locker, draft, left, held, solo>>
    BY <1>11 DEF Extract, tableVars
  <2>2. Idling \in Doings /\ Idling.what = "idle" BY DEF Idling, Doing, Doings, Whats
  <2>3. Quiet(r) BY <2>1 DEF Quiet, At
  <2> QED BY <1>8, <2>1, <2>2, <2>3
<1>12. ASSUME NEW g \in Introduced, EnrollFromJob(g) PROVE SessionInv'
  BY <1>12, <1>u DEF EnrollFromJob, tableVars, sessionVars
<1>13. ASSUME NEW i \in 1..MaxKnown, DeleteKnown(i) PROVE SessionInv'
  BY <1>13, <1>u DEF DeleteKnown, tableVars, sessionVars
<1>14. ASSUME NEW r \in Requests, Renames(r) \/ Enrols(r) PROVE SessionInv'
  BY <1>2, <1>3, <1>4, <1>5, <1>6, <1>7, <1>9, <1>10, <1>11, <1>14 DEF Renames, Enrols
<1> QED BY <1>1, <1>12, <1>13, <1>14 DEF SpeakersNext

-----------------------------------------------------------------------------
(* The known speakers.                                                        *)

\* Deleting an element leaves a list of the others.
LEMMA DeleteFacts ==
  ASSUME NEW S, NEW s \in Seq(S), NEW i \in DOMAIN s
  PROVE  /\ SubSeq(s, 1, i - 1) \o SubSeq(s, i + 1, Len(s)) \in Seq(S)
         /\ Len(SubSeq(s, 1, i - 1) \o SubSeq(s, i + 1, Len(s))) <= Len(s)
PROOF
<1> DEFINE a == SubSeq(s, 1, i - 1)
           b == SubSeq(s, i + 1, Len(s))
<1>1. Len(s) \in Nat /\ i \in 1..Len(s) /\ \A j \in 1..Len(s) : s[j] \in S OBVIOUS
<1>2. a \in Seq(S) /\ Len(a) = i - 1
  <2>1. \A j \in 1..(i - 1) : s[j] \in S BY <1>1
  <2>2. a \in Seq(S) /\ Len(a) = IF 1 <= i - 1 THEN (i - 1) - 1 + 1 ELSE 0
    BY <1>1, <2>1, SubSeqProperties
  <2> QED BY <1>1, <2>2
<1>3. b \in Seq(S) /\ Len(b) <= Len(s) - i
  <2>1. \A j \in (i + 1)..Len(s) : s[j] \in S BY <1>1
  <2>2. b \in Seq(S) /\ Len(b) = IF i + 1 <= Len(s) THEN Len(s) - (i + 1) + 1 ELSE 0
    BY <1>1, <2>1, SubSeqProperties
  <2> QED BY <1>1, <2>2
<1> HIDE DEF a, b
<1>4. a \o b \in Seq(S) /\ Len(a \o b) = Len(a) + Len(b) BY <1>2, <1>3, ConcatProperties
<1>5. Len(a) \in Nat /\ Len(b) \in Nat BY <1>2, <1>3
<1>6. Len(a \o b) <= Len(s) BY <1>1, <1>2, <1>3, <1>4, <1>5
<1> QED BY <1>4, <1>6 DEF a, b

LEMMA KnownStep == SessionInv /\ KnownInv /\ [SpeakersNext]_speakerVars => KnownInv'
PROOF
<1> SUFFICES ASSUME SessionInv, KnownInv, [SpeakersNext]_speakerVars PROVE KnownInv'
  OBVIOUS
<1>v. voiceOf' = voiceOf BY VoiceStays
<1>h. Enrolled' = Enrolled BY <1>v, ReasonsStay
<1>m. MaxKnown \in Nat BY SpeakersAssumption
<1>d. doing \in [Requests -> Doings] BY DEF SessionInv
<1>k. known \in Seq(OldSpeaker \cup Enrolled) /\ Len(known) <= MaxKnown BY DEF KnownInv
\* The requests that enroll nothing.
<1>u. ASSUME UNCHANGED <<known, clips>>,
             \A s \in Requests : doing'[s] = doing[s] \/ doing'[s].what \notin {"store", "extract"}
      PROVE  KnownInv'
  BY <1>v, <1>h, <1>u DEF KnownInv, OldSpeaker, Speaker
<1>r. ASSUME NEW r \in Requests, NEW d, doing' = [doing EXCEPT ![r] = d],
             d.what \notin {"store", "extract"}, UNCHANGED <<known, clips>>
      PROVE  KnownInv'
  <2>1. \A s \in Requests : doing'[s] = IF s = r THEN d ELSE doing[s] BY <1>d, <1>r
  <2> QED BY <1>r, <1>u, <2>1
<1>1. CASE UNCHANGED speakerVars BY <1>1, <1>u DEF speakerVars, knownVars, sessionVars
<1>2. ASSUME NEW r \in Requests, Renames(r) PROVE KnownInv'
  <2>1. ASSUME NEW table, NEW good, End(r, table, good) PROVE KnownInv'
    BY <1>r, <2>1 DEF End, knownVars, Idling, Doing
  <2>2. CASE MatchRaises(r) \/ TwoRows(r) \/ LockTimeout(r) \/ Commit(r)
    BY <2>1, <2>2 DEF MatchRaises, TwoRows, LockTimeout, Commit
  <2>3. CASE Lookup(r) BY <1>u, <2>3 DEF Lookup, knownVars
  <2>4. CASE (\E body \in Bodies : RenameRequest(r, body)) \/ MatchRequest(r) \/ ReadKnown(r)
    BY <1>r, <2>4 DEF RenameRequest, MatchRequest, ReadKnown, knownVars, Doing
  <2> QED BY <1>2, <2>2, <2>3, <2>4 DEF Renames
<1>c. ASSUME known' = known, NEW r \in Requests, NEW c \in Recorded, NEW what \in {"store", "extract"},
             doing' = [doing EXCEPT ![r] = Doing(what, c)],
             NEW v, v = "torn" \/ v = c.voice, clips' = [clips EXCEPT ![c.path] = v]
      PROVE  KnownInv'
  <2>1. \A s \in Requests : doing'[s] = IF s = r THEN Doing(what, c) ELSE doing[s] BY <1>d, <1>c
  <2>2. \A s \in Requests : doing'[s].what \in {"store", "extract"} => doing'[s].clip \in Recorded
    BY <2>1 DEF KnownInv, Doing
  <2>3. DOMAIN clips' = {x.path : x \in Recorded} BY <1>c DEF KnownInv
  <2>4. ASSUME NEW p \in DOMAIN clips' PROVE clips'[p] = "torn" \/ clips'[p] \in VoicesAt(p)
    <3>1. CASE p = c.path
      <4>1. clips'[p] = v BY <1>c, <2>4, <3>1
      <4>2. c.voice \in VoicesAt(p) BY <3>1 DEF VoicesAt
      <4> QED BY <1>c, <4>1, <4>2
    <3>2. CASE p # c.path
      <4>1. clips'[p] = clips[p] /\ p \in DOMAIN clips BY <1>c, <2>4, <3>2
      <4> QED BY <4>1 DEF KnownInv
    <3> QED BY <3>1, <3>2
  <2>5. known' \in Seq(OldSpeaker \cup Enrolled') BY <1>c, <1>h, <1>k
  <2> QED BY <1>c, <1>v, <1>k, <2>2, <2>3, <2>4, <2>5 DEF KnownInv, OldSpeaker, VoicesAt
<1>3. ASSUME NEW r \in Requests, NEW c \in Recorded, EnrollRequest(r, c) PROVE KnownInv'
  BY <1>3, <1>c DEF EnrollRequest
<1>4. ASSUME NEW r \in Requests, ClipStored(r) PROVE KnownInv'
  <2>1. doing[r].clip \in Recorded BY <1>4 DEF ClipStored, At, KnownInv
  <2> QED BY <1>4, <1>c, <2>1 DEF ClipStored
\* One more is known, and nobody starts to store a clip.
<1>a. ASSUME NEW s \in Enrolled, known' = Append(known, s), Len(known) < MaxKnown
      PROVE  known' \in Seq(OldSpeaker \cup Enrolled) /\ Len(known') <= MaxKnown
  <2>1. Append(known, s) \in Seq(OldSpeaker \cup Enrolled) /\ Len(Append(known, s)) = Len(known) + 1
    BY <1>k, ElementsAppend
  <2>2. Len(known) \in Nat BY <1>k
  <2>3. \A n, m \in Nat : n < m => n + 1 <= m OBVIOUS
  <2> QED BY <1>a, <1>m, <2>1, <2>2, <2>3
<1>b. ASSUME known' \in Seq(OldSpeaker \cup Enrolled), Len(known') <= MaxKnown, clips' = clips,
             \A s \in Requests : doing'[s] = doing[s] \/ doing'[s].what \notin {"store", "extract"}
      PROVE  KnownInv'
  BY <1>v, <1>h, <1>b DEF KnownInv, OldSpeaker, Speaker
<1>5. ASSUME NEW r \in Requests, Extract(r) PROVE KnownInv'
  <2> DEFINE c == doing[r].clip
  <2>1. /\ doing' = [doing EXCEPT ![r] = Idling] /\ doing[r].what = "extract" /\ clips' = clips
        /\ Len(known) < MaxKnown
        /\ known' = known
           \/ (clips[c.path] # "torn" /\ known' = Append(known, Speaker(c.name, clips[c.path])))
    BY <1>5 DEF Extract, At, ClipOf
  <2>2. \A s \in Requests : doing'[s] = doing[s] \/ doing'[s].what \notin {"store", "extract"}
    <3>1. \A s \in Requests : doing'[s] = IF s = r THEN Idling ELSE doing[s] BY <1>d, <2>1
    <3>2. Idling.what = "idle" BY DEF Idling, Doing
    <3> QED BY <3>1, <3>2
  <2>3. clips[c.path] # "torn" => Speaker(c.name, clips[c.path]) \in Enrolled
    <3>1. c \in Recorded BY <2>1 DEF KnownInv
    <3> HIDE DEF c
    <3>2. clips[c.path] = "torn" \/ clips[c.path] \in VoicesAt(c.path) BY <3>1 DEF KnownInv
    <3>3. ASSUME NEW x \in Recorded, x.path = c.path PROVE Speaker(c.name, x.voice) \in Enrolled
      <4> DEFINE q == <<c, x>>
      <4>1. q \in SamePath /\ q[1] = c /\ q[2] = x BY <3>1, <3>3 DEF SamePath
      <4> HIDE DEF q
      <4>2. [name |-> q[1].name, voice |-> q[2].voice] \in Enrolled BY <4>1 DEF Enrolled
      <4> QED BY <4>1, <4>2 DEF Speaker
    <3> QED BY <3>2, <3>3 DEF VoicesAt
  <2>4. known' \in Seq(OldSpeaker \cup Enrolled) /\ Len(known') <= MaxKnown
    <3>1. CASE known' = known BY <1>k, <3>1
    <3>2. CASE known' # known BY <1>a, <2>1, <2>3, <3>2
    <3> QED BY <3>1, <3>2
  <2> QED BY <1>b, <2>1, <2>2, <2>4
<1>6. ASSUME NEW g \in Introduced, EnrollFromJob(g) PROVE KnownInv'
  <2>1. /\ known' = Append(known, Speaker(g.name, voiceOf[g.label])) /\ clips' = clips
        /\ doing' = doing /\ Len(known) < MaxKnown
    BY <1>6 DEF EnrollFromJob, sessionVars
  <2>2. Speaker(g.name, voiceOf[g.label]) \in Enrolled BY DEF Speaker, Enrolled
  <2> QED BY <1>a, <1>b, <2>1, <2>2
<1>7. ASSUME NEW i \in 1..MaxKnown, DeleteKnown(i) PROVE KnownInv'
  <2>1. /\ i \in DOMAIN known /\ clips' = clips /\ doing' = doing
        /\ known' = SubSeq(known, 1, i - 1) \o SubSeq(known, i + 1, Len(known))
    BY <1>7 DEF DeleteKnown, sessionVars
  <2>2. known' \in Seq(OldSpeaker \cup Enrolled) /\ Len(known') <= Len(known)
    BY <1>k, <2>1, DeleteFacts
  <2>3. Len(known') \in Nat /\ Len(known) \in Nat BY <1>k, <2>2
  <2>4. Len(known') <= MaxKnown BY <1>k, <1>m, <2>2, <2>3
  <2> QED BY <1>b, <2>1, <2>2, <2>4
<1>8. ASSUME NEW r \in Requests, Renames(r) \/ Enrols(r) PROVE KnownInv'
  BY <1>2, <1>3, <1>4, <1>5, <1>8 DEF Enrols
<1> QED BY <1>1, <1>6, <1>7, <1>8 DEF SpeakersNext

-----------------------------------------------------------------------------
(* The history of the renames, step by step.                                  *)

\* A request that ends commits what is settled, or the history starts anew.
LEMMA EndTrack ==
  ASSUME RenamesInv, doing \in [Requests -> Doings], NEW r \in Requests, Renaming(r),
         NEW table, NEW good \in BOOLEAN, End(r, table, good),
         solo /\ good => \A l \in Labels : Settled(l, table)
  PROVE  RenamesInv'
PROOF
<1>1. /\ rows' = table /\ doing' = [doing EXCEPT ![r] = Idling] /\ solo' = OthersIdle(r)
      /\ wanted' = IF solo /\ good THEN wanted ELSE [l \in Labels |-> NamesOf(l, table)]
  BY DEF End
<1>2. \A s \in Requests : Renaming(s)' <=> s # r /\ Renaming(s)
  BY <1>1 DEF Renaming, Idling, Doing
<1>3. solo' <=> \A s \in Requests : ~Renaming(s)' BY <1>1, <1>2 DEF OthersIdle
<1>4. wanted' = [l \in Labels |-> wanted'[l]]
  <2>1. CASE solo /\ good BY <1>1, <2>1 DEF RenamesInv
  <2>2. CASE ~(solo /\ good) BY <1>1, <2>2
  <2> QED BY <2>1, <2>2
<1>5. ASSUME NEW l \in Labels PROVE Settled(l, rows)'
  <2>1. CASE solo /\ good
    <3>1. Settled(l, table) /\ wanted' = wanted /\ rows' = table BY <1>1, <2>1
    <3> QED BY <3>1 DEF Settled, AtMostOne, RowsOf, NamesOf
  <2>2. CASE ~(solo /\ good)
    <3>1. wanted'[l] = NamesOf(l, table) /\ rows' = table BY <1>1, <2>2
    <3> QED BY <3>1 DEF Settled, NamesOf
  <2> QED BY <2>1, <2>2
<1> QED BY <1>2, <1>3, <1>4, <1>5 DEF RenamesInv

\* Nothing of this concerns the requests that enroll and delete.
LEMMA Elsewhere ==
  ASSUME RenamesInv, UNCHANGED <<rows, locker, draft, left, held, wanted, solo>>,
         \A s \in Requests : /\ Renaming(s)' = Renaming(s)
                             /\ At(s, "rename")' = At(s, "rename")
  PROVE  RenamesInv'
PROOF
<1>2. \A l \in Labels : Settled(l, rows) => Settled(l, rows)'
  BY DEF Settled, AtMostOne, RowsOf, NamesOf
<1>3. ASSUME NEW s \in Requests, OnTrack(s) PROVE OnTrack(s)'
  <2>1. View(s)' = View(s) BY DEF View
  <2>2. \A c \in Elements(held[s])' : Fits(s, c, View(s))'
    <3>1. \A c \in Elements(held[s]) : Fits(s, c, View(s)) BY <1>3 DEF OnTrack
    <3> QED BY <2>1, <3>1 DEF Fits, RowsOf, Elements
  <2>3. ASSUME NEW l \in Labels PROVE Due(s, l, left[s], held[s], View(s))'
    <3> DEFINE V == View(s)
               L == left[s]
               H == held[s]
    <3>1. Due(s, l, L, H, V) BY <1>3 DEF OnTrack
    <3>2. V' = V /\ L' = L /\ H' = H /\ wanted' = wanted /\ At(s, "rename")' = At(s, "rename")
      BY <2>1
    <3> HIDE DEF V, L, H
    <3>3. Elements(L)' = Elements(L) /\ Elements(H)' = Elements(H) BY <3>2 DEF Elements
    <3>4. /\ RowsOf(l, V)' = RowsOf(l, V) /\ NamesOf(l, V)' = NamesOf(l, V)
          /\ \A e : RowsOf(e.label, V)' = RowsOf(e.label, V)
      BY <3>2 DEF RowsOf, NamesOf
    <3>5. (AtMostOne(l, V)' <=> AtMostOne(l, V)) /\ \A e : AtMostOne(e.label, V)' <=> AtMostOne(e.label, V)
      BY <3>4 DEF AtMostOne
    <3>6. Settled(l, V)' <=> Settled(l, V) BY <3>2, <3>4, <3>5 DEF Settled
    <3>7. \A e : Coming(s, e, V)' <=> Coming(s, e, V)
      BY <3>2, <3>4, <3>5 DEF Coming
    <3>8. Due(s, l, L, H, V)' BY <3>1, <3>2, <3>3, <3>5, <3>6, <3>7 DEF Due
    <3> QED BY <3>8 DEF V, L, H
  <2> QED BY <2>2, <2>3 DEF OnTrack
<1>4. \A s \in Requests : OthersIdle(s)' = OthersIdle(s) BY DEF OthersIdle
<1> QED BY <1>2, <1>3, <1>4 DEF RenamesInv

LEMMA RestIsSettled ==
  ASSUME SessionInv, RenamesInv, NEW r \in Requests, Quiet(r),
         (~Renaming(r) /\ OthersIdle(r)) \/ (Renaming(r) /\ solo)
  PROVE  \A l \in Labels : Settled(l, rows)
PROOF
<1>1. left[r] = <<>> /\ held[r] = <<>> /\ r \notin locker BY DEF SessionInv
<1>2. CASE ~Renaming(r) /\ OthersIdle(r) BY <1>2 DEF RenamesInv, OthersIdle
<1>3. CASE Renaming(r) /\ solo
  <2>1. \A l \in Labels : Due(r, l, <<>>, <<>>, rows)
    BY <1>1, <1>3 DEF RenamesInv, OnTrack, View
  <2>2. Elements(<<>>) = {} BY DEF Elements
  <2> QED BY <2>1, <2>2 DEF Due
<1> QED BY <1>2, <1>3

\* What a body, or a list of matches, says of a label.
LEMMA NamesInList ==
  ASSUME NEW S, NEW s \in Seq(S), NEW l
  PROVE  NamesOf(l, s) = {e.name : e \in {f \in Elements(s) : f.label = l}}
PROOF
BY DEF NamesOf, Elements

\* The history has a set of names for each label.
Total == wanted = [l \in Labels |-> wanted[l]]
\* What is due to each label before the first lookup.
Begun(r) == \A l \in Labels : Due(r, l, left[r], <<>>, rows)

\* A request begins its renames, or reads what to rename, from rows that are settled.
LEMMA BeginTrack ==
  ASSUME SessionInv, KnownInv, RenamesInv, NEW r \in Requests,
         (\E body \in Bodies : RenameRequest(r, body)) \/ MatchRequest(r) \/ ReadKnown(r)
  PROVE  RenamesInv'
PROOF
<1>1. ASSUME Quiet(r), doing'[r].what \in {"rename", "read", "match"},
             \A s \in Requests : s # r => doing'[s] = doing[s],
             UNCHANGED <<rows, locker, draft, held>>, Total',
             solo' => solo /\ OthersIdle(r),
             solo' => Begun(r)'
      PROVE  RenamesInv'
  <2>2. Renaming(r)' /\ \A s \in Requests \ {r} : Renaming(s)' = Renaming(s)
    BY <1>1 DEF Renaming
  <2>3. OthersIdle(r)' = OthersIdle(r) BY <2>2 DEF OthersIdle
  <2>4. held'[r] = <<>> /\ View(r)' = rows' BY <1>1 DEF SessionInv, View
  <2>5. Elements(<<>>) = {} BY DEF Elements
  <2>6. solo' => OnTrack(r)'
    <3> SUFFICES ASSUME solo' PROVE OnTrack(r)' OBVIOUS
    <3>1. Begun(r)' BY <1>1
    <3>2. ASSUME NEW l \in Labels PROVE Due(r, l, left[r], held[r], View(r))'
      <4>1. Due(r, l, left[r], <<>>, rows)' BY <3>1 DEF Begun
      <4>2. Elements(held[r])' = Elements(<<>>) BY <2>4
      <4>3. \A n : RowsOf(n, View(r))' = RowsOf(n, rows)' /\ NamesOf(n, View(r))' = NamesOf(n, rows)'
        BY <2>4 DEF RowsOf, NamesOf
      <4>4. \A n : AtMostOne(n, View(r))' <=> AtMostOne(n, rows)' BY <4>3 DEF AtMostOne
      <4>5. Settled(l, View(r))' <=> Settled(l, rows)' BY <4>3, <4>4 DEF Settled
      <4>6. \A e : Coming(r, e, View(r))' <=> Coming(r, e, rows)' BY <4>3, <4>4 DEF Coming
      <4> QED BY <4>1, <4>2, <4>4, <4>5, <4>6 DEF Due
    <3> QED BY <2>4, <2>5, <3>2 DEF OnTrack
  <2>7. solo' => \A s \in Requests : Renaming(s)' => s = r BY <1>1, <2>2 DEF OthersIdle
  <2> QED BY <1>1, <2>2, <2>3, <2>6, <2>7 DEF RenamesInv, Total
<1>2. ASSUME NEW body \in Bodies, RenameRequest(r, body) PROVE RenamesInv'
  <2> DEFINE d == Doing("rename", NoClip)
  <2>1. /\ At(r, "idle") /\ doing' = [doing EXCEPT ![r] = d]
        /\ left' = [left EXCEPT ![r] = body] /\ UNCHANGED <<rows, locker, draft, held>>
        /\ wanted' = [l \in Labels |-> IF NamesOf(l, body) = {} THEN wanted[l] ELSE NamesOf(l, body)]
        /\ solo' = (solo /\ OthersIdle(r))
    BY <1>2 DEF RenameRequest, tableVars
  <2>2. Quiet(r) /\ ~Renaming(r) BY <2>1 DEF At, Quiet, Renaming
  <2>3. d.what = "rename" BY DEF Doing
  <2> HIDE DEF d
  <2>4. left'[r] = body /\ At(r, "rename")' BY <2>1, <2>3 DEF SessionInv, At
  <2>5. \A l : NamesOf(l, body) = {e.name : e \in {f \in Elements(body) : f.label = l}}
    BY BodyFacts, NamesInList
  <2>6. \A e, f \in Elements(body) : e.label = f.label => e = f BY BodyFacts
  <2>r. rows' = rows BY <2>1
  <2>8. ASSUME solo', NEW l \in Labels PROVE Due(r, l, left[r], <<>>, rows)'
    <3>1. Settled(l, rows) BY <2>1, <2>2, <2>8, RestIsSettled
    <3>2. Elements(<<>>) = {} BY DEF Elements
    <3>3. CASE \E e \in Elements(body) : e.label = l
      <4>1. ASSUME NEW e \in Elements(body), e.label = l PROVE Coming(r, e, rows)'
        <5>1. NamesOf(l, body) = {e.name} BY <2>5, <2>6, <4>1
        <5>2. wanted'[e.label] = {e.name} BY <2>1, <4>1, <5>1
        <5> QED BY <2>4, <5>2 DEF Coming
      <4> QED BY <2>4, <3>3, <4>1 DEF Due
    <3>4. CASE ~(\E e \in Elements(body) : e.label = l)
      <4>1. NamesOf(l, body) = {} BY <2>5, <3>4
      <4>2. wanted'[l] = wanted[l] BY <2>1, <4>1
      <4>3. Settled(l, rows)' BY <2>r, <3>1, <4>2 DEF Settled, AtMostOne, RowsOf, NamesOf
      <4> QED BY <2>4, <3>2, <3>4, <4>3 DEF Due
    <3> QED BY <3>3, <3>4
  <2>9. wanted' = [l \in Labels |-> wanted'[l]]
    <3> DEFINE W(l) == IF NamesOf(l, body) = {} THEN wanted[l] ELSE NamesOf(l, body)
    <3>1. wanted' = [l \in Labels |-> W(l)] BY <2>1
    <3> HIDE DEF W
    <3> QED BY <3>1
  <2>t. Total' BY <2>9 DEF Total
  <2>a. solo' => Begun(r)' BY <2>8 DEF Begun
  <2>b. /\ doing'[r].what \in {"rename", "read", "match"}
        /\ \A s \in Requests : s # r => doing'[s] = doing[s]
    BY <2>1, <2>3 DEF SessionInv
  <2>c. solo' => solo /\ OthersIdle(r) BY <2>1
  <2>e. UNCHANGED <<rows, locker, draft, held>> BY <2>1
  <2> QED BY <1>1, <2>2, <2>a, <2>b, <2>c, <2>e, <2>t
<1>3. CASE MatchRequest(r)
  <2> DEFINE d == Doing("read", NoClip)
  <2>1. /\ At(r, "idle") /\ doing' = [doing EXCEPT ![r] = d]
        /\ UNCHANGED <<rows, locker, draft, left, held, wanted>>
        /\ solo' = (solo /\ OthersIdle(r))
    BY <1>3 DEF MatchRequest, tableVars
  <2>2. Quiet(r) /\ ~Renaming(r) BY <2>1 DEF At, Quiet, Renaming
  <2>3. d.what = "read" BY DEF Doing
  <2> HIDE DEF d
  <2>4. left'[r] = <<>> BY <2>1, <2>2 DEF SessionInv
  <2>8. ASSUME solo', NEW l \in Labels PROVE Due(r, l, left[r], <<>>, rows)'
    <3>1. Settled(l, rows) BY <2>1, <2>2, <2>8, RestIsSettled
    <3>2. Elements(<<>>) = {} BY DEF Elements
    <3>3. Settled(l, rows)' BY <2>1, <3>1 DEF Settled, AtMostOne, RowsOf, NamesOf
    <3> QED BY <2>4, <3>2, <3>3 DEF Due
  <2>9. wanted' = [l \in Labels |-> wanted'[l]]
    <3>1. wanted' = wanted BY <2>1
    <3>2. wanted = [l \in Labels |-> wanted[l]] BY DEF RenamesInv
    <3> QED BY <3>1, <3>2
  <2>t. Total' BY <2>9 DEF Total
  <2>a. solo' => Begun(r)' BY <2>8 DEF Begun
  <2>b. /\ doing'[r].what \in {"rename", "read", "match"}
        /\ \A s \in Requests : s # r => doing'[s] = doing[s]
    BY <2>1, <2>3 DEF SessionInv
  <2>c. solo' => solo /\ OthersIdle(r) BY <2>1
  <2>e. UNCHANGED <<rows, locker, draft, held>> BY <2>1
  <2> QED BY <1>1, <2>2, <2>a, <2>b, <2>c, <2>e, <2>t
<1>4. CASE ReadKnown(r)
  <2> DEFINE d == Doing("match", NoClip)
  <2>1. /\ At(r, "read") /\ doing' = [doing EXCEPT ![r] = d]
        /\ left' = [left EXCEPT ![r] = MatchList] /\ UNCHANGED <<rows, locker, draft, held, solo>>
        /\ \A i \in DOMAIN Heard : voiceOf[Heard[i]] \notin LegacyVoices
    BY <1>4 DEF ReadKnown, tableVars
  <2>w. wanted' = [l \in Labels |-> WantedOf(l)]
    BY <1>4 DEF ReadKnown, WantedOf, FirstBest, BestOf, Alikes
  <2>2. Quiet(r) /\ Renaming(r) BY <2>1 DEF At, Quiet, Renaming
  <2>3. d.what = "match" BY DEF Doing
  <2> HIDE DEF d
  <2>4. left'[r] = MatchList /\ ~At(r, "rename")' BY <2>1, <2>3 DEF SessionInv, At
  <2>5. \A l \in HeardSet : voiceOf[l] \notin LegacyVoices BY <2>1 DEF HeardSet
  <2>6. /\ \A e \in Elements(MatchList) : e.label \in HeardSet /\ Matches(e.label)
                                          /\ e.name = MatchName(e.label)
        /\ \A l \in HeardSet : Matches(l) => \E e \in Elements(MatchList) : e.label = l
    BY <2>5, MatchListHolds
  <2>7. \A l \in Labels : wanted'[l] = IF l \in HeardSet /\ Matches(l) /\ wanted[l] # {}
                                       THEN {MatchName(l)} ELSE wanted[l]
    BY <2>w, WantedIsMatch
  <2>n. \A l : NamesOf(l, rows) = {rows[j].name : j \in RowsOf(l, rows)} BY DEF NamesOf, RowsOf
  <2>8. ASSUME solo', NEW l \in Labels PROVE Due(r, l, left[r], <<>>, rows)'
    <3>1. Settled(l, rows) BY <2>1, <2>2, <2>8, RestIsSettled
    <3>2. Elements(<<>>) = {} BY DEF Elements
    <3>3. CASE \E e \in Elements(MatchList) : e.label = l
      <4>1. ASSUME NEW e \in Elements(MatchList), e.label = l PROVE Coming(r, e, rows)'
        <5>1. l \in HeardSet /\ Matches(l) /\ e.name = MatchName(l) BY <2>6, <4>1
        <5>2. AtMostOne(l, rows) => wanted[l] = {rows[j].name : j \in RowsOf(l, rows)}
          BY <2>n, <3>1 DEF Settled
        <5>3. wanted'[l] = IF wanted[l] # {} THEN {e.name} ELSE {} BY <2>7, <5>1
        <5>4. AtMostOne(l, rows) => wanted'[l] = IF RowsOf(l, rows) = {} THEN {} ELSE {e.name}
          BY <5>2, <5>3
        <5>5. RowsOf(l, rows)' = RowsOf(l, rows) /\ (AtMostOne(l, rows)' <=> AtMostOne(l, rows))
          BY <2>1 DEF RowsOf, AtMostOne
        <5> QED BY <2>4, <4>1, <5>4, <5>5 DEF Coming
      <4> QED BY <2>4, <3>3, <4>1 DEF Due
    <3>4. CASE ~(\E e \in Elements(MatchList) : e.label = l)
      <4>2. wanted'[l] = wanted[l] BY <2>6, <2>7, <3>4
      <4>3. Settled(l, rows)' BY <2>1, <3>1, <4>2 DEF Settled, AtMostOne, RowsOf, NamesOf
      <4> QED BY <2>4, <3>2, <3>4, <4>3 DEF Due
    <3> QED BY <3>3, <3>4
  <2>9. wanted' = [l \in Labels |-> wanted'[l]] BY <2>w
  <2>10. solo' => solo /\ OthersIdle(r)
    <3>1. solo' = solo BY <2>1
    <3>2. solo => OthersIdle(r) BY <2>2 DEF RenamesInv
    <3> QED BY <3>1, <3>2
  <2>t. Total' BY <2>9 DEF Total
  <2>a. solo' => Begun(r)' BY <2>8 DEF Begun
  <2>b. /\ doing'[r].what \in {"rename", "read", "match"}
        /\ \A s \in Requests : s # r => doing'[s] = doing[s]
    BY <2>1, <2>3 DEF SessionInv
  <2>e. UNCHANGED <<rows, locker, draft, held>> BY <2>1
  <2> QED BY <1>1, <2>2, <2>10, <2>a, <2>b, <2>e, <2>t
<1> QED BY <1>2, <1>3, <1>4

LEMMA NextRename ==
  ASSUME SessionInv, RenamesInv, NEW r \in Requests, Lookup(r)
  PROVE  RenamesInv'
PROOF
<1> DEFINE F == Flushed(r)
           H == Looked(r, Head(left[r]).label, Head(left[r]).name, F)
           T == Tail(left[r])
<1>1. /\ Renaming(r) /\ left[r] # <<>> /\ locker' = Locked(r)
      /\ draft' = (IF r \in Locked(r) THEN F ELSE draft)
      /\ held' = [held EXCEPT ![r] = H] /\ left' = [left EXCEPT ![r] = T]
      /\ UNCHANGED <<rows, doing, wanted, solo>>
  BY DEF Lookup
<1>2. doing[r].what \in {"rename", "match"} BY <1>1 DEF SessionInv, Quiet
<1>3. F \in Seq(HonestRow) BY FlushedIs
<1>4. View(r)' = F
  <2>1. CASE r \in Locked(r) BY <1>1, <2>1 DEF View
  <2>2. CASE r \notin Locked(r)
    <3>1. ~MustSend(r) /\ r \notin locker BY <2>2 DEF Locked
    <3> QED BY <1>1, <2>2, <3>1 DEF View, Flushed
  <2> QED BY <2>1, <2>2
<1>5. held'[r] = H /\ left'[r] = T BY <1>1 DEF SessionInv
<1>6. solo => \A l \in Labels : Due(r, l, left[r], <<>>, F)
  <2>1. solo => OnTrack(r) BY <1>1 DEF RenamesInv
  <2> QED BY <2>1, FlushTrack
<1> HIDE DEF F
<1>7. /\ \A c \in Elements(H) : Fits(r, c, F)
      /\ solo => \A l \in Labels : Due(r, l, T, H, F)
  BY <1>1, <1>2, <1>3, <1>6, LookupTrack
<1> HIDE DEF H, T
<1>8. At(r, "rename")' <=> At(r, "rename") BY <1>1 DEF At
<1>9. ASSUME solo PROVE OnTrack(r)'
  <2>1. \A c \in Elements(held[r])' : Fits(r, c, View(r))'
    <3>1. Elements(held[r])' = Elements(H) BY <1>5 DEF Elements
    <3> QED BY <1>4, <1>7, <1>8, <3>1 DEF Fits, RowsOf
  <2>2. ASSUME NEW l \in Labels PROVE Due(r, l, left[r], held[r], View(r))'
    <3>1. Elements(held[r])' = Elements(H) /\ Elements(left[r])' = Elements(T)
      BY <1>5 DEF Elements
    <3>2. \A n : RowsOf(n, View(r))' = RowsOf(n, F) /\ NamesOf(n, View(r))' = NamesOf(n, F)
      BY <1>4 DEF RowsOf, NamesOf
    <3>3. \A n : AtMostOne(n, View(r))' <=> AtMostOne(n, F) BY <3>2 DEF AtMostOne
    <3>4. Settled(l, View(r))' <=> Settled(l, F) BY <1>1, <3>2, <3>3 DEF Settled
    <3>5. \A e : Coming(r, e, View(r))' <=> Coming(r, e, F)
      <4> TAKE e
      <4>1. RowsOf(e.label, View(r))' = RowsOf(e.label, F) BY <3>2
      <4>2. AtMostOne(e.label, View(r))' <=> AtMostOne(e.label, F) BY <3>3
      <4> QED BY <1>1, <1>8, <4>1, <4>2 DEF Coming
    <3>6. Due(r, l, T, H, F) BY <1>7, <1>9
    <3> QED BY <1>1, <3>1, <3>3, <3>4, <3>5, <3>6 DEF Due
  <2> QED BY <2>1, <2>2 DEF OnTrack
<1>10. \A s \in Requests : /\ Renaming(s)' <=> Renaming(s)
                           /\ OthersIdle(s)' <=> OthersIdle(s)
  BY <1>1 DEF Renaming, OthersIdle
<1>11. solo => OthersIdle(r) BY <1>1 DEF RenamesInv
<1>12. solo => \A s \in Requests : Renaming(s) => s = r BY <1>11 DEF OthersIdle
<1>13. wanted' = [l \in Labels |-> wanted'[l]] BY <1>1 DEF RenamesInv
<1>14. ~(\A s \in Requests : ~Renaming(s)') BY <1>1, <1>10
<1>15. solo' => \A s \in Requests : Renaming(s)' => OthersIdle(s)' /\ OnTrack(s)'
  BY <1>1, <1>9, <1>10, <1>11, <1>12
<1> QED BY <1>13, <1>14, <1>15 DEF RenamesInv

LEMMA CommitTrack ==
  ASSUME SessionInv, RenamesInv, NEW r \in Requests, Commit(r)
  PROVE  RenamesInv'
PROOF
<1> DEFINE T == IF r \in Locked(r) THEN Flushed(r) ELSE rows
<1>1. doing[r].what \in {"rename", "match"} /\ left[r] = <<>> /\ End(r, T, TRUE) BY DEF Commit
<1>2. Renaming(r) BY <1>1 DEF Renaming
<1>3. T = Flushed(r)
  <2>1. CASE r \in Locked(r) BY <2>1
  <2>2. CASE r \notin Locked(r)
    <3>1. ~MustSend(r) /\ r \notin locker BY <2>2 DEF Locked
    <3> QED BY <2>2, <3>1 DEF View, Flushed
  <2> QED BY <2>1, <2>2
<1> HIDE DEF T
<1>4. ASSUME solo, NEW l \in Labels PROVE Settled(l, T)
  <2>1. OnTrack(r) BY <1>2, <1>4 DEF RenamesInv
  <2>2. Due(r, l, <<>>, <<>>, T) BY <1>1, <1>3, <2>1, FlushTrack
  <2>3. Elements(<<>>) = {} BY DEF Elements
  <2> QED BY <2>2, <2>3 DEF Due
<1>5. doing \in [Requests -> Doings] BY DEF SessionInv
<1> QED BY <1>1, <1>2, <1>4, <1>5, EndTrack

LEMMA RenamesStep ==
  SessionInv /\ KnownInv /\ RenamesInv /\ [SpeakersNext]_speakerVars => RenamesInv'
PROOF
<1> SUFFICES ASSUME SessionInv, KnownInv, RenamesInv, [SpeakersNext]_speakerVars
             PROVE  RenamesInv'
  OBVIOUS
<1>d. doing \in [Requests -> Doings] BY DEF SessionInv
<1>1. ASSUME UNCHANGED <<rows, locker, draft, left, held, wanted, solo, doing>> PROVE RenamesInv'
  <2>1. \A s \in Requests : Renaming(s)' = Renaming(s) /\ At(s, "rename")' = At(s, "rename")
    BY <1>1 DEF Renaming, At
  <2> QED BY <1>1, <2>1, Elsewhere
<1>2. CASE UNCHANGED speakerVars BY <1>1, <1>2 DEF speakerVars, tableVars, sessionVars
<1>3. ASSUME NEW r \in Requests, Renames(r) PROVE RenamesInv'
  <2>1. CASE (\E body \in Bodies : RenameRequest(r, body)) \/ MatchRequest(r) \/ ReadKnown(r)
    BY <2>1, BeginTrack
  <2>2. CASE MatchRaises(r) \/ TwoRows(r) \/ LockTimeout(r)
    <3>1. End(r, rows, FALSE) /\ Renaming(r)
      BY <2>2 DEF MatchRaises, TwoRows, LockTimeout, At, Renaming
    <3> QED BY <1>d, <3>1, EndTrack
  <2>3. CASE Lookup(r) BY <2>3, NextRename
  <2>4. CASE Commit(r) BY <2>4, CommitTrack
  <2> QED BY <1>3, <2>1, <2>2, <2>3, <2>4 DEF Renames
<1>4. ASSUME NEW r \in Requests, Enrols(r) PROVE RenamesInv'
  <2>1. UNCHANGED <<rows, locker, draft, left, held, wanted, solo>>
    BY <1>4 DEF Enrols, EnrollRequest, ClipStored, Extract, tableVars
  <2>2. /\ doing[r].what \in {"idle", "store", "extract"}
        /\ doing'[r].what \in {"idle", "store", "extract"}
        /\ \A s \in Requests : s # r => doing'[s] = doing[s]
    <3>1. CASE \E c \in Recorded : EnrollRequest(r, c)
      <4>1. PICK c \in Recorded : EnrollRequest(r, c) BY <3>1
      <4> QED BY <1>d, <4>1 DEF EnrollRequest, At, Doing
    <3>2. CASE ClipStored(r)
      <4>1. doing' = [doing EXCEPT ![r] = Doing("extract", doing[r].clip)] /\ doing[r].what = "store"
        BY <3>2 DEF ClipStored, At
      <4> QED BY <1>d, <4>1 DEF Doing
    <3>3. CASE Extract(r) BY <1>d, <3>3 DEF Extract, At, Idling, Doing
    <3> QED BY <1>4, <3>1, <3>2, <3>3 DEF Enrols
  <2>3. \A s \in Requests : Renaming(s)' = Renaming(s) /\ At(s, "rename")' = At(s, "rename")
    <3> TAKE s \in Requests
    <3>1. CASE s = r BY <2>2, <3>1 DEF Renaming, At
    <3>2. CASE s # r BY <2>2, <3>2 DEF Renaming, At
    <3> QED BY <3>1, <3>2
  <2> QED BY <2>1, <2>3, Elsewhere
<1>5. ASSUME NEW g \in Introduced, EnrollFromJob(g) PROVE RenamesInv'
  BY <1>1, <1>5 DEF EnrollFromJob, tableVars, sessionVars
<1>6. ASSUME NEW i \in 1..MaxKnown, DeleteKnown(i) PROVE RenamesInv'
  BY <1>1, <1>6 DEF DeleteKnown, tableVars, sessionVars
<1> QED BY <1>2, <1>3, <1>4, <1>5, <1>6 DEF SpeakersNext

LEMMA SpeakersStart == SpeakersInit => SessionInv /\ KnownInv /\ RenamesInv
PROOF
<1> SUFFICES ASSUME SpeakersInit PROVE SessionInv /\ KnownInv /\ RenamesInv OBVIOUS
<1>1. rows \in Seq(HonestRow)
  <2>1. CASE rows = <<>> BY <2>1
  <2>2. CASE rows = [i \in DOMAIN Heard |-> Row(Heard[i], Heard[i])]
    <3>1. \A l \in Labels : Row(l, l) \in HonestRow
      BY DEF Row, HonestRow, Reason, SpeakerNames
    <3>2. Heard \in Seq(Labels) BY SpeakersAssumption
    <3>3. Len(Heard) \in Nat /\ DOMAIN Heard = 1..Len(Heard)
          /\ \A i \in 1..Len(Heard) : Heard[i] \in Labels
      BY <3>2
    <3>4. rows \in [1..Len(Heard) -> HonestRow] BY <2>2, <3>1, <3>3
    <3>5. \A f : \A n \in Nat : f \in [1..n -> HonestRow] => f \in Seq(HonestRow) BY IsASeq
    <3> QED BY <3>3, <3>4, <3>5
  <2> QED BY <2>1, <2>2 DEF SpeakersInit
<1>2. Idling \in Doings /\ Idling.what = "idle" BY DEF Idling, Doing, Doings, Whats
<1>3. /\ doing = [r \in Requests |-> Idling]
      /\ left = [r \in Requests |-> <<>>] /\ held = [r \in Requests |-> <<>>]
      /\ locker = {} /\ draft = <<>> /\ solo = TRUE
      /\ wanted = [l \in Labels |-> NamesOf(l, rows)]
  BY DEF SpeakersInit
<1>4. \A r \in Requests : doing[r].what = "idle" /\ left[r] = <<>> /\ held[r] = <<>>
  BY <1>2, <1>3
<1>5. doing \in [Requests -> Doings] BY <1>2, <1>3
<1>6. left \in [Requests -> Seq(HonestRow)] /\ held \in [Requests -> Seq(HonestChange)]
      /\ draft \in Seq(HonestRow) /\ \A r \in Requests : Len(held[r]) <= 1
  <2>1. <<>> \in Seq(HonestRow) /\ <<>> \in Seq(HonestChange) /\ Len(<<>>) = 0 /\ 0 <= 1
    BY ShortLists
  <2>2. left \in [Requests -> Seq(HonestRow)] BY <1>3, <2>1
  <2>3. held \in [Requests -> Seq(HonestChange)] BY <1>3, <2>1
  <2>4. \A r \in Requests : Len(held[r]) <= 1 BY <1>4, <2>1
  <2> QED BY <1>3, <2>1, <2>2, <2>3, <2>4
<1>7. SessionInv BY <1>1, <1>3, <1>4, <1>5, <1>6 DEF SessionInv
<1>8. KnownInv
  <2>1. OldKnown \in Seq(OldSpeaker) /\ Len(OldKnown) <= MaxKnown /\ MaxKnown \in Nat
    BY SpeakersAssumption DEF OldSpeaker
  <2>2. known \in Seq(OldSpeaker \cup Enrolled) /\ Len(known) <= MaxKnown
    <3>1. CASE known = <<>> BY <2>1, <3>1
    <3>2. CASE known = OldKnown
      <4>1. OldKnown \in Seq(OldSpeaker \cup Enrolled) BY <2>1
      <4> QED BY <2>1, <3>2, <4>1
    <3> QED BY <3>1, <3>2 DEF SpeakersInit
  <2>3. voiceOf \in VoiceMaps /\ DOMAIN clips = {c.path : c \in Recorded}
        /\ \A p \in DOMAIN clips : clips[p] = "torn" \/ clips[p] \in VoicesAt(p)
    BY DEF SpeakersInit
  <2> QED BY <1>4, <2>2, <2>3 DEF KnownInv
<1>9. RenamesInv
  <2>1. \A r \in Requests : ~Renaming(r) BY <1>4 DEF Renaming
  <2>2. \A l \in Labels : Settled(l, rows) BY <1>3 DEF Settled
  <2>3. wanted = [l \in Labels |-> wanted[l]] BY <1>3
  <2> QED BY <1>3, <2>1, <2>2, <2>3 DEF RenamesInv
<1> QED BY <1>7, <1>8, <1>9

\* What the invariants say in the words of the properties.
LEMMA HonestNames == SessionInv /\ RenamesInv => NamesAreHonest
PROOF
<1> SUFFICES ASSUME SessionInv, RenamesInv PROVE NamesAreHonest OBVIOUS
<1>1. rows \in Seq(HonestRow) BY DEF SessionInv
<1>2. Len(rows) \in Nat /\ DOMAIN rows = 1..Len(rows) /\ \A i \in DOMAIN rows : rows[i] \in HonestRow
  BY <1>1
<1>3. \A i \in DOMAIN rows : Reason(rows[i]) BY <1>2 DEF HonestRow
<1>4. ASSUME NEW l \in Labels, Cardinality(RowsOf(l, rows)) <= 1 PROVE AtMostOne(l, rows)
  <2>1. IsFiniteSet(RowsOf(l, rows))
    <3>1. IsFiniteSet(1..Len(rows)) BY <1>2, FS_Interval
    <3>2. RowsOf(l, rows) \subseteq 1..Len(rows) BY <1>2 DEF RowsOf
    <3> QED BY <3>1, <3>2, FS_Subset
  <2>2. ASSUME NEW i \in RowsOf(l, rows), NEW j \in RowsOf(l, rows), i # j PROVE FALSE
    <3>1. {i, j} \subseteq RowsOf(l, rows) OBVIOUS
    <3>2. Cardinality({i, j}) = 2
      <4>1. IsFiniteSet({i}) /\ Cardinality({i}) = 1 BY FS_Singleton
      <4>2. Cardinality({i} \cup {j}) = Cardinality({i}) + 1 BY <2>2, <4>1, FS_AddElement
      <4>3. {i} \cup {j} = {i, j} OBVIOUS
      <4> QED BY <4>1, <4>2, <4>3
    <3>3. Cardinality({i, j}) <= Cardinality(RowsOf(l, rows)) BY <2>1, <3>1, FS_Subset
    <3>4. Cardinality(RowsOf(l, rows)) \in Nat BY <2>1, FS_CardinalityType
    <3> QED BY <1>4, <3>2, <3>3, <3>4
  <2> QED BY <2>2 DEF AtMostOne
<1> QED BY <1>3, <1>4 DEF NamesAreHonest, RenamesInv, Settled

LEMMA SessionsAreTyped == SessionInv /\ KnownInv => SpeakersTypeOK
PROOF
<1> SUFFICES ASSUME SessionInv, KnownInv PROVE SpeakersTypeOK OBVIOUS
<1>1. \A i \in DOMAIN rows : rows[i].label \in Labels
  <2>1. \A i \in DOMAIN rows : rows[i] \in HonestRow BY DEF SessionInv
  <2> QED BY <2>1 DEF HonestRow
<1>2. Cardinality(locker) <= 1
  <2>1. CASE locker = {} BY <2>1, FS_EmptySet
  <2>2. CASE locker # {}
    <3>1. PICK r \in locker : TRUE BY <2>2
    <3>2. locker = {r} BY <3>1 DEF SessionInv
    <3>3. Cardinality({r}) = 1 BY FS_Singleton
    <3> QED BY <3>2, <3>3
  <2> QED BY <2>1, <2>2
<1>3. \A r \in locker : Renaming(r) BY DEF SessionInv, Quiet, Renaming
<1>4. locker \subseteq Requests /\ (locker = {} => draft = <<>>)
      /\ \A r \in Requests : Len(held[r]) <= 1
  BY DEF SessionInv
<1>5. Len(known) <= MaxKnown BY DEF KnownInv
<1> QED BY <1>1, <1>2, <1>3, <1>4, <1>5 DEF SpeakersTypeOK

LEMMA SpeakersHold == SpeakersSpec => [](SessionInv /\ KnownInv /\ RenamesInv)
PROOF
<1> DEFINE Inv == SessionInv /\ KnownInv /\ RenamesInv
<1>1. Inv /\ [SpeakersNext]_speakerVars => Inv' BY SessionStep, KnownStep, RenamesStep
<1> QED BY <1>1, SpeakersStart, PTL DEF SpeakersSpec

\* The sessions and the tables have their types, and one session at a time holds changes.
THEOREM SpeakersTypesHold == SpeakersSpec => []SpeakersTypeOK
PROOF
BY SpeakersHold, SessionsAreTyped, PTL

\* A name has its reason, and requests that do not overlap do what they say: a rename
\* is kept, and matching gives a voice the closest of the known.
THEOREM NamesHold == SpeakersSpec => []NamesAreHonest
PROOF
BY SpeakersHold, HonestNames, PTL
=============================================================================
