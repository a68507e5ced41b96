------------------------- MODULE SegmentEditorProofs -------------------------
(***************************************************************************)
(* Theorems about SegmentEditor: types, segments never overlap, a merge    *)
(* takes the neighbour and undoes a split, and no split or merge changes   *)
(* what the transcript says.                                               *)
(***************************************************************************)
EXTENDS SegmentEditorProps, FiniteSetTheorems, SequenceTheorems, WellFoundedInduction, TLAPS

\* A part of a text is a text.
LEMMA PartIsText ==
  ASSUME NEW text \in Seq(Chars), NEW m \in Nat \ {0}, NEW n \in Int, n <= Len(text)
  PROVE  SubSeq(text, m, n) \in Seq(Chars)
<1>1. \A i \in m..n : text[i] \in Chars
  <2>1. \A i \in m..n : i \in 1..Len(text)
    OBVIOUS
  <2> QED BY <2>1
<1> QED BY <1>1, SubSeqProperties

\* The number of characters a strip removes is a number.
LEMMA MarginIsNat ==
  ASSUME NEW text \in Seq(Chars), NEW margin \in SUBSET (1..Len(text))
  PROVE  Cardinality(margin) \in Nat
<1>1. IsFiniteSet(1..Len(text))
  BY FS_Interval
<1> QED BY <1>1, FS_Subset, FS_CardinalityType

\* Stripping a text gives a text.
LEMMA StripsAreTexts ==
  ASSUME NEW text \in Seq(Chars)
  PROVE  LStrip(text) \in Seq(Chars) /\ RStrip(text) \in Seq(Chars)
<1>1. LStrip(text) \in Seq(Chars)
  <2> DEFINE margin == {i \in 1..Len(text) : \A k \in 1..i : text[k] = Blank}
  <2>1. Cardinality(margin) \in Nat
    BY MarginIsNat
  <2>2. Cardinality(margin) + 1 \in Nat \ {0} /\ Len(text) \in Int /\ Len(text) <= Len(text)
    BY <2>1
  <2> HIDE DEF margin
  <2>3. SubSeq(text, Cardinality(margin) + 1, Len(text)) \in Seq(Chars)
    BY <2>2, PartIsText
  <2> QED BY <2>3 DEF LStrip, margin
<1>2. RStrip(text) \in Seq(Chars)
  <2> DEFINE margin == {i \in 1..Len(text) : \A k \in i..Len(text) : text[k] = Blank}
  <2>1. Cardinality(margin) \in Nat
    BY MarginIsNat
  <2>2. Len(text) - Cardinality(margin) \in Int /\ Len(text) - Cardinality(margin) <= Len(text)
    BY <2>1
  <2> HIDE DEF margin
  <2>3. SubSeq(text, 1, Len(text) - Cardinality(margin)) \in Seq(Chars)
    BY <2>2, PartIsText
  <2> QED BY <2>3 DEF RStrip, margin
<1> QED BY <1>1, <1>2

LEMMA StripIsText ==
  ASSUME NEW text \in Seq(Chars)
  PROVE  Strip(text) \in Seq(Chars)
BY StripsAreTexts DEF Strip

\* The halves of a split are segments with the times the code gives them.
LEMMA HalvesAreSegments ==
  ASSUME NEW seg \in Segment, NEW pos \in 1..Len(seg.text), NEW mid \in Nat
  PROVE  /\ Cut(seg, pos, mid) \in Segment /\ Rest(seg, pos, mid) \in Segment
         /\ Cut(seg, pos, mid).start = seg.start /\ Cut(seg, pos, mid).end = mid
         /\ Rest(seg, pos, mid).start = mid /\ Rest(seg, pos, mid).end = seg.end
<1>1. seg.text \in Seq(Chars) /\ Len(seg.text) \in Nat
  BY DEF Segment
<1>2. SubSeq(seg.text, 1, pos) \in Seq(Chars)
  BY <1>1, PartIsText
<1>3. SubSeq(seg.text, pos + 1, Len(seg.text)) \in Seq(Chars)
  <2>1. pos + 1 \in Nat \ {0} /\ Len(seg.text) \in Int /\ Len(seg.text) <= Len(seg.text)
    BY <1>1
  <2> QED BY <1>1, <2>1, PartIsText
<1>4. Strip(SubSeq(seg.text, 1, pos)) \in Seq(Chars)
      /\ Strip(SubSeq(seg.text, pos + 1, Len(seg.text))) \in Seq(Chars)
  BY <1>2, <1>3, StripIsText
<1> QED BY <1>4 DEF Segment, Cut, Rest

\* So is the segment two segments are joined to.
LEMMA JoinIsSegment ==
  ASSUME NEW seg \in Segment, NEW next \in Segment
  PROVE  /\ Join(seg, next) \in Segment
         /\ Join(seg, next).start = seg.start /\ Join(seg, next).end = next.end
<1>1. seg.text \in Seq(Chars) /\ next.text \in Seq(Chars) /\ <<Blank>> \in Seq(Chars)
  BY TextAssumption DEF Segment
<1>2. RStrip(seg.text) \in Seq(Chars) /\ LStrip(next.text) \in Seq(Chars)
  BY <1>1, StripsAreTexts
<1>3. RStrip(seg.text) \o <<Blank>> \o LStrip(next.text) \in Seq(Chars)
  BY <1>1, <1>2, ConcatProperties
<1> QED BY <1>3 DEF Segment, Join

-----------------------------------------------------------------------------
\* Induction over the natural numbers, for a set of numbers.
LEMMA Induction ==
  ASSUME NEW N \in SUBSET Nat, 0 \in N, \A n \in N : n + 1 \in N
  PROVE  \A n \in Nat : n \in N
<1> DEFINE R == {ss \in Nat \X Nat : ss[1] < ss[2]}
<1>1. IsWellFoundedOn(R, Nat)
  BY NatLessThanWellFounded DEF OpToRel
<1> HIDE DEF R
<1>2. SUFFICES ASSUME Nat \ N # {} PROVE FALSE
  OBVIOUS
<1>3. PICK x \in Nat \ N : \A y \in Nat \ N : ~(<<y, x>> \in R)
  BY <1>1, <1>2, WFMin
<1>4. x - 1 \in N
  <2>1. x # 0 /\ x - 1 \in Nat /\ x - 1 < x
    BY <1>3
  <2>2. <<x - 1, x>> \in R
    BY <2>1, <1>3 DEF R
  <2> QED BY <2>1, <2>2, <1>3
<1>5. (x - 1) + 1 = x
  BY <1>3
<1> QED BY <1>3, <1>4, <1>5

\* The texts of a sequence, one after the other: FlattenSeq is a recursive
\* function, so what it computes is settled by induction on the length.
Texts == Seq(Chars)

After(t, u) == t \o u
Unfolds(g, ss, n) == g = [i \in 1..n |-> IF i = 1 THEN ss[i] ELSE After(g[i - 1], ss[i])]

LEMMA UnfoldsAt ==
  ASSUME NEW n \in Nat, NEW ss, NEW g, Unfolds(g, ss, n), NEW i \in 1..n
  PROVE  g[i] = IF i = 1 THEN ss[i] ELSE After(g[i - 1], ss[i])
BY DEF Unfolds

LEMMA FlattenUnfolds ==
  ASSUME NEW ss \in Seq(Texts), ss # <<>>
  PROVE  \E g \in [1..Len(ss) -> Texts] :
           /\ g[1] = ss[1]
           /\ \A i \in 1..Len(ss) : i # 1 => g[i] = After(g[i - 1], ss[i])
           /\ FlattenSeq(ss) = g[Len(ss)]
<1> DEFINE L == Len(ss)
           N == {n \in Nat : n = 0 \/ n > L \/ \E g \in [1..n -> Texts] : Unfolds(g, ss, n)}
<1>1. L \in Nat /\ L # 0 /\ \A i \in 1..L : ss[i] \in Texts
  OBVIOUS
<1>2. N \in SUBSET Nat /\ 0 \in N
  OBVIOUS
<1>3. ASSUME NEW n \in N PROVE n + 1 \in N
  <2>1. n \in Nat /\ n + 1 \in Nat
    BY <1>3
  <2>2. CASE n = 0
    <3> DEFINE g == [i \in 1..1 |-> ss[1]]
    <3>1. g \in [1..(n + 1) -> Texts]
      BY <1>1, <2>2
    <3>2. Unfolds(g, ss, n + 1)
      BY <2>2 DEF Unfolds
    <3> QED BY <2>1, <3>1, <3>2
  <2>3. CASE n # 0 /\ n + 1 <= L
    <3>1. PICK g \in [1..n -> Texts] : Unfolds(g, ss, n)
      BY <1>1, <1>3, <2>1, <2>3
    <3> DEFINE h == [i \in 1..(n + 1) |-> IF i <= n THEN g[i] ELSE After(g[n], ss[n + 1])]
    <3>2. g[n] \in Texts /\ ss[n + 1] \in Texts
      BY <1>1, <2>1, <2>3
    <3>3. After(g[n], ss[n + 1]) \in Texts
      BY <3>2, ConcatProperties DEF Texts, After
    <3>4. h \in [1..(n + 1) -> Texts]
      BY <3>3, <2>1
    <3>5. \A i \in 1..(n + 1) : h[i] = IF i = 1 THEN ss[i] ELSE After(h[i - 1], ss[i])
      <4> TAKE i \in 1..(n + 1)
      <4>1. CASE i <= n
        <5>1. h[i] = g[i] /\ g[i] = IF i = 1 THEN ss[i] ELSE After(g[i - 1], ss[i])
          <6>1. i \in 1..n
            BY <4>1, <2>1
          <6>2. g[i] = IF i = 1 THEN ss[i] ELSE After(g[i - 1], ss[i])
            BY <6>1, <3>1 DEF Unfolds
          <6>3. h[i] = g[i]
            BY <4>1
          <6> QED BY <6>2, <6>3
        <5>2. i # 1 => i - 1 \in 1..(n + 1) /\ i - 1 <= n
          BY <4>1, <2>1
        <5>3. i # 1 => h[i - 1] = g[i - 1]
          BY <5>2
        <5> QED BY <5>1, <5>3
      <4>2. CASE i = n + 1
        <5>1. i # 1 /\ i - 1 = n /\ n \in 1..(n + 1)
          BY <4>2, <2>1, <2>3
        <5>2. h[i] = After(g[n], ss[n + 1]) /\ h[n] = g[n]
          BY <4>2, <5>1, <2>1
        <5> QED BY <5>1, <5>2, <4>2
      <4> QED BY <4>1, <4>2, <2>1
    <3>6. Unfolds(h, ss, n + 1)
      BY <3>4, <3>5 DEF Unfolds
    <3> QED BY <2>1, <3>4, <3>6
  <2>4. CASE n + 1 > L
    BY <2>1, <2>4
  <2> QED BY <2>1, <2>2, <2>3, <2>4, <1>1
<1>4. L \in N
  <2> HIDE DEF N
  <2> QED BY <1>1, <1>2, <1>3, Induction
<1>5. PICK g \in [1..L -> Texts] : Unfolds(g, ss, L)
  <2>1. L = 0 \/ L > L \/ \E g \in [1..L -> Texts] : Unfolds(g, ss, L)
    BY <1>4
  <2> QED BY <1>1, <2>1
<1> DEFINE f == CHOOSE h : Unfolds(h, ss, L)
<1>6. Unfolds(f, ss, L) /\ FlattenSeq(ss) = f[L]
  BY <1>1, <1>5 DEF FlattenSeq, Unfolds, After
<1>7. f = g
  <2> DEFINE E == {n \in Nat : n = 0 \/ n > L \/ f[n] = g[n]}
  <2> HIDE DEF f
  <2>1. E \in SUBSET Nat /\ 0 \in E
    OBVIOUS
  <2>2. ASSUME NEW n \in E PROVE n + 1 \in E
    <3>1. n \in Nat
      BY <2>2
    <3>2. CASE n + 1 > L
      BY <3>1, <3>2
    <3>3. CASE n + 1 <= L /\ n = 0
      <4>1. f[1] = ss[1] /\ g[1] = ss[1]
        BY <1>1, <1>5, <1>6, <3>3, UnfoldsAt
      <4> QED BY <4>1, <3>3
    <3>4. CASE n + 1 <= L /\ n # 0
      <4>1. n + 1 \in 1..L /\ n + 1 # 1 /\ (n + 1) - 1 = n /\ ~(n > L)
        BY <1>1, <3>1, <3>4
      <4>2. f[n] = g[n]
        BY <2>2, <3>4, <4>1
      <4>3. f[n + 1] = IF n + 1 = 1 THEN ss[n + 1] ELSE After(f[(n + 1) - 1], ss[n + 1])
        BY <1>1, <1>6, <4>1, UnfoldsAt
      <4>4. g[n + 1] = IF n + 1 = 1 THEN ss[n + 1] ELSE After(g[(n + 1) - 1], ss[n + 1])
        BY <1>1, <1>5, <4>1, UnfoldsAt
      <4>5. f[n + 1] = g[n + 1]
        BY <4>1, <4>2, <4>3, <4>4
      <4> QED BY <3>1, <4>5
    <3> QED BY <1>1, <3>1, <3>2, <3>3, <3>4
  <2>3. \A n \in Nat : n \in E
    <3> HIDE DEF E
    <3> QED BY <2>1, <2>2, Induction
  <2>4. \A n \in 1..L : f[n] = g[n]
    BY <1>1, <2>3
  <2> QED BY <1>5, <1>6, <2>4 DEF Unfolds
<1>8. g[1] = ss[1] /\ \A i \in 1..L : i # 1 => g[i] = After(g[i - 1], ss[i])
  <2>1. \A i \in 1..L : g[i] = IF i = 1 THEN ss[i] ELSE After(g[i - 1], ss[i])
    BY <1>1, <1>5, UnfoldsAt
  <2> QED BY <1>1, <2>1
<1> QED BY <1>5, <1>6, <1>7, <1>8
LEMMA TextsAssociate ==
  ASSUME NEW x \in Texts, NEW y \in Texts, NEW z \in Texts
  PROVE  (x \o y) \o z = x \o (y \o z)
<1>1. x \in Seq(Chars) /\ y \in Seq(Chars) /\ z \in Seq(Chars)
  BY DEF Texts
<1> QED BY <1>1, ConcatAssociative

LEMMA FlattenEmpty == FlattenSeq(<<>>) = <<>>
BY DEF FlattenSeq

LEMMA FlattenIsText ==
  ASSUME NEW ss \in Seq(Texts)
  PROVE  FlattenSeq(ss) \in Texts
<1>1. CASE ss = <<>>
  BY <1>1, FlattenEmpty, EmptySeq DEF Texts
<1>2. CASE ss # <<>>
  BY <1>2, FlattenUnfolds
<1> QED BY <1>1, <1>2

\* One more text at the end.
LEMMA FlattenAppend ==
  ASSUME NEW ss \in Seq(Texts), NEW t \in Texts
  PROVE  FlattenSeq(Append(ss, t)) = FlattenSeq(ss) \o t
<1> DEFINE tt == Append(ss, t)
           L == Len(ss)
<1>1. /\ tt \in Seq(Texts) /\ tt # <<>> /\ Len(tt) = L + 1 /\ L \in Nat
      /\ tt[L + 1] = t /\ \A i \in 1..L : tt[i] = ss[i]
  BY AppendProperties
<1>2. PICK h \in [1..(L + 1) -> Texts] :
        /\ h[1] = tt[1]
        /\ \A i \in 1..(L + 1) : i # 1 => h[i] = After(h[i - 1], tt[i])
        /\ FlattenSeq(tt) = h[L + 1]
  BY <1>1, FlattenUnfolds
<1> HIDE DEF tt
<1>3. CASE ss = <<>>
  <2>1. L = 0
    BY <1>3
  <2>2. h[L + 1] = tt[L + 1]
    BY <1>2, <2>1
  <2>3. FlattenSeq(tt) = t /\ FlattenSeq(ss) = <<>>
    BY <1>1, <1>2, <1>3, <2>2, FlattenEmpty
  <2>4. <<>> \o t = t
    BY ConcatEmptySeq DEF Texts
  <2> QED BY <2>3, <2>4 DEF tt
<1>4. CASE ss # <<>>
  <2>1. PICK g \in [1..L -> Texts] :
          /\ g[1] = ss[1]
          /\ \A i \in 1..L : i # 1 => g[i] = After(g[i - 1], ss[i])
          /\ FlattenSeq(ss) = g[L]
    BY <1>4, FlattenUnfolds
  <2>2. L # 0
    BY <1>4
  <2> DEFINE E == {n \in Nat : n = 0 \/ n > L \/ g[n] = h[n]}
  <2>3. E \in SUBSET Nat /\ 0 \in E
    OBVIOUS
  <2>4. ASSUME NEW n \in E PROVE n + 1 \in E
    <3>1. n \in Nat
      BY <2>4
    <3>2. CASE n + 1 > L
      BY <3>1, <3>2
    <3>3. CASE n + 1 <= L /\ n = 0
      <4>1. g[1] = h[1]
        BY <1>1, <1>2, <2>1, <2>2
      <4> QED BY <3>3, <4>1
    <3>4. CASE n + 1 <= L /\ n # 0
      <4>1. n + 1 \in 1..L /\ n + 1 \in 1..(L + 1) /\ n + 1 # 1 /\ (n + 1) - 1 = n /\ ~(n > L)
        BY <1>1, <3>1, <3>4
      <4>2. g[n] = h[n]
        BY <2>4, <3>4, <4>1
      <4>3. g[n + 1] = After(g[n], ss[n + 1]) /\ h[n + 1] = After(h[n], tt[n + 1])
        BY <1>2, <2>1, <4>1
      <4>4. tt[n + 1] = ss[n + 1]
        BY <1>1, <4>1
      <4>5. g[n + 1] = h[n + 1]
        BY <4>2, <4>3, <4>4
      <4> QED BY <3>1, <4>5
    <3> QED BY <1>1, <3>1, <3>2, <3>3, <3>4
  <2>5. \A n \in Nat : n \in E
    <3> HIDE DEF E
    <3> QED BY <2>3, <2>4, Induction
  <2>6. g[L] = h[L]
    <3>1. L \in E
      BY <1>1, <2>5
    <3> QED BY <1>1, <2>2, <3>1
  <2>7. h[L + 1] = After(h[L], tt[L + 1])
    <3>1. L + 1 \in 1..(L + 1) /\ L + 1 # 1 /\ (L + 1) - 1 = L
      BY <1>1, <2>2
    <3> QED BY <1>2, <3>1
  <2> QED BY <1>1, <1>2, <2>1, <2>6, <2>7 DEF After, tt
<1> QED BY <1>3, <1>4

\* Two sequences of texts.
LEMMA FlattenConcat ==
  ASSUME NEW ss \in Seq(Texts), NEW tt \in Seq(Texts)
  PROVE  FlattenSeq(ss \o tt) = FlattenSeq(ss) \o FlattenSeq(tt)
<1> DEFINE Fine(u) == FlattenSeq(ss \o u) = FlattenSeq(ss) \o FlattenSeq(u)
           N == {n \in Nat : \A u \in Seq(Texts) : Len(u) = n => Fine(u)}
<1>1. N \in SUBSET Nat
  OBVIOUS
<1>2. 0 \in N
  <2> SUFFICES ASSUME NEW u \in Seq(Texts), Len(u) = 0 PROVE Fine(u)
    OBVIOUS
  <2>1. u = <<>> /\ ss \o u = ss
    BY ConcatEmptySeq, EmptySeq
  <2>2. FlattenSeq(ss) \o <<>> = FlattenSeq(ss)
    BY FlattenIsText, ConcatEmptySeq DEF Texts
  <2> QED BY <2>1, <2>2, FlattenEmpty
<1>3. ASSUME NEW n \in N PROVE n + 1 \in N
  <2>1. n \in Nat /\ n + 1 \in Nat
    BY <1>3
  <2> SUFFICES ASSUME NEW u \in Seq(Texts), Len(u) = n + 1 PROVE Fine(u)
    BY <2>1
  <2>2. u # <<>>
    BY <2>1
  <2>3. PICK v \in Seq(Texts), t \in Texts : u = Append(v, t)
    BY <2>2, SequenceEmptyOrAppend
  <2>4. Len(v) = n
    <3>1. Len(u) = Len(v) + 1 /\ Len(v) \in Nat
      BY <2>3, AppendProperties
    <3> QED BY <2>1, <3>1
  <2>5. Fine(v)
    BY <1>3, <2>3, <2>4
  <2>6. ss \o v \in Seq(Texts)
    BY ConcatProperties
  <2>7. ss \o Append(v, t) = Append(ss \o v, t)
    <3>1. Append(v, t) = v \o <<t>> /\ Append(ss \o v, t) = (ss \o v) \o <<t>> /\ <<t>> \in Seq(Texts)
      BY <2>6, AppendIsConcat
    <3>2. ss \o (v \o <<t>>) = (ss \o v) \o <<t>>
      BY <3>1, ConcatAssociative
    <3> QED BY <3>1, <3>2
  <2>8. FlattenSeq(ss \o u) = FlattenSeq(ss \o v) \o t
    BY <2>3, <2>6, <2>7, FlattenAppend
  <2>9. FlattenSeq(u) = FlattenSeq(v) \o t
    BY <2>3, FlattenAppend
  <2>10. (FlattenSeq(ss) \o FlattenSeq(v)) \o t = FlattenSeq(ss) \o (FlattenSeq(v) \o t)
    <3>1. FlattenSeq(ss) \in Texts /\ FlattenSeq(v) \in Texts
      BY FlattenIsText
    <3> QED BY <2>3, <3>1, TextsAssociate
  <2> QED BY <2>5, <2>8, <2>9, <2>10
<1>4. Len(tt) \in N
  <2> HIDE DEF N
  <2>1. Len(tt) \in Nat
    OBVIOUS
  <2> QED BY <1>1, <1>2, <1>3, <2>1, Induction
<1> QED BY <1>4

\* Nothing but empty texts.
LEMMA FlattenNothing ==
  ASSUME NEW ss \in Seq(Texts), \A i \in 1..Len(ss) : ss[i] = <<>>
  PROVE  FlattenSeq(ss) = <<>>
<1> DEFINE Nothing(u) == (\A i \in 1..Len(u) : u[i] = <<>>) => FlattenSeq(u) = <<>>
           N == {n \in Nat : \A u \in Seq(Texts) : Len(u) = n => Nothing(u)}
<1>1. N \in SUBSET Nat
  OBVIOUS
<1>2. 0 \in N
  <2> SUFFICES ASSUME NEW u \in Seq(Texts), Len(u) = 0 PROVE Nothing(u)
    OBVIOUS
  <2>1. u = <<>>
    BY EmptySeq
  <2> QED BY <2>1, FlattenEmpty
<1>3. ASSUME NEW n \in N PROVE n + 1 \in N
  <2>1. n \in Nat /\ n + 1 \in Nat
    BY <1>3
  <2> SUFFICES ASSUME NEW u \in Seq(Texts), Len(u) = n + 1, \A i \in 1..Len(u) : u[i] = <<>>
               PROVE  FlattenSeq(u) = <<>>
    BY <2>1
  <2>2. u # <<>>
    BY <2>1
  <2>3. PICK v \in Seq(Texts), t \in Texts : u = Append(v, t)
    BY <2>2, SequenceEmptyOrAppend
  <2>4. /\ Len(u) = Len(v) + 1 /\ Len(v) \in Nat
        /\ u[Len(v) + 1] = t /\ \A i \in 1..Len(v) : u[i] = v[i]
    BY <2>3, AppendProperties
  <2>5. Len(v) = n /\ t = <<>> /\ \A i \in 1..Len(v) : v[i] = <<>>
    BY <2>1, <2>4
  <2>6. FlattenSeq(v) = <<>>
    BY <1>3, <2>3, <2>5
  <2>7. FlattenSeq(u) = <<>> \o <<>>
    BY <2>3, <2>5, <2>6, FlattenAppend
  <2>8. <<>> \o <<>> = <<>>
    BY EmptySeq, ConcatEmptySeq
  <2> QED BY <2>7, <2>8
<1>4. Len(ss) \in N
  <2> HIDE DEF N
  <2>1. Len(ss) \in Nat
    OBVIOUS
  <2> QED BY <1>1, <1>2, <1>3, <2>1, Induction
<1> QED BY <1>4

-----------------------------------------------------------------------------
\* What a text says, character by character.
Marks(t) == [i \in DOMAIN t |-> IF t[i] = Blank THEN <<>> ELSE <<t[i]>>]

LEMMA MarksAreTexts ==
  ASSUME NEW t \in Texts
  PROVE  /\ Marks(t) \in Seq(Texts) /\ Len(Marks(t)) = Len(t)
         /\ \A i \in 1..Len(t) : Marks(t)[i] = IF t[i] = Blank THEN <<>> ELSE <<t[i]>>
<1>1. Len(t) \in Nat /\ DOMAIN t = 1..Len(t) /\ \A i \in 1..Len(t) : t[i] \in Chars
  BY DEF Texts
<1>2. \A i \in 1..Len(t) : (IF t[i] = Blank THEN <<>> ELSE <<t[i]>>) \in Texts
  <2>1. \A c \in Chars : <<>> \in Texts /\ <<c>> \in Texts
    BY DEF Texts
  <2> QED BY <1>1, <2>1
<1>3. Marks(t) \in [1..Len(t) -> Texts]
  BY <1>1, <1>2 DEF Marks
<1> QED BY <1>1, <1>3 DEF Marks

LEMMA LettersIsText ==
  ASSUME NEW t \in Texts
  PROVE  Letters(t) \in Texts /\ Letters(t) = FlattenSeq(Marks(t))
BY MarksAreTexts, FlattenIsText DEF Letters, Marks

LEMMA LettersConcat ==
  ASSUME NEW t \in Texts, NEW u \in Texts
  PROVE  /\ t \o u \in Texts
         /\ Letters(t \o u) = Letters(t) \o Letters(u)
<1>1. /\ t \o u \in Texts /\ Len(t \o u) = Len(t) + Len(u)
      /\ \A i \in 1..(Len(t) + Len(u)) :
           (t \o u)[i] = IF i <= Len(t) THEN t[i] ELSE u[i - Len(t)]
  BY ConcatProperties DEF Texts
<1>2. Len(t) \in Nat /\ Len(u) \in Nat
  BY DEF Texts
<1> DEFINE M == Marks(t)
           K == Marks(u)
           W == Marks(t \o u)
<1>3. /\ M \in Seq(Texts) /\ Len(M) = Len(t)
      /\ \A i \in 1..Len(t) : M[i] = IF t[i] = Blank THEN <<>> ELSE <<t[i]>>
  BY MarksAreTexts
<1>4. /\ K \in Seq(Texts) /\ Len(K) = Len(u)
      /\ \A i \in 1..Len(u) : K[i] = IF u[i] = Blank THEN <<>> ELSE <<u[i]>>
  BY MarksAreTexts
<1>5. /\ W \in Seq(Texts) /\ Len(W) = Len(t) + Len(u)
      /\ \A i \in 1..(Len(t) + Len(u)) :
           W[i] = IF (t \o u)[i] = Blank THEN <<>> ELSE <<(t \o u)[i]>>
  BY <1>1, MarksAreTexts
<1> DEFINE MK == M \o K
<1> HIDE DEF M, K, W
<1>6. /\ MK \in Seq(Texts) /\ Len(MK) = Len(t) + Len(u)
      /\ \A i \in 1..(Len(t) + Len(u)) : MK[i] = IF i <= Len(t) THEN M[i] ELSE K[i - Len(t)]
  <2>1. M \in Seq(Texts) /\ K \in Seq(Texts)
    BY <1>3, <1>4
  <2>2. /\ MK \in Seq(Texts) /\ Len(MK) = Len(M) + Len(K)
        /\ \A i \in 1..(Len(M) + Len(K)) : MK[i] = IF i <= Len(M) THEN M[i] ELSE K[i - Len(M)]
    BY <2>1, ConcatProperties
  <2>3. Len(M) = Len(t) /\ Len(K) = Len(u)
    BY <1>3, <1>4
  <2> HIDE DEF MK
  <2> QED BY <2>2, <2>3
<1> HIDE DEF MK
<1>7. \A i \in 1..(Len(t) + Len(u)) : W[i] = MK[i]
  <2> TAKE i \in 1..(Len(t) + Len(u))
  <2>1. CASE i <= Len(t)
    <3>1. i \in 1..Len(t)
      BY <1>2, <2>1
    <3> QED BY <2>1, <3>1, <1>1, <1>3, <1>5, <1>6
  <2>2. CASE ~(i <= Len(t))
    <3>1. i - Len(t) \in 1..Len(u)
      BY <1>2, <2>2
    <3> QED BY <2>2, <3>1, <1>1, <1>4, <1>5, <1>6
  <2> QED BY <2>1, <2>2
<1>8. W = MK
  <2>1. Len(W) = Len(MK) /\ \A i \in 1..Len(W) : W[i] = MK[i]
    BY <1>5, <1>6, <1>7
  <2> QED BY <1>5, <1>6, <2>1, SeqEqual
<1>9. FlattenSeq(W) = FlattenSeq(M) \o FlattenSeq(K)
  BY <1>3, <1>4, <1>8, FlattenConcat DEF MK
<1> QED BY <1>1, <1>9, LettersIsText DEF M, K, W

LEMMA BlanksSayNothing ==
  ASSUME NEW t \in Texts, \A i \in 1..Len(t) : t[i] = Blank
  PROVE  Letters(t) = <<>>
<1>1. Marks(t) \in Seq(Texts) /\ \A i \in 1..Len(Marks(t)) : Marks(t)[i] = <<>>
  BY MarksAreTexts
<1> QED BY <1>1, FlattenNothing, LettersIsText

\* A text is its part up to a place and the rest.
LEMMA PartsMakeText ==
  ASSUME NEW t \in Texts, NEW k \in 0..Len(t)
  PROVE  /\ SubSeq(t, 1, k) \in Texts /\ SubSeq(t, k + 1, Len(t)) \in Texts
         /\ t = SubSeq(t, 1, k) \o SubSeq(t, k + 1, Len(t))
         /\ Len(SubSeq(t, 1, k)) = k /\ Len(SubSeq(t, k + 1, Len(t))) = Len(t) - k
         /\ \A i \in 1..k : SubSeq(t, 1, k)[i] = t[i]
         /\ \A i \in 1..(Len(t) - k) : SubSeq(t, k + 1, Len(t))[i] = t[k + i]
<1>1. t \in Seq(Chars) /\ Len(t) \in Nat /\ k \in Int /\ k + 1 \in Int /\ Len(t) \in Int
      /\ 1 \in Int
  BY DEF Texts
<1>2. (\A i \in 1..k : t[i] \in Chars) /\ (\A i \in (k + 1)..Len(t) : t[i] \in Chars)
  BY <1>1
<1>3. /\ SubSeq(t, 1, k) \in Seq(Chars)
      /\ Len(SubSeq(t, 1, k)) = IF 1 <= k THEN k - 1 + 1 ELSE 0
      /\ \A i \in 1..(k - 1 + 1) : SubSeq(t, 1, k)[i] = t[1 + i - 1]
  BY <1>1, <1>2, SubSeqProperties
<1>4. /\ SubSeq(t, k + 1, Len(t)) \in Seq(Chars)
      /\ Len(SubSeq(t, k + 1, Len(t))) = IF k + 1 <= Len(t) THEN Len(t) - (k + 1) + 1 ELSE 0
      /\ \A i \in 1..(Len(t) - (k + 1) + 1) : SubSeq(t, k + 1, Len(t))[i] = t[(k + 1) + i - 1]
  BY <1>1, <1>2, SubSeqProperties
<1>5. SubSeq(t, 1, k) \o SubSeq(t, k + 1, Len(t)) = SubSeq(t, 1, Len(t))
  <2>1. 1 \in 1..(Len(t) + 1) /\ k \in (1 - 1)..Len(t) /\ Len(t) \in k..Len(t)
    BY <1>1
  <2> QED BY <1>1, <2>1, ConcatAdjacentSubSeq
<1>6. SubSeq(t, 1, Len(t)) = t
  BY <1>1, SubSeqFull
<1>7. Len(SubSeq(t, 1, k)) = k /\ Len(SubSeq(t, k + 1, Len(t))) = Len(t) - k
  BY <1>1, <1>3, <1>4
<1>8. \A i \in 1..k : SubSeq(t, 1, k)[i] = t[i]
  <2> TAKE i \in 1..k
  <2>1. i \in 1..(k - 1 + 1) /\ 1 + i - 1 = i
    BY <1>1
  <2> QED BY <1>3, <2>1
<1>9. \A i \in 1..(Len(t) - k) : SubSeq(t, k + 1, Len(t))[i] = t[k + i]
  <2> TAKE i \in 1..(Len(t) - k)
  <2>1. i \in 1..(Len(t) - (k + 1) + 1) /\ (k + 1) + i - 1 = k + i
    BY <1>1
  <2> QED BY <1>4, <2>1
<1> QED BY <1>3, <1>4, <1>5, <1>6, <1>7, <1>8, <1>9 DEF Texts

\* A set of places that holds every place before each of its own is an initial
\* part of the text, and its size says which.
LEMMA MarginIsPrefix ==
  ASSUME NEW n \in Nat, NEW I \in SUBSET (1..n), \A i \in I : \A k \in 1..i : k \in I
  PROVE  Cardinality(I) \in 0..n /\ I = 1..Cardinality(I)
<1> DEFINE R == {ss \in Nat \X Nat : ss[1] < ss[2]}
           Out == (1..(n + 1)) \ I
<1>1. IsWellFoundedOn(R, Nat)
  BY NatLessThanWellFounded DEF OpToRel
<1>2. Out \in SUBSET Nat /\ n + 1 \in Out
  OBVIOUS
<1>3. PICK x \in Out : \A y \in Out : ~(<<y, x>> \in R)
  <2> HIDE DEF R, Out
  <2> QED BY <1>1, <1>2, WFMin
<1>4. \A y \in Out : x <= y
  <2> TAKE y \in Out
  <2>1. x \in Nat /\ y \in Nat /\ ~(y < x)
    BY <1>2, <1>3
  <2> QED BY <2>1
<1>5. \A i \in I : i < x
  <2> TAKE i \in I
  <2>1. ~(x \in 1..i)
    BY <1>3
  <2> QED BY <1>3, <2>1
<1>6. I = 1..(x - 1)
  <2>1. \A i \in 1..(x - 1) : i \in I
    <3> TAKE i \in 1..(x - 1)
    <3>1. i \in 1..(n + 1) /\ ~(x <= i)
      BY <1>3
    <3> QED BY <1>4, <3>1
  <2>2. \A i \in I : i \in 1..(x - 1)
    BY <1>3, <1>5
  <2> QED BY <2>1, <2>2
<1>7. Cardinality(1..(x - 1)) = x - 1
  <2>1. 1 \in Int /\ x - 1 \in Int /\ (1 > x - 1 => x - 1 = 0)
    BY <1>3
  <2>2. Cardinality(1..(x - 1)) = IF 1 > x - 1 THEN 0 ELSE x - 1 - 1 + 1
    BY <2>1, FS_Interval
  <2> QED BY <2>1, <2>2
<1> QED BY <1>3, <1>6, <1>7

\* Likewise for the places at the end.
LEMMA MarginIsSuffix ==
  ASSUME NEW n \in Nat, NEW I \in SUBSET (1..n), \A i \in I : \A k \in i..n : k \in I
  PROVE  Cardinality(I) \in 0..n /\ I = (n - Cardinality(I) + 1)..n
<1> DEFINE R == {ss \in Nat \X Nat : ss[1] < ss[2]}
           In == I \cup {n + 1}
<1>1. IsWellFoundedOn(R, Nat)
  BY NatLessThanWellFounded DEF OpToRel
<1>2. In \in SUBSET Nat /\ n + 1 \in In
  OBVIOUS
<1>3. PICK x \in In : \A y \in In : ~(<<y, x>> \in R)
  <2> HIDE DEF R, In
  <2> QED BY <1>1, <1>2, WFMin
<1>4. \A y \in In : x <= y
  <2> TAKE y \in In
  <2>1. x \in Nat /\ y \in Nat /\ ~(y < x)
    BY <1>2, <1>3
  <2> QED BY <2>1
<1>5. x \in 1..(n + 1)
  OBVIOUS
<1>6. I = x..n
  <2>1. \A i \in I : i \in x..n
    BY <1>4, <1>5
  <2>2. \A i \in x..n : i \in I
    <3> TAKE i \in x..n
    <3>1. x \in I
      BY <1>3, <1>5
    <3> QED BY <3>1
  <2> QED BY <2>1, <2>2
<1>7. Cardinality(x..n) = n - x + 1
  <2>1. x \in Int /\ n \in Int /\ (x > n => n - x + 1 = 0)
    BY <1>5
  <2>2. Cardinality(x..n) = IF x > n THEN 0 ELSE n - x + 1
    BY <2>1, FS_Interval
  <2> QED BY <2>1, <2>2
<1> QED BY <1>5, <1>6, <1>7

\* Stripping a text loses nothing it says.
LEMMA StripsSayTheSame ==
  ASSUME NEW t \in Texts
  PROVE  /\ LStrip(t) \in Texts /\ Letters(LStrip(t)) = Letters(t)
         /\ RStrip(t) \in Texts /\ Letters(RStrip(t)) = Letters(t)
<1>0. Len(t) \in Nat
  BY DEF Texts
<1>1. LStrip(t) \in Texts /\ Letters(LStrip(t)) = Letters(t)
  <2> DEFINE margin == {i \in 1..Len(t) : \A k \in 1..i : t[k] = Blank}
             c == Cardinality(margin)
  <2>1. margin \in SUBSET (1..Len(t)) /\ \A i \in margin : \A k \in 1..i : k \in margin
    BY <1>0
  <2>2. \A i \in margin : t[i] = Blank
    OBVIOUS
  <2> HIDE DEF margin
  <2>3. c \in 0..Len(t) /\ margin = 1..c
    BY <1>0, <2>1, MarginIsPrefix
  <2> HIDE DEF c
  <2> DEFINE A == SubSeq(t, 1, c)
             B == SubSeq(t, c + 1, Len(t))
  <2>4. A \in Texts /\ B \in Texts /\ t = A \o B /\ Len(A) = c
        /\ \A i \in 1..c : A[i] = t[i]
    BY <2>3, PartsMakeText
  <2> HIDE DEF A, B
  <2>5. Letters(A) = <<>>
    BY <2>2, <2>3, <2>4, BlanksSayNothing
  <2>6. Letters(t) = <<>> \o Letters(B)
    BY <2>4, <2>5, LettersConcat
  <2>7. Letters(B) \in Seq(Chars)
    BY <2>4, LettersIsText DEF Texts
  <2>8. Letters(t) = Letters(B)
    BY <2>6, <2>7, ConcatEmptySeq
  <2>9. LStrip(t) = B
    BY DEF LStrip, B, c, margin
  <2> QED BY <2>4, <2>8, <2>9
<1>2. RStrip(t) \in Texts /\ Letters(RStrip(t)) = Letters(t)
  <2> DEFINE margin == {i \in 1..Len(t) : \A k \in i..Len(t) : t[k] = Blank}
             c == Len(t) - Cardinality(margin)
  <2>1. margin \in SUBSET (1..Len(t)) /\ \A i \in margin : \A k \in i..Len(t) : k \in margin
    BY <1>0
  <2>2. \A i \in margin : t[i] = Blank
    BY <1>0
  <2> HIDE DEF margin
  <2>3. Cardinality(margin) \in 0..Len(t) /\ margin = (Len(t) - Cardinality(margin) + 1)..Len(t)
    BY <1>0, <2>1, MarginIsSuffix
  <2>30. c \in 0..Len(t) /\ margin = (c + 1)..Len(t)
    BY <1>0, <2>3
  <2> HIDE DEF c
  <2> DEFINE A == SubSeq(t, 1, c)
             B == SubSeq(t, c + 1, Len(t))
  <2>4. A \in Texts /\ B \in Texts /\ t = A \o B /\ Len(B) = Len(t) - c
        /\ \A i \in 1..(Len(t) - c) : B[i] = t[c + i]
    BY <2>30, PartsMakeText
  <2> HIDE DEF A, B
  <2>5. \A i \in 1..Len(B) : B[i] = Blank
    <3> TAKE i \in 1..Len(B)
    <3>1. i \in 1..(Len(t) - c) /\ c + i \in (c + 1)..Len(t)
      BY <1>0, <2>4, <2>30
    <3> QED BY <2>2, <2>30, <2>4, <3>1
  <2>50. Letters(B) = <<>>
    BY <2>4, <2>5, BlanksSayNothing
  <2>6. Letters(t) = Letters(A) \o <<>>
    <3>1. Letters(A \o B) = Letters(A) \o Letters(B)
      BY <2>4, LettersConcat
    <3> QED BY <2>4, <2>50, <3>1
  <2>7. Letters(A) \in Seq(Chars)
    BY <2>4, LettersIsText DEF Texts
  <2>8. Letters(t) = Letters(A)
    BY <2>6, <2>7, ConcatEmptySeq
  <2>9. RStrip(t) = A
    BY DEF RStrip, A, c, margin
  <2> QED BY <2>4, <2>8, <2>9
<1> QED BY <1>1, <1>2

-----------------------------------------------------------------------------
\* The halves of a split say what the segment said, and a joined segment says
\* what its two parts said.
LEMMA HalvesSayTheSame ==
  ASSUME NEW seg \in Segment, NEW pos \in 1..Len(seg.text), NEW mid \in Nat
  PROVE  Letters(seg.text) = Letters(Cut(seg, pos, mid).text) \o Letters(Rest(seg, pos, mid).text)
<1> DEFINE t == seg.text
           A == SubSeq(t, 1, pos)
           B == SubSeq(t, pos + 1, Len(t))
<1>1. t \in Texts /\ Len(t) \in Nat
  BY DEF Segment, Texts
<1>2. pos \in 0..Len(t)
  BY <1>1
<1> HIDE DEF t
<1>3. A \in Texts /\ B \in Texts /\ t = A \o B
  BY <1>1, <1>2, PartsMakeText
<1> HIDE DEF A, B
<1>4. Letters(A \o B) = Letters(A) \o Letters(B)
  BY <1>3, LettersConcat
<1>5. Letters(Strip(A)) = Letters(A) /\ Letters(Strip(B)) = Letters(B)
  BY <1>3, StripsSayTheSame DEF Strip
<1>6. Cut(seg, pos, mid).text = Strip(A) /\ Rest(seg, pos, mid).text = Strip(B)
  BY DEF Cut, Rest, A, B, t
<1> QED BY <1>3, <1>4, <1>5, <1>6 DEF t

LEMMA JoinSaysTheSame ==
  ASSUME NEW seg \in Segment, NEW next \in Segment
  PROVE  Letters(Join(seg, next).text) = Letters(seg.text) \o Letters(next.text)
<1> DEFINE R == RStrip(seg.text)
           L == LStrip(next.text)
           B == <<Blank>>
<1>1. seg.text \in Texts /\ next.text \in Texts
  BY DEF Segment, Texts
<1>2. /\ R \in Texts /\ Letters(R) = Letters(seg.text)
      /\ L \in Texts /\ Letters(L) = Letters(next.text)
  BY <1>1, StripsSayTheSame
<1>3. B \in Texts /\ Len(B) = 1 /\ \A i \in 1..1 : B[i] = Blank
  BY TextAssumption DEF Texts
<1>4. Join(seg, next).text = R \o B \o L
  BY DEF Join
<1> HIDE DEF R, L, B
<1>5. Letters(B) = <<>>
  BY <1>3, BlanksSayNothing
<1>6. R \o B \in Texts /\ Letters(R \o B) = Letters(R) \o Letters(B)
  BY <1>2, <1>3, LettersConcat
<1>7. Letters(R \o B) = Letters(R)
  <2>1. Letters(R) \in Seq(Chars)
    BY <1>2, LettersIsText DEF Texts
  <2> QED BY <1>5, <1>6, <2>1, ConcatEmptySeq
<1>8. Letters((R \o B) \o L) = Letters(R \o B) \o Letters(L)
  BY <1>2, <1>6, LettersConcat
<1> QED BY <1>2, <1>4, <1>7, <1>8

-----------------------------------------------------------------------------
\* What a split and a merge make of any segments.
LEMMA SplitIntoParts ==
  ASSUME NEW S, S \in [DOMAIN S -> Segment], NEW s \in DOMAIN S, NEW new, new \notin DOMAIN S,
         NEW pos, NEW mid,
         Cut(S[s], pos, mid) \in Segment, Rest(S[s], pos, mid) \in Segment
  PROVE  SplitInto(S, s, pos, mid, new) \in [DOMAIN S \cup {new} -> Segment]
BY DEF SplitInto

LEMMA MergeWithParts ==
  ASSUME NEW S, S \in [DOMAIN S -> Segment], NEW s \in DOMAIN S, NEW next \in DOMAIN S, s # next
  PROVE  /\ MergeWith(S, s, next) \in [DOMAIN S \ {next} -> Segment]
         /\ MergeWith(S, s, next)[s] = Join(S[s], S[next])
         /\ \A r \in DOMAIN S \ {s, next} : MergeWith(S, s, next)[r] = S[r]
<1> DEFINE W == MergeWith(S, s, next)
<1>1. W = [r \in DOMAIN S \ {next} |-> IF r = s THEN Join(S[s], S[next]) ELSE S[r]]
  BY DEF MergeWith
<1> HIDE DEF W
<1>2. W[s] = Join(S[s], S[next]) /\ \A r \in DOMAIN S \ {s, next} : W[r] = S[r]
  BY <1>1
<1>3. Join(S[s], S[next]) \in Segment
  BY JoinIsSegment
<1>4. \A r \in DOMAIN S \ {next} : W[r] \in Segment
  BY <1>2, <1>3
<1>5. W \in [DOMAIN S \ {next} -> Segment]
  BY <1>1, <1>4
<1> QED BY <1>2, <1>5 DEF W

-----------------------------------------------------------------------------
\* The boundary of a split is a time, strictly inside a segment that lasts.
LEMMA MidsAreInside ==
  ASSUME TypeOK, NEW s \in DOMAIN segs, NEW mid \in Mids(segs, s)
  PROVE  /\ mid \in Nat
         /\ segs[s].start < segs[s].end => segs[s].start < mid /\ mid < segs[s].end
<1>1. segs[s].start \in Nat /\ segs[s].end \in Nat
  BY DEF TypeOK, Segment
<1> QED BY <1>1 DEF Mids

\* What a split leaves: the old segments, one of them shorter, and a new one.
LEMMA SplitSegments ==
  ASSUME TypeOK, NEW s \in DOMAIN segs, NEW pos \in 1..Len(segs[s].text),
         NEW mid \in Mids(segs, s), Split(s, pos, mid)
  PROVE  /\ segs' \in [DOMAIN segs \cup {born + 1} -> Segment]
         /\ born + 1 \notin DOMAIN segs
         /\ segs'[s] = Cut(segs[s], pos, mid) /\ segs'[born + 1] = Rest(segs[s], pos, mid)
         /\ segs'[s].start = segs[s].start /\ segs'[s].end = mid
         /\ segs'[born + 1].start = mid /\ segs'[born + 1].end = segs[s].end
         /\ \A r \in DOMAIN segs \ {s} : segs'[r] = segs[r]
<1>1. segs[s] \in Segment /\ mid \in Nat /\ born \in Nat /\ DOMAIN segs \subseteq 1..born
  BY BoundsAssumption, MidsAreInside DEF TypeOK
<1>2. born + 1 \notin DOMAIN segs
  BY <1>1
<1>3. segs' = SplitInto(segs, s, pos, mid, born + 1) /\ segs \in [DOMAIN segs -> Segment]
  BY DEF Split, TypeOK
<1>4. /\ segs' \in [DOMAIN segs \cup {born + 1} -> Segment]
      /\ segs'[s] = Cut(segs[s], pos, mid) /\ segs'[born + 1] = Rest(segs[s], pos, mid)
      /\ \A r \in DOMAIN segs \ {s} : segs'[r] = segs[r]
  <2> DEFINE new == born + 1
  <2>1. segs \in [DOMAIN segs -> Segment] /\ s \in DOMAIN segs /\ new \notin DOMAIN segs
        /\ Cut(segs[s], pos, mid) \in Segment /\ Rest(segs[s], pos, mid) \in Segment
    BY <1>1, <1>2, HalvesAreSegments, <1>3
  <2>2. segs' = SplitInto(segs, s, pos, mid, new)
    BY <1>3
  <2> HIDE DEF new
  <2>3. segs' \in [DOMAIN segs \cup {new} -> Segment]
    BY <2>1, <2>2, SplitIntoParts
  <2>4. segs' = [r \in DOMAIN segs \cup {new} |-> IF r = s THEN Cut(segs[s], pos, mid)
                                             ELSE IF r = new THEN Rest(segs[s], pos, mid)
                                             ELSE segs[r]]
    BY <2>2 DEF SplitInto
  <2>5. /\ segs'[s] = Cut(segs[s], pos, mid) /\ segs'[new] = Rest(segs[s], pos, mid)
        /\ \A r \in DOMAIN segs \ {s} : segs'[r] = segs[r]
    BY <2>1, <2>4
  <2> QED BY <2>3, <2>5 DEF new
<1> QED BY <1>1, <1>2, <1>4, HalvesAreSegments

\* What a merge leaves.
LEMMA MergeSegments ==
  ASSUME TypeOK, NEW s \in DOMAIN segs, NEW next \in NextOf(segs, s),
         segs' = MergeWith(segs, s, next)
  PROVE  /\ next \in DOMAIN segs /\ next # s
         /\ segs' \in [DOMAIN segs \ {next} -> Segment]
         /\ segs'[s] = Join(segs[s], segs[next])
         /\ segs'[s].start = segs[s].start /\ segs'[s].end = segs[next].end
         /\ \A r \in DOMAIN segs \ {s, next} : segs'[r] = segs[r]
<1>1. next \in DOMAIN segs /\ segs[next].start > segs[s].start
  BY DEF NextOf, Later
<1>2. segs[s] \in Segment /\ segs[next] \in Segment
      /\ segs[s].start \in Nat
  BY <1>1 DEF TypeOK, Segment
<1>3. next # s
  BY <1>1, <1>2
<1>4. segs \in [DOMAIN segs -> Segment]
  BY DEF TypeOK
<1>5. /\ segs' \in [DOMAIN segs \ {next} -> Segment]
      /\ segs'[s] = Join(segs[s], segs[next])
      /\ \A r \in DOMAIN segs \ {s, next} : segs'[r] = segs[r]
  <2>1. segs \in [DOMAIN segs -> Segment] /\ s \in DOMAIN segs /\ next \in DOMAIN segs /\ s # next
    BY <1>1, <1>3, <1>4
  <2>2. /\ MergeWith(segs, s, next) \in [DOMAIN segs \ {next} -> Segment]
        /\ MergeWith(segs, s, next)[s] = Join(segs[s], segs[next])
        /\ \A r \in DOMAIN segs \ {s, next} : MergeWith(segs, s, next)[r] = segs[r]
    BY <2>1, MergeWithParts
  <2> QED BY <2>2
<1> QED BY <1>1, <1>2, <1>3, <1>5, JoinIsSegment

-----------------------------------------------------------------------------
\* The seed of a hand transcription is a transcript, and what a job began with stays.
LEMMA SeedIsTranscript ==
  /\ HandSeed \in Seq(Segment) /\ Len(HandSeed) <= MaxBorn
  /\ \A i \in DOMAIN HandSeed : HandSeed[i].start <= Duration /\ HandSeed[i].end <= Duration
<1>1. Len(HandSeed) = 1 /\ DOMAIN HandSeed = {1}
      /\ HandSeed[1] = [start |-> 0, end |-> 0, text |-> <<>>]
  BY DEF HandSeed
<1>2. [start |-> 0, end |-> 0, text |-> <<>>] \in Segment
  <2>1. <<>> \in Seq(Chars)
    OBVIOUS
  <2> QED BY <2>1 DEF Segment
<1>3. HandSeed \in Seq(Segment)
  BY <1>2 DEF HandSeed
<1> QED BY <1>1, <1>3, BoundsAssumption

LEMMA OriginStays == [Next]_vars => asr' = asr
BY DEF Next, Edit, Split, Merge, vars

\* Types hold in every state of every transcript, for any bounds
\* (jobs.py:153-384).
THEOREM TypesHold == Spec => []TypeOK
<1>1. Init => TypeOK
  <2> SUFFICES ASSUME Init PROVE TypeOK
    OBVIOUS
  <2>1. PICK t \in Transcripts \cup {HandSeed} : Store(t)
    BY DEF Init
  <2>2. t \in Seq(Segment) /\ Len(t) <= MaxBorn
    BY TranscriptAssumption, SeedIsTranscript
  <2>3. Len(t) \in Nat /\ DOMAIN t = 1..Len(t) /\ t \in [1..Len(t) -> Segment]
    BY <2>2
  <2> QED BY <2>1, <2>2, <2>3, BoundsAssumption DEF Store, TypeOK
<1>2. TypeOK /\ [Next]_vars => TypeOK'
  <2> SUFFICES ASSUME TypeOK, [Next]_vars PROVE TypeOK'
    OBVIOUS
  <2>1. ASSUME NEW s \in DOMAIN segs, NEW text \in Typed, Edit(s, text) PROVE TypeOK'
    <3>1. text \in Seq(Chars) /\ segs[s].text \in Seq(Chars)
      BY <2>1, TextAssumption DEF TypeOK, Segment
    <3>2. edits \in Nat /\ edits' = edits + 1 /\ edits' \in 0..MaxEdits /\ born' = born
      BY <2>1, BoundsAssumption DEF TypeOK, Edit
    <3>3. [segs[s] EXCEPT !.text = text] \in Segment
      BY <3>1, <2>1 DEF TypeOK, Segment
    <3>4. DOMAIN segs' = DOMAIN segs /\ segs' \in [DOMAIN segs -> Segment]
      BY <2>1, <3>3 DEF TypeOK, Edit
    <3>5. versions' \subseteq [at : 1..edits', segment : DOMAIN segs,
                               before : Seq(Chars), after : Seq(Chars)]
      <4>1. [at |-> edits', segment |-> s, before |-> segs[s].text, after |-> text]
              \in [at : 1..edits', segment : DOMAIN segs,
                   before : Seq(Chars), after : Seq(Chars)]
        BY <2>1, <3>1, <3>2
      <4>2. versions \subseteq [at : 1..edits', segment : DOMAIN segs,
                                before : Seq(Chars), after : Seq(Chars)]
        BY <3>2 DEF TypeOK
      <4> QED BY <2>1, <4>1, <4>2 DEF Edit
    <3> QED BY <3>2, <3>4, <3>5, OriginStays DEF TypeOK
  <2>2. ASSUME NEW s \in DOMAIN segs, NEW pos \in 1..Len(segs[s].text),
               NEW mid \in Mids(segs, s), Split(s, pos, mid)
        PROVE  TypeOK'
    <3>1. segs' \in [DOMAIN segs \cup {born + 1} -> Segment]
      BY <2>2, SplitSegments
    <3>2. born \in Nat /\ born' = born + 1 /\ born' \in 0..MaxBorn
          /\ versions' = versions /\ edits' = edits
      BY <2>2, BoundsAssumption DEF TypeOK, Split
    <3>3. DOMAIN segs' = DOMAIN segs \cup {born + 1} /\ segs' \in [DOMAIN segs' -> Segment]
      BY <3>1
    <3>4. DOMAIN segs' \subseteq 1..born'
      BY <3>2, <3>3 DEF TypeOK
    <3>5. versions' \subseteq [at : 1..edits', segment : DOMAIN segs',
                               before : Seq(Chars), after : Seq(Chars)]
      BY <3>2, <3>3 DEF TypeOK
    <3> QED BY <3>2, <3>3, <3>4, <3>5, OriginStays DEF TypeOK
  <2>3. ASSUME NEW s \in DOMAIN segs, Merge(s) PROVE TypeOK'
    <3>1. PICK next \in NextOf(segs, s) :
            segs' = MergeWith(segs, s, next) /\ versions' = Cascade(next)
      BY <2>3 DEF Merge
    <3>2. segs' \in [DOMAIN segs \ {next} -> Segment]
      BY <3>1, MergeSegments
    <3>3. born' = born /\ edits' = edits
      BY <2>3 DEF Merge
    <3>4. DOMAIN segs' = DOMAIN segs \ {next} /\ segs' \in [DOMAIN segs' -> Segment]
      BY <3>2
    <3>5. versions' \subseteq [at : 1..edits', segment : DOMAIN segs',
                               before : Seq(Chars), after : Seq(Chars)]
      BY <3>1, <3>3, <3>4 DEF TypeOK, Cascade
    <3> QED BY <3>3, <3>4, <3>5, OriginStays DEF TypeOK
  <2>4. CASE UNCHANGED vars
    BY <2>4 DEF vars, TypeOK
  <2> QED BY <2>1, <2>2, <2>3, <2>4 DEF Next
<1> QED BY <1>1, <1>2, PTL DEF Spec

-----------------------------------------------------------------------------
\* Segments that were orderly at first never overlap, whatever is split and merged
\* and in whichever order (jobs.py:265-278, 334-354).  The next segment is the
\* first one that starts later, so no third one lies between the two joined.
THEOREM NeverOverlap == Spec => []NoOverlap
<1>1. Init => NoOverlap
  <2> SUFFICES ASSUME Init, Orderly(asr) PROVE Separate
    BY DEF NoOverlap
  <2>1. segs = asr /\ Len(asr) \in Nat /\ DOMAIN segs = 1..Len(asr)
    BY TranscriptAssumption, SeedIsTranscript DEF Init, Store
  <2>2. \A i \in DOMAIN segs : segs[i].start < segs[i].end
    BY <2>1 DEF Orderly
  <2>3. \A i, k \in DOMAIN segs : i < k => segs[i].end <= segs[k].start
    BY <2>1 DEF Orderly
  <2>4. \A i, k \in DOMAIN segs : i # k => i < k \/ k < i
    BY <2>1
  <2> QED BY <2>2, <2>3, <2>4 DEF Separate
<1>2. TypeOK /\ Separate /\ [Next]_vars => Separate'
  <2> SUFFICES ASSUME TypeOK, Separate, [Next]_vars PROVE Separate'
    OBVIOUS
  <2> DEFINE Apart(f, r, q) == f[r].end <= f[q].start \/ f[q].end <= f[r].start
  <2>0. \A r \in DOMAIN segs : segs[r].start \in Nat /\ segs[r].end \in Nat
    BY DEF TypeOK, Segment
  <2>1. ASSUME NEW s \in DOMAIN segs, NEW text \in Typed, Edit(s, text) PROVE Separate'
    <3>1. DOMAIN segs' = DOMAIN segs
          /\ \A r \in DOMAIN segs : segs'[r].start = segs[r].start /\ segs'[r].end = segs[r].end
      BY <2>1 DEF Edit, TypeOK, Segment
    <3> QED BY <3>1 DEF Separate
  <2>2. ASSUME NEW s \in DOMAIN segs, NEW pos \in 1..Len(segs[s].text),
               NEW mid \in Mids(segs, s), Split(s, pos, mid)
        PROVE  Separate'
    <3>1. /\ DOMAIN segs' = DOMAIN segs \cup {born + 1} /\ born + 1 \notin DOMAIN segs
          /\ segs'[s].start = segs[s].start /\ segs'[s].end = mid
          /\ segs'[born + 1].start = mid /\ segs'[born + 1].end = segs[s].end
          /\ \A r \in DOMAIN segs \ {s} : segs'[r] = segs[r]
      BY <2>2, SplitSegments
    <3>2. mid \in Nat /\ segs[s].start < mid /\ mid < segs[s].end
      BY MidsAreInside DEF Separate
    \* Both halves lie inside the segment they come from.
    <3>3. \A r \in DOMAIN segs \ {s} : Apart(segs', r, s) /\ Apart(segs', r, born + 1)
      BY <2>0, <3>1, <3>2 DEF Separate
    <3>4. Apart(segs', s, born + 1)
      BY <2>0, <3>1, <3>2
    <3>5. \A r, q \in DOMAIN segs \ {s} : r # q => Apart(segs', r, q)
      BY <3>1 DEF Separate
    <3>6. \A r \in DOMAIN segs' : segs'[r].start < segs'[r].end
      BY <3>1, <3>2 DEF Separate
    <3>7. \A r, q \in DOMAIN segs' : r # q => Apart(segs', r, q)
      BY <3>1, <3>3, <3>4, <3>5
    <3> QED BY <3>6, <3>7 DEF Separate
  <2>3. ASSUME NEW s \in DOMAIN segs, Merge(s) PROVE Separate'
    <3>1. PICK next \in NextOf(segs, s) : segs' = MergeWith(segs, s, next)
      BY <2>3 DEF Merge
    <3>2. /\ next \in DOMAIN segs /\ next # s
          /\ DOMAIN segs' = DOMAIN segs \ {next}
          /\ segs'[s].start = segs[s].start /\ segs'[s].end = segs[next].end
          /\ \A r \in DOMAIN segs \ {s, next} : segs'[r] = segs[r]
      BY <3>1, MergeSegments
    <3>3. /\ segs[s].start < segs[next].start
          /\ \A r \in DOMAIN segs : segs[r].start > segs[s].start
               => segs[next].start <= segs[r].start
      BY <2>0, <3>1, <3>2 DEF NextOf, Later
    \* A third segment starts after the second of the two, or ends before the first.
    <3>4. \A r \in DOMAIN segs \ {s, next} : Apart(segs', r, s)
      <4> TAKE r \in DOMAIN segs \ {s, next}
      <4>1. segs[r].start < segs[r].end /\ segs[next].start < segs[next].end
            /\ segs[s].start < segs[s].end
            /\ Apart(segs, r, s) /\ Apart(segs, r, next)
        BY <3>2 DEF Separate
      <4>2. segs'[r] = segs[r]
        BY <3>2
      <4> QED BY <2>0, <3>2, <3>3, <4>1, <4>2
    <3>5. \A r, q \in DOMAIN segs \ {s, next} : r # q => Apart(segs', r, q)
      BY <3>2 DEF Separate
    <3>6. \A r \in DOMAIN segs' : segs'[r].start < segs'[r].end
      <4>1. segs[next].start < segs[next].end
        BY <3>2 DEF Separate
      <4> QED BY <2>0, <3>2, <3>3, <4>1 DEF Separate
    <3>7. \A r, q \in DOMAIN segs' : r # q => Apart(segs', r, q)
      BY <3>2, <3>4, <3>5
    <3> QED BY <3>6, <3>7 DEF Separate
  <2>4. CASE UNCHANGED vars
    BY <2>4 DEF vars, Separate
  <2> QED BY <2>1, <2>2, <2>3, <2>4 DEF Next
<1>3. TypeOK /\ NoOverlap /\ [Next]_vars => NoOverlap'
  BY <1>2, OriginStays DEF NoOverlap
<1> QED BY <1>1, <1>3, TypesHold, PTL DEF Spec

-----------------------------------------------------------------------------
\* Where no two segments overlap, no two start at the same time, and "the first
\* that starts later" is "the next one shown".
LEMMA StartsDiffer ==
  ASSUME TypeOK, Separate, NEW r \in DOMAIN segs, NEW q \in DOMAIN segs, r # q
  PROVE  segs[r].start # segs[q].start
<1>1. segs[r].start \in Nat /\ segs[r].end \in Nat /\ segs[q].start \in Nat /\ segs[q].end \in Nat
  BY DEF TypeOK, Segment
<1>2. segs[r].start < segs[r].end /\ segs[q].start < segs[q].end
      /\ (segs[r].end <= segs[q].start \/ segs[q].end <= segs[r].start)
  BY DEF Separate
<1> QED BY <1>1, <1>2

LEMMA NextIsShownAfter ==
  ASSUME TypeOK, Separate
  PROVE  MergeFindsNeighbour
<1> SUFFICES ASSUME NEW s \in DOMAIN segs PROVE NextOf(segs, s) = ShownAfter(segs, s)
  BY DEF MergeFindsNeighbour
<1>1. \A r \in DOMAIN segs : segs[r].start \in Nat
  BY DEF TypeOK, Segment
<1>2. \A r, q \in DOMAIN segs : r # q => segs[r].start # segs[q].start
  BY StartsDiffer
<1>3. \A r, q \in DOMAIN segs : Before(segs, r, q) <=> segs[r].start < segs[q].start
  <2> TAKE r \in DOMAIN segs, q \in DOMAIN segs
  <2>1. CASE r = q
    <3>1. r \in Nat
      BY BoundsAssumption DEF TypeOK
    <3>2. ~(r < r)
      BY <3>1
    <3> QED BY <2>1, <3>2, <1>1 DEF Before
  <2>2. CASE r # q
    BY <1>2, <2>2 DEF Before
  <2> QED BY <2>1, <2>2
<1>4. Later(segs, s) = {r \in DOMAIN segs : segs[s].start < segs[r].start}
  BY <1>1 DEF Later
<1>5. ASSUME NEW q \in NextOf(segs, s) PROVE q \in ShownAfter(segs, s)
  <2>1. q \in DOMAIN segs /\ segs[s].start < segs[q].start
    BY <1>4, <1>5 DEF NextOf
  <2>2. \A r \in DOMAIN segs : segs[s].start < segs[r].start => ~(segs[r].start < segs[q].start)
    <3> SUFFICES ASSUME NEW r \in DOMAIN segs, segs[s].start < segs[r].start
                 PROVE  ~(segs[r].start < segs[q].start)
      OBVIOUS
    <3>1. segs[q].start < segs[r].start \/ segs[q].start = segs[r].start
      BY <1>4, <1>5 DEF NextOf
    <3> QED BY <1>1, <2>1, <3>1
  <2> QED BY <1>3, <2>1, <2>2 DEF ShownAfter
<1>6. ASSUME NEW q \in ShownAfter(segs, s) PROVE q \in NextOf(segs, s)
  <2>1. q \in DOMAIN segs /\ segs[s].start < segs[q].start
        /\ \A r \in DOMAIN segs : segs[s].start < segs[r].start => ~(segs[r].start < segs[q].start)
    BY <1>3, <1>6 DEF ShownAfter
  <2>2. q \in Nat
    BY <2>1, BoundsAssumption DEF TypeOK
  <2>3. \A r \in Later(segs, s) :
          segs[q].start < segs[r].start \/ (segs[q].start = segs[r].start /\ q <= r)
    <3> TAKE r \in Later(segs, s)
    <3>1. r \in DOMAIN segs /\ segs[s].start < segs[r].start
      BY <1>4
    <3>2. CASE r = q
      BY <2>2, <3>2
    <3>3. CASE r # q
      BY <1>1, <1>2, <2>1, <3>1, <3>3
    <3> QED BY <3>2, <3>3
  <2>4. q \in Later(segs, s)
    BY <1>4, <2>1
  <2> QED BY <2>3, <2>4 DEF NextOf
<1> QED BY <1>5, <1>6

\* If the recognised segments were orderly, merge joins a segment with the one shown
\* right after it, and refuses only the last one (jobs.py:334-351).
THEOREM MergesNeighbours == Spec => []MergeTakesNeighbour
<1>1. TypeOK /\ NoOverlap => MergeTakesNeighbour
  BY NextIsShownAfter DEF NoOverlap, MergeTakesNeighbour
<1> QED BY <1>1, TypesHold, NeverOverlap, PTL

\* A merge right after a split gives back the segment: nothing starts between
\* the halves, and neither the strips of the split nor those of the merge take
\* away more than white space (jobs.py:259-279, 353-356).
LEMMA SplitIsUndone ==
  ASSUME TypeOK, Separate
  PROVE  MergeUndoesSplit
<1> SUFFICES ASSUME NEW s \in DOMAIN segs, NEW pos \in 1..Len(segs[s].text),
                    NEW mid \in Mids(segs, s),
                    NEW next \in NextOf(SplitInto(segs, s, pos, mid, born + 1), s)
             PROVE  LET whole == MergeWith(SplitInto(segs, s, pos, mid, born + 1), s, next) IN
                    /\ DOMAIN whole = DOMAIN segs
                    /\ whole[s].start = segs[s].start /\ whole[s].end = segs[s].end
                    /\ Letters(whole[s].text) = Letters(segs[s].text)
  BY DEF MergeUndoesSplit
<1> DEFINE D == DOMAIN segs
           new == born + 1
           H == SplitInto(segs, s, pos, mid, new)
           W == MergeWith(H, s, next)
<1>1. /\ segs \in [D -> Segment] /\ born \in Nat /\ D \subseteq 1..born /\ new \notin D
      /\ segs[s] \in Segment
  BY BoundsAssumption DEF TypeOK
<1>2. mid \in Nat /\ segs[s].start < mid /\ mid < segs[s].end
  BY MidsAreInside DEF Separate
<1>3. /\ H \in [D \cup {new} -> Segment]
      /\ H[s] = Cut(segs[s], pos, mid) /\ H[new] = Rest(segs[s], pos, mid)
      /\ \A r \in D \ {s} : H[r] = segs[r]
  <2>1. segs \in [DOMAIN segs -> Segment] /\ s \in DOMAIN segs /\ new \notin DOMAIN segs
        /\ Cut(segs[s], pos, mid) \in Segment /\ Rest(segs[s], pos, mid) \in Segment
    BY <1>1, <1>2, HalvesAreSegments
  <2>2. H = [r \in DOMAIN segs \cup {new} |-> IF r = s THEN Cut(segs[s], pos, mid)
                                          ELSE IF r = new THEN Rest(segs[s], pos, mid)
                                          ELSE segs[r]]
    BY DEF SplitInto
  <2>3. H \in [DOMAIN segs \cup {new} -> Segment]
    <3> HIDE DEF new
    <3> QED BY <2>1, SplitIntoParts
  <2> HIDE DEF H, new
  <2> QED BY <2>1, <2>2, <2>3
<1>4. /\ H[s].start = segs[s].start /\ H[s].end = mid
      /\ H[new].start = mid /\ H[new].end = segs[s].end
  BY <1>1, <1>2, <1>3, HalvesAreSegments
<1>5. next \in NextOf(H, s)
  OBVIOUS
<1> HIDE DEF H
<1>6. next \in D \cup {new} /\ H[next].start > H[s].start
  BY <1>3, <1>5 DEF NextOf, Later
<1>7. next = new
  <2> SUFFICES ASSUME next # new PROVE FALSE
    OBVIOUS
  <2>1. segs[s].start \in Nat /\ segs[s].end \in Nat
    BY <1>1 DEF Segment
  <2>2. next \in D \ {s} /\ H[next] = segs[next]
    BY <1>3, <1>6, <1>4, <2>1
  <2>3. segs[next].start \in Nat /\ segs[next].end \in Nat
    BY <1>1, <2>2 DEF Segment
  <2>4. /\ segs[s].end <= segs[next].start \/ segs[next].end <= segs[s].start
        /\ segs[next].start < segs[next].end
    BY <2>2 DEF Separate
  <2>5. new \in Later(H, s)
    BY <1>2, <1>3, <1>4, <2>1 DEF Later
  <2>6. H[next].start < H[new].start \/ H[next].start = H[new].start
    BY <1>5, <2>5 DEF NextOf
  <2>7. segs[next].start > segs[s].start /\ segs[next].start <= mid
    BY <1>2, <1>4, <1>6, <2>2, <2>3, <2>6
  <2> QED BY <1>2, <2>1, <2>3, <2>4, <2>7
<1>8. s \in D \cup {new} /\ new \in D \cup {new} /\ s # new
  BY <1>1
<1>9. W \in [(D \cup {new}) \ {new} -> Segment] /\ W[s] = Join(H[s], H[new])
  <2>1. H \in [DOMAIN H -> Segment] /\ s \in DOMAIN H /\ new \in DOMAIN H /\ s # new
        /\ DOMAIN H = D \cup {new}
    BY <1>3, <1>8
  <2> HIDE DEF new
  <2>2. MergeWith(H, s, new) \in [DOMAIN H \ {new} -> Segment]
        /\ MergeWith(H, s, new)[s] = Join(H[s], H[new])
    BY <2>1, MergeWithParts
  <2> QED BY <1>7, <2>1, <2>2
<1>10. DOMAIN W = D
  BY <1>1, <1>9
<1>11. W[s].start = segs[s].start /\ W[s].end = segs[s].end
  BY <1>3, <1>4, <1>8, <1>9, JoinIsSegment
<1>12. Letters(W[s].text) = Letters(segs[s].text)
  <2>1. Letters(W[s].text) = Letters(H[s].text) \o Letters(H[new].text)
    BY <1>3, <1>8, <1>9, JoinSaysTheSame
  <2>2. Letters(segs[s].text)
          = Letters(Cut(segs[s], pos, mid).text) \o Letters(Rest(segs[s], pos, mid).text)
    BY <1>1, <1>2, HalvesSayTheSame
  <2> QED BY <1>3, <2>1, <2>2
<1> QED BY <1>10, <1>11, <1>12 DEF H

\* If the recognised segments were orderly, merging undoes any split, in every state.
THEOREM MergesUndoSplits == Spec => []MergeUndoesSplit
<1>1. TypeOK /\ NoOverlap => MergeUndoesSplit
  BY SplitIsUndone DEF NoOverlap, MergeUndoesSplit
<1> QED BY <1>1, TypesHold, NeverOverlap, PTL

-----------------------------------------------------------------------------
\* Places are in the order in which segments are shown.
LEMMA PlacesKeepOrder ==
  ASSUME NEW a \in Nat, NEW b \in Nat, NEW r \in 1..MaxBorn, NEW q \in 1..MaxBorn
  PROVE  /\ PlaceOf(a, r) \in Nat \ {0} /\ PlaceOf(b, q) \in Nat \ {0}
         /\ (a < b \/ (a = b /\ r < q)) <=> PlaceOf(a, r) < PlaceOf(b, q)
         /\ PlaceOf(a, r) = PlaceOf(b, q) => r = q
<1> DEFINE m == MaxBorn + 1
<1>1. m \in Nat /\ r < m /\ q < m /\ 0 < r /\ 0 < q /\ r \in Nat /\ q \in Nat
  BY BoundsAssumption
<1>2. PlaceOf(a, r) = a * m + r /\ PlaceOf(b, q) = b * m + q
  BY DEF PlaceOf
<1> HIDE DEF m
<1>3. a * m \in Nat /\ b * m \in Nat
  BY <1>1
<1>4. \A c, d \in Nat : c < d => c * m + m <= d * m
  <2> SUFFICES ASSUME NEW c \in Nat, NEW d \in Nat, c < d PROVE c * m + m <= d * m
    OBVIOUS
  <2>1. (c + 1) * m <= d * m
    BY <1>1
  <2>2. (c + 1) * m = c * m + m
    BY <1>1
  <2> QED BY <2>1, <2>2
<1>5. CASE a < b
  <2>1. a * m + m <= b * m
    BY <1>4, <1>5
  <2> QED BY <1>1, <1>2, <1>3, <1>5, <2>1
<1>6. CASE b < a
  <2>1. b * m + m <= a * m
    BY <1>4, <1>6
  <2> QED BY <1>1, <1>2, <1>3, <1>6, <2>1
<1>7. CASE a = b
  BY <1>1, <1>2, <1>3, <1>7
<1> QED BY <1>5, <1>6, <1>7

\* Segments some transcript may hold.
Numbered(S) == S \in [DOMAIN S -> Segment] /\ DOMAIN S \subseteq 1..MaxBorn

LEMMA PlacesAreTheirOwn ==
  ASSUME NEW S, Numbered(S), NEW r \in DOMAIN S, NEW q \in DOMAIN S
  PROVE  /\ Place(S, r) \in Nat \ {0}
         /\ Before(S, r, q) <=> Place(S, r) < Place(S, q)
         /\ Place(S, r) = Place(S, q) => r = q
<1>1. S[r] \in Segment /\ S[q] \in Segment /\ r \in 1..MaxBorn /\ q \in 1..MaxBorn
  BY DEF Numbered
<1>2. S[r].start \in Nat /\ S[q].start \in Nat
  BY <1>1 DEF Segment
<1> QED BY <1>1, <1>2, PlacesKeepOrder DEF Place, Before

LEMMA LettersAtPlace ==
  ASSUME NEW S, Numbered(S), NEW r \in DOMAIN S
  PROVE  LettersAt(S, Place(S, r)) = Letters(S[r].text)
<1> DEFINE p == Place(S, r)
           q == CHOOSE z \in DOMAIN S : Place(S, z) = p
<1>1. q \in DOMAIN S /\ Place(S, q) = p
  OBVIOUS
<1>2. q = r
  BY <1>1, PlacesAreTheirOwn
<1> QED BY <1>2 DEF LettersAt

LEMMA LettersAtNoPlace ==
  ASSUME NEW S, NEW p, \A z \in DOMAIN S : Place(S, z) # p
  PROVE  LettersAt(S, p) = <<>>
BY DEF LettersAt

LEMMA LettersAtIsText ==
  ASSUME NEW S, Numbered(S), NEW p
  PROVE  LettersAt(S, p) \in Texts
<1>1. CASE \E r \in DOMAIN S : Place(S, r) = p
  <2>1. PICK r \in DOMAIN S : Place(S, r) = p
    BY <1>1
  <2>2. S[r].text \in Texts
    BY DEF Numbered, Segment, Texts
  <2> QED BY <2>1, <2>2, LettersAtPlace, LettersIsText
<1>2. CASE ~ \E r \in DOMAIN S : Place(S, r) = p
  BY <1>2 DEF LettersAt, Texts
<1> QED BY <1>1, <1>2

LEMMA DurationIsNat == Duration \in Nat
BY BoundsAssumption

\* What starts within the transcript has a place.
LEMMA PlaceInside ==
  ASSUME NEW a \in Nat, a <= Duration, NEW q \in 1..MaxBorn
  PROVE  PlaceOf(a, q) \in Places
<1>1. Duration \in Nat /\ MaxBorn \in 1..MaxBorn /\ q \in Nat /\ MaxBorn \in Nat
  BY DurationIsNat, BoundsAssumption
<1>2. PlaceOf(a, q) \in Nat \ {0} /\ PlaceOf(Duration, MaxBorn) \in Nat
  BY <1>1, PlacesKeepOrder
<1>3. PlaceOf(a, q) <= PlaceOf(Duration, MaxBorn)
  <2>1. CASE a = Duration /\ q = MaxBorn
    BY <1>2, <2>1
  <2>2. CASE ~(a = Duration /\ q = MaxBorn)
    <3>1. a < Duration \/ (a = Duration /\ q < MaxBorn)
      BY <1>1, <2>2
    <3>2. PlaceOf(a, q) < PlaceOf(Duration, MaxBorn)
      BY <1>1, <3>1, PlacesKeepOrder
    <3> QED BY <1>2, <3>2
  <2> QED BY <2>1, <2>2
<1> QED BY <1>2, <1>3 DEF Places

\* What is said up to a place.
Said(S, n) == FlattenSeq([p \in 1..n |-> LettersAt(S, p)])

LEMMA SaidGrows ==
  ASSUME NEW S, Numbered(S), NEW n \in Nat
  PROVE  /\ Said(S, 0) = <<>> /\ Said(S, n) \in Texts
         /\ Said(S, n + 1) = Said(S, n) \o LettersAt(S, n + 1)
<1> DEFINE w == [p \in 1..n |-> LettersAt(S, p)]
           v == [p \in 1..(n + 1) |-> LettersAt(S, p)]
           t == LettersAt(S, n + 1)
<1>1. \A p \in 1..(n + 1) : LettersAt(S, p) \in Texts
  BY LettersAtIsText
<1>2. w \in Seq(Texts) /\ Len(w) = n /\ v \in Seq(Texts) /\ Len(v) = n + 1 /\ t \in Texts
  BY <1>1
<1>3. v = Append(w, t)
  <2>1. /\ Append(w, t) \in Seq(Texts) /\ Len(Append(w, t)) = n + 1
        /\ \A i \in 1..n : Append(w, t)[i] = w[i]
        /\ Append(w, t)[n + 1] = t
    <3> HIDE DEF w, t
    <3> QED BY <1>2, AppendProperties
  <2>2. (\A i \in 1..n : v[i] = w[i]) /\ v[n + 1] = t
    OBVIOUS
  <2> HIDE DEF v, w, t
  <2>3. \A i \in 1..(n + 1) : v[i] = Append(w, t)[i]
    <3> TAKE i \in 1..(n + 1)
    <3>1. i \in 1..n \/ i = n + 1
      OBVIOUS
    <3> QED BY <2>1, <2>2, <3>1
  <2> QED BY <1>2, <2>1, <2>3, SeqEqual
<1>4. Said(S, n) = FlattenSeq(w) /\ Said(S, n + 1) = FlattenSeq(v)
  BY DEF Said
<1>5. Said(S, 0) = <<>>
  <2>1. [p \in 1..0 |-> LettersAt(S, p)] = <<>>
    OBVIOUS
  <2> QED BY <2>1, FlattenEmpty DEF Said
<1> HIDE DEF w, v
<1>6. FlattenSeq(w) \in Texts /\ FlattenSeq(v) = FlattenSeq(w) \o t
  BY <1>2, <1>3, FlattenIsText, FlattenAppend
<1> QED BY <1>4, <1>5, <1>6

\* One segment that says what two neighbours said, in the place of the first,
\* leaves what the transcript says as it was.  Both a split, read backwards,
\* and a merge are of this kind.
LEMMA OneForTwo ==
  ASSUME NEW S, NEW T, Numbered(S), Numbered(T),
         NEW r \in DOMAIN S, NEW q \in DOMAIN S, DOMAIN T = DOMAIN S \ {q},
         T[r].start = S[r].start,
         Letters(T[r].text) = Letters(S[r].text) \o Letters(S[q].text),
         \A z \in DOMAIN S \ {r, q} : T[z] = S[z],
         Before(S, r, q), \A z \in DOMAIN S : ~(Before(S, r, z) /\ Before(S, z, q)),
         Place(S, q) \in Places
  PROVE  Spoken(S) = Spoken(T)
<1> DEFINE P == Place(S, r)
           Q == Place(S, q)
           x == Letters(S[r].text)
           y == Letters(S[q].text)
<1>1. P \in Nat /\ Q \in Nat /\ P < Q
  BY PlacesAreTheirOwn
<1>2. r # q /\ r \in DOMAIN T
  BY <1>1
<1>3. Place(T, r) = P /\ \A z \in DOMAIN S \ {r, q} : Place(T, z) = Place(S, z)
  BY DEF Place
<1>4. x \in Texts /\ y \in Texts
  <2>1. S[r].text \in Texts /\ S[q].text \in Texts
    BY DEF Numbered, Segment, Texts
  <2> QED BY <2>1, LettersIsText
<1>5. LettersAt(S, P) = x /\ LettersAt(S, Q) = y
  BY LettersAtPlace
<1>6. LettersAt(T, P) = x \o y
  BY <1>2, <1>3, LettersAtPlace
<1>7. LettersAt(T, Q) = <<>>
  <2>1. \A z \in DOMAIN T : Place(T, z) # Q
    <3> TAKE z \in DOMAIN T
    <3>1. CASE z = r
      BY <1>1, <1>3, <3>1
    <3>2. CASE z # r
      BY <1>3, <3>2, PlacesAreTheirOwn
    <3> QED BY <3>1, <3>2
  <2> QED BY <2>1, LettersAtNoPlace
\* Nothing is shown between the two.
<1>8. \A p \in Nat : P < p /\ p < Q => LettersAt(S, p) = <<>>
  <2> SUFFICES ASSUME NEW p \in Nat, P < p, p < Q PROVE LettersAt(S, p) = <<>>
    OBVIOUS
  <2>1. \A z \in DOMAIN S : Place(S, z) # p
    <3> TAKE z \in DOMAIN S
    <3>1. Before(S, r, z) <=> P < Place(S, z)
      BY PlacesAreTheirOwn
    <3>2. Before(S, z, q) <=> Place(S, z) < Q
      BY PlacesAreTheirOwn
    <3> QED BY <3>1, <3>2
  <2> QED BY <2>1, LettersAtNoPlace
<1>9. \A p \in Nat : p # P /\ p # Q => LettersAt(S, p) = LettersAt(T, p)
  <2> SUFFICES ASSUME NEW p \in Nat, p # P, p # Q PROVE LettersAt(S, p) = LettersAt(T, p)
    OBVIOUS
  <2>1. CASE \E z \in DOMAIN S : Place(S, z) = p
    <3>1. PICK z \in DOMAIN S : Place(S, z) = p
      BY <2>1
    <3>2. z \in DOMAIN S \ {r, q} /\ z \in DOMAIN T
      BY <3>1
    <3>3. Place(T, z) = p /\ T[z] = S[z]
      BY <1>3, <3>1, <3>2
    <3>4. LettersAt(S, p) = Letters(S[z].text)
      BY <3>1, LettersAtPlace
    <3>5. LettersAt(T, p) = Letters(T[z].text)
      BY <3>2, <3>3, LettersAtPlace
    <3> QED BY <3>3, <3>4, <3>5
  <2>2. CASE \A z \in DOMAIN S : Place(S, z) # p
    <3>1. \A z \in DOMAIN T : Place(T, z) # p
      <4> TAKE z \in DOMAIN T
      <4>1. z = r \/ z \in DOMAIN S \ {r, q}
        OBVIOUS
      <4> QED BY <1>3, <2>2, <4>1
    <3> QED BY <2>2, <3>1, LettersAtNoPlace
  <2> QED BY <2>1, <2>2
\* Between the two places, one is ahead of the other by the words of the second.
<1> DEFINE Ahead(n) == /\ n < P => Said(T, n) = Said(S, n)
                       /\ P <= n /\ n < Q => Said(T, n) = Said(S, n) \o y
                       /\ Q <= n => Said(T, n) = Said(S, n)
           N == {n \in Nat : Ahead(n)}
<1>10. N \in SUBSET Nat /\ 0 \in N
  <2>1. Said(S, 0) = <<>> /\ Said(T, 0) = <<>>
    BY SaidGrows
  <2>2. P # 0
    BY PlacesAreTheirOwn
  <2>3. Ahead(0)
    BY <1>1, <2>1, <2>2
  <2> QED BY <2>3
<1>11. ASSUME NEW n \in N PROVE n + 1 \in N
  <2> HIDE DEF P, Q, x, y
  <2>1. n \in Nat /\ n + 1 \in Nat /\ Ahead(n)
    BY <1>11
  <2>2. /\ Said(S, n) \in Texts /\ Said(T, n) \in Texts
        /\ Said(S, n + 1) = Said(S, n) \o LettersAt(S, n + 1)
        /\ Said(T, n + 1) = Said(T, n) \o LettersAt(T, n + 1)
    BY <2>1, SaidGrows
  <2>3. CASE n + 1 < P
    <3>1. Said(T, n) = Said(S, n) /\ LettersAt(S, n + 1) = LettersAt(T, n + 1)
      BY <1>1, <1>9, <2>1, <2>3
    <3>2. Said(T, n + 1) = Said(S, n + 1)
      BY <2>2, <3>1
    <3> QED BY <1>1, <2>1, <2>3, <3>2
  <2>4. CASE n + 1 = P
    <3>1. Said(T, n) = Said(S, n)
      BY <1>1, <2>1, <2>4
    <3>2. Said(T, n + 1) = Said(S, n) \o (x \o y) /\ Said(S, n + 1) = Said(S, n) \o x
      BY <1>5, <1>6, <2>2, <2>4, <3>1
    <3>3. (Said(S, n) \o x) \o y = Said(S, n) \o (x \o y)
      BY <1>4, <2>2, TextsAssociate
    <3>4. Said(T, n + 1) = Said(S, n + 1) \o y
      BY <3>2, <3>3
    <3> QED BY <1>1, <2>1, <2>4, <3>4
  <2>5. CASE P < n + 1 /\ n + 1 < Q
    <3>1. Said(T, n) = Said(S, n) \o y
      BY <1>1, <2>1, <2>5
    <3>2. LettersAt(S, n + 1) = <<>> /\ LettersAt(T, n + 1) = <<>>
      BY <1>1, <1>8, <1>9, <2>1, <2>5
    <3>3. Said(T, n + 1) = Said(T, n) /\ Said(S, n + 1) = Said(S, n)
      <4>1. Said(T, n) \o <<>> = Said(T, n) /\ Said(S, n) \o <<>> = Said(S, n)
        BY <2>2, ConcatEmptySeq DEF Texts
      <4> QED BY <2>2, <3>2, <4>1
    <3>4. Said(T, n + 1) = Said(S, n + 1) \o y
      BY <3>1, <3>3
    <3> QED BY <1>1, <2>1, <2>5, <3>4
  <2>6. CASE n + 1 = Q
    <3>1. Said(T, n) = Said(S, n) \o y
      BY <1>1, <2>1, <2>6
    <3>2. Said(T, n + 1) = Said(T, n)
      <4>1. Said(T, n) \o <<>> = Said(T, n)
        BY <2>2, ConcatEmptySeq DEF Texts
      <4> QED BY <1>7, <2>2, <2>6, <4>1
    <3>3. Said(S, n + 1) = Said(S, n) \o y
      BY <1>5, <2>2, <2>6
    <3>4. Said(T, n + 1) = Said(S, n + 1)
      BY <3>1, <3>2, <3>3
    <3> QED BY <1>1, <2>1, <2>6, <3>4
  <2>7. CASE Q < n + 1
    <3>1. Said(T, n) = Said(S, n) /\ LettersAt(S, n + 1) = LettersAt(T, n + 1)
      BY <1>1, <1>9, <2>1, <2>7
    <3>2. Said(T, n + 1) = Said(S, n + 1)
      BY <2>2, <3>1
    <3> QED BY <1>1, <2>1, <2>7, <3>2
  <2> QED BY <1>1, <2>1, <2>3, <2>4, <2>5, <2>6, <2>7
<1>12. PlaceOf(Duration, MaxBorn) \in Nat /\ Q <= PlaceOf(Duration, MaxBorn)
  <2>1. Duration * (MaxBorn + 1) \in Nat
    BY DurationIsNat, BoundsAssumption
  <2> QED BY <2>1, BoundsAssumption DEF Places, PlaceOf
<1>13. PlaceOf(Duration, MaxBorn) \in N
  <2> HIDE DEF N
  <2> QED BY <1>10, <1>11, <1>12, Induction
<1>14. Said(T, PlaceOf(Duration, MaxBorn)) = Said(S, PlaceOf(Duration, MaxBorn))
  BY <1>12, <1>13
<1> QED BY <1>14 DEF Spoken, Said, Places

-----------------------------------------------------------------------------
\* No segment reaches beyond the end of the transcript.
Within == \A r \in DOMAIN segs : segs[r].end <= Duration

LEMMA AlwaysWithin == Spec => [](Orderly(asr) => Within)
<1>1. Init => Within
  <2> SUFFICES ASSUME Init, NEW r \in DOMAIN segs PROVE segs[r].end <= Duration
    BY DEF Within
  <2>1. PICK t \in Transcripts \cup {HandSeed} : Store(t)
    BY DEF Init
  <2> QED BY <2>1, TranscriptAssumption, SeedIsTranscript DEF Store
<1>2. TypeOK /\ Separate /\ Within /\ [Next]_vars => Within'
  <2> SUFFICES ASSUME TypeOK, Separate, Within, [Next]_vars PROVE Within'
    OBVIOUS
  <2>0. Duration \in Nat /\ \A r \in DOMAIN segs : segs[r].start \in Nat /\ segs[r].end \in Nat
    BY DurationIsNat DEF TypeOK, Segment
  <2>1. ASSUME NEW s \in DOMAIN segs, NEW text \in Typed, Edit(s, text) PROVE Within'
    <3>1. DOMAIN segs' = DOMAIN segs /\ \A r \in DOMAIN segs : segs'[r].end = segs[r].end
      BY <2>1 DEF Edit, TypeOK, Segment
    <3> QED BY <3>1 DEF Within
  <2>2. ASSUME NEW s \in DOMAIN segs, NEW pos \in 1..Len(segs[s].text),
               NEW mid \in Mids(segs, s), Split(s, pos, mid)
        PROVE  Within'
    <3>1. /\ DOMAIN segs' = DOMAIN segs \cup {born + 1} /\ born + 1 \notin DOMAIN segs
          /\ segs'[s].end = mid /\ segs'[born + 1].end = segs[s].end
          /\ \A r \in DOMAIN segs \ {s} : segs'[r] = segs[r]
      BY <2>2, SplitSegments
    <3>2. mid \in Nat /\ mid < segs[s].end
      BY MidsAreInside DEF Separate
    <3>3. \A r \in DOMAIN segs \ {s} : segs'[r].end <= Duration
      BY <3>1 DEF Within
    <3>4. segs'[s].end <= Duration /\ segs'[born + 1].end <= Duration
      BY <2>0, <3>1, <3>2 DEF Within
    <3> QED BY <3>1, <3>3, <3>4 DEF Within
  <2>3. ASSUME NEW s \in DOMAIN segs, Merge(s) PROVE Within'
    <3>1. PICK next \in NextOf(segs, s) : segs' = MergeWith(segs, s, next)
      BY <2>3 DEF Merge
    <3>2. /\ next \in DOMAIN segs /\ DOMAIN segs' = DOMAIN segs \ {next}
          /\ segs'[s].end = segs[next].end
          /\ \A r \in DOMAIN segs \ {s, next} : segs'[r] = segs[r]
      BY <3>1, MergeSegments
    <3>3. \A r \in DOMAIN segs \ {s, next} : segs'[r].end <= Duration
      BY <3>2 DEF Within
    <3>4. segs'[s].end <= Duration
      BY <3>2 DEF Within
    <3> QED BY <3>2, <3>3, <3>4 DEF Within
  <2>4. CASE UNCHANGED vars
    BY <2>4 DEF vars, Within
  <2> QED BY <2>1, <2>2, <2>3, <2>4 DEF Next
<1>3. TypeOK /\ NoOverlap /\ (Orderly(asr) => Within) /\ [Next]_vars => (Orderly(asr) => Within)'
  BY <1>2, OriginStays DEF NoOverlap
<1> QED BY <1>1, <1>3, TypesHold, NeverOverlap, PTL DEF Spec

LEMMA TypedSegmentsAreNumbered ==
  ASSUME TypeOK
  PROVE  Numbered(segs)
<1>1. born \in 0..MaxBorn /\ MaxBorn \in Nat /\ DOMAIN segs \subseteq 1..born
  BY BoundsAssumption DEF TypeOK
<1>2. DOMAIN segs \subseteq 1..MaxBorn
  BY <1>1
<1> QED BY <1>2 DEF TypeOK, Numbered

LEMMA CorrectionIsRecorded ==
  ASSUME TypeOK, NEW s \in DOMAIN segs, NEW text \in Typed, Edit(s, text)
  PROVE  ~(versions' \subseteq versions)
<1> DEFINE row == [at |-> edits + 1, segment |-> s, before |-> segs[s].text, after |-> text]
<1>1. edits \in Nat /\ edits' = edits + 1
  BY BoundsAssumption DEF TypeOK, Edit
<1>2. row \in versions'
  BY DEF Edit
<1>3. row \notin versions
  <2> SUFFICES ASSUME row \in versions PROVE FALSE
    OBVIOUS
  <2>1. row.at \in 1..edits
    BY DEF TypeOK
  <2> QED BY <1>1, <2>1
<1> QED BY <1>2, <1>3

LEMMA SplitSaysTheSame ==
  ASSUME TypeOK, TypeOK', Separate, Within, NEW s \in DOMAIN segs,
         NEW pos \in 1..Len(segs[s].text), NEW mid \in Mids(segs, s), Split(s, pos, mid)
  PROVE  Spoken(segs') = Spoken(segs)
<1> DEFINE S == segs'
           T == segs
           q == born + 1
<1>1. /\ S \in [DOMAIN T \cup {q} -> Segment] /\ q \notin DOMAIN T
      /\ S[s] = Cut(T[s], pos, mid) /\ S[q] = Rest(T[s], pos, mid)
      /\ S[s].start = T[s].start /\ S[s].end = mid /\ S[q].start = mid /\ S[q].end = T[s].end
      /\ \A r \in DOMAIN T \ {s} : S[r] = T[r]
  BY SplitSegments
<1>2. mid \in Nat /\ T[s].start < mid /\ mid < T[s].end
  BY MidsAreInside DEF Separate
<1>3. Numbered(T)
  BY TypedSegmentsAreNumbered
<1>4. Numbered(S)
  <2>1. born' = born + 1 /\ born' \in 0..MaxBorn /\ born \in Nat /\ MaxBorn \in Nat
        /\ DOMAIN segs \subseteq 1..born
    BY BoundsAssumption DEF Split, TypeOK
  <2>2. DOMAIN S = DOMAIN T \cup {q} /\ S \in [DOMAIN S -> Segment]
    BY <1>1
  <2>3. DOMAIN S \subseteq 1..MaxBorn
    BY <2>1, <2>2
  <2> QED BY <2>2, <2>3 DEF Numbered
<1>5. /\ T[s].start \in Nat /\ T[s].end \in Nat
      /\ \A z \in DOMAIN T : T[z] \in Segment /\ T[z].start \in Nat /\ T[z].end \in Nat
  BY DEF TypeOK, Segment
<1>6. Letters(T[s].text) = Letters(S[s].text) \o Letters(S[q].text)
  BY <1>1, <1>2, <1>5, HalvesSayTheSame
<1>7. Before(S, s, q)
  BY <1>1, <1>2 DEF Before
<1>8. \A z \in DOMAIN S : ~(Before(S, s, z) /\ Before(S, z, q))
  <2> SUFFICES ASSUME NEW z \in DOMAIN S, Before(S, s, z), Before(S, z, q) PROVE FALSE
    OBVIOUS
  <2>1. z # s /\ z # q
    <3>1. ~Before(S, s, s) /\ ~Before(S, q, q)
      <4>1. s \in DOMAIN S /\ q \in DOMAIN S
        BY <1>1
      <4>2. Place(S, s) \in Nat /\ Place(S, q) \in Nat
        BY <1>4, <4>1, PlacesAreTheirOwn
      <4>3. (Before(S, s, s) <=> Place(S, s) < Place(S, s))
            /\ (Before(S, q, q) <=> Place(S, q) < Place(S, q))
        BY <1>4, <4>1, PlacesAreTheirOwn
      <4> QED BY <4>2, <4>3
    <3> QED BY <3>1
  <2>2. z \in DOMAIN T \ {s} /\ S[z] = T[z]
    BY <1>1, <2>1
  <2>3. T[s].start <= T[z].start /\ T[z].start <= mid
    BY <1>1, <1>2, <1>5, <2>2 DEF Before
  <2>4. /\ T[s].end <= T[z].start \/ T[z].end <= T[s].start
        /\ T[z].start < T[z].end
    BY <2>2 DEF Separate
  <2> QED BY <1>2, <1>5, <2>2, <2>3, <2>4
<1>9. Place(S, q) \in Places
  <2>1. mid <= Duration
    BY <1>2, <1>5, DurationIsNat DEF Within
  <2>2. q \in 1..MaxBorn
    BY <1>1, <1>4 DEF Numbered
  <2>3. Place(S, q) = PlaceOf(mid, q)
    BY <1>1 DEF Place
  <2> QED BY <1>2, <2>1, <2>2, <2>3, PlaceInside
<1>10. /\ s \in DOMAIN S /\ q \in DOMAIN S /\ DOMAIN T = DOMAIN S \ {q}
       /\ T[s].start = S[s].start
       /\ \A z \in DOMAIN S \ {s, q} : T[z] = S[z]
  BY <1>1
<1> HIDE DEF S, T, q
<1>11. Spoken(S) = Spoken(T)
  BY <1>3, <1>4, <1>6, <1>7, <1>8, <1>9, <1>10, OneForTwo
<1> QED BY <1>11 DEF S, T

LEMMA MergeSaysTheSame ==
  ASSUME TypeOK, TypeOK', Separate, Within, NEW s \in DOMAIN segs, Merge(s)
  PROVE  Spoken(segs') = Spoken(segs)
<1>1. PICK q \in NextOf(segs, s) : segs' = MergeWith(segs, s, q)
  BY DEF Merge
<1> DEFINE S == segs
           T == segs'
<1>2. /\ q \in DOMAIN S /\ q # s /\ T \in [DOMAIN S \ {q} -> Segment]
      /\ T[s] = Join(S[s], S[q]) /\ T[s].start = S[s].start
      /\ \A z \in DOMAIN S \ {s, q} : T[z] = S[z]
  BY <1>1, MergeSegments
<1>3. Numbered(S)
  BY TypedSegmentsAreNumbered
<1>4. Numbered(T)
  <2>1. DOMAIN T = DOMAIN S \ {q} /\ T \in [DOMAIN T -> Segment]
    BY <1>2
  <2> QED BY <1>3, <2>1 DEF Numbered
<1>5. S[s] \in Segment /\ S[q] \in Segment /\ S[q].start \in Nat /\ S[q].end \in Nat
  BY <1>2 DEF TypeOK, Segment
<1>6. Letters(T[s].text) = Letters(S[s].text) \o Letters(S[q].text)
  BY <1>2, <1>5, JoinSaysTheSame
<1>7. Before(S, s, q) /\ \A z \in DOMAIN S : ~(Before(S, s, z) /\ Before(S, z, q))
  <2>1. q \in ShownAfter(segs, s)
    BY <1>1, NextIsShownAfter DEF MergeFindsNeighbour
  <2> QED BY <2>1 DEF ShownAfter
<1>8. Place(S, q) \in Places
  <2>1. S[q].start < S[q].end /\ S[q].end <= Duration
    BY <1>2 DEF Separate, Within
  <2>2. S[q].start <= Duration
    BY <1>5, <2>1, DurationIsNat
  <2>3. q \in 1..MaxBorn
    BY <1>2, <1>3 DEF Numbered
  <2> QED BY <1>5, <2>2, <2>3, PlaceInside DEF Place
<1>9. s \in DOMAIN S /\ DOMAIN T = DOMAIN S \ {q}
  BY <1>2
<1> HIDE DEF S, T
<1>10. Spoken(S) = Spoken(T)
  BY <1>2, <1>3, <1>4, <1>6, <1>7, <1>8, <1>9, OneForTwo
<1> QED BY <1>10 DEF S, T

\* If the recognised segments were orderly, splitting and merging never lose, double
\* or reorder what was said
\* (jobs.py:259-279, 353-356): a step that adds no row to the edit history
\* leaves the words of the transcript, in the order it is shown, as they were.
THEOREM WordsAreKept == Spec => WordsKept
<1>1. TypeOK /\ TypeOK' /\ NoOverlap /\ (Orderly(asr) => Within) /\ [Next]_vars
        => [Orderly(asr) /\ versions' \subseteq versions => Spoken(segs') = Spoken(segs)]_vars
  <2> SUFFICES ASSUME TypeOK, TypeOK', Separate, Within, Next, versions' \subseteq versions
               PROVE  Spoken(segs') = Spoken(segs)
    BY DEF NoOverlap
  <2>1. ASSUME NEW s \in DOMAIN segs, NEW text \in Typed, Edit(s, text) PROVE FALSE
    BY <2>1, CorrectionIsRecorded
  <2>2. ASSUME NEW s \in DOMAIN segs, NEW pos \in 1..Len(segs[s].text),
               NEW mid \in Mids(segs, s), Split(s, pos, mid)
        PROVE  Spoken(segs') = Spoken(segs)
    BY <2>2, SplitSaysTheSame
  <2>3. ASSUME NEW s \in DOMAIN segs, Merge(s) PROVE Spoken(segs') = Spoken(segs)
    BY <2>3, MergeSaysTheSame
  <2> QED BY <2>1, <2>2, <2>3 DEF Next
<1> QED BY <1>1, TypesHold, NeverOverlap, AlwaysWithin, PTL DEF Spec, WordsKept
=============================================================================
