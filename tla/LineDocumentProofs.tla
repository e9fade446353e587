--------------------------- MODULE LineDocumentProofs ---------------------------
(***************************************************************************)
(* Sequences                                                               *)
(***************************************************************************)
EXTENDS LineDocument, SequenceTheorems, WellFoundedInduction, TLAPS

LEMMA MinIsFirst ==
    ASSUME NEW S \in SUBSET Nat, S # {}
    PROVE  Min(S) \in S /\ \A y \in S : Min(S) <= y
<1>1. PICK n \in S : \A y \in S : ~ (<<y, n>> \in OpToRel(<, Nat))
  BY NatLessThanWellFounded, WFMin
<1>2. \A y \in S : ~ (y < n)
  BY <1>1 DEF OpToRel
<1>3. ASSUME NEW y \in S
      PROVE  n <= y
  <2>1. n \in Nat /\ y \in Nat /\ ~(y < n)
    BY <1>2
  <2> QED BY <2>1
<1> DEFINE Least(x) == x \in S /\ \A y \in S : x <= y
<1>4. Least(n)
  BY <1>3
<1>5. Min(S) = CHOOSE x : Least(x)
  BY DEF Min
<1> QED BY <1>4, <1>5

LEMMA NatInd == ASSUME NEW T \in SUBSET Nat, 0 \in T, \A n \in T : n + 1 \in T PROVE T = Nat
<1> SUFFICES ASSUME Nat \ T # {} PROVE FALSE
  OBVIOUS
<1>1. PICK n \in Nat \ T : \A y \in Nat \ T : ~ (<<y, n>> \in OpToRel(<, Nat))
  BY NatLessThanWellFounded, WFMin
<1>2. \A y \in Nat \ T : ~ (y < n)
  BY <1>1 DEF OpToRel
<1>3. n - 1 \in Nat /\ n - 1 \notin Nat \ T
  BY <1>2
<1> QED BY <1>3

LEMMA AppendedElements ==
    ASSUME NEW S, NEW t \in Seq(S), NEW e \in S
    PROVE  /\ Append(t, e) \in Seq(S) /\ Len(Append(t, e)) = Len(t) + 1 /\ Len(t) \in Nat
           /\ Append(t, e)[Len(t) + 1] = e
           /\ \A i \in 1 .. Len(t) : Append(t, e)[i] = t[i]
OBVIOUS

LEMMA FrontAndLast ==
    ASSUME NEW S, NEW s \in Seq(S), NEW n \in Nat, Len(s) = n + 1
    PROVE  s = Append(SubSeq(s, 1, n), s[n+1])
<1> DEFINE front == SubSeq(s, 1, n)
<1>1. front \in Seq(S) /\ Len(front) = n /\ s[n+1] \in S /\ \A i \in 1 .. n : front[i] = s[i]
  OBVIOUS
<1> HIDE DEF front
<1>2. /\ Append(front, s[n+1]) \in Seq(S) /\ Len(Append(front, s[n+1])) = n + 1
      /\ Append(front, s[n+1])[n + 1] = s[n+1]
      /\ \A i \in 1 .. n : Append(front, s[n+1])[i] = front[i]
  BY <1>1, AppendedElements
<1>3. \A i \in 1 .. n + 1 : Append(front, s[n+1])[i] = s[i]
  BY <1>1, <1>2
<1> QED BY <1>2, <1>3, SeqEqual DEF front

LEMMA SeqInd ==
    ASSUME NEW S, NEW T \in SUBSET Seq(S), <<>> \in T,
           \A s \in T, e \in S : Append(s, e) \in T
    PROVE  T = Seq(S)
<1> DEFINE K == {n \in Nat : \A s \in Seq(S) : Len(s) = n => s \in T}
<1>1. 0 \in K
  OBVIOUS
<1>2. ASSUME NEW n \in K PROVE n + 1 \in K
  <2> SUFFICES ASSUME NEW s \in Seq(S), Len(s) = n + 1 PROVE s \in T
    OBVIOUS
  <2>0. n \in Nat /\ n <= Len(s)
    OBVIOUS
  <2>3. SubSeq(s, 1, n) \in Seq(S) /\ Len(SubSeq(s, 1, n)) = n /\ s[n+1] \in S
    BY <2>0
  <2>1. SubSeq(s, 1, n) \in T
    BY <2>3
  <2>2. s = Append(SubSeq(s, 1, n), s[n+1])
    BY <2>0, FrontAndLast
  <2>4. Append(SubSeq(s, 1, n), s[n+1]) \in T
    BY <2>1, <2>3
  <2> QED BY <2>2, <2>4
<1>3. K = Nat
  BY <1>1, <1>2, NatInd
<1>4. \A s \in Seq(S) : Len(s) \in Nat
  OBVIOUS
<1>5. \A s \in Seq(S) : s \in T
  BY <1>3, <1>4
<1> QED BY <1>5

LEMMA IntervalInd ==
    ASSUME NEW first \in Nat, NEW last \in Nat, NEW T, first \in T,
           \A n \in first + 1 .. last : n - 1 \in T => n \in T
    PROVE  \A n \in first .. last : n \in T
<1> DEFINE K == {k \in Nat : k \in first .. last => k \in T}
<1>1. 0 \in K
  OBVIOUS
<1>2. ASSUME NEW k \in K PROVE k + 1 \in K
  <2>1. CASE k + 1 = first
    BY <2>1
  <2>2. CASE k + 1 # first
    <3> SUFFICES ASSUME k + 1 \in first .. last PROVE k + 1 \in T
      OBVIOUS
    <3>1. k \in T /\ (k + 1) - 1 = k /\ k + 1 \in first + 1 .. last
      BY <2>2
    <3> QED BY <3>1
  <2> QED BY <2>1, <2>2
<1>3. K = Nat
  BY <1>1, <1>2, NatInd
<1> QED BY <1>3

-----------------------------------------------------------------------------
(* Sequences of sequences, one after the other *)

Flattens(f, ss, k) == f = [i \in 1 .. k |-> IF i = 1 THEN ss[i] ELSE f[i - 1] \o ss[i]]

LEMMA FlattenSteps ==
    ASSUME NEW ss, Len(ss) \in Nat, Len(ss) # 0
    PROVE  \E f : Flattens(f, ss, Len(ss)) /\ FlattenSeq(ss) = f[Len(ss)]
<1> DEFINE K == {k \in Nat : \E f : Flattens(f, ss, k)}
<1>1. 0 \in K
  <2> DEFINE f == [i \in 1 .. 0 |-> ss]
  <2>1. Flattens(f, ss, 0)
    BY DEF Flattens
  <2> QED BY <2>1
<1>2. ASSUME NEW k \in K PROVE k + 1 \in K
  <2>1. PICK f : Flattens(f, ss, k)
    OBVIOUS
  <2> DEFINE g == [i \in 1 .. k + 1 |-> IF i = k + 1 THEN IF i = 1 THEN ss[i] ELSE f[k] \o ss[i] ELSE f[i]]
  <2>2. \A i \in 1 .. k : f[i] = IF i = 1 THEN ss[i] ELSE f[i - 1] \o ss[i]
    BY <2>1 DEF Flattens
  <2>3. ASSUME NEW i \in 1 .. k + 1
        PROVE  g[i] = IF i = 1 THEN ss[i] ELSE g[i - 1] \o ss[i]
    <3>1. CASE i = k + 1
      BY <3>1
    <3>2. CASE i # k + 1
      BY <2>2, <3>2
    <3> QED BY <3>1, <3>2
  <2>4. Flattens(g, ss, k + 1)
    BY <2>3 DEF Flattens
  <2> QED BY <2>4
<1>3. K = Nat
  <2> HIDE DEF K
  <2> QED BY <1>1, <1>2, NatInd DEF K
<1>4. \E f : Flattens(f, ss, Len(ss))
  BY <1>3
<1> DEFINE g == CHOOSE f : Flattens(f, ss, Len(ss))
<1>5. Flattens(g, ss, Len(ss))
  BY <1>4
<1>6. FlattenSeq(ss) = g[Len(ss)]
  BY Zenon DEF FlattenSeq, Flattens
<1> QED BY <1>5, <1>6

LEMMA FlattenType ==
    ASSUME NEW S, NEW ss \in Seq(Seq(S))
    PROVE  FlattenSeq(ss) \in Seq(S)
<1>1. CASE Len(ss) = 0
  BY <1>1 DEF FlattenSeq
<1>2. CASE Len(ss) # 0
  <2>1. PICK f : Flattens(f, ss, Len(ss)) /\ FlattenSeq(ss) = f[Len(ss)]
    BY <1>2, FlattenSteps
  <2>2. \A i \in 1 .. Len(ss) : f[i] = IF i = 1 THEN ss[i] ELSE f[i - 1] \o ss[i]
    BY <2>1 DEF Flattens
  <2> DEFINE K == {k \in Nat : k \in 1 .. Len(ss) => f[k] \in Seq(S)}
  <2>3. 0 \in K
    OBVIOUS
  <2>4. ASSUME NEW k \in K PROVE k + 1 \in K
    <3> SUFFICES ASSUME k + 1 \in 1 .. Len(ss) PROVE f[k + 1] \in Seq(S)
      OBVIOUS
    <3>1. ss[k + 1] \in Seq(S)
      OBVIOUS
    <3>2. CASE k = 0
      BY <2>2, <3>1, <3>2
    <3>3. CASE k # 0
      <4>0. k \in 1 .. Len(ss) /\ (k + 1) - 1 = k /\ k + 1 # 1
        BY <3>3
      <4>1. f[k] \in Seq(S) /\ f[k + 1] = f[k] \o ss[k + 1]
        BY <2>2, <4>0
      <4> QED BY <3>1, <4>1
    <3> QED BY <3>2, <3>3
  <2>5. K = Nat
    BY <2>3, <2>4, NatInd
  <2>6. Len(ss) \in K /\ Len(ss) \in 1 .. Len(ss)
    BY <1>2, <2>5
  <2> QED BY <2>1, <2>6
<1> QED BY <1>1, <1>2

LEMMA FlattenAppend ==
    ASSUME NEW S, NEW ss \in Seq(Seq(S)), NEW s \in Seq(S)
    PROVE  FlattenSeq(Append(ss, s)) = FlattenSeq(ss) \o s
<1> DEFINE tt == Append(ss, s)
<1>0. /\ Len(tt) = Len(ss) + 1 /\ Len(ss) \in Nat /\ tt[Len(tt)] = s
      /\ \A n \in 1 .. Len(ss) : tt[n] = ss[n]
  OBVIOUS
<1> HIDE DEF tt
<1>1. PICK g : Flattens(g, tt, Len(tt)) /\ FlattenSeq(tt) = g[Len(tt)]
  BY <1>0, FlattenSteps
<1>2. \A i \in 1 .. Len(tt) : g[i] = IF i = 1 THEN tt[i] ELSE g[i - 1] \o tt[i]
  BY <1>1 DEF Flattens
<1>3. CASE Len(ss) = 0
  <2>1. FlattenSeq(ss) = <<>>
    BY <1>3 DEF FlattenSeq
  <2>2. g[1] = s
    BY <1>0, <1>2, <1>3
  <2> QED BY <1>0, <1>1, <1>3, <2>1, <2>2 DEF tt
<1>4. CASE Len(ss) # 0
  <2>1. PICK f : Flattens(f, ss, Len(ss)) /\ FlattenSeq(ss) = f[Len(ss)]
    BY <1>4, FlattenSteps
  <2>2. \A i \in 1 .. Len(ss) : f[i] = IF i = 1 THEN ss[i] ELSE f[i - 1] \o ss[i]
    BY <2>1 DEF Flattens
  <2> DEFINE last == Len(ss)
  <2>0. last \in Nat /\ last # 0 /\ Len(tt) = last + 1
    BY <1>0, <1>4
  <2> HIDE DEF last
  <2>3. f[1] = g[1] /\ \A n \in 1 + 1 .. last : f[n - 1] = g[n - 1] => f[n] = g[n]
    <3>1. \A n \in 1 .. last : tt[n] = ss[n]
      BY <1>0 DEF last
    <3>2. \A n \in 1 .. last : f[n] = IF n = 1 THEN ss[n] ELSE f[n - 1] \o ss[n]
      BY <2>2 DEF last
    <3>3. \A n \in 1 .. last : g[n] = IF n = 1 THEN ss[n] ELSE g[n - 1] \o ss[n]
      BY <1>2, <2>0, <3>1
    <3> HIDE DEF tt
    <3> QED BY <2>0, <3>2, <3>3
  <2>4. \A n \in 1 .. last : f[n] = g[n]
    <3> DEFINE T == {n \in 1 .. last : f[n] = g[n]}
    <3>1. 1 \in T /\ \A n \in 1 + 1 .. last : n - 1 \in T => n \in T
      BY <2>0, <2>3
    <3> HIDE DEF T
    <3>2. \A n \in 1 .. last : n \in T
      BY <2>0, <3>1, IntervalInd
    <3> QED BY <3>2 DEF T
  <2>5. g[Len(tt)] = g[last] \o s
    <3>1. last + 1 \in 1 .. Len(tt) /\ last + 1 # 1 /\ (last + 1) - 1 = last
      BY <2>0
    <3>2. g[last + 1] = g[last] \o tt[last + 1]
      BY <1>2, <3>1
    <3> QED BY <1>0, <2>0, <3>2
  <2>6. f[last] = g[last]
    BY <2>0, <2>4
  <2> QED BY <1>1, <2>1, <2>5, <2>6 DEF last, tt
<1> QED BY <1>3, <1>4 DEF tt

LEMMA FlattenEmpty == FlattenSeq(<<>>) = <<>>
BY DEF FlattenSeq

LEMMA ConcatAppended ==
    ASSUME NEW S, NEW s \in Seq(S), NEW t \in Seq(S), NEW e \in S
    PROVE  s \o Append(t, e) = Append(s \o t, e)
OBVIOUS

LEMMA FlattenConcat ==
    ASSUME NEW S, NEW ss \in Seq(Seq(S)), NEW tt \in Seq(Seq(S))
    PROVE  FlattenSeq(ss \o tt) = FlattenSeq(ss) \o FlattenSeq(tt)
<1> DEFINE T == {t \in Seq(Seq(S)) : FlattenSeq(ss \o t) = FlattenSeq(ss) \o FlattenSeq(t)}
<1>1. <<>> \in T
  BY FlattenEmpty, FlattenType
<1>2. ASSUME NEW t \in T, NEW e \in Seq(S) PROVE Append(t, e) \in T
  <2>1. ss \o Append(t, e) = Append(ss \o t, e)
    OBVIOUS
  <2>2. FlattenSeq(ss \o Append(t, e)) = (FlattenSeq(ss) \o FlattenSeq(t)) \o e
    <3>1. ss \o t \in Seq(Seq(S))
      OBVIOUS
    <3>2. FlattenSeq(ss \o t) = FlattenSeq(ss) \o FlattenSeq(t)
      OBVIOUS
    <3> HIDE DEF T
    <3>3. FlattenSeq(Append(ss \o t, e)) = FlattenSeq(ss \o t) \o e
      BY <3>1, FlattenAppend
    <3> QED BY <2>1, <3>2, <3>3, Zenon
  <2>3. /\ FlattenSeq(Append(t, e)) = FlattenSeq(t) \o e
        /\ FlattenSeq(t) \in Seq(S) /\ FlattenSeq(ss) \in Seq(S)
    <3>1. t \in Seq(Seq(S))
      OBVIOUS
    <3> HIDE DEF T
    <3>2. FlattenSeq(Append(t, e)) = FlattenSeq(t) \o e
      BY <3>1, FlattenAppend
    <3>3. FlattenSeq(t) \in Seq(S) /\ FlattenSeq(ss) \in Seq(S)
      BY <3>1, FlattenType
    <3> QED BY <3>2, <3>3
  <2>4. (FlattenSeq(ss) \o FlattenSeq(t)) \o e = FlattenSeq(ss) \o (FlattenSeq(t) \o e)
    BY <2>3, ConcatAssociative, SMTT(30)
  <2>5. Append(t, e) \in Seq(Seq(S))
    OBVIOUS
  <2> QED BY <2>2, <2>3, <2>4, <2>5
<1>3. T = Seq(Seq(S))
  <2> HIDE DEF T
  <2>1. T \in SUBSET Seq(Seq(S))
    BY DEF T
  <2> QED BY <1>1, <1>2, <2>1, SeqInd
<1> QED BY <1>3

-----------------------------------------------------------------------------
(* Reading a text *)

Start == [segments |-> <<>>, open |-> NoBlock]

ReadsTo(f, text, k) == f = [n \in 0 .. k |-> IF n = 0 THEN [segments |-> <<>>, open |-> NoBlock]
                                             ELSE Read(f[n - 1], text[n])]

LEMMA ScanSteps ==
    ASSUME NEW text, Len(text) \in Nat
    PROVE  \E f : /\ f[0] = Start
                  /\ \A n \in 1 .. Len(text) : f[n] = Read(f[n - 1], text[n])
                  /\ Scan(text) = f[Len(text)]
<1> DEFINE K == {k \in Nat : \E f : ReadsTo(f, text, k)}
<1>1. 0 \in K
  <2> DEFINE f == [n \in 0 .. 0 |-> Start]
  <2>1. ReadsTo(f, text, 0)
    BY DEF ReadsTo, Start
  <2> QED BY <2>1
<1>2. ASSUME NEW k \in K PROVE k + 1 \in K
  <2>1. PICK f : ReadsTo(f, text, k)
    OBVIOUS
  <2> DEFINE g == [n \in 0 .. k + 1 |-> IF n = k + 1 THEN Read(f[k], text[n]) ELSE f[n]]
  <2>2. \A n \in 0 .. k : f[n] = IF n = 0 THEN Start ELSE Read(f[n - 1], text[n])
    BY <2>1 DEF ReadsTo, Start
  <2>3. ASSUME NEW n \in 0 .. k + 1
        PROVE  g[n] = IF n = 0 THEN Start ELSE Read(g[n - 1], text[n])
    <3>1. CASE n = k + 1
      BY <3>1
    <3>2. CASE n # k + 1
      BY <2>2, <3>2
    <3> QED BY <3>1, <3>2
  <2>4. ReadsTo(g, text, k + 1)
    BY <2>3 DEF ReadsTo, Start
  <2> QED BY <2>4
<1>3. K = Nat
  <2> HIDE DEF K
  <2> QED BY <1>1, <1>2, NatInd DEF K
<1>4. \E f : ReadsTo(f, text, Len(text))
  BY <1>3
<1> DEFINE g == CHOOSE f : ReadsTo(f, text, Len(text))
<1>5. ReadsTo(g, text, Len(text))
  BY <1>4
<1>6. Scan(text) = g[Len(text)]
  BY Zenon DEF Scan, ReadsTo
<1> HIDE DEF g
<1>7. \A n \in 0 .. Len(text) : g[n] = IF n = 0 THEN Start ELSE Read(g[n - 1], text[n])
  BY <1>5 DEF ReadsTo, Start
<1>8. g[0] = Start /\ \A n \in 1 .. Len(text) : g[n] = Read(g[n - 1], text[n])
  BY <1>7
<1> QED BY <1>6, <1>8

LEMMA ScanEmpty == Scan(<<>>) = Start
<1>1. Len(<<>>) = 0 /\ 0 \in Nat
  OBVIOUS
<1> QED BY <1>1, ScanSteps

LEMMA ScanAppend ==
    ASSUME NEW S, NEW text \in Seq(S), NEW line \in S
    PROVE  Scan(Append(text, line)) = Read(Scan(text), line)
<1> DEFINE more == Append(text, line)
           last == Len(text)
<1>1. last \in Nat /\ Len(more) = last + 1 /\ more[last + 1] = line
  OBVIOUS
<1>2. \A n \in 1 .. last : more[n] = text[n]
  OBVIOUS
<1> HIDE DEF more
<1>3. PICK f : /\ f[0] = Start
               /\ \A n \in 1 .. last : f[n] = Read(f[n - 1], text[n])
               /\ Scan(text) = f[last]
  BY <1>1, ScanSteps
<1> HIDE DEF last
<1>4. PICK g : /\ g[0] = Start
               /\ \A n \in 1 .. last + 1 : g[n] = Read(g[n - 1], more[n])
               /\ Scan(more) = g[last + 1]
  <2>1. Len(more) \in Nat
    BY <1>1
  <2> QED BY <1>1, <2>1, ScanSteps
<1>5. \A n \in 0 .. last : f[n] = g[n]
  <2> DEFINE T == {n \in 0 .. last : f[n] = g[n]}
  <2>1. \A n \in 1 .. last : g[n] = Read(g[n - 1], text[n])
    BY <1>1, <1>2, <1>4
  <2>2. 0 \in T /\ \A n \in 0 + 1 .. last : n - 1 \in T => n \in T
    BY <1>1, <1>3, <1>4, <2>1
  <2> HIDE DEF T
  <2>3. \A n \in 0 .. last : n \in T
    BY <1>1, <2>2, IntervalInd
  <2> QED BY <2>3 DEF T
<1>6. last + 1 \in 1 .. last + 1 /\ (last + 1) - 1 = last /\ last \in 0 .. last
  BY <1>1
<1>7. g[last + 1] = Read(g[last], line)
  BY <1>1, <1>4, <1>6
<1> QED BY <1>3, <1>4, <1>5, <1>6, <1>7 DEF more

\* The lines of segments, one after the other.
TextOf(segments) == FlattenSeq([n \in DOMAIN segments |-> segments[n].lines])

LEMMA TextOfEmpty == TextOf(<<>>) = <<>>
<1>1. [n \in DOMAIN <<>> |-> <<>>[n].lines] = <<>>
  OBVIOUS
<1> QED BY <1>1, FlattenEmpty DEF TextOf

LEMMA SegmentParts ==
    ASSUME NEW segment \in Segments
    PROVE  /\ segment.id \in BlockIds \cup {NoBlock} /\ segment.lines \in Seq(Lines)
           /\ segment = [id |-> segment.id, lines |-> segment.lines]
BY DEF Segments

LEMMA LinesSequences ==
    ASSUME NEW segments \in Seq(Segments)
    PROVE  [n \in DOMAIN segments |-> segments[n].lines] \in Seq(Seq(Lines))
<1> DEFINE ls == [n \in DOMAIN segments |-> segments[n].lines]
<1>1. \A n \in 1 .. Len(segments) : segments[n].lines \in Seq(Lines)
  BY SegmentParts
<1>2. DOMAIN segments = 1 .. Len(segments) /\ Len(segments) \in Nat
  OBVIOUS
<1> QED BY <1>1, <1>2

LEMMA TextOfType ==
    ASSUME NEW segments \in Seq(Segments)
    PROVE  TextOf(segments) \in Seq(Lines)
BY LinesSequences, FlattenType DEF TextOf

LEMMA TextOfAppend ==
    ASSUME NEW segments \in Seq(Segments), NEW segment \in Segments
    PROVE  TextOf(Append(segments, segment)) = TextOf(segments) \o segment.lines
<1> DEFINE more == Append(segments, segment)
           before == [n \in DOMAIN segments |-> segments[n].lines]
           after == [n \in DOMAIN more |-> more[n].lines]
<1>1. segment.lines \in Seq(Lines) /\ more \in Seq(Segments)
  BY SegmentParts
<1>2. before \in Seq(Seq(Lines)) /\ after \in Seq(Seq(Lines))
  BY <1>1, LinesSequences
<1>3. after = Append(before, segment.lines)
  <2>1. Len(after) = Len(segments) + 1 /\ Len(before) = Len(segments)
    OBVIOUS
  <2>2. Append(before, segment.lines) \in Seq(Seq(Lines))
    BY <1>1, <1>2
  <2>3. ASSUME NEW n \in 1 .. Len(segments) + 1
        PROVE  after[n] = Append(before, segment.lines)[n]
    OBVIOUS
  <2>4. Len(Append(before, segment.lines)) = Len(segments) + 1
    BY <2>1
  <2> HIDE DEF before, after, more
  <2> QED BY <1>2, <2>1, <2>2, <2>3, <2>4, SeqEqual
<1> QED BY <1>1, <1>2, <1>3, FlattenAppend DEF TextOf

-----------------------------------------------------------------------------
(* The segments of a text *)

IsLiteral(segment) ==
    /\ segment.id = NoBlock /\ segment.lines # <<>>
    /\ \A n \in 1 .. Len(segment.lines) : ~IsBegin(segment.lines[n])

\* The lines from a begin marker on, before an end marker.
Opens(id, lines) ==
    /\ Len(lines) >= 1 /\ lines[1].body = BeginOf(id)
    /\ \A n \in 2 .. Len(lines) : ~IsEnd(lines[n])

IsClosed(segment) ==
    /\ segment.id \in BlockIds /\ Len(segment.lines) >= 2
    /\ segment.lines[1].body = BeginOf(segment.id)
    /\ segment.lines[Len(segment.lines)].body = EndOf(segment.id)
    /\ \A n \in 2 .. Len(segment.lines) - 1 : ~IsEnd(segment.lines[n])

\* Literals and blocks, no two literals side by side.
Shaped(segments) ==
    /\ \A n \in 1 .. Len(segments) : IsLiteral(segments[n]) \/ IsClosed(segments[n])
    /\ \A n \in 1 .. Len(segments) - 1 : segments[n].id = NoBlock => segments[n + 1].id # NoBlock

LEMMA ShapedAppend ==
    ASSUME NEW segments \in Seq(Segments), NEW segment \in Segments
    PROVE  Shaped(Append(segments, segment)) <=>
               /\ Shaped(segments) /\ (IsLiteral(segment) \/ IsClosed(segment))
               /\ segments # <<>> /\ Last(segments).id = NoBlock => segment.id # NoBlock
<1> DEFINE more == Append(segments, segment)
           last == Len(segments)
<1>1. /\ last \in Nat /\ Len(more) = last + 1 /\ more[last + 1] = segment
      /\ \A n \in 1 .. last : more[n] = segments[n]
      /\ segments # <<>> <=> last # 0
  OBVIOUS
<1>2. Last(segments) = segments[last]
  BY DEF Last
<1> HIDE DEF more
<1>3. ASSUME Shaped(more)
      PROVE  /\ Shaped(segments) /\ (IsLiteral(segment) \/ IsClosed(segment))
             /\ segments # <<>> /\ Last(segments).id = NoBlock => segment.id # NoBlock
  <2> HIDE DEF last
  <2>1. /\ \A n \in 1 .. last + 1 : IsLiteral(more[n]) \/ IsClosed(more[n])
        /\ \A n \in 1 .. last : more[n].id = NoBlock => more[n + 1].id # NoBlock
    BY <1>1, <1>3 DEF Shaped
  <2>2. /\ \A n \in 1 .. last : IsLiteral(segments[n]) \/ IsClosed(segments[n])
        /\ \A n \in 1 .. last - 1 : segments[n].id = NoBlock => segments[n + 1].id # NoBlock
        /\ IsLiteral(segment) \/ IsClosed(segment)
        /\ last # 0 => (segments[last].id = NoBlock => segment.id # NoBlock)
    BY <1>1, <2>1
  <2> QED BY <1>1, <1>2, <2>2 DEF Shaped, last
<1>4. ASSUME /\ Shaped(segments) /\ (IsLiteral(segment) \/ IsClosed(segment))
             /\ segments # <<>> /\ Last(segments).id = NoBlock => segment.id # NoBlock
      PROVE  Shaped(more)
  <2>1. /\ \A n \in 1 .. last : IsLiteral(segments[n]) \/ IsClosed(segments[n])
        /\ \A n \in 1 .. last - 1 : segments[n].id = NoBlock => segments[n + 1].id # NoBlock
    BY <1>4 DEF Shaped
  <2> HIDE DEF last
  <2>2. \A n \in 1 .. last + 1 : IsLiteral(more[n]) \/ IsClosed(more[n])
    BY <1>1, <1>4, <2>1
  <2>3. ASSUME NEW n \in 1 .. last, more[n].id = NoBlock PROVE more[n + 1].id # NoBlock
    <3>1. CASE n = last
      BY <1>1, <1>2, <1>4, <2>3, <3>1
    <3>2. CASE n # last
      BY <1>1, <2>1, <2>3, <3>2
    <3> QED BY <3>1, <3>2
  <2> QED BY <1>1, <2>2, <2>3 DEF Shaped
<1> QED BY <1>3, <1>4 DEF more

LEMMA ShapedEmpty == Shaped(<<>>)
BY DEF Shaped

LEMMA ExtendedLast ==
    ASSUME NEW segments \in Seq(Segments), NEW segment \in Segments, NEW line \in Lines
    PROVE  Extended(Append(segments, segment), line)
               = Append(segments, [id |-> segment.id, lines |-> Append(segment.lines, line)])
<1> DEFINE longer == [id |-> segment.id, lines |-> Append(segment.lines, line)]
           one == Append(segments, segment)
           two == Append(segments, longer)
<1>1. longer \in Segments
  BY SegmentParts DEF Segments
<1>2. [segment EXCEPT !.lines = Append(@, line)] = longer
  <2>1. ASSUME NEW id, NEW lines, NEW more
        PROVE  [[id |-> id, lines |-> lines] EXCEPT !.lines = more] = [id |-> id, lines |-> more]
    OBVIOUS
  <2>2. segment = [id |-> segment.id, lines |-> segment.lines]
    BY SegmentParts
  <2>3. [[id |-> segment.id, lines |-> segment.lines] EXCEPT !.lines = Append(segment.lines, line)] = longer
    BY <2>1
  <2>4. \A u : u = segment => [u EXCEPT !.lines = Append(segment.lines, line)]
                                  = [segment EXCEPT !.lines = Append(segment.lines, line)]
    OBVIOUS
  <2> HIDE DEF longer
  <2> QED BY <2>2, <2>3, <2>4
<1>3. /\ one \in Seq(Segments) /\ two \in Seq(Segments) /\ Len(one) = Len(segments) + 1
      /\ Len(two) = Len(segments) + 1 /\ one[Len(one)] = segment /\ two[Len(one)] = longer
      /\ \A n \in 1 .. Len(segments) : one[n] = two[n]
      /\ Len(segments) \in Nat /\ Len(one) \in 1 .. Len(one)
  BY <1>1
<1> HIDE DEF longer, one, two
<1>4. Extended(one, line) = [one EXCEPT ![Len(one)] = longer]
  <2>1. Extended(one, line) = [one EXCEPT ![Len(one)] = [one[Len(one)] EXCEPT !.lines = Append(@, line)]]
    BY DEF Extended
  <2> QED BY <1>2, <1>3, <2>1
<1>5. [one EXCEPT ![Len(one)] = longer] \in Seq(Segments)
  BY <1>1, <1>3
<1>6. /\ Len([one EXCEPT ![Len(one)] = longer]) = Len(one)
      /\ \A n \in 1 .. Len(one) : [one EXCEPT ![Len(one)] = longer][n] = two[n]
  BY <1>3
<1>7. [one EXCEPT ![Len(one)] = longer] = two
  BY <1>3, <1>5, <1>6, SeqEqual
<1> QED BY <1>4, <1>7 DEF longer, one, two

LEMMA ExtendedBlock ==
    ASSUME NEW done \in Seq(Segments), NEW id, NEW lines, Block(id, lines) \in Segments, NEW line \in Lines
    PROVE  Extended(Append(done, Block(id, lines)), line) = Append(done, Block(id, Append(lines, line)))
<1>1. Block(id, lines).id = id /\ Block(id, lines).lines = lines
  BY DEF Block
<1>2. [id |-> id, lines |-> Append(lines, line)] = Block(id, Append(lines, line))
  BY DEF Block
<1> QED BY <1>1, <1>2, ExtendedLast

LEMMA LiteralIsBlock == ASSUME NEW lines PROVE Literal(lines) = Block(NoBlock, lines)
BY DEF Literal, Block

(* What the scan has made of the lines so far: the segments hold them all, and a block
   that is still open is the last one. *)
ScanOf(scan, text) ==
    \/ scan.open = Unreadable
    \/ /\ scan = [segments |-> scan.segments, open |-> NoBlock]
       /\ scan.segments \in Seq(Segments) /\ Shaped(scan.segments) /\ TextOf(scan.segments) = text
    \/ /\ scan.open \in BlockIds
       /\ \E done \in Seq(Segments), lines \in Seq(Lines) :
             /\ scan = [segments |-> Append(done, Block(scan.open, lines)), open |-> scan.open]
             /\ Shaped(done) /\ Opens(scan.open, lines) /\ TextOf(done) \o lines = text

LEMMA BlocksApart ==
    /\ NoBlock \notin BlockIds /\ Unreadable \notin BlockIds /\ Unreadable # NoBlock
    /\ NoBlock \notin Seq(Entries) /\ Unreadable \notin Seq(Segments)
BY BlocksAssumption

LEMMA BeginLine ==
    ASSUME NEW line, IsBegin(line)
    PROVE  line.body[2] \in BlockIds /\ line.body = BeginOf(line.body[2]) /\ ~IsEnd(line)
<1>1. PICK id \in BlockIds : line.body = BeginOf(id)
  BY DEF IsBegin
<1>2. line.body[2] = id
  BY <1>1 DEF BeginOf
<1>3. ~IsEnd(line)
  BY <1>1 DEF BeginOf, EndOf, IsEnd
<1> QED BY <1>1, <1>2, <1>3

LEMMA ScanClosed ==
    ASSUME NEW segments \in Seq(Segments), Shaped(segments)
    PROVE  ScanOf([segments |-> segments, open |-> NoBlock], TextOf(segments))
BY DEF ScanOf

LEMMA ScanOpen ==
    ASSUME NEW done \in Seq(Segments), NEW lines \in Seq(Lines), NEW id \in BlockIds,
           Shaped(done), Opens(id, lines)
    PROVE  ScanOf([segments |-> Append(done, Block(id, lines)), open |-> id], TextOf(done) \o lines)
<1> DEFINE scan == [segments |-> Append(done, Block(id, lines)), open |-> id]
<1>1. scan.open = id
  OBVIOUS
<1>2. scan = [segments |-> Append(done, Block(scan.open, lines)), open |-> scan.open]
  BY <1>1
<1> HIDE DEF scan
<1>3. /\ scan.open \in BlockIds /\ Opens(scan.open, lines)
  BY <1>1
<1> QED BY <1>2, <1>3, Zenon DEF ScanOf, scan

LEMMA ReadKeeps ==
    ASSUME NEW text \in Seq(Lines), NEW line \in Lines, NEW scan, ScanOf(scan, text)
    PROVE  ScanOf(Read(scan, line), Append(text, line))
<1>1. CASE scan.open = Unreadable
  <2>1. Read(scan, line) = scan
    BY <1>1, BlocksApart DEF Read
  <2> QED BY <1>1, <2>1 DEF ScanOf
<1>2. CASE /\ scan = [segments |-> scan.segments, open |-> NoBlock]
           /\ scan.segments \in Seq(Segments) /\ Shaped(scan.segments) /\ TextOf(scan.segments) = text
  <2> DEFINE segments == scan.segments
  <2>0. scan.open = NoBlock /\ scan.open # Unreadable /\ scan.open \notin BlockIds
    BY <1>2, BlocksApart
  <2>1. CASE IsBegin(line)
    <3> DEFINE id == line.body[2]
    <3>1. id \in BlockIds /\ line.body = BeginOf(id)
      BY <2>1, BeginLine
    <3> HIDE DEF id
    <3>2. Read(scan, line) = [segments |-> Append(segments, Block(id, <<line>>)), open |-> id]
      BY <2>0, <2>1 DEF Read, id
    <3>3. Opens(id, <<line>>) /\ <<line>> \in Seq(Lines)
      BY <3>1 DEF Opens
    <3>4. TextOf(segments) \o <<line>> = Append(text, line)
      BY <1>2
    <3>5. segments \in Seq(Segments) /\ Shaped(segments)
      BY <1>2
    <3> HIDE DEF segments
    <3> QED BY <3>1, <3>2, <3>3, <3>4, <3>5, ScanOpen
  <2>2. CASE ~IsBegin(line)
    <3> DEFINE after == IF segments # <<>> /\ Last(segments).id = NoBlock THEN Extended(segments, line)
                        ELSE Append(segments, Literal(<<line>>))
    <3>1. Read(scan, line) = [segments |-> after, open |-> NoBlock]
      <4>1. Read(scan, line) = [scan EXCEPT !.segments = after]
        BY <2>0, <2>2 DEF Read
      <4> HIDE DEF after
      <4>2. PICK old : scan = [segments |-> old, open |-> NoBlock]
        BY <1>2
      <4> QED BY <4>1, <4>2
    <3>0. segments \in Seq(Segments) /\ Shaped(segments) /\ TextOf(segments) = text
      BY <1>2
    <3> HIDE DEF segments
    <3>2. after \in Seq(Segments) /\ Shaped(after) /\ TextOf(after) = Append(text, line)
      <4>1. CASE segments # <<>> /\ Last(segments).id = NoBlock
        <5>1. PICK done \in Seq(Segments), segment \in Segments : segments = Append(done, segment)
          BY <3>0, <4>1, SequenceEmptyOrAppend
        <5> DEFINE longer == [id |-> segment.id, lines |-> Append(segment.lines, line)]
        <5>2. segment.id = NoBlock /\ segment.lines \in Seq(Lines)
          BY <4>1, <5>1, SegmentParts DEF Last
        <5>3. after = Append(done, longer)
          BY <4>1, <5>1, ExtendedLast
        <5>4. longer \in Segments
          BY <5>2 DEF Segments
        <5>5. /\ Shaped(done) /\ IsLiteral(segment)
              /\ done # <<>> => Last(done).id # NoBlock
          <6>1. /\ Shaped(done) /\ (IsLiteral(segment) \/ IsClosed(segment))
                /\ done # <<>> /\ Last(done).id = NoBlock => segment.id # NoBlock
            BY <3>0, <5>1, ShapedAppend
          <6> QED BY <5>2, <6>1, BlocksApart DEF IsClosed
        <5>6. IsLiteral(longer)
          <6>1. /\ Append(segment.lines, line) # <<>>
                /\ Len(Append(segment.lines, line)) = Len(segment.lines) + 1
                /\ \A n \in 1 .. Len(segment.lines) : Append(segment.lines, line)[n] = segment.lines[n]
                /\ Append(segment.lines, line)[Len(segment.lines) + 1] = line
                /\ Len(segment.lines) \in Nat
            BY <5>2
          <6> QED BY <2>2, <5>2, <5>5, <6>1 DEF IsLiteral
        <5> HIDE DEF after
        <5>7. Shaped(after)
          BY <5>2, <5>3, <5>4, <5>5, <5>6, ShapedAppend
        <5>8. TextOf(after) = TextOf(done) \o longer.lines /\ text = TextOf(done) \o segment.lines
          BY <3>0, <5>1, <5>3, <5>4, TextOfAppend
        <5>9. TextOf(done) \o Append(segment.lines, line) = Append(TextOf(done) \o segment.lines, line)
          <6>1. TextOf(done) \in Seq(Lines)
            BY TextOfType
          <6> QED BY <5>2, <6>1, ConcatAppended, SMTT(30)
        <5>10. longer.lines = Append(segment.lines, line) /\ after \in Seq(Segments)
          BY <5>3, <5>4
        <5> HIDE DEF longer
        <5> QED BY <5>7, <5>8, <5>9, <5>10
      <4>2. CASE ~(segments # <<>> /\ Last(segments).id = NoBlock)
        <5>1. Literal(<<line>>) \in Segments /\ IsLiteral(Literal(<<line>>))
          BY <2>2 DEF Literal, IsLiteral, Segments
        <5>2. after = Append(segments, Literal(<<line>>))
          BY <4>2
        <5> HIDE DEF after
        <5>3. Shaped(after)
          BY <3>0, <4>2, <5>1, <5>2, ShapedAppend
        <5>4. TextOf(after) = text \o <<line>>
          BY <3>0, <5>1, <5>2, TextOfAppend DEF Literal
        <5>5. text \o <<line>> = Append(text, line)
          OBVIOUS
        <5>6. after \in Seq(Segments)
          BY <3>0, <5>1, <5>2
        <5> QED BY <5>3, <5>4, <5>5, <5>6, Zenon
      <4> QED BY <4>1, <4>2
    <3> HIDE DEF after
    <3> QED BY <3>1, <3>2, ScanClosed
  <2> QED BY <2>1, <2>2
<1>3. CASE /\ scan.open \in BlockIds
           /\ \E done \in Seq(Segments), lines \in Seq(Lines) :
                 /\ scan = [segments |-> Append(done, Block(scan.open, lines)), open |-> scan.open]
                 /\ Shaped(done) /\ Opens(scan.open, lines) /\ TextOf(done) \o lines = text
  <2> DEFINE id == scan.open
  <2>1. PICK done \in Seq(Segments), lines \in Seq(Lines) :
                 /\ scan = [segments |-> Append(done, Block(id, lines)), open |-> id]
                 /\ Shaped(done) /\ Opens(id, lines) /\ TextOf(done) \o lines = text
    BY <1>3
  <2>2. id \in BlockIds /\ id # NoBlock /\ id # Unreadable
    BY <1>3, BlocksApart
  <2> DEFINE longer == Append(lines, line)
  <2>3. Block(id, lines) \in Segments /\ Block(id, longer) \in Segments
    BY <2>2 DEF Block, Segments
  <2>4. scan.segments = Append(done, Block(id, lines))
    BY <2>1
  <2>5. Extended(scan.segments, line) = Append(done, Block(id, longer))
    BY <2>3, <2>4, ExtendedLast DEF Block
  <2>6. Read(scan, line) = [segments |-> Append(done, Block(id, longer)),
                            open |-> IF ~IsEnd(line) THEN id
                                     ELSE IF line.body = EndOf(id) THEN NoBlock ELSE Unreadable]
    BY <2>2, <2>5 DEF Read
  <2>7. TextOf(done) \o longer = Append(text, line)
    <3>1. TextOf(done) \in Seq(Lines)
      BY TextOfType
    <3>2. TextOf(done) \o longer = Append(TextOf(done) \o lines, line)
      BY <3>1, ConcatAppended, SMTT(30)
    <3> QED BY <2>1, <3>2, Zenon
  <2>8. /\ Len(longer) = Len(lines) + 1 /\ longer[Len(lines) + 1] = line /\ Len(lines) \in Nat
        /\ \A n \in 1 .. Len(lines) : longer[n] = lines[n]
        /\ longer \in Seq(Lines)
    OBVIOUS
  <2> HIDE DEF longer, id
  <2>9. CASE ~IsEnd(line)
    <3>1. Opens(id, longer)
      <4>1. Len(lines) >= 1 /\ lines[1].body = BeginOf(id) /\ \A n \in 2 .. Len(lines) : ~IsEnd(lines[n])
        BY <2>1 DEF Opens
      <4>2. Len(longer) >= 1 /\ longer[1] = lines[1]
        BY <2>8, <4>1
      <4>3. ASSUME NEW n \in 2 .. Len(longer) PROVE ~IsEnd(longer[n])
        BY <2>8, <2>9, <4>1
      <4> QED BY <4>1, <4>2, <4>3 DEF Opens
    <3>2. Read(scan, line) = [segments |-> Append(done, Block(id, longer)), open |-> id]
      BY <2>6, <2>9
    <3> QED BY <2>1, <2>2, <2>7, <2>8, <3>1, <3>2, ScanOpen
  <2>10. CASE IsEnd(line) /\ line.body = EndOf(id)
    <3> DEFINE after == Append(done, Block(id, longer))
    <3>1. IsClosed(Block(id, longer))
      <4>1. Len(lines) >= 1 /\ lines[1].body = BeginOf(id) /\ \A n \in 2 .. Len(lines) : ~IsEnd(lines[n])
        BY <2>1 DEF Opens
      <4>2. Len(longer) >= 2 /\ longer[1] = lines[1] /\ longer[Len(longer)] = line
        BY <2>8, <4>1
      <4>3. ASSUME NEW n \in 2 .. Len(longer) - 1 PROVE ~IsEnd(longer[n])
        BY <2>8, <4>1
      <4> QED BY <2>2, <2>10, <4>1, <4>2, <4>3 DEF IsClosed, Block
    <3>2. after \in Seq(Segments) /\ Shaped(after)
      BY <2>1, <2>2, <2>3, <3>1, ShapedAppend DEF Block
    <3>3. TextOf(after) = Append(text, line)
      BY <2>3, <2>7, TextOfAppend DEF Block
    <3>4. Read(scan, line) = [segments |-> after, open |-> NoBlock]
      BY <2>6, <2>10
    <3> HIDE DEF after
    <3> QED BY <3>2, <3>3, <3>4, ScanClosed
  <2>11. CASE IsEnd(line) /\ line.body # EndOf(id)
    BY <2>6, <2>11 DEF ScanOf
  <2> QED BY <2>9, <2>10, <2>11
<1> QED BY <1>1, <1>2, <1>3 DEF ScanOf

LEMMA ScanHolds ==
    ASSUME NEW text \in Seq(Lines)
    PROVE  ScanOf(Scan(text), text)
<1> DEFINE T == {t \in Seq(Lines) : ScanOf(Scan(t), t)}
<1>1. <<>> \in T
  <2>1. <<>> \in Seq(Segments) /\ <<>> \in Seq(Lines)
    OBVIOUS
  <2>2. ScanOf([segments |-> <<>>, open |-> NoBlock], TextOf(<<>>))
    BY <2>1, ShapedEmpty, ScanClosed
  <2> QED BY <2>1, <2>2, TextOfEmpty, ScanEmpty DEF Start
<1>2. ASSUME NEW t \in T, NEW line \in Lines PROVE Append(t, line) \in T
  <2>1. t \in Seq(Lines) /\ ScanOf(Scan(t), t)
    OBVIOUS
  <2>2. Scan(Append(t, line)) = Read(Scan(t), line)
    BY <2>1, ScanAppend
  <2>3. ScanOf(Read(Scan(t), line), Append(t, line))
    BY <2>1, ReadKeeps
  <2>4. Append(t, line) \in Seq(Lines)
    BY <2>1
  <2> QED BY <2>2, <2>3, <2>4
<1>3. T = Seq(Lines)
  <2>1. T \in SUBSET Seq(Lines)
    OBVIOUS
  <2> HIDE DEF T
  <2> QED BY <1>1, <1>2, <2>1, SeqInd
<1> QED BY <1>3

\* A text that can be read is made of its segments.
LEMMA ParseHolds ==
    ASSUME NEW text \in Seq(Lines), Readable(text)
    PROVE  /\ Parse(text) \in Seq(Segments) /\ Shaped(Parse(text))
           /\ TextOf(Parse(text)) = text
<1>1. Scan(text).open = NoBlock /\ Parse(text) = Scan(text).segments
  BY DEF Readable, Parse
<1> QED BY <1>1, ScanHolds, BlocksApart DEF ScanOf

LEMMA TakeOne ==
    ASSUME NEW S, NEW s \in Seq(S), NEW k \in 1 .. Len(s)
    PROVE  /\ SubSeq(s, 1, k) \in Seq(S) /\ Len(SubSeq(s, 1, k)) = k
           /\ \A n \in 1 .. k : SubSeq(s, 1, k)[n] = s[n]
           /\ k > 1 => SubSeq(s, 1, k) = Append(SubSeq(s, 1, k - 1), s[k])
           /\ SubSeq(s, 1, 1) = <<s[1]>> /\ s[k] \in S
           /\ SubSeq(s, 1, Len(s)) = s
<1>1. /\ SubSeq(s, 1, k) \in Seq(S) /\ Len(SubSeq(s, 1, k)) = k
      /\ \A n \in 1 .. k : SubSeq(s, 1, k)[n] = s[n]
  OBVIOUS
<1>2. ASSUME k > 1 PROVE SubSeq(s, 1, k) = Append(SubSeq(s, 1, k - 1), s[k])
  <2>1. /\ SubSeq(s, 1, k - 1) \in Seq(S) /\ Len(SubSeq(s, 1, k - 1)) = k - 1
        /\ \A n \in 1 .. k - 1 : SubSeq(s, 1, k - 1)[n] = s[n] /\ s[k] \in S
    BY <1>2
  <2>2. /\ Append(SubSeq(s, 1, k - 1), s[k]) \in Seq(S) /\ Len(Append(SubSeq(s, 1, k - 1), s[k])) = k
        /\ \A n \in 1 .. k : Append(SubSeq(s, 1, k - 1), s[k])[n] = s[n]
    BY <1>2, <2>1
  <2> QED BY <1>1, <2>2, SeqEqual
<1>3. SubSeq(s, 1, 1) = <<s[1]>> /\ s[k] \in S
  <2>1. 1 \in 1 .. Len(s) /\ s[k] \in S /\ s[1] \in S
    OBVIOUS
  <2>2. SubSeq(s, 1, 1) \in Seq(S) /\ Len(SubSeq(s, 1, 1)) = 1 /\ SubSeq(s, 1, 1)[1] = s[1]
    BY <2>1
  <2>3. <<s[1]>> \in Seq(S) /\ Len(<<s[1]>>) = 1 /\ <<s[1]>>[1] = s[1]
    BY <2>1
  <2>4. \A i \in 1 .. Len(SubSeq(s, 1, 1)) : SubSeq(s, 1, 1)[i] = <<s[1]>>[i]
    BY <2>2, <2>3
  <2>5. Len(SubSeq(s, 1, 1)) = Len(<<s[1]>>)
    BY <2>2, <2>3
  <2> QED BY <2>1, <2>2, <2>3, <2>4, <2>5, SeqEqual
<1>4. SubSeq(s, 1, Len(s)) = s
  BY SubSeqFull
<1> QED BY <1>1, <1>2, <1>3, <1>4

LEMMA ScanLiteral ==
    ASSUME NEW text \in Seq(Lines), NEW done \in Seq(Segments),
           Scan(text) = [segments |-> done, open |-> NoBlock],
           done # <<>> => Last(done).id # NoBlock,
           NEW lines \in Seq(Lines), IsLiteral(Literal(lines))
    PROVE  Scan(text \o lines) = [segments |-> Append(done, Literal(lines)), open |-> NoBlock]
<1> DEFINE part(k) == SubSeq(lines, 1, k)
           after(k) == [segments |-> Append(done, Literal(part(k))), open |-> NoBlock]
           T == {k \in 1 .. Len(lines) : Scan(text \o part(k)) = after(k)}
<1>1. Len(lines) \in Nat /\ Len(lines) >= 1 /\ \A n \in 1 .. Len(lines) : ~IsBegin(lines[n])
  BY DEF IsLiteral, Literal
<1>2. 1 \in T
  <2>0. 1 \in 1 .. Len(lines)
    BY <1>1
  <2>1. part(1) = <<lines[1]>> /\ lines[1] \in Lines
    BY <2>0, TakeOne
  <2>2. text \o part(1) = Append(text, lines[1])
    BY <2>1
  <2>3. Scan(text \o part(1)) = Read(Scan(text), lines[1])
    BY <2>1, <2>2, ScanAppend
  <2> DEFINE scan == [segments |-> done, open |-> NoBlock]
  <2>4. /\ scan.open = NoBlock /\ scan.open # Unreadable /\ scan.open \notin BlockIds
        /\ scan.segments = done /\ ~IsBegin(lines[1])
    BY <1>1, BlocksApart
  <2>5. Read(scan, lines[1]) = [scan EXCEPT !.segments = Append(done, Literal(<<lines[1]>>))]
    <3> HIDE DEF scan
    <3> QED BY <2>4 DEF Read
  <2>6. Read(scan, lines[1]) = after(1)
    BY <2>1, <2>5
  <2>7. 1 \in 1 .. Len(lines)
    BY <1>1
  <2> HIDE DEF part, after
  <2> QED BY <2>3, <2>6, <2>7
<1>3. ASSUME NEW k \in 1 + 1 .. Len(lines), k - 1 \in T PROVE k \in T
  <2>1. /\ part(k) = Append(part(k - 1), lines[k]) /\ lines[k] \in Lines
        /\ part(k - 1) \in Seq(Lines) /\ part(k) \in Seq(Lines)
    <3>1. k \in 1 .. Len(lines) /\ k - 1 \in 1 .. Len(lines) /\ k > 1
      BY <1>1
    <3> QED BY <3>1, TakeOne
  <2>2. Scan(text \o part(k - 1)) = after(k - 1)
    BY <1>3
  <2>3. k \in 1 .. Len(lines) /\ ~IsBegin(lines[k])
    BY <1>1
  <2> DEFINE before == Append(done, Literal(part(k - 1)))
             scan == [segments |-> before, open |-> NoBlock]
  <2>4. Literal(part(k - 1)) \in Segments
    BY <2>1 DEF Literal, Segments
  <2> HIDE DEF part
  <2>5. Last(before).id = NoBlock /\ before # <<>>
    <3>1. /\ Len(before) = Len(done) + 1 /\ before[Len(done) + 1] = Literal(part(k - 1))
          /\ before \in Seq(Segments) /\ Len(done) \in Nat
      BY <2>4, AppendedElements
    <3>2. Literal(part(k - 1)).id = NoBlock
      BY DEF Literal
    <3> HIDE DEF before
    <3> QED BY <3>1, <3>2 DEF Last
  <2>6. Extended(before, lines[k]) = Append(done, Literal(part(k)))
    <3>1. Extended(before, lines[k]) = Append(done, Literal(Append(part(k - 1), lines[k])))
      <4>1. \A l : Literal(l) = Block(NoBlock, l)
        BY LiteralIsBlock
      <4>2. Block(NoBlock, part(k - 1)) \in Segments
        BY <2>4, <4>1
      <4>3. Extended(Append(done, Block(NoBlock, part(k - 1))), lines[k])
               = Append(done, Block(NoBlock, Append(part(k - 1), lines[k])))
        BY <2>1, <4>2, ExtendedBlock, SMTT(30)
      <4> QED BY <4>1, <4>3
    <3> QED BY <2>1, <3>1, Zenon
  <2>7. Scan(text \o part(k)) = Read(scan, lines[k])
    <3>0. ASSUME NEW u \in Seq(Lines), NEW e \in Lines
          PROVE  text \o Append(u, e) = Append(text \o u, e)
      BY SMTT(30)
    <3>1. text \o Append(part(k - 1), lines[k]) = Append(text \o part(k - 1), lines[k])
      BY <2>1, <3>0, Zenon
    <3>2. text \o part(k - 1) \in Seq(Lines)
      BY <2>1
    <3>3. text \o part(k) = Append(text \o part(k - 1), lines[k])
      BY <2>1, <3>1, Zenon
    <3> QED BY <2>1, <2>2, <3>2, <3>3, ScanAppend
  <2> HIDE DEF before
  <2>8. scan.open = NoBlock /\ scan.open # Unreadable /\ scan.open \notin BlockIds /\ scan.segments = before
    BY BlocksApart
  <2>9. Read(scan, lines[k]) = [scan EXCEPT !.segments = Extended(before, lines[k])]
    <3> HIDE DEF scan
    <3> QED BY <2>3, <2>5, <2>8 DEF Read
  <2>10. Read(scan, lines[k]) = after(k)
    BY <2>6, <2>9
  <2> HIDE DEF scan, after
  <2> QED BY <2>3, <2>7, <2>10
<1>4. \A k \in 1 .. Len(lines) : k \in T
  <2> HIDE DEF T
  <2> QED BY <1>1, <1>2, <1>3, IntervalInd
<1>5. part(Len(lines)) = lines /\ Len(lines) \in T
  <2>1. part(Len(lines)) = lines
    BY SubSeqFull
  <2> HIDE DEF T, part
  <2> QED BY <1>1, <1>4, <2>1
<1> QED BY <1>5

LEMMA ScanBlock ==
    ASSUME NEW text \in Seq(Lines), NEW done \in Seq(Segments),
           Scan(text) = [segments |-> done, open |-> NoBlock],
           NEW id \in BlockIds, NEW lines \in Seq(Lines), IsClosed(Block(id, lines))
    PROVE  Scan(text \o lines) = [segments |-> Append(done, Block(id, lines)), open |-> NoBlock]
<1> DEFINE last == Len(lines)
           part(k) == SubSeq(lines, 1, k)
           after(k) == [segments |-> Append(done, Block(id, part(k))),
                        open |-> IF k = last THEN NoBlock ELSE id]
           T == {k \in 1 .. last : Scan(text \o part(k)) = after(k)}
<1>1. /\ last \in Nat /\ last >= 2 /\ lines[1].body = BeginOf(id) /\ lines[last].body = EndOf(id)
      /\ \A n \in 2 .. last - 1 : ~IsEnd(lines[n])
  BY DEF IsClosed, Block
<1>2. 1 \in T
  <2>0. 1 \in 1 .. last /\ 1 # last
    BY <1>1
  <2>1. part(1) = <<lines[1]>> /\ lines[1] \in Lines
    BY <2>0, TakeOne
  <2>2. text \o part(1) = Append(text, lines[1])
    BY <2>1
  <2>3. Scan(text \o part(1)) = Read(Scan(text), lines[1])
    BY <2>1, <2>2, ScanAppend
  <2> DEFINE scan == [segments |-> done, open |-> NoBlock]
  <2>4. /\ scan.open = NoBlock /\ scan.open # Unreadable /\ scan.open \notin BlockIds
        /\ scan.segments = done /\ IsBegin(lines[1]) /\ lines[1].body[2] = id
    BY <1>1, BlocksApart DEF IsBegin, BeginOf
  <2>5. Read(scan, lines[1]) = [segments |-> Append(done, Block(id, <<lines[1]>>)), open |-> id]
    <3> HIDE DEF scan
    <3> QED BY <2>4 DEF Read
  <2>6. Read(scan, lines[1]) = after(1)
    BY <2>0, <2>1, <2>5
  <2> HIDE DEF part, after
  <2> QED BY <2>0, <2>3, <2>6
<1>3. ASSUME NEW k \in 1 + 1 .. last, k - 1 \in T PROVE k \in T
  <2>1. /\ part(k) = Append(part(k - 1), lines[k]) /\ lines[k] \in Lines
        /\ part(k - 1) \in Seq(Lines) /\ part(k) \in Seq(Lines)
    <3>1. k \in 1 .. Len(lines) /\ k - 1 \in 1 .. Len(lines) /\ k > 1
      BY <1>1
    <3> QED BY <3>1, TakeOne
  <2>2. Scan(text \o part(k - 1)) = [segments |-> Append(done, Block(id, part(k - 1))), open |-> id]
    <3>1. k - 1 # last
      BY <1>1
    <3>2. Scan(text \o part(k - 1)) = after(k - 1)
      BY <1>3
    <3> HIDE DEF part, last
    <3> QED BY <3>1, <3>2
  <2>3. k \in 1 .. last /\ IF k = last THEN lines[k].body = EndOf(id) ELSE ~IsEnd(lines[k])
    BY <1>1
  <2> DEFINE before == Append(done, Block(id, part(k - 1)))
             scan == [segments |-> before, open |-> id]
  <2>4. Block(id, part(k - 1)) \in Segments
    BY <2>1 DEF Block, Segments
  <2> HIDE DEF part
  <2>6. Extended(before, lines[k]) = Append(done, Block(id, part(k)))
    <3>1. Extended(before, lines[k]) = Append(done, Block(id, Append(part(k - 1), lines[k])))
      BY <2>1, <2>4, ExtendedBlock
    <3> QED BY <2>1, <3>1, Zenon
  <2>7. Scan(text \o part(k)) = Read(scan, lines[k])
    <3>0. \A u \in Seq(Lines), e \in Lines : text \o Append(u, e) = Append(text \o u, e)
      BY ConcatAppended
    <3>1. text \o Append(part(k - 1), lines[k]) = Append(text \o part(k - 1), lines[k])
      BY <2>1, <3>0, Zenon
    <3>2. text \o part(k - 1) \in Seq(Lines)
      BY <2>1
    <3>3. text \o part(k) = Append(text \o part(k - 1), lines[k])
      BY <2>1, <3>1, Zenon
    <3> QED BY <2>1, <2>2, <3>2, <3>3, ScanAppend
  <2> HIDE DEF before
  <2>8. scan.open = id /\ id # NoBlock /\ id # Unreadable /\ scan.segments = before
    BY BlocksApart
  <2>9. Read(scan, lines[k]) = [segments |-> Extended(before, lines[k]),
                               open |-> IF k = last THEN NoBlock ELSE id]
    <3> HIDE DEF scan, last
    <3>1. Read(scan, lines[k]) = [segments |-> Extended(before, lines[k]),
                                  open |-> IF ~IsEnd(lines[k]) THEN id
                                           ELSE IF lines[k].body = EndOf(id) THEN NoBlock ELSE Unreadable]
      BY <2>8 DEF Read
    <3>2. k = last => IsEnd(lines[k])
      BY <2>3 DEF IsEnd
    <3> QED BY <2>3, <3>1, <3>2
  <2>10. Read(scan, lines[k]) = after(k)
    BY <2>6, <2>9
  <2> HIDE DEF scan, after
  <2> QED BY <2>3, <2>7, <2>10
<1>4. \A k \in 1 .. last : k \in T
  <2> HIDE DEF T
  <2> QED BY <1>1, <1>2, <1>3, IntervalInd
<1>5. last \in 1 .. last
  BY <1>1
<1>6. part(last) = lines
  BY SubSeqFull
<1>7. Scan(text \o part(last)) = after(last)
  BY <1>4, <1>5
<1> HIDE DEF last
<1> QED BY <1>6, <1>7

\* Segments of this shape are read back as they are.
LEMMA ParseOfShaped ==
    ASSUME NEW segments \in Seq(Segments), Shaped(segments)
    PROVE  Readable(TextOf(segments)) /\ Parse(TextOf(segments)) = segments
<1> DEFINE T == {s \in Seq(Segments) :
                    Shaped(s) => Scan(TextOf(s)) = [segments |-> s, open |-> NoBlock]}
<1>1. <<>> \in T
  BY TextOfEmpty, ScanEmpty DEF Start
<1>2. ASSUME NEW s \in T, NEW segment \in Segments PROVE Append(s, segment) \in T
  <2>1. s \in Seq(Segments) /\ Append(s, segment) \in Seq(Segments)
    OBVIOUS
  <2> SUFFICES ASSUME Shaped(Append(s, segment))
               PROVE  Scan(TextOf(Append(s, segment))) = [segments |-> Append(s, segment), open |-> NoBlock]
    BY <2>1
  <2>2. /\ Shaped(s) /\ (IsLiteral(segment) \/ IsClosed(segment))
        /\ s # <<>> /\ Last(s).id = NoBlock => segment.id # NoBlock
    BY <2>1, ShapedAppend
  <2>3. Scan(TextOf(s)) = [segments |-> s, open |-> NoBlock]
    BY <2>2
  <2> HIDE DEF T
  <2>4. TextOf(s) \in Seq(Lines) /\ TextOf(Append(s, segment)) = TextOf(s) \o segment.lines
    BY <2>1, TextOfType, TextOfAppend
  <2>5. segment.lines \in Seq(Lines) /\ segment = [id |-> segment.id, lines |-> segment.lines]
    BY SegmentParts
  <2>6. CASE IsLiteral(segment)
    <3>1. segment = Literal(segment.lines)
      BY <2>5, <2>6 DEF IsLiteral, Literal
    <3>2. s # <<>> => Last(s).id # NoBlock
      BY <2>2, <2>6 DEF IsLiteral
    <3> QED BY <2>1, <2>3, <2>4, <2>5, <2>6, <3>1, <3>2, ScanLiteral
  <2>7. CASE IsClosed(segment)
    <3>1. segment = Block(segment.id, segment.lines) /\ segment.id \in BlockIds
      BY <2>5, <2>7 DEF IsClosed, Block
    <3> QED BY <2>1, <2>3, <2>4, <2>5, <2>7, <3>1, ScanBlock
  <2> QED BY <2>2, <2>6, <2>7
<1>3. T = Seq(Segments)
  <2>1. T \in SUBSET Seq(Segments)
    OBVIOUS
  <2> HIDE DEF T
  <2> QED BY <1>1, <1>2, <2>1, SeqInd
<1>4. Scan(TextOf(segments)) = [segments |-> segments, open |-> NoBlock]
  BY <1>3
<1>5. Parse(TextOf(segments)) = segments
  BY <1>4 DEF Parse
<1> QED BY <1>5, BlocksApart DEF Readable

-----------------------------------------------------------------------------
(* A text up to the ends of its lines *)

AllEnded(lines) == [n \in DOMAIN lines |-> Line(lines[n].body)]

EndedSegment(segment) == Block(segment.id, AllEnded(segment.lines))

EndedSegments(segments) == [n \in DOMAIN segments |-> EndedSegment(segments[n])]

WholeLines(segments) == \A n \in 1 .. Len(segments) : LinesEnd(segments[n].lines)

LEMMA LineParts ==
    ASSUME NEW line \in Lines
    PROVE  /\ line.body \in Bodies /\ Line(line.body) \in Lines /\ Line(line.body).body = line.body
           /\ Line(line.body).ended
           /\ line.ended => line = Line(line.body)
BY DEF Lines, Line

LEMMA AllEndedHolds ==
    ASSUME NEW lines \in Seq(Lines)
    PROVE  /\ AllEnded(lines) \in Seq(Lines) /\ Len(AllEnded(lines)) = Len(lines)
           /\ \A n \in 1 .. Len(lines) : /\ AllEnded(lines)[n] = Line(lines[n].body)
                                         /\ AllEnded(lines)[n].body = lines[n].body
                                         /\ AllEnded(lines)[n].ended
<1>1. \A n \in 1 .. Len(lines) : lines[n] \in Lines
  OBVIOUS
<1>2. DOMAIN lines = 1 .. Len(lines) /\ Len(lines) \in Nat
  OBVIOUS
<1>3. \A n \in 1 .. Len(lines) : AllEnded(lines)[n] = Line(lines[n].body)
  BY <1>2 DEF AllEnded
<1>4. AllEnded(lines) = [n \in 1 .. Len(lines) |-> Line(lines[n].body)]
  BY <1>2 DEF AllEnded
<1>5. \A n \in 1 .. Len(lines) : Line(lines[n].body) \in Lines
  BY <1>1, LineParts
<1>6. AllEnded(lines) \in Seq(Lines) /\ Len(AllEnded(lines)) = Len(lines)
  BY <1>2, <1>4, <1>5
<1>7. ASSUME NEW n \in 1 .. Len(lines)
      PROVE  AllEnded(lines)[n].body = lines[n].body /\ AllEnded(lines)[n].ended
  <2>1. lines[n] \in Lines /\ AllEnded(lines)[n] = Line(lines[n].body)
    BY <1>1, <1>3
  <2>2. Line(lines[n].body).body = lines[n].body /\ Line(lines[n].body).ended
    BY <2>1, LineParts
  <2> QED BY <2>1, <2>2, Zenon
<1> QED BY <1>3, <1>6, <1>7

LEMMA AllEndedTwice ==
    ASSUME NEW lines \in Seq(Lines)
    PROVE  AllEnded(AllEnded(lines)) = AllEnded(lines)
<1> DEFINE once == AllEnded(lines)
           twice == AllEnded(once)
<1>1. /\ once \in Seq(Lines) /\ Len(once) = Len(lines)
      /\ \A n \in 1 .. Len(lines) : once[n] = Line(lines[n].body) /\ once[n].body = lines[n].body
  BY AllEndedHolds
<1> HIDE DEF once
<1>2. /\ twice \in Seq(Lines) /\ Len(twice) = Len(once)
      /\ \A n \in 1 .. Len(once) : twice[n] = Line(once[n].body)
  BY <1>1, AllEndedHolds
<1> HIDE DEF twice
<1>3. \A n \in 1 .. Len(twice) : twice[n] = once[n]
  BY <1>1, <1>2
<1>4. twice = once
  BY <1>1, <1>2, <1>3, SeqEqual
<1> QED BY <1>4 DEF twice, once

LEMMA AllEndedConcat ==
    ASSUME NEW one \in Seq(Lines), NEW two \in Seq(Lines)
    PROVE  AllEnded(one \o two) = AllEnded(one) \o AllEnded(two)
<1> DEFINE both == one \o two
           left == AllEnded(both)
           right == AllEnded(one) \o AllEnded(two)
<1>1. /\ both \in Seq(Lines) /\ Len(both) = Len(one) + Len(two) /\ Len(one) \in Nat /\ Len(two) \in Nat
      /\ \A n \in 1 .. Len(one) + Len(two) : both[n] = IF n <= Len(one) THEN one[n] ELSE two[n - Len(one)]
  BY ConcatProperties
<1> HIDE DEF both
<1>2. /\ left \in Seq(Lines) /\ Len(left) = Len(both)
      /\ \A n \in 1 .. Len(both) : left[n] = Line(both[n].body)
  BY <1>1, AllEndedHolds
<1>3. /\ AllEnded(one) \in Seq(Lines) /\ Len(AllEnded(one)) = Len(one)
      /\ AllEnded(two) \in Seq(Lines) /\ Len(AllEnded(two)) = Len(two)
      /\ \A n \in 1 .. Len(one) : AllEnded(one)[n] = Line(one[n].body)
      /\ \A n \in 1 .. Len(two) : AllEnded(two)[n] = Line(two[n].body)
  BY AllEndedHolds
<1>4. /\ right \in Seq(Lines) /\ Len(right) = Len(one) + Len(two)
      /\ \A n \in 1 .. Len(one) + Len(two) :
            right[n] = IF n <= Len(one) THEN AllEnded(one)[n] ELSE AllEnded(two)[n - Len(one)]
  <2> DEFINE a == AllEnded(one)
             b == AllEnded(two)
  <2>1. a \in Seq(Lines) /\ b \in Seq(Lines) /\ Len(a) = Len(one) /\ Len(b) = Len(two)
    BY <1>3
  <2> HIDE DEF a, b
  <2>2. /\ a \o b \in Seq(Lines) /\ Len(a \o b) = Len(a) + Len(b)
        /\ \A n \in 1 .. Len(a) + Len(b) : (a \o b)[n] = IF n <= Len(a) THEN a[n] ELSE b[n - Len(a)]
    BY <2>1, ConcatProperties
  <2>3. /\ a \o b \in Seq(Lines) /\ Len(a \o b) = Len(one) + Len(two)
        /\ \A n \in 1 .. Len(one) + Len(two) : (a \o b)[n] = IF n <= Len(one) THEN a[n] ELSE b[n - Len(one)]
    BY <2>1, <2>2
  <2> QED BY <2>3 DEF a, b
<1> HIDE DEF left, right
<1>5. ASSUME NEW n \in 1 .. Len(left) PROVE left[n] = right[n]
  <2>1. CASE n <= Len(one)
    <3>1. n \in 1 .. Len(one) /\ n \in 1 .. Len(one) + Len(two) /\ n \in 1 .. Len(both)
      BY <1>1, <1>2, <2>1
    <3>2. left[n] = Line(one[n].body)
      BY <1>1, <1>2, <2>1, <3>1
    <3>3. right[n] = Line(one[n].body)
      BY <1>3, <1>4, <2>1, <3>1
    <3> QED BY <3>2, <3>3
  <2>2. CASE ~(n <= Len(one))
    <3>1. n - Len(one) \in 1 .. Len(two) /\ n \in 1 .. Len(one) + Len(two)
      BY <1>1, <1>2, <2>2
    <3>2. left[n] = Line(two[n - Len(one)].body)
      BY <1>1, <1>2, <2>2, <3>1
    <3>3. right[n] = Line(two[n - Len(one)].body)
      BY <1>3, <1>4, <2>2, <3>1
    <3> QED BY <3>2, <3>3
  <2> QED BY <2>1, <2>2
<1>6. left = right
  BY <1>1, <1>2, <1>4, <1>5, SeqEqual
<1> QED BY <1>6 DEF left, right, both

\* Where only the last line may lack its end, ending it ends all.
LEMMA EndedIsAllEnded ==
    ASSUME NEW text \in Seq(Lines), LinesEnd(text)
    PROVE  Ended(text) = AllEnded(text)
<1> DEFINE last == Len(text)
<1>1. CASE text = <<>>
  <2>1. AllEnded(text) = <<>>
    BY <1>1 DEF AllEnded
  <2> QED BY <1>1, <2>1 DEF Ended
<1>2. CASE text # <<>>
  <2>1. last \in 1 .. last /\ last \in Nat /\ \A n \in 1 .. last : text[n] \in Lines
    BY <1>2
  <2>4. Line(text[last].body) \in Lines
    BY <2>1, LineParts
  <2>5. Ended(text) = [text EXCEPT ![last] = Line(text[last].body)]
    BY <1>2 DEF Ended
  <2>6. /\ Ended(text) \in Seq(Lines) /\ Len(Ended(text)) = last
        /\ \A n \in 1 .. last : Ended(text)[n] = IF n = last THEN Line(text[last].body) ELSE text[n]
    BY <2>1, <2>4, <2>5, ExceptSeq
  <2>7. \A n \in 1 .. last : n # last => text[n] = Line(text[n].body)
    <3>1. \A n \in 1 .. last : n # last => text[n].ended
      BY <2>1 DEF LinesEnd
    <3> SUFFICES ASSUME NEW n \in 1 .. last, n # last PROVE text[n] = Line(text[n].body)
      OBVIOUS
    <3>2. text[n] \in Lines /\ text[n].ended
      BY <2>1, <3>1
    <3> QED BY <3>2, LineParts
  <2>8. /\ AllEnded(text) \in Seq(Lines) /\ Len(AllEnded(text)) = last
        /\ \A n \in 1 .. last : AllEnded(text)[n] = Line(text[n].body)
    BY AllEndedHolds
  <2>9. \A n \in 1 .. Len(Ended(text)) : Ended(text)[n] = AllEnded(text)[n]
    BY <2>6, <2>7, <2>8
  <2> QED BY <2>6, <2>8, <2>9, SeqEqual
<1> QED BY <1>1, <1>2

LEMMA LinesEndConcat ==
    ASSUME NEW one \in Seq(Lines), NEW two \in Seq(Lines)
    PROVE  /\ LinesEnd(one \o two) => LinesEnd(one) /\ LinesEnd(two)
           /\ LinesEnd(two) => LinesEnd(AllEnded(one) \o two)
<1>1. /\ Len(one \o two) = Len(one) + Len(two) /\ Len(one) \in Nat /\ Len(two) \in Nat
      /\ \A n \in 1 .. Len(one) + Len(two) : (one \o two)[n] = IF n <= Len(one) THEN one[n] ELSE two[n - Len(one)]
  BY ConcatProperties
<1>2. ASSUME LinesEnd(one \o two) PROVE LinesEnd(one) /\ LinesEnd(two)
  <2>1. \A n \in 1 .. Len(one) + Len(two) - 1 : (one \o two)[n].ended
    BY <1>1, <1>2 DEF LinesEnd
  <2>2. ASSUME NEW n \in 1 .. Len(one) - 1 PROVE one[n].ended
    BY <1>1, <2>1
  <2>3. ASSUME NEW n \in 1 .. Len(two) - 1 PROVE two[n].ended
    <3>1. /\ n + Len(one) \in 1 .. Len(one) + Len(two) - 1 /\ n + Len(one) \in 1 .. Len(one) + Len(two)
          /\ ~(n + Len(one) <= Len(one)) /\ (n + Len(one)) - Len(one) = n
      BY <1>1
    <3> QED BY <1>1, <2>1, <3>1
  <2> QED BY <2>2, <2>3 DEF LinesEnd
<1>3. ASSUME LinesEnd(two) PROVE LinesEnd(AllEnded(one) \o two)
  <2> DEFINE ended == AllEnded(one)
             both == ended \o two
  <2>1. ended \in Seq(Lines) /\ Len(ended) = Len(one) /\ \A n \in 1 .. Len(one) : ended[n].ended
    BY AllEndedHolds
  <2> HIDE DEF ended
  <2>2. /\ Len(both) = Len(one) + Len(two)
        /\ \A n \in 1 .. Len(one) + Len(two) : both[n] = IF n <= Len(one) THEN ended[n] ELSE two[n - Len(one)]
    <3>1. /\ Len(ended \o two) = Len(ended) + Len(two)
          /\ \A n \in 1 .. Len(ended) + Len(two) :
                (ended \o two)[n] = IF n <= Len(ended) THEN ended[n] ELSE two[n - Len(ended)]
      BY <2>1, ConcatProperties
    <3> QED BY <2>1, <3>1
  <2> HIDE DEF both
  <2>3. ASSUME NEW n \in 1 .. Len(both) - 1 PROVE both[n].ended
    <3>1. CASE n <= Len(one)
      BY <1>1, <2>1, <2>2, <3>1
    <3>2. CASE ~(n <= Len(one))
      <4>1. n - Len(one) \in 1 .. Len(two) - 1 /\ n \in 1 .. Len(one) + Len(two)
        BY <1>1, <2>2, <3>2
      <4>2. two[n - Len(one)].ended
        BY <1>3, <4>1 DEF LinesEnd
      <4> QED BY <2>2, <3>2, <4>1, <4>2
    <3> QED BY <3>1, <3>2
  <2>4. LinesEnd(both)
    BY <2>3 DEF LinesEnd
  <2> QED BY <2>4 DEF both, ended
<1> QED BY <1>2, <1>3

LEMMA EndedSegmentHolds ==
    ASSUME NEW segment \in Segments
    PROVE  /\ EndedSegment(segment) \in Segments /\ EndedSegment(segment).id = segment.id
           /\ EndedSegment(segment).lines = AllEnded(segment.lines)
           /\ EndedSegment(EndedSegment(segment)) = EndedSegment(segment)
<1>1. segment.id \in BlockIds \cup {NoBlock} /\ segment.lines \in Seq(Lines)
  BY SegmentParts
<1>2. AllEnded(segment.lines) \in Seq(Lines) /\ AllEnded(AllEnded(segment.lines)) = AllEnded(segment.lines)
  BY <1>1, AllEndedHolds, AllEndedTwice
<1>3. ASSUME NEW id, NEW lines PROVE Block(id, lines).id = id /\ Block(id, lines).lines = lines
  BY DEF Block
<1>4. ASSUME NEW id \in BlockIds \cup {NoBlock}, NEW lines \in Seq(Lines) PROVE Block(id, lines) \in Segments
  BY DEF Block, Segments
<1> QED BY <1>1, <1>2, <1>3, <1>4 DEF EndedSegment

LEMMA EndedSegmentsHolds ==
    ASSUME NEW segments \in Seq(Segments)
    PROVE  /\ EndedSegments(segments) \in Seq(Segments) /\ Len(EndedSegments(segments)) = Len(segments)
           /\ \A n \in 1 .. Len(segments) : EndedSegments(segments)[n] = EndedSegment(segments[n])
<1>1. DOMAIN segments = 1 .. Len(segments) /\ Len(segments) \in Nat
  OBVIOUS
<1>2. EndedSegments(segments) = [n \in 1 .. Len(segments) |-> EndedSegment(segments[n])]
  BY <1>1 DEF EndedSegments
<1>3. \A n \in 1 .. Len(segments) : EndedSegment(segments[n]) \in Segments
  BY EndedSegmentHolds
<1>4. EndedSegments(segments) \in Seq(Segments) /\ Len(EndedSegments(segments)) = Len(segments)
  BY <1>1, <1>2, <1>3
<1> QED BY <1>2, <1>4

LEMMA EndedAppend ==
    ASSUME NEW segments \in Seq(Segments), NEW segment \in Segments
    PROVE  EndedSegments(Append(segments, segment)) = Append(EndedSegments(segments), EndedSegment(segment))
<1> DEFINE more == Append(segments, segment)
           ended == EndedSegments(segments)
           last == EndedSegment(segment)
           right == Append(ended, last)
           left == EndedSegments(more)
<1>1. /\ more \in Seq(Segments) /\ Len(more) = Len(segments) + 1 /\ more[Len(segments) + 1] = segment
      /\ Len(segments) \in Nat /\ \A n \in 1 .. Len(segments) : more[n] = segments[n]
  OBVIOUS
<1>2. /\ ended \in Seq(Segments) /\ Len(ended) = Len(segments)
      /\ \A n \in 1 .. Len(segments) : ended[n] = EndedSegment(segments[n])
  BY EndedSegmentsHolds
<1>3. last \in Segments
  BY EndedSegmentHolds
<1> HIDE DEF more, ended
<1>4. /\ left \in Seq(Segments) /\ Len(left) = Len(more)
      /\ \A n \in 1 .. Len(more) : left[n] = EndedSegment(more[n])
  BY <1>1, EndedSegmentsHolds
<1>5. /\ right \in Seq(Segments) /\ Len(right) = Len(segments) + 1 /\ right[Len(segments) + 1] = EndedSegment(segment)
      /\ \A n \in 1 .. Len(segments) : right[n] = EndedSegment(segments[n])
  <2> HIDE DEF last
  <2>1. /\ right \in Seq(Segments) /\ Len(right) = Len(ended) + 1 /\ right[Len(ended) + 1] = last
        /\ \A n \in 1 .. Len(ended) : right[n] = ended[n]
    BY <1>2, <1>3, AppendProperties
  <2> HIDE DEF right
  <2> QED BY <1>2, <2>1 DEF last
<1> HIDE DEF left, right
<1>6. \A n \in 1 .. Len(left) : left[n] = right[n]
  BY <1>1, <1>4, <1>5
<1>7. left = right
  BY <1>1, <1>4, <1>5, <1>6, SeqEqual
<1> QED BY <1>7 DEF left, right, more, ended

LEMMA EndedTwice ==
    ASSUME NEW segments \in Seq(Segments)
    PROVE  EndedSegments(EndedSegments(segments)) = EndedSegments(segments)
<1> DEFINE once == EndedSegments(segments)
           twice == EndedSegments(once)
<1>1. /\ once \in Seq(Segments) /\ Len(once) = Len(segments)
      /\ \A n \in 1 .. Len(segments) : once[n] = EndedSegment(segments[n])
  BY EndedSegmentsHolds
<1> HIDE DEF once
<1>2. /\ twice \in Seq(Segments) /\ Len(twice) = Len(once)
      /\ \A n \in 1 .. Len(once) : twice[n] = EndedSegment(once[n])
  BY <1>1, EndedSegmentsHolds
<1> HIDE DEF twice
<1>3. \A n \in 1 .. Len(twice) : twice[n] = once[n]
  <2> SUFFICES ASSUME NEW n \in 1 .. Len(twice) PROVE twice[n] = once[n]
    OBVIOUS
  <2>1. n \in 1 .. Len(segments) /\ segments[n] \in Segments
    BY <1>1, <1>2
  <2> QED BY <1>1, <1>2, <2>1, EndedSegmentHolds
<1> QED BY <1>1, <1>2, <1>3, SeqEqual DEF once, twice

LEMMA TextOfEnded ==
    ASSUME NEW segments \in Seq(Segments)
    PROVE  TextOf(EndedSegments(segments)) = AllEnded(TextOf(segments))
<1> DEFINE T == {s \in Seq(Segments) : TextOf(EndedSegments(s)) = AllEnded(TextOf(s))}
<1>1. <<>> \in T
  <2>1. EndedSegments(<<>>) = <<>> /\ AllEnded(<<>>) = <<>>
    BY DEF EndedSegments, AllEnded
  <2> QED BY <2>1, TextOfEmpty
<1>2. ASSUME NEW s \in T, NEW segment \in Segments PROVE Append(s, segment) \in T
  <2>1. s \in Seq(Segments) /\ TextOf(EndedSegments(s)) = AllEnded(TextOf(s)) /\ Append(s, segment) \in Seq(Segments)
    OBVIOUS
  <2> HIDE DEF T
  <2>2. segment.lines \in Seq(Lines) /\ TextOf(s) \in Seq(Lines) /\ EndedSegment(segment) \in Segments
        /\ EndedSegments(s) \in Seq(Segments)
    BY <2>1, SegmentParts, TextOfType, EndedSegmentHolds, EndedSegmentsHolds
  <2>3. TextOf(EndedSegments(Append(s, segment))) = AllEnded(TextOf(s)) \o AllEnded(segment.lines)
    BY <2>1, <2>2, EndedAppend, TextOfAppend, EndedSegmentHolds
  <2>4. AllEnded(TextOf(Append(s, segment))) = AllEnded(TextOf(s)) \o AllEnded(segment.lines)
    BY <2>1, <2>2, TextOfAppend, AllEndedConcat
  <2> QED BY <2>1, <2>3, <2>4 DEF T
<1>3. T = Seq(Segments)
  <2>1. T \in SUBSET Seq(Segments)
    OBVIOUS
  <2> HIDE DEF T
  <2> QED BY <1>1, <1>2, <2>1, SeqInd
<1> QED BY <1>3

LEMMA EndedShape ==
    ASSUME NEW segment \in Segments
    PROVE  /\ IsLiteral(EndedSegment(segment)) <=> IsLiteral(segment)
           /\ IsClosed(EndedSegment(segment)) <=> IsClosed(segment)
<1> DEFINE ended == EndedSegment(segment)
           lines == segment.lines
           all == AllEnded(lines)
<1>1. lines \in Seq(Lines) /\ ended.id = segment.id /\ ended.lines = all
  BY SegmentParts, EndedSegmentHolds
<1> HIDE DEF ended, lines
<1>2. /\ all \in Seq(Lines) /\ Len(all) = Len(lines) /\ Len(lines) \in Nat
      /\ \A n \in 1 .. Len(lines) : all[n].body = lines[n].body
  BY <1>1, AllEndedHolds
<1> HIDE DEF all
<1>3. all = <<>> <=> lines = <<>>
  BY <1>1, <1>2
<1>4. \A n \in 1 .. Len(lines) : /\ IsBegin(all[n]) <=> IsBegin(lines[n])
                                 /\ IsEnd(all[n]) <=> IsEnd(lines[n])
  BY <1>2 DEF IsBegin, IsEnd
<1>5. IsLiteral(ended) <=> IsLiteral(segment)
  BY <1>1, <1>2, <1>3, <1>4 DEF IsLiteral, lines
<1>6. ASSUME Len(lines) >= 2
      PROVE  /\ all[1].body = lines[1].body /\ all[Len(all)].body = lines[Len(lines)].body
             /\ \A n \in 2 .. Len(lines) - 1 : IsEnd(all[n]) <=> IsEnd(lines[n])
  BY <1>2, <1>4, <1>6
<1>7. IsClosed(ended) <=> IsClosed(segment)
  BY <1>1, <1>2, <1>6 DEF IsClosed, lines
<1> QED BY <1>5, <1>7 DEF ended

LEMMA EndedShaped ==
    ASSUME NEW segments \in Seq(Segments)
    PROVE  Shaped(EndedSegments(segments)) <=> Shaped(segments)
<1> DEFINE ended == EndedSegments(segments)
<1>1. /\ Len(ended) = Len(segments) /\ Len(segments) \in Nat
      /\ \A n \in 1 .. Len(segments) : ended[n] = EndedSegment(segments[n])
  BY EndedSegmentsHolds
<1> HIDE DEF ended
<1>2. \A n \in 1 .. Len(segments) : /\ IsLiteral(ended[n]) <=> IsLiteral(segments[n])
                                    /\ IsClosed(ended[n]) <=> IsClosed(segments[n])
                                    /\ ended[n].id = segments[n].id
  <2> SUFFICES ASSUME NEW n \in 1 .. Len(segments)
               PROVE  /\ IsLiteral(ended[n]) <=> IsLiteral(segments[n])
                      /\ IsClosed(ended[n]) <=> IsClosed(segments[n])
                      /\ ended[n].id = segments[n].id
    OBVIOUS
  <2>1. segments[n] \in Segments
    OBVIOUS
  <2> QED BY <1>1, <2>1, EndedShape, EndedSegmentHolds
<1>3. \A n \in 1 .. Len(segments) - 1 : ended[n].id = segments[n].id /\ ended[n + 1].id = segments[n + 1].id
  BY <1>1, <1>2
<1> QED BY <1>1, <1>2, <1>3 DEF Shaped, ended

LEMMA WholeAppend ==
    ASSUME NEW segments \in Seq(Segments), NEW segment \in Segments
    PROVE  WholeLines(Append(segments, segment)) <=> WholeLines(segments) /\ LinesEnd(segment.lines)
<1> DEFINE more == Append(segments, segment)
<1>1. /\ Len(more) = Len(segments) + 1 /\ more[Len(segments) + 1] = segment
      /\ Len(segments) \in Nat /\ \A n \in 1 .. Len(segments) : more[n] = segments[n]
  OBVIOUS
<1> HIDE DEF more
<1>2. WholeLines(more) <=> \A n \in 1 .. Len(segments) + 1 : LinesEnd(more[n].lines)
  BY <1>1 DEF WholeLines
<1>3. (\A n \in 1 .. Len(segments) + 1 : LinesEnd(more[n].lines))
          <=> (\A n \in 1 .. Len(segments) : LinesEnd(segments[n].lines)) /\ LinesEnd(segment.lines)
  <2>1. ASSUME \A n \in 1 .. Len(segments) + 1 : LinesEnd(more[n].lines)
        PROVE  (\A n \in 1 .. Len(segments) : LinesEnd(segments[n].lines)) /\ LinesEnd(segment.lines)
    BY <1>1, <2>1
  <2>2. ASSUME (\A n \in 1 .. Len(segments) : LinesEnd(segments[n].lines)) /\ LinesEnd(segment.lines)
        PROVE  \A n \in 1 .. Len(segments) + 1 : LinesEnd(more[n].lines)
    BY <1>1, <2>2
  <2> QED BY <2>1, <2>2
<1> QED BY <1>2, <1>3 DEF WholeLines, more

\* Only the last line of each segment can lack its end.
LEMMA WholeText ==
    ASSUME NEW segments \in Seq(Segments), LinesEnd(TextOf(segments))
    PROVE  WholeLines(segments)
<1> DEFINE T == {s \in Seq(Segments) : LinesEnd(TextOf(s)) => WholeLines(s)}
<1>1. <<>> \in T
  BY DEF WholeLines
<1>2. ASSUME NEW s \in T, NEW segment \in Segments PROVE Append(s, segment) \in T
  <2>1. s \in Seq(Segments) /\ Append(s, segment) \in Seq(Segments)
    OBVIOUS
  <2> SUFFICES ASSUME LinesEnd(TextOf(Append(s, segment))) PROVE WholeLines(Append(s, segment))
    BY <2>1
  <2>2. segment.lines \in Seq(Lines) /\ TextOf(s) \in Seq(Lines)
    BY <2>1, SegmentParts, TextOfType
  <2>3. LinesEnd(TextOf(s) \o segment.lines)
    BY <2>1, TextOfAppend
  <2>4. LinesEnd(TextOf(s)) /\ LinesEnd(segment.lines)
    BY <2>2, <2>3, LinesEndConcat
  <2>5. WholeLines(s)
    BY <2>4
  <2> QED BY <2>1, <2>4, <2>5, WholeAppend
<1>3. T = Seq(Segments)
  <2>1. T \in SUBSET Seq(Segments)
    OBVIOUS
  <2> HIDE DEF T
  <2> QED BY <1>1, <1>2, <2>1, SeqInd
<1> QED BY <1>3

LEMMA RenderAppend ==
    ASSUME NEW done \in Seq(Segments), NEW last \in Segments, WholeLines(done)
    PROVE  Render(Append(done, last)) = TextOf(Append(EndedSegments(done), last))
<1> DEFINE one == Append(done, last)
           ended == EndedSegments(done)
           two == Append(ended, last)
           size == Len(done)
<1>1. /\ one \in Seq(Segments) /\ Len(one) = size + 1 /\ one[size + 1] = last
      /\ size \in Nat /\ \A n \in 1 .. size : one[n] = done[n]
  OBVIOUS
<1>2. /\ ended \in Seq(Segments) /\ Len(ended) = size
      /\ \A n \in 1 .. size : ended[n] = EndedSegment(done[n])
  BY EndedSegmentsHolds
<1>3. /\ two \in Seq(Segments) /\ Len(two) = size + 1 /\ two[size + 1] = last
      /\ \A n \in 1 .. size : two[n] = ended[n]
  <2> HIDE DEF ended, size
  <2> QED BY <1>2
<1>4. \A n \in 1 .. size : Ended(done[n].lines) = ended[n].lines
  <2> SUFFICES ASSUME NEW n \in 1 .. size PROVE Ended(done[n].lines) = ended[n].lines
    OBVIOUS
  <2>1. done[n] \in Segments /\ LinesEnd(done[n].lines)
    BY DEF WholeLines
  <2>2. Ended(done[n].lines) = AllEnded(done[n].lines)
    BY <2>1, SegmentParts, EndedIsAllEnded
  <2> HIDE DEF ended
  <2> QED BY <1>2, <2>1, <2>2, EndedSegmentHolds
<1> HIDE DEF one, two, ended, size
<1>5. [n \in DOMAIN one |-> IF n = Len(one) THEN one[n].lines ELSE Ended(one[n].lines)]
        = [n \in DOMAIN two |-> two[n].lines]
  <2>1. DOMAIN one = 1 .. size + 1 /\ DOMAIN two = 1 .. size + 1
    BY <1>1, <1>3
  <2>2. ASSUME NEW n \in 1 .. size + 1
        PROVE  (IF n = Len(one) THEN one[n].lines ELSE Ended(one[n].lines)) = two[n].lines
    BY <1>1, <1>3, <1>4
  <2> QED BY <2>1, <2>2
<1> QED BY <1>5 DEF Render, TextOf, one, two, ended

LEMMA RenderEmpty == Render(<<>>) = <<>>
<1>1. [n \in DOMAIN <<>> |-> IF n = Len(<<>>) THEN <<>>[n].lines ELSE Ended(<<>>[n].lines)] = <<>>
  OBVIOUS
<1> QED BY <1>1, FlattenEmpty DEF Render

\* The text of segments is up to the ends of lines what the segments hold.
LEMMA RenderHolds ==
    ASSUME NEW segments \in Seq(Segments), WholeLines(segments)
    PROVE  /\ Render(segments) \in Seq(Lines) /\ LinesEnd(Render(segments))
           /\ Ended(Render(segments)) = TextOf(EndedSegments(segments))
<1>1. CASE segments = <<>>
  <2>1. EndedSegments(<<>>) = <<>>
    BY DEF EndedSegments
  <2>2. Render(segments) = <<>> /\ Ended(<<>>) = <<>> /\ LinesEnd(<<>>) /\ <<>> \in Seq(Lines)
    BY <1>1, RenderEmpty DEF Ended, LinesEnd
  <2>3. Ended(Render(segments)) = <<>> /\ TextOf(EndedSegments(segments)) = <<>>
    BY <1>1, <2>1, <2>2, TextOfEmpty
  <2> QED BY <2>2, <2>3
<1>2. CASE segments # <<>>
  <2>1. PICK done \in Seq(Segments), last \in Segments : segments = Append(done, last)
    BY <1>2, SequenceEmptyOrAppend
  <2>2. WholeLines(done) /\ LinesEnd(last.lines)
    BY <2>1, WholeAppend
  <2>3. /\ EndedSegments(done) \in Seq(Segments) /\ TextOf(done) \in Seq(Lines) /\ last.lines \in Seq(Lines)
        /\ AllEnded(TextOf(done)) \in Seq(Lines)
    BY EndedSegmentsHolds, TextOfType, SegmentParts, AllEndedHolds
  <2>4. Render(segments) = AllEnded(TextOf(done)) \o last.lines
    BY <2>1, <2>2, <2>3, RenderAppend, TextOfAppend, TextOfEnded
  <2>5. Render(segments) \in Seq(Lines) /\ LinesEnd(Render(segments))
    <3>1. LinesEnd(AllEnded(TextOf(done)) \o last.lines)
      BY <2>2, <2>3, LinesEndConcat
    <3>2. AllEnded(TextOf(done)) \o last.lines \in Seq(Lines)
      BY <2>3, ConcatProperties
    <3> QED BY <2>4, <3>1, <3>2
  <2>6. Ended(Render(segments)) = AllEnded(TextOf(done)) \o AllEnded(last.lines)
    <3>1. Ended(Render(segments)) = AllEnded(AllEnded(TextOf(done)) \o last.lines)
      BY <2>4, <2>5, EndedIsAllEnded
    <3>2. AllEnded(AllEnded(TextOf(done)) \o last.lines)
             = AllEnded(AllEnded(TextOf(done))) \o AllEnded(last.lines)
      BY <2>3, AllEndedConcat
    <3>3. AllEnded(AllEnded(TextOf(done))) = AllEnded(TextOf(done))
      BY <2>3, AllEndedTwice
    <3> QED BY <3>1, <3>2, <3>3, Zenon
  <2>7. TextOf(EndedSegments(segments)) = AllEnded(TextOf(done) \o last.lines)
    BY <2>1, TextOfEnded, TextOfAppend
  <2>8. AllEnded(TextOf(done) \o last.lines) = AllEnded(TextOf(done)) \o AllEnded(last.lines)
    BY <2>3, AllEndedConcat
  <2> QED BY <2>5, <2>6, <2>7, <2>8
<1> QED BY <1>1, <1>2

\* The texts the commands work on, and what they hold up to the ends of lines.
Good(text) == text \in Seq(Lines) /\ LinesEnd(text) /\ Readable(text)

View(text) == EndedSegments(Parse(text))

LEMMA GoodHolds ==
    ASSUME NEW text, Good(text)
    PROVE  /\ Parse(text) \in Seq(Segments) /\ Shaped(Parse(text)) /\ WholeLines(Parse(text))
           /\ Ended(text) = TextOf(View(text))
<1>1. /\ Parse(text) \in Seq(Segments) /\ Shaped(Parse(text)) /\ TextOf(Parse(text)) = text
      /\ text \in Seq(Lines) /\ LinesEnd(text)
  BY ParseHolds DEF Good
<1>2. WholeLines(Parse(text))
  BY <1>1, WholeText
<1>3. Ended(text) = AllEnded(TextOf(Parse(text)))
  BY <1>1, EndedIsAllEnded
<1> QED BY <1>1, <1>2, <1>3, TextOfEnded DEF View

\* What is put together reads back as what it was put together from.
LEMMA RenderGood ==
    ASSUME NEW segments \in Seq(Segments), Shaped(segments), WholeLines(segments)
    PROVE  Good(Render(segments)) /\ View(Render(segments)) = EndedSegments(segments)
<1>1. Render(segments) \in Seq(Lines) /\ LinesEnd(Render(segments))
  BY RenderHolds
<1>2. CASE segments = <<>>
  <2>1. Render(segments) = TextOf(segments)
    BY <1>2, RenderEmpty, TextOfEmpty
  <2>2. Readable(Render(segments)) /\ Parse(Render(segments)) = segments
    BY <2>1, ParseOfShaped
  <2> QED BY <1>1, <2>2 DEF Good, View
<1>3. CASE segments # <<>>
  <2>1. PICK done \in Seq(Segments), last \in Segments : segments = Append(done, last)
    BY <1>3, SequenceEmptyOrAppend
  <2>2. WholeLines(done)
    BY <2>1, WholeAppend
  <2> DEFINE ended == EndedSegments(done)
             written == Append(ended, last)
  <2>3. ended \in Seq(Segments) /\ Render(segments) = TextOf(written)
    BY <2>1, <2>2, EndedSegmentsHolds, RenderAppend
  <2>4. written \in Seq(Segments)
    BY <2>3
  <2>5. EndedSegments(written) = EndedSegments(segments)
    BY <2>1, <2>3, EndedAppend, EndedTwice
  <2>6. Shaped(written)
    BY <2>4, <2>5, EndedShaped
  <2> HIDE DEF written
  <2>7. Readable(Render(segments)) /\ Parse(Render(segments)) = written
    BY <2>3, <2>4, <2>6, ParseOfShaped
  <2> QED BY <1>1, <2>5, <2>7 DEF Good, View
<1> QED BY <1>2, <1>3

-----------------------------------------------------------------------------
(* One block and its entries *)

\* A block with its header, its entries and its footer.
Wrapped(id, first, entries, last) == Block(id, <<first>> \o LinesOf(entries) \o <<last>>)

\* What a block reads back as.
Held(block) == [n \in DOMAIN Inner(block) |-> Entry(<<Inner(block)[n].body>>, FALSE)]

LEMMA EntryParts ==
    ASSUME NEW entry \in Entries
    PROVE  entry.bodies \in Seq(Bodies) /\ entry = Entry(entry.bodies, entry.ended)
BY DEF Entries, Entry

LEMMA EntryType ==
    ASSUME NEW body \in Bodies
    PROVE  /\ Entry(<<body>>, FALSE) \in Entries /\ Entry(<<body>>, FALSE).bodies = <<body>>
           /\ Entry(<<body>>, FALSE).ended = FALSE
<1>1. <<body>> \in Seq(Bodies)
  OBVIOUS
<1> QED BY <1>1 DEF Entry, Entries

LEMMA SingleLinesAppend ==
    ASSUME NEW entries \in Seq(Entries), NEW entry \in Entries, SingleLines(Append(entries, entry))
    PROVE  /\ SingleLines(entries)
           /\ Len(entry.bodies) = 1 /\ ~entry.ended /\ \A id \in BlockIds : entry.bodies[1] # EndOf(id)
<1> DEFINE more == Append(entries, entry)
<1>1. /\ Len(more) = Len(entries) + 1 /\ more[Len(entries) + 1] = entry
      /\ Len(entries) \in Nat /\ \A n \in 1 .. Len(entries) : more[n] = entries[n]
      /\ DOMAIN more = 1 .. Len(entries) + 1 /\ DOMAIN entries = 1 .. Len(entries)
  OBVIOUS
<1> HIDE DEF more
<1>2. SingleLines(more)
  BY DEF more
<1>3. Len(entries) + 1 \in DOMAIN more /\ \A n \in DOMAIN entries : n \in DOMAIN more
  BY <1>1
<1> QED BY <1>1, <1>2, <1>3 DEF SingleLines

LEMMA LinesOfAppend ==
    ASSUME NEW entries \in Seq(Entries), NEW entry \in Entries, Len(entry.bodies) = 1
    PROVE  /\ LinesOf(entries) \in Seq(Lines)
           /\ LinesOf(Append(entries, entry)) = Append(LinesOf(entries), Line(entry.bodies[1]))
<1> DEFINE LinesIn(e) == [m \in DOMAIN e.bodies |-> Line(e.bodies[m])]
           more == Append(entries, entry)
           before == [n \in DOMAIN entries |-> LinesIn(entries[n])]
           after == [n \in DOMAIN more |-> LinesIn(more[n])]
<1>1. ASSUME NEW e \in Entries PROVE LinesIn(e) \in Seq(Lines)
  <2>1. e.bodies \in Seq(Bodies)
    BY EntryParts
  <2>2. \A m \in 1 .. Len(e.bodies) : Line(e.bodies[m]) \in Lines
    BY <2>1 DEF Line, Lines
  <2>3. DOMAIN e.bodies = 1 .. Len(e.bodies) /\ Len(e.bodies) \in Nat
    BY <2>1
  <2> QED BY <2>2, <2>3
<1>2. LinesIn(entry) = <<Line(entry.bodies[1])>> /\ Line(entry.bodies[1]) \in Lines
  <2>1. entry.bodies \in Seq(Bodies) /\ entry.bodies[1] \in Bodies /\ DOMAIN entry.bodies = 1 .. 1
    BY EntryParts
  <2>2. Line(entry.bodies[1]) \in Lines /\ DOMAIN entry.bodies = {1}
    BY <2>1 DEF Line, Lines
  <2>3. DOMAIN <<Line(entry.bodies[1])>> = {1} /\ <<Line(entry.bodies[1])>>[1] = Line(entry.bodies[1])
    OBVIOUS
  <2>4. LinesIn(entry) \in Seq(Lines) /\ Len(LinesIn(entry)) = 1 /\ LinesIn(entry)[1] = Line(entry.bodies[1])
    <3>1. LinesIn(entry) \in Seq(Lines)
      BY <1>1
    <3>2. DOMAIN LinesIn(entry) = {1} /\ LinesIn(entry)[1] = Line(entry.bodies[1])
      BY <2>2
    <3> HIDE DEF LinesIn
    <3>3. DOMAIN LinesIn(entry) = 1 .. Len(LinesIn(entry)) /\ Len(LinesIn(entry)) \in Nat
      BY <3>1
    <3>4. 1 \in 1 .. Len(LinesIn(entry)) /\ (Len(LinesIn(entry)) >= 2 => 2 \in 1 .. Len(LinesIn(entry)))
      BY <3>2, <3>3
    <3> QED BY <3>1, <3>2, <3>3, <3>4
  <2> HIDE DEF LinesIn
  <2>5. <<Line(entry.bodies[1])>> \in Seq(Lines) /\ Len(<<Line(entry.bodies[1])>>) = 1
    BY <2>2
  <2>6. \A n \in 1 .. 1 : LinesIn(entry)[n] = <<Line(entry.bodies[1])>>[n]
    BY <2>4
  <2>7. LinesIn(entry) = <<Line(entry.bodies[1])>>
    BY <2>4, <2>5, <2>6, SeqEqual
  <2> QED BY <2>2, <2>7
<1>3. more \in Seq(Entries) /\ Len(more) = Len(entries) + 1 /\ more[Len(entries) + 1] = entry
      /\ Len(entries) \in Nat /\ \A n \in 1 .. Len(entries) : more[n] = entries[n]
  OBVIOUS
<1> HIDE DEF LinesIn, more
<1>4. /\ before \in Seq(Seq(Lines)) /\ Len(before) = Len(entries)
      /\ \A n \in 1 .. Len(entries) : before[n] = LinesIn(entries[n])
  <2>1. DOMAIN entries = 1 .. Len(entries) /\ \A n \in 1 .. Len(entries) : LinesIn(entries[n]) \in Seq(Lines)
    BY <1>1
  <2> QED BY <1>3, <2>1
<1>5. /\ after \in Seq(Seq(Lines)) /\ Len(after) = Len(more)
      /\ \A n \in 1 .. Len(more) : after[n] = LinesIn(more[n])
  <2>1. DOMAIN more = 1 .. Len(more) /\ \A n \in 1 .. Len(more) : LinesIn(more[n]) \in Seq(Lines)
    BY <1>1, <1>3
  <2> QED BY <1>3, <2>1
<1> HIDE DEF before, after
<1> DEFINE grown == Append(before, LinesIn(entry))
<1>6. LinesIn(entry) \in Seq(Lines)
  BY <1>1
<1>7. /\ grown \in Seq(Seq(Lines)) /\ Len(grown) = Len(entries) + 1 /\ grown[Len(entries) + 1] = LinesIn(entry)
      /\ \A n \in 1 .. Len(entries) : grown[n] = before[n]
  BY <1>4, <1>6
<1> HIDE DEF grown
<1>8. \A n \in 1 .. Len(after) : after[n] = grown[n]
  <2> SUFFICES ASSUME NEW n \in 1 .. Len(after) PROVE after[n] = grown[n]
    OBVIOUS
  <2>1. CASE n = Len(entries) + 1
    BY <1>3, <1>5, <1>7, <2>1
  <2>2. CASE n # Len(entries) + 1
    <3>1. n \in 1 .. Len(entries) /\ n \in 1 .. Len(more)
      BY <1>3, <1>5, <2>2
    <3> QED BY <1>3, <1>4, <1>5, <1>7, <3>1
  <2> QED BY <2>1, <2>2
<1>9. after = Append(before, LinesIn(entry))
  BY <1>3, <1>5, <1>7, <1>8, SeqEqual DEF grown
<1>10. FlattenSeq(after) = FlattenSeq(before) \o LinesIn(entry) /\ FlattenSeq(before) \in Seq(Lines)
  BY <1>4, <1>6, <1>9, FlattenAppend, FlattenType
<1>11. LinesOf(entries) = FlattenSeq(before) /\ LinesOf(more) = FlattenSeq(after)
  BY DEF LinesOf, before, after, LinesIn
<1>12. FlattenSeq(before) \o <<Line(entry.bodies[1])>> = Append(FlattenSeq(before), Line(entry.bodies[1]))
  BY <1>2, <1>10
<1> QED BY <1>2, <1>10, <1>11, <1>12 DEF more

\* The lines of single-line entries: one for each.
LEMMA LinesOfHolds ==
    ASSUME NEW entries \in Seq(Entries), SingleLines(entries)
    PROVE  /\ LinesOf(entries) \in Seq(Lines) /\ Len(LinesOf(entries)) = Len(entries)
           /\ \A n \in 1 .. Len(entries) : LinesOf(entries)[n] = Line(entries[n].bodies[1])
<1> DEFINE Holds(es) == /\ LinesOf(es) \in Seq(Lines) /\ Len(LinesOf(es)) = Len(es)
                        /\ \A n \in 1 .. Len(es) : LinesOf(es)[n] = Line(es[n].bodies[1])
           T == {es \in Seq(Entries) : SingleLines(es) => Holds(es)}
<1>1. <<>> \in T
  <2>1. [n \in DOMAIN <<>> |-> [m \in DOMAIN <<>>[n].bodies |-> Line(<<>>[n].bodies[m])]] = <<>>
    OBVIOUS
  <2>2. LinesOf(<<>>) = <<>>
    BY <2>1, FlattenEmpty DEF LinesOf
  <2>3. <<>> \in Seq(Lines) /\ <<>> \in Seq(Entries) /\ Len(<<>>) = 0
    OBVIOUS
  <2>4. Holds(<<>>)
    <3>1. LinesOf(<<>>) \in Seq(Lines) /\ Len(LinesOf(<<>>)) = Len(<<>>)
      BY <2>2, <2>3, Zenon
    <3>2. \A n \in 1 .. Len(<<>>) : FALSE
      BY <2>3
    <3>3. \A n \in 1 .. Len(<<>>) : LinesOf(<<>>)[n] = Line((<<>>[n].bodies)[1])
      BY <3>2, Zenon
    <3> QED BY <3>1, <3>3, Zenon
  <2> HIDE DEF Holds
  <2> QED BY <2>3, <2>4
<1>2. ASSUME NEW es \in T, NEW e \in Entries PROVE Append(es, e) \in T
  <2> DEFINE more == Append(es, e)
             size == Len(es)
  <2>1. /\ es \in Seq(Entries) /\ more \in Seq(Entries) /\ Len(more) = size + 1 /\ more[size + 1] = e
        /\ size \in Nat /\ \A n \in 1 .. size : more[n] = es[n]
    OBVIOUS
  <2> SUFFICES ASSUME SingleLines(more) PROVE Holds(more)
    BY <2>1
  <2>2. SingleLines(es) /\ Len(e.bodies) = 1
    BY <2>1, SingleLinesAppend
  <2>3. Holds(es)
    BY <2>2
  <2> DEFINE lines == LinesOf(es)
             line == Line(e.bodies[1])
             grown == Append(lines, line)
  <2>4. LinesOf(more) = grown
    BY <2>1, <2>2, LinesOfAppend
  <2>5. lines \in Seq(Lines) /\ Len(lines) = size /\ \A n \in 1 .. size : lines[n] = Line(es[n].bodies[1])
    BY <2>3
  <2>6. line \in Lines
    <3>1. e.bodies \in Seq(Bodies) /\ e.bodies[1] \in Bodies
      BY <2>2, EntryParts
    <3> QED BY <3>1 DEF Line, Lines
  <2> HIDE DEF lines, line, more, size
  <2>7. /\ grown \in Seq(Lines) /\ Len(grown) = size + 1 /\ grown[size + 1] = line
        /\ \A n \in 1 .. size : grown[n] = lines[n]
    BY <2>5, <2>6
  <2> HIDE DEF grown
  <2>8. ASSUME NEW n \in 1 .. Len(more) PROVE grown[n] = Line(more[n].bodies[1])
    <3>1. CASE n = size + 1
      BY <2>1, <2>7, <3>1 DEF line
    <3>2. CASE n # size + 1
      <4>1. n \in 1 .. size
        BY <2>1, <3>2
      <4> QED BY <2>1, <2>5, <2>7, <4>1
    <3> QED BY <3>1, <3>2
  <2> QED BY <2>1, <2>4, <2>7, <2>8
<1>3. T = Seq(Entries)
  <2>1. T \in SUBSET Seq(Entries)
    OBVIOUS
  <2> HIDE DEF T
  <2> QED BY <1>1, <1>2, <2>1, SeqInd
<1> QED BY <1>3

LEMMA WrappedParts ==
    ASSUME NEW id \in BlockIds, NEW first \in Lines, NEW last \in Lines,
           NEW entries \in Seq(Entries), SingleLines(entries)
    PROVE  LET block == Wrapped(id, first, entries, last)
               size == Len(entries)
           IN  /\ block \in Segments /\ block.id = id /\ Len(block.lines) = size + 2
               /\ block.lines[1] = first /\ block.lines[size + 2] = last
               /\ \A n \in 1 .. size : block.lines[n + 1] = Line(entries[n].bodies[1])
<1> DEFINE block == Wrapped(id, first, entries, last)
           size == Len(entries)
           middle == LinesOf(entries)
           start == <<first>> \o middle
           lines == start \o <<last>>
<1>1. /\ middle \in Seq(Lines) /\ Len(middle) = size /\ size \in Nat
      /\ \A n \in 1 .. size : middle[n] = Line(entries[n].bodies[1])
  BY LinesOfHolds
<1>2. block.id = id /\ block.lines = lines
  BY DEF Wrapped, Block
<1>3. id \in BlockIds \cup {NoBlock} /\ block = [id |-> id, lines |-> lines]
  BY DEF Wrapped, Block
<1> HIDE DEF middle, block, size
<1>4. /\ start \in Seq(Lines) /\ Len(start) = size + 1 /\ start[1] = first
      /\ \A n \in 1 .. size : start[n + 1] = middle[n]
  <2>1. <<first>> \in Seq(Lines) /\ Len(<<first>>) = 1 /\ <<first>>[1] = first
    OBVIOUS
  <2>2. /\ start \in Seq(Lines) /\ Len(start) = 1 + size
        /\ \A n \in 1 .. 1 + size : start[n] = IF n <= 1 THEN <<first>>[n] ELSE middle[n - 1]
    BY <1>1, <2>1, ConcatProperties
  <2> HIDE DEF start
  <2>3. start[1] = first
    BY <1>1, <2>1, <2>2
  <2>4. ASSUME NEW n \in 1 .. size PROVE start[n + 1] = middle[n]
    <3>1. n + 1 \in 1 .. 1 + size /\ ~(n + 1 <= 1) /\ (n + 1) - 1 = n
      BY <1>1
    <3> QED BY <2>2, <3>1
  <2> QED BY <1>1, <2>2, <2>3, <2>4
<1> HIDE DEF start
<1>5. /\ lines \in Seq(Lines) /\ Len(lines) = size + 2 /\ lines[size + 2] = last
      /\ \A n \in 1 .. size + 1 : lines[n] = start[n]
  <2>1. lines = Append(start, last)
    BY <1>4
  <2>2. /\ Append(start, last) \in Seq(Lines) /\ Len(Append(start, last)) = (size + 1) + 1
        /\ Append(start, last)[(size + 1) + 1] = last
        /\ \A n \in 1 .. size + 1 : Append(start, last)[n] = start[n]
    BY <1>4, AppendProperties
  <2>3. (size + 1) + 1 = size + 2
    BY <1>1
  <2> QED BY <2>1, <2>2, <2>3
<1> HIDE DEF lines
<1>6. block \in Segments
  BY <1>3, <1>5 DEF Segments
<1>7. lines[1] = first
  BY <1>1, <1>4, <1>5
<1>8. ASSUME NEW n \in 1 .. size PROVE lines[n + 1] = Line(entries[n].bodies[1])
  <2>1. n + 1 \in 1 .. size + 1
    BY <1>1
  <2> QED BY <1>1, <1>4, <1>5, <2>1
<1>9. /\ block \in Segments /\ block.id = id /\ Len(block.lines) = size + 2
      /\ block.lines[1] = first /\ block.lines[size + 2] = last
      /\ \A n \in 1 .. size : block.lines[n + 1] = Line(entries[n].bodies[1])
  BY <1>2, <1>5, <1>6, <1>7, <1>8
<1> QED BY <1>9 DEF block, size

LEMMA InnerHolds ==
    ASSUME NEW block \in Segments, NEW size \in Nat, Len(block.lines) = size + 2
    PROVE  /\ DOMAIN Inner(block) = 1 .. size
           /\ \A n \in 1 .. size : Inner(block)[n] = block.lines[n + 1]
<1> DEFINE lines == block.lines
<1>1. lines \in Seq(Lines) /\ Len(lines) = size + 2
  BY SegmentParts
<1> HIDE DEF lines
<1>2. 2 \in 1 .. Len(lines) + 1 /\ Len(lines) - 1 = size + 1
  BY <1>1
<1>3. /\ SubSeq(lines, 2, size + 1) \in Seq(Lines)
      /\ Len(SubSeq(lines, 2, size + 1)) = size
      /\ \A n \in 1 .. size : SubSeq(lines, 2, size + 1)[n] = lines[n + 1]
  BY <1>1
<1>4. DOMAIN SubSeq(lines, 2, size + 1) = 1 .. size
  BY <1>3
<1>5. Inner(block) = SubSeq(lines, 2, size + 1)
  BY <1>1, <1>2 DEF Inner, lines
<1> QED BY <1>3, <1>4, <1>5 DEF lines

\* A block that was put together reads back as the entries it was given.
LEMMA WrappedHolds ==
    ASSUME NEW id \in BlockIds, NEW first \in Lines, NEW last \in Lines,
           NEW entries \in Seq(Entries), SingleLines(entries)
    PROVE  /\ Held(Wrapped(id, first, entries, last)) = entries
           /\ EndedSegment(Wrapped(id, first, entries, last))
                = Wrapped(id, Line(first.body), entries, Line(last.body))
           /\ first.ended => LinesEnd(Wrapped(id, first, entries, last).lines)
           /\ first.body = BeginOf(id) /\ last.body = EndOf(id)
                => IsClosed(Wrapped(id, first, entries, last))
<1> DEFINE block == Wrapped(id, first, entries, last)
           size == Len(entries)
           lines == block.lines
<1>1. /\ block \in Segments /\ block.id = id /\ Len(lines) = size + 2 /\ size \in Nat
      /\ lines[1] = first /\ lines[size + 2] = last
      /\ \A n \in 1 .. size : lines[n + 1] = Line(entries[n].bodies[1])
  BY WrappedParts
<1>2. \A n \in 1 .. size : /\ entries[n] = Entry(<<entries[n].bodies[1]>>, FALSE)
                           /\ entries[n].bodies[1] \in Bodies
                           /\ \A other \in BlockIds : entries[n].bodies[1] # EndOf(other)
  <2> SUFFICES ASSUME NEW n \in 1 .. size
               PROVE  /\ entries[n] = Entry(<<entries[n].bodies[1]>>, FALSE)
                      /\ entries[n].bodies[1] \in Bodies
                      /\ \A other \in BlockIds : entries[n].bodies[1] # EndOf(other)
    OBVIOUS
  <2>1. entries[n] \in Entries /\ n \in DOMAIN entries
    OBVIOUS
  <2>2. /\ entries[n].bodies \in Seq(Bodies) /\ Len(entries[n].bodies) = 1 /\ ~entries[n].ended
        /\ \A other \in BlockIds : entries[n].bodies[1] # EndOf(other)
        /\ entries[n] = Entry(entries[n].bodies, entries[n].ended) /\ entries[n].ended \in BOOLEAN
    BY <2>1, EntryParts DEF SingleLines, Entries
  <2>3. entries[n].bodies = <<entries[n].bodies[1]>> /\ entries[n].bodies[1] \in Bodies
    BY <2>2
  <2>4. entries[n].ended = FALSE
    BY <2>2
  <2> QED BY <2>2, <2>3, <2>4, Zenon
<1> HIDE DEF block, size, lines
<1>3. \A n \in 1 .. size : lines[n + 1].ended /\ lines[n + 1].body = entries[n].bodies[1]
  <2>1. ASSUME NEW body PROVE Line(body).ended /\ Line(body).body = body
    BY DEF Line
  <2> QED BY <1>1, <2>1
<1>4. DOMAIN Inner(block) = 1 .. size /\ \A n \in 1 .. size : Inner(block)[n] = lines[n + 1]
  BY <1>1, InnerHolds DEF lines
<1>5. Held(block) = entries
  <2>1. Held(block) = [n \in 1 .. size |-> Entry(<<Inner(block)[n].body>>, FALSE)]
    BY <1>4 DEF Held
  <2>2. ASSUME NEW n \in 1 .. size PROVE Entry(<<Inner(block)[n].body>>, FALSE) = entries[n]
    <3>1. Inner(block)[n].body = entries[n].bodies[1]
      BY <1>3, <1>4
    <3>2. entries[n] = Entry(<<entries[n].bodies[1]>>, FALSE)
      BY <1>2
    <3> QED BY <3>1, <3>2, Zenon
  <2>3. entries = [n \in 1 .. size |-> entries[n]]
    BY DEF size
  <2> QED BY <2>1, <2>2, <2>3
<1>6. ASSUME first.ended PROVE LinesEnd(lines)
  <2> SUFFICES ASSUME NEW n \in 1 .. Len(lines) - 1 PROVE lines[n].ended
    BY DEF LinesEnd
  <2>1. CASE n = 1
    BY <1>1, <1>6, <2>1
  <2>2. CASE n # 1
    <3>1. n - 1 \in 1 .. size /\ (n - 1) + 1 = n
      BY <1>1, <2>2
    <3> QED BY <1>3, <3>1
  <2> QED BY <2>1, <2>2
<1>7. ASSUME first.body = BeginOf(id), last.body = EndOf(id) PROVE IsClosed(block)
  <2>1. ASSUME NEW n \in 2 .. Len(lines) - 1 PROVE ~IsEnd(lines[n])
    <3>1. n - 1 \in 1 .. size /\ (n - 1) + 1 = n
      BY <1>1
    <3>2. lines[n].body = entries[n - 1].bodies[1]
      BY <1>3, <3>1
    <3>3. \A other \in BlockIds : entries[n - 1].bodies[1] # EndOf(other)
      BY <1>2, <3>1
    <3> QED BY <3>2, <3>3 DEF IsEnd
  <2>2. block.id \in BlockIds /\ Len(lines) >= 2 /\ lines[1].body = BeginOf(block.id)
        /\ lines[Len(lines)].body = EndOf(block.id)
    BY <1>1, <1>7
  <2> QED BY <2>1, <2>2 DEF IsClosed, lines
<1>8. EndedSegment(block) = Wrapped(id, Line(first.body), entries, Line(last.body))
  <2> DEFINE ended == EndedSegment(block)
             other == Wrapped(id, Line(first.body), entries, Line(last.body))
  <2>1. /\ ended \in Segments /\ ended.id = id /\ ended.lines = AllEnded(lines)
        /\ lines \in Seq(Lines)
    BY <1>1, EndedSegmentHolds, SegmentParts DEF lines
  <2>2. Line(first.body) \in Lines /\ Line(last.body) \in Lines
    BY LineParts
  <2>3. /\ other \in Segments /\ other.id = id /\ Len(other.lines) = size + 2
        /\ other.lines[1] = Line(first.body) /\ other.lines[size + 2] = Line(last.body)
        /\ \A n \in 1 .. size : other.lines[n + 1] = Line(entries[n].bodies[1])
    BY <2>2, WrappedParts DEF size
  <2> DEFINE all == AllEnded(lines)
  <2>4. all \in Seq(Lines) /\ Len(all) = Len(lines) /\ \A n \in 1 .. Len(lines) : all[n] = Line(lines[n].body)
    BY <2>1, AllEndedHolds
  <2>5. other.lines \in Seq(Lines)
    BY <2>3, SegmentParts
  <2> HIDE DEF all, other
  <2>6. ASSUME NEW n \in 1 .. size + 2 PROVE all[n] = other.lines[n]
    <3>1. CASE n = 1
      BY <1>1, <2>3, <2>4, <3>1
    <3>2. CASE n = size + 2
      BY <1>1, <2>3, <2>4, <3>2
    <3>3. CASE n # 1 /\ n # size + 2
      <4>1. n - 1 \in 1 .. size /\ (n - 1) + 1 = n
        BY <1>1, <3>3
      <4>2. all[n] = Line(entries[n - 1].bodies[1]) /\ other.lines[n] = Line(entries[n - 1].bodies[1])
        BY <1>1, <1>3, <2>3, <2>4, <4>1
      <4> QED BY <4>2
    <3> QED BY <3>1, <3>2, <3>3
  <2>7. all = other.lines
    BY <1>1, <2>3, <2>4, <2>5, <2>6, SeqEqual
  <2>8. ended.id = other.id /\ ended.lines = other.lines
    BY <2>1, <2>3, <2>7 DEF all
  <2> HIDE DEF ended
  <2>9. ended = [id |-> ended.id, lines |-> ended.lines] /\ other = [id |-> other.id, lines |-> other.lines]
    BY <2>1, <2>3, SegmentParts
  <2>10. ended = other
    BY <2>8, <2>9, Zenon
  <2> QED BY <2>10 DEF ended, other
<1> QED BY <1>5, <1>6, <1>7, <1>8 DEF block, lines

\* What a block holds that was read from a text, and the block put together from it.
LEMMA ClosedParts ==
    ASSUME NEW block \in Segments, IsClosed(block)
    PROVE  LET first == block.lines[1]
               last == block.lines[Len(block.lines)]
           IN  /\ block.id \in BlockIds /\ first \in Lines /\ last \in Lines
               /\ first.body = BeginOf(block.id) /\ last.body = EndOf(block.id)
               /\ LinesEnd(block.lines) => first.ended
               /\ Head(block.lines) = first
               /\ Held(block) \in Seq(Entries) /\ SingleLines(Held(block))
               /\ Held(EndedSegment(block)) = Held(block)
               /\ EndedSegment(block) = Wrapped(block.id, Line(first.body), Held(block), Line(last.body))
<1> DEFINE lines == block.lines
           first == lines[1]
           last == lines[Len(lines)]
           size == Len(lines) - 2
           held == Held(block)
<1>1. /\ lines \in Seq(Lines) /\ Len(lines) \in Nat /\ Len(lines) = size + 2 /\ size \in Nat
      /\ block.id \in BlockIds /\ first \in Lines /\ last \in Lines
      /\ first.body = BeginOf(block.id) /\ last.body = EndOf(block.id)
      /\ \A n \in 2 .. Len(lines) - 1 : ~IsEnd(lines[n])
  BY SegmentParts DEF IsClosed
<1>2. Head(lines) = first /\ (LinesEnd(lines) => first.ended)
  BY <1>1 DEF LinesEnd
<1> HIDE DEF size
<1>3. DOMAIN Inner(block) = 1 .. size /\ \A n \in 1 .. size : Inner(block)[n] = lines[n + 1]
  BY <1>1, InnerHolds
<1>4. \A n \in 1 .. size : n + 1 \in 2 .. Len(lines) - 1 /\ n + 1 \in 1 .. Len(lines) /\ lines[n + 1] \in Lines
  BY <1>1
<1> HIDE DEF lines
<1>5. /\ held = [n \in 1 .. size |-> Entry(<<lines[n + 1].body>>, FALSE)]
  BY <1>3 DEF Held
<1>6. \A n \in 1 .. size : /\ lines[n + 1].body \in Bodies
                           /\ Entry(<<lines[n + 1].body>>, FALSE) \in Entries
                           /\ Entry(<<lines[n + 1].body>>, FALSE).bodies = <<lines[n + 1].body>>
                           /\ Entry(<<lines[n + 1].body>>, FALSE).ended = FALSE
                           /\ \A id \in BlockIds : lines[n + 1].body # EndOf(id)
  <2> SUFFICES ASSUME NEW n \in 1 .. size
               PROVE  /\ lines[n + 1].body \in Bodies
                      /\ Entry(<<lines[n + 1].body>>, FALSE) \in Entries
                      /\ Entry(<<lines[n + 1].body>>, FALSE).bodies = <<lines[n + 1].body>>
                      /\ Entry(<<lines[n + 1].body>>, FALSE).ended = FALSE
                      /\ \A id \in BlockIds : lines[n + 1].body # EndOf(id)
    OBVIOUS
  <2>1. lines[n + 1].body \in Bodies /\ ~IsEnd(lines[n + 1])
    BY <1>1, <1>4, LineParts
  <2>2. \A id \in BlockIds : lines[n + 1].body # EndOf(id)
    BY <2>1 DEF IsEnd
  <2> QED BY <2>1, <2>2, EntryType
<1>7. /\ held \in Seq(Entries) /\ Len(held) = size
      /\ \A n \in 1 .. size : held[n] = Entry(<<lines[n + 1].body>>, FALSE)
  <2>1. \A n \in 1 .. size : Entry(<<lines[n + 1].body>>, FALSE) \in Entries
    BY <1>6
  <2>2. DOMAIN held = 1 .. size /\ \A n \in 1 .. size : held[n] = Entry(<<lines[n + 1].body>>, FALSE)
    BY <1>5
  <2>3. held \in [1 .. size -> Entries]
    <3>1. held = [n \in 1 .. size |-> held[n]]
      BY <1>5, <2>2, Zenon
    <3>2. \A n \in 1 .. size : held[n] \in Entries
      BY <2>1, <2>2, Zenon
    <3> HIDE DEF held
    <3> QED BY <3>1, <3>2
  <2> HIDE DEF held
  <2>4. size \in Nat
    BY <1>1
  <2>5. held \in Seq(Entries) /\ Len(held) = size
    BY <2>3, <2>4
  <2> QED BY <2>2, <2>5
<1> HIDE DEF held
<1>8. \A n \in 1 .. size : /\ held[n].bodies = <<lines[n + 1].body>> /\ held[n].ended = FALSE
                           /\ Len(held[n].bodies) = 1 /\ held[n].bodies[1] = lines[n + 1].body
  <2>1. ASSUME NEW body PROVE Len(<<body>>) = 1 /\ <<body>>[1] = body
    OBVIOUS
  <2>2. ASSUME NEW n \in 1 .. size
        PROVE  held[n].bodies = <<lines[n + 1].body>> /\ held[n].ended = FALSE
    BY <1>6, <1>7, Zenon
  <2>3. \A n \in 1 .. size : Len(held[n].bodies) = 1 /\ held[n].bodies[1] = lines[n + 1].body
    BY <2>1, <2>2, Zenon
  <2> QED BY <2>2, <2>3
<1>9. SingleLines(held)
  <2>1. DOMAIN held = 1 .. size
    BY <1>7
  <2>2. \A n \in 1 .. size : \A id \in BlockIds : held[n].bodies[1] # EndOf(id)
    BY <1>6, <1>8, Zenon
  <2>3. \A n \in 1 .. size : Len(held[n].bodies) = 1 /\ ~held[n].ended
    BY <1>8, Zenon
  <2> QED BY <2>1, <2>2, <2>3, Zenon DEF SingleLines
<1> DEFINE ended == EndedSegment(block)
           all == AllEnded(lines)
<1>10. /\ ended \in Segments /\ ended.id = block.id /\ ended.lines = all
       /\ all \in Seq(Lines) /\ Len(all) = Len(lines)
       /\ \A n \in 1 .. Len(lines) : all[n] = Line(lines[n].body) /\ all[n].body = lines[n].body
  BY <1>1, EndedSegmentHolds, AllEndedHolds DEF lines
<1> HIDE DEF all, ended
<1>11. Held(ended) = held
  <2>1. Len(ended.lines) = size + 2
    BY <1>1, <1>10
  <2>2. DOMAIN Inner(ended) = 1 .. size /\ \A n \in 1 .. size : Inner(ended)[n] = all[n + 1]
    BY <1>1, <1>10, <2>1, InnerHolds
  <2>3. \A n \in 1 .. size : Inner(ended)[n].body = lines[n + 1].body
    BY <1>4, <1>10, <2>2
  <2>4. Held(ended) = [n \in 1 .. size |-> Entry(<<Inner(ended)[n].body>>, FALSE)]
    BY <2>2 DEF Held
  <2> QED BY <1>5, <2>3, <2>4
<1> DEFINE other == Wrapped(block.id, Line(first.body), held, Line(last.body))
<1>12. ended = other
  <2>1. Line(first.body) \in Lines /\ Line(last.body) \in Lines /\ block.id \in BlockIds
    BY <1>1, LineParts
  <2>0. \A one, two \in Lines :
           LET new == Wrapped(block.id, one, held, two)
           IN  /\ new \in Segments /\ new.id = block.id /\ Len(new.lines) = size + 2
               /\ new.lines[1] = one /\ new.lines[size + 2] = two
               /\ \A n \in 1 .. size : new.lines[n + 1] = Line(held[n].bodies[1])
    <3>1. ASSUME NEW one \in Lines, NEW two \in Lines
          PROVE  LET new == Wrapped(block.id, one, held, two)
                 IN  /\ new \in Segments /\ new.id = block.id /\ Len(new.lines) = Len(held) + 2
                     /\ new.lines[1] = one /\ new.lines[Len(held) + 2] = two
                     /\ \A n \in 1 .. Len(held) : new.lines[n + 1] = Line(held[n].bodies[1])
      BY <1>7, <1>9, <2>1, WrappedParts, SMTT(30)
    <3>2. Len(held) = size
      BY <1>7
    <3> QED BY <3>1, <3>2
  <2> HIDE DEF size
  <2>2. /\ other \in Segments /\ other.id = block.id /\ Len(other.lines) = size + 2
        /\ other.lines[1] = Line(first.body) /\ other.lines[size + 2] = Line(last.body)
        /\ \A n \in 1 .. size : other.lines[n + 1] = Line(held[n].bodies[1])
    BY <2>0, <2>1, ZenonT(40)
  <2>3. other.lines \in Seq(Lines)
    BY <2>2, SegmentParts
  <2> HIDE DEF other
  <2>4. ASSUME NEW n \in 1 .. size + 2 PROVE all[n] = other.lines[n]
    <3>1. CASE n = 1
      BY <1>1, <1>10, <2>2, <3>1
    <3>2. CASE n = size + 2
      BY <1>1, <1>10, <2>2, <3>2
    <3>3. CASE n # 1 /\ n # size + 2
      <4>1. n - 1 \in 1 .. size /\ (n - 1) + 1 = n
        BY <1>1, <3>3
      <4>2. other.lines[n] = Line(held[n - 1].bodies[1]) /\ held[n - 1].bodies[1] = lines[n].body
        BY <1>8, <2>2, <4>1
      <4>3. all[n] = Line(lines[n].body)
        BY <1>1, <1>10
      <4> QED BY <4>2, <4>3
    <3> QED BY <3>1, <3>2, <3>3
  <2>5. ended.lines = other.lines
    BY <1>1, <1>10, <2>2, <2>3, <2>4, SeqEqual
  <2>6. ended = [id |-> ended.id, lines |-> ended.lines] /\ other = [id |-> other.id, lines |-> other.lines]
    BY <1>10, <2>2, SegmentParts
  <2>7. ended.id = other.id
    BY <1>10, <2>2
  <2> QED BY <2>5, <2>6, <2>7, Zenon
<1>13. /\ block.id \in BlockIds /\ first \in Lines /\ last \in Lines
       /\ first.body = BeginOf(block.id) /\ last.body = EndOf(block.id)
       /\ LinesEnd(lines) => first.ended
       /\ Head(lines) = first
       /\ held \in Seq(Entries) /\ SingleLines(held)
       /\ Held(ended) = held
       /\ ended = other
  BY <1>1, <1>2, <1>7, <1>9, <1>11, <1>12
<1> QED BY <1>13 DEF lines, held, ended

-----------------------------------------------------------------------------
(* The first block with an id among the segments of a text *)

At(segments, id, k) ==
    /\ k \in 1 .. Len(segments) /\ segments[k].id = id
    /\ \A n \in 1 .. k - 1 : segments[n].id # id

LEMMA PlaceExists ==
    ASSUME NEW segments \in Seq(Segments), NEW id, Places(segments, id) # {}
    PROVE  At(segments, id, Min(Places(segments, id)))
<1> DEFINE places == Places(segments, id)
<1>1. DOMAIN segments = 1 .. Len(segments) /\ Len(segments) \in Nat
  OBVIOUS
<1>2. places \in SUBSET Nat /\ \A n \in places : n \in 1 .. Len(segments) /\ segments[n].id = id
  BY <1>1 DEF Places
<1>3. \A n \in 1 .. Len(segments) : segments[n].id = id => n \in places
  BY <1>1 DEF Places
<1> HIDE DEF places
<1>4. Min(places) \in places /\ \A n \in places : Min(places) <= n
  BY <1>2, MinIsFirst DEF places
<1>5. ASSUME NEW n \in 1 .. Min(places) - 1 PROVE segments[n].id # id
  <2>1. Min(places) \in 1 .. Len(segments)
    BY <1>2, <1>4
  <2> DEFINE least == Min(places)
  <2> HIDE DEF least
  <2>2. n \in 1 .. Len(segments) /\ ~(least <= n)
    BY <1>1, <2>1 DEF least
  <2> QED BY <1>3, <1>4, <2>2 DEF least
<1>6. At(segments, id, Min(places))
  BY <1>2, <1>4, <1>5 DEF At
<1> QED BY <1>6 DEF places

LEMMA PlaceIs ==
    ASSUME NEW segments \in Seq(Segments), NEW id, NEW k, At(segments, id, k)
    PROVE  Places(segments, id) # {} /\ Min(Places(segments, id)) = k
<1> DEFINE places == Places(segments, id)
<1>1. DOMAIN segments = 1 .. Len(segments) /\ Len(segments) \in Nat
  OBVIOUS
<1>2. k \in places
  BY <1>1 DEF Places, At
<1>3. At(segments, id, Min(places))
  BY <1>2, PlaceExists
<1> HIDE DEF places
<1>4. Min(places) = k
  BY <1>1, <1>3 DEF At
<1> QED BY <1>2, <1>4 DEF places

LEMMA NoPlace ==
    ASSUME NEW segments \in Seq(Segments), NEW id
    PROVE  Places(segments, id) = {} <=> \A n \in 1 .. Len(segments) : segments[n].id # id
BY DEF Places

LEMMA EndedPlaces ==
    ASSUME NEW segments \in Seq(Segments), NEW id
    PROVE  /\ Places(EndedSegments(segments), id) = Places(segments, id)
           /\ \A k : At(EndedSegments(segments), id, k) <=> At(segments, id, k)
<1> DEFINE ended == EndedSegments(segments)
<1>1. /\ ended \in Seq(Segments) /\ Len(ended) = Len(segments) /\ Len(segments) \in Nat
      /\ \A n \in 1 .. Len(segments) : ended[n] = EndedSegment(segments[n])
  BY EndedSegmentsHolds
<1>2. \A n \in 1 .. Len(segments) : segments[n] \in Segments
  OBVIOUS
<1>3. \A n \in 1 .. Len(segments) : ended[n].id = segments[n].id
  BY <1>1, <1>2, EndedSegmentHolds
<1> HIDE DEF ended
<1>4. DOMAIN ended = 1 .. Len(segments) /\ DOMAIN segments = 1 .. Len(segments)
  BY <1>1
<1>5. Places(ended, id) = Places(segments, id)
  BY <1>3, <1>4 DEF Places
<1>6. ASSUME NEW k PROVE At(ended, id, k) <=> At(segments, id, k)
  <2>1. CASE k \in 1 .. Len(segments)
    <3>1. \A n \in 1 .. k - 1 : n \in 1 .. Len(segments)
      BY <1>1, <2>1
    <3> QED BY <1>1, <1>3, <2>1, <3>1 DEF At
  <2>2. CASE k \notin 1 .. Len(segments)
    BY <1>1, <2>2 DEF At
  <2> QED BY <2>1, <2>2
<1> QED BY <1>5, <1>6 DEF ended

LEMMA ClosedAt ==
    ASSUME NEW segments \in Seq(Segments), Shaped(segments), NEW id \in BlockIds, NEW k, At(segments, id, k)
    PROVE  k \in 1 .. Len(segments) /\ segments[k] \in Segments /\ segments[k].id = id /\ IsClosed(segments[k])
<1>1. k \in 1 .. Len(segments) /\ segments[k] \in Segments /\ segments[k].id = id
  BY DEF At
<1>2. id # NoBlock
  BY BlocksApart
<1>3. IsClosed(segments[k])
  BY <1>1, <1>2 DEF Shaped, IsLiteral
<1> QED BY <1>1, <1>3

LEMMA PutHolds ==
    ASSUME NEW segments \in Seq(Segments), NEW k \in 1 .. Len(segments), NEW segment \in Segments
    PROVE  LET put == [segments EXCEPT ![k] = segment]
           IN  /\ put \in Seq(Segments) /\ Len(put) = Len(segments) /\ put[k] = segment
               /\ \A n \in 1 .. Len(segments) : n # k => put[n] = segments[n]
OBVIOUS

LEMMA PutEnded ==
    ASSUME NEW segments \in Seq(Segments), NEW k \in 1 .. Len(segments), NEW segment \in Segments
    PROVE  EndedSegments([segments EXCEPT ![k] = segment])
             = [EndedSegments(segments) EXCEPT ![k] = EndedSegment(segment)]
<1> DEFINE put == [segments EXCEPT ![k] = segment]
           ended == EndedSegments(segments)
           one == EndedSegments(put)
           new == EndedSegment(segment)
           two == [ended EXCEPT ![k] = new]
<1>1. /\ put \in Seq(Segments) /\ Len(put) = Len(segments) /\ put[k] = segment
      /\ \A n \in 1 .. Len(segments) : n # k => put[n] = segments[n]
  BY PutHolds
<1> HIDE DEF put
<1>2. one \in Seq(Segments) /\ Len(one) = Len(put) /\ \A n \in 1 .. Len(put) : one[n] = EndedSegment(put[n])
  BY <1>1, EndedSegmentsHolds
<1>3. /\ ended \in Seq(Segments) /\ Len(ended) = Len(segments)
      /\ \A n \in 1 .. Len(segments) : ended[n] = EndedSegment(segments[n])
  BY EndedSegmentsHolds
<1>4. new \in Segments
  BY EndedSegmentHolds
<1> HIDE DEF one, ended, new
<1>5. /\ two \in Seq(Segments) /\ Len(two) = Len(segments) /\ two[k] = new
      /\ \A n \in 1 .. Len(segments) : n # k => two[n] = ended[n]
  BY <1>3, <1>4
<1> HIDE DEF two
<1>6. ASSUME NEW n \in 1 .. Len(segments) PROVE one[n] = two[n]
  BY <1>1, <1>2, <1>3, <1>5 DEF new
<1>7. one = two
  BY <1>1, <1>2, <1>5, <1>6, SeqEqual
<1> QED BY <1>7 DEF one, two, put, ended, new

LEMMA PutAt ==
    ASSUME NEW segments \in Seq(Segments), NEW id, NEW k, At(segments, id, k),
           NEW segment \in Segments, segment.id = id
    PROVE  At([segments EXCEPT ![k] = segment], id, k)
<1> DEFINE put == [segments EXCEPT ![k] = segment]
<1>1. k \in 1 .. Len(segments)
  BY DEF At
<1>2. /\ put \in Seq(Segments) /\ Len(put) = Len(segments) /\ put[k] = segment
      /\ \A n \in 1 .. Len(segments) : n # k => put[n] = segments[n]
  BY <1>1, PutHolds
<1> HIDE DEF put
<1>3. ASSUME NEW n \in 1 .. k - 1 PROVE put[n].id # id
  <2>1. n \in 1 .. Len(segments) /\ n # k
    BY <1>1
  <2> QED BY <1>2, <2>1 DEF At
<1>4. At(put, id, k)
  BY <1>1, <1>2, <1>3 DEF At
<1> QED BY <1>4 DEF put

LEMMA PutShaped ==
    ASSUME NEW segments \in Seq(Segments), Shaped(segments), NEW k \in 1 .. Len(segments),
           NEW segment \in Segments, IsClosed(segment), segment.id = segments[k].id
    PROVE  Shaped([segments EXCEPT ![k] = segment])
<1> DEFINE put == [segments EXCEPT ![k] = segment]
<1>1. /\ put \in Seq(Segments) /\ Len(put) = Len(segments) /\ put[k] = segment
      /\ \A n \in 1 .. Len(segments) : n # k => put[n] = segments[n]
  BY PutHolds
<1> HIDE DEF put
<1>2. \A n \in 1 .. Len(segments) : put[n].id = segments[n].id
  BY <1>1
<1>3. ASSUME NEW n \in 1 .. Len(segments) PROVE IsLiteral(put[n]) \/ IsClosed(put[n])
  <2>1. CASE n = k
    BY <1>1, <2>1
  <2>2. CASE n # k
    BY <1>1, <2>2 DEF Shaped
  <2> QED BY <2>1, <2>2
<1>4. ASSUME NEW n \in 1 .. Len(segments) - 1, put[n].id = NoBlock PROVE put[n + 1].id # NoBlock
  <2>1. n \in 1 .. Len(segments) /\ n + 1 \in 1 .. Len(segments)
    OBVIOUS
  <2> QED BY <1>2, <1>4, <2>1 DEF Shaped
<1>5. Shaped(put)
  BY <1>1, <1>3, <1>4 DEF Shaped
<1> QED BY <1>5 DEF put

LEMMA PutWhole ==
    ASSUME NEW segments \in Seq(Segments), WholeLines(segments), NEW k \in 1 .. Len(segments),
           NEW segment \in Segments, LinesEnd(segment.lines)
    PROVE  WholeLines([segments EXCEPT ![k] = segment])
<1> DEFINE put == [segments EXCEPT ![k] = segment]
<1>1. /\ put \in Seq(Segments) /\ Len(put) = Len(segments) /\ put[k] = segment
      /\ \A n \in 1 .. Len(segments) : n # k => put[n] = segments[n]
  BY PutHolds
<1> HIDE DEF put
<1>2. ASSUME NEW n \in 1 .. Len(segments) PROVE LinesEnd(put[n].lines)
  <2>1. CASE n = k
    BY <1>1, <2>1
  <2>2. CASE n # k
    BY <1>1, <2>2 DEF WholeLines
  <2> QED BY <2>1, <2>2
<1>3. WholeLines(put)
  BY <1>1, <1>2 DEF WholeLines
<1> QED BY <1>3 DEF put

LEMMA AppendAt ==
    ASSUME NEW segments \in Seq(Segments), NEW id, Places(segments, id) = {},
           NEW segment \in Segments, segment.id = id
    PROVE  At(Append(segments, segment), id, Len(segments) + 1)
<1> DEFINE more == Append(segments, segment)
<1>1. /\ Len(more) = Len(segments) + 1 /\ more[Len(segments) + 1] = segment
      /\ Len(segments) \in Nat /\ \A n \in 1 .. Len(segments) : more[n] = segments[n]
  OBVIOUS
<1> HIDE DEF more
<1>2. \A n \in 1 .. Len(segments) : segments[n].id # id
  BY NoPlace
<1>3. At(more, id, Len(segments) + 1)
  BY <1>1, <1>2 DEF At
<1> QED BY <1>3 DEF more

-----------------------------------------------------------------------------
(* Putting a block in and taking it away *)

\* A block as it is put at the end.
New(id, entries) == Wrapped(id, Line(BeginOf(id)), entries, Line(EndOf(id)))

\* A block with other entries between its header and its footer.
Refilled(block, entries) == Wrapped(block.id, block.lines[1], entries, block.lines[Len(block.lines)])

LEMMA NewHolds ==
    ASSUME NEW id \in BlockIds, NEW entries \in Seq(Entries), SingleLines(entries)
    PROVE  /\ New(id, entries) \in Segments /\ New(id, entries).id = id
           /\ Held(New(id, entries)) = entries /\ IsClosed(New(id, entries))
           /\ LinesEnd(New(id, entries).lines) /\ EndedSegment(New(id, entries)) = New(id, entries)
           /\ \A other \in Seq(Entries) :
                  SingleLines(other) => Refilled(New(id, entries), other) = New(id, other)
<1> DEFINE first == Line(BeginOf(id))
           last == Line(EndOf(id))
<1>1. BeginOf(id) \in Bodies /\ EndOf(id) \in Bodies
  BY BlocksAssumption
<1>2. /\ first \in Lines /\ last \in Lines /\ first.ended /\ first.body = BeginOf(id) /\ last.body = EndOf(id)
      /\ Line(first.body) = first /\ Line(last.body) = last
  BY <1>1 DEF Line, Lines
<1> HIDE DEF first, last
<1>3. /\ Wrapped(id, first, entries, last) \in Segments /\ Wrapped(id, first, entries, last).id = id
      /\ Len(Wrapped(id, first, entries, last).lines) = Len(entries) + 2
      /\ Wrapped(id, first, entries, last).lines[1] = first
      /\ Wrapped(id, first, entries, last).lines[Len(entries) + 2] = last
  BY <1>2, WrappedParts
<1>4. /\ Held(Wrapped(id, first, entries, last)) = entries
      /\ EndedSegment(Wrapped(id, first, entries, last)) = Wrapped(id, Line(first.body), entries, Line(last.body))
      /\ LinesEnd(Wrapped(id, first, entries, last).lines)
      /\ IsClosed(Wrapped(id, first, entries, last))
  BY <1>2, WrappedHolds
<1>5. New(id, entries) = Wrapped(id, first, entries, last)
  BY DEF New, first, last
<1>6. ASSUME NEW other \in Seq(Entries) PROVE Refilled(New(id, entries), other) = New(id, other)
  <2>1. New(id, other) = Wrapped(id, first, other, last)
    BY DEF New, first, last
  <2>2. /\ New(id, entries).id = id /\ New(id, entries).lines[1] = first
        /\ New(id, entries).lines[Len(New(id, entries).lines)] = last
    BY <1>3, <1>5
  <2> QED BY <2>1, <2>2 DEF Refilled
<1> QED BY <1>2, <1>3, <1>4, <1>5, <1>6

LEMMA RefilledHolds ==
    ASSUME NEW block \in Segments, IsClosed(block), NEW entries \in Seq(Entries), SingleLines(entries)
    PROVE  /\ Refilled(block, entries) \in Segments /\ Refilled(block, entries).id = block.id
           /\ Held(Refilled(block, entries)) = entries /\ IsClosed(Refilled(block, entries))
           /\ LinesEnd(block.lines) => LinesEnd(Refilled(block, entries).lines)
           /\ EndedSegment(Refilled(block, entries)) = Refilled(EndedSegment(block), entries)
           /\ \A other \in Seq(Entries) :
                  SingleLines(other) => Refilled(Refilled(block, entries), other) = Refilled(block, other)
           /\ Refilled(EndedSegment(block), Held(block)) = EndedSegment(block)
<1> DEFINE first == block.lines[1]
           last == block.lines[Len(block.lines)]
           id == block.id
           held == Held(block)
<1>1. /\ id \in BlockIds /\ first \in Lines /\ last \in Lines
      /\ first.body = BeginOf(id) /\ last.body = EndOf(id)
      /\ LinesEnd(block.lines) => first.ended
      /\ held \in Seq(Entries) /\ SingleLines(held)
      /\ EndedSegment(block) = Wrapped(id, Line(first.body), held, Line(last.body))
  BY ClosedParts
<1>2. \A es : Refilled(block, es) = Wrapped(id, first, es, last)
  BY DEF Refilled
<1> HIDE DEF first, last, id, held
<1>3. ASSUME NEW one \in Lines, NEW two \in Lines, NEW es \in Seq(Entries), SingleLines(es), NEW other
      PROVE  Refilled(Wrapped(id, one, es, two), other) = Wrapped(id, one, other, two)
  <2>1. /\ Wrapped(id, one, es, two).id = id /\ Len(Wrapped(id, one, es, two).lines) = Len(es) + 2
        /\ Wrapped(id, one, es, two).lines[1] = one
        /\ Wrapped(id, one, es, two).lines[Len(es) + 2] = two
    BY <1>1, <1>3, WrappedParts
  <2> QED BY <2>1 DEF Refilled
<1>4. Wrapped(id, first, entries, last) \in Segments /\ Wrapped(id, first, entries, last).id = id
  BY <1>1, WrappedParts
<1>5. /\ Held(Wrapped(id, first, entries, last)) = entries
      /\ EndedSegment(Wrapped(id, first, entries, last)) = Wrapped(id, Line(first.body), entries, Line(last.body))
      /\ first.ended => LinesEnd(Wrapped(id, first, entries, last).lines)
      /\ IsClosed(Wrapped(id, first, entries, last))
  BY <1>1, WrappedHolds
<1>6. Line(first.body) \in Lines /\ Line(last.body) \in Lines
  BY <1>1, LineParts
<1>7. /\ Refilled(EndedSegment(block), entries) = Wrapped(id, Line(first.body), entries, Line(last.body))
      /\ Refilled(EndedSegment(block), held) = Wrapped(id, Line(first.body), held, Line(last.body))
  BY <1>1, <1>3, <1>6
<1>8. \A other : Refilled(Wrapped(id, first, entries, last), other) = Wrapped(id, first, other, last)
  BY <1>1, <1>3
<1>9. Refilled(block, entries) = Wrapped(id, first, entries, last)
  BY <1>2
<1>10. \A other : Refilled(Refilled(block, entries), other) = Refilled(block, other)
  BY <1>2, <1>8, <1>9
<1> QED BY <1>1, <1>4, <1>5, <1>7, <1>9, <1>10 DEF id, held

LEMMA EnsureIs ==
    ASSUME NEW segments \in Seq(Segments), Shaped(segments), NEW id \in BlockIds, NEW entries
    PROVE  /\ \A k : At(segments, id, k) =>
                EnsureBlock(segments, id, entries) = [segments EXCEPT ![k] = Refilled(segments[k], entries)]
           /\ Places(segments, id) = {} =>
                EnsureBlock(segments, id, entries) = Append(segments, New(id, entries))
<1>1. ASSUME NEW k, At(segments, id, k)
      PROVE  EnsureBlock(segments, id, entries) = [segments EXCEPT ![k] = Refilled(segments[k], entries)]
  <2> DEFINE block == segments[k]
             inner == LinesOf(entries)
  <2>1. Places(segments, id) # {} /\ Min(Places(segments, id)) = k
    BY <1>1, PlaceIs
  <2>2. k \in 1 .. Len(segments) /\ block \in Segments /\ block.id = id /\ IsClosed(block)
    BY <1>1, ClosedAt
  <2>3. Head(block.lines) = block.lines[1]
    BY <2>2, ClosedParts
  <2>4. block = [id |-> id, lines |-> block.lines]
    BY <2>2, SegmentParts
  <2>5. EnsureBlock(segments, id, entries)
          = [segments EXCEPT ![k].lines = <<Head(@)>> \o inner \o <<@[Len(@)]>>]
    BY <2>1 DEF EnsureBlock
  <2> HIDE DEF inner
  <2>6. EnsureBlock(segments, id, entries)
          = [segments EXCEPT ![k] = [block EXCEPT !.lines = <<Head(@)>> \o inner \o <<@[Len(@)]>>]]
    BY <2>5
  <2> HIDE DEF block
  <2>7. ASSUME NEW old, NEW new PROVE [[id |-> id, lines |-> old] EXCEPT !.lines = new] = [id |-> id, lines |-> new]
    OBVIOUS
  <2>8. [block EXCEPT !.lines = <<Head(@)>> \o inner \o <<@[Len(@)]>>]
          = [id |-> id, lines |-> <<Head(block.lines)>> \o inner \o <<block.lines[Len(block.lines)]>>]
    BY <2>4, <2>7, Zenon
  <2>9. Refilled(block, entries)
          = [id |-> id, lines |-> <<block.lines[1]>> \o inner \o <<block.lines[Len(block.lines)]>>]
    BY <2>2 DEF Refilled, Wrapped, Block, inner
  <2>10. EnsureBlock(segments, id, entries) = [segments EXCEPT ![k] = Refilled(block, entries)]
    BY <2>3, <2>6, <2>8, <2>9, Zenon
  <2> QED BY <2>10 DEF block
<1>2. ASSUME Places(segments, id) = {}
      PROVE  EnsureBlock(segments, id, entries) = Append(segments, New(id, entries))
  BY <1>2 DEF EnsureBlock, New, Wrapped
<1> QED BY <1>1, <1>2

\* Entries are read from the first block with the id.
LEMMA EntriesAre ==
    ASSUME NEW segments \in Seq(Segments), NEW id
    PROVE  /\ \A k : At(segments, id, k) => EntriesOf(segments, id) = Held(segments[k])
           /\ Places(segments, id) = {} => EntriesOf(segments, id) = NoBlock
<1>1. ASSUME NEW k, At(segments, id, k) PROVE EntriesOf(segments, id) = Held(segments[k])
  <2>1. Places(segments, id) # {} /\ Min(Places(segments, id)) = k
    BY <1>1, PlaceIs
  <2> QED BY <2>1 DEF EntriesOf, Held
<1> QED BY <1>1 DEF EntriesOf

LEMMA EntriesHold ==
    ASSUME NEW segments \in Seq(Segments), Shaped(segments), NEW id \in BlockIds
    PROVE  /\ EntriesOf(segments, id) = NoBlock <=> Places(segments, id) = {}
           /\ Places(segments, id) # {} =>
                EntriesOf(segments, id) \in Seq(Entries) /\ SingleLines(EntriesOf(segments, id))
           /\ EntriesOf(EndedSegments(segments), id) = EntriesOf(segments, id)
<1> DEFINE k == Min(Places(segments, id))
           ended == EndedSegments(segments)
<1>0. ended \in Seq(Segments) /\ Places(ended, id) = Places(segments, id)
  BY EndedSegmentsHolds, EndedPlaces
<1>1. CASE Places(segments, id) = {}
  BY <1>0, <1>1, EntriesAre
<1>2. CASE Places(segments, id) # {}
  <2>1. At(segments, id, k)
    BY <1>2, PlaceExists
  <2>2. At(ended, id, k)
    BY <2>1, EndedPlaces
  <2> HIDE DEF k
  <2>3. k \in 1 .. Len(segments) /\ segments[k] \in Segments /\ IsClosed(segments[k])
    BY <2>1, ClosedAt
  <2>4. EntriesOf(segments, id) = Held(segments[k])
    BY <2>1, EntriesAre
  <2>5. EntriesOf(ended, id) = Held(ended[k]) /\ ended[k] = EndedSegment(segments[k])
    BY <1>0, <2>2, <2>3, EntriesAre, EndedSegmentsHolds
  <2>6. /\ Held(segments[k]) \in Seq(Entries) /\ SingleLines(Held(segments[k]))
        /\ Held(EndedSegment(segments[k])) = Held(segments[k])
    BY <2>3, ClosedParts
  <2>7. Held(segments[k]) # NoBlock
    BY <2>6, BlocksApart
  <2> QED BY <1>2, <2>4, <2>5, <2>6, <2>7
<1> QED BY <1>1, <1>2

LEMMA EnsureHolds ==
    ASSUME NEW segments \in Seq(Segments), Shaped(segments), NEW id \in BlockIds,
           NEW entries \in Seq(Entries), SingleLines(entries)
    PROVE  LET put == EnsureBlock(segments, id, entries)
           IN  /\ put \in Seq(Segments) /\ Shaped(put)
               /\ WholeLines(segments) => WholeLines(put)
               /\ Places(put, id) # {} /\ EntriesOf(put, id) = entries
<1> DEFINE k == Min(Places(segments, id))
           put == EnsureBlock(segments, id, entries)
<1>1. CASE Places(segments, id) = {}
  <2> DEFINE new == New(id, entries)
             last == Len(segments) + 1
  <2>1. /\ new \in Segments /\ new.id = id /\ Held(new) = entries /\ IsClosed(new) /\ LinesEnd(new.lines)
    BY NewHolds
  <2>2. put = Append(segments, new)
    BY <1>1, EnsureIs
  <2> HIDE DEF new, put
  <2>3. put \in Seq(Segments) /\ put[last] = new
    BY <2>1, <2>2
  <2>4. At(put, id, last)
    BY <1>1, <2>1, <2>2, AppendAt
  <2>5. Places(put, id) # {} /\ EntriesOf(put, id) = entries
    BY <2>1, <2>3, <2>4, PlaceIs, EntriesAre
  <2>6. Shaped(put)
    BY <2>1, <2>2, ShapedAppend, BlocksApart
  <2>7. WholeLines(segments) => WholeLines(put)
    BY <2>1, <2>2, WholeAppend
  <2> QED BY <2>3, <2>5, <2>6, <2>7 DEF put
<1>2. CASE Places(segments, id) # {}
  <2>1. At(segments, id, k)
    BY <1>2, PlaceExists
  <2> HIDE DEF k
  <2> DEFINE block == segments[k]
             new == Refilled(block, entries)
  <2>2. k \in 1 .. Len(segments) /\ block \in Segments /\ block.id = id /\ IsClosed(block)
    BY <2>1, ClosedAt
  <2>3. put = [segments EXCEPT ![k] = new]
    BY <2>1, EnsureIs
  <2>4. /\ new \in Segments /\ new.id = block.id /\ Held(new) = entries /\ IsClosed(new)
        /\ LinesEnd(block.lines) => LinesEnd(new.lines)
    <3> HIDE DEF block
    <3> QED BY <2>2, RefilledHolds
  <2> HIDE DEF new, put
  <2>5. put \in Seq(Segments) /\ put[k] = new
    BY <2>2, <2>3, <2>4, PutHolds
  <2>6. At(put, id, k)
    BY <2>1, <2>2, <2>3, <2>4, PutAt
  <2>7. Places(put, id) # {} /\ EntriesOf(put, id) = entries
    BY <2>4, <2>5, <2>6, PlaceIs, EntriesAre
  <2>8. Shaped(put)
    BY <2>2, <2>3, <2>4, PutShaped
  <2>9. ASSUME WholeLines(segments) PROVE WholeLines(put)
    <3>1. LinesEnd(new.lines)
      BY <2>2, <2>4, <2>9 DEF WholeLines
    <3> QED BY <2>2, <2>3, <2>4, <2>9, <3>1, PutWhole
  <2> QED BY <2>5, <2>7, <2>8, <2>9 DEF put
<1> QED BY <1>1, <1>2

LEMMA EnsureEnded ==
    ASSUME NEW segments \in Seq(Segments), Shaped(segments), NEW id \in BlockIds,
           NEW entries \in Seq(Entries), SingleLines(entries)
    PROVE  EndedSegments(EnsureBlock(segments, id, entries)) = EnsureBlock(EndedSegments(segments), id, entries)
<1> DEFINE k == Min(Places(segments, id))
           ended == EndedSegments(segments)
<1>0. /\ ended \in Seq(Segments) /\ Shaped(ended) /\ Places(ended, id) = Places(segments, id)
      /\ \A n \in 1 .. Len(segments) : ended[n] = EndedSegment(segments[n])
  BY EndedSegmentsHolds, EndedPlaces, EndedShaped
<1>1. CASE Places(segments, id) = {}
  <2>1. New(id, entries) \in Segments /\ EndedSegment(New(id, entries)) = New(id, entries)
    BY NewHolds
  <2>2. EndedSegments(Append(segments, New(id, entries))) = Append(ended, New(id, entries))
    BY <2>1, EndedAppend
  <2> HIDE DEF ended
  <2>3. /\ EnsureBlock(segments, id, entries) = Append(segments, New(id, entries))
        /\ EnsureBlock(ended, id, entries) = Append(ended, New(id, entries))
    BY <1>0, <1>1, EnsureIs
  <2> QED BY <2>2, <2>3 DEF ended
<1>2. CASE Places(segments, id) # {}
  <2>1. At(segments, id, k) /\ At(ended, id, k)
    BY <1>2, PlaceExists, EndedPlaces
  <2> HIDE DEF k
  <2> DEFINE block == segments[k]
             new == Refilled(block, entries)
  <2>2. k \in 1 .. Len(segments) /\ block \in Segments /\ block.id = id /\ IsClosed(block)
    BY <2>1, ClosedAt
  <2>3. new \in Segments /\ EndedSegment(new) = Refilled(EndedSegment(block), entries)
    <3> HIDE DEF block
    <3> QED BY <2>2, RefilledHolds
  <2> HIDE DEF new
  <2>4. EndedSegments([segments EXCEPT ![k] = new]) = [ended EXCEPT ![k] = EndedSegment(new)]
    BY <2>2, <2>3, PutEnded
  <2> HIDE DEF ended
  <2>5. EnsureBlock(segments, id, entries) = [segments EXCEPT ![k] = new]
    BY <2>1, EnsureIs DEF new
  <2>6. EnsureBlock(ended, id, entries) = [ended EXCEPT ![k] = Refilled(ended[k], entries)]
    BY <1>0, <2>1, EnsureIs
  <2>7. ended[k] = EndedSegment(block)
    BY <1>0, <2>2
  <2> QED BY <2>3, <2>4, <2>5, <2>6, <2>7 DEF ended
<1> QED BY <1>1, <1>2

\* Of two writes of a block the second counts.
LEMMA EnsureAgain ==
    ASSUME NEW segments \in Seq(Segments), Shaped(segments), NEW id \in BlockIds,
           NEW one \in Seq(Entries), SingleLines(one), NEW two \in Seq(Entries), SingleLines(two)
    PROVE  EnsureBlock(EnsureBlock(segments, id, one), id, two) = EnsureBlock(segments, id, two)
<1> DEFINE k == Min(Places(segments, id))
           put == EnsureBlock(segments, id, one)
<1>0. put \in Seq(Segments) /\ Shaped(put)
  BY EnsureHolds
<1>1. CASE Places(segments, id) = {}
  <2> DEFINE new == New(id, one)
             other == New(id, two)
             last == Len(segments) + 1
  <2>1. new \in Segments /\ new.id = id /\ Refilled(new, two) = other /\ other \in Segments
    BY NewHolds
  <2>2. put = Append(segments, new) /\ EnsureBlock(segments, id, two) = Append(segments, other)
    BY <1>1, EnsureIs
  <2> HIDE DEF new, other, put
  <2>3. At(put, id, last)
    BY <1>1, <2>1, <2>2, AppendAt
  <2>4. EnsureBlock(put, id, two) = [put EXCEPT ![last] = Refilled(put[last], two)]
    BY <1>0, <2>3, EnsureIs
  <2>5. put[last] = new
    BY <2>1, <2>2
  <2>6. [Append(segments, new) EXCEPT ![last] = other] = Append(segments, other)
    <3> DEFINE more == Append(segments, new)
               left == [more EXCEPT ![last] = other]
               right == Append(segments, other)
    <3>1. /\ more \in Seq(Segments) /\ Len(more) = last /\ last \in 1 .. Len(more) /\ Len(segments) \in Nat
          /\ \A n \in 1 .. Len(segments) : more[n] = segments[n]
      BY <2>1
    <3>2. /\ right \in Seq(Segments) /\ Len(right) = last /\ right[last] = other
          /\ \A n \in 1 .. Len(segments) : right[n] = segments[n]
      BY <2>1
    <3> HIDE DEF more, last
    <3>3. /\ left \in Seq(Segments) /\ Len(left) = Len(more) /\ left[last] = other
          /\ \A n \in 1 .. Len(more) : n # last => left[n] = more[n]
      BY <2>1, <3>1, PutHolds
    <3> HIDE DEF left, right
    <3>4. ASSUME NEW n \in 1 .. last PROVE left[n] = right[n]
      <4>1. CASE n = last
        BY <3>2, <3>3, <4>1
      <4>2. CASE n # last
        <5>1. n \in 1 .. Len(segments)
          BY <3>1, <4>2 DEF last
        <5> QED BY <3>1, <3>2, <3>3, <4>2, <5>1
      <4> QED BY <4>1, <4>2
    <3>5. left = right
      BY <3>1, <3>2, <3>3, <3>4, SeqEqual
    <3> QED BY <3>5 DEF left, right, more
  <2> QED BY <2>1, <2>2, <2>4, <2>5, <2>6 DEF put
<1>2. CASE Places(segments, id) # {}
  <2>1. At(segments, id, k)
    BY <1>2, PlaceExists
  <2> HIDE DEF k
  <2> DEFINE block == segments[k]
             new == Refilled(block, one)
             other == Refilled(block, two)
  <2>2. k \in 1 .. Len(segments) /\ block \in Segments /\ block.id = id /\ IsClosed(block)
    BY <2>1, ClosedAt
  <2>3. new \in Segments /\ new.id = block.id /\ Refilled(new, two) = other
    <3> HIDE DEF block
    <3> QED BY <2>2, RefilledHolds
  <2>4. put = [segments EXCEPT ![k] = new] /\ EnsureBlock(segments, id, two) = [segments EXCEPT ![k] = other]
    BY <2>1, EnsureIs
  <2> HIDE DEF new, other, put
  <2>5. At(put, id, k) /\ put[k] = new
    <3>1. At([segments EXCEPT ![k] = new], id, k)
      BY <2>1, <2>2, <2>3, PutAt
    <3>2. [segments EXCEPT ![k] = new][k] = new
      BY <2>2, <2>3, PutHolds
    <3> QED BY <2>4, <3>1, <3>2
  <2>6. EnsureBlock(put, id, two) = [put EXCEPT ![k] = Refilled(put[k], two)]
    BY <1>0, <2>5, EnsureIs
  <2>7. [[segments EXCEPT ![k] = new] EXCEPT ![k] = other] = [segments EXCEPT ![k] = other]
    BY <2>2
  <2> QED BY <2>3, <2>4, <2>5, <2>6, <2>7 DEF put
<1> QED BY <1>1, <1>2

\* A block that gets the entries it has stays as it is.
LEMMA EnsureHeld ==
    ASSUME NEW segments \in Seq(Segments), Shaped(segments), NEW id \in BlockIds, Places(segments, id) # {}
    PROVE  EnsureBlock(EndedSegments(segments), id, EntriesOf(segments, id)) = EndedSegments(segments)
<1> DEFINE k == Min(Places(segments, id))
           ended == EndedSegments(segments)
           block == segments[k]
<1>1. /\ ended \in Seq(Segments) /\ Shaped(ended) /\ Len(ended) = Len(segments)
      /\ \A n \in 1 .. Len(segments) : ended[n] = EndedSegment(segments[n])
  BY EndedSegmentsHolds, EndedShaped
<1>2. At(segments, id, k) /\ At(ended, id, k)
  BY PlaceExists, EndedPlaces
<1> HIDE DEF k, ended
<1>3. k \in 1 .. Len(segments) /\ block \in Segments /\ block.id = id /\ IsClosed(block)
  BY <1>2, ClosedAt
<1>4. EntriesOf(segments, id) = Held(block)
  BY <1>2, EntriesAre
<1>5. EnsureBlock(ended, id, Held(block)) = [ended EXCEPT ![k] = Refilled(ended[k], Held(block))]
  BY <1>1, <1>2, EnsureIs
<1>6. ended[k] = EndedSegment(block)
  BY <1>1, <1>3
<1>7. Refilled(EndedSegment(block), Held(block)) = EndedSegment(block)
  <2>1. <<>> \in Seq(Entries) /\ SingleLines(<<>>)
    BY DEF SingleLines
  <2> HIDE DEF block
  <2> QED BY <1>3, <2>1, RefilledHolds
<1>8. [ended EXCEPT ![k] = ended[k]] = ended
  BY <1>1, <1>3
<1> QED BY <1>4, <1>5, <1>6, <1>7, <1>8 DEF ended

LEMMA RemovedHolds ==
    ASSUME NEW segments \in Seq(Segments), NEW k \in 1 .. Len(segments)
    PROVE  /\ RemoveAt(segments, k) \in Seq(Segments) /\ Len(RemoveAt(segments, k)) = Len(segments) - 1
           /\ \A n \in 1 .. Len(segments) - 1 :
                  RemoveAt(segments, k)[n] = IF n < k THEN segments[n] ELSE segments[n + 1]
<1> DEFINE size == Len(segments)
           front == SubSeq(segments, 1, k - 1)
           back == SubSeq(segments, k + 1, size)
           rest == front \o back
<1>1. size \in Nat /\ k \in Nat /\ 1 <= k /\ k <= size
  OBVIOUS
<1>2. front \in Seq(Segments) /\ Len(front) = k - 1 /\ \A n \in 1 .. k - 1 : front[n] = segments[n]
  OBVIOUS
<1>3. back \in Seq(Segments) /\ Len(back) = size - k /\ \A n \in 1 .. size - k : back[n] = segments[n + k]
  <2>1. back \in Seq(Segments) /\ Len(back) = size - k
    OBVIOUS
  <2>2. ASSUME NEW n \in 1 .. size - k PROVE back[n] = segments[n + k]
    OBVIOUS
  <2> QED BY <2>1, <2>2
<1>4. RemoveAt(segments, k) = rest
  BY DEF RemoveAt
<1> HIDE DEF front, back, size
<1>5. /\ rest \in Seq(Segments) /\ Len(rest) = (k - 1) + (size - k)
      /\ \A n \in 1 .. (k - 1) + (size - k) : rest[n] = IF n <= k - 1 THEN front[n] ELSE back[n - (k - 1)]
  <2>1. /\ rest \in Seq(Segments) /\ Len(rest) = Len(front) + Len(back)
        /\ \A n \in 1 .. Len(front) + Len(back) :
               rest[n] = IF n <= Len(front) THEN front[n] ELSE back[n - Len(front)]
    BY <1>2, <1>3, ConcatProperties
  <2> HIDE DEF rest
  <2> QED BY <1>2, <1>3, <2>1
<1> HIDE DEF rest
<1>6. (k - 1) + (size - k) = size - 1
  BY <1>1
<1>7. ASSUME NEW n \in 1 .. size - 1 PROVE rest[n] = IF n < k THEN segments[n] ELSE segments[n + 1]
  <2>1. CASE n < k
    <3>1. n <= k - 1 /\ n \in 1 .. k - 1
      BY <1>1, <2>1
    <3> QED BY <1>2, <1>5, <1>6, <2>1, <3>1
  <2>2. CASE ~(n < k)
    <3>1. ~(n <= k - 1) /\ n - (k - 1) \in 1 .. size - k /\ (n - (k - 1)) + k = n + 1
      BY <1>1, <2>2
    <3> QED BY <1>3, <1>5, <1>6, <2>2, <3>1
  <2> QED BY <2>1, <2>2
<1> QED BY <1>4, <1>5, <1>6, <1>7 DEF size

LEMMA RemovedEnded ==
    ASSUME NEW segments \in Seq(Segments), NEW k \in 1 .. Len(segments)
    PROVE  EndedSegments(RemoveAt(segments, k)) = RemoveAt(EndedSegments(segments), k)
<1> DEFINE rest == RemoveAt(segments, k)
           ended == EndedSegments(segments)
           one == EndedSegments(rest)
           two == RemoveAt(ended, k)
           size == Len(segments)
<1>1. /\ rest \in Seq(Segments) /\ Len(rest) = size - 1
      /\ \A n \in 1 .. size - 1 : rest[n] = IF n < k THEN segments[n] ELSE segments[n + 1]
  BY RemovedHolds
<1> HIDE DEF rest
<1>2. /\ ended \in Seq(Segments) /\ Len(ended) = size
      /\ \A n \in 1 .. size : ended[n] = EndedSegment(segments[n])
  BY EndedSegmentsHolds
<1>3. /\ one \in Seq(Segments) /\ Len(one) = Len(rest)
      /\ \A n \in 1 .. Len(rest) : one[n] = EndedSegment(rest[n])
  BY <1>1, EndedSegmentsHolds
<1> HIDE DEF ended
<1>4. /\ two \in Seq(Segments) /\ Len(two) = size - 1
      /\ \A n \in 1 .. size - 1 : two[n] = IF n < k THEN ended[n] ELSE ended[n + 1]
  BY <1>2, RemovedHolds
<1> HIDE DEF one, two
<1>5. ASSUME NEW n \in 1 .. size - 1 PROVE one[n] = two[n]
  <2>1. n \in 1 .. size /\ n + 1 \in 1 .. size
    OBVIOUS
  <2> HIDE DEF size
  <2>2. CASE n < k
    BY <1>1, <1>2, <1>3, <1>4, <2>1, <2>2
  <2>3. CASE ~(n < k)
    BY <1>1, <1>2, <1>3, <1>4, <2>1, <2>3
  <2> QED BY <2>2, <2>3
<1>6. one = two
  BY <1>1, <1>3, <1>4, <1>5, SeqEqual
<1> QED BY <1>6 DEF one, two, rest, ended

LEMMA RemoveHolds ==
    ASSUME NEW segments \in Seq(Segments), NEW id, WholeLines(segments)
    PROVE  /\ RemoveBlock(segments, id) \in Seq(Segments) /\ WholeLines(RemoveBlock(segments, id))
           /\ EndedSegments(RemoveBlock(segments, id)) = RemoveBlock(EndedSegments(segments), id)
<1> DEFINE k == Min(Places(segments, id))
           ended == EndedSegments(segments)
<1>0. Places(ended, id) = Places(segments, id)
  BY EndedPlaces
<1> HIDE DEF ended
<1>1. CASE Places(segments, id) = {}
  BY <1>0, <1>1 DEF RemoveBlock, ended
<1>2. CASE Places(segments, id) # {}
  <2>1. k \in 1 .. Len(segments)
    BY <1>2, PlaceExists DEF At
  <2>2. RemoveBlock(segments, id) = RemoveAt(segments, k) /\ RemoveBlock(ended, id) = RemoveAt(ended, k)
    BY <1>0, <1>2 DEF RemoveBlock
  <2> HIDE DEF k
  <2> DEFINE rest == RemoveAt(segments, k)
             size == Len(segments)
  <2>3. EndedSegments(rest) = RemoveAt(ended, k)
    BY <2>1, RemovedEnded DEF ended
  <2>4. /\ rest \in Seq(Segments) /\ Len(rest) = size - 1
        /\ \A n \in 1 .. size - 1 : rest[n] = IF n < k THEN segments[n] ELSE segments[n + 1]
    BY <2>1, RemovedHolds
  <2>5. \A n \in 1 .. size : LinesEnd(segments[n].lines)
    BY DEF WholeLines
  <2> HIDE DEF rest
  <2>6. ASSUME NEW n \in 1 .. size - 1 PROVE LinesEnd(rest[n].lines)
    <3>1. n \in 1 .. size /\ n + 1 \in 1 .. size
      OBVIOUS
    <3> HIDE DEF size
    <3> QED BY <2>4, <2>5, <3>1
  <2>7. WholeLines(rest)
    BY <2>4, <2>6 DEF WholeLines
  <2> QED BY <2>2, <2>3, <2>4, <2>7 DEF rest, ended
<1> QED BY <1>1, <1>2

\* What stands around a block is the same before and after it is written.
LEMMA RemoveEnsured ==
    ASSUME NEW segments \in Seq(Segments), Shaped(segments), NEW id \in BlockIds,
           NEW entries \in Seq(Entries), SingleLines(entries)
    PROVE  RemoveBlock(EnsureBlock(segments, id, entries), id) = RemoveBlock(segments, id)
<1> DEFINE k == Min(Places(segments, id))
           put == EnsureBlock(segments, id, entries)
           size == Len(segments)
<1>1. CASE Places(segments, id) = {}
  <2> DEFINE new == New(id, entries)
             last == size + 1
             rest == RemoveAt(put, last)
  <2>1. new \in Segments /\ new.id = id
    BY NewHolds
  <2>2. put = Append(segments, new)
    BY <1>1, EnsureIs
  <2> HIDE DEF new, put
  <2>3. Places(put, id) # {} /\ Min(Places(put, id)) = last
    <3>1. At(put, id, last)
      BY <1>1, <2>1, <2>2, AppendAt
    <3>2. put \in Seq(Segments)
      BY <2>1, <2>2
    <3> HIDE DEF last
    <3> QED BY <3>1, <3>2, PlaceIs
  <2>4. /\ put \in Seq(Segments) /\ Len(put) = last /\ last \in 1 .. Len(put) /\ Len(put) - 1 = size
        /\ \A n \in 1 .. size : put[n] = segments[n] /\ n < last
    BY <2>1, <2>2
  <2>5. RemoveBlock(put, id) = rest /\ RemoveBlock(segments, id) = segments
    BY <1>1, <2>3 DEF RemoveBlock
  <2> HIDE DEF last, size
  <2>6. /\ rest \in Seq(Segments) /\ Len(rest) = Len(put) - 1
        /\ \A n \in 1 .. Len(put) - 1 : rest[n] = IF n < last THEN put[n] ELSE put[n + 1]
    BY <2>4, RemovedHolds
  <2> HIDE DEF rest
  <2>7. ASSUME NEW n \in 1 .. size PROVE rest[n] = segments[n]
    BY <2>4, <2>6
  <2>8. rest = segments
    BY <2>4, <2>6, <2>7, SeqEqual DEF size
  <2> QED BY <2>5, <2>8 DEF put
<1>2. CASE Places(segments, id) # {}
  <2>1. At(segments, id, k)
    BY <1>2, PlaceExists
  <2>2. RemoveBlock(segments, id) = RemoveAt(segments, k)
    BY <1>2 DEF RemoveBlock
  <2> HIDE DEF k
  <2> DEFINE block == segments[k]
             new == Refilled(block, entries)
  <2>3. k \in 1 .. Len(segments) /\ block \in Segments /\ block.id = id /\ IsClosed(block)
    BY <2>1, ClosedAt
  <2>4. new \in Segments /\ new.id = block.id
    <3> HIDE DEF block
    <3> QED BY <2>3, RefilledHolds
  <2>5. put = [segments EXCEPT ![k] = new]
    BY <2>1, EnsureIs
  <2> HIDE DEF new, put
  <2>6. At([segments EXCEPT ![k] = new], id, k)
    BY <2>1, <2>3, <2>4, PutAt
  <2>7. /\ put \in Seq(Segments) /\ Len(put) = size
        /\ \A n \in 1 .. size : n # k => put[n] = segments[n]
    BY <2>3, <2>4, <2>5, PutHolds
  <2>8. RemoveBlock(put, id) = RemoveAt(put, k)
    <3>1. Places(put, id) # {} /\ Min(Places(put, id)) = k
      BY <2>5, <2>6, <2>7, PlaceIs
    <3> QED BY <3>1 DEF RemoveBlock
  <2> DEFINE one == RemoveAt(segments, k)
             two == RemoveAt(put, k)
  <2>9. /\ one \in Seq(Segments) /\ Len(one) = size - 1
        /\ \A n \in 1 .. size - 1 : one[n] = IF n < k THEN segments[n] ELSE segments[n + 1]
    BY <2>3, RemovedHolds
  <2>10. k \in 1 .. Len(put) /\ Len(put) = size
    BY <2>3, <2>7
  <2>11. /\ two \in Seq(Segments) /\ Len(two) = size - 1
         /\ \A n \in 1 .. size - 1 : two[n] = IF n < k THEN put[n] ELSE put[n + 1]
    BY <2>7, <2>10, RemovedHolds
  <2> HIDE DEF one, two
  <2>12. ASSUME NEW n \in 1 .. size - 1 PROVE one[n] = two[n]
    <3>1. n \in 1 .. size /\ n + 1 \in 1 .. size /\ (n < k => n # k) /\ (~(n < k) => n + 1 # k)
      BY <2>3
    <3> HIDE DEF size
    <3> QED BY <2>7, <2>9, <2>11, <3>1
  <2>13. one = two
    BY <2>9, <2>11, <2>12, SeqEqual
  <2> QED BY <2>2, <2>8, <2>13 DEF one, two, put
<1> QED BY <1>1, <1>2

-----------------------------------------------------------------------------
(* Writing a block and undoing it *)

LEMMA ViewHolds ==
    ASSUME NEW text, Good(text), NEW id \in BlockIds
    PROVE  /\ View(text) \in Seq(Segments) /\ Shaped(View(text)) /\ EndedSegments(View(text)) = View(text)
           /\ EntriesOf(View(text), id) = EntriesOf(Parse(text), id)
           /\ Places(View(text), id) = Places(Parse(text), id)
<1>1. Parse(text) \in Seq(Segments) /\ Shaped(Parse(text))
  BY GoodHolds
<1> QED BY <1>1, EndedSegmentsHolds, EndedShaped, EndedTwice, EntriesHold, EndedPlaces DEF View

\* Of a text and an id: the text can be put together again with any entries.
LEMMA PutGood ==
    ASSUME NEW text, Good(text), NEW id \in BlockIds, NEW entries \in Seq(Entries), SingleLines(entries)
    PROVE  LET after == Render(EnsureBlock(Parse(text), id, entries))
           IN  Good(after) /\ View(after) = EnsureBlock(View(text), id, entries)
<1> DEFINE segments == Parse(text)
           put == EnsureBlock(segments, id, entries)
<1>1. segments \in Seq(Segments) /\ Shaped(segments) /\ WholeLines(segments)
  BY GoodHolds
<1>2. EndedSegments(segments) = View(text)
  BY DEF View
<1> HIDE DEF segments
<1>3. put \in Seq(Segments) /\ Shaped(put) /\ WholeLines(put)
  BY <1>1, EnsureHolds
<1>4. EndedSegments(put) = EnsureBlock(View(text), id, entries)
  BY <1>1, <1>2, EnsureEnded
<1> HIDE DEF put
<1>5. Good(Render(put)) /\ View(Render(put)) = EndedSegments(put)
  BY <1>3, RenderGood
<1> QED BY <1>4, <1>5 DEF put, segments

LEMMA EntriesOfGood ==
    ASSUME NEW text, Good(text), NEW id \in BlockIds
    PROVE  /\ EntriesOf(Parse(text), id) = NoBlock <=> Places(View(text), id) = {}
           /\ Places(View(text), id) # {} =>
                /\ EntriesOf(Parse(text), id) \in Seq(Entries) /\ SingleLines(EntriesOf(Parse(text), id))
                /\ EnsureBlock(View(text), id, EntriesOf(Parse(text), id)) = View(text)
<1> DEFINE segments == Parse(text)
<1>1. segments \in Seq(Segments) /\ Shaped(segments) /\ EndedSegments(segments) = View(text)
  BY GoodHolds DEF View
<1>2. Places(View(text), id) = Places(segments, id)
  BY ViewHolds
<1> HIDE DEF segments
<1>3. /\ EntriesOf(segments, id) = NoBlock <=> Places(segments, id) = {}
      /\ Places(segments, id) # {} =>
           EntriesOf(segments, id) \in Seq(Entries) /\ SingleLines(EntriesOf(segments, id))
  BY <1>1, EntriesHold
<1>4. Places(segments, id) # {} => EnsureBlock(View(text), id, EntriesOf(segments, id)) = View(text)
  <2>1. ASSUME Places(segments, id) # {}
        PROVE  EnsureBlock(EndedSegments(segments), id, EntriesOf(segments, id)) = EndedSegments(segments)
    BY <1>1, <2>1, EnsureHeld
  <2> QED BY <1>1, <2>1
<1> QED BY <1>2, <1>3, <1>4 DEF segments

LEMMA WrittenHolds ==
    ASSUME NEW text, Good(text), NEW id \in BlockIds, NEW entries \in Seq(Entries), SingleLines(entries)
    PROVE  LET after == Written(text, id, entries)
           IN  /\ Good(after) /\ View(after) = EnsureBlock(View(text), id, entries)
               /\ EntriesOf(Parse(after), id) = entries
<1> DEFINE after == Written(text, id, entries)
           old == EntriesOf(Parse(text), id)
<1>1. PlanLine(Parse(text), id, entries) = <<>> <=> old = entries
  BY DEF PlanLine
<1>2. after = IF old = entries THEN text ELSE Render(EnsureBlock(Parse(text), id, entries))
  BY <1>1 DEF Written
<1>3. Good(after) /\ View(after) = EnsureBlock(View(text), id, entries)
  <2>1. CASE old = entries
    <3>1. old # NoBlock
      BY <2>1, BlocksApart
    <3>2. EnsureBlock(View(text), id, old) = View(text)
      BY <3>1, EntriesOfGood
    <3> QED BY <1>2, <2>1, <3>2
  <2>2. CASE old # entries
    BY <1>2, <2>2, PutGood
  <2> QED BY <2>1, <2>2
<1> HIDE DEF after
<1>4. EntriesOf(View(after), id) = entries
  <2>1. View(text) \in Seq(Segments) /\ Shaped(View(text))
    BY ViewHolds
  <2> QED BY <1>3, <2>1, EnsureHolds
<1>5. EntriesOf(Parse(after), id) = entries
  BY <1>3, <1>4, ViewHolds
<1> QED BY <1>3, <1>5 DEF after

\* A block that was written reads back and is not planned again, whatever the text
\* around it, its other blocks and the end of its last line (adapters/line.py).
THEOREM WrittenBlockSettles ==
    ASSUME NEW text, Good(text), NEW id \in BlockIds, NEW desired \in Seq(Entries), SingleLines(desired)
    PROVE  BlockSettles(text, id, desired)
<1> DEFINE after == Written(text, id, desired)
<1>1. Good(after) /\ EntriesOf(Parse(after), id) = desired
  BY WrittenHolds
<1> HIDE DEF after
<1>2. Readable(after) /\ PlanLine(Parse(after), id, desired) = <<>>
  BY <1>1 DEF Good, PlanLine
<1> QED BY <1>2 DEF BlockSettles, after

\* Rollback of a write gives back what the text held, up to the ends of its lines.
LEMMA RevertedHolds ==
    ASSUME NEW text, Good(text), NEW id \in BlockIds, NEW entries \in Seq(Entries), SingleLines(entries),
           NEW after, Good(after), View(after) = EnsureBlock(View(text), id, entries)
    PROVE  LET undone == Reverted(after, id, PlanLine(Parse(text), id, entries))
           IN  Good(undone) /\ View(undone) = View(text)
<1> DEFINE old == EntriesOf(Parse(text), id)
           view == View(text)
           segments == Parse(after)
           undone == Reverted(after, id, PlanLine(Parse(text), id, entries))
<1>1. view \in Seq(Segments) /\ Shaped(view)
  BY ViewHolds
<1>2. EntriesOf(segments, id) = entries
  <2>1. EntriesOf(EnsureBlock(view, id, entries), id) = entries
    BY <1>1, EnsureHolds
  <2> QED BY <2>1, ViewHolds
<1>3. old # NoBlock => old \in Seq(Entries) /\ SingleLines(old) /\ EnsureBlock(view, id, old) = view
  BY EntriesOfGood
<1>4. CASE old = entries
  <2>1. PlanLine(Parse(text), id, entries) = <<>>
    BY <1>4 DEF PlanLine
  <2>2. undone = after
    BY <2>1 DEF Reverted
  <2>3. view = View(after)
    BY <1>3, <1>4, BlocksApart
  <2> QED BY <2>2, <2>3
<1>5. CASE old # entries
  <2>1. PlanLine(Parse(text), id, entries) = <<[value |-> entries, before |-> old]>>
    BY <1>5 DEF PlanLine
  <2>2. undone = Render(IF old = NoBlock THEN RemoveBlock(segments, id) ELSE EnsureBlock(segments, id, old))
    <3> DEFINE operations == <<[value |-> entries, before |-> old]>>
    <3>1. operations # <<>> /\ operations[1].value = entries /\ operations[1].before = old
      OBVIOUS
    <3> HIDE DEF operations
    <3>2. Reverted(after, id, operations)
            = Render(IF old = NoBlock THEN RemoveBlock(segments, id) ELSE EnsureBlock(segments, id, old))
      BY <1>2, <3>1 DEF Reverted
    <3> QED BY <2>1, <3>2 DEF operations
  <2>3. CASE old = NoBlock
    <3> DEFINE rest == RemoveBlock(segments, id)
    <3>1. segments \in Seq(Segments) /\ WholeLines(segments) /\ EndedSegments(segments) = View(after)
      BY GoodHolds DEF View
    <3> HIDE DEF segments
    <3>2. rest \in Seq(Segments) /\ WholeLines(rest) /\ EndedSegments(rest) = RemoveBlock(View(after), id)
      BY <3>1, RemoveHolds
    <3>3. RemoveBlock(View(after), id) = view
      <4>1. Places(view, id) = {}
        BY <2>3, EntriesOfGood
      <4>2. RemoveBlock(EnsureBlock(view, id, entries), id) = RemoveBlock(view, id)
        BY <1>1, RemoveEnsured
      <4>3. RemoveBlock(view, id) = view
        BY <4>1 DEF RemoveBlock
      <4> QED BY <4>2, <4>3
    <3> HIDE DEF rest, view
    <3>4. Shaped(rest)
      BY <1>1, <3>2, <3>3, EndedShaped
    <3>5. Good(Render(rest)) /\ View(Render(rest)) = view
      BY <3>2, <3>3, <3>4, RenderGood
    <3> QED BY <2>2, <2>3, <3>5 DEF rest, view
  <2>4. CASE old # NoBlock
    <3> DEFINE back == Render(EnsureBlock(segments, id, old))
    <3>1. undone = back
      BY <2>2, <2>4
    <3>2. Good(back) /\ View(back) = EnsureBlock(View(after), id, old)
      <4> HIDE DEF old
      <4> QED BY <1>3, <2>4, PutGood
    <3>3. EnsureBlock(View(after), id, old) = view
      <4> HIDE DEF old, view
      <4>1. EnsureBlock(EnsureBlock(view, id, entries), id, old) = EnsureBlock(view, id, old)
        BY <1>1, <1>3, <2>4, EnsureAgain
      <4> QED BY <1>3, <2>4, <4>1 DEF view
    <3> QED BY <3>1, <3>2, <3>3
  <2> QED BY <2>3, <2>4
<1> QED BY <1>4, <1>5

\* The text around a block, from what the text holds.
LEMMA AroundHolds ==
    ASSUME NEW text, Good(text), NEW id
    PROVE  Around(text, id) = TextOf(RemoveBlock(View(text), id))
<1> DEFINE segments == Parse(text)
           rest == RemoveBlock(segments, id)
<1>1. segments \in Seq(Segments) /\ WholeLines(segments) /\ EndedSegments(segments) = View(text)
  BY GoodHolds DEF View
<1>2. Around(text, id) = Ended(Render(rest))
  BY DEF Around
<1> HIDE DEF segments
<1>3. rest \in Seq(Segments) /\ WholeLines(rest) /\ EndedSegments(rest) = RemoveBlock(View(text), id)
  BY <1>1, RemoveHolds
<1> HIDE DEF rest
<1>4. Ended(Render(rest)) = TextOf(EndedSegments(rest))
  BY <1>3, RenderHolds
<1> QED BY <1>2, <1>3, <1>4

\* Undoing two writes of a block one after the other gives back the text up to the end
\* of its last line, and the text around the block never changes (adapters/line.py).
THEOREM WrittenBlockUndone ==
    ASSUME NEW text, Good(text), NEW id \in BlockIds,
           NEW first \in Seq(Entries), SingleLines(first), NEW second \in Seq(Entries), SingleLines(second)
    PROVE  BlockUndone(text, id, first, second)
<1> DEFINE batch1 == PlanLine(Parse(text), id, first)
           after1 == Written(text, id, first)
           batch2 == PlanLine(Parse(after1), id, second)
           after2 == Written(after1, id, second)
           between == Reverted(after2, id, batch2)
           undone == Reverted(between, id, batch1)
           view == View(text)
<1>1. Good(after1) /\ View(after1) = EnsureBlock(view, id, first)
  BY WrittenHolds
<1>2. Good(after2) /\ View(after2) = EnsureBlock(View(after1), id, second)
  <2> HIDE DEF after1
  <2> QED BY <1>1, WrittenHolds
<1>3. Good(between) /\ View(between) = View(after1)
  <2> HIDE DEF after1, after2
  <2>1. LET back == Reverted(after2, id, PlanLine(Parse(after1), id, second))
        IN  Good(back) /\ View(back) = View(after1)
    BY <1>1, <1>2, RevertedHolds
  <2> QED BY <2>1
<1>4. Good(undone) /\ View(undone) = view
  <2> HIDE DEF between
  <2>1. View(between) = EnsureBlock(View(text), id, first)
    BY <1>1, <1>3
  <2>2. LET back == Reverted(between, id, PlanLine(Parse(text), id, first))
        IN  Good(back) /\ View(back) = View(text)
    BY <1>3, <2>1, RevertedHolds
  <2> QED BY <2>2
<1> HIDE DEF after1, after2, undone
<1>5. Ended(undone) = Ended(text)
  BY <1>4, GoodHolds
<1>6. /\ RemoveBlock(View(after1), id) = RemoveBlock(view, id)
      /\ RemoveBlock(View(after2), id) = RemoveBlock(view, id)
  <2>1. view \in Seq(Segments) /\ Shaped(view) /\ View(after1) \in Seq(Segments) /\ Shaped(View(after1))
    BY <1>1, ViewHolds
  <2> HIDE DEF view
  <2>2. RemoveBlock(EnsureBlock(view, id, first), id) = RemoveBlock(view, id)
    BY <2>1, RemoveEnsured
  <2>3. RemoveBlock(EnsureBlock(View(after1), id, second), id) = RemoveBlock(View(after1), id)
    BY <2>1, RemoveEnsured
  <2> QED BY <1>1, <1>2, <2>2, <2>3
<1>7. /\ Around(after1, id) = Around(text, id) /\ Around(after2, id) = Around(text, id)
      /\ Around(undone, id) = Around(text, id)
  BY <1>1, <1>2, <1>4, <1>6, AroundHolds
<1>8. Ended(undone) = Ended(text) /\ \A t \in {after1, after2, undone} : Around(t, id) = Around(text, id)
  BY <1>5, <1>7
<1> QED BY <1>8 DEF BlockUndone, after1, after2, undone

=============================================================================
