----------------------------- MODULE OfSlicerProofs -----------------------------
(***************************************************************************)
(* What of_slicer and on_raw_in make of the bytes of a connection, for     *)
(* every stream and however it is cut into reads.  The loop of of_slicer   *)
(* is proved to obey equations (SliceMoves), from which slicing in parts   *)
(* and slicing what was written back follow by induction over the bytes.   *)
(***************************************************************************)
EXTENDS OfSlicer, InductionFacts

\* A packet that has a header at all has that of a packet of its length.
Fitting == {p \in Bytes : Len(p) > 3 => ~Garbage(p, 1) /\ LengthAt(p, 1) = Len(p)}

Slicings == [pkts : Seq(Fitting), rest : Bytes]

Start(data) == [pkts |-> <<>>, rest |-> data]

\* The three outcomes of the conditions of a turn.
Skips(d) == Len(d) > 3 /\ Garbage(d, 1)
Takes(d) == Len(d) > 3 /\ ~Garbage(d, 1) /\ Complete(d)
Ended(d) == Len(d) <= 3 \/ (~Garbage(d, 1) /\ ~Complete(d))

After(p, s) == [pkts |-> p \o s.pkts, rest |-> s.rest]

-------------------------------------------------------------------------------
(* Bytes and their parts.                                                  *)

LEMMA BytesHaveLength ==
  ASSUME NEW d \in Bytes
  PROVE  /\ Len(d) \in Nat /\ d \in Seq(0 .. 255)
         /\ \A i \in 1 .. Len(d) : d[i] \in 0 .. 255
BY LenProperties, ElementOfSeq DEF Bytes

LEMMA HeaderLength ==
  ASSUME NEW d \in Bytes, NEW p \in Nat \ {0}, p + 3 <= Len(d)
  PROVE  LengthAt(d, p) \in Nat
<1>1. Len(d) \in Nat /\ \A i \in 1 .. Len(d) : d[i] \in 0 .. 255
  BY BytesHaveLength
<1>2. p + 2 \in 1 .. Len(d) /\ p + 3 \in 1 .. Len(d)
  BY <1>1
<1>3. d[p + 2] \in 0 .. 255 /\ d[p + 3] \in 0 .. 255
  BY <1>1, <1>2
<1>4. \A a, b \in 0 .. 255 : 256 * a + b \in Nat
  OBVIOUS
<1>. QED  BY <1>3, <1>4, Zenon DEF LengthAt

LEMMA HeaderAtStart ==
  ASSUME NEW d \in Bytes, Len(d) > 3
  PROVE  LengthAt(d, 1) \in Nat /\ (~Garbage(d, 1) => LengthAt(d, 1) > 0)
<1>1. Len(d) \in Nat
  BY BytesHaveLength
<1>2. 1 \in Nat \ {0} /\ 1 + 3 <= Len(d)
  BY <1>1
<1>3. LengthAt(d, 1) \in Nat
  BY <1>2, HeaderLength
<1>. QED  BY <1>3 DEF Garbage

\* The first k bytes and the others.
LEMMA Parts ==
  ASSUME NEW d \in Bytes, NEW k \in 0 .. Len(d)
  PROVE  /\ SubSeq(d, 1, k) \in Bytes /\ Len(SubSeq(d, 1, k)) = k
         /\ \A i \in 1 .. k : SubSeq(d, 1, k)[i] = d[i]
         /\ From(d, k + 1) \in Bytes /\ Len(From(d, k + 1)) = Len(d) - k
         /\ \A i \in 1 .. Len(d) - k : From(d, k + 1)[i] = d[k + i]
<1>1. Len(d) \in Nat /\ \A i \in 1 .. Len(d) : d[i] \in 0 .. 255
  BY BytesHaveLength
<1>2. /\ SubSeq(d, 1, k) \in Bytes /\ Len(SubSeq(d, 1, k)) = k
      /\ \A i \in 1 .. k : SubSeq(d, 1, k)[i] = d[i]
  BY <1>1 DEF Bytes
<1>3. /\ From(d, k + 1) \in Bytes /\ Len(From(d, k + 1)) = Len(d) - k
      /\ \A i \in 1 .. Len(d) - k : From(d, k + 1)[i] = d[k + i]
  BY <1>1 DEF Bytes, From
<1>. QED  BY <1>2, <1>3

LEMMA JoinedBytes ==
  ASSUME NEW x \in Bytes, NEW y \in Bytes
  PROVE  /\ x \o y \in Bytes /\ Len(x \o y) = Len(x) + Len(y)
         /\ \A i \in 1 .. Len(x) : (x \o y)[i] = x[i]
         /\ \A i \in 1 .. Len(y) : (x \o y)[Len(x) + i] = y[i]
BY DEF Bytes

LEMMA SameBytes ==
  ASSUME NEW x \in Bytes, NEW y \in Bytes, Len(x) = Len(y),
         \A i \in 1 .. Len(x) : x[i] = y[i]
  PROVE  x = y
BY SeqEqual DEF Bytes

\* The parts of two runs of bytes behind each other, cut within the first.
LEMMA PartsOfJoined ==
  ASSUME NEW x \in Bytes, NEW y \in Bytes, NEW k \in 0 .. Len(x)
  PROVE  /\ SubSeq(x \o y, 1, k) = SubSeq(x, 1, k)
         /\ From(x \o y, k + 1) = From(x, k + 1) \o y
<1> DEFINE z == x \o y
<1>1. /\ z \in Bytes /\ Len(z) = Len(x) + Len(y) /\ Len(x) \in Nat /\ Len(y) \in Nat
      /\ \A i \in 1 .. Len(x) : z[i] = x[i]
      /\ \A i \in 1 .. Len(y) : z[Len(x) + i] = y[i]
  BY JoinedBytes, BytesHaveLength
<1>. HIDE DEF z
<1>2. /\ SubSeq(x, 1, k) \in Bytes /\ Len(SubSeq(x, 1, k)) = k
      /\ \A i \in 1 .. k : SubSeq(x, 1, k)[i] = x[i]
      /\ From(x, k + 1) \in Bytes /\ Len(From(x, k + 1)) = Len(x) - k
      /\ \A i \in 1 .. Len(x) - k : From(x, k + 1)[i] = x[k + i]
  BY Parts
<1>3. k \in 0 .. Len(z)
  BY <1>1
<1>4. /\ SubSeq(z, 1, k) \in Bytes /\ Len(SubSeq(z, 1, k)) = k
      /\ \A i \in 1 .. k : SubSeq(z, 1, k)[i] = z[i]
      /\ From(z, k + 1) \in Bytes /\ Len(From(z, k + 1)) = Len(z) - k
      /\ \A i \in 1 .. Len(z) - k : From(z, k + 1)[i] = z[k + i]
  BY <1>1, <1>3, Parts
<1>5. SubSeq(z, 1, k) = SubSeq(x, 1, k)
  <2>1. \A i \in 1 .. k : SubSeq(z, 1, k)[i] = SubSeq(x, 1, k)[i]
    BY ONLY <1>1, <1>2, <1>4, k \in 0 .. Len(x)
  <2>. QED  BY <1>2, <1>4, <2>1, SameBytes
<1> DEFINE u == From(x, k + 1)
           v == From(z, k + 1)
<1>6. /\ u \o y \in Bytes /\ Len(u \o y) = Len(u) + Len(y)
      /\ \A i \in 1 .. Len(u) : (u \o y)[i] = u[i]
      /\ \A i \in 1 .. Len(y) : (u \o y)[Len(u) + i] = y[i]
  BY <1>2, JoinedBytes
<1>7. /\ Len(u) = Len(x) - k /\ Len(v) = Len(x) + Len(y) - k /\ Len(x) \in Nat
      /\ Len(y) \in Nat
  BY <1>1, <1>2, <1>4
<1>8. ASSUME NEW i \in 1 .. Len(v) PROVE v[i] = (u \o y)[i]
  <2>1. v[i] = z[k + i]
    BY ONLY <1>4, i \in 1 .. Len(v)
  <2>2. CASE i \in 1 .. Len(u)
    <3>1. k + i \in 1 .. Len(x) /\ i \in 1 .. Len(x) - k
      BY ONLY <1>1, <1>2, <2>2, k \in 0 .. Len(x)
    <3>2. z[k + i] = x[k + i] /\ u[i] = x[k + i] /\ (u \o y)[i] = u[i]
      BY ONLY <1>1, <1>2, <1>6, <2>2, <3>1
    <3>. QED  BY <2>1, <3>2
  <2>3. CASE i \notin 1 .. Len(u)
    <3> DEFINE j == i - Len(u)
    <3>1. j \in 1 .. Len(y) /\ k + i = Len(x) + j /\ i = Len(u) + j
      BY ONLY <1>7, <2>3, k \in 0 .. Len(x), i \in 1 .. Len(v)
    <3>. HIDE DEF j
    <3>2. z[Len(x) + j] = y[j] /\ (u \o y)[Len(u) + j] = y[j]
      BY ONLY <1>1, <1>6, <3>1
    <3>. QED  BY <2>1, <3>1, <3>2
  <2>. QED  BY <2>2, <2>3
<1>9. v = u \o y
  <2>1. Len(v) = Len(u \o y)
    BY ONLY <1>1, <1>2, <1>4, <1>6, k \in 0 .. Len(x)
  <2>2. v \in Bytes /\ u \o y \in Bytes
    BY <1>4, <1>6
  <2>. QED  BY <1>8, <2>1, <2>2, SameBytes
<1>. QED  BY <1>5, <1>9 DEF z

-------------------------------------------------------------------------------
(* The loop of of_slicer.                                                  *)

LEMMA SameHeader ==
  ASSUME NEW x, NEW y, x[1] = y[1], x[3] = y[3], x[4] = y[4]
  PROVE  LengthAt(x, 1) = LengthAt(y, 1) /\ (Garbage(x, 1) <=> Garbage(y, 1))
BY DEF LengthAt, Garbage

LEMMA Outcomes ==
  ASSUME NEW d \in Bytes
  PROVE  Ended(d) \/ Skips(d) \/ Takes(d)
<1>1. Len(d) <= 3 \/ Len(d) > 3
  BY BytesHaveLength
<1>. QED  BY <1>1, Zenon DEF Ended, Skips, Takes

LEMMA CutByOutcome ==
  ASSUME NEW s, s.rest \in Bytes
  PROVE  /\ Ended(s.rest) => Cut(s) = s
         /\ Skips(s.rest) => Cut(s) = [pkts |-> s.pkts, rest |-> From(s.rest, 5)]
         /\ Takes(s.rest) =>
               Cut(s) = [pkts |-> Append(s.pkts, SubSeq(s.rest, 1, LengthAt(s.rest, 1))),
                         rest |-> From(s.rest, LengthAt(s.rest, 1) + 1)]
<1> DEFINE d == s.rest
<1>1. Len(d) \in Nat
  BY BytesHaveLength
<1>. HIDE DEF d
<1>2. Ended(d) => Cut(s) = s
  BY <1>1 DEF Cut, Ended, d
<1>3. Skips(d) => Cut(s) = [pkts |-> s.pkts, rest |-> From(d, 5)]
  BY <1>1 DEF Cut, Skips, d
<1>4. Takes(d) => Cut(s) = [pkts |-> Append(s.pkts, SubSeq(d, 1, LengthAt(d, 1))),
                            rest |-> From(d, LengthAt(d, 1) + 1)]
  BY <1>1 DEF Cut, Takes, d
<1>. QED  BY <1>2, <1>3, <1>4 DEF d

LEMMA FirstFits ==
  ASSUME NEW d \in Bytes, Takes(d)
  PROVE  /\ LengthAt(d, 1) \in 1 .. Len(d)
         /\ SubSeq(d, 1, LengthAt(d, 1)) \in Fitting
<1> DEFINE k == LengthAt(d, 1)
           p == SubSeq(d, 1, k)
<1>1. Len(d) > 3 /\ ~Garbage(d, 1) /\ k <= Len(d) /\ Len(d) \in Nat
  BY BytesHaveLength DEF Takes, Complete
<1>2. k \in 1 .. Len(d)
  BY <1>1, HeaderAtStart
<1>. HIDE DEF k
<1>3. p \in Bytes /\ Len(p) = k /\ \A i \in 1 .. k : p[i] = d[i]
  BY <1>2, Parts
<1>4. ASSUME k > 3 PROVE ~Garbage(p, 1) /\ LengthAt(p, 1) = k
  <2>1. 1 \in 1 .. k /\ 3 \in 1 .. k /\ 4 \in 1 .. k
    BY <1>2, <1>4
  <2>2. p[1] = d[1] /\ p[3] = d[3] /\ p[4] = d[4]
    BY <1>3, <2>1
  <2>. HIDE DEF p
  <2>3. LengthAt(p, 1) = LengthAt(d, 1) /\ (Garbage(p, 1) <=> Garbage(d, 1))
    BY ONLY <2>2, SameHeader
  <2>. QED  BY <1>1, <2>3 DEF k
<1>5. p \in Fitting
  <2>. HIDE DEF p
  <2>. QED  BY <1>3, <1>4 DEF Fitting
<1>. QED  BY <1>2, <1>5 DEF k

LEMMA CutType ==
  ASSUME NEW s \in Slicings
  PROVE  Cut(s) \in Slicings
<1> DEFINE d == s.rest
<1>1. d \in Bytes /\ s.pkts \in Seq(Fitting)
  BY DEF Slicings
<1>. HIDE DEF d
<1>2. CASE Ended(d)
  BY <1>2, <1>1, CutByOutcome DEF d
<1>3. CASE Skips(d)
  <2>1. 4 \in 0 .. Len(d) /\ 4 + 1 = 5
    BY <1>1, <1>3, BytesHaveLength DEF Skips
  <2>2. From(d, 4 + 1) \in Bytes
    BY <1>1, <2>1, Parts
  <2>3. Cut(s) = [pkts |-> s.pkts, rest |-> From(d, 5)]
    BY <1>3, <1>1, CutByOutcome DEF d
  <2>. QED  BY <1>1, <2>1, <2>2, <2>3 DEF Slicings
<1>4. CASE Takes(d)
  <2> DEFINE k == LengthAt(d, 1)
             p == SubSeq(d, 1, k)
  <2>1. k \in 1 .. Len(d) /\ p \in Fitting /\ Len(d) \in Nat
    BY <1>1, <1>4, FirstFits, BytesHaveLength
  <2>2. Cut(s) = [pkts |-> Append(s.pkts, p), rest |-> From(d, k + 1)]
    BY <1>4, <1>1, CutByOutcome DEF d
  <2>. HIDE DEF k, p
  <2>3. From(d, k + 1) \in Bytes
    BY <1>1, <2>1, Parts
  <2>4. Append(s.pkts, p) \in Seq(Fitting)
    BY <1>1, <2>1, AppendProperties
  <2>. QED  BY <2>2, <2>3, <2>4 DEF Slicings
<1>. QED  BY <1>1, <1>2, <1>3, <1>4, Outcomes

\* Slice is the last value of the function that it is defined by.
TakesCuts(f, d) ==
  /\ f \in [0 .. Len(d) -> Slicings]
  /\ f[0] = Start(d) /\ Slice(d) = f[Len(d)]
  /\ \A i \in 1 .. Len(d) : f[i] = Cut(f[i - 1])

LEMMA StartType ==
  ASSUME NEW d \in Bytes
  PROVE  Start(d) \in Slicings
BY EmptySeq DEF Start, Slicings

LEMMA SliceSteps ==
  ASSUME NEW d \in Bytes
  PROVE  \E f : TakesCuts(f, d)
<1> DEFINE n == Len(d)
           step == [i \in 1 .. n |-> [s \in Slicings |-> Cut(s)]]
           Is(f) == f = [i \in 0 .. n |-> IF i = 0 THEN Start(d) ELSE Cut(f[i - 1])]
<1>1. n \in Nat /\ Start(d) \in Slicings /\ step \in [1 .. n -> [Slicings -> Slicings]]
  BY BytesHaveLength, StartType, CutType
<1>. HIDE DEF n
<1>2. PICK f : /\ f \in [0 .. n -> Slicings] /\ f[0] = Start(d)
               /\ \A i \in 1 .. n : f[i] = step[i][f[i - 1]]
  <2>1. AreSteps(step, n, Slicings, Start(d)) /\ n \in Nat
    BY <1>1 DEF AreSteps
  <2>. HIDE DEF step
  <2>2. PICK f : TakesSteps(f, step, n, Slicings, Start(d))
    BY ONLY <2>1, StepsDefine
  <2>. QED  BY <2>2 DEF TakesSteps
<1>3. ASSUME NEW i \in 1 .. n PROVE f[i] = Cut(f[i - 1])
  <2>1. i - 1 \in 0 .. n /\ f[i - 1] \in Slicings
    BY <1>1, <1>2
  <2>2. step[i][f[i - 1]] = Cut(f[i - 1])
    BY <2>1
  <2>. HIDE DEF step
  <2>. QED  BY <1>2, <2>2
<1>4. Is(f)
  <2>1. ASSUME NEW i \in 0 .. n PROVE f[i] = IF i = 0 THEN Start(d) ELSE Cut(f[i - 1])
    <3>1. i = 0 \/ i \in 1 .. n
      BY <1>1
    <3>. QED  BY <1>2, <1>3, <3>1
  <2>. QED  BY <1>2, <2>1
<1>5. \A g : Is(g) => g = f
  <2>1. SUFFICES ASSUME NEW g, Is(g) PROVE g = f
    OBVIOUS
  <2>2. \A i \in 0 .. n : g[i] = f[i]
    <3> DEFINE T == {i \in 0 .. n : g[i] = f[i]}
    <3>1. 0 \in T
      BY <1>1, <1>4, <2>1
    <3>2. ASSUME NEW i \in 0 .. n, i # n, i \in T PROVE i + 1 \in T
      <4>1. i + 1 \in 0 .. n /\ i + 1 # 0 /\ (i + 1) - 1 = i /\ g[i] = f[i]
        BY <1>1, <3>2
      <4>2. g[i + 1] = Cut(g[i])
        BY <2>1, <4>1
      <4>3. f[i + 1] = Cut(f[i])
        BY <1>4, <4>1
      <4>. QED  BY <4>1, <4>2, <4>3
    <3>3. PassedOn(T, 0, n)
      <4>. HIDE DEF T
      <4>. QED  BY <3>1, <3>2 DEF PassedOn
    <3>4. 0 .. n \subseteq T
      BY <1>1, <3>3, IntervalInduction
    <3>. QED  BY <3>4
  <2>. QED  BY <1>4, <2>1, <2>2
<1>6. Slice(d) = f[n]
  <2>1. (CHOOSE g : Is(g)) = f
    <3>. HIDE DEF Is
    <3>. QED  BY <1>4, <1>5
  <2>. QED  BY <2>1 DEF Slice, Start, n
<1>. QED  BY <1>2, <1>3, <1>6 DEF TakesCuts, n

\* A loop that has ended stays ended, and the turns are enough for it to end.
LEMMA SliceEnds ==
  ASSUME NEW d \in Bytes
  PROVE  Slice(d) \in Slicings /\ Ended(Slice(d).rest)
<1>1. PICK f : TakesCuts(f, d)
  BY SliceSteps
<1>. USE <1>1 DEF TakesCuts
<1> DEFINE n == Len(d)
<1>2. n \in Nat
  BY BytesHaveLength
<1> DEFINE T == {i \in 0 .. n : Ended(f[i].rest) \/ Len(f[i].rest) <= n - i}
<1>3. 0 \in T
  <2>1. f[0].rest = d
    BY DEF Start
  <2>. QED  BY <1>2, <2>1
<1>4. ASSUME NEW i \in 0 .. n, i # n, i \in T PROVE i + 1 \in T
  <2>1. i + 1 \in 1 .. n /\ (i + 1) - 1 = i /\ i + 1 \in 0 .. n
    BY <1>2, <1>4
  <2> DEFINE s == f[i]
             e == s.rest
  <2>2. f[i + 1] = Cut(s) /\ s \in Slicings
    BY <2>1
  <2>3. e \in Bytes /\ Len(e) \in Nat
    BY <2>2, BytesHaveLength DEF Slicings
  <2>4. CASE Ended(e)
    <3>1. Cut(s) = s
      BY <2>3, <2>4, CutByOutcome
    <3>. QED  BY <2>1, <2>2, <2>4, <3>1
  <2>5. CASE ~Ended(e)
    <3>1. Len(e) <= n - i
      BY <1>4, <2>5
    <3>2. PICK k \in 1 .. Len(e) : Cut(s).rest = From(e, k + 1)
      <4>1. CASE Skips(e)
        <5>1. 4 \in 1 .. Len(e) /\ 4 + 1 = 5
          BY <2>3, <4>1 DEF Skips
        <5>2. Cut(s).rest = From(e, 5)
          BY <2>3, <4>1, CutByOutcome
        <5>. QED  BY <5>1, <5>2
      <4>2. CASE Takes(e)
        <5>1. LengthAt(e, 1) \in 1 .. Len(e)
          BY <2>3, <4>2, FirstFits
        <5>2. Cut(s).rest = From(e, LengthAt(e, 1) + 1)
          BY <2>3, <4>2, CutByOutcome
        <5>. QED  BY <5>1, <5>2
      <4>. QED  BY <2>3, <2>5, <4>1, <4>2, Outcomes
    <3>3. k \in 0 .. Len(e)
      BY <2>3
    <3>4. Len(From(e, k + 1)) = Len(e) - k
      BY <2>3, <3>3, Parts
    <3>5. Len(Cut(s).rest) = Len(e) - k
      BY <3>2, <3>4
    <3>. HIDE DEF e, s
    <3>6. Len(Cut(s).rest) <= n - (i + 1)
      BY ONLY <1>2, <2>3, <3>1, <3>5, k \in 1 .. Len(e), i \in 0 .. n
    <3>. QED  BY <2>1, <2>2, <3>6 DEF s
  <2>. QED  BY <2>4, <2>5
<1>5. n \in T
  <2>1. PassedOn(T, 0, n)
    <3>. HIDE DEF T
    <3>. QED  BY <1>3, <1>4 DEF PassedOn
  <2>. HIDE DEF T
  <2>2. 0 .. n \subseteq T
    BY <1>2, <2>1, IntervalInduction
  <2>. QED  BY <1>2, <2>2
<1>6. Slice(d) = f[n] /\ f[n] \in Slicings
  BY <1>2
<1>7. Ended(f[n].rest) \/ Len(f[n].rest) <= 0
  BY <1>2, <1>5
<1>. QED  BY <1>6, <1>7 DEF Ended

\* What a turn makes of a slicing does not depend on the packets it has.
LEMMA CutAfter ==
  ASSUME NEW p \in Seq(Fitting), NEW s \in Slicings
  PROVE  Cut(After(p, s)) = After(p, Cut(s))
<1> DEFINE d == s.rest
<1>1. d \in Bytes /\ s.pkts \in Seq(Fitting)
  BY DEF Slicings
<1>2. After(p, s).rest = d /\ After(p, s).pkts = p \o s.pkts
  BY DEF After
<1>. HIDE DEF d
<1>3. CASE Ended(d)
  BY <1>1, <1>2, <1>3, CutByOutcome DEF d
<1>4. CASE Skips(d)
  <2>1. /\ Cut(s) = [pkts |-> s.pkts, rest |-> From(d, 5)]
        /\ Cut(After(p, s)) = [pkts |-> p \o s.pkts, rest |-> From(d, 5)]
    BY <1>1, <1>2, <1>4, CutByOutcome DEF d
  <2>. QED  BY <2>1 DEF After
<1>5. CASE Takes(d)
  <2> DEFINE k == LengthAt(d, 1)
             q == SubSeq(d, 1, k)
  <2>1. /\ Cut(s) = [pkts |-> Append(s.pkts, q), rest |-> From(d, k + 1)]
        /\ Cut(After(p, s)) = [pkts |-> Append(p \o s.pkts, q), rest |-> From(d, k + 1)]
    BY <1>1, <1>2, <1>5, CutByOutcome DEF d
  <2>2. q \in Fitting
    BY <1>1, <1>5, FirstFits
  <2>. HIDE DEF q, k
  <2>3. Append(p \o s.pkts, q) = p \o Append(s.pkts, q)
    <3>1. \A u, v \in Seq(Fitting), e \in Fitting : u \o Append(v, e) = Append(u \o v, e)
      BY ONLY AppendsAfter
    <3>. QED  BY <1>1, <2>2, <3>1, Zenon
  <2>. QED  BY <2>1, <2>3 DEF After
<1>. QED  BY <1>1, <1>3, <1>4, <1>5, Outcomes

LEMMA AfterType ==
  ASSUME NEW p \in Seq(Fitting), NEW s \in Slicings
  PROVE  After(p, s) \in Slicings /\ After(<<>>, s) = s
<1>1. s.pkts \in Seq(Fitting) /\ s.rest \in Bytes /\ s = [pkts |-> s.pkts, rest |-> s.rest]
  BY DEF Slicings
<1>2. p \o s.pkts \in Seq(Fitting) /\ <<>> \o s.pkts = s.pkts
  BY <1>1, ConcatProperties, ConcatEmptySeq
<1>. QED  BY <1>1, <1>2 DEF Slicings, After

\* A slicing whose first turn takes the packets p and leaves e goes on as that of e.
Moves(d, p, e) ==
  /\ d \in Bytes /\ e \in Bytes /\ p \in Seq(Fitting) /\ Len(e) < Len(d)
  /\ Cut(Start(d)) = [pkts |-> p, rest |-> e]

LEMMA SliceMoves ==
  ASSUME NEW d, NEW p, NEW e, Moves(d, p, e)
  PROVE  Slice(d) = After(p, Slice(e))
<1>. USE DEF Moves
<1>1. PICK f : TakesCuts(f, d)
  BY SliceSteps
<1>2. PICK g : TakesCuts(g, e)
  BY SliceSteps
<1> DEFINE n == Len(d)
           m == Len(e)
<1>3. /\ n \in Nat /\ m \in Nat /\ m < n
      /\ f \in [0 .. n -> Slicings] /\ g \in [0 .. m -> Slicings]
      /\ \A i \in 1 .. n : f[i] = Cut(f[i - 1])
      /\ \A i \in 1 .. m : g[i] = Cut(g[i - 1])
      /\ f[0] = Start(d) /\ g[0] = Start(e)
      /\ Slice(d) = f[n] /\ Slice(e) = g[m]
  BY <1>1, <1>2, BytesHaveLength DEF TakesCuts
<1>4. g[m] \in Slicings /\ Ended(g[m].rest)
  BY <1>3, SliceEnds
<1>. HIDE DEF n, m
<1>5. f[1] = After(p, g[0])
  <2>1. f[1] = Cut(f[0])
    <3>1. 1 \in 1 .. n /\ 1 - 1 = 0
      BY <1>3
    <3>. QED  BY <1>3, <3>1
  <2>2. p \o <<>> = p
    BY ConcatEmptySeq
  <2>. QED  BY <1>3, <2>1, <2>2 DEF After, Start
<1>6. f[m + 1] = After(p, g[m])
  <2> DEFINE T == {i \in 0 .. m : f[i + 1] = After(p, g[i])}
  <2>1. 0 \in T
    BY <1>3, <1>5
  <2>2. ASSUME NEW i \in 0 .. m, i # m, i \in T PROVE i + 1 \in T
    <3>1. /\ i + 2 \in 1 .. n /\ (i + 2) - 1 = i + 1 /\ i + 1 \in 1 .. m /\ (i + 1) - 1 = i
          /\ (i + 1) + 1 = i + 2 /\ i + 1 \in 0 .. m
      BY <1>3, <2>2
    <3>2. f[i + 2] = Cut(f[i + 1]) /\ g[i + 1] = Cut(g[i]) /\ g[i] \in Slicings
      BY <1>3, <3>1
    <3>3. f[i + 1] = After(p, g[i])
      BY <2>2
    <3>4. Cut(After(p, g[i])) = After(p, Cut(g[i]))
      BY <3>2, CutAfter
    <3>5. f[(i + 1) + 1] = After(p, g[i + 1])
      BY <3>1, <3>2, <3>3, <3>4
    <3>. QED  BY <3>1, <3>5
  <2>3. PassedOn(T, 0, m)
    <3>. HIDE DEF T
    <3>. QED  BY <2>1, <2>2 DEF PassedOn
  <2>4. m \in T
    <3>. HIDE DEF T
    <3>1. 0 .. m \subseteq T
      BY <1>3, <2>3, IntervalInduction
    <3>. QED  BY <1>3, <3>1
  <2>. QED  BY <2>4
<1> DEFINE last == After(p, g[m])
<1>7. last \in Slicings /\ Ended(last.rest) /\ Cut(last) = last
  <2>1. last \in Slicings /\ last.rest = g[m].rest
    BY <1>4, AfterType DEF After
  <2>. HIDE DEF last
  <2>2. last.rest \in Bytes
    BY <2>1 DEF Slicings
  <2>. QED  BY <1>4, <2>1, <2>2, CutByOutcome
<1>8. f[n] = last
  <2>. HIDE DEF last
  <2> DEFINE T == {i \in m + 1 .. n : f[i] = last}
  <2>1. m + 1 \in T
    BY <1>3, <1>6 DEF last
  <2>2. ASSUME NEW i \in m + 1 .. n, i # n, i \in T PROVE i + 1 \in T
    <3>1. i + 1 \in 1 .. n /\ (i + 1) - 1 = i /\ i + 1 \in m + 1 .. n
      BY <1>3, <2>2
    <3>2. f[i + 1] = Cut(f[i]) /\ f[i] = last
      BY <1>3, <2>2, <3>1
    <3>. QED  BY <1>7, <3>1, <3>2
  <2>3. PassedOn(T, m + 1, n)
    <3>. HIDE DEF T
    <3>. QED  BY <2>1, <2>2 DEF PassedOn
  <2>4. n \in T
    <3>. HIDE DEF T
    <3>1. m + 1 .. n \subseteq T
      BY <1>3, <2>3, IntervalInduction
    <3>. QED  BY <1>3, <3>1
  <2>. QED  BY <2>4
<1>. QED  BY <1>3, <1>8

\* The equations of Slice.
LEMMA SliceEnded ==
  ASSUME NEW d \in Bytes, Ended(d)
  PROVE  Slice(d) = Start(d)
<1>1. PICK f : TakesCuts(f, d)
  BY SliceSteps
<1> DEFINE n == Len(d)
           T == {i \in 0 .. n : f[i] = Start(d)}
<1>2. n \in Nat /\ f[0] = Start(d) /\ Slice(d) = f[n] /\ \A i \in 1 .. n : f[i] = Cut(f[i - 1])
  BY <1>1, BytesHaveLength DEF TakesCuts
<1>. HIDE DEF n
<1>3. Cut(Start(d)) = Start(d)
  <2>1. Start(d).rest = d
    BY DEF Start
  <2>. QED  BY <2>1, CutByOutcome
<1>4. 0 \in T
  BY <1>2
<1>5. ASSUME NEW i \in 0 .. n, i # n, i \in T PROVE i + 1 \in T
  <2>1. i + 1 \in 1 .. n /\ (i + 1) - 1 = i /\ i + 1 \in 0 .. n
    BY <1>2, <1>5
  <2>. QED  BY <1>2, <1>3, <1>5, <2>1
<1>6. PassedOn(T, 0, n)
  <2>. HIDE DEF T
  <2>. QED  BY <1>4, <1>5 DEF PassedOn
<1>7. n \in T
  <2>. HIDE DEF T
  <2>1. 0 .. n \subseteq T
    BY <1>2, <1>6, IntervalInduction
  <2>. QED  BY <1>2, <2>1
<1>. QED  BY <1>2, <1>7

LEMMA SkipMoves ==
  ASSUME NEW d \in Bytes, Skips(d)
  PROVE  4 \in 0 .. Len(d) /\ Moves(d, <<>>, From(d, 5))
<1>1. 4 \in 0 .. Len(d) /\ 4 + 1 = 5 /\ Len(d) \in Nat
  BY BytesHaveLength DEF Skips
<1>2. From(d, 4 + 1) \in Bytes /\ Len(From(d, 4 + 1)) = Len(d) - 4
  BY <1>1, Parts
<1>3. From(d, 5) \in Bytes /\ Len(From(d, 5)) < Len(d)
  BY <1>1, <1>2
<1>4. Start(d).rest = d /\ Start(d).pkts = <<>>
  BY DEF Start
<1>5. Cut(Start(d)) = [pkts |-> <<>>, rest |-> From(d, 5)]
  BY <1>4, CutByOutcome
<1>. QED  BY <1>1, <1>3, <1>5, EmptySeq DEF Moves

LEMMA TakeMoves ==
  ASSUME NEW d \in Bytes, Takes(d)
  PROVE  LET k == LengthAt(d, 1)
         IN  /\ k \in 1 .. Len(d) /\ SubSeq(d, 1, k) \in Fitting
             /\ Moves(d, <<SubSeq(d, 1, k)>>, From(d, k + 1))
<1> DEFINE k == LengthAt(d, 1)
           q == SubSeq(d, 1, k)
<1>1. k \in 1 .. Len(d) /\ q \in Fitting /\ Len(d) \in Nat
  BY FirstFits, BytesHaveLength
<1>2. Cut(Start(d)) = [pkts |-> Append(<<>>, q), rest |-> From(d, k + 1)]
  <2>1. Start(d).rest = d /\ Start(d).pkts = <<>>
    BY DEF Start
  <2>. QED  BY <2>1, CutByOutcome
<1>. HIDE DEF q, k
<1>3. From(d, k + 1) \in Bytes /\ Len(From(d, k + 1)) < Len(d)
  <2>1. k \in 0 .. Len(d)
    BY <1>1
  <2>2. From(d, k + 1) \in Bytes /\ Len(From(d, k + 1)) = Len(d) - k
    BY <2>1, Parts
  <2>. QED  BY <1>1, <2>2
<1>4. Append(<<>>, q) = <<q>> /\ <<q>> \in Seq(Fitting)
  BY <1>1
<1>. QED  BY <1>1, <1>2, <1>3, <1>4 DEF Moves, q, k

-------------------------------------------------------------------------------
(* Slicing in parts.                                                       *)

LEMMA BytesJoin ==
  \A a, b, c \in Bytes : (a \o b) \o c = a \o (b \o c)
<1>1. ASSUME NEW a \in Seq(0 .. 255), NEW b \in Seq(0 .. 255), NEW c \in Seq(0 .. 255)
      PROVE  (a \o b) \o c = a \o (b \o c)
  BY ONLY <1>1, ConcatAssociative, SMTT(30)
<1>. QED  BY ONLY <1>1 DEF Bytes

LEMMA AfterAfter ==
  ASSUME NEW p \in Seq(Fitting), NEW q \in Seq(Fitting), NEW s \in Slicings
  PROVE  After(p, After(q, s)) = After(p \o q, s)
<1>1. s.pkts \in Seq(Fitting)
  BY DEF Slicings
<1>2. \A a, b, c \in Seq(Fitting) : (a \o b) \o c = a \o (b \o c)
  <2>1. ASSUME NEW a \in Seq(Fitting), NEW b \in Seq(Fitting), NEW c \in Seq(Fitting)
        PROVE  (a \o b) \o c = a \o (b \o c)
    BY ONLY <2>1, ConcatAssociative, SMTT(30)
  <2>. QED  BY ONLY <2>1
<1>3. (p \o q) \o s.pkts = p \o (q \o s.pkts)
  BY <1>1, <1>2, Zenon
<1>. QED  BY <1>3 DEF After

\* The header of bytes with others behind them is their own.
LEMMA JoinedHeader ==
  ASSUME NEW x \in Bytes, NEW y \in Bytes, Len(x) > 3
  PROVE  /\ LengthAt(x \o y, 1) = LengthAt(x, 1) /\ (Garbage(x \o y, 1) <=> Garbage(x, 1))
         /\ Len(x \o y) > 3 /\ Len(x \o y) >= Len(x)
<1> DEFINE z == x \o y
<1>1. /\ Len(z) = Len(x) + Len(y) /\ Len(x) \in Nat /\ Len(y) \in Nat
      /\ \A i \in 1 .. Len(x) : z[i] = x[i]
  BY JoinedBytes, BytesHaveLength
<1>. HIDE DEF z
<1>2. 1 \in 1 .. Len(x) /\ 3 \in 1 .. Len(x) /\ 4 \in 1 .. Len(x)
  BY <1>1
<1>3. z[1] = x[1] /\ z[3] = x[3] /\ z[4] = x[4]
  BY <1>1, <1>2
<1>4. LengthAt(z, 1) = LengthAt(x, 1) /\ (Garbage(z, 1) <=> Garbage(x, 1))
  BY ONLY <1>3, SameHeader
<1>5. Len(z) > 3 /\ Len(z) >= Len(x)
  BY <1>1
<1>. QED  BY <1>4, <1>5 DEF z

\* Slicing what is read in two parts: what is left of the first is in front of the
\* second.
SlicedInParts(x) ==
  \A y \in Bytes : Slice(x \o y) = After(Slice(x).pkts, Slice(Slice(x).rest \o y))

LEMMA PartsByMove ==
  ASSUME NEW x, NEW p, NEW e, Moves(x, p, e), SlicedInParts(e),
         \A y \in Bytes : Moves(x \o y, p, e \o y)
  PROVE  SlicedInParts(x)
<1>1. SUFFICES ASSUME NEW y \in Bytes
               PROVE  Slice(x \o y) = After(Slice(x).pkts, Slice(Slice(x).rest \o y))
  BY DEF SlicedInParts
<1> DEFINE s == Slice(e)
           t == Slice(s.rest \o y)
<1>2. x \in Bytes /\ e \in Bytes /\ p \in Seq(Fitting)
  BY DEF Moves
<1>3. Slice(x \o y) = After(p, Slice(e \o y)) /\ Slice(x) = After(p, s)
  BY SliceMoves
<1>4. Slice(e \o y) = After(s.pkts, t)
  BY DEF SlicedInParts
<1>5. s.pkts \in Seq(Fitting) /\ s.rest \in Bytes
  BY <1>2, SliceEnds DEF Slicings
<1>6. t \in Slicings
  <2>1. s.rest \o y \in Bytes
    BY <1>5, JoinedBytes
  <2>. QED  BY <2>1, SliceEnds
<1>7. Slice(x).pkts = p \o s.pkts /\ Slice(x).rest = s.rest
  BY <1>3 DEF After
<1>. HIDE DEF s, t
<1>8. After(p, After(s.pkts, t)) = After(p \o s.pkts, t)
  BY ONLY <1>2, <1>5, <1>6, AfterAfter
<1>. QED  BY <1>3, <1>4, <1>7, <1>8 DEF t

LEMMA SliceOfJoined ==
  ASSUME NEW x \in Bytes
  PROVE  SlicedInParts(x)
<1> DEFINE T == {n \in Nat : \A d \in Bytes : Len(d) = n => SlicedInParts(d)}
<1>1. ASSUME NEW n \in Nat, \A m \in 0 .. n - 1 : m \in T PROVE n \in T
  <2>1. SUFFICES ASSUME NEW d \in Bytes, Len(d) = n PROVE SlicedInParts(d)
    OBVIOUS
  <2>2. \A e \in Bytes : Len(e) < Len(d) => SlicedInParts(e)
    <3>1. ASSUME NEW e \in Bytes, Len(e) < Len(d) PROVE SlicedInParts(e)
      <4>1. Len(e) \in 0 .. n - 1
        BY <2>1, <3>1, BytesHaveLength
      <4>2. Len(e) \in T
        BY <1>1, <4>1
      <4>. QED  BY <4>2
    <3>. QED  BY <3>1
  <2>. HIDE DEF T
  <2>3. CASE Ended(d)
    <3>1. Slice(d) = Start(d) /\ Slice(d).pkts = <<>> /\ Slice(d).rest = d
      BY <2>3, SliceEnded DEF Start
    <3>2. ASSUME NEW y \in Bytes
          PROVE  Slice(d \o y) = After(Slice(d).pkts, Slice(Slice(d).rest \o y))
      <4>1. d \o y \in Bytes
        BY JoinedBytes
      <4>2. Slice(d \o y) \in Slicings
        BY <4>1, SliceEnds
      <4>3. After(<<>>, Slice(d \o y)) = Slice(d \o y)
        BY <4>2, EmptySeq, AfterType
      <4>. QED  BY <3>1, <4>3
    <3>. QED  BY <3>2 DEF SlicedInParts
  <2>4. CASE Skips(d)
    <3>1. Moves(d, <<>>, From(d, 5)) /\ 4 \in 0 .. Len(d) /\ 4 + 1 = 5
      BY <2>4, SkipMoves
    <3>2. SlicedInParts(From(d, 5))
      BY <2>2, <3>1 DEF Moves
    <3>3. ASSUME NEW y \in Bytes PROVE Moves(d \o y, <<>>, From(d, 5) \o y)
      <4>1. From(d \o y, 4 + 1) = From(d, 4 + 1) \o y
        BY <3>1, PartsOfJoined
      <4>2. Skips(d \o y) /\ d \o y \in Bytes
        BY <2>4, JoinedHeader, JoinedBytes DEF Skips
      <4>3. Moves(d \o y, <<>>, From(d \o y, 5))
        BY <4>2, SkipMoves
      <4>. QED  BY <3>1, <4>1, <4>3
    <3>. QED  BY <3>1, <3>2, <3>3, PartsByMove
  <2>5. CASE Takes(d)
    <3> DEFINE k == LengthAt(d, 1)
               q == SubSeq(d, 1, k)
    <3>1. k \in 1 .. Len(d) /\ Moves(d, <<q>>, From(d, k + 1)) /\ Len(d) \in Nat
      BY <2>5, TakeMoves, BytesHaveLength
    <3>2. SlicedInParts(From(d, k + 1))
      BY <2>2, <3>1 DEF Moves
    <3>3. ASSUME NEW y \in Bytes PROVE Moves(d \o y, <<q>>, From(d, k + 1) \o y)
      <4>1. k \in 0 .. Len(d)
        BY <3>1
      <4>2. From(d \o y, k + 1) = From(d, k + 1) \o y /\ SubSeq(d \o y, 1, k) = q
        BY <4>1, PartsOfJoined
      <4>3. /\ LengthAt(d \o y, 1) = k /\ (Garbage(d \o y, 1) <=> Garbage(d, 1))
            /\ Len(d \o y) > 3 /\ Len(d \o y) >= Len(d) /\ d \o y \in Bytes
        BY <2>5, JoinedHeader, JoinedBytes DEF Takes
      <4>4. k <= Len(d \o y)
        BY <3>1, <4>3, BytesHaveLength
      <4>5. Takes(d \o y)
        BY <2>5, <4>3, <4>4 DEF Takes, Complete
      <4>6. Moves(d \o y, <<SubSeq(d \o y, 1, k)>>, From(d \o y, k + 1))
        BY <4>3, <4>5, TakeMoves
      <4>. QED  BY <4>2, <4>6
    <3>. HIDE DEF q, k
    <3>. QED  BY <3>1, <3>2, <3>3, PartsByMove
  <2>. QED  BY <2>3, <2>4, <2>5, Outcomes
<1>2. Nat \subseteq T
  <2>. HIDE DEF T
  <2>. QED  BY <1>1, StrongInduction
<1>3. Len(x) \in T
  BY <1>2, BytesHaveLength
<1>. QED  BY <1>3

\* Packets that are written back in front of bytes are sliced again, all of them.
Whole == {p \in Bytes : Len(p) > 3 /\ ~Garbage(p, 1) /\ LengthAt(p, 1) = Len(p)}

LEMMA WholeFits == Whole \subseteq Fitting /\ Whole \subseteq Bytes /\ Fitting \subseteq Bytes
BY DEF Whole, Fitting

LEMMA WholeMoves ==
  ASSUME NEW p \in Whole, NEW r \in Bytes
  PROVE  Moves(p \o r, <<p>>, r)
<1> DEFINE z == p \o r
           k == Len(p)
<1>1. p \in Bytes /\ Len(p) \in Nat /\ Len(p) > 3 /\ ~Garbage(p, 1) /\ LengthAt(p, 1) = k
  BY BytesHaveLength DEF Whole
<1>2. /\ LengthAt(z, 1) = k /\ ~Garbage(z, 1) /\ Len(z) > 3 /\ k <= Len(z) /\ z \in Bytes
  BY <1>1, JoinedHeader, JoinedBytes
<1>3. Takes(z)
  BY <1>2 DEF Takes, Complete
<1>4. Moves(z, <<SubSeq(z, 1, k)>>, From(z, k + 1))
  BY <1>2, <1>3, TakeMoves
<1>5. SubSeq(z, 1, k) = SubSeq(p, 1, k) /\ From(z, k + 1) = From(p, k + 1) \o r
  <2>1. k \in 0 .. Len(p)
    BY <1>1
  <2>. QED  BY <1>1, <2>1, PartsOfJoined
<1>6. SubSeq(p, 1, k) = p /\ From(p, k + 1) = <<>>
  <2>1. SubSeq(p, 1, k) = p
    BY <1>1, SubSeqFull DEF Bytes
  <2>2. k + 1 \in Int /\ k \in Int /\ k < k + 1
    BY <1>1
  <2>3. From(p, k + 1) = <<>>
    BY <2>2, SubSeqEmpty DEF From
  <2>. QED  BY <2>1, <2>3
<1>7. <<>> \o r = r
  BY ConcatEmptySeq DEF Bytes
<1>. QED  BY <1>4, <1>5, <1>6, <1>7

LEMMA SliceOfWaiting ==
  ASSUME NEW D \in Seq(Whole), NEW r \in Bytes
  PROVE  /\ Joined(D) \in Bytes /\ Joined(D) \o r \in Bytes
         /\ Slice(Joined(D) \o r) = After(D, Slice(r))
<1> DEFINE T == {u \in Seq(Whole) : Joined(u) \in Bytes
                    /\ \A e \in Bytes : Slice(Joined(u) \o e) = After(u, Slice(e))}
<1>1. <<>> \in T
  <2>1. Joined(<<>>) = <<>> /\ <<>> \in Bytes /\ <<>> \in Seq(Whole)
    BY JoinedEmpty, EmptySeq DEF Bytes
  <2>2. ASSUME NEW e \in Bytes PROVE Slice(Joined(<<>>) \o e) = After(<<>>, Slice(e))
    <3>1. <<>> \o e = e
      BY ConcatEmptySeq DEF Bytes
    <3>2. After(<<>>, Slice(e)) = Slice(e)
      BY SliceEnds, EmptySeq, AfterType
    <3>. QED  BY <2>1, <3>1, <3>2
  <2>. QED  BY <2>1, <2>2
<1>2. ASSUME NEW u \in Seq(Whole), NEW p \in Whole, u \in T PROVE Append(u, p) \in T
  <2>1. u \in Seq(Seq(0 .. 255)) /\ p \in Bytes /\ u \in Seq(Fitting) /\ p \in Fitting
    BY WholeFits, SeqMonotonic DEF Bytes
  <2>2. Joined(Append(u, p)) = Joined(u) \o p /\ Joined(u) \in Bytes
    BY <2>1, JoinedAppend DEF Bytes
  <2>3. Joined(Append(u, p)) \in Bytes
    BY <2>1, <2>2, JoinedBytes
  <2>4. ASSUME NEW e \in Bytes PROVE Slice(Joined(Append(u, p)) \o e) = After(Append(u, p), Slice(e))
    <3>1. (Joined(u) \o p) \o e = Joined(u) \o (p \o e)
      BY <2>1, <2>2, BytesJoin, Zenon
    <3>2. p \o e \in Bytes
      BY <2>1, JoinedBytes
    <3>3. Slice(Joined(u) \o (p \o e)) = After(u, Slice(p \o e))
      BY <1>2, <3>2
    <3>4. Slice(p \o e) = After(<<p>>, Slice(e))
      BY WholeMoves, SliceMoves
    <3>5. <<p>> \in Seq(Fitting) /\ Append(u, p) = u \o <<p>>
      BY <2>1, AppendIsConcat
    <3>6. Slice(e) \in Slicings
      BY SliceEnds
    <3>7. After(u, After(<<p>>, Slice(e))) = After(u \o <<p>>, Slice(e))
      BY ONLY <2>1, <3>5, <3>6, AfterAfter
    <3>. QED  BY <2>2, <3>1, <3>3, <3>4, <3>5, <3>7
  <2>. QED  BY <2>3, <2>4, AppendProperties
<1>3. Seq(Whole) \subseteq T
  <2>. HIDE DEF T
  <2>1. AppendedTo(T, Whole)
    BY <1>1, <1>2 DEF AppendedTo
  <2>. QED  BY <2>1, SequenceInduction
<1>4. Joined(D) \in Bytes /\ Slice(Joined(D) \o r) = After(D, Slice(r))
  BY <1>3
<1>. QED  BY <1>4, JoinedBytes

-------------------------------------------------------------------------------
(* The packets by the bytes themselves are those of of_slicer.             *)

Scans == [next : Nat, pkts : Seq(Bytes)]

First == [next |-> 1, pkts |-> <<>>]

LEMMA SubBytes ==
  ASSUME NEW d \in Bytes, NEW a \in Nat \ {0}, NEW n \in Nat, a + n <= Len(d) + 1
  PROVE  LET u == SubSeq(d, a, a + n - 1)
         IN  u \in Bytes /\ Len(u) = n /\ \A i \in 1 .. n : u[i] = d[a + i - 1]
<1> DEFINE b == a + n - 1
           u == SubSeq(d, a, b)
<1>1. Len(d) \in Nat /\ \A i \in 1 .. Len(d) : d[i] \in 0 .. 255
  BY BytesHaveLength
<1>2. /\ a \in Int /\ b \in Int /\ b - a + 1 = n /\ (a <= b <=> n # 0)
      /\ a .. b \subseteq 1 .. Len(d)
  BY ONLY <1>1, a \in Nat \ {0}, n \in Nat, a + n <= Len(d) + 1
<1>. HIDE DEF b
<1>3. \A i \in a .. b : d[i] \in 0 .. 255
  BY <1>1, <1>2
<1>4. /\ u \in Seq(0 .. 255) /\ Len(u) = IF a <= b THEN b - a + 1 ELSE 0
      /\ \A i \in 1 .. b - a + 1 : u[i] = d[a + i - 1]
  BY ONLY <1>2, <1>3, SubSeqProperties
<1>5. Len(u) = n
  BY ONLY <1>2, <1>4
<1>. QED  BY ONLY <1>2, <1>4, <1>5 DEF Bytes, b

LEMMA ScanType ==
  ASSUME NEW d \in Bytes, NEW p \in 1 .. Len(d), NEW s \in Scans
  PROVE  Scan(d, p, s) \in Scans
<1>1. s.pkts \in Seq(Bytes) /\ Len(d) \in Nat
  BY BytesHaveLength DEF Scans
<1> DEFINE k == LengthAt(d, p)
           q == SubSeq(d, p, p + k - 1)
<1>2. CASE p # s.next \/ p + 3 > Len(d)
  BY <1>2 DEF Scan
<1>3. CASE ~(p # s.next \/ p + 3 > Len(d)) /\ Garbage(d, p)
  <2>1. Scan(d, p, s) = [next |-> p + 4, pkts |-> s.pkts]
    BY <1>3 DEF Scan
  <2>. QED  BY <1>1, <2>1 DEF Scans
<1>4. CASE ~(p # s.next \/ p + 3 > Len(d)) /\ ~Garbage(d, p)
  <2>1. k \in Nat /\ k > 0
    <3>1. p \in Nat \ {0} /\ p + 3 <= Len(d)
      BY <1>1, <1>4
    <3>2. k \in Nat
      BY <3>1, HeaderLength
    <3>. QED  BY <1>4, <3>2 DEF Garbage
  <2>2. CASE p + k <= Len(d) + 1
    <3>1. Scan(d, p, s) = [next |-> p + k, pkts |-> Append(s.pkts, q)]
      BY <1>4, <2>2 DEF Scan
    <3>. HIDE DEF k
    <3>2. p \in Nat \ {0} /\ p + k <= Len(d) + 1 /\ p + k \in Nat
      BY <1>1, <2>1, <2>2
    <3>3. q \in Bytes
      BY <2>1, <3>2, SubBytes
    <3>. HIDE DEF q
    <3>4. Append(s.pkts, q) \in Seq(Bytes)
      BY <1>1, <3>3, AppendProperties
    <3>. QED  BY <3>1, <3>2, <3>4 DEF Scans
  <2>3. CASE ~(p + k <= Len(d) + 1)
    BY <1>4, <2>3 DEF Scan
  <2>. QED  BY <2>2, <2>3
<1>. QED  BY <1>2, <1>3, <1>4

\* PacketsOf is told by the last value of the function that it is defined by.
TakesScans(f, d) ==
  /\ f \in [0 .. Len(d) -> Scans]
  /\ f[0] = First /\ PacketsOf(d) = f[Len(d)].pkts
  /\ \A p \in 1 .. Len(d) : f[p] = Scan(d, p, f[p - 1])

LEMMA ScanSteps ==
  ASSUME NEW d \in Bytes
  PROVE  \E f : TakesScans(f, d)
<1> DEFINE n == Len(d)
           step == [p \in 1 .. n |-> [s \in Scans |-> Scan(d, p, s)]]
           Is(f) == f = [p \in 0 .. n |-> IF p = 0 THEN First ELSE Scan(d, p, f[p - 1])]
<1>1. n \in Nat /\ First \in Scans /\ step \in [1 .. n -> [Scans -> Scans]]
  <2>1. First \in Scans
    BY EmptySeq DEF First, Scans
  <2>. QED  BY <2>1, BytesHaveLength, ScanType
<1>. HIDE DEF n
<1>2. PICK f : /\ f \in [0 .. n -> Scans] /\ f[0] = First
               /\ \A i \in 1 .. n : f[i] = step[i][f[i - 1]]
  <2>1. AreSteps(step, n, Scans, First) /\ n \in Nat
    BY <1>1 DEF AreSteps
  <2>. HIDE DEF step
  <2>2. PICK f : TakesSteps(f, step, n, Scans, First)
    BY ONLY <2>1, StepsDefine
  <2>. QED  BY <2>2 DEF TakesSteps
<1>3. ASSUME NEW i \in 1 .. n PROVE f[i] = Scan(d, i, f[i - 1])
  <2>1. i - 1 \in 0 .. n /\ f[i - 1] \in Scans
    BY <1>1, <1>2
  <2>2. step[i][f[i - 1]] = Scan(d, i, f[i - 1])
    BY <2>1
  <2>. HIDE DEF step
  <2>. QED  BY <1>2, <2>2
<1>4. Is(f)
  <2>1. ASSUME NEW i \in 0 .. n PROVE f[i] = IF i = 0 THEN First ELSE Scan(d, i, f[i - 1])
    <3>1. i = 0 \/ i \in 1 .. n
      BY <1>1
    <3>. QED  BY <1>2, <1>3, <3>1
  <2>. QED  BY <1>2, <2>1
<1>5. \A g : Is(g) => g = f
  <2>1. SUFFICES ASSUME NEW g, Is(g) PROVE g = f
    OBVIOUS
  <2>2. \A i \in 0 .. n : g[i] = f[i]
    <3> DEFINE T == {i \in 0 .. n : g[i] = f[i]}
    <3>1. 0 \in T
      BY <1>1, <1>4, <2>1
    <3>2. ASSUME NEW i \in 0 .. n, i # n, i \in T PROVE i + 1 \in T
      <4>1. i + 1 \in 0 .. n /\ i + 1 # 0 /\ (i + 1) - 1 = i /\ g[i] = f[i]
        BY <1>1, <3>2
      <4>2. g[i + 1] = Scan(d, i + 1, g[i])
        BY <2>1, <4>1
      <4>3. f[i + 1] = Scan(d, i + 1, f[i])
        BY <1>4, <4>1
      <4>. QED  BY <4>1, <4>2, <4>3
    <3>3. PassedOn(T, 0, n)
      <4>. HIDE DEF T
      <4>. QED  BY <3>1, <3>2 DEF PassedOn
    <3>4. 0 .. n \subseteq T
      BY <1>1, <3>3, IntervalInduction
    <3>. QED  BY <3>4
  <2>. QED  BY <1>4, <2>1, <2>2
<1>6. PacketsOf(d) = f[n].pkts
  <2>1. (CHOOSE g : Is(g)) = f
    <3>. HIDE DEF Is
    <3>. QED  BY <1>4, <1>5
  <2>. QED  BY <2>1 DEF PacketsOf, First, n
<1>. QED  BY <1>2, <1>3, <1>6 DEF TakesScans, n

\* A scan behind k bytes goes as one of the bytes behind them.
Shift(k, p, s) == [next |-> k + s.next, pkts |-> p \o s.pkts]

LEMMA ScanShift ==
  ASSUME NEW d \in Bytes, NEW k \in 1 .. Len(d), NEW p \in Seq(Bytes), NEW s \in Scans,
         NEW q \in 1 .. Len(From(d, k + 1))
  PROVE  Scan(d, k + q, Shift(k, p, s)) = Shift(k, p, Scan(From(d, k + 1), q, s))
<1> DEFINE e == From(d, k + 1)
<1>1. /\ e \in Bytes /\ Len(e) = Len(d) - k /\ Len(d) \in Nat /\ Len(e) \in Nat
      /\ \A i \in 1 .. Len(d) - k : e[i] = d[k + i]
  <2>1. k \in 0 .. Len(d)
    BY BytesHaveLength
  <2>. QED  BY <2>1, Parts, BytesHaveLength
<1>2. q \in 1 .. Len(e)
  OBVIOUS
<1>. HIDE DEF e
<1>3. s.next \in Nat /\ s.pkts \in Seq(Bytes)
  BY DEF Scans
<1>4. Shift(k, p, s).next = k + s.next /\ Shift(k, p, s).pkts = p \o s.pkts
  BY DEF Shift
<1>5. /\ (k + q # k + s.next) <=> (q # s.next)
      /\ (k + q + 3 > Len(d)) <=> (q + 3 > Len(e))
  BY ONLY <1>1, <1>2, <1>3, k \in 1 .. Len(d), SMTT(60)
<1>6. CASE q # s.next \/ q + 3 > Len(e)
  <2>1. Scan(e, q, s) = s
    BY <1>6 DEF Scan
  <2>2. Scan(d, k + q, Shift(k, p, s)) = Shift(k, p, s)
    BY <1>4, <1>5, <1>6 DEF Scan
  <2>. QED  BY <2>1, <2>2 DEF e
<1>7. CASE ~(q # s.next \/ q + 3 > Len(e))
  <2>1. q \in 1 .. Len(d) - k /\ q + 2 \in 1 .. Len(d) - k /\ q + 3 \in 1 .. Len(d) - k
    BY ONLY <1>1, <1>2, <1>7, k \in 1 .. Len(d)
  <2>2. e[q] = d[k + q] /\ e[q + 2] = d[k + q + 2] /\ e[q + 3] = d[k + q + 3]
    <3>1. k + q + 2 = k + (q + 2) /\ k + q + 3 = k + (q + 3)
      BY <1>1, <1>2
    <3>. QED  BY <1>1, <2>1, <3>1
  <2>3. LengthAt(d, k + q) = LengthAt(e, q) /\ (Garbage(d, k + q) <=> Garbage(e, q))
    BY ONLY <2>2 DEF LengthAt, Garbage
  <2>4. CASE Garbage(e, q)
    <3>1. Scan(e, q, s) = [next |-> q + 4, pkts |-> s.pkts]
      BY <1>7, <2>4 DEF Scan
    <3>2. Scan(d, k + q, Shift(k, p, s)) = [next |-> k + q + 4, pkts |-> p \o s.pkts]
      BY <1>4, <1>5, <1>7, <2>3, <2>4 DEF Scan
    <3>3. k + q + 4 = k + (q + 4)
      BY <1>1, <1>2
    <3>4. Shift(k, p, Scan(e, q, s)) = [next |-> k + (q + 4), pkts |-> p \o s.pkts]
      BY <3>1 DEF Shift
    <3>. QED  BY <3>2, <3>3, <3>4 DEF e
  <2>5. CASE ~Garbage(e, q)
    <3> DEFINE m == LengthAt(e, q)
    <3>1. m \in Nat /\ m > 0
      <4>1. q \in Nat \ {0} /\ q + 3 <= Len(e)
        BY <1>1, <1>2, <1>7
      <4>2. m \in Nat
        BY <1>1, <4>1, HeaderLength
      <4>. QED  BY <2>5, <4>2 DEF Garbage
    <3>. HIDE DEF m
    <3>2. (k + q + m <= Len(d) + 1) <=> (q + m <= Len(e) + 1)
      BY ONLY <1>1, <1>2, <3>1, k \in 1 .. Len(d)
    <3>3. CASE q + m <= Len(e) + 1
      <4> DEFINE u == SubSeq(e, q, q + m - 1)
                 v == SubSeq(d, k + q, k + q + m - 1)
      <4>1. /\ q \in Nat \ {0} /\ q + m <= Len(e) + 1
            /\ k + q \in Nat \ {0} /\ (k + q) + m <= Len(d) + 1
        BY ONLY <1>1, <1>2, <3>1, <3>3, k \in 1 .. Len(d)
      <4>2. u \in Bytes /\ Len(u) = m /\ \A i \in 1 .. m : u[i] = e[q + i - 1]
        BY <1>1, <3>1, <4>1, SubBytes
      <4>3. v \in Bytes /\ Len(v) = m /\ \A i \in 1 .. m : v[i] = d[k + q + i - 1]
        BY <3>1, <4>1, SubBytes
      <4>4. ASSUME NEW i \in 1 .. m PROVE u[i] = v[i]
        <5>1. q + i - 1 \in 1 .. Len(d) - k /\ k + q + i - 1 = k + (q + i - 1)
          BY ONLY <1>1, <1>2, <3>1, <3>3, k \in 1 .. Len(d), i \in 1 .. m
        <5>2. e[q + i - 1] = d[k + (q + i - 1)]
          BY <1>1, <5>1
        <5>. QED  BY <4>2, <4>3, <5>1, <5>2
      <4>5. u = v
        <5>. HIDE DEF u, v
        <5>. QED  BY <4>2, <4>3, <4>4, SameBytes
      <4>6. Scan(e, q, s) = [next |-> q + m, pkts |-> Append(s.pkts, u)]
        BY <1>7, <2>5, <3>3 DEF Scan, m
      <4>7. Scan(d, k + q, Shift(k, p, s)) =
                [next |-> k + q + m, pkts |-> Append(p \o s.pkts, v)]
        BY <1>4, <1>5, <1>7, <2>3, <2>5, <3>2, <3>3 DEF Scan, m
      <4>. HIDE DEF u, v
      <4>8. Append(p \o s.pkts, u) = p \o Append(s.pkts, u)
        <5>1. \A a, b \in Seq(Bytes), c \in Bytes : a \o Append(b, c) = Append(a \o b, c)
          BY ONLY AppendsAfter
        <5>. QED  BY <1>3, <4>2, <5>1, Zenon
      <4>9. k + q + m = k + (q + m)
        BY <1>1, <1>2, <3>1
      <4>10. Shift(k, p, Scan(e, q, s)) =
                [next |-> k + (q + m), pkts |-> p \o Append(s.pkts, u)]
        BY <4>6 DEF Shift
      <4>. QED  BY <4>5, <4>7, <4>8, <4>9, <4>10 DEF e
    <3>4. CASE ~(q + m <= Len(e) + 1)
      <4>1. Scan(e, q, s) = s
        BY <1>7, <2>5, <3>4 DEF Scan, m
      <4>2. Scan(d, k + q, Shift(k, p, s)) = Shift(k, p, s)
        BY <1>4, <1>5, <1>7, <2>3, <2>5, <3>2, <3>4 DEF Scan, m
      <4>. QED  BY <4>1, <4>2 DEF e
    <3>. QED  BY <3>3, <3>4
  <2>. QED  BY <2>4, <2>5
<1>. QED  BY <1>6, <1>7

\* A scan whose first byte is of no packet, or of the packets p, up to k.
ScanStarts(d, k, p) ==
  /\ d \in Bytes /\ k \in 1 .. Len(d) /\ p \in Seq(Bytes)
  /\ Scan(d, 1, First) = [next |-> k + 1, pkts |-> p]

LEMMA ScanMoves ==
  ASSUME NEW d, NEW k, NEW p, ScanStarts(d, k, p)
  PROVE  PacketsOf(d) = p \o PacketsOf(From(d, k + 1))
<1>. USE DEF ScanStarts
<1> DEFINE e == From(d, k + 1)
           n == Len(d)
           m == Len(e)
<1>1. e \in Bytes /\ n \in Nat /\ m \in Nat /\ n = m + k /\ k \in Nat \ {0}
  <2>1. n \in Nat /\ k \in 0 .. n /\ k \in Nat \ {0}
    BY BytesHaveLength
  <2>2. e \in Bytes /\ m = n - k
    BY <2>1, Parts
  <2>. QED  BY <2>1, <2>2
<1>2. PICK f : TakesScans(f, d)
  BY ScanSteps
<1>3. PICK g : TakesScans(g, e)
  BY <1>1, ScanSteps
<1>4. /\ f \in [0 .. n -> Scans] /\ g \in [0 .. m -> Scans]
      /\ f[0] = First /\ g[0] = First
      /\ \A i \in 1 .. n : f[i] = Scan(d, i, f[i - 1])
      /\ \A i \in 1 .. m : g[i] = Scan(e, i, g[i - 1])
      /\ PacketsOf(d) = f[n].pkts /\ PacketsOf(e) = g[m].pkts
  BY <1>2, <1>3 DEF TakesScans
<1> DEFINE s == [next |-> k + 1, pkts |-> p]
<1>5. f[1] = s
  <2>1. 1 \in 1 .. n /\ 1 - 1 = 0
    BY <1>1
  <2>2. f[1] = Scan(d, 1, First)
    BY <1>4, <2>1
  <2>. QED  BY <2>2
<1>. HIDE DEF n, m, e
<1>6. f[k] = s
  <2> DEFINE T == {i \in 1 .. k : f[i] = s}
  <2>1. 1 \in T
    BY <1>1, <1>5
  <2>2. ASSUME NEW i \in 1 .. k, i # k, i \in T PROVE i + 1 \in T
    <3>1. i + 1 \in 1 .. n /\ (i + 1) - 1 = i /\ i + 1 \in 1 .. k /\ i + 1 # k + 1
      BY <1>1, <2>2
    <3>2. f[i + 1] = Scan(d, i + 1, s)
      BY <1>4, <2>2, <3>1
    <3>3. Scan(d, i + 1, s) = s
      BY <3>1 DEF Scan
    <3>. QED  BY <3>1, <3>2, <3>3
  <2>3. PassedOn(T, 1, k)
    <3>. HIDE DEF T
    <3>. QED  BY <2>1, <2>2 DEF PassedOn
  <2>4. k \in T
    <3>. HIDE DEF T
    <3>1. 1 .. k \subseteq T
      BY <1>1, <2>3, IntervalInduction
    <3>. QED  BY <1>1, <3>1
  <2>. QED  BY <2>4
<1>7. f[k + m] = Shift(k, p, g[m])
  <2> DEFINE T == {i \in 0 .. m : f[k + i] = Shift(k, p, g[i])}
  <2>1. 0 \in T
    <3>1. p \o <<>> = p
      BY ConcatEmptySeq
    <3>2. Shift(k, p, First) = s
      BY <3>1 DEF Shift, First
    <3>. QED  BY <1>1, <1>4, <1>6, <3>2
  <2>2. ASSUME NEW i \in 0 .. m, i # m, i \in T PROVE i + 1 \in T
    <3>1. /\ k + (i + 1) \in 1 .. n /\ (k + (i + 1)) - 1 = k + i /\ i + 1 \in 1 .. m
          /\ (i + 1) - 1 = i /\ i + 1 \in 0 .. m
      BY <1>1, <2>2
    <3>2. /\ f[k + (i + 1)] = Scan(d, k + (i + 1), f[k + i]) /\ g[i + 1] = Scan(e, i + 1, g[i])
          /\ g[i] \in Scans
      BY <1>4, <3>1
    <3>3. f[k + i] = Shift(k, p, g[i])
      BY <2>2
    <3>4. Scan(d, k + (i + 1), Shift(k, p, g[i])) = Shift(k, p, Scan(e, i + 1, g[i]))
      BY <3>1, <3>2, ScanShift DEF e, n, m
    <3>5. f[k + (i + 1)] = Shift(k, p, g[i + 1])
      BY <3>2, <3>3, <3>4
    <3>. QED  BY <3>1, <3>5
  <2>3. PassedOn(T, 0, m)
    <3>. HIDE DEF T
    <3>. QED  BY <2>1, <2>2 DEF PassedOn
  <2>4. m \in T
    <3>. HIDE DEF T
    <3>1. 0 .. m \subseteq T
      BY <1>1, <2>3, IntervalInduction
    <3>. QED  BY <1>1, <3>1
  <2>. QED  BY <2>4
<1>8. k + m = n
  BY <1>1
<1>9. f[n].pkts = p \o g[m].pkts
  <2>1. f[n] = Shift(k, p, g[m])
    BY ONLY <1>7, <1>8
  <2>. QED  BY ONLY <2>1 DEF Shift
<1>10. PacketsOf(d) = f[n].pkts /\ PacketsOf(e) = g[m].pkts
  BY ONLY <1>4
<1>. QED  BY ONLY <1>9, <1>10 DEF e

LEMMA PacketsOfEnded ==
  ASSUME NEW d \in Bytes, Ended(d)
  PROVE  PacketsOf(d) = <<>>
<1>1. PICK f : TakesScans(f, d)
  BY ScanSteps
<1> DEFINE n == Len(d)
           T == {i \in 0 .. n : f[i] = First}
<1>2. /\ n \in Nat /\ f[0] = First /\ PacketsOf(d) = f[n].pkts
      /\ \A i \in 1 .. n : f[i] = Scan(d, i, f[i - 1])
  BY <1>1, BytesHaveLength DEF TakesScans
<1>3. ASSUME NEW i \in 1 .. n PROVE Scan(d, i, First) = First
  <2>1. CASE i # 1 \/ i + 3 > n
    BY <2>1 DEF Scan, First
  <2>2. CASE ~(i # 1 \/ i + 3 > n)
    <3>1. i = 1 /\ n > 3
      BY <1>2, <2>2
    <3>2. ~Garbage(d, 1) /\ ~(LengthAt(d, 1) <= n)
      BY <1>2, <3>1 DEF Ended, Complete
    <3>3. LengthAt(d, 1) \in Nat
      BY <3>1, HeaderAtStart
    <3>4. ~(1 + LengthAt(d, 1) <= n + 1)
      BY <1>2, <3>2, <3>3
    <3>. QED  BY <3>1, <3>2, <3>4 DEF Scan
  <2>. QED  BY <2>1, <2>2
<1>. HIDE DEF n
<1>4. 0 \in T
  BY <1>2
<1>5. ASSUME NEW i \in 0 .. n, i # n, i \in T PROVE i + 1 \in T
  <2>1. i + 1 \in 1 .. n /\ (i + 1) - 1 = i /\ i + 1 \in 0 .. n
    BY <1>2, <1>5
  <2>. QED  BY <1>2, <1>3, <1>5, <2>1
<1>6. n \in T
  <2>. HIDE DEF T
  <2>1. PassedOn(T, 0, n)
    BY <1>4, <1>5 DEF PassedOn
  <2>2. 0 .. n \subseteq T
    BY <1>2, <2>1, IntervalInduction
  <2>. QED  BY <1>2, <2>2
<1>. QED  BY <1>2, <1>6 DEF First

LEMMA PacketsAreSliced ==
  ASSUME NEW d \in Bytes
  PROVE  PacketsOf(d) = Slice(d).pkts
<1> DEFINE T == {n \in Nat : \A x \in Bytes : Len(x) = n => PacketsOf(x) = Slice(x).pkts}
<1>1. ASSUME NEW n \in Nat, \A m \in 0 .. n - 1 : m \in T PROVE n \in T
  <2>1. SUFFICES ASSUME NEW x \in Bytes, Len(x) = n PROVE PacketsOf(x) = Slice(x).pkts
    OBVIOUS
  <2>2. \A e \in Bytes : Len(e) < Len(x) => PacketsOf(e) = Slice(e).pkts
    <3>1. ASSUME NEW e \in Bytes, Len(e) < Len(x) PROVE PacketsOf(e) = Slice(e).pkts
      <4>1. Len(e) \in 0 .. n - 1
        BY <2>1, <3>1, BytesHaveLength
      <4>2. Len(e) \in T
        BY <1>1, <4>1
      <4>. QED  BY <4>2
    <3>. QED  BY <3>1
  <2>. HIDE DEF T
  <2>3. ASSUME NEW k, NEW p, ScanStarts(x, k, p), Moves(x, p, From(x, k + 1))
        PROVE  PacketsOf(x) = Slice(x).pkts
    <3> DEFINE e == From(x, k + 1)
    <3>1. PacketsOf(e) = Slice(e).pkts
      BY <2>2, <2>3 DEF Moves
    <3>2. Slice(x).pkts = p \o Slice(e).pkts
      BY <2>3, SliceMoves DEF After
    <3>3. PacketsOf(x) = p \o PacketsOf(e)
      BY <2>3, ScanMoves
    <3>. QED  BY <3>1, <3>2, <3>3
  <2>4. CASE Ended(x)
    BY <2>4, PacketsOfEnded, SliceEnded DEF Start
  <2>5. CASE Skips(x)
    <3>1. Moves(x, <<>>, From(x, 5)) /\ 4 + 1 = 5 /\ 1 + 4 = 5
      BY <2>5, SkipMoves
    <3>2. Len(x) \in Nat /\ Len(x) > 3 /\ Garbage(x, 1)
      BY <2>5, BytesHaveLength DEF Skips
    <3>3. ~(1 + 3 > Len(x)) /\ 4 \in 1 .. Len(x)
      BY <3>2
    <3>4. Scan(x, 1, First) = [next |-> 1 + 4, pkts |-> <<>>]
      BY <3>2, <3>3 DEF Scan, First
    <3>5. <<>> \in Seq(Bytes)
      BY EmptySeq
    <3>6. ScanStarts(x, 4, <<>>)
      BY <3>1, <3>3, <3>4, <3>5 DEF ScanStarts
    <3>. QED  BY <2>3, <3>1, <3>6
  <2>6. CASE Takes(x)
    <3> DEFINE k == LengthAt(x, 1)
               q == SubSeq(x, 1, k)
    <3>1. k \in 1 .. Len(x) /\ q \in Fitting /\ Moves(x, <<q>>, From(x, k + 1))
      BY <2>6, TakeMoves
    <3>2. Len(x) \in Nat /\ Len(x) > 3 /\ ~Garbage(x, 1)
      BY <2>6, BytesHaveLength DEF Takes
    <3>3. ~(1 + 3 > Len(x)) /\ 1 + k <= Len(x) + 1 /\ 1 + k - 1 = k /\ 1 + k = k + 1
      BY ONLY <3>1, <3>2
    <3>4. Scan(x, 1, First) = [next |-> 1 + k, pkts |-> Append(<<>>, SubSeq(x, 1, 1 + k - 1))]
      BY <3>2, <3>3 DEF Scan, First
    <3>5. Scan(x, 1, First) = [next |-> k + 1, pkts |-> Append(<<>>, q)]
      BY <3>3, <3>4
    <3>. HIDE DEF q, k
    <3>6. Append(<<>>, q) = <<q>> /\ <<q>> \in Seq(Bytes)
      BY <3>1, WholeFits
    <3>7. ScanStarts(x, k, <<q>>)
      BY <3>1, <3>5, <3>6 DEF ScanStarts
    <3>. QED  BY <2>3, <3>1, <3>7
  <2>. QED  BY <2>4, <2>5, <2>6, Outcomes
<1>2. Nat \subseteq T
  <2>. HIDE DEF T
  <2>. QED  BY <1>1, StrongInduction
<1>3. Len(d) \in T
  BY <1>2, BytesHaveLength
<1>. QED  BY <1>3

-------------------------------------------------------------------------------
(* The connection: the invariant.                                          *)

Read    == SubSeq(stream, 1, position)
Waiting == Slice(remaining).pkts

TypeInv ==
    /\ stream \in Bytes /\ position \in 0 .. Len(stream) /\ remaining \in Bytes
    /\ handed \in Seq(Bytes) /\ gathered \in Seq(Bytes) /\ lost \in Seq(Bytes)
    /\ setup \in BOOLEAN /\ closed \in BOOLEAN

\* How many of the packets in s are in S.
Times(s, S) == Len(Only(s, S))

\* What was deferred waits in front of the bytes that are no packet yet; as many
\* packets of each kind as arrived were handed over, gathered, lost or wait.
WaitingInv ==
    /\ Waiting \in Seq(Whole)
    /\ remaining = Joined(Waiting) \o Slice(Read).rest
    /\ \A S : Times(Arrived, S) = Times(handed, S) + Times(gathered, S)
                                     + Times(lost, S) + Times(Waiting, S)

SlicerInv == TypeInv /\ (~closed => WaitingInv)

LEMMA OnlyBoth ==
  \A X : \A s \in Seq(X) : \A S, R : Only(Only(s, S), R) = Only(s, S \intersect R)
BY OnlyOfOnly

LEMMA JoinedType ==
  ASSUME NEW X, NEW s \in Seq(Seq(X))
  PROVE  Joined(s) \in Seq(X)
<1>1. PICK f : TakesJoined(f, s, X)
  BY JoinedSteps
<1>. QED  BY <1>1, LenProperties DEF TakesJoined

LEMMA NothingRead ==
  Slice(<<>>) = Start(<<>>) /\ PacketsOf(<<>>) = <<>> /\ <<>> \in Bytes
<1>1. <<>> \in Bytes /\ Len(<<>>) = 0
  BY EmptySeq DEF Bytes
<1>2. Ended(<<>>)
  BY <1>1 DEF Ended
<1>. QED  BY <1>1, <1>2, SliceEnded, PacketsOfEnded

LEMMA InitSlicerInv ==
  ASSUME Init
  PROVE  SlicerInv
<1>1. /\ position = 0 /\ remaining = <<>> /\ handed = <<>> /\ setup = TRUE /\ closed = FALSE
      /\ gathered = <<>> /\ lost = <<>>
      /\ stream \in {Joined(s) : s \in BoundedSeq(Units, MaxUnits)}
  BY DEF Init
<1>2. stream \in Bytes
  <2>1. PICK s \in BoundedSeq(Units, MaxUnits) : stream = Joined(s)
    BY <1>1
  <2>2. PICK m \in 0 .. MaxUnits : s \in [1 .. m -> Units]
    BY DEF BoundedSeq, SeqOf
  <2>3. m \in Nat
    BY SlicerAssumption
  <2>4. s \in Seq(Units)
    BY ONLY <2>2, <2>3, SeqDef
  <2>5. s \in Seq(Seq(0 .. 255))
    BY ONLY <2>4, SlicerAssumption, SeqMonotonic
  <2>. QED  BY <2>1, <2>5, JoinedType DEF Bytes
<1>3. <<>> \in Bytes /\ <<>> \in Seq(Bytes) /\ <<>> \in Seq(Whole)
  BY NothingRead, EmptySeq
<1>4. TypeInv
  <2>1. Len(stream) \in Nat
    BY <1>2, BytesHaveLength
  <2>2. position \in 0 .. Len(stream)
    BY ONLY <1>1, <2>1
  <2>. QED  BY ONLY <1>1, <1>2, <1>3, <2>2 DEF TypeInv
<1>5. Read = <<>>
  <2>1. position = 0 /\ 0 \in Int /\ 1 \in Int /\ 0 < 1
    BY <1>1
  <2>. QED  BY ONLY <2>1, SubSeqEmpty DEF Read
<1>6. Arrived = <<>> /\ Waiting = <<>> /\ Slice(Read).rest = <<>>
  <2>1. Arrived = PacketsOf(Read)
    BY DEF Arrived, Read
  <2>2. Start(<<>>).pkts = <<>> /\ Start(<<>>).rest = <<>>
    BY DEF Start
  <2>. QED  BY ONLY <1>1, <1>5, <2>1, <2>2, NothingRead DEF Waiting
<1>7. WaitingInv
  <2>1. Joined(<<>>) = <<>> /\ <<>> \o <<>> = <<>>
    BY JoinedEmpty
  <2>2. ASSUME NEW S PROVE Times(<<>>, S) = 0 /\ 0 + 0 + 0 + 0 = 0
    BY OnlyEmpty DEF Times
  <2>. QED  BY ONLY <1>1, <1>3, <1>6, <2>1, <2>2 DEF WaitingInv
<1>. QED  BY <1>1, <1>4, <1>7 DEF SlicerInv

\* The batch, by what waits and what is read.
LEMMA BatchOfRead ==
  ASSUME NEW n \in 1 .. Len(stream) - position, TypeInv, WaitingInv
  PROVE  LET new  == SubSeq(stream, position + 1, position + n)
             next == Slice(Slice(Read).rest \o new)
         IN  /\ new \in Bytes /\ position + n \in 0 .. Len(stream)
             /\ SubSeq(stream, 1, position + n) = Read \o new
             /\ Read \in Bytes /\ next \in Slicings /\ Waiting \in Seq(Fitting)
             /\ Sliced(n) = After(Waiting, next)
             /\ Slice(Read \o new) = After(Slice(Read).pkts, next)
<1> DEFINE new == SubSeq(stream, position + 1, position + n)
           r == Slice(Read).rest
<1>1. stream \in Bytes /\ position \in 0 .. Len(stream) /\ Len(stream) \in Nat
  BY BytesHaveLength DEF TypeInv
<1>2. new \in Bytes
  <2>1. /\ position + 1 \in Nat \ {0} /\ n \in Nat /\ (position + 1) + n <= Len(stream) + 1
        /\ (position + 1) + n - 1 = position + n
    BY <1>1
  <2>. QED  BY <1>1, <2>1, SubBytes
<1>3. Read \in Bytes
  BY <1>1, Parts DEF Read
<1>4. position + n \in 0 .. Len(stream) /\ SubSeq(stream, 1, position + n) = Read \o new
  <2>1. /\ 1 \in 1 .. Len(stream) + 1 /\ position \in 0 .. Len(stream)
        /\ position + n \in position .. Len(stream) /\ position + n \in 0 .. Len(stream)
        /\ 1 - 1 = 0
    BY <1>1
  <2>2. SubSeq(stream, 1, position + n) = SubSeq(stream, 1, position) \o new
    BY <1>1, <2>1, ConcatAdjacentSubSeq DEF Bytes
  <2>. QED  BY <2>1, <2>2 DEF Read
<1>. HIDE DEF new
<1>5. r \in Bytes /\ Slice(Read) \in Slicings
  BY <1>3, SliceEnds DEF Slicings
<1>. HIDE DEF r
<1>6. r \o new \in Bytes
  BY <1>2, <1>5, JoinedBytes
<1>7. Slice(r \o new) \in Slicings
  BY <1>6, SliceEnds
<1>8. Waiting \in Seq(Whole) /\ Waiting \in Seq(Fitting)
  BY WholeFits, SeqMonotonic DEF WaitingInv
<1>9. Sliced(n) = After(Waiting, Slice(r \o new))
  <2>1. remaining = Joined(Waiting) \o r
    BY DEF WaitingInv, r
  <2>2. Joined(Waiting) \in Bytes
    BY <1>5, <1>8, SliceOfWaiting
  <2>3. (Joined(Waiting) \o r) \o new = Joined(Waiting) \o (r \o new)
    BY <1>2, <1>5, <2>2, BytesJoin, Zenon
  <2>4. Slice(Joined(Waiting) \o (r \o new)) = After(Waiting, Slice(r \o new))
    BY <1>6, <1>8, SliceOfWaiting
  <2>. QED  BY ONLY <2>1, <2>3, <2>4 DEF Sliced, new
<1>10. Slice(Read \o new) = After(Slice(Read).pkts, Slice(r \o new))
  BY <1>2, <1>3, SliceOfJoined DEF SlicedInParts, r
<1>. QED  BY <1>2, <1>3, <1>4, <1>7, <1>8, <1>9, <1>10 DEF new, r

\* What can be read of a batch is the front of its packets, all of them whole.
LEMMA ReadableOfBatch ==
  ASSUME NEW s \in Slicings
  PROVE  /\ Readable(s.pkts) \in Seq(Fitting)
         /\ Len(Readable(s.pkts)) <= Len(s.pkts)
         /\ Readable(s.pkts) = s.pkts => s.pkts \in Seq(Whole)
<1> DEFINE p == s.pkts
           refused == {i \in DOMAIN p : ~Unpackable(p[i])}
<1>1. /\ p \in Seq(Fitting) /\ Len(p) \in Nat /\ DOMAIN p = 1 .. Len(p)
      /\ \A i \in 1 .. Len(p) : p[i] \in Fitting
  BY LenProperties, ElementOfSeq DEF Slicings
<1>2. Readable(p) = IF refused = {} THEN p ELSE SubSeq(p, 1, Min(refused) - 1)
  BY DEF Readable
<1>4. CASE refused = {}
  <2>1. ASSUME NEW i \in 1 .. Len(p) PROVE p[i] \in Whole
    <3>1. p[i] \in Fitting /\ Unpackable(p[i])
      BY <1>1, <1>4
    <3>2. p[i] \in Bytes /\ Len(p[i]) \in Nat /\ Len(p[i]) > 3
      BY <3>1, WholeFits, BytesHaveLength DEF Unpackable
    <3>. QED  BY <3>1, <3>2 DEF Fitting, Whole
  <2>2. p \in Seq(Whole)
    BY <1>1, <2>1, LenProperties, SeqDef
  <2>. QED  BY <1>1, <1>2, <1>4, <2>2
<1>5. CASE refused # {}
  <2> DEFINE m == Min(refused)
  <2>1. m \in 1 .. Len(p)
    <3>1. refused \in SUBSET Nat
      BY <1>1
    <3>2. \E x \in refused : \A y \in refused : x <= y
      <4>. HIDE DEF refused
      <4>. QED  BY <1>5, <3>1, LeastNumber
    <3>3. m \in refused
      <4>. HIDE DEF refused
      <4>. QED  BY <3>2 DEF Min
    <3>. QED  BY <1>1, <3>3
  <2>. HIDE DEF m
  <2>2. SubSeq(p, 1, m - 1) \in Seq(Fitting) /\ Len(SubSeq(p, 1, m - 1)) = m - 1
    <3>. HIDE DEF p, refused
    <3>1. 1 \in Int /\ m - 1 \in Int /\ \A i \in 1 .. m - 1 : p[i] \in Fitting
      BY <1>1, <2>1
    <3>2. SubSeq(p, 1, m - 1) \in Seq(Fitting)
      BY <3>1, SubSeqProperties
    <3>. QED  BY <1>1, <2>1, <3>2, PrefixSteps
  <2>3. Readable(p) = SubSeq(p, 1, m - 1)
    BY <1>2, <1>5 DEF m
  <2>. QED  BY <1>1, <2>1, <2>2, <2>3
<1>. QED  BY <1>4, <1>5

\* Sequences of packets one behind the other, and how often packets are in them.
Packets == Seq(Bytes)
Then(a, b) == a \o b

LEMMA PacketAlgebra ==
  /\ <<>> \in Packets
  /\ \A a \in Packets : Then(a, <<>>) = a /\ Then(<<>>, a) = a
  /\ \A a, b \in Packets : Then(a, b) \in Packets
  /\ \A a \in Packets : \A S : Only(a, S) \in Packets
<1>1. <<>> \in Packets
  BY EmptySeq DEF Packets
<1>2. ASSUME NEW a \in Packets PROVE Then(a, <<>>) = a /\ Then(<<>>, a) = a
  BY ConcatEmptySeq DEF Packets, Then
<1>3. ASSUME NEW a \in Packets, NEW b \in Packets PROVE Then(a, b) \in Packets
  BY ConcatProperties DEF Packets, Then
<1>4. ASSUME NEW a \in Packets, NEW S PROVE Only(a, S) \in Packets
  BY OnlyType DEF Packets
<1>. QED  BY <1>1, <1>2, <1>3, <1>4

LEMMA TimesAdd ==
  /\ \A S : Times(<<>>, S) = 0
  /\ \A a \in Packets : \A S : Times(a, S) \in Nat
  /\ \A a, b \in Packets : \A S : Times(Then(a, b), S) = Times(a, S) + Times(b, S)
<1>1. ASSUME NEW S PROVE Times(<<>>, S) = 0
  BY OnlyEmpty DEF Times
<1>2. ASSUME NEW a \in Packets, NEW S PROVE Times(a, S) \in Nat
  BY PacketAlgebra, LenProperties DEF Times, Packets
<1>3. ASSUME NEW a \in Packets, NEW b \in Packets, NEW S
      PROVE  Times(Then(a, b), S) = Times(a, S) + Times(b, S)
  <2>1. Only(a \o b, S) = Only(a, S) \o Only(b, S)
    BY OnlyOfJoined DEF Packets
  <2>2. Only(a, S) \in Seq(Bytes) /\ Only(b, S) \in Seq(Bytes)
    BY OnlyType DEF Packets
  <2>3. Len(Only(a, S) \o Only(b, S)) = Len(Only(a, S)) + Len(Only(b, S))
    BY <2>2, ConcatProperties
  <2>. QED  BY <2>1, <2>3 DEF Times, Then
<1>. QED  BY <1>1, <1>2, <1>3

\* Taking the packets of D out of a sequence, and the others.
LEMMA TimesSorted ==
  ASSUME NEW s \in Packets, NEW D, NEW S
  PROVE  Times(s, S) = Times(Only(s, D), S) + Times(Only(s, Bytes \ D), S)
<1> DEFINE t == Only(s, S)
<1>1. t \in Seq(Bytes) /\ s \in Seq(Bytes)
  BY OnlyType DEF Packets
<1>2. Len(t) = Len(Only(t, D)) + Len(Only(t, Bytes \ D))
  <2>. HIDE DEF t
  <2>. QED  BY <1>1, OnlyAndTheRest
<1>3. \A A, B : Only(Only(s, A), B) = Only(s, A \intersect B)
  BY <1>1, OnlyBoth, ZenonT(60)
<1>4. Only(t, D) = Only(Only(s, D), S) /\ Only(t, Bytes \ D) = Only(Only(s, Bytes \ D), S)
  <2>1. /\ S \intersect D = D \intersect S
        /\ S \intersect (Bytes \ D) = (Bytes \ D) \intersect S
    OBVIOUS
  <2>2. Only(Only(s, S), D) = Only(s, S \intersect D)
    BY ONLY <1>3
  <2>3. Only(Only(s, D), S) = Only(s, D \intersect S)
    BY ONLY <1>3
  <2>4. Only(Only(s, S), Bytes \ D) = Only(s, S \intersect (Bytes \ D))
    BY ONLY <1>3
  <2>5. Only(Only(s, Bytes \ D), S) = Only(s, (Bytes \ D) \intersect S)
    BY ONLY <1>3
  <2>. QED  BY <2>1, <2>2, <2>3, <2>4, <2>5, Zenon DEF t
<1>5. Times(s, S) = Len(t)
  BY DEF Times
<1>6. /\ Times(Only(s, D), S) = Len(Only(t, D))
      /\ Times(Only(s, Bytes \ D), S) = Len(Only(t, Bytes \ D))
  <2>. HIDE DEF t
  <2>. QED  BY <1>4 DEF Times
<1>. HIDE DEF t
<1>. QED  BY ONLY <1>2, <1>5, <1>6

\* The first i of the packets and those behind them.
LEMMA TimesOfParts ==
  ASSUME NEW s \in Packets, NEW i \in 0 .. Len(s)
  PROVE  /\ SubSeq(s, 1, i) \in Packets /\ SubSeq(s, i + 1, Len(s)) \in Packets
         /\ Len(SubSeq(s, 1, i)) = i
         /\ s = Then(SubSeq(s, 1, i), SubSeq(s, i + 1, Len(s)))
<1>1. s \in Seq(Bytes) /\ Len(s) \in Nat /\ \A j \in 1 .. Len(s) : s[j] \in Bytes
  <2>1. s \in Seq(Bytes) /\ Len(s) \in Nat
    BY LenProperties DEF Packets
  <2>. QED  BY ONLY <2>1, ElementOfSeq
<1>2. SubSeq(s, 1, i) \in Seq(Bytes) /\ Len(SubSeq(s, 1, i)) = i /\ SubSeq(s, 1, Len(s)) = s
  BY <1>1, PrefixSteps
<1>3. SubSeq(s, i + 1, Len(s)) \in Seq(Bytes)
  <2>1. i + 1 \in Int /\ Len(s) \in Int /\ \A j \in i + 1 .. Len(s) : s[j] \in Bytes
    BY <1>1
  <2>. QED  BY <2>1, SubSeqProperties
<1>4. SubSeq(s, 1, Len(s)) = SubSeq(s, 1, i) \o SubSeq(s, i + 1, Len(s))
  <2>1. 1 \in 1 .. Len(s) + 1 /\ i \in 1 - 1 .. Len(s) /\ Len(s) \in i .. Len(s)
    BY <1>1
  <2>. QED  BY ONLY <1>1, <2>1, ConcatAdjacentSubSeq
<1>. QED  BY <1>2, <1>3, <1>4, ZenonT(60) DEF Packets, Then

\* Taking one packet out of a sequence.
LEMMA TimesRemoved ==
  ASSUME NEW s \in Packets, NEW i \in 1 .. Len(s)
  PROVE  /\ RemoveAt(s, i) \in Packets /\ <<s[i]>> \in Packets
         /\ \A S : Times(s, S) = Times(<<s[i]>>, S) + Times(RemoveAt(s, i), S)
<1> DEFINE a == SubSeq(s, 1, i - 1)
           b == SubSeq(s, i + 1, Len(s))
           e == <<s[i]>>
<1>1. s \in Seq(Bytes) /\ Len(s) \in Nat /\ i - 1 \in 0 .. Len(s) - 1 /\ (i - 1) + 1 = i
      /\ i \in 0 .. Len(s) /\ i - 1 \in 0 .. Len(s)
  BY LenProperties DEF Packets
<1>2. SubSeq(s, 1, i) = Append(a, s[i]) /\ s[i] \in Bytes
  BY <1>1, PrefixSteps
<1>3. e \in Packets
  BY <1>2 DEF Packets
<1>4. a \in Packets /\ b \in Packets /\ s = Then(SubSeq(s, 1, i), b)
  BY <1>1, TimesOfParts
<1>5. SubSeq(s, 1, i) = Then(a, e)
  BY <1>2, <1>4, AppendIsConcat DEF Packets, Then
<1>6. RemoveAt(s, i) = Then(a, b)
  BY DEF RemoveAt, Then
<1>. HIDE DEF a, b, e
<1>7. Then(a, b) \in Packets /\ Then(a, e) \in Packets
  BY ONLY <1>3, <1>4, PacketAlgebra
<1>8. ASSUME NEW S PROVE Times(s, S) = Times(e, S) + Times(Then(a, b), S)
  <2>1. Times(s, S) = Times(Then(a, e), S) + Times(b, S)
    <3>1. s = Then(Then(a, e), b)
      BY <1>4, <1>5
    <3>. QED  BY ONLY <1>4, <1>7, <3>1, TimesAdd
  <2>2. /\ Times(Then(a, e), S) = Times(a, S) + Times(e, S)
        /\ Times(Then(a, b), S) = Times(a, S) + Times(b, S)
        /\ Times(a, S) \in Nat /\ Times(b, S) \in Nat /\ Times(e, S) \in Nat
    BY ONLY <1>3, <1>4, TimesAdd
  <2>. QED  BY ONLY <2>1, <2>2
<1>. QED  BY <1>3, <1>6, <1>7, <1>8 DEF e

\* Every packet of a batch is written back, handed over or gathered.
LEMMA BatchSorted ==
  ASSUME NEW s \in Packets, NEW k \in 0 .. Len(s)
  PROVE  /\ Kept(s, k) \in Packets /\ Direct(s, k) \in Packets /\ Gathered(s, k) \in Packets
         /\ \A S : Times(s, S) = Times(Direct(s, k), S) + Times(Gathered(s, k), S)
                                    + Times(Kept(s, k), S)
         /\ k = 0 => Kept(s, k) = <<>>
         /\ s \in Seq(Whole) => Kept(s, k) \in Seq(Whole)
<1> DEFINE D(d) == {p \in Bytes : Deferred(p, d)}
           a == SubSeq(s, 1, k)
           b == SubSeq(s, k + 1, Len(s))
<1>1. a \in Packets /\ b \in Packets /\ s = Then(a, b) /\ Len(a) = k
  BY TimesOfParts
<1>2. \A d : {p \in Bytes : ~Deferred(p, d)} = Bytes \ D(d)
  OBVIOUS
<1>3. /\ Kept(s, k) = Then(Only(a, D(TRUE)), Only(b, D(FALSE)))
      /\ Open(s, k) = Then(Only(a, Bytes \ D(TRUE)), Only(b, Bytes \ D(FALSE)))
      /\ Direct(s, k) = Only(Open(s, k), Bytes \ Multiparts)
      /\ Gathered(s, k) = Only(Open(s, k), Multiparts)
  BY <1>2 DEF Kept, Open, Direct, Gathered, Then
<1>4. D(FALSE) = {}
  BY DEF Deferred
<1>5. Only(b, D(FALSE)) = <<>>
  BY <1>1, <1>4, OnlyNone DEF Packets
<1>6. k = 0 => Kept(s, k) = <<>>
  <2>1. SUFFICES ASSUME k = 0 PROVE Only(a, D(TRUE)) = <<>>
    BY <1>3, <1>5, PacketAlgebra
  <2>2. a = <<>>
    BY <1>1, <2>1, EmptySeq DEF Packets
  <2>. HIDE DEF a, D
  <2>. QED  BY <2>2, OnlyEmpty
<1>7. s \in Seq(Whole) => Kept(s, k) \in Seq(Whole)
  <2>1. SUFFICES ASSUME s \in Seq(Whole) PROVE Kept(s, k) \in Seq(Whole)
    OBVIOUS
  <2>2. a \in Seq(Whole)
    BY <2>1, PrefixSteps
  <2>3. Only(a, D(TRUE)) \in Seq(Whole)
    <3>. HIDE DEF a, D
    <3>. QED  BY <2>2, OnlyType
  <2>4. Only(a, D(TRUE)) \in Packets
    BY ONLY <1>1, PacketAlgebra
  <2>5. Kept(s, k) = Only(a, D(TRUE))
    BY ONLY <1>3, <1>5, <2>4, PacketAlgebra
  <2>. QED  BY <2>3, <2>5
<1>. HIDE DEF a, b, D
<1>8. /\ Only(a, D(TRUE)) \in Packets /\ Only(b, D(FALSE)) \in Packets
      /\ Only(a, Bytes \ D(TRUE)) \in Packets /\ Only(b, Bytes \ D(FALSE)) \in Packets
  BY ONLY <1>1, PacketAlgebra
<1>9. Kept(s, k) \in Packets /\ Open(s, k) \in Packets
  BY ONLY <1>3, <1>8, PacketAlgebra
<1>10. Direct(s, k) \in Packets /\ Gathered(s, k) \in Packets
  BY ONLY <1>3, <1>9, PacketAlgebra
<1>11. ASSUME NEW S
       PROVE  Times(s, S) = Times(Direct(s, k), S) + Times(Gathered(s, k), S)
                               + Times(Kept(s, k), S)
  <2> DEFINE ka == Times(Only(a, D(TRUE)), S)
             kb == Times(Only(b, D(FALSE)), S)
             oa == Times(Only(a, Bytes \ D(TRUE)), S)
             ob == Times(Only(b, Bytes \ D(FALSE)), S)
             ga == Times(Gathered(s, k), S)
             di == Times(Direct(s, k), S)
  <2>1. Times(s, S) = Times(a, S) + Times(b, S)
    <3>1. Times(Then(a, b), S) = Times(a, S) + Times(b, S)
      BY ONLY <1>1, TimesAdd
    <3>. QED  BY <1>1, <3>1
  <2>2. \A q \in Packets : \A E :
           Times(q, S) = Times(Only(q, E), S) + Times(Only(q, Bytes \ E), S)
    BY TimesSorted
  <2>3. Times(a, S) = ka + oa
    BY ONLY <1>1, <2>2
  <2>4. Times(b, S) = kb + ob
    BY ONLY <1>1, <2>2
  <2>5. Times(Kept(s, k), S) = ka + kb
    <3>1. Times(Then(Only(a, D(TRUE)), Only(b, D(FALSE))), S) = ka + kb
      BY ONLY <1>8, TimesAdd
    <3>. QED  BY <1>3, <3>1, Zenon
  <2>6. Times(Open(s, k), S) = oa + ob
    <3>1. Times(Then(Only(a, Bytes \ D(TRUE)), Only(b, Bytes \ D(FALSE))), S) = oa + ob
      BY ONLY <1>8, TimesAdd
    <3>. QED  BY <1>3, <3>1, Zenon
  <2>7. Times(Open(s, k), S) = ga + di
    BY ONLY <1>3, <1>9, <2>2
  <2>8. ka \in Nat /\ kb \in Nat /\ oa \in Nat /\ ob \in Nat /\ ga \in Nat /\ di \in Nat
    BY ONLY <1>8, <1>10, TimesAdd
  <2>. HIDE DEF ka, kb, oa, ob, ga, di
  <2>9. (ka + oa) + (kb + ob) = di + ga + (ka + kb)
    BY ONLY <2>6, <2>7, <2>8
  <2>. QED  BY <2>1, <2>3, <2>4, <2>5, <2>9 DEF ga, di
<1>. QED  BY <1>6, <1>7, <1>9, <1>10, <1>11

\* What arrived with a read, and the packets of the batch.
LEMMA BatchCounts ==
  ASSUME NEW n \in 1 .. Len(stream) - position, TypeInv, WaitingInv,
         position' = position + n, stream' = stream
  PROVE  /\ Sliced(n) \in Slicings /\ Sliced(n).pkts \in Packets
         /\ Sliced(n).rest = Slice(Read').rest /\ Read' \in Bytes
         /\ position' \in 0 .. Len(stream)
         /\ \A S : Times(Arrived', S) = Times(handed, S) + Times(gathered, S)
                                           + Times(lost, S) + Times(Sliced(n).pkts, S)
<1> DEFINE new  == SubSeq(stream, position + 1, position + n)
           next == Slice(Slice(Read).rest \o new)
           w == Waiting
           N == next.pkts
           s == Sliced(n)
<1>1. /\ new \in Bytes /\ position + n \in 0 .. Len(stream)
      /\ SubSeq(stream, 1, position + n) = Read \o new
      /\ Read \in Bytes /\ next \in Slicings /\ w \in Seq(Fitting)
      /\ s = After(w, next)
      /\ Slice(Read \o new) = After(Slice(Read).pkts, next)
  BY BatchOfRead
<1>2. position' = position + n /\ stream' = stream
  OBVIOUS
<1>3. Read' = Read \o new
  BY <1>1, <1>2 DEF Read
<1>. HIDE DEF new, next, s, w
<1>4. s \in Slicings /\ s.pkts = w \o N /\ s.rest = next.rest
  <2>1. s \in Slicings
    BY <1>1, AfterType
  <2>. QED  BY <1>1, <2>1 DEF After
<1>5. Read' \in Bytes
  BY <1>1, <1>3, JoinedBytes
<1>6. s.rest = Slice(Read').rest
  BY <1>1, <1>3, <1>4 DEF After
<1>7. Arrived' = Then(Arrived, N) /\ s.pkts = Then(w, N)
  <2>1. Arrived = Slice(Read).pkts
    BY <1>1, PacketsAreSliced DEF Arrived, Read
  <2>2. Arrived' = PacketsOf(Read')
    BY DEF Arrived, Read
  <2>3. PacketsOf(Read') = Slice(Read').pkts
    BY <1>5, PacketsAreSliced
  <2>4. After(Slice(Read).pkts, next).pkts = Then(Slice(Read).pkts, N)
    BY DEF After, Then
  <2>5. Slice(Read').pkts = Then(Slice(Read).pkts, N)
    BY <1>1, <1>3, <2>4, Zenon
  <2>. QED  BY ONLY <1>4, <2>1, <2>2, <2>3, <2>5 DEF Then
<1>8. /\ w \in Packets /\ N \in Packets /\ Arrived \in Packets /\ s.pkts \in Packets
      /\ handed \in Packets /\ gathered \in Packets /\ lost \in Packets
  <2>1. \A u \in Seq(Fitting) : u \in Packets
    BY WholeFits, SeqMonotonic DEF Packets
  <2>2. N \in Seq(Fitting) /\ s.pkts \in Seq(Fitting)
    BY <1>1, <1>4 DEF Slicings
  <2>3. Arrived \in Seq(Fitting)
    BY <1>1, PacketsAreSliced, SliceEnds DEF Arrived, Read, Slicings
  <2>4. handed \in Packets /\ gathered \in Packets /\ lost \in Packets
    BY DEF TypeInv, Packets
  <2>. QED  BY <1>1, <2>1, <2>2, <2>3, <2>4, Zenon
<1>9. ASSUME NEW S
      PROVE  Times(Arrived', S) = Times(handed, S) + Times(gathered, S)
                                     + Times(lost, S) + Times(s.pkts, S)
  <2>1. /\ Times(Arrived', S) = Times(Arrived, S) + Times(N, S)
        /\ Times(s.pkts, S) = Times(w, S) + Times(N, S)
    <3>. HIDE DEF N
    <3>1. /\ Times(Then(Arrived, N), S) = Times(Arrived, S) + Times(N, S)
          /\ Times(Then(w, N), S) = Times(w, S) + Times(N, S)
      BY ONLY <1>8, TimesAdd
    <3>. QED  BY ONLY <1>7, <3>1
  <2>2. Times(Arrived, S) = Times(handed, S) + Times(gathered, S)
                               + Times(lost, S) + Times(w, S)
    BY DEF WaitingInv, w
  <2>3. /\ Times(handed, S) \in Nat /\ Times(gathered, S) \in Nat /\ Times(lost, S) \in Nat
        /\ Times(w, S) \in Nat /\ Times(N, S) \in Nat
    BY ONLY <1>8, TimesAdd
  <2>. QED  BY ONLY <2>1, <2>2, <2>3
<1>10. position' \in 0 .. Len(stream)
  BY <1>1, <1>2
<1>. QED  BY ONLY <1>4, <1>5, <1>6, <1>8, <1>9, <1>10 DEF s

\* What a step of a batch must do to keep the invariant.
KeepsCounts(n, kept) ==
    /\ kept \in Seq(Whole) /\ Sliced(n).rest \in Bytes
    /\ remaining' = Joined(kept) \o Sliced(n).rest
    /\ \A S : Times(Arrived', S) = Times(handed', S) + Times(gathered', S)
                                      + Times(lost', S) + Times(kept, S)

LEMMA CountsSuffice ==
  ASSUME NEW n, NEW kept, KeepsCounts(n, kept), Ended(Sliced(n).rest),
         Sliced(n).rest = Slice(Read').rest
  PROVE  WaitingInv' /\ remaining' \in Bytes /\ Slice(remaining').pkts = kept
<1> DEFINE r == Sliced(n).rest
<1>1. kept \in Seq(Whole) /\ r \in Bytes /\ remaining' = Joined(kept) \o r
  BY DEF KeepsCounts
<1>2. Slice(r) = Start(r)
  BY <1>1, SliceEnded
<1>. HIDE DEF r
<1>3. remaining' \in Bytes /\ Slice(remaining') = After(kept, Slice(r))
  BY <1>1, SliceOfWaiting
<1>4. Slice(remaining').pkts = kept
  <2>1. kept \in Packets
    BY <1>1, WholeFits, SeqMonotonic DEF Packets
  <2>2. After(kept, Start(r)).pkts = Then(kept, <<>>)
    BY DEF After, Start, Then
  <2>3. Then(kept, <<>>) = kept
    BY ONLY <2>1, PacketAlgebra
  <2>. QED  BY ONLY <1>2, <1>3, <2>2, <2>3
<1>5. Waiting' = kept
  BY <1>4 DEF Waiting
<1>6. WaitingInv'
  <2>1. \A S : Times(Arrived', S) = Times(handed', S) + Times(gathered', S)
                                       + Times(lost', S) + Times(Waiting', S)
    BY <1>5 DEF KeepsCounts
  <2>2. remaining' = Joined(Waiting') \o Slice(Read').rest
    BY <1>1, <1>5 DEF r
  <2>. QED  BY <1>1, <1>5, <2>1, <2>2 DEF WaitingInv
<1>. QED  BY <1>3, <1>4, <1>6

\* A read keeps the invariant, and after the setup nothing waits.
LEMMA RawInKeeps ==
  ASSUME NEW n \in 1 .. Len(stream) - position, NEW k \in Nat,
         TypeInv, WaitingInv, OnRawIn(n, k)
  PROVE  /\ SlicerInv'
         /\ ~setup /\ ~closed' => Slice(remaining').pkts = <<>>
<1> DEFINE s == Sliced(n)
           p == Readable(s.pkts)
           refused == p # s.pkts
<1>1. /\ k \in 0 .. Len(p) /\ (~setup => k = 0)
      /\ setup' = (setup /\ k = Len(p)) /\ closed' = refused
      /\ handed' = Then(handed, Direct(p, k))
      /\ gathered' = IF refused THEN gathered ELSE Then(gathered, Gathered(p, k))
      /\ remaining' = IF refused THEN s.rest ELSE Joined(Kept(p, k)) \o s.rest
      /\ position' = position + n /\ stream' = stream /\ lost' = lost
  BY DEF OnRawIn, SetupEndsAfter, Then
<1>2. /\ s \in Slicings /\ s.pkts \in Packets /\ s.rest = Slice(Read').rest
      /\ Read' \in Bytes /\ position' \in 0 .. Len(stream)
      /\ \A S : Times(Arrived', S) = Times(handed, S) + Times(gathered, S)
                                        + Times(lost, S) + Times(s.pkts, S)
  BY <1>1, BatchCounts
<1>3. p \in Seq(Fitting) /\ (p = s.pkts => p \in Seq(Whole))
  BY <1>2, ReadableOfBatch
<1>4. stream \in Bytes /\ handed \in Packets /\ gathered \in Packets /\ lost \in Packets
  BY DEF TypeInv, Packets
<1>5. s.rest \in Bytes /\ Ended(s.rest)
  BY <1>2, SliceEnds DEF Slicings
<1>6. p \in Packets
  BY <1>3, WholeFits, SeqMonotonic DEF Packets
<1>. HIDE DEF s, p
<1>7. /\ Kept(p, k) \in Packets /\ Direct(p, k) \in Packets /\ Gathered(p, k) \in Packets
      /\ \A S : Times(p, S) = Times(Direct(p, k), S) + Times(Gathered(p, k), S)
                                 + Times(Kept(p, k), S)
      /\ k = 0 => Kept(p, k) = <<>>
      /\ p \in Seq(Whole) => Kept(p, k) \in Seq(Whole)
  BY <1>1, <1>6, BatchSorted
<1>8. handed' \in Packets /\ gathered' \in Packets /\ lost' \in Packets
  BY ONLY <1>1, <1>4, <1>7, PacketAlgebra
<1>9. remaining' \in Bytes => TypeInv'
  BY <1>1, <1>2, <1>4, <1>8 DEF TypeInv, Packets
<1>10. CASE refused
  <2>1. closed' /\ remaining' \in Bytes
    BY <1>1, <1>5, <1>10
  <2>. QED  BY <1>9, <2>1 DEF SlicerInv
<1>11. CASE ~refused
  <2>1. /\ p = s.pkts /\ p \in Seq(Whole) /\ closed' = FALSE
        /\ gathered' = Then(gathered, Gathered(p, k))
        /\ remaining' = Joined(Kept(p, k)) \o s.rest
    BY <1>1, <1>3, <1>11
  <2>2. ASSUME NEW S
        PROVE  Times(Arrived', S) = Times(handed', S) + Times(gathered', S)
                                       + Times(lost', S) + Times(Kept(p, k), S)
    <3>1. /\ Times(handed', S) = Times(handed, S) + Times(Direct(p, k), S)
          /\ Times(gathered', S) = Times(gathered, S) + Times(Gathered(p, k), S)
          /\ Times(lost', S) = Times(lost, S)
      BY ONLY <1>1, <1>4, <1>7, <2>1, TimesAdd
    <3>2. /\ Times(handed, S) \in Nat /\ Times(gathered, S) \in Nat /\ Times(lost, S) \in Nat
          /\ Times(Direct(p, k), S) \in Nat /\ Times(Gathered(p, k), S) \in Nat
          /\ Times(Kept(p, k), S) \in Nat
      BY ONLY <1>4, <1>7, TimesAdd
    <3>3. Times(s.pkts, S) = Times(Direct(p, k), S) + Times(Gathered(p, k), S)
                                + Times(Kept(p, k), S)
      BY ONLY <1>7, <2>1
    <3>4. Times(Arrived', S) = Times(handed, S) + Times(gathered, S)
                                  + Times(lost, S) + Times(s.pkts, S)
      BY <1>2
    <3>. QED  BY ONLY <3>1, <3>2, <3>3, <3>4
  <2>3. KeepsCounts(n, Kept(p, k))
    BY <1>5, <1>7, <2>1, <2>2 DEF KeepsCounts, s
  <2>4. WaitingInv' /\ remaining' \in Bytes /\ Slice(remaining').pkts = Kept(p, k)
    <3>1. Ended(Sliced(n).rest) /\ Sliced(n).rest = Slice(Read').rest
      BY <1>2, <1>5 DEF s
    <3>. QED  BY <2>3, <3>1, CountsSuffice
  <2>5. ~setup => Slice(remaining').pkts = <<>>
    BY <1>1, <1>7, <2>4
  <2>. QED  BY <1>9, <2>1, <2>4, <2>5 DEF SlicerInv
<1>. QED  BY <1>10, <1>11

\* So does one in which a handler raises: what it loses is lost once.
LEMMA RouteRaisesKeeps ==
  ASSUME NEW n \in 1 .. Len(stream) - position, NEW k \in Nat, NEW i,
         TypeInv, WaitingInv, RouteRaises(n, k, i)
  PROVE  /\ SlicerInv'
         /\ Slice(remaining').pkts = <<>>
<1> DEFINE s == Sliced(n)
           done == SubSeq(s.pkts, 1, i)
           back == SubSeq(s.pkts, i + 1, Len(s.pkts))
<1>1. /\ i \in DOMAIN Readable(s.pkts) /\ k \in 0 .. i - 1
      /\ setup' = FALSE /\ closed' = closed /\ gathered' = gathered
      /\ handed' = Then(handed, Direct(done, k))
      /\ lost' = Then(Then(Then(lost, Gathered(done, k)), Kept(done, k)), back)
      /\ remaining' = s.rest /\ position' = position + n /\ stream' = stream
  BY DEF RouteRaises, Then
<1>2. /\ s \in Slicings /\ s.pkts \in Packets /\ s.rest = Slice(Read').rest
      /\ Read' \in Bytes /\ position' \in 0 .. Len(stream)
      /\ \A S : Times(Arrived', S) = Times(handed, S) + Times(gathered, S)
                                        + Times(lost, S) + Times(s.pkts, S)
  BY <1>1, BatchCounts
<1>3. i \in 0 .. Len(s.pkts) /\ k \in 0 .. i
  <2>1. Readable(s.pkts) \in Seq(Fitting) /\ Len(Readable(s.pkts)) <= Len(s.pkts)
    BY <1>2, ReadableOfBatch
  <2>2. /\ DOMAIN Readable(s.pkts) = 1 .. Len(Readable(s.pkts))
        /\ Len(Readable(s.pkts)) \in Nat /\ Len(s.pkts) \in Nat
    BY <1>2, <2>1, LenProperties DEF Packets
  <2>. QED  BY ONLY <1>1, <2>1, <2>2
<1>4. stream \in Bytes /\ handed \in Packets /\ gathered \in Packets /\ lost \in Packets
  BY DEF TypeInv, Packets
<1>5. s.rest \in Bytes /\ Ended(s.rest)
  BY <1>2, SliceEnds DEF Slicings
<1>6. /\ done \in Packets /\ back \in Packets /\ Len(done) = i
      /\ s.pkts = Then(done, back)
  <2>. HIDE DEF s
  <2>. QED  BY <1>2, <1>3, TimesOfParts
<1>. HIDE DEF s, done, back
<1>7. /\ Kept(done, k) \in Packets /\ Direct(done, k) \in Packets
      /\ Gathered(done, k) \in Packets
      /\ \A S : Times(done, S) = Times(Direct(done, k), S) + Times(Gathered(done, k), S)
                                    + Times(Kept(done, k), S)
  BY <1>3, <1>6, BatchSorted
<1>8. /\ handed' \in Packets /\ gathered' \in Packets /\ lost' \in Packets
      /\ Then(lost, Gathered(done, k)) \in Packets
      /\ Then(Then(lost, Gathered(done, k)), Kept(done, k)) \in Packets
  BY ONLY <1>1, <1>4, <1>6, <1>7, PacketAlgebra
<1>9. ASSUME NEW S
      PROVE  Times(Arrived', S) = Times(handed', S) + Times(gathered', S)
                                     + Times(lost', S) + Times(<<>>, S)
  <2>1. /\ Times(handed', S) = Times(handed, S) + Times(Direct(done, k), S)
        /\ Times(gathered', S) = Times(gathered, S)
        /\ Times(<<>>, S) = 0
    BY ONLY <1>1, <1>4, <1>7, TimesAdd
  <2>2. /\ Times(lost', S) = Times(Then(Then(lost, Gathered(done, k)), Kept(done, k)), S)
                                + Times(back, S)
        /\ Times(Then(Then(lost, Gathered(done, k)), Kept(done, k)), S)
              = Times(Then(lost, Gathered(done, k)), S) + Times(Kept(done, k), S)
        /\ Times(Then(lost, Gathered(done, k)), S)
              = Times(lost, S) + Times(Gathered(done, k), S)
    BY ONLY <1>1, <1>4, <1>6, <1>7, <1>8, TimesAdd
  <2>3. /\ Times(handed, S) \in Nat /\ Times(gathered, S) \in Nat /\ Times(lost, S) \in Nat
        /\ Times(Direct(done, k), S) \in Nat /\ Times(Gathered(done, k), S) \in Nat
        /\ Times(Kept(done, k), S) \in Nat /\ Times(back, S) \in Nat
    BY ONLY <1>4, <1>6, <1>7, TimesAdd
  <2>4. Times(s.pkts, S) = Times(done, S) + Times(back, S)
    BY ONLY <1>6, TimesAdd
  <2>5. Times(done, S) = Times(Direct(done, k), S) + Times(Gathered(done, k), S)
                            + Times(Kept(done, k), S)
    BY <1>7
  <2>6. Times(Arrived', S) = Times(handed, S) + Times(gathered, S)
                                + Times(lost, S) + Times(s.pkts, S)
    BY <1>2
  <2>7. /\ Times(done, S) \in Nat /\ Times(s.pkts, S) \in Nat
        /\ Times(Then(lost, Gathered(done, k)), S) \in Nat
        /\ Times(Then(Then(lost, Gathered(done, k)), Kept(done, k)), S) \in Nat
    BY ONLY <1>2, <1>6, <1>8, TimesAdd
  <2>8. Times(lost', S) = Times(lost, S) + Times(Gathered(done, k), S)
                             + Times(Kept(done, k), S) + Times(back, S)
    BY ONLY <2>2
  <2>9. Times(s.pkts, S) = Times(Direct(done, k), S) + Times(Gathered(done, k), S)
                              + Times(Kept(done, k), S) + Times(back, S)
    BY ONLY <2>4, <2>5
  <2>10. Times(handed, S) + Times(gathered, S) + Times(lost, S)
            + (Times(Direct(done, k), S) + Times(Gathered(done, k), S)
                  + Times(Kept(done, k), S) + Times(back, S))
         = (Times(handed, S) + Times(Direct(done, k), S)) + Times(gathered, S)
            + (Times(lost, S) + Times(Gathered(done, k), S) + Times(Kept(done, k), S)
                  + Times(back, S)) + 0
    <3>. DEFINE h == Times(handed, S)
                g == Times(gathered, S)
                l == Times(lost, S)
                d == Times(Direct(done, k), S)
                a == Times(Gathered(done, k), S)
                q == Times(Kept(done, k), S)
                b == Times(back, S)
    <3>1. h \in Nat /\ g \in Nat /\ l \in Nat /\ d \in Nat /\ a \in Nat /\ q \in Nat
            /\ b \in Nat
      BY ONLY <2>3
    <3>. HIDE DEF h, g, l, d, a, q, b
    <3>2. h + g + l + (d + a + q + b) = (h + d) + g + (l + a + q + b) + 0
      BY ONLY <3>1
    <3>. QED  BY ONLY <3>2 DEF h, g, l, d, a, q, b
  <2>. QED  BY <2>1, <2>6, <2>8, <2>9, <2>10, Zenon
<1>10. KeepsCounts(n, <<>>)
  <2>1. <<>> \in Seq(Whole) /\ Joined(<<>>) \o s.rest = s.rest
    <3>1. Joined(<<>>) = <<>> /\ <<>> \o s.rest = s.rest
      BY <1>5, JoinedEmpty, ConcatEmptySeq DEF Bytes
    <3>. QED  BY <3>1, EmptySeq
  <2>. QED  BY <1>1, <1>5, <1>9, <2>1 DEF KeepsCounts, s
<1>11. WaitingInv' /\ remaining' \in Bytes /\ Slice(remaining').pkts = <<>>
  <2>1. Ended(Sliced(n).rest) /\ Sliced(n).rest = Slice(Read').rest
    BY <1>2, <1>5 DEF s
  <2>. QED  BY <1>10, <2>1, CountsSuffice
<1>12. TypeInv'
  <2>1. closed \in BOOLEAN
    BY DEF TypeInv
  <2>. QED  BY <1>1, <1>2, <1>4, <1>8, <1>11, <2>1 DEF TypeInv, Packets
<1>. QED  BY <1>11, <1>12 DEF SlicerInv

\* And a gathered reply that is handed over or lost.
LEMMA MultipartKeeps ==
  ASSUME NEW i \in DOMAIN gathered, HandleMultipart(i) \/ ProcessRaises(i),
         TypeInv, WaitingInv
  PROVE  SlicerInv'
<1> DEFINE e == <<gathered[i]>>
<1>1. /\ stream' = stream /\ position' = position /\ remaining' = remaining
      /\ setup' = setup /\ closed' = closed /\ gathered' = RemoveAt(gathered, i)
  BY DEF HandleMultipart, ProcessRaises
<1>2. /\ handed \in Packets /\ gathered \in Packets /\ lost \in Packets
      /\ i \in 1 .. Len(gathered)
  BY LenProperties DEF TypeInv, Packets
<1>3. /\ gathered' \in Packets /\ e \in Packets
      /\ \A S : Times(gathered, S) = Times(e, S) + Times(gathered', S)
  BY <1>1, <1>2, TimesRemoved
<1>4. \/ handed' = Then(handed, e) /\ lost' = lost
      \/ handed' = handed /\ lost' = Then(lost, e)
  <2>1. gathered[i] \in Bytes
    BY <1>2, ElementOfSeq DEF Packets
  <2>2. /\ Append(handed, gathered[i]) = handed \o e
        /\ Append(lost, gathered[i]) = lost \o e
    BY <1>2, <2>1, AppendIsConcat DEF Packets
  <2>. QED  BY <2>2 DEF HandleMultipart, ProcessRaises, Then
<1>. HIDE DEF e
<1>5. handed' \in Packets /\ lost' \in Packets
  BY ONLY <1>2, <1>3, <1>4, PacketAlgebra
<1>6. TypeInv'
  BY <1>1, <1>3, <1>5 DEF TypeInv, Packets
<1>7. Arrived' = Arrived /\ Read' = Read /\ Waiting' = Waiting
  BY <1>1 DEF Arrived, Read, Waiting
<1>8. ASSUME NEW S
      PROVE  Times(Arrived', S) = Times(handed', S) + Times(gathered', S)
                                     + Times(lost', S) + Times(Waiting', S)
  <2>1. Times(Arrived', S) = Times(handed, S) + Times(gathered, S)
                                + Times(lost, S) + Times(Waiting', S)
    BY <1>7 DEF WaitingInv
  <2>2. Times(gathered, S) = Times(e, S) + Times(gathered', S)
    BY <1>3
  <2>3. Times(handed', S) + Times(lost', S) = Times(handed, S) + Times(lost, S) + Times(e, S)
    <3>1. \/ /\ Times(handed', S) = Times(handed, S) + Times(e, S)
             /\ Times(lost', S) = Times(lost, S)
          \/ /\ Times(handed', S) = Times(handed, S)
             /\ Times(lost', S) = Times(lost, S) + Times(e, S)
      <4>1. /\ Times(Then(handed, e), S) = Times(handed, S) + Times(e, S)
            /\ Times(Then(lost, e), S) = Times(lost, S) + Times(e, S)
        BY ONLY <1>2, <1>3, TimesAdd
      <4>. QED  BY ONLY <1>4, <4>1
    <3>2. Times(handed, S) \in Nat /\ Times(lost, S) \in Nat /\ Times(e, S) \in Nat
      BY ONLY <1>2, <1>3, TimesAdd
    <3>. QED  BY ONLY <3>1, <3>2
  <2>4. /\ Times(handed, S) \in Nat /\ Times(lost, S) \in Nat /\ Times(e, S) \in Nat
        /\ Times(handed', S) \in Nat /\ Times(lost', S) \in Nat
        /\ Times(gathered', S) \in Nat
    BY ONLY <1>2, <1>3, <1>5, TimesAdd
  <2>5. Times(Waiting', S) \in Nat
    <3>1. Waiting \in Packets
      BY WholeFits, SeqMonotonic DEF WaitingInv, Packets
    <3>. QED  BY ONLY <1>7, <3>1, TimesAdd
  <2>. QED  BY ONLY <2>1, <2>2, <2>3, <2>4, <2>5
<1>9. WaitingInv'
  BY <1>1, <1>7, <1>8 DEF WaitingInv
<1>. QED  BY <1>6, <1>9 DEF SlicerInv

-------------------------------------------------------------------------------
(* The properties of the specification.                                    *)

LEMMA NextKeepsSlicerInv ==
  ASSUME SlicerInv, [Next]_vars
  PROVE  SlicerInv'
<1>1. ASSUME NEW n \in 1 .. Len(stream) - position, NEW k \in 0 .. Len(Sliced(n).pkts),
             OnRawIn(n, k) \/ \E i \in DOMAIN Sliced(n).pkts : RouteRaises(n, k, i)
      PROVE  SlicerInv'
  <2>1. ~closed /\ k \in Nat
    <3>1. OnRawIn(n, k) => ~closed /\ k \in 0 .. Len(Readable(Sliced(n).pkts))
      BY DEF OnRawIn
    <3>2. ASSUME NEW i, RouteRaises(n, k, i) PROVE ~closed /\ k \in 0 .. i - 1
      BY <3>2 DEF RouteRaises
    <3>. QED  BY <1>1, <3>1, <3>2
  <2>2. TypeInv /\ WaitingInv
    BY <2>1 DEF SlicerInv
  <2>. QED  BY <1>1, <2>1, <2>2, RawInKeeps, RouteRaisesKeeps
<1>2. ASSUME NEW i \in DOMAIN gathered, HandleMultipart(i) \/ ProcessRaises(i)
      PROVE  SlicerInv'
  <2>1. ~closed
    BY <1>2 DEF HandleMultipart, ProcessRaises
  <2>2. TypeInv /\ WaitingInv
    BY <2>1 DEF SlicerInv
  <2>. QED  BY <1>2, <2>2, MultipartKeeps
<1>3. CASE Establish \/ UNCHANGED vars
  <2>1. /\ stream' = stream /\ position' = position /\ remaining' = remaining
        /\ closed' = closed /\ handed' = handed /\ gathered' = gathered /\ lost' = lost
        /\ setup' \in {FALSE, setup}
    BY <1>3 DEF Establish, vars
  <2>2. TypeInv'
    BY <2>1 DEF SlicerInv, TypeInv
  <2>3. Arrived' = Arrived /\ Read' = Read /\ Waiting' = Waiting
    BY <2>1 DEF Arrived, Read, Waiting
  <2>4. WaitingInv => WaitingInv'
    BY <2>1, <2>3 DEF WaitingInv
  <2>. QED  BY <2>1, <2>2, <2>4 DEF SlicerInv
<1>. QED  BY <1>1, <1>2, <1>3 DEF Next

\* The invariant: what waits is whole packets in front of the rest of the bytes that
\* were read; each packet that arrived was handed over, is gathered, was lost or waits.
THEOREM SlicerInvariant == Spec => []SlicerInv
<1>1. Init => SlicerInv
  BY InitSlicerInv
<1>2. SlicerInv /\ [Next]_vars => SlicerInv'
  BY NextKeepsSlicerInv
<1>. QED  BY <1>1, <1>2, PTL DEF Spec

\* What was read, what waits and what was handed over are bytes and packets, and no
\* more is read than the switch sends.
THEOREM TypeCorrect == Spec => []TypeOK
<1>1. SlicerInv => TypeOK
  <2>1. SUFFICES ASSUME SlicerInv PROVE TypeOK
    OBVIOUS
  <2>2. TypeInv
    BY <2>1 DEF SlicerInv
  <2>3. \A p \in Range(handed) \cup Range(gathered) \cup Range(lost) : p \in Bytes
    BY <2>2, LenProperties, ElementOfSeq DEF TypeInv, Range
  <2>. QED  BY <2>2, <2>3 DEF TypeInv, TypeOK
<1>. QED  BY <1>1, SlicerInvariant, PTL

\* However the stream is cut into reads, and wherever the setup ends, each packet of
\* it is handed over once, waits once, or was lost once to an exception (of_slicer, and
\* on_raw_in which gathers replies and writes deferred packets back).
THEOREM PacketsAreHandedOnce == Spec => []EachPacketOnce
<1>1. SlicerInv => EachPacketOnce
  <2>1. SUFFICES ASSUME TypeInv, WaitingInv
                 PROVE  LET here == handed \o gathered \o lost \o Slice(remaining).pkts
                        IN  /\ Len(here) = Len(Arrived)
                            /\ \A p \in Range(Arrived) :
                                  Len(Only(here, {p})) = Len(Only(Arrived, {p}))
    BY DEF SlicerInv, EachPacketOnce
  <2> DEFINE here == Then(Then(Then(handed, gathered), lost), Waiting)
  <2>2. /\ handed \in Packets /\ gathered \in Packets /\ lost \in Packets
        /\ Waiting \in Packets /\ Arrived \in Packets
    <3>1. stream \in Bytes /\ position \in 0 .. Len(stream)
      BY <2>1 DEF TypeInv
    <3>2. handed \in Packets /\ gathered \in Packets /\ lost \in Packets
      BY <2>1 DEF TypeInv, Packets
    <3>3. Read \in Bytes
      BY <3>1, Parts DEF Read
    <3>4. Arrived \in Seq(Fitting)
      BY <3>3, PacketsAreSliced, SliceEnds DEF Arrived, Read, Slicings
    <3>5. Waiting \in Packets
      BY <2>1, WholeFits, SeqMonotonic DEF WaitingInv, Packets
    <3>6. Arrived \in Packets
      BY <3>4, WholeFits, SeqMonotonic DEF Packets
    <3>. QED  BY <3>2, <3>5, <3>6
  <2>3. here \in Packets /\ Then(handed, gathered) \in Packets
        /\ Then(Then(handed, gathered), lost) \in Packets
    BY ONLY <2>2, PacketAlgebra
  <2>4. ASSUME NEW S PROVE Times(here, S) = Times(Arrived, S)
    <3>1. /\ Times(here, S) = Times(Then(Then(handed, gathered), lost), S) + Times(Waiting, S)
          /\ Times(Then(Then(handed, gathered), lost), S)
                = Times(Then(handed, gathered), S) + Times(lost, S)
          /\ Times(Then(handed, gathered), S) = Times(handed, S) + Times(gathered, S)
      BY ONLY <2>2, <2>3, TimesAdd
    <3>2. Times(Arrived, S) = Times(handed, S) + Times(gathered, S)
                                 + Times(lost, S) + Times(Waiting, S)
      BY <2>1 DEF WaitingInv
    <3>. QED  BY ONLY <3>1, <3>2
  <2>. HIDE DEF here
  <2>5. Len(here) = Len(Arrived)
    <3>1. \A s \in Packets : Only(s, Bytes) = s
      BY OnlyAll, ElementOfSeq DEF Packets
    <3>2. Len(Only(here, Bytes)) = Len(Only(Arrived, Bytes))
      BY <2>4 DEF Times
    <3>. QED  BY ONLY <2>2, <2>3, <3>1, <3>2
  <2>6. \A p \in Range(Arrived) : Len(Only(here, {p})) = Len(Only(Arrived, {p}))
    BY <2>4 DEF Times
  <2>. QED  BY <2>5, <2>6 DEF here, Then, Waiting
<1>. QED  BY <1>1, SlicerInvariant, PTL

\* A read after the setup leaves no complete packet among the remaining bytes.
THEOREM NothingIsLeft == Spec => NoPacketLeftBehind
<1>1. SlicerInv /\ [Next]_vars =>
         [(position' # position /\ ~setup /\ ~closed') => Slice(remaining').pkts = <<>>]_vars
  <2>1. SUFFICES ASSUME SlicerInv, Next, position' # position, ~setup, ~closed'
                 PROVE  Slice(remaining').pkts = <<>>
    OBVIOUS
  <2>2. PICK n \in 1 .. Len(stream) - position : \E k \in 0 .. Len(Sliced(n).pkts) :
           OnRawIn(n, k) \/ \E i \in DOMAIN Sliced(n).pkts : RouteRaises(n, k, i)
    BY <2>1 DEF Next, Establish, HandleMultipart, ProcessRaises
  <2>3. PICK k \in 0 .. Len(Sliced(n).pkts) :
           OnRawIn(n, k) \/ \E i \in DOMAIN Sliced(n).pkts : RouteRaises(n, k, i)
    BY <2>2
  <2>4. ~closed /\ k \in Nat
    <3>1. OnRawIn(n, k) => ~closed /\ k \in 0 .. Len(Readable(Sliced(n).pkts))
      BY DEF OnRawIn
    <3>2. ASSUME NEW i, RouteRaises(n, k, i) PROVE ~closed /\ k \in 0 .. i - 1
      BY <3>2 DEF RouteRaises
    <3>. QED  BY <2>3, <3>1, <3>2
  <2>5. TypeInv /\ WaitingInv
    BY <2>1, <2>4 DEF SlicerInv
  <2>. QED  BY <2>1, <2>3, <2>4, <2>5, RawInKeeps, RouteRaisesKeeps
<1>. QED  BY <1>1, SlicerInvariant, PTL DEF Spec, NoPacketLeftBehind
===============================================================================
