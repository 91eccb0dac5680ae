----------------------------- MODULE InductionFacts -----------------------------
(***************************************************************************)
(* Induction and recursion over numbers and sequences, in the form in which *)
(* the proofs about data use them: a property is a set of numbers, a        *)
(* recursive step is a function.                                           *)
(***************************************************************************)
EXTENDS SequenceParts, TLAPS, SequenceTheorems, WellFoundedInduction

\* A set of numbers has a least one.
LEMMA LeastNumber ==
  ASSUME NEW T \in SUBSET Nat, T # {}
  PROVE  \E x \in T : \A y \in T : x <= y
<1>1. PICK x \in T : \A y \in T : <<y, x>> \notin OpToRel(<, Nat)
  BY NatLessThanWellFounded, WFMin
<1>2. ASSUME NEW y \in T PROVE x <= y
  <2>1. <<y, x>> \in Nat \X Nat
    OBVIOUS
  <2>2. ~(y < x)
    BY <1>1, <2>1 DEF OpToRel
  <2>. QED  BY <2>2
<1>. QED  BY <1>2

\* What holds of a number if it holds of all that are less, holds of all numbers.
LEMMA StrongInduction ==
  ASSUME NEW T, \A n \in Nat : (\A m \in 0 .. n - 1 : m \in T) => n \in T
  PROVE  Nat \subseteq T
<1> DEFINE U == Nat \ T
<1>1. SUFFICES ASSUME U # {} PROVE FALSE
  OBVIOUS
<1>2. PICK x \in U : \A y \in U : x <= y
  BY <1>1, LeastNumber
<1>3. \A m \in 0 .. x - 1 : m \in T
  BY <1>2
<1>. QED  BY <1>3

\* What holds of the first number of an interval and is passed on holds in all of it.
PassedOn(T, a, b) == a \in T /\ \A i \in a .. b : i # b /\ i \in T => i + 1 \in T

LEMMA IntervalInduction ==
  ASSUME NEW a \in Int, NEW b \in Int, NEW T, PassedOn(T, a, b)
  PROVE  a .. b \subseteq T
<1>. USE DEF PassedOn
<1> DEFINE U == {i \in Nat : a + i \in a .. b /\ a + i \notin T}
<1>1. SUFFICES ASSUME NEW j \in a .. b, j \notin T PROVE FALSE
  OBVIOUS
<1>2. j - a \in U
  BY <1>1
<1>3. PICK x \in U : \A y \in U : x <= y
  BY <1>2, LeastNumber
<1>4. x # 0 /\ x - 1 \in Nat /\ a + (x - 1) \in a .. b /\ a + (x - 1) # b
  BY <1>3
<1>5. a + (x - 1) \in T
  BY <1>3, <1>4
<1>6. (a + (x - 1)) + 1 = a + x
  BY <1>3
<1>. QED  BY <1>3, <1>4, <1>5, <1>6

\* A function that is told by its first value and by steps exists.
AreSteps(step, n, S, c) == c \in S /\ step \in [1 .. n -> [S -> S]]

TakesSteps(f, step, n, S, c) ==
  f \in [0 .. n -> S] /\ f[0] = c /\ \A i \in 1 .. n : f[i] = step[i][f[i - 1]]

LEMMA StepsDefine ==
  ASSUME NEW n \in Nat, NEW S, NEW c, NEW step, AreSteps(step, n, S, c)
  PROVE  \E f : TakesSteps(f, step, n, S, c)
<1>. USE DEF AreSteps
<1> DEFINE Is(f, m) == f[0] = c /\ \A i \in 1 .. m : f[i] = step[i][f[i - 1]]
           T == {m \in 0 .. n : \E f \in [0 .. m -> S] : Is(f, m)}
<1>1. 0 \in T
  <2> DEFINE f == [i \in 0 .. 0 |-> c]
  <2>1. f \in [0 .. 0 -> S] /\ Is(f, 0)
    OBVIOUS
  <2>. HIDE DEF f
  <2>. QED  BY <2>1
<1>2. ASSUME NEW m \in 0 .. n, m # n, m \in T PROVE m + 1 \in T
  <2>1. PICK f \in [0 .. m -> S] : Is(f, m)
    BY <1>2
  <2> DEFINE g == [i \in 0 .. m + 1 |-> IF i = m + 1 THEN step[i][f[m]] ELSE f[i]]
  <2>2. g \in [0 .. m + 1 -> S]
    <3>1. m + 1 \in 1 .. n /\ f[m] \in S
      BY <1>2
    <3>2. step[m + 1][f[m]] \in S
      BY <3>1
    <3>. QED  BY <3>2
  <2>3. ASSUME NEW i \in 1 .. m + 1
        PROVE  g[i] = step[i][g[i - 1]]
    <3>1. CASE i = m + 1
      <4>1. i # 0 /\ i - 1 = m /\ m \in 0 .. m + 1 /\ m # m + 1
        BY <3>1
      <4>2. g[m] = f[m]
        BY <4>1
      <4>3. g[i] = step[i][f[m]]
        BY <3>1
      <4>. HIDE DEF g
      <4>. QED  BY <4>1, <4>2, <4>3
    <3>2. CASE i \in 1 .. m
      <4>1. f[i] = step[i][f[i - 1]]
        BY <2>1, <3>2
      <4>2. g[i] = f[i] /\ g[i - 1] = f[i - 1]
        BY <3>2
      <4>. QED  BY <4>1, <4>2
    <3>. QED  BY <3>1, <3>2
  <2>4. Is(g, m + 1)
    <3>1. g[0] = c
      BY <2>1
    <3>. QED  BY <2>3, <3>1
  <2>5. m + 1 \in 0 .. n
    BY <1>2
  <2>. QED  BY <2>2, <2>4, <2>5
<1>3. n \in T
  <2>1. PassedOn(T, 0, n)
    <3>. HIDE DEF T
    <3>. QED  BY <1>1, <1>2 DEF PassedOn
  <2>2. 0 .. n \subseteq T
    <3>. HIDE DEF T
    <3>. QED  BY <2>1, IntervalInduction
  <2>. QED  BY <2>2
<1>4. PICK f \in [0 .. n -> S] : Is(f, n)
  BY <1>3
<1>5. TakesSteps(f, step, n, S, c)
  BY <1>4 DEF TakesSteps
<1>. QED  BY <1>5

-------------------------------------------------------------------------------
(* Only and Joined: their equations, then what they do with the parts of a *)
(* sequence.                                                               *)

\* A prefix of a sequence, and the one that is longer by an element.
LEMMA PrefixSteps ==
  ASSUME NEW X, NEW s \in Seq(X)
  PROVE  /\ SubSeq(s, 1, 0) = <<>> /\ SubSeq(s, 1, Len(s)) = s
         /\ \A i \in 0 .. Len(s) : SubSeq(s, 1, i) \in Seq(X) /\ Len(SubSeq(s, 1, i)) = i
         /\ \A i \in 0 .. Len(s) - 1 :
               SubSeq(s, 1, i + 1) = Append(SubSeq(s, 1, i), s[i + 1]) /\ s[i + 1] \in X
<1>1. SubSeq(s, 1, 0) = <<>> /\ SubSeq(s, 1, Len(s)) = s
  BY SubSeqEmpty, SubSeqFull
<1>2. ASSUME NEW i \in 0 .. Len(s)
      PROVE  SubSeq(s, 1, i) \in Seq(X) /\ Len(SubSeq(s, 1, i)) = i
  BY SubSeqProperties
<1>3. ASSUME NEW i \in 0 .. Len(s) - 1
      PROVE  SubSeq(s, 1, i + 1) = Append(SubSeq(s, 1, i), s[i + 1]) /\ s[i + 1] \in X
  BY SubSeqRecursiveSecond
<1>. QED  BY <1>1, <1>2, <1>3

\* Only is the last value of the function that it is defined by.
TakesOnly(f, s, S, X) ==
  /\ f \in [0 .. Len(s) -> Seq(X)]
  /\ f[0] = <<>> /\ Only(s, S) = f[Len(s)]
  /\ \A i \in 1 .. Len(s) : f[i] = IF s[i] \in S THEN Append(f[i - 1], s[i]) ELSE f[i - 1]

LEMMA OnlySteps ==
  ASSUME NEW X, NEW s \in Seq(X), NEW S
  PROVE  \E f : TakesOnly(f, s, S, X)
<1> DEFINE step == [i \in 1 .. Len(s) |->
                       [q \in Seq(X) |-> IF s[i] \in S THEN Append(q, s[i]) ELSE q]]
           Is(f) == f = [i \in 0 .. Len(s) |-> IF i = 0 THEN <<>>
                                   ELSE IF s[i] \in S THEN Append(f[i - 1], s[i])
                                   ELSE f[i - 1]]
<1>1. Len(s) \in Nat /\ <<>> \in Seq(X) /\ step \in [1 .. Len(s) -> [Seq(X) -> Seq(X)]]
  <2>1. ASSUME NEW i \in 1 .. Len(s), NEW q \in Seq(X)
        PROVE  (IF s[i] \in S THEN Append(q, s[i]) ELSE q) \in Seq(X)
    BY AppendProperties
  <2>. QED  BY <2>1
<1>2. PICK f \in [0 .. Len(s) -> Seq(X)] :
           f[0] = <<>> /\ \A i \in 1 .. Len(s) : f[i] = step[i][f[i - 1]]
  <2>1. AreSteps(step, Len(s), Seq(X), <<>>) /\ Len(s) \in Nat
    BY <1>1 DEF AreSteps
  <2>. HIDE DEF step
  <2>2. PICK f : TakesSteps(f, step, Len(s), Seq(X), <<>>)
    BY ONLY <2>1, StepsDefine
  <2>. QED  BY <2>2 DEF TakesSteps
<1>3. Is(f)
  <2>1. ASSUME NEW i \in 1 .. Len(s)
        PROVE  step[i][f[i - 1]] = IF s[i] \in S THEN Append(f[i - 1], s[i]) ELSE f[i - 1]
    <3>1. i - 1 \in 0 .. Len(s) /\ f[i - 1] \in Seq(X)
      BY <1>1
    <3>. QED  BY <3>1
  <2>. HIDE DEF step
  <2>2. ASSUME NEW i \in 0 .. Len(s)
        PROVE  f[i] = IF i = 0 THEN <<>>
                      ELSE IF s[i] \in S THEN Append(f[i - 1], s[i])
                      ELSE f[i - 1]
    <3>1. i = 0 \/ i \in 1 .. Len(s)
      BY <1>1
    <3>. QED  BY <1>2, <2>1, <3>1
  <2>. QED  BY <2>2
<1>4. \A g : Is(g) => g = f
  <2>1. SUFFICES ASSUME NEW g, Is(g) PROVE g = f
    OBVIOUS
  <2>2. \A i \in 0 .. Len(s) : g[i] = f[i]
    <3> DEFINE T == {i \in 0 .. Len(s) : g[i] = f[i]}
    <3>1. 0 \in T
      BY <1>1, <1>3, <2>1
    <3>2. ASSUME NEW i \in 0 .. Len(s), i # Len(s), i \in T PROVE i + 1 \in T
      <4>1. i + 1 \in 0 .. Len(s) /\ i + 1 # 0 /\ (i + 1) - 1 = i /\ g[i] = f[i]
        BY <1>1, <3>2
      <4>2. g[i + 1] = IF s[i + 1] \in S THEN Append(g[i], s[i + 1]) ELSE g[i]
        BY <2>1, <4>1
      <4>3. f[i + 1] = IF s[i + 1] \in S THEN Append(f[i], s[i + 1]) ELSE f[i]
        BY <1>3, <4>1
      <4>. QED  BY <4>1, <4>2, <4>3
    <3>3. PassedOn(T, 0, Len(s))
      <4>. HIDE DEF T
      <4>. QED  BY <3>1, <3>2 DEF PassedOn
    <3>4. 0 .. Len(s) \subseteq T
      BY <1>1, <3>3, IntervalInduction
    <3>. QED  BY <3>4
  <2>. QED  BY <1>3, <2>1, <2>2
<1>5. Only(s, S) = f[Len(s)]
  <2>1. (CHOOSE g : Is(g)) = f
    <3>. HIDE DEF Is
    <3>. QED  BY <1>3, <1>4
  <2>. QED  BY <2>1 DEF Only
<1>6. f[0] = <<>>
  BY <1>1, <1>3
<1>7. ASSUME NEW i \in 1 .. Len(s)
      PROVE  f[i] = IF s[i] \in S THEN Append(f[i - 1], s[i]) ELSE f[i - 1]
  <2>1. i \in 0 .. Len(s) /\ i # 0
    BY <1>1
  <2>. QED  BY <1>3, <2>1
<1>. QED  BY <1>2, <1>5, <1>6, <1>7 DEF TakesOnly

\* Joined is the last value of the function that it is defined by.
TakesJoined(f, s, X) ==
  /\ f \in [0 .. Len(s) -> Seq(X)]
  /\ f[0] = <<>> /\ Joined(s) = f[Len(s)]
  /\ \A i \in 1 .. Len(s) : f[i] = f[i - 1] \o s[i]

LEMMA JoinedSteps ==
  ASSUME NEW X, NEW s \in Seq(Seq(X))
  PROVE  \E f : TakesJoined(f, s, X)
<1> DEFINE step == [i \in 1 .. Len(s) |->
                       [q \in Seq(X) |-> q \o s[i]]]
           Is(f) == f = [i \in 0 .. Len(s) |-> IF i = 0 THEN <<>> ELSE f[i - 1] \o s[i]]
<1>1. Len(s) \in Nat /\ <<>> \in Seq(X) /\ step \in [1 .. Len(s) -> [Seq(X) -> Seq(X)]]
  <2>1. ASSUME NEW i \in 1 .. Len(s), NEW q \in Seq(X)
        PROVE  (q \o s[i]) \in Seq(X)
    <3>1. s[i] \in Seq(X)
      BY ElementOfSeq
    <3>. QED  BY <3>1, ConcatProperties
  <2>. QED  BY <2>1
<1>2. PICK f \in [0 .. Len(s) -> Seq(X)] :
           f[0] = <<>> /\ \A i \in 1 .. Len(s) : f[i] = step[i][f[i - 1]]
  <2>1. AreSteps(step, Len(s), Seq(X), <<>>) /\ Len(s) \in Nat
    BY <1>1 DEF AreSteps
  <2>. HIDE DEF step
  <2>2. PICK f : TakesSteps(f, step, Len(s), Seq(X), <<>>)
    BY ONLY <2>1, StepsDefine
  <2>. QED  BY <2>2 DEF TakesSteps
<1>3. Is(f)
  <2>1. ASSUME NEW i \in 1 .. Len(s)
        PROVE  step[i][f[i - 1]] = f[i - 1] \o s[i]
    <3>1. i - 1 \in 0 .. Len(s) /\ f[i - 1] \in Seq(X)
      <4>1. i - 1 \in 0 .. Len(s)
        BY ONLY <1>1, i \in 1 .. Len(s)
      <4>. QED  BY ONLY <4>1, f \in [0 .. Len(s) -> Seq(X)]
    <3>. QED  BY ONLY <3>1, i \in 1 .. Len(s) DEF step
  <2>. HIDE DEF step
  <2>2. ASSUME NEW i \in 0 .. Len(s)
        PROVE  f[i] = IF i = 0 THEN <<>> ELSE f[i - 1] \o s[i]
    <3>1. i = 0 \/ i \in 1 .. Len(s)
      BY <1>1
    <3>. QED  BY <1>2, <2>1, <3>1
  <2>. QED  BY <2>2
<1>4. \A g : Is(g) => g = f
  <2>1. SUFFICES ASSUME NEW g, Is(g) PROVE g = f
    OBVIOUS
  <2>2. \A i \in 0 .. Len(s) : g[i] = f[i]
    <3> DEFINE T == {i \in 0 .. Len(s) : g[i] = f[i]}
    <3>1. 0 \in T
      BY <1>1, <1>3, <2>1
    <3>2. ASSUME NEW i \in 0 .. Len(s), i # Len(s), i \in T PROVE i + 1 \in T
      <4>1. i + 1 \in 0 .. Len(s) /\ i + 1 # 0 /\ (i + 1) - 1 = i /\ g[i] = f[i]
        BY <1>1, <3>2
      <4>2. g[i + 1] = g[i] \o s[i + 1]
        BY <2>1, <4>1
      <4>3. f[i + 1] = f[i] \o s[i + 1]
        BY <1>3, <4>1
      <4>. QED  BY <4>1, <4>2, <4>3
    <3>3. PassedOn(T, 0, Len(s))
      <4>. HIDE DEF T
      <4>. QED  BY <3>1, <3>2 DEF PassedOn
    <3>4. 0 .. Len(s) \subseteq T
      BY <1>1, <3>3, IntervalInduction
    <3>. QED  BY <3>4
  <2>. QED  BY <1>3, <2>1, <2>2
<1>5. Joined(s) = f[Len(s)]
  <2>1. (CHOOSE g : Is(g)) = f
    <3>. HIDE DEF Is
    <3>. QED  BY <1>3, <1>4
  <2>. QED  BY <2>1 DEF Joined
<1>6. f[0] = <<>>
  BY <1>1, <1>3
<1>7. ASSUME NEW i \in 1 .. Len(s)
      PROVE  f[i] = f[i - 1] \o s[i]
  <2>1. i \in 0 .. Len(s) /\ i # 0
    BY <1>1
  <2>. QED  BY <1>3, <2>1
<1>. QED  BY <1>2, <1>5, <1>6, <1>7 DEF TakesJoined

\* What holds of the empty sequence and of every sequence that is one longer than
\* one of which it holds, holds of all.
AppendedTo(T, X) == <<>> \in T /\ \A s \in Seq(X), e \in X : s \in T => Append(s, e) \in T

LEMMA SequenceInduction ==
  ASSUME NEW X, NEW T, AppendedTo(T, X)
  PROVE  Seq(X) \subseteq T
<1>. SUFFICES ASSUME NEW s \in Seq(X) PROVE s \in T
  OBVIOUS
<1> DEFINE U == {i \in 0 .. Len(s) : SubSeq(s, 1, i) \in T}
<1>1. Len(s) \in Nat
  OBVIOUS
<1>2. 0 \in U
  <2>1. SubSeq(s, 1, 0) = <<>> /\ <<>> \in T /\ 0 \in 0 .. Len(s)
    BY <1>1, SubSeqEmpty DEF AppendedTo
  <2>. QED  BY ONLY <2>1
<1>3. ASSUME NEW i \in 0 .. Len(s), i # Len(s), i \in U PROVE i + 1 \in U
  <2>1. i \in 0 .. Len(s) - 1 /\ i + 1 \in 0 .. Len(s)
    BY <1>1, <1>3
  <2>2. /\ SubSeq(s, 1, i + 1) = Append(SubSeq(s, 1, i), s[i + 1])
        /\ SubSeq(s, 1, i) \in Seq(X) /\ s[i + 1] \in X
    BY <2>1, PrefixSteps
  <2>. QED  BY <1>3, <2>1, <2>2 DEF AppendedTo
<1>4. PassedOn(U, 0, Len(s))
  <2>. HIDE DEF U
  <2>. QED  BY <1>2, <1>3 DEF PassedOn
<1>5. 0 .. Len(s) \subseteq U
  <2>. HIDE DEF U
  <2>. QED  BY <1>1, <1>4, IntervalInduction
<1>6. Len(s) \in U
  <2>. HIDE DEF U
  <2>. QED  BY <1>1, <1>5
<1>7. SubSeq(s, 1, Len(s)) = s
  BY PrefixSteps
<1>. QED  BY <1>6, <1>7

LEMMA OnlyEmpty ==
  ASSUME NEW S
  PROVE  Only(<<>>, S) = <<>>
<1> DEFINE empty == <<>>
<1>1. empty \in Seq({}) /\ Len(empty) = 0
  OBVIOUS
<1>2. PICK f : TakesOnly(f, empty, S, {})
  <2>. HIDE DEF empty
  <2>. QED  BY <1>1, OnlySteps
<1>3. f[0] = <<>> /\ Only(empty, S) = f[Len(empty)]
  <2>. HIDE DEF empty
  <2>. QED  BY <1>2 DEF TakesOnly
<1>. QED  BY <1>1, <1>3

LEMMA OnlyAppend ==
  ASSUME NEW X, NEW s \in Seq(X), NEW e \in X, NEW S
  PROVE  /\ Only(s, S) \in Seq(X)
         /\ Only(Append(s, e), S) = IF e \in S THEN Append(Only(s, S), e) ELSE Only(s, S)
<1> DEFINE n == Len(s)
           t == Append(s, e)
<1>1. n \in Nat /\ t \in Seq(X) /\ Len(t) = n + 1 /\ t[n + 1] = e /\ \A i \in 1 .. n : t[i] = s[i]
  BY AppendProperties
<1>2. PICK f : TakesOnly(f, s, S, X)
  BY OnlySteps
<1>3. /\ f \in [0 .. n -> Seq(X)] /\ f[0] = <<>> /\ Only(s, S) = f[n]
      /\ \A i \in 1 .. n : f[i] = IF s[i] \in S THEN Append(f[i - 1], s[i]) ELSE f[i - 1]
  BY <1>2 DEF TakesOnly
<1>4. PICK g : TakesOnly(g, t, S, X)
  <2>. HIDE DEF t
  <2>. QED  BY <1>1, OnlySteps
<1>5. /\ g \in [0 .. n + 1 -> Seq(X)] /\ g[0] = <<>> /\ Only(t, S) = g[n + 1]
      /\ \A i \in 1 .. n + 1 : g[i] = IF t[i] \in S THEN Append(g[i - 1], t[i]) ELSE g[i - 1]
  <2>. HIDE DEF t, n
  <2>. QED  BY <1>1, <1>4 DEF TakesOnly
<1>. HIDE DEF n, t
<1> DEFINE U == {i \in 0 .. n : f[i] = g[i]}
<1>6. 0 \in U
  BY <1>1, <1>3, <1>5
<1>7. ASSUME NEW i \in 0 .. n, i # n, i \in U PROVE i + 1 \in U
  <2>1. i + 1 \in 1 .. n /\ i + 1 \in 1 .. n + 1 /\ (i + 1) - 1 = i
    BY <1>1, <1>7
  <2>2. f[i + 1] = IF s[i + 1] \in S THEN Append(f[i], s[i + 1]) ELSE f[i]
    BY ONLY <1>3, <2>1
  <2>3. g[i + 1] = IF t[i + 1] \in S THEN Append(g[i], t[i + 1]) ELSE g[i]
    BY ONLY <1>5, <2>1
  <2>4. t[i + 1] = s[i + 1] /\ f[i] = g[i]
    BY <1>1, <1>7, <2>1
  <2>5. f[i + 1] = g[i + 1] /\ i + 1 \in 0 .. n
    BY ONLY <2>1, <2>2, <2>3, <2>4, <1>1
  <2>. QED  BY <2>5
<1>8. n \in U
  <2>. HIDE DEF U
  <2>1. PassedOn(U, 0, n)
    BY <1>6, <1>7 DEF PassedOn
  <2>2. 0 .. n \subseteq U
    BY <1>1, <2>1, IntervalInduction
  <2>. QED  BY <1>1, <2>2
<1>9. g[n + 1] = IF e \in S THEN Append(g[n], e) ELSE g[n]
  <2>1. n + 1 \in 1 .. n + 1 /\ (n + 1) - 1 = n
    BY <1>1
  <2>. QED  BY ONLY <1>1, <1>5, <2>1
<1>10. f[n] = g[n] /\ f[n] \in Seq(X)
  BY <1>1, <1>3, <1>8
<1>11. Only(t, S) = IF e \in S THEN Append(Only(s, S), e) ELSE Only(s, S)
  BY ONLY <1>3, <1>5, <1>9, <1>10
<1>12. Only(s, S) \in Seq(X)
  BY ONLY <1>3, <1>10
<1>. QED  BY <1>11, <1>12 DEF t

LEMMA JoinedEmpty == Joined(<<>>) = <<>>
<1> DEFINE empty == <<>>
<1>1. empty \in Seq(Seq({})) /\ Len(empty) = 0
  OBVIOUS
<1>2. PICK f : TakesJoined(f, empty, {})
  <2>. HIDE DEF empty
  <2>. QED  BY <1>1, JoinedSteps
<1>3. f[0] = <<>> /\ Joined(empty) = f[Len(empty)]
  <2>. HIDE DEF empty
  <2>. QED  BY <1>2 DEF TakesJoined
<1>. QED  BY <1>1, <1>3

LEMMA JoinedAppend ==
  ASSUME NEW X, NEW s \in Seq(Seq(X)), NEW e \in Seq(X)
  PROVE  /\ Joined(s) \in Seq(X)
         /\ Joined(Append(s, e)) = Joined(s) \o e
<1> DEFINE n == Len(s)
           t == Append(s, e)
<1>1. n \in Nat /\ t \in Seq(Seq(X)) /\ Len(t) = n + 1 /\ t[n + 1] = e /\ \A i \in 1 .. n : t[i] = s[i]
  BY AppendProperties
<1>2. PICK f : TakesJoined(f, s, X)
  BY JoinedSteps
<1>3. /\ f \in [0 .. n -> Seq(X)] /\ f[0] = <<>> /\ Joined(s) = f[n]
      /\ \A i \in 1 .. n : f[i] = f[i - 1] \o s[i]
  BY <1>2 DEF TakesJoined
<1>4. PICK g : TakesJoined(g, t, X)
  <2>. HIDE DEF t
  <2>. QED  BY <1>1, JoinedSteps
<1>5. /\ g \in [0 .. n + 1 -> Seq(X)] /\ g[0] = <<>> /\ Joined(t) = g[n + 1]
      /\ \A i \in 1 .. n + 1 : g[i] = g[i - 1] \o t[i]
  <2>. HIDE DEF t, n
  <2>. QED  BY <1>1, <1>4 DEF TakesJoined
<1>. HIDE DEF n, t
<1> DEFINE U == {i \in 0 .. n : f[i] = g[i]}
<1>6. 0 \in U
  BY <1>1, <1>3, <1>5
<1>7. ASSUME NEW i \in 0 .. n, i # n, i \in U PROVE i + 1 \in U
  <2>1. i + 1 \in 1 .. n /\ i + 1 \in 1 .. n + 1 /\ (i + 1) - 1 = i
    BY <1>1, <1>7
  <2>2. f[i + 1] = f[i] \o s[i + 1]
    BY ONLY <1>3, <2>1
  <2>3. g[i + 1] = g[i] \o t[i + 1]
    BY ONLY <1>5, <2>1
  <2>4. t[i + 1] = s[i + 1] /\ f[i] = g[i]
    BY <1>1, <1>7, <2>1
  <2>5. f[i + 1] = g[i + 1] /\ i + 1 \in 0 .. n
    BY ONLY <2>1, <2>2, <2>3, <2>4, <1>1
  <2>. QED  BY <2>5
<1>8. n \in U
  <2>. HIDE DEF U
  <2>1. PassedOn(U, 0, n)
    BY <1>6, <1>7 DEF PassedOn
  <2>2. 0 .. n \subseteq U
    BY <1>1, <2>1, IntervalInduction
  <2>. QED  BY <1>1, <2>2
<1>9. g[n + 1] = g[n] \o e
  <2>1. n + 1 \in 1 .. n + 1 /\ (n + 1) - 1 = n
    BY <1>1
  <2>. QED  BY ONLY <1>1, <1>5, <2>1
<1>10. f[n] = g[n] /\ f[n] \in Seq(X)
  BY <1>1, <1>3, <1>8
<1>11. Joined(t) = Joined(s) \o e
  BY ONLY <1>3, <1>5, <1>9, <1>10
<1>12. Joined(s) \in Seq(X)
  BY ONLY <1>3, <1>10
<1>. QED  BY <1>11, <1>12 DEF t

-------------------------------------------------------------------------------
(* What Only and Joined do with the parts of a sequence.                   *)

LEMMA AppendedToJoined ==
  ASSUME NEW X, NEW s \in Seq(X), NEW t \in Seq(X), NEW e \in X
  PROVE  s \o Append(t, e) = Append(s \o t, e) /\ s \o t \in Seq(X) /\ s \o <<>> = s
<1>1. s \o t \in Seq(X) /\ <<e>> \in Seq(X)
  BY ConcatProperties
<1>2. Append(t, e) = t \o <<e>> /\ Append(s \o t, e) = (s \o t) \o <<e>>
  BY <1>1, AppendIsConcat
<1>3. (s \o t) \o <<e>> = s \o (t \o <<e>>)
  BY <1>1, ConcatAssociative
<1>. QED  BY <1>1, <1>2, <1>3, ConcatEmptySeq

LEMMA AppendsAfter ==
  \A X : \A s, t \in Seq(X), e \in X : s \o Append(t, e) = Append(s \o t, e)
BY AppendedToJoined

LEMMA OnlyType ==
  ASSUME NEW X, NEW s \in Seq(X), NEW S
  PROVE  Only(s, S) \in Seq(X \intersect S) /\ Only(s, S) \in Seq(X)
<1> DEFINE T == {u \in Seq(X) : Only(u, S) \in Seq(X \intersect S)}
<1>1. <<>> \in T
  <2>1. Only(<<>>, S) = <<>>
    BY OnlyEmpty
  <2>2. <<>> \in Seq(X) /\ <<>> \in Seq(X \intersect S)
    OBVIOUS
  <2>. QED  BY <2>1, <2>2
<1>2. ASSUME NEW u \in Seq(X), NEW e \in X, u \in T PROVE Append(u, e) \in T
  <2>1. Append(u, e) \in Seq(X)
    BY AppendProperties
  <2>2. Only(Append(u, e), S) = IF e \in S THEN Append(Only(u, S), e) ELSE Only(u, S)
    BY OnlyAppend
  <2>3. Only(Append(u, e), S) \in Seq(X \intersect S)
    BY <1>2, <2>2, AppendProperties
  <2>. QED  BY <2>1, <2>3
<1>3. s \in T
  <2>. HIDE DEF T
  <2>. QED  BY <1>1, <1>2, SequenceInduction DEF AppendedTo
<1>4. Only(s, S) \in Seq(X)
  BY <1>3, SeqMonotonic
<1>. QED  BY <1>3, <1>4

LEMMA OnlyAdds ==
  ASSUME NEW X, NEW S
  PROVE  \A s \in Seq(X), e \in X :
            Only(Append(s, e), S) = IF e \in S THEN Append(Only(s, S), e) ELSE Only(s, S)
BY OnlyAppend

LEMMA OnlyOfJoined ==
  ASSUME NEW X, NEW s \in Seq(X), NEW t \in Seq(X), NEW S
  PROVE  Only(s \o t, S) = Only(s, S) \o Only(t, S)
<1> DEFINE T == {u \in Seq(X) : Only(s \o u, S) = Only(s, S) \o Only(u, S)}
<1>1. <<>> \in T
  <2>1. Only(s, S) \in Seq(X)
    BY OnlyType
  <2>2. s \o <<>> = s /\ Only(s, S) \o <<>> = Only(s, S)
    BY <2>1, ConcatEmptySeq
  <2>3. Only(<<>>, S) = <<>> /\ <<>> \in Seq(X)
    BY OnlyEmpty
  <2>. QED  BY ONLY <2>2, <2>3
<1>2. ASSUME NEW u \in Seq(X), NEW e \in X, u \in T PROVE Append(u, e) \in T
  <2>1. Append(u, e) \in Seq(X) /\ s \o u \in Seq(X) /\ s \o Append(u, e) = Append(s \o u, e)
    BY AppendProperties, AppendedToJoined
  <2>2. Only(Append(u, e), S) = IF e \in S THEN Append(Only(u, S), e) ELSE Only(u, S)
    BY OnlyAppend
  <2>3. Only(Append(s \o u, e), S) =
           IF e \in S THEN Append(Only(s \o u, S), e) ELSE Only(s \o u, S)
    <3>1. \A w \in Seq(X), d \in X :
             Only(Append(w, d), S) = IF d \in S THEN Append(Only(w, S), d) ELSE Only(w, S)
      BY OnlyAdds, Zenon
    <3>2. s \o u \in Seq(X)
      BY <2>1
    <3>. QED  BY <3>1, <3>2, Zenon
  <2>4. Only(s, S) \in Seq(X) /\ Only(u, S) \in Seq(X)
    BY OnlyType
  <2>5. Only(s, S) \o Append(Only(u, S), e) = Append(Only(s, S) \o Only(u, S), e)
    BY <2>4, AppendedToJoined
  <2>6. Only(s \o u, S) = Only(s, S) \o Only(u, S)
    BY <1>2
  <2>. QED  BY <2>1, <2>2, <2>3, <2>5, <2>6
<1>3. t \in T
  <2>. HIDE DEF T
  <2>. QED  BY <1>1, <1>2, SequenceInduction DEF AppendedTo
<1>. QED  BY <1>3

\* Sets that agree on the elements of a sequence select the same of them.
LEMMA OnlyTheSame ==
  ASSUME NEW X, NEW s \in Seq(X), NEW S, NEW R, \A i \in 1 .. Len(s) : s[i] \in S <=> s[i] \in R
  PROVE  Only(s, S) = Only(s, R)
<1> DEFINE T == {u \in Seq(X) : (\A i \in 1 .. Len(u) : u[i] \in S <=> u[i] \in R)
                                    => Only(u, S) = Only(u, R)}
<1>1. <<>> \in T
  BY OnlyEmpty
<1>2. ASSUME NEW u \in Seq(X), NEW e \in X, u \in T PROVE Append(u, e) \in T
  <2>1. /\ Append(u, e) \in Seq(X) /\ Len(Append(u, e)) = Len(u) + 1 /\ Len(u) \in Nat
        /\ \A i \in 1 .. Len(u) : Append(u, e)[i] = u[i]
        /\ Append(u, e)[Len(u) + 1] = e
    BY AppendProperties
  <2>2. ASSUME \A i \in 1 .. Len(u) + 1 : Append(u, e)[i] \in S <=> Append(u, e)[i] \in R
        PROVE  Only(Append(u, e), S) = Only(Append(u, e), R)
    <3>1. \A i \in 1 .. Len(u) : i \in 1 .. Len(u) + 1
      BY <2>1
    <3>2. Len(u) + 1 \in 1 .. Len(u) + 1
      BY <2>1
    <3>3. \A i \in 1 .. Len(u) : u[i] \in S <=> u[i] \in R
      BY ONLY <2>1, <2>2, <3>1
    <3>4. e \in S <=> e \in R
      BY ONLY <2>1, <2>2, <3>2
    <3>5. Only(u, S) = Only(u, R)
      BY <1>2, <3>3
    <3>6. Only(Append(u, e), S) = IF e \in S THEN Append(Only(u, S), e) ELSE Only(u, S)
      BY ONLY u \in Seq(X), e \in X, OnlyAppend
    <3>7. Only(Append(u, e), R) = IF e \in R THEN Append(Only(u, R), e) ELSE Only(u, R)
      BY ONLY u \in Seq(X), e \in X, OnlyAppend
    <3>. QED  BY ONLY <3>4, <3>5, <3>6, <3>7
  <2>. QED  BY <2>1, <2>2
<1>3. s \in T
  <2>. HIDE DEF T
  <2>. QED  BY <1>1, <1>2, SequenceInduction DEF AppendedTo
<1>. QED  BY <1>3

\* All of the elements, none of them, and those of a selection.
LEMMA OnlyAll ==
  ASSUME NEW X, NEW s \in Seq(X), NEW S, \A i \in 1 .. Len(s) : s[i] \in S
  PROVE  Only(s, S) = s
<1> DEFINE T == {u \in Seq(X) : Only(u, X) = u}
<1>1. <<>> \in T
  BY OnlyEmpty
<1>2. ASSUME NEW u \in Seq(X), NEW e \in X, u \in T PROVE Append(u, e) \in T
  <2>1. Only(Append(u, e), X) = Append(Only(u, X), e) /\ Append(u, e) \in Seq(X)
    BY OnlyAppend, AppendProperties
  <2>. QED  BY <1>2, <2>1
<1>3. Only(s, X) = s
  <2>1. s \in T
    <3>. HIDE DEF T
    <3>. QED  BY <1>1, <1>2, SequenceInduction DEF AppendedTo
  <2>. QED  BY <2>1
<1>4. \A i \in 1 .. Len(s) : s[i] \in S <=> s[i] \in X
  BY ElementOfSeq
<1>. QED  BY <1>3, <1>4, OnlyTheSame

LEMMA OnlyNone ==
  ASSUME NEW X, NEW s \in Seq(X), NEW S, \A i \in 1 .. Len(s) : s[i] \notin S
  PROVE  Only(s, S) = <<>>
<1> DEFINE T == {u \in Seq(X) : Only(u, {}) = <<>>}
<1>1. <<>> \in T
  BY OnlyEmpty
<1>2. ASSUME NEW u \in Seq(X), NEW e \in X, u \in T PROVE Append(u, e) \in T
  <2>1. Only(Append(u, e), {}) = Only(u, {}) /\ Append(u, e) \in Seq(X)
    BY OnlyAppend, AppendProperties
  <2>. QED  BY <1>2, <2>1
<1>3. Only(s, {}) = <<>>
  <2>1. s \in T
    <3>. HIDE DEF T
    <3>. QED  BY <1>1, <1>2, SequenceInduction DEF AppendedTo
  <2>. QED  BY <2>1
<1>4. \A i \in 1 .. Len(s) : s[i] \in S <=> s[i] \in {}
  OBVIOUS
<1>. QED  BY <1>3, <1>4, OnlyTheSame

LEMMA OnlyOfOnly ==
  ASSUME NEW X, NEW s \in Seq(X), NEW S, NEW R
  PROVE  Only(Only(s, S), R) = Only(s, S \intersect R)
<1> DEFINE T == {u \in Seq(X) : Only(Only(u, S), R) = Only(u, S \intersect R)}
<1>1. <<>> \in T
  BY OnlyEmpty
<1>2. ASSUME NEW u \in Seq(X), NEW e \in X, u \in T PROVE Append(u, e) \in T
  <2>1. Only(Append(u, e), S) = IF e \in S THEN Append(Only(u, S), e) ELSE Only(u, S)
    BY OnlyAppend
  <2>2. Only(Append(u, e), S \intersect R) =
           IF e \in S /\ e \in R THEN Append(Only(u, S \intersect R), e)
           ELSE Only(u, S \intersect R)
    <3> DEFINE B == S \intersect R
    <3>1. (e \in B) = (e \in S /\ e \in R)
      OBVIOUS
    <3>. HIDE DEF B
    <3>2. Only(Append(u, e), B) = IF e \in B THEN Append(Only(u, B), e) ELSE Only(u, B)
      BY OnlyAppend
    <3>. QED  BY <3>1, <3>2 DEF B
  <2>3. Only(u, S) \in Seq(X)
    BY OnlyType
  <2>4. Only(Append(Only(u, S), e), R) =
           IF e \in R THEN Append(Only(Only(u, S), R), e) ELSE Only(Only(u, S), R)
    <3> DEFINE w == Only(u, S)
    <3>1. w \in Seq(X)
      BY <2>3
    <3>. HIDE DEF w
    <3>2. Only(Append(w, e), R) = IF e \in R THEN Append(Only(w, R), e) ELSE Only(w, R)
      BY <3>1, OnlyAppend
    <3>. QED  BY <3>2 DEF w
  <2>5. Append(u, e) \in Seq(X) /\ Only(Only(u, S), R) = Only(u, S \intersect R)
    BY <1>2, AppendProperties
  <2>6. Only(Only(Append(u, e), S), R) = Only(Append(u, e), S \intersect R)
    <3>1. CASE e \in S
      <4>1. Only(Append(u, e), S) = Append(Only(u, S), e)
        BY ONLY <2>1, <3>1
      <4>2. CASE e \in R
        BY ONLY <2>2, <2>4, <2>5, <3>1, <4>1, <4>2
      <4>3. CASE e \notin R
        BY ONLY <2>2, <2>4, <2>5, <3>1, <4>1, <4>3
      <4>. QED  BY <4>2, <4>3
    <3>2. CASE e \notin S
      BY ONLY <2>1, <2>2, <2>5, <3>2
    <3>. QED  BY <3>1, <3>2
  <2>. QED  BY <2>5, <2>6
<1>3. s \in T
  <2>. HIDE DEF T
  <2>. QED  BY <1>1, <1>2, SequenceInduction DEF AppendedTo
<1>. QED  BY <1>3

\* What is selected and what is not are all of the sequence.
LEMMA OnlyAndTheRest ==
  ASSUME NEW X, NEW s \in Seq(X), NEW S
  PROVE  Len(s) = Len(Only(s, S)) + Len(Only(s, X \ S))
<1> DEFINE T == {u \in Seq(X) : Len(u) = Len(Only(u, S)) + Len(Only(u, X \ S))}
<1>1. <<>> \in T
  <2>1. 0 = 0 + 0 /\ Len(<<>>) = 0
    OBVIOUS
  <2>. QED  BY <2>1, OnlyEmpty
<1>2. ASSUME NEW u \in Seq(X), NEW e \in X, u \in T PROVE Append(u, e) \in T
  <2>1. /\ Only(Append(u, e), S) = IF e \in S THEN Append(Only(u, S), e) ELSE Only(u, S)
        /\ Only(Append(u, e), X \ S) =
              IF e \in S THEN Only(u, X \ S) ELSE Append(Only(u, X \ S), e)
    <3> DEFINE B == X \ S
    <3>1. (e \in B) = (e \notin S)
      OBVIOUS
    <3>. HIDE DEF B
    <3>2. Only(Append(u, e), B) = IF e \in B THEN Append(Only(u, B), e) ELSE Only(u, B)
      BY OnlyAppend
    <3>3. Only(Append(u, e), S) = IF e \in S THEN Append(Only(u, S), e) ELSE Only(u, S)
      BY OnlyAppend
    <3>. QED  BY ONLY <3>1, <3>2, <3>3 DEF B
  <2>2. Only(u, S) \in Seq(X) /\ Only(u, X \ S) \in Seq(X)
    BY OnlyType
  <2>3. /\ Len(Append(Only(u, S), e)) = Len(Only(u, S)) + 1
        /\ Len(Append(Only(u, X \ S), e)) = Len(Only(u, X \ S)) + 1
        /\ Len(Append(u, e)) = Len(u) + 1 /\ Append(u, e) \in Seq(X)
        /\ Len(Only(u, S)) \in Nat /\ Len(Only(u, X \ S)) \in Nat
    BY <2>2, AppendProperties
  <2>4. Len(u) = Len(Only(u, S)) + Len(Only(u, X \ S))
    BY <1>2
  <2>5. Len(Append(u, e)) = Len(Only(Append(u, e), S)) + Len(Only(Append(u, e), X \ S))
    <3>1. CASE e \in S
      BY ONLY <2>1, <2>3, <2>4, <3>1
    <3>2. CASE e \notin S
      BY ONLY <2>1, <2>3, <2>4, <3>2
    <3>. QED  BY <3>1, <3>2
  <2>. QED  BY <2>3, <2>5
<1>3. s \in T
  <2>. HIDE DEF T
  <2>. QED  BY <1>1, <1>2, SequenceInduction DEF AppendedTo
<1>. QED  BY <1>3
===============================================================================
