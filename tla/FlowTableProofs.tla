---------------------------- MODULE FlowTableProofs ----------------------------
(***************************************************************************)
(* Proofs about the match fields and FlowTable.                            *)
(***************************************************************************)
EXTENDS FlowInvariants, InductionFacts

(* Powers of two.                                                          *)

Doubling(f, n) == f \in [0 .. n -> Nat] /\ f[0] = 1 /\ \A i \in 1 .. n : f[i] = 2 * f[i - 1]

LEMMA TwoToIsDoubling ==
  ASSUME NEW n \in Nat, NEW f, Doubling(f, n)
  PROVE  TwoTo(n) = f[n]
<1> DEFINE Is(g) == g = [i \in 0 .. n |-> IF i = 0 THEN 1 ELSE 2 * g[i - 1]]
<1>1. /\ f \in [0 .. n -> Nat] /\ f[0] = 1
      /\ \A i \in 1 .. n : f[i] = 2 * f[i - 1]
  BY DEF Doubling
<1>2. Is(f)
  <2>1. ASSUME NEW i \in 0 .. n PROVE f[i] = IF i = 0 THEN 1 ELSE 2 * f[i - 1]
    <3>1. i = 0 \/ i \in 1 .. n
      OBVIOUS
    <3>. QED  BY <1>1, <3>1
  <2>. QED  BY <1>1, <2>1
<1>3. ASSUME NEW g, Is(g) PROVE g = f
  <2> DEFINE T == {i \in 0 .. n : g[i] = f[i]}
  <2>1. 0 \in T
    BY <1>1, <1>3
  <2>2. ASSUME NEW i \in 0 .. n, i # n, i \in T PROVE i + 1 \in T
    <3>1. i + 1 \in 0 .. n /\ i + 1 # 0 /\ (i + 1) - 1 = i /\ g[i] = f[i]
      BY <2>2
    <3>2. g[i + 1] = 2 * g[i]
      BY <1>3, <3>1
    <3>3. f[i + 1] = 2 * f[i]
      BY <1>2, <3>1
    <3>. QED  BY <3>1, <3>2, <3>3
  <2>3. PassedOn(T, 0, n)
    <3>. HIDE DEF T
    <3>. QED  BY <2>1, <2>2 DEF PassedOn
  <2>4. 0 .. n \subseteq T
    BY <2>3, IntervalInduction
  <2>5. DOMAIN g = 0 .. n
    BY <1>3
  <2>. QED  BY <1>2, <1>3, <2>4, <2>5
<1>4. (CHOOSE g : Is(g)) = f
  <2>. HIDE DEF Is
  <2>. QED  BY <1>2, <1>3
<1>. QED  BY <1>4 DEF TwoTo

LEMMA TwoToLaws ==
  /\ TwoTo(0) = 1
  /\ \A n \in Nat : TwoTo(n) \in Nat /\ TwoTo(n) >= 1 /\ TwoTo(n + 1) = 2 * TwoTo(n)
<1>1. ASSUME NEW n \in Nat PROVE \E f : Doubling(f, n)
  <2> DEFINE step == [i \in 1 .. n |-> [k \in Nat |-> 2 * k]]
  <2>1. AreSteps(step, n, Nat, 1)
    BY DEF AreSteps
  <2>2. \A i \in 1 .. n, k \in Nat : step[i][k] = 2 * k
    OBVIOUS
  <2>. HIDE DEF step
  <2>3. PICK f : TakesSteps(f, step, n, Nat, 1)
    BY <2>1, StepsDefine
  <2>4. ASSUME NEW i \in 1 .. n PROVE f[i] = 2 * f[i - 1]
    <3>1. i - 1 \in 0 .. n
      OBVIOUS
    <3>. QED  BY <2>2, <2>3, <3>1 DEF TakesSteps
  <2>5. Doubling(f, n)
    BY <2>3, <2>4 DEF TakesSteps, Doubling
  <2>. QED  BY <2>5
<1>2. TwoTo(0) = 1
  <2>1. PICK f : Doubling(f, 0)
    BY <1>1
  <2>. QED  BY <2>1, TwoToIsDoubling DEF Doubling
<1>3. ASSUME NEW n \in Nat
      PROVE  TwoTo(n) \in Nat /\ TwoTo(n + 1) = 2 * TwoTo(n)
  <2>1. PICK f : Doubling(f, n + 1)
    BY <1>1
  <2> DEFINE g == [i \in 0 .. n |-> f[i]]
  <2>2. Doubling(g, n)
    <3>1. /\ f \in [0 .. n + 1 -> Nat] /\ f[0] = 1
          /\ \A i \in 1 .. n + 1 : f[i] = 2 * f[i - 1]
      BY <2>1 DEF Doubling
    <3>2. \A i \in 0 .. n : i \in 0 .. n + 1
      OBVIOUS
    <3>3. g \in [0 .. n -> Nat] /\ g[0] = 1
      BY <3>1, <3>2
    <3>4. ASSUME NEW i \in 1 .. n PROVE g[i] = 2 * g[i - 1]
      <4>1. i \in 0 .. n /\ i - 1 \in 0 .. n /\ i \in 1 .. n + 1
        OBVIOUS
      <4>. QED  BY <3>1, <4>1
    <3>. QED  BY <3>3, <3>4 DEF Doubling
  <2>3. TwoTo(n) = f[n] /\ TwoTo(n + 1) = f[n + 1]
    <3>1. TwoTo(n) = g[n]
      <4>. HIDE DEF g
      <4>. QED  BY <2>2, TwoToIsDoubling
    <3>2. TwoTo(n + 1) = f[n + 1]
      BY <2>1, TwoToIsDoubling
    <3>. QED  BY <3>1, <3>2
  <2>4. f[n] \in Nat /\ f[n + 1] = 2 * f[(n + 1) - 1] /\ (n + 1) - 1 = n
    BY <2>1 DEF Doubling
  <2>. QED  BY <2>3, <2>4
<1>4. ASSUME NEW n \in Nat PROVE TwoTo(n) >= 1
  <2> DEFINE T == {i \in 0 .. n : TwoTo(i) >= 1}
  <2>1. 0 \in T
    BY <1>2
  <2>2. ASSUME NEW i \in 0 .. n, i # n, i \in T PROVE i + 1 \in T
    BY <1>3, <2>2
  <2>3. PassedOn(T, 0, n)
    <3>. HIDE DEF T
    <3>. QED  BY <2>1, <2>2 DEF PassedOn
  <2>4. 0 .. n \subseteq T
    BY <2>3, IntervalInduction
  <2>. QED  BY <2>4
<1>. QED  BY <1>2, <1>3, <1>4

\* 2^(k + j) is a multiple of 2^k, even if j # 0, and not less.
LEMMA TwoToFactors ==
  ASSUME NEW k \in Nat, NEW j \in Nat
  PROVE  TwoTo(k + j) = TwoTo(j) * TwoTo(k)
<1> DEFINE T == {i \in 0 .. j : TwoTo(k + i) = TwoTo(i) * TwoTo(k)}
<1>1. 0 \in T
  BY TwoToLaws
<1>2. ASSUME NEW i \in 0 .. j, i # j, i \in T PROVE i + 1 \in T
  <2>1. TwoTo(k + i) = TwoTo(i) * TwoTo(k) /\ i \in Nat /\ k + i \in Nat
    BY <1>2
  <2>2. TwoTo(i + 1) = 2 * TwoTo(i) /\ TwoTo(k + (i + 1)) = 2 * TwoTo(k + i)
    <3>1. k + (i + 1) = (k + i) + 1
      BY <2>1
    <3>. QED  BY <2>1, <3>1, TwoToLaws
  <2>3. TwoTo(i) \in Nat /\ TwoTo(k) \in Nat
    BY <2>1, TwoToLaws
  <2>4. 2 * (TwoTo(i) * TwoTo(k)) = (2 * TwoTo(i)) * TwoTo(k)
    BY <2>3
  <2>. QED  BY <2>1, <2>2, <2>4, <1>2
<1>3. PassedOn(T, 0, j)
  <2>. HIDE DEF T
  <2>. QED  BY <1>1, <1>2 DEF PassedOn
<1>4. 0 .. j \subseteq T
  BY <1>3, IntervalInduction
<1>. QED  BY <1>4

LEMMA TwoToGrows ==
  ASSUME NEW k \in Nat, NEW n \in Nat, k < n
  PROVE  TwoTo(k) < TwoTo(n)
<1>1. n - k \in Nat /\ n - k - 1 \in Nat /\ k + (n - k) = n /\ (n - k - 1) + 1 = n - k
  OBVIOUS
<1>2. TwoTo(n) = TwoTo(n - k) * TwoTo(k)
  BY <1>1, TwoToFactors
<1>3. TwoTo(n - k) = 2 * TwoTo(n - k - 1) /\ TwoTo(n - k - 1) >= 1
      /\ TwoTo(n - k - 1) \in Nat /\ TwoTo(n - k) \in Nat
  BY <1>1, TwoToLaws
<1>4. TwoTo(k) \in Nat /\ TwoTo(k) >= 1
  BY TwoToLaws
<1>5. \A a, b \in Nat : a >= 2 /\ b >= 1 => b < a * b
  OBVIOUS
<1>. QED  BY <1>2, <1>3, <1>4, <1>5

LEMMA Quotient ==
  ASSUME NEW a \in Int, NEW b \in Int, NEW q \in Int, NEW r \in Int,
         0 <= r, r < b, a = q * b + r
  PROVE  a \div b = q /\ a % b = r
OBVIOUS

LEMMA OddOrEven == \A q \in Int : (2 * q) % 2 = 0 /\ (2 * q + 1) % 2 = 1
OBVIOUS

-------------------------------------------------------------------------------
(* The prefix of an address: the mask that is written and counted again.  *)

LEMMA BitsOfMask ==
  ASSUME NEW m \in 1 .. AddressBits - 1, NEW i \in 0 .. AddressBits - 1
  PROVE  (mask_to_bytes(m, AddressBits) \div TwoTo(i)) % 2
            = IF i < AddressBits - m THEN 0 ELSE 1
<1> DEFINE B == AddressBits
           N == mask_to_bytes(m, B)
<1>1. B \in Nat /\ i \in Nat /\ m \in Nat /\ i < B /\ m < B /\ 1 <= m
  BY FieldAssumption
<1>2. N = TwoTo(B) - TwoTo(B - m)
  BY DEF mask_to_bytes
<1>3. TwoTo(B) = TwoTo(B - i) * TwoTo(i) /\ TwoTo(B - i) = 2 * TwoTo(B - i - 1)
  <2>1. B - i \in Nat /\ i + (B - i) = B /\ B - i - 1 \in Nat /\ (B - i - 1) + 1 = B - i
    BY <1>1
  <2>. HIDE DEF B
  <2>. QED  BY <1>1, <2>1, TwoToFactors, TwoToLaws
<1>4. TwoTo(i) \in Nat /\ TwoTo(i) >= 1 /\ TwoTo(B - i - 1) \in Nat /\ TwoTo(B - i) \in Nat
      /\ TwoTo(B - m) \in Nat /\ TwoTo(B - m) >= 1 /\ TwoTo(B) \in Nat
  <2>1. B - i - 1 \in Nat /\ B - i \in Nat /\ B - m \in Nat
    BY <1>1
  <2>. QED  BY <1>1, <2>1, TwoToLaws
<1>5. CASE i < B - m
  <2> DEFINE q == TwoTo(B - i - 1) - TwoTo(B - m - i - 1)
  <2>1. TwoTo(B - m) = TwoTo(B - m - i) * TwoTo(i)
        /\ TwoTo(B - m - i) = 2 * TwoTo(B - m - i - 1)
        /\ TwoTo(B - m - i - 1) \in Nat
    <3>1. B - m - i \in Nat /\ i + (B - m - i) = B - m
          /\ B - m - i - 1 \in Nat /\ (B - m - i - 1) + 1 = B - m - i
      BY <1>1, <1>5
    <3>. HIDE DEF B
    <3>. QED  BY <1>1, <3>1, TwoToFactors, TwoToLaws
  <2>2. q \in Int
    BY <1>4, <2>1
  <2>3. N = (2 * q) * TwoTo(i) + 0
    <3>1. \A a, b, c \in Int : (2 * a) * c - (2 * b) * c = (2 * (a - b)) * c + 0
      OBVIOUS
    <3>. QED  BY <1>2, <1>3, <1>4, <2>1, <3>1
  <2>4. N \div TwoTo(i) = 2 * q
    <3>1. N \in Int /\ 2 * q \in Int /\ TwoTo(i) \in Int /\ 0 < TwoTo(i)
      BY <1>2, <1>4, <2>2
    <3>. HIDE DEF N, q
    <3>. QED  BY <2>3, <3>1, Quotient
  <2>5. (2 * q) % 2 = 0
    BY <2>2, OddOrEven
  <2>. QED  BY <2>4, <2>5, <1>5
<1>6. CASE ~(i < B - m)
  <2> DEFINE q == TwoTo(B - i - 1) - 1
             r == TwoTo(i) - TwoTo(B - m)
  <2>1. TwoTo(B - m) <= TwoTo(i)
    <3>1. B - m \in Nat /\ (B - m = i \/ B - m < i)
      BY <1>1, <1>6
    <3>2. CASE B - m < i
      BY <1>1, <1>4, <3>1, <3>2, TwoToGrows
    <3>. QED  BY <1>4, <3>1, <3>2
  <2>2. q \in Int /\ r \in Int /\ 0 <= r /\ r < TwoTo(i)
    BY <1>4, <2>1
  <2>3. N = (2 * q + 1) * TwoTo(i) + r
    <3>1. \A a, b, c \in Int : (2 * a) * c - b = (2 * (a - 1) + 1) * c + (c - b)
      OBVIOUS
    <3>. QED  BY <1>2, <1>3, <1>4, <3>1
  <2>4. N \div TwoTo(i) = 2 * q + 1
    <3>1. N \in Int /\ 2 * q + 1 \in Int /\ TwoTo(i) \in Int
      BY <1>2, <1>4, <2>2
    <3>. HIDE DEF N, q, r
    <3>. QED  BY <2>2, <2>3, <3>1, Quotient
  <2>5. (2 * q + 1) % 2 = 1
    BY <2>2, OddOrEven
  <2>. QED  BY <2>4, <2>5, <1>6
<1>. QED  BY <1>5, <1>6

\* The highest bit of a mask is set.
LEMMA MaskIsLong ==
  ASSUME NEW m \in 1 .. AddressBits - 1
  PROVE  /\ mask_to_bytes(m, AddressBits) \in Nat
         /\ mask_to_bytes(m, AddressBits) < TwoTo(AddressBits)
         /\ \A k \in 0 .. AddressBits - 1 : mask_to_bytes(m, AddressBits) >= TwoTo(k)
<1> DEFINE B == AddressBits
           N == mask_to_bytes(m, B)
<1>1. B \in Nat /\ m \in Nat /\ 1 <= m /\ m < B /\ B - 1 \in Nat /\ B - m \in Nat
      /\ (B - 1) + 1 = B
  BY FieldAssumption
<1>2. N = TwoTo(B) - TwoTo(B - m)
  BY DEF mask_to_bytes
<1>3. TwoTo(B) = 2 * TwoTo(B - 1) /\ TwoTo(B - 1) \in Nat /\ TwoTo(B) \in Nat
      /\ TwoTo(B - m) \in Nat /\ TwoTo(B - m) >= 1
  BY <1>1, TwoToLaws
<1>4. ASSUME NEW k \in 0 .. B - 1 PROVE TwoTo(k) <= TwoTo(B - 1)
  <2>1. TwoTo(k) \in Nat /\ (k = B - 1 \/ k < B - 1) /\ k \in Nat
    BY <1>1, TwoToLaws
  <2>2. CASE k < B - 1
    BY <1>1, <1>3, <2>1, <2>2, TwoToGrows
  <2>. QED  BY <1>3, <2>1, <2>2
<1>5. TwoTo(B - m) <= TwoTo(B - 1)
  BY <1>1, <1>4
<1>6. N \in Nat /\ N < TwoTo(B) /\ N >= TwoTo(B - 1)
  BY <1>2, <1>3, <1>5
<1>7. \A k \in 0 .. B - 1 : N >= TwoTo(k)
  <2>1. \A k \in 0 .. B - 1 : TwoTo(k) \in Nat
    BY <1>1, TwoToLaws
  <2>. QED  BY <1>3, <1>4, <1>6, <2>1
<1>. QED  BY <1>6, <1>7

LEMMA MaskIsCountable ==
  ASSUME NEW m \in 0 .. AddressBits - 1
  PROVE  Countable(mask_to_bytes(m, AddressBits))
<1>1. AddressBits \in Nat
  BY FieldAssumption
<1>2. SUFFICES ASSUME NEW n \in 1 .. AddressBits - 1
               PROVE  mask_to_bytes(m, AddressBits) # TwoTo(n) - 1
  BY DEF Countable, AllOnes
<1>3. n \in Nat /\ n - 1 \in Nat /\ (n - 1) + 1 = n /\ AddressBits - 0 = AddressBits
  BY <1>1
<1>4. TwoTo(n) = 2 * TwoTo(n - 1) /\ TwoTo(n - 1) \in Nat /\ TwoTo(n - 1) >= 1
      /\ TwoTo(n) \in Nat
  BY <1>3, TwoToLaws
<1>5. CASE m = 0
  <2>1. mask_to_bytes(m, AddressBits) = TwoTo(AddressBits) - TwoTo(AddressBits)
    BY <1>3, <1>5 DEF mask_to_bytes
  <2>2. TwoTo(AddressBits) \in Nat
    BY <1>1, TwoToLaws
  <2>. QED  BY <1>4, <2>1, <2>2
<1>6. CASE m # 0
  <2>1. m \in 1 .. AddressBits - 1
    BY <1>1, <1>6
  <2>2. mask_to_bytes(m, AddressBits) \in Nat /\ mask_to_bytes(m, AddressBits) >= TwoTo(n)
    <3>1. n \in 0 .. AddressBits - 1
      BY <1>1
    <3>. QED  BY <2>1, <3>1, MaskIsLong
  <2>. QED  BY <1>4, <2>2
<1>. QED  BY <1>5, <1>6

\* A prefix that is written as a mask is counted as what it was.
LEMMA MaskIsCounted ==
  ASSUME NEW m \in 0 .. AddressBits - 1
  PROVE  bytes_to_mask(mask_to_bytes(m, AddressBits)) = m
<1> DEFINE B == AddressBits
           N == mask_to_bytes(m, B)
           Long(n) == N < TwoTo(n) /\ \A k \in 0 .. n - 1 : N >= TwoTo(k)
           length == CHOOSE n \in 0 .. B : Long(n)
           first0 == {i \in 0 .. length - 1 : ~((N \div TwoTo(i)) % 2 = 1)}
           highest == CHOOSE i \in first0 : \A j \in first0 : j <= i
<1>1. B \in Nat /\ m \in 0 .. B - 1 /\ m \in Nat
  BY FieldAssumption
<1>2. bytes_to_mask(N) = IF first0 = {} THEN length ELSE length - 1 - highest
  BY DEF bytes_to_mask
<1>3. ASSUME NEW n \in 0 .. B, Long(n) PROVE length = n
  <2>1. ASSUME NEW k \in 0 .. B, Long(k) PROVE k = n
    <3>1. ~(n < k)
      <4>1. ASSUME n < k PROVE FALSE
        <5>1. n \in 0 .. k - 1
          BY <1>1, <4>1
        <5>2. N >= TwoTo(n) /\ N < TwoTo(n)
          BY <1>3, <2>1, <5>1
        <5>3. TwoTo(n) \in Nat /\ TwoTo(B) \in Nat /\ TwoTo(B - m) \in Nat
          BY <1>1, TwoToLaws
        <5>4. N \in Int
          BY <1>1, <5>3 DEF mask_to_bytes
        <5>. HIDE DEF N
        <5>. QED  BY <5>2, <5>3, <5>4
      <4>. QED  BY <4>1
    <3>2. ~(k < n)
      <4>1. ASSUME k < n PROVE FALSE
        <5>1. k \in 0 .. n - 1
          BY <1>1, <4>1
        <5>2. N >= TwoTo(k) /\ N < TwoTo(k)
          BY <1>3, <2>1, <5>1
        <5>3. TwoTo(k) \in Nat /\ TwoTo(B) \in Nat /\ TwoTo(B - m) \in Nat
          BY <1>1, TwoToLaws
        <5>4. N \in Int
          BY <1>1, <5>3 DEF mask_to_bytes
        <5>. HIDE DEF N
        <5>. QED  BY <5>2, <5>3, <5>4
      <4>. QED  BY <4>1
    <3>. QED  BY <3>1, <3>2, <1>1
  <2>. HIDE DEF Long
  <2>. QED  BY <1>3, <2>1
<1>4. CASE m = 0
  <2>1. TwoTo(B) \in Nat /\ TwoTo(0) = 1 /\ B - 0 = B
    BY <1>1, TwoToLaws
  <2>2. N = 0
    BY <1>4, <2>1 DEF mask_to_bytes
  <2>3. Long(0)
    BY <2>1, <2>2
  <2>4. length = 0
    <3>. HIDE DEF Long, length
    <3>. QED  BY <1>1, <1>3, <2>3
  <2>5. first0 = {}
    <3>. HIDE DEF length
    <3>. QED  BY <2>4
  <2>. HIDE DEF N, length, first0, highest
  <2>. QED  BY <1>2, <1>4, <2>4, <2>5 DEF N
<1>5. CASE m # 0
  <2>1. m \in 1 .. B - 1 /\ 1 <= m
    BY <1>1, <1>5
  <2>2. Long(B)
    BY <2>1, MaskIsLong
  <2>3. length = B
    <3>. HIDE DEF Long, length
    <3>. QED  BY <1>1, <1>3, <2>2
  <2>4. \A i \in 0 .. B - 1 : (N \div TwoTo(i)) % 2 = IF i < B - m THEN 0 ELSE 1
    BY <2>1, BitsOfMask
  <2>5. first0 = 0 .. B - m - 1
    <3>1. first0 = {i \in 0 .. B - 1 : ~((N \div TwoTo(i)) % 2 = 1)}
      <4>. HIDE DEF length, N
      <4>. QED  BY <2>3
    <3> DEFINE bit(i) == (N \div TwoTo(i)) % 2
    <3>2. \A i \in 0 .. B - 1 : bit(i) = IF i < B - m THEN 0 ELSE 1
      BY <2>4
    <3>3. first0 = {i \in 0 .. B - 1 : ~(bit(i) = 1)}
      BY <3>1
    <3>. HIDE DEF bit, first0
    <3>. QED  BY <1>1, <2>1, <3>2, <3>3
  <2>6. highest = B - m - 1
    <3>1. B - m - 1 \in first0 /\ \A j \in first0 : j <= B - m - 1
      <4>. HIDE DEF first0
      <4>. QED  BY <1>1, <2>1, <2>5
    <3>2. ASSUME NEW i \in first0, \A j \in first0 : j <= i
          PROVE  i = B - m - 1
      <4>. HIDE DEF first0
      <4>. QED  BY <1>1, <2>5, <3>1, <3>2
    <3>. HIDE DEF first0
    <3>. QED  BY <3>1, <3>2
  <2>7. first0 # {}
    <3>. HIDE DEF first0
    <3>. QED  BY <1>1, <2>1, <2>5
  <2>. HIDE DEF N, length, first0, highest
  <2>8. bytes_to_mask(N) = B - 1 - (B - m - 1)
    BY <1>2, <2>3, <2>6, <2>7
  <2>. QED  BY <1>1, <2>8 DEF N
<1>. QED  BY <1>4, <1>5

-------------------------------------------------------------------------------
(* A value that has one form is read back from its TLV.                    *)

LEMMA PresentIsRead ==
  /\ OFPVID_PRESENT \in Nat /\ OFPVID_PRESENT >= 1
  /\ VlanRead(0) = 0
  /\ \A v \in 1 .. OFPVID_PRESENT :
        WithPresent(v) \in Nat /\ WithPresent(v) # 0 /\ VlanRead(WithPresent(v)) = v
<1> DEFINE P == OFPVID_PRESENT
<1>1. P \in Nat /\ P >= 1
  <2>1. PICK n \in 1 .. 15 : P = TwoTo(n)
    BY FieldAssumption
  <2>. QED  BY <2>1, TwoToLaws
<1>. HIDE DEF P
<1>2. 0 % P = 0
  <2>1. 0 = 0 * P + 0 /\ 0 < P /\ P \in Int
    BY <1>1
  <2>. QED  BY <2>1, Quotient
<1>3. ASSUME NEW v \in 1 .. P, v # P
      PROVE  v \div P = 0 /\ (v + P) % P = v
  <2>1. v = 0 * P + v /\ v + P = 1 * P + v /\ 0 <= v /\ v < P /\ v \in Int /\ P \in Int
        /\ v + P \in Int
    BY <1>1, <1>3
  <2>2. v \div P = 0
    BY <2>1, Quotient
  <2>3. (v + P) % P = v
    BY <2>1, Quotient
  <2>. QED  BY <2>2, <2>3
<1>4. P \div P = 1
  <2>1. P = 1 * P + 0 /\ 0 < P /\ P \in Int
    BY <1>1
  <2>. QED  BY <2>1, Quotient
<1>5. 0 % 2 = 0 /\ 1 % 2 = 1
  OBVIOUS
<1>6. ASSUME NEW v \in 1 .. P
      PROVE  WithPresent(v) \in Nat /\ WithPresent(v) # 0 /\ VlanRead(WithPresent(v)) = v
  <2>1. CASE v = P
    <3>1. WithPresent(v) = P
      BY <1>4, <1>5, <2>1 DEF WithPresent, P
    <3>. QED  BY <1>1, <2>1, <3>1 DEF VlanRead, P
  <2>2. CASE v # P
    <3>1. WithPresent(v) = v + P
      BY <1>3, <1>5, <2>2 DEF WithPresent, P
    <3>2. v + P # P /\ v + P \in Nat /\ v + P # 0
      BY <1>1, <2>2
    <3>. QED  BY <1>3, <2>2, <3>1, <3>2 DEF VlanRead, P
  <2>. QED  BY <2>1, <2>2
<1>7. VlanRead(0) = 0
  BY <1>2 DEF VlanRead, P
<1>. QED  BY <1>1, <1>6, <1>7 DEF P

LEMMA VlanReadsBack ==
  ASSUME NEW n \in 0 .. OFPVID_PRESENT, NEW m \in {NoMask} \union 0 .. OFPVID_PRESENT
  PROVE  VlanFromTlv(VlanAsTlv(Value(n, m))) = Value(n, m)
<1> DEFINE id   == IF n = 0 THEN OFPVID_NONE ELSE WithPresent(n)
           mask == IF m \in {NoMask, 0} THEN NoMask ELSE WithPresent(m)
<1>1. OFPVID_PRESENT \in Nat
  BY PresentIsRead
<1>2. VlanAsTlv(Value(n, m)) = Tlv(m # NoMask, id, mask)
  BY DEF VlanAsTlv, Value, Spelled
<1>3. VlanRead(id) = n
  <2>1. n = 0 \/ n \in 1 .. OFPVID_PRESENT
    BY <1>1
  <2>. QED  BY <2>1, PresentIsRead DEF OFPVID_NONE
<1>4. m # NoMask => VlanRead(IF mask = NoMask THEN 0 ELSE mask) = m
  <2>1. CASE m = 0
    BY <2>1, PresentIsRead DEF NoMask
  <2>2. CASE m # 0 /\ m # NoMask
    <3>1. m \in 1 .. OFPVID_PRESENT
      BY <1>1, <2>2 DEF NoMask
    <3>2. WithPresent(m) # NoMask
      BY <3>1, PresentIsRead DEF NoMask
    <3>. QED  BY <2>2, <3>1, <3>2, PresentIsRead
  <2>. QED  BY <2>1, <2>2
<1>5. VlanFromTlv(Tlv(m # NoMask, id, mask))
         = Value(VlanRead(id), IF m # NoMask THEN VlanRead(IF mask = NoMask THEN 0 ELSE mask)
                               ELSE NoMask)
  <2>. HIDE DEF id, mask
  <2>. QED  BY DEF VlanFromTlv, Tlv, MaskRead
<1>. HIDE DEF id, mask
<1>. QED  BY <1>2, <1>3, <1>4, <1>5

LEMMA IpReadsBack ==
  ASSUME NEW n, NEW m \in {NoMask} \union 0 .. AddressBits - 1
  PROVE  /\ IpFromTlv(IpAsTlv(Value(n, m))) = Value(n, m)
         /\ IpAsTlv(Value(n, m)).hasmask => Countable(IpAsTlv(Value(n, m)).mask)
<1>1. AddressBits \in Nat
  BY FieldAssumption
<1>2. CASE m = NoMask
  <2>1. IpAsTlv(Value(n, m)) = Tlv(FALSE, n, NoMask)
    <3>1. (AddressBits < AddressBits) = FALSE
      BY <1>1
    <3>. QED  BY <1>2, <3>1 DEF IpAsTlv, Value, Spelled, Tlv
  <2>. QED  BY <1>2, <2>1 DEF IpFromTlv, Tlv, Value, Spelled
<1>3. CASE m # NoMask
  <2>1. m \in 0 .. AddressBits - 1 /\ m < AddressBits
    BY <1>1, <1>3
  <2>2. IpAsTlv(Value(n, m)) = Tlv(TRUE, n, mask_to_bytes(m, AddressBits))
    BY <1>3, <2>1 DEF IpAsTlv, Value, Spelled
  <2>3. bytes_to_mask(mask_to_bytes(m, AddressBits)) = m
        /\ Countable(mask_to_bytes(m, AddressBits))
    BY <2>1, MaskIsCounted, MaskIsCountable
  <2>. QED  BY <2>2, <2>3 DEF IpFromTlv, Tlv
<1>. QED  BY <1>2, <1>3

LEMMA MaskedReadsBack ==
  ASSUME NEW n, NEW m
  PROVE  MaskedFromTlv(MaskedAsTlv(Value(n, m))) = Value(n, m)
BY DEF MaskedFromTlv, MaskedAsTlv, MaskBytes, MaskRead, Tlv, Value, Spelled, NoMask

LEMMA MacReadsBack ==
  ASSUME NEW n, NEW m, m # AllOnes(AddressBits)
  PROVE  MacFromTlv(MacAsTlv(Value(n, m))) = Value(n, m)
BY DEF MacFromTlv, MacAsTlv, Tlv, Value, Spelled

LEMMA PlainReadsBack ==
  ASSUME NEW n
  PROVE  PlainFromTlv(PlainAsTlv(Value(n, NoMask))) = Value(n, NoMask)
BY DEF PlainFromTlv, PlainAsTlv, Tlv, Value, Spelled

-------------------------------------------------------------------------------
(* The classes.                                                            *)

LEMMA KindsOfFields ==
  \A f \in Fields :
     /\ f.kind \in {"plain", "vlan", "mac", "ip", "masked"}
     /\ Normalised(f.name) => f.kind = "ip"
BY DEF Fields, LinkFields, PacketFields, TransportFields, ArpFields, TunnelFields,
       IPv6Fields, Class, Normalised

\* No two classes have one name or one oxm_field.
LEMMA NamesAreUnique == \A f, g \in Fields : f.name = g.name => f = g
BY SMTT(60) DEF Fields, LinkFields, PacketFields, TransportFields, ArpFields,
                TunnelFields, IPv6Fields, Class

LEMMA OxmFieldsAreUnique == \A f, g \in Fields : f.oxm = g.oxm => f = g
BY SMTT(60) DEF Fields, LinkFields, PacketFields, TransportFields, ArpFields,
                TunnelFields, IPv6Fields, Class

LEMMA FieldOfName ==
  ASSUME NEW name \in Names
  PROVE  NamedField(name) \in Fields /\ NamedField(name).name = name
BY DEF Names, NamedField

LEMMA FieldIsFound ==
  ASSUME NEW f \in Fields
  PROVE  /\ f.name \in Names /\ NamedField(f.name) = f
         /\ HasClass(f.oxm) /\ OxmField(f.oxm) = f
<1>1. \A g \in Fields : g.name = f.name => g = f
  BY NamesAreUnique
<1>2. \A g \in Fields : g.oxm = f.oxm => g = f
  BY OxmFieldsAreUnique
<1>3. f.name \in Names
  BY DEF Names
<1>4. NamedField(f.name) = f
  BY <1>1 DEF NamedField
<1>5. OxmField(f.oxm) = f
  BY <1>2 DEF OxmField
<1>. QED  BY <1>3, <1>4, <1>5 DEF HasClass

\* A spelling is not written.
LEMMA TlvHasNoSpelling ==
  ASSUME NEW f \in Fields, NEW x
  PROVE  AsTlv(f.kind, x) = AsTlv(f.kind, Value(x.number, x.mask))
<1> DEFINE y == Value(x.number, x.mask)
<1>1. y.number = x.number /\ y.mask = x.mask
  BY DEF Value, Spelled
<1>. HIDE DEF y
<1>2. PlainAsTlv(y) = PlainAsTlv(x) /\ VlanAsTlv(y) = VlanAsTlv(x)
      /\ MaskedAsTlv(y) = MaskedAsTlv(x) /\ MacAsTlv(y) = MacAsTlv(x)
      /\ IpAsTlv(y) = IpAsTlv(x)
  BY <1>1 DEF PlainAsTlv, VlanAsTlv, MaskedAsTlv, MacAsTlv, IpAsTlv
<1>3. f.kind \in {"plain", "vlan", "mac", "ip", "masked"}
  BY KindsOfFields
<1>4. AsTlv(f.kind, y) = AsTlv(f.kind, x)
  BY <1>2, <1>3 DEF AsTlv
<1>. QED  BY <1>4 DEF y

LEMMA ValueReadsBack ==
  ASSUME NEW f \in Fields, NEW x, OneForm(f, x), f.kind = "ip" => x.mask # AddressBits,
         f.kind = "plain" => x.mask = NoMask
  PROVE  /\ FromTlv(f.kind, AsTlv(f.kind, x)) = Value(x.number, x.mask)
         /\ f.kind = "ip" /\ AsTlv(f.kind, x).hasmask => Countable(AsTlv(f.kind, x).mask)
<1> DEFINE y == Value(x.number, x.mask)
<1>1. AsTlv(f.kind, x) = AsTlv(f.kind, y)
  BY TlvHasNoSpelling
<1>2. f.kind \in {"plain", "vlan", "mac", "ip", "masked"}
  BY KindsOfFields
<1>3. CASE f.kind = "plain"
  BY <1>1, <1>3, PlainReadsBack DEF AsTlv, FromTlv
<1>4. CASE f.kind = "vlan"
  <2>1. x.number \in 0 .. OFPVID_PRESENT /\ x.mask \in {NoMask} \union 0 .. OFPVID_PRESENT
    BY <1>4 DEF OneForm
  <2>2. VlanFromTlv(VlanAsTlv(y)) = y
    BY <2>1, VlanReadsBack
  <2>. QED  BY <1>1, <1>4, <2>2 DEF AsTlv, FromTlv
<1>5. CASE f.kind = "mac"
  <2>1. MacFromTlv(MacAsTlv(y)) = y
    BY <1>5, MacReadsBack DEF OneForm
  <2>. QED  BY <1>1, <1>5, <2>1 DEF AsTlv, FromTlv
<1>6. CASE f.kind = "ip"
  <2>1. x.mask \in {NoMask} \union 0 .. AddressBits - 1
    <3>1. x.mask \in {NoMask} \union 0 .. AddressBits /\ x.mask # AddressBits
      BY <1>6 DEF OneForm
    <3>. QED  BY <3>1, FieldAssumption
  <2>2. IpFromTlv(IpAsTlv(y)) = y /\ (IpAsTlv(y).hasmask => Countable(IpAsTlv(y).mask))
    BY <2>1, IpReadsBack
  <2>3. AsTlv(f.kind, y) = IpAsTlv(y) /\ \A t : FromTlv(f.kind, t) = IpFromTlv(t)
    BY <1>6 DEF AsTlv, FromTlv
  <2>. QED  BY <1>1, <2>2, <2>3
<1>7. CASE f.kind = "masked"
  <2>1. MaskedFromTlv(MaskedAsTlv(y)) = y
    BY MaskedReadsBack
  <2>. QED  BY <1>1, <1>7, <2>1 DEF AsTlv, FromTlv
<1>. QED  BY <1>2, <1>3, <1>4, <1>5, <1>6, <1>7

-------------------------------------------------------------------------------
(* Matches.                                                                *)

LEMMA SetOnce ==
  ASSUME NEW name, NEW x
  PROVE  SetTo(name, SetTo(name, x)) = SetTo(name, x)
<1>1. NoMask # AddressBits
  BY FieldAssumption DEF NoMask
<1>. QED  BY <1>1 DEF SetTo, Value, Spelled

\* A match that is made from a dictionary, or from any TLVs, is one.
LEMMA MatchIsMade ==
  /\ \A dict : MatchIsSet(MatchFromDict(dict))
  /\ \A tlvs : MatchIsSet(from_of_match(tlvs))
<1>1. ASSUME NEW dict PROVE MatchIsSet(MatchFromDict(dict))
  <2> DEFINE m == MatchFromDict(dict)
  <2>1. m = [name \in DOMAIN dict \intersect Names |-> SetTo(name, dict[name])]
    BY DEF MatchFromDict
  <2>2. DOMAIN m = DOMAIN dict \intersect Names
    BY <2>1
  <2>3. \A name \in DOMAIN m : SetTo(name, m[name]) = m[name]
    BY <2>1, <2>2, SetOnce
  <2>4. m = [name \in DOMAIN m |-> m[name]]
    BY <2>1
  <2>. HIDE DEF m
  <2>. QED  BY <2>2, <2>3, <2>4 DEF MatchIsSet, IsMap, m
<1>2. ASSUME NEW tlvs PROVE MatchIsSet(from_of_match(tlvs))
  <2> DEFINE m        == from_of_match(tlvs)
             known    == {t \in tlvs : HasClass(t.oxm)}
             read     == {OxmField(t.oxm).name : t \in known}
             tlv(f)   == (CHOOSE t \in known : t.oxm = f.oxm).tlv
             value(n) == FromTlv(NamedField(n).kind, tlv(NamedField(n)))
  <2>1. m = [n \in read |-> SetTo(n, value(n))]
    BY DEF from_of_match
  <2>2. read \subseteq Names
    <3>1. ASSUME NEW t \in known PROVE OxmField(t.oxm).name \in Names
      <4>1. \E f \in Fields : f.oxm = t.oxm
        BY DEF HasClass
      <4>2. OxmField(t.oxm) \in Fields
        BY <4>1 DEF OxmField
      <4>. QED  BY <4>2 DEF Names
    <3>. QED  BY <3>1
  <2>. HIDE DEF m, read, value
  <2>3. DOMAIN m = read /\ m = [n \in DOMAIN m |-> m[n]]
    BY <2>1
  <2>4. \A n \in DOMAIN m : SetTo(n, m[n]) = m[n]
    BY <2>1, <2>3, SetOnce
  <2>. QED  BY <2>2, <2>3, <2>4 DEF MatchIsSet, IsMap, m
<1>. QED  BY <1>1, <1>2

\* The TLVs of a match do not tell how its values were spelled.
LEMMA TlvsHaveNoSpelling ==
  ASSUME NEW match, DOMAIN match \subseteq Names
  PROVE  as_of_match(UsuallySpelled(match)) = as_of_match(match)
<1> DEFINE F(n) == NamedField(n)
           u    == UsuallySpelled(match)
<1>1. DOMAIN u = DOMAIN match
      /\ \A n \in DOMAIN match : u[n] = Value(match[n].number, match[n].mask)
  BY DEF UsuallySpelled
<1>2. ASSUME NEW n \in DOMAIN match
      PROVE  AsTlv(F(n).kind, u[n]) = AsTlv(F(n).kind, match[n])
  <2>1. F(n) \in Fields
    BY FieldOfName
  <2>. HIDE DEF F, u
  <2>. QED  BY <1>1, <2>1, TlvHasNoSpelling
<1>3. /\ as_of_match(u) = {[oxm |-> F(n).oxm, tlv |-> AsTlv(F(n).kind, u[n])] : n \in DOMAIN u}
      /\ as_of_match(match) = {[oxm |-> F(n).oxm, tlv |-> AsTlv(F(n).kind, match[n])] :
                                  n \in DOMAIN match}
  BY DEF as_of_match
<1>. HIDE DEF F, u
<1>4. as_of_match(u) = as_of_match(match)
  BY <1>1, <1>2, <1>3
<1>. QED  BY <1>4 DEF u

\* A match whose values have one form is what is read from its TLVs, as from_of_tlv
\* spells it.
THEOREM MatchReadsBack ==
  ASSUME NEW match, MatchIsSet(match), MatchHasOneForm(match)
  PROVE  /\ from_of_match(as_of_match(match)) = UsuallySpelled(match)
         /\ MatchReadable(as_of_match(match))
<1> DEFINE D     == DOMAIN match
           F(n)  == NamedField(n)
           T(n)  == [oxm |-> F(n).oxm, tlv |-> AsTlv(F(n).kind, match[n])]
           V(n)  == Value(match[n].number, match[n].mask)
           tlvs  == as_of_match(match)
<1>1. D \subseteq Names /\ match = [n \in D |-> match[n]]
      /\ \A n \in D : SetTo(n, match[n]) = match[n]
  BY DEF MatchIsSet, IsMap
<1>2. ASSUME NEW n \in D
      PROVE  /\ F(n) \in Fields /\ F(n).name = n /\ HasClass(F(n).oxm)
             /\ OxmField(F(n).oxm) = F(n)
  BY <1>1, FieldOfName, FieldIsFound
<1>3. ASSUME NEW n \in D
      PROVE  /\ FromTlv(F(n).kind, AsTlv(F(n).kind, match[n])) = V(n)
             /\ F(n).kind = "ip" /\ AsTlv(F(n).kind, match[n]).hasmask
                   => Countable(AsTlv(F(n).kind, match[n]).mask)
             /\ Settable(n, V(n)) /\ SetTo(n, V(n)) = V(n)
  <2>1. /\ OneForm(F(n), match[n]) /\ Settable(n, match[n])
        /\ F(n).kind = "ip" => match[n].mask # AddressBits
        /\ F(n).kind = "plain" => match[n].mask = NoMask
    BY DEF MatchHasOneForm
  <2>2. F(n) \in Fields /\ (Normalised(n) => F(n).kind = "ip")
    BY <1>2, KindsOfFields
  <2>3. V(n).number = match[n].number /\ V(n).mask = match[n].mask
        /\ V(n) = Value(V(n).number, V(n).mask)
    BY DEF Value, Spelled
  <2>. HIDE DEF F, V
  <2>4. Settable(n, V(n))
    BY <2>1, <2>3 DEF Settable
  <2>5. SetTo(n, V(n)) = V(n)
    BY <2>1, <2>2, <2>3 DEF SetTo
  <2>6. /\ FromTlv(F(n).kind, AsTlv(F(n).kind, match[n])) = Value(match[n].number, match[n].mask)
        /\ F(n).kind = "ip" /\ AsTlv(F(n).kind, match[n]).hasmask
              => Countable(AsTlv(F(n).kind, match[n]).mask)
    BY <2>1, <2>2, ValueReadsBack
  <2>. QED  BY <2>4, <2>5, <2>6 DEF V
<1>4. tlvs = {T(n) : n \in D}
  BY DEF as_of_match
<1>5. ASSUME NEW n \in D
      PROVE  T(n).oxm = F(n).oxm /\ T(n).tlv = AsTlv(F(n).kind, match[n])
  OBVIOUS
<1>6. ASSUME NEW n \in D, NEW k \in D, T(k).oxm = T(n).oxm PROVE k = n
  <2>1. OxmField(F(k).oxm) = F(k) /\ OxmField(F(n).oxm) = F(n)
        /\ F(k).name = k /\ F(n).name = n
    BY <1>2
  <2>2. F(k).oxm = F(n).oxm
    BY <1>5, <1>6
  <2>. HIDE DEF F
  <2>. QED  BY <2>1, <2>2
<1>7. from_of_match(tlvs) = [n \in D |-> V(n)]
  <2> DEFINE known    == {t \in tlvs : HasClass(t.oxm)}
             tlv(f)   == (CHOOSE t \in known : t.oxm = f.oxm).tlv
             read     == {OxmField(t.oxm).name : t \in known}
             value(n) == SetTo(n, FromTlv(F(n).kind, tlv(F(n))))
  <2>1. from_of_match(tlvs) = [n \in read |-> value(n)]
    BY DEF from_of_match
  <2>2. known = {T(n) : n \in D}
    <3>. HIDE DEF F, tlvs
    <3>1. \A n \in D : HasClass(T(n).oxm)
      BY <1>2, <1>5
    <3>. HIDE DEF T
    <3>. QED  BY <1>4, <3>1
  <2>3. read = D
    <3>1. \A n \in D : OxmField(T(n).oxm).name = n
      BY <1>2, <1>5
    <3>. HIDE DEF T, known
    <3>. QED  BY <2>2, <3>1
  <2>4. ASSUME NEW n \in D PROVE value(n) = V(n)
    <3>1. (CHOOSE t \in known : t.oxm = F(n).oxm) = T(n)
      <4>1. T(n) \in known /\ T(n).oxm = F(n).oxm
        BY <2>2, <1>5
      <4>2. ASSUME NEW t \in known, t.oxm = F(n).oxm PROVE t = T(n)
        <5>1. PICK k \in D : t = T(k)
          BY <2>2
        <5>2. k = n
          <6>1. T(k).oxm = T(n).oxm
            BY <1>5, <4>2, <5>1
          <6>. QED  BY <1>6, <6>1
        <5>. QED  BY <5>1, <5>2
      <4>. HIDE DEF known, T, F
      <4>. QED  BY <4>1, <4>2
    <3>2. tlv(F(n)) = AsTlv(F(n).kind, match[n])
      BY <1>5, <3>1
    <3>. HIDE DEF tlv, known, F, V
    <3>. QED  BY <1>1, <1>3, <3>2
  <2>. HIDE DEF read, value, V
  <2>. QED  BY <1>1, <2>1, <2>3, <2>4
<1>8. MatchReadable(tlvs)
  <2>1. ASSUME NEW n \in D
        PROVE  /\ OxmField(T(n).oxm).kind = "ip" /\ T(n).tlv.hasmask => Countable(T(n).tlv.mask)
               /\ Settable(OxmField(T(n).oxm).name, FromTlv(OxmField(T(n).oxm).kind, T(n).tlv))
    <3>1. OxmField(T(n).oxm) = F(n) /\ F(n).name = n
      BY <1>2, <1>5
    <3>. HIDE DEF F, V
    <3>. QED  BY <1>3, <1>5, <3>1
  <2>. HIDE DEF T, tlvs
  <2>. QED  BY <1>4, <2>1 DEF MatchReadable
<1>. QED  BY <1>7, <1>8 DEF UsuallySpelled

-------------------------------------------------------------------------------
(* Lists.                                                                  *)

LEMMA ListIsFunction ==
  ASSUME NEW s, IsList(s)
  PROVE  /\ s \in Seq(Elements(s)) /\ Len(s) \in Nat
         /\ DOMAIN s = 1 .. Len(s) /\ s = [i \in DOMAIN s |-> s[i]]
         /\ \A i \in DOMAIN s : s[i] \in Elements(s)
BY DEF IsList, Elements

LEMMA FunctionIsList ==
  ASSUME NEW n \in Nat, NEW s, DOMAIN s = 1 .. n, s = [i \in 1 .. n |-> s[i]]
  PROVE  IsList(s)
<1>1. s \in [1 .. n -> Elements(s)]
  BY DEF Elements
<1>. QED  BY <1>1 DEF IsList

LEMMA EmptyIsList == IsList(<<>>) /\ Elements(<<>>) = {}
<1>1. DOMAIN <<>> = {}
  OBVIOUS
<1>2. Elements(<<>>) = {}
  BY <1>1 DEF Elements
<1>. QED  BY <1>2 DEF IsList

LEMMA SingleIsList ==
  ASSUME NEW e
  PROVE  IsList(<<e>>) /\ Elements(<<e>>) = {e}
<1>1. DOMAIN <<e>> = {1} /\ <<e>>[1] = e
  OBVIOUS
<1>2. Elements(<<e>>) = {e}
  BY <1>1 DEF Elements
<1>. QED  BY <1>2 DEF IsList

LEMMA JoinedIsList ==
  ASSUME NEW s, NEW t, IsList(s), IsList(t)
  PROVE  IsList(s \o t) /\ Elements(s \o t) = Elements(s) \union Elements(t)
<1> DEFINE S == Elements(s) \union Elements(t)
           u == s \o t
<1>1. s \in Seq(S) /\ t \in Seq(S)
  BY SeqMonotonic DEF IsList
<1>. HIDE DEF S
<1>2. /\ u \in Seq(S) /\ Len(u) = Len(s) + Len(t)
      /\ \A i \in 1 .. Len(s) + Len(t) :
            u[i] = IF i <= Len(s) THEN s[i] ELSE t[i - Len(s)]
  BY <1>1, ConcatProperties
<1>3. Len(s) \in Nat /\ Len(t) \in Nat /\ DOMAIN s = 1 .. Len(s) /\ DOMAIN t = 1 .. Len(t)
      /\ DOMAIN u = 1 .. Len(s) + Len(t)
  BY <1>1, <1>2
<1>. HIDE DEF u
<1>4. Elements(u) \subseteq Elements(s) \union Elements(t)
  <2>1. ASSUME NEW i \in DOMAIN u PROVE u[i] \in Elements(s) \union Elements(t)
    <3>1. CASE i <= Len(s)
      <4>1. u[i] = s[i] /\ i \in DOMAIN s
        BY <1>2, <1>3, <3>1
      <4>. QED  BY <4>1 DEF Elements
    <3>2. CASE ~(i <= Len(s))
      <4>1. u[i] = t[i - Len(s)] /\ i - Len(s) \in DOMAIN t
        BY <1>2, <1>3, <3>2
      <4>. QED  BY <4>1 DEF Elements
    <3>. QED  BY <3>1, <3>2
  <2>. QED  BY <2>1 DEF Elements
<1>5. Elements(s) \subseteq Elements(u)
  <2>1. ASSUME NEW i \in DOMAIN s PROVE s[i] \in Elements(u)
    <3>1. i \in DOMAIN u /\ u[i] = s[i]
      BY <1>2, <1>3
    <3>. QED  BY <3>1 DEF Elements
  <2>. QED  BY <2>1 DEF Elements
<1>6. Elements(t) \subseteq Elements(u)
  <2>1. ASSUME NEW i \in DOMAIN t PROVE t[i] \in Elements(u)
    <3>1. i + Len(s) \in DOMAIN u /\ u[i + Len(s)] = t[i]
      BY <1>2, <1>3
    <3>. QED  BY <3>1 DEF Elements
  <2>. QED  BY <2>1 DEF Elements
<1>7. IsList(u)
  <2>1. Len(s) + Len(t) \in Nat /\ u = [i \in 1 .. Len(s) + Len(t) |-> u[i]]
    BY <1>2, <1>3
  <2>. QED  BY <1>3, <2>1, FunctionIsList
<1>. QED  BY <1>4, <1>5, <1>6, <1>7 DEF u

-------------------------------------------------------------------------------
(* Actions and instructions.                                               *)

LEMMA ActionIsMade ==
  ASSUME NEW d, d.action_type \in ActionTypes
  PROVE  ActionIsKnown(ActionFromDict(d)) /\ ActionFromDict(d) # NoAction
         /\ ActionFromDict(d).action_type = d.action_type
BY DEF ActionTypes, ActionIsKnown, ActionFromDict, NoAction

LEMMA ActionIsRead ==
  ASSUME NEW o
  PROVE  from_of_action(o) = NoAction \/ ActionIsKnown(from_of_action(o))
BY DEF ActionTypes, ActionIsKnown, ActionFromDict, NoAction, from_of_action

LEMMA ActionIsNotNone ==
  ASSUME NEW a, ActionIsKnown(a)
  PROVE  a # NoAction
BY DEF ActionTypes, ActionIsKnown, NoAction

LEMMA ActionReadsBack ==
  ASSUME NEW a, ActionIsKnown(a), OneFormAction(a)
  PROVE  from_of_action(as_of_action(a)) = a
<1>1. a = ActionFromDict(a) /\ a.action_type \in ActionTypes
  BY DEF ActionIsKnown
<1>2. CASE a.action_type = "output"
  BY <1>1, <1>2 DEF ActionFromDict, as_of_action, from_of_action
<1>3. CASE a.action_type = "set_queue"
  BY <1>1, <1>3 DEF ActionFromDict, as_of_action, from_of_action
<1>4. CASE a.action_type = "pop_vlan"
  BY <1>1, <1>4 DEF ActionFromDict, as_of_action, from_of_action
<1>5. CASE a.action_type = "push_vlan"
  <2>1. VLAN_QINQ # VLAN
    BY DEF VLAN_QINQ, VLAN
  <2>2. a.tag_type \in {"s", "c"}
    BY <1>5 DEF OneFormAction
  <2>. QED  BY <1>1, <1>5, <2>1, <2>2 DEF ActionFromDict, as_of_action, from_of_action
<1>6. CASE a.action_type = "set_vlan"
  <2>1. a.vlan_id \in 0 .. OFPVID_PRESENT - 1
    BY <1>6 DEF OneFormAction
  <2>2. WithPresent(a.vlan_id) % OFPVID_PRESENT = a.vlan_id
    <3> DEFINE P == OFPVID_PRESENT
               v == a.vlan_id
    <3>1. P \in Int /\ 0 < P /\ v \in Int /\ 0 <= v /\ v < P /\ v + P \in Int
      BY <2>1, PresentIsRead
    <3>. HIDE DEF P, v
    <3>2. v = 0 * P + v /\ v + P = 1 * P + v
      BY <3>1
    <3>3. v \div P = 0
      BY <3>1, <3>2, Quotient
    <3>4. (v + P) % P = v
      BY <3>1, <3>2, Quotient
    <3>5. 0 % 2 = 0
      OBVIOUS
    <3>6. WithPresent(v) = v + P
      BY <3>3, <3>5 DEF WithPresent, P
    <3>. QED  BY <3>4, <3>6 DEF P, v
  <2>. QED  BY <1>1, <1>6, <2>2 DEF ActionFromDict, as_of_action, from_of_action
<1>. QED  BY <1>1, <1>2, <1>3, <1>4, <1>5, <1>6 DEF ActionTypes

\* What is done with each element of a list gives a list.
LEMMA EachIsList ==
  ASSUME NEW s, IsList(s), NEW r, r = [i \in DOMAIN s |-> r[i]]
  PROVE  /\ IsList(r) /\ DOMAIN r = DOMAIN s
         /\ \A e \in Elements(r) : \E i \in DOMAIN s : e = r[i] /\ s[i] \in Elements(s)
<1>1. Len(s) \in Nat /\ DOMAIN s = 1 .. Len(s)
  BY ListIsFunction
<1>2. DOMAIN r = DOMAIN s
  OBVIOUS
<1>3. IsList(r)
  <2>1. r = [i \in 1 .. Len(s) |-> r[i]] /\ DOMAIN r = 1 .. Len(s)
    BY <1>1, <1>2
  <2>. QED  BY <1>1, <2>1, FunctionIsList
<1>4. ASSUME NEW e \in Elements(r) PROVE \E i \in DOMAIN s : e = r[i] /\ s[i] \in Elements(s)
  BY <1>2 DEF Elements
<1>. QED  BY <1>2, <1>3, <1>4

LEMMA ActionsAreMade ==
  ASSUME NEW s, ActionsTaken(s)
  PROVE  /\ IsList(Each(ActionFromDict, s))
         /\ \A a \in Elements(Each(ActionFromDict, s)) : ActionIsKnown(a)
         /\ (\A a \in Elements(s) : OneFormAction(a))
               => \A a \in Elements(Each(ActionFromDict, s)) : OneFormAction(a)
<1> DEFINE r == Each(ActionFromDict, s)
<1>1. IsList(s) /\ \A a \in Elements(s) : a.action_type \in ActionTypes
  BY DEF ActionsTaken
<1>2. r = [i \in DOMAIN s |-> ActionFromDict(s[i])]
  BY DEF Each
<1>3. r = [i \in DOMAIN s |-> r[i]]
  BY <1>2
<1>4. IsList(r) /\ \A e \in Elements(r) : \E i \in DOMAIN s : e = r[i] /\ s[i] \in Elements(s)
  <2>. HIDE DEF r
  <2>. QED  BY <1>1, <1>3, EachIsList
<1>5. \A e \in Elements(r) : \E a \in Elements(s) : e = ActionFromDict(a)
  <2>. HIDE DEF r
  <2>. QED  BY <1>2, <1>4
<1>. HIDE DEF r
<1>6. \A e \in Elements(r) : ActionIsKnown(e)
  BY <1>1, <1>5, ActionIsMade
<1>7. ASSUME NEW a, a.action_type \in ActionTypes, OneFormAction(a)
      PROVE  OneFormAction(ActionFromDict(a))
  BY <1>7 DEF OneFormAction, ActionFromDict, ActionTypes
<1>8. ASSUME \A a \in Elements(s) : OneFormAction(a)
      PROVE  \A a \in Elements(r) : OneFormAction(a)
  BY <1>1, <1>5, <1>7, <1>8
<1>. QED  BY <1>4, <1>6, <1>8 DEF r

LEMMA ActionsAreRead ==
  ASSUME NEW s, IsList(s)
  PROVE  /\ IsList(Each(from_of_action, s)) /\ IsList(Each(as_of_action, s))
         /\ \A a \in Elements(Each(from_of_action, s)) : a = NoAction \/ ActionIsKnown(a)
<1> DEFINE r == Each(from_of_action, s)
           q == Each(as_of_action, s)
<1>1. r = [i \in DOMAIN s |-> from_of_action(s[i])] /\ r = [i \in DOMAIN s |-> r[i]]
      /\ q = [i \in DOMAIN s |-> q[i]]
  BY DEF Each
<1>2. IsList(r) /\ IsList(q)
      /\ \A e \in Elements(r) : \E i \in DOMAIN s : e = r[i] /\ s[i] \in Elements(s)
  <2>. HIDE DEF r, q
  <2>. QED  BY <1>1, EachIsList
<1>3. \A e \in Elements(r) : \E o : e = from_of_action(o)
  <2>. HIDE DEF r, q
  <2>. QED  BY <1>1, <1>2
<1>. HIDE DEF r, q
<1>4. \A a \in Elements(r) : a = NoAction \/ ActionIsKnown(a)
  BY <1>3, ActionIsRead
<1>. QED  BY <1>2, <1>4 DEF r, q

LEMMA ActionsReadBack ==
  ASSUME NEW s, IsList(s), \A a \in Elements(s) : ActionIsKnown(a) /\ OneFormAction(a)
  PROVE  Each(from_of_action, Each(as_of_action, s)) = s
<1> DEFINE q == Each(as_of_action, s)
<1>1. q = [i \in DOMAIN s |-> as_of_action(s[i])]
  BY DEF Each
<1>. HIDE DEF q
<1>2. DOMAIN q = DOMAIN s
  BY <1>1
<1>3. Each(from_of_action, q) = [i \in DOMAIN s |-> from_of_action(q[i])]
  BY <1>2 DEF Each
<1>4. ASSUME NEW i \in DOMAIN s PROVE from_of_action(q[i]) = s[i]
  <2>1. s[i] \in Elements(s)
    BY ListIsFunction
  <2>2. from_of_action(as_of_action(s[i])) = s[i]
    BY <2>1, ActionReadsBack
  <2>. QED  BY <1>1, <2>2
<1>5. s = [i \in DOMAIN s |-> s[i]]
  BY ListIsFunction
<1>. QED  BY <1>3, <1>4, <1>5 DEF q

\* The actions of a list that are known are their own dictionaries.
LEMMA KnownActionsStay ==
  ASSUME NEW s, IsList(s), \A a \in Elements(s) : a = NoAction \/ ActionIsKnown(a)
  PROVE  LET q == Only(s, {a \in Elements(s) : a # NoAction})
         IN  Each(ActionFromDict, q) = q
<1> DEFINE S == {a \in Elements(s) : a # NoAction}
           q == Only(s, S)
<1>1. q \in Seq(Elements(s) \intersect S)
  BY OnlyType DEF IsList
<1>2. \A a \in S : ActionFromDict(a) = a
  BY DEF ActionIsKnown
<1>. HIDE DEF S, q
<1>3. \A i \in DOMAIN q : q[i] \in S
  BY <1>1
<1>4. q = [i \in DOMAIN q |-> q[i]]
  BY <1>1
<1>5. Each(ActionFromDict, q) = q
  BY <1>2, <1>3, <1>4 DEF Each
<1>. QED  BY <1>5 DEF q, S

LEMMA InstructionIsMade ==
  ASSUME NEW n, InstructionReadable(n), n.instruction_type \in WithActions => ActionsTaken(n.actions)
  PROVE  /\ InstructionReadable(InstructionFromDict(n)) /\ InstructionIsRead(InstructionFromDict(n))
         /\ InstructionFromDict(n).instruction_type \in WithActions
               => NoAction \notin Elements(InstructionFromDict(n).actions)
         /\ OneFormInstruction(n) => OneFormInstruction(InstructionFromDict(n))
<1> DEFINE r == Each(ActionFromDict, n.actions)
<1>1. CASE n.instruction_type \in WithActions
  <2>1. ActionsTaken(n.actions)
    BY <1>1
  <2>2. /\ IsList(r) /\ \A a \in Elements(r) : ActionIsKnown(a)
        /\ (\A a \in Elements(n.actions) : OneFormAction(a)) => \A a \in Elements(r) : OneFormAction(a)
    BY <2>1, ActionsAreMade
  <2>. HIDE DEF r
  <2>3. InstructionFromDict(n) = [instruction_type |-> n.instruction_type, actions |-> r]
    BY <1>1 DEF InstructionFromDict, r
  <2>4. NoAction \notin Elements(r)
    BY <2>2, ActionIsNotNone
  <2>. QED  BY <1>1, <2>2, <2>3, <2>4
            DEF InstructionReadable, InstructionIsRead, OneFormInstruction
<1>2. CASE ~(n.instruction_type \in WithActions)
  BY <1>2 DEF InstructionFromDict, InstructionIsRead, OneFormInstruction
<1>. QED  BY <1>1, <1>2

LEMMA InstructionIsReadFromOf ==
  ASSUME NEW n, n.instruction_type \in WithActions => IsList(n.actions)
  PROVE  InstructionIsRead(from_of_instruction(n))
<1>1. CASE n.instruction_type \in WithActions
  BY <1>1, ActionsAreRead DEF from_of_instruction, InstructionIsRead
<1>2. CASE ~(n.instruction_type \in WithActions)
  BY <1>2 DEF from_of_instruction, InstructionIsRead
<1>. QED  BY <1>1, <1>2

LEMMA InstructionReadsBack ==
  ASSUME NEW n, InstructionIsRead(n), InstructionReadable(n), OneFormInstruction(n),
         n.instruction_type \in WithActions => NoAction \notin Elements(n.actions)
  PROVE  /\ from_of_instruction(as_of_instruction(n)) = n
         /\ InstructionReadable(as_of_instruction(n))
<1>1. CASE n.instruction_type \in WithActions
  <2>1. n = [instruction_type |-> n.instruction_type, actions |-> n.actions]
        /\ IsList(n.actions)
    BY <1>1 DEF InstructionIsRead
  <2>2. \A a \in Elements(n.actions) : ActionIsKnown(a) /\ OneFormAction(a)
    BY <1>1 DEF InstructionIsRead, OneFormInstruction
  <2>3. Each(from_of_action, Each(as_of_action, n.actions)) = n.actions
    BY <2>1, <2>2, ActionsReadBack
  <2>. QED  BY <1>1, <2>1, <2>3 DEF from_of_instruction, as_of_instruction, InstructionReadable
<1>2. CASE ~(n.instruction_type \in WithActions)
  BY <1>2 DEF from_of_instruction, as_of_instruction
<1>. QED  BY <1>1, <1>2

LEMMA InstructionIsItsDict ==
  ASSUME NEW n, InstructionIsRead(n)
  PROVE  InstructionFromDict(WithKnownActions(n)) = WithKnownActions(n)
<1>1. CASE n.instruction_type \in WithActions
  <2>1. LET q == Only(n.actions, {a \in Elements(n.actions) : a # NoAction})
        IN  Each(ActionFromDict, q) = q
    BY <1>1, KnownActionsStay DEF InstructionIsRead
  <2>. QED  BY <1>1, <2>1 DEF InstructionFromDict, WithKnownActions
<1>2. CASE ~(n.instruction_type \in WithActions)
  BY <1>2 DEF InstructionFromDict, WithKnownActions
<1>. QED  BY <1>1, <1>2

\* Lists of instructions.
InstructionsAreMade(s) ==
  /\ InstructionsAreRead(s)
  /\ \A n \in Elements(s) :
        /\ InstructionReadable(n)
        /\ n.instruction_type \in WithActions => NoAction \notin Elements(n.actions)

LEMMA InstructionsFromDicts ==
  ASSUME NEW s, InstructionsTaken(s)
  PROVE  /\ InstructionsAreMade(Each(InstructionFromDict, s))
         /\ (\A n \in Elements(s) : OneFormInstruction(n))
               => \A n \in Elements(Each(InstructionFromDict, s)) : OneFormInstruction(n)
<1> DEFINE r == Each(InstructionFromDict, s)
<1>1. IsList(s) /\ \A n \in Elements(s) :
         /\ InstructionReadable(n)
         /\ n.instruction_type \in WithActions => ActionsTaken(n.actions)
  BY DEF InstructionsTaken
<1>2. r = [i \in DOMAIN s |-> InstructionFromDict(s[i])] /\ r = [i \in DOMAIN s |-> r[i]]
  BY DEF Each
<1>. HIDE DEF r
<1>3. IsList(r) /\ \A e \in Elements(r) : \E i \in DOMAIN s : e = r[i] /\ s[i] \in Elements(s)
  BY <1>1, <1>2, EachIsList
<1>4. \A e \in Elements(r) : \E n \in Elements(s) : e = InstructionFromDict(n)
  BY <1>2, <1>3
<1>5. \A e \in Elements(r) :
         /\ InstructionReadable(e) /\ InstructionIsRead(e)
         /\ e.instruction_type \in WithActions => NoAction \notin Elements(e.actions)
  BY <1>1, <1>4, InstructionIsMade
<1>6. (\A n \in Elements(s) : OneFormInstruction(n)) => \A e \in Elements(r) : OneFormInstruction(e)
  BY <1>1, <1>4, InstructionIsMade
<1>. QED  BY <1>3, <1>5, <1>6 DEF InstructionsAreMade, InstructionsAreRead, r

LEMMA InstructionsFromOf ==
  ASSUME NEW s, IsList(s),
         \A n \in Elements(s) : n.instruction_type \in WithActions => IsList(n.actions)
  PROVE  InstructionsAreRead(Each(from_of_instruction, s))
<1> DEFINE r == Each(from_of_instruction, s)
<1>1. r = [i \in DOMAIN s |-> from_of_instruction(s[i])] /\ r = [i \in DOMAIN s |-> r[i]]
  BY DEF Each
<1>. HIDE DEF r
<1>2. IsList(r) /\ \A e \in Elements(r) : \E i \in DOMAIN s : e = r[i] /\ s[i] \in Elements(s)
  BY <1>1, EachIsList
<1>3. \A e \in Elements(r) : \E n \in Elements(s) : e = from_of_instruction(n)
  BY <1>1, <1>2
<1>4. \A e \in Elements(r) : InstructionIsRead(e)
  BY <1>3, InstructionIsReadFromOf
<1>. QED  BY <1>2, <1>4 DEF InstructionsAreRead, r

LEMMA InstructionsToOf ==
  ASSUME NEW s, InstructionsAreRead(s)
  PROVE  /\ IsList(Each(as_of_instruction, s))
         /\ \A n \in Elements(Each(as_of_instruction, s)) :
               n.instruction_type \in WithActions => IsList(n.actions)
<1> DEFINE r == Each(as_of_instruction, s)
<1>1. IsList(s) /\ \A n \in Elements(s) : InstructionIsRead(n)
  BY DEF InstructionsAreRead
<1>2. r = [i \in DOMAIN s |-> as_of_instruction(s[i])] /\ r = [i \in DOMAIN s |-> r[i]]
  BY DEF Each
<1>. HIDE DEF r
<1>3. IsList(r) /\ \A e \in Elements(r) : \E i \in DOMAIN s : e = r[i] /\ s[i] \in Elements(s)
  BY <1>1, <1>2, EachIsList
<1>4. \A e \in Elements(r) : \E n \in Elements(s) : e = as_of_instruction(n)
  BY <1>2, <1>3
<1>5. ASSUME NEW n, InstructionIsRead(n), as_of_instruction(n).instruction_type \in WithActions
      PROVE  IsList(as_of_instruction(n).actions)
  <2>1. n.instruction_type \in WithActions
    BY <1>5 DEF as_of_instruction
  <2>2. IsList(n.actions)
    BY <1>5, <2>1 DEF InstructionIsRead
  <2>3. IsList(Each(as_of_action, n.actions))
    BY <2>2, ActionsAreRead
  <2>. QED  BY <2>1, <2>3 DEF as_of_instruction
<1>6. \A e \in Elements(r) : e.instruction_type \in WithActions => IsList(e.actions)
  BY <1>1, <1>4, <1>5
<1>. QED  BY <1>3, <1>6 DEF r

LEMMA InstructionsReadBack ==
  ASSUME NEW s, InstructionsAreRead(s), InstructionsHaveOneForm(s)
  PROVE  /\ Each(from_of_instruction, Each(as_of_instruction, s)) = s
         /\ \A i \in DOMAIN Each(as_of_instruction, s) :
               InstructionReadable(Each(as_of_instruction, s)[i])
<1> DEFINE q == Each(as_of_instruction, s)
<1>1. IsList(s) /\ \A n \in Elements(s) :
         /\ from_of_instruction(as_of_instruction(n)) = n
         /\ InstructionReadable(as_of_instruction(n))
  BY InstructionReadsBack DEF InstructionsAreRead, InstructionsHaveOneForm
<1>2. q = [i \in DOMAIN s |-> as_of_instruction(s[i])]
  BY DEF Each
<1>. HIDE DEF q
<1>3. DOMAIN q = DOMAIN s /\ \A i \in DOMAIN s : q[i] = as_of_instruction(s[i])
  BY <1>2
<1>4. s = [i \in DOMAIN s |-> s[i]] /\ \A i \in DOMAIN s : s[i] \in Elements(s)
  BY <1>1, ListIsFunction
<1>5. \A i \in DOMAIN s : from_of_instruction(q[i]) = s[i] /\ InstructionReadable(q[i])
  BY <1>1, <1>3, <1>4
<1>6. Each(from_of_instruction, q) = [i \in DOMAIN s |-> from_of_instruction(q[i])]
  BY <1>3 DEF Each
<1>. QED  BY <1>3, <1>4, <1>5, <1>6 DEF q

LEMMA InstructionsAreTheirDicts ==
  ASSUME NEW s, InstructionsAreRead(s)
  PROVE  /\ Each(InstructionFromDict, Each(WithKnownActions, s)) = Each(WithKnownActions, s)
         /\ IsList(Each(WithKnownActions, s))
<1> DEFINE q == Each(WithKnownActions, s)
<1>1. IsList(s) /\ \A n \in Elements(s) : InstructionIsRead(n)
  BY DEF InstructionsAreRead
<1>2. q = [i \in DOMAIN s |-> WithKnownActions(s[i])] /\ q = [i \in DOMAIN s |-> q[i]]
  BY DEF Each
<1>. HIDE DEF q
<1>3. DOMAIN q = DOMAIN s /\ IsList(q)
  BY <1>1, <1>2, EachIsList
<1>4. ASSUME NEW i \in DOMAIN s PROVE InstructionFromDict(q[i]) = q[i]
  <2>1. s[i] \in Elements(s)
    BY <1>1, ListIsFunction
  <2>. QED  BY <1>1, <1>2, <2>1, InstructionIsItsDict
<1>5. Each(InstructionFromDict, q) = [i \in DOMAIN s |-> InstructionFromDict(q[i])]
  BY <1>3 DEF Each
<1>. QED  BY <1>2, <1>3, <1>4, <1>5 DEF q

-------------------------------------------------------------------------------
(* Flows.                                                                  *)

Keys == {"table_id", "priority", "idle_timeout", "hard_timeout", "cookie", "cookie_mask"}

LEMMA DefaultsAreNumbers ==
  DOMAIN Defaults = Keys /\ \A key \in Keys : Defaults[key] \in Nat
BY DEF Defaults, Keys

LEMMA FlowIsMade ==
  ASSUME NEW d, Taken(d)
  PROVE  /\ IsFlow(FlowFromDict(d))
         /\ InstructionsAreMade(FlowFromDict(d).instructions)
         /\ OneFormDict(d) =>
               \A n \in Elements(FlowFromDict(d).instructions) : OneFormInstruction(n)
<1> DEFINE f       == FlowFromDict(d)
           actions == Given(d, "actions", <<>>)
           made    == Each(ActionFromDict, actions)
           apply   == [instruction_type |-> "apply_actions", actions |-> made]
           first   == IF actions = <<>> THEN <<>> ELSE <<apply>>
           given   == Given(d, "instructions", <<>>)
           rest    == Each(InstructionFromDict, given)
           value(key) == Given(d, key, Defaults[key])
           match   == MatchFromDict(Given(d, "match", <<>>))
           stats   == StatsFromDict(Given(d, "stats", NoStats))
<1>1. f = [table_id |-> value("table_id"), match |-> match, priority |-> value("priority"),
           idle_timeout |-> value("idle_timeout"), hard_timeout |-> value("hard_timeout"),
           cookie |-> value("cookie"), cookie_mask |-> value("cookie_mask"),
           instructions |-> first \o rest, stats |-> stats]
  BY DEF FlowFromDict
<1>2. \A key \in Keys : value(key) \in Nat
  BY DefaultsAreNumbers DEF Taken, Given
<1>3. MatchIsSet(match)
  BY MatchIsMade
<1>4. IsMap(stats, FlowStatsNames)
  <2>. QED  BY DEF IsMap, StatsFromDict
<1>5. /\ InstructionsAreMade(rest)
      /\ (\A n \in Elements(given) : OneFormInstruction(n))
            => \A n \in Elements(rest) : OneFormInstruction(n)
  BY InstructionsFromDicts DEF Taken
<1>6. /\ IsList(made) /\ \A a \in Elements(made) : ActionIsKnown(a)
      /\ (\A a \in Elements(actions) : OneFormAction(a))
            => \A a \in Elements(made) : OneFormAction(a)
  BY ActionsAreMade DEF Taken
<1>7. /\ InstructionsAreMade(first)
      /\ (\A a \in Elements(actions) : OneFormAction(a))
            => \A n \in Elements(first) : OneFormInstruction(n)
  <2>1. IsList(first) /\ Elements(first) \subseteq {apply}
    <3>. HIDE DEF actions, apply
    <3>. QED  BY EmptyIsList, SingleIsList
  <2>2. apply.instruction_type = "apply_actions" /\ apply.actions = made
        /\ apply = [instruction_type |-> apply.instruction_type, actions |-> apply.actions]
    OBVIOUS
  <2>3. NoAction \notin Elements(made)
    BY <1>6, ActionIsNotNone
  <2>. HIDE DEF first, apply, made, actions
  <2>4. InstructionReadable(apply) /\ InstructionIsRead(apply)
    BY <1>6, <2>2 DEF InstructionReadable, InstructionIsRead
  <2>5. (\A a \in Elements(actions) : OneFormAction(a)) => OneFormInstruction(apply)
    BY <1>6, <2>2 DEF OneFormInstruction
  <2>. QED  BY <2>1, <2>2, <2>3, <2>4, <2>5 DEF InstructionsAreMade, InstructionsAreRead
<1>8. /\ InstructionsAreMade(first \o rest)
      /\ OneFormDict(d) => \A n \in Elements(first \o rest) : OneFormInstruction(n)
  <2>1. IsList(first \o rest) /\ Elements(first \o rest) = Elements(first) \union Elements(rest)
    <3>1. IsList(first) /\ IsList(rest)
      BY <1>5, <1>7 DEF InstructionsAreMade, InstructionsAreRead
    <3>. HIDE DEF first, rest
    <3>. QED  BY <3>1, JoinedIsList
  <2>2. OneFormDict(d) => /\ \A a \in Elements(actions) : OneFormAction(a)
                          /\ \A n \in Elements(given) : OneFormInstruction(n)
    BY DEF OneFormDict
  <2>. HIDE DEF first, rest, actions, given
  <2>. QED  BY <1>5, <1>7, <2>1, <2>2 DEF InstructionsAreMade, InstructionsAreRead
<1>. HIDE DEF f, value, match, stats, first, rest
<1>9. /\ f = [table_id |-> f.table_id, match |-> f.match, priority |-> f.priority,
              idle_timeout |-> f.idle_timeout, hard_timeout |-> f.hard_timeout,
              cookie |-> f.cookie, cookie_mask |-> f.cookie_mask,
              instructions |-> f.instructions, stats |-> f.stats]
      /\ f.match = match /\ f.stats = stats /\ f.instructions = first \o rest
      /\ \A key \in Keys : f[key] \in Nat
  BY <1>1, <1>2 DEF Keys
<1>10. IsFlow(f)
  BY <1>3, <1>4, <1>8, <1>9, DefaultsAreNumbers DEF IsFlow, InstructionsAreMade
<1>. QED  BY <1>8, <1>9, <1>10 DEF f

\* Values that have one form are set to values that have one form.
LEMMA MatchIsMadeInOneForm ==
  ASSUME NEW dict, MatchSettable(dict), MatchEncodable(MatchFromDict(dict)),
         \A name \in DOMAIN dict \intersect Names : OneForm(NamedField(name), dict[name])
  PROVE  MatchHasOneForm(MatchFromDict(dict))
<1> DEFINE m == MatchFromDict(dict)
<1>1. m = [name \in DOMAIN dict \intersect Names |-> SetTo(name, dict[name])]
  BY DEF MatchFromDict
<1>2. SUFFICES ASSUME NEW name \in DOMAIN m
               PROVE  /\ OneForm(NamedField(name), m[name]) /\ Settable(name, m[name])
                      /\ NamedField(name).kind = "ip" => m[name].mask # AddressBits
                      /\ NamedField(name).kind = "plain" => m[name].mask = NoMask
  BY DEF MatchHasOneForm
<1> DEFINE f == NamedField(name)
           x == dict[name]
<1>3. name \in DOMAIN dict \intersect Names /\ m[name] = SetTo(name, x)
  BY <1>1
<1>4. OneForm(f, x) /\ Settable(name, x)
  BY <1>3 DEF MatchSettable
<1>5. f \in Fields /\ f.name = name /\ (Normalised(name) => f.kind = "ip")
  BY <1>3, FieldOfName, KindsOfFields
<1>6. AddressBits \in Nat /\ NoMask # AddressBits
  BY FieldAssumption DEF NoMask
<1>7. f.kind = "plain" => m[name].mask = NoMask
  BY DEF MatchEncodable, Encodable
<1>. HIDE DEF f, x
<1>8. CASE Normalised(name)
  <2> DEFINE mask == IF x.mask = AddressBits THEN NoMask ELSE x.mask
             y    == Value(x.number, mask)
  <2>1. SetTo(name, x) = y /\ f.kind = "ip"
    BY <1>5, <1>8 DEF SetTo
  <2>2. y.number = x.number /\ y.mask = mask /\ y = Spelled(y.number, y.mask, y.spelling)
    BY DEF Value, Spelled
  <2>3. mask # AddressBits /\ mask \in {NoMask, x.mask}
    BY <1>6
  <2>. HIDE DEF mask, y
  <2>4. OneForm(f, y)
    BY <1>4, <2>1, <2>2, <2>3 DEF OneForm
  <2>5. Settable(name, y)
    BY <1>4, <2>2, <2>3 DEF Settable
  <2>. QED  BY <1>3, <1>7, <2>1, <2>2, <2>3, <2>4, <2>5 DEF f
<1>9. CASE ~Normalised(name)
  <2>1. SetTo(name, x) = x
    BY <1>9 DEF SetTo
  <2>2. f.kind = "ip" => x.mask # AddressBits
    BY <1>4, <1>5, <1>9 DEF OneForm
  <2>. QED  BY <1>3, <1>4, <1>7, <2>1, <2>2 DEF f
<1>. QED  BY <1>8, <1>9

LEMMA FlowIsMadeInOneForm ==
  ASSUME NEW d, Taken(d), OneFormDict(d), MatchSettable(Given(d, "match", <<>>)),
         MatchEncodable(FlowFromDict(d).match)
  PROVE  /\ MatchHasOneForm(FlowFromDict(d).match)
         /\ InstructionsHaveOneForm(FlowFromDict(d).instructions)
<1>1. FlowFromDict(d).match = MatchFromDict(Given(d, "match", <<>>))
  BY DEF FlowFromDict
<1>2. MatchHasOneForm(FlowFromDict(d).match)
  <2>1. \A name \in DOMAIN Given(d, "match", <<>>) \intersect Names :
           OneForm(NamedField(name), Given(d, "match", <<>>)[name])
    BY DEF OneFormDict
  <2>. QED  BY <1>1, <2>1, MatchIsMadeInOneForm
<1>3. InstructionsHaveOneForm(FlowFromDict(d).instructions)
  BY FlowIsMade DEF InstructionsAreMade, InstructionsHaveOneForm
<1>. QED  BY <1>2, <1>3

\* A flow that is read from an entry that a switch may have is a flow.
LEMMA FlowIsRead ==
  ASSUME NEW e, Kept(e)
  PROVE  IsFlow(FlowOf(e))
<1> DEFINE f == FlowOf(e)
           match == from_of_match(e.match)
           read  == Each(from_of_instruction, e.instructions)
           stats == StatsFromOf(FlowStatsOf(e))
<1>1. f = [table_id |-> e.table_id, match |-> match, priority |-> e.priority,
           idle_timeout |-> e.idle_timeout, hard_timeout |-> e.hard_timeout,
           cookie |-> e.cookie, cookie_mask |-> 0, instructions |-> read, stats |-> stats]
  BY DEF FlowOf, from_of_flow_stats, FlowStatsOf, ReportedMask, Defaults
<1>2. MatchIsSet(match)
  BY MatchIsMade
<1>3. InstructionsAreRead(read)
  BY InstructionsFromOf DEF Kept
<1>4. IsMap(stats, FlowStatsNames)
  BY DEF IsMap, StatsFromOf
<1>5. \A key \in Keys \ {"cookie_mask"} : e[key] \in Nat
  BY DefaultsAreNumbers DEF Kept
<1>. HIDE DEF f, match, read, stats
<1>6. \A key \in Keys : f[key] \in Nat
  <2>1. e.table_id \in Nat /\ e.priority \in Nat /\ e.idle_timeout \in Nat
        /\ e.hard_timeout \in Nat /\ e.cookie \in Nat
    BY <1>5 DEF Keys
  <2>. QED  BY <1>1, <2>1 DEF Keys
<1>7. /\ f = [table_id |-> f.table_id, match |-> f.match, priority |-> f.priority,
              idle_timeout |-> f.idle_timeout, hard_timeout |-> f.hard_timeout,
              cookie |-> f.cookie, cookie_mask |-> f.cookie_mask,
              instructions |-> f.instructions, stats |-> f.stats]
      /\ f.match = match /\ f.stats = stats /\ f.instructions = read
  BY <1>1
<1>8. IsFlow(f)
  BY <1>2, <1>3, <1>4, <1>6, <1>7, DefaultsAreNumbers DEF IsFlow
<1>. QED  BY <1>8 DEF f

\* What the switch makes of a FlowMod that it accepts is an entry it may have.
LEMMA EntryIsKept ==
  ASSUME NEW f, IsFlow(f), Acceptable(as_of_flow_mod(f))
  PROVE  Kept(EntryOf(as_of_flow_mod(f)))
<1> DEFINE e    == EntryOf(as_of_flow_mod(f))
           sent == Each(as_of_instruction, f.instructions)
<1>1. e = [table_id |-> f.table_id, match |-> as_of_match(f.match), priority |-> f.priority,
           idle_timeout |-> f.idle_timeout, hard_timeout |-> f.hard_timeout,
           cookie |-> f.cookie, instructions |-> sent]
      /\ as_of_flow_mod(f).match = as_of_match(f.match)
  BY DEF EntryOf, as_of_flow_mod
<1>2. IsList(sent) /\ \A n \in Elements(sent) :
         n.instruction_type \in WithActions => IsList(n.actions)
  BY InstructionsToOf DEF IsFlow
<1>3. \A key \in Keys : f[key] \in Nat
  BY DefaultsAreNumbers DEF IsFlow
<1>. HIDE DEF e, sent
<1>4. \A key \in Keys \ {"cookie_mask"} : e[key] \in Nat
  <2>1. f.table_id \in Nat /\ f.priority \in Nat /\ f.idle_timeout \in Nat
        /\ f.hard_timeout \in Nat /\ f.cookie \in Nat
    BY <1>3 DEF Keys
  <2>. QED  BY <1>1, <2>1 DEF Keys
<1>5. Acceptable(e)
  BY <1>1 DEF Acceptable
<1>6. Kept(e)
  BY <1>1, <1>2, <1>4, <1>5, DefaultsAreNumbers DEF Kept
<1>. QED  BY <1>6 DEF e

\* A flow whose values have one form is read back from its entry, but for the
\* cookie mask, the spelling of its match and the stats.
LEMMA FlowReadsBack ==
  ASSUME NEW g, IsFlow(g), MatchHasOneForm(g.match), InstructionsHaveOneForm(g.instructions)
  PROVE  LET e == EntryOf(as_of_flow_mod(g))
         IN  /\ Readable(e)
             /\ FlowOf(e) = [table_id |-> g.table_id, match |-> UsuallySpelled(g.match),
                             priority |-> g.priority, idle_timeout |-> g.idle_timeout,
                             hard_timeout |-> g.hard_timeout, cookie |-> g.cookie,
                             cookie_mask |-> 0, instructions |-> g.instructions,
                             stats |-> StatsFromOf(FlowStatsOf(e))]
<1> DEFINE e    == EntryOf(as_of_flow_mod(g))
           sent == Each(as_of_instruction, g.instructions)
           tlvs == as_of_match(g.match)
<1>1. e = [table_id |-> g.table_id, match |-> tlvs, priority |-> g.priority,
           idle_timeout |-> g.idle_timeout, hard_timeout |-> g.hard_timeout,
           cookie |-> g.cookie, instructions |-> sent]
  BY DEF EntryOf, as_of_flow_mod
<1>2. from_of_match(tlvs) = UsuallySpelled(g.match) /\ MatchReadable(tlvs)
  BY MatchReadsBack DEF IsFlow
<1>3. /\ Each(from_of_instruction, sent) = g.instructions
      /\ \A i \in DOMAIN sent : InstructionReadable(sent[i])
  BY InstructionsReadBack DEF IsFlow
<1>. HIDE DEF e, sent, tlvs
<1>4. Readable(e)
  BY <1>1, <1>2, <1>3 DEF Readable
<1>5. FlowOf(e) = [table_id |-> e.table_id, match |-> from_of_match(e.match),
                   priority |-> e.priority, idle_timeout |-> e.idle_timeout,
                   hard_timeout |-> e.hard_timeout, cookie |-> e.cookie, cookie_mask |-> 0,
                   instructions |-> Each(from_of_instruction, e.instructions),
                   stats |-> StatsFromOf(FlowStatsOf(e))]
  BY DEF FlowOf, from_of_flow_stats, FlowStatsOf, ReportedMask, Defaults
<1>6. FlowOf(e) = [table_id |-> g.table_id, match |-> UsuallySpelled(g.match),
                   priority |-> g.priority, idle_timeout |-> g.idle_timeout,
                   hard_timeout |-> g.hard_timeout, cookie |-> g.cookie,
                   cookie_mask |-> 0, instructions |-> g.instructions,
                   stats |-> StatsFromOf(FlowStatsOf(e))]
  <2>1. e.match = tlvs /\ e.instructions = sent
    BY <1>1
  <2>2. from_of_match(e.match) = UsuallySpelled(g.match)
    BY <1>2, <2>1
  <2>3. Each(from_of_instruction, e.instructions) = g.instructions
    BY <1>3, <2>1
  <2>. QED  BY <1>1, <1>5, <2>2, <2>3
<1>. QED  BY <1>4, <1>6 DEF e

\* A flow is what is made from its dictionary, but for the actions that are None.
LEMMA FlowIsItsDict ==
  ASSUME NEW f, IsFlow(f)
  PROVE  FlowFromDict(AsDict(f)) = [f EXCEPT !.instructions = Each(WithKnownActions, f.instructions)]
<1> DEFINE d     == AsDict(f)
           known == Each(WithKnownActions, f.instructions)
<1>1. /\ f = [table_id |-> f.table_id, match |-> f.match, priority |-> f.priority,
              idle_timeout |-> f.idle_timeout, hard_timeout |-> f.hard_timeout,
              cookie |-> f.cookie, cookie_mask |-> f.cookie_mask,
              instructions |-> f.instructions, stats |-> f.stats]
      /\ MatchIsSet(f.match) /\ InstructionsAreRead(f.instructions)
      /\ IsMap(f.stats, FlowStatsNames)
  BY DEF IsFlow
<1>2. /\ DOMAIN d = {"table_id", "match", "priority", "idle_timeout", "hard_timeout", "cookie",
                     "cookie_mask", "instructions", "id", "stats"}
      /\ d["table_id"] = f.table_id /\ d["match"] = f.match /\ d["priority"] = f.priority
      /\ d["idle_timeout"] = f.idle_timeout /\ d["hard_timeout"] = f.hard_timeout
      /\ d["cookie"] = f.cookie /\ d["cookie_mask"] = f.cookie_mask
      /\ d["instructions"] = known /\ d["stats"] = f.stats
  BY DEF AsDict, WithoutId
<1>3. Each(InstructionFromDict, known) = known /\ IsList(known)
  BY <1>1, InstructionsAreTheirDicts
<1>4. MatchFromDict(f.match) = f.match
  <2>1. DOMAIN f.match \intersect Names = DOMAIN f.match
    BY <1>1 DEF MatchIsSet, IsMap
  <2>. QED  BY <1>1, <2>1 DEF MatchIsSet, IsMap, MatchFromDict
<1>5. StatsFromDict(f.stats) = f.stats
  <2>1. FlowStatsNames \intersect DOMAIN f.stats = DOMAIN f.stats
    BY <1>1 DEF IsMap
  <2>. QED  BY <1>1, <2>1 DEF IsMap, StatsFromDict
<1>. HIDE DEF d, known
<1>6. /\ Given(d, "table_id", Defaults["table_id"]) = f.table_id
      /\ Given(d, "match", <<>>) = f.match
      /\ Given(d, "priority", Defaults["priority"]) = f.priority
      /\ Given(d, "idle_timeout", Defaults["idle_timeout"]) = f.idle_timeout
      /\ Given(d, "hard_timeout", Defaults["hard_timeout"]) = f.hard_timeout
      /\ Given(d, "cookie", Defaults["cookie"]) = f.cookie
      /\ Given(d, "cookie_mask", Defaults["cookie_mask"]) = f.cookie_mask
      /\ Given(d, "instructions", <<>>) = known
      /\ Given(d, "stats", NoStats) = f.stats
      /\ Given(d, "actions", <<>>) = <<>>
  BY <1>2 DEF Given
<1>7. <<>> \o known = known
  <2>1. known \in Seq(Elements(known))
    BY <1>3, ListIsFunction
  <2>. QED  BY <2>1, ConcatEmptySeq
<1>8. FlowFromDict(d) =
         [table_id |-> f.table_id, match |-> f.match, priority |-> f.priority,
          idle_timeout |-> f.idle_timeout, hard_timeout |-> f.hard_timeout,
          cookie |-> f.cookie, cookie_mask |-> f.cookie_mask,
          instructions |-> known, stats |-> f.stats]
  <2>1. FlowFromDict(d) =
           [table_id |-> Given(d, "table_id", Defaults["table_id"]),
            match |-> MatchFromDict(f.match),
            priority |-> Given(d, "priority", Defaults["priority"]),
            idle_timeout |-> Given(d, "idle_timeout", Defaults["idle_timeout"]),
            hard_timeout |-> Given(d, "hard_timeout", Defaults["hard_timeout"]),
            cookie |-> Given(d, "cookie", Defaults["cookie"]),
            cookie_mask |-> Given(d, "cookie_mask", Defaults["cookie_mask"]),
            instructions |-> <<>> \o Each(InstructionFromDict, known),
            stats |-> StatsFromDict(f.stats)]
    BY <1>6, Zenon DEF FlowFromDict
  <2>. QED  BY <1>3, <1>4, <1>5, <1>6, <1>7, <2>1
<1>9. [f EXCEPT !.instructions = known] =
         [table_id |-> f.table_id, match |-> f.match, priority |-> f.priority,
          idle_timeout |-> f.idle_timeout, hard_timeout |-> f.hard_timeout,
          cookie |-> f.cookie, cookie_mask |-> f.cookie_mask,
          instructions |-> known, stats |-> f.stats]
  BY <1>1
<1>. QED  BY <1>8, <1>9 DEF d, known

-------------------------------------------------------------------------------
(* The inductive invariant.                                                *)

LEMMA FlowInvInit == Init => FlowInv
BY DEF Init, FlowInv, FlowsAreFlows, EntriesAreKept, CollectedAreEntries

LEMMA FlowInvStep ==
  ASSUME FlowInv, [Next]_vars
  PROVE  FlowInv'
<1>1. /\ \A f \in built \union collected : IsFlow(f)
      /\ \A e \in entries : Kept(e) /\ e \in Foreign \union OwnEntries
      /\ \A f \in collected : \E e \in Foreign \union OwnEntries : Readable(e) /\ f = FlowOf(e)
  BY DEF FlowInv, FlowsAreFlows, EntriesAreKept, CollectedAreEntries
<1>2. built \subseteq built' => OwnEntries \subseteq OwnEntries'
  BY DEF OwnEntries
<1>3. ASSUME NEW d \in FlowDicts, Install(d) PROVE FlowInv'
  <2> DEFINE flow == FlowFromDict(d)
             mod  == as_of_flow_mod(flow)
  <2>1. /\ built' = built \union {flow} /\ collected' = collected
        /\ \A e \in entries' : e \in entries \/ (Acceptable(mod) /\ e = EntryOf(mod))
    BY <1>3 DEF Install
  <2>2. IsFlow(flow)
    BY FlowAssumption, FlowIsMade
  <2>. HIDE DEF flow
  <2>3. Acceptable(mod) => Kept(EntryOf(mod))
    BY <2>2, EntryIsKept
  <2>4. EntryOf(mod) \in OwnEntries'
    BY <2>1 DEF OwnEntries
  <2>. HIDE DEF mod
  <2>5. OwnEntries \subseteq OwnEntries'
    BY <1>2, <2>1
  <2>. QED  BY <1>1, <2>1, <2>2, <2>3, <2>4, <2>5
            DEF FlowInv, FlowsAreFlows, EntriesAreKept, CollectedAreEntries
<1>4. ASSUME NEW e \in Foreign, OthersInstall(e) PROVE FlowInv'
  <2>1. /\ built' = built /\ collected' = collected
        /\ \A x \in entries' : x \in entries \/ x = e
    BY <1>4 DEF OthersInstall
  <2>2. Kept(e)
    BY FlowAssumption
  <2>3. OwnEntries \subseteq OwnEntries'
    BY <1>2, <2>1
  <2>. QED  BY <1>1, <2>1, <2>2, <2>3
            DEF FlowInv, FlowsAreFlows, EntriesAreKept, CollectedAreEntries
<1>5. CASE Collect
  <2>1. /\ built' = built /\ entries' = entries
        /\ \A e \in entries : Readable(e)
        /\ \A f \in collected' : \E e \in entries : f = FlowOf(e)
    BY <1>5 DEF Collect, FlowOf
  <2>2. \A f \in collected' : IsFlow(f)
    BY <1>1, <2>1, FlowIsRead
  <2>3. OwnEntries \subseteq OwnEntries'
    BY <1>2, <2>1
  <2>. QED  BY <1>1, <2>1, <2>2, <2>3
            DEF FlowInv, FlowsAreFlows, EntriesAreKept, CollectedAreEntries
<1>6. ASSUME built' = built, collected' = collected, entries' \subseteq entries
      PROVE  FlowInv'
  <2>1. OwnEntries \subseteq OwnEntries'
    BY <1>2, <1>6
  <2>. QED  BY <1>1, <1>6, <2>1
            DEF FlowInv, FlowsAreFlows, EntriesAreKept, CollectedAreEntries
<1>7. ASSUME NEW f \in built \union collected, DeleteStrict(f) \/ Delete(f) PROVE FlowInv'
  <2>1. built' = built /\ collected' = collected /\ entries' \subseteq entries
    BY <1>7 DEF DeleteStrict, Delete
  <2>. QED  BY <1>6, <2>1
<1>8. CASE UNCHANGED vars
  <2>1. built' = built /\ collected' = collected /\ entries' \subseteq entries
    BY <1>8 DEF vars
  <2>. QED  BY <1>6, <2>1
<1>. QED  BY <1>3, <1>4, <1>5, <1>7, <1>8 DEF Next

\* Every flow is one, however it was made; the switch has the entries of flows
\* that were built and of others, and what was collected was read from them.
THEOREM FlowInvariant == Spec => []FlowInv
BY FlowInvInit, FlowInvStep, PTL DEF Spec

\* Flows and entries have their types, whatever is in the dictionaries that the
\* classes take and in the entries of others (Flow.from_dict,
\* Flow.from_of_flow_stats).
THEOREM TypeCorrect == Spec => []TypeOK
<1>1. ASSUME FlowInv PROVE TypeOK
  <2>1. ASSUME NEW f \in built \union collected
        PROVE  /\ DOMAIN f = DOMAIN Defaults \union {"match", "instructions", "stats"}
               /\ \A key \in DOMAIN Defaults : f[key] \in Nat
               /\ DOMAIN f.match \subseteq Names /\ DOMAIN f.stats \subseteq FlowStatsNames
    <3>1. IsFlow(f)
      BY <1>1 DEF FlowInv, FlowsAreFlows
    <3>2. DOMAIN f = {"table_id", "match", "priority", "idle_timeout", "hard_timeout", "cookie",
                      "cookie_mask", "instructions", "stats"}
      BY <3>1 DEF IsFlow
    <3>3. DOMAIN f = DOMAIN Defaults \union {"match", "instructions", "stats"}
      BY <3>2, DefaultsAreNumbers DEF Keys
    <3>. QED  BY <3>1, <3>3 DEF IsFlow, MatchIsSet, IsMap
  <2>2. \A e \in entries : Acceptable(e)
    BY <1>1 DEF FlowInv, EntriesAreKept, Kept
  <2>. QED  BY <2>1, <2>2 DEF TypeOK
<1>. QED  BY <1>1, FlowInvariant, PTL

\* A flow that is written to a dictionary and built from it again is the same flow,
\* but for the actions that were None (Flow.as_dict, Flow.from_dict).
THEOREM DictsKeepFlows == Spec => []DictKeepsFlow
<1>1. ASSUME FlowInv PROVE DictKeepsFlow
  <2>1. \A f \in built \union collected : IsFlow(f)
    BY <1>1 DEF FlowInv, FlowsAreFlows
  <2>. QED  BY <2>1, FlowIsItsDict DEF DictKeepsFlow
<1>. QED  BY <1>1, FlowInvariant, PTL

-------------------------------------------------------------------------------
(* Flows whose dictionaries have one form.                                 *)

LEMMA BuiltInvStep ==
  ASSUME DictsHaveOneForm, FlowInv, BuiltInv, [Next]_vars
  PROVE  BuiltInv'
<1>1. ASSUME NEW d \in FlowDicts, Install(d) PROVE BuiltInv'
  <2>1. /\ built' = built \union {FlowFromDict(d)}
        /\ MatchSettable(Given(d, "match", <<>>)) /\ MatchEncodable(FlowFromDict(d).match)
    BY <1>1 DEF Install
  <2>2. Taken(d) /\ OneFormDict(d)
    BY FlowAssumption DEF DictsHaveOneForm
  <2>3. MatchHasOneForm(FlowFromDict(d).match)
        /\ InstructionsHaveOneForm(FlowFromDict(d).instructions)
    BY <2>1, <2>2, FlowIsMadeInOneForm
  <2>. QED  BY <2>1, <2>3 DEF BuiltInv
<1>2. ASSUME built' = built PROVE BuiltInv'
  BY <1>2 DEF BuiltInv
<1>3. built' = built \/ \E d \in FlowDicts : Install(d)
  BY DEF Next, OthersInstall, Collect, DeleteStrict, Delete, vars
<1>. QED  BY <1>1, <1>2, <1>3

\* The values of the flows that were built have one form, if those of the
\* dictionaries have.
THEOREM BuiltInvariant ==
  ASSUME DictsHaveOneForm
  PROVE  Spec => [](FlowInv /\ BuiltInv)
<1>1. Init => BuiltInv
  BY DEF Init, BuiltInv
<1>2. FlowInv /\ BuiltInv /\ [Next]_vars => BuiltInv'
  BY BuiltInvStep
<1>. QED  BY <1>1, <1>2, FlowInvariant, PTL DEF Spec

LEMMA BuiltReadsBack ==
  ASSUME FlowInv, BuiltInv, NEW g \in built
  PROVE  LET e == EntryOf(as_of_flow_mod(g))
         IN  /\ IsFlow(g) /\ Readable(e)
             /\ FlowOf(e) = [table_id |-> g.table_id, match |-> UsuallySpelled(g.match),
                             priority |-> g.priority, idle_timeout |-> g.idle_timeout,
                             hard_timeout |-> g.hard_timeout, cookie |-> g.cookie,
                             cookie_mask |-> 0, instructions |-> g.instructions,
                             stats |-> StatsFromOf(FlowStatsOf(e))]
<1>1. IsFlow(g) /\ MatchHasOneForm(g.match) /\ InstructionsHaveOneForm(g.instructions)
  BY DEF FlowInv, FlowsAreFlows, BuiltInv
<1>. QED  BY <1>1, FlowReadsBack

LEMMA ReportedIs ==
  ASSUME NEW g, IsFlow(g)
  PROVE  /\ AsReported(g).match = UsuallySpelled(g.match)
         /\ AsReported(g).table_id = g.table_id /\ AsReported(g).priority = g.priority
         /\ AsReported(g).idle_timeout = g.idle_timeout
         /\ AsReported(g).hard_timeout = g.hard_timeout
         /\ AsReported(g).cookie = g.cookie /\ AsReported(g).cookie_mask = 0
         /\ AsReported(g).instructions = g.instructions
         /\ as_of_match(UsuallySpelled(g.match)) = as_of_match(g.match)
<1>1. g = [table_id |-> g.table_id, match |-> g.match, priority |-> g.priority,
           idle_timeout |-> g.idle_timeout, hard_timeout |-> g.hard_timeout,
           cookie |-> g.cookie, cookie_mask |-> g.cookie_mask,
           instructions |-> g.instructions, stats |-> g.stats]
      /\ DOMAIN g.match \subseteq Names
  BY DEF IsFlow, MatchIsSet, IsMap
<1>2. as_of_match(UsuallySpelled(g.match)) = as_of_match(g.match)
  BY <1>1, TlvsHaveNoSpelling
<1>. QED  BY <1>1, <1>2 DEF AsReported

\* Two flows whose values are spelled in one way have one match_id exactly if the
\* switch has one entry for both (FlowBase.match_id): no two values of a field, and no
\* two fields, have one TLV.
THEOREM MatchIdsAreEntries ==
  ASSUME DictsHaveOneForm
  PROVE  Spec => []MatchIdIsTheEntry
<1>1. ASSUME FlowInv, BuiltInv PROVE MatchIdIsTheEntry
  <2>1. SUFFICES ASSUME NEW f \in built, NEW g \in built
                 PROVE  (MatchId(AsReported(f)) = MatchId(AsReported(g)))
                           <=> SameEntry(as_of_flow_mod(f), as_of_flow_mod(g))
    BY DEF MatchIdIsTheEntry
  <2> DEFINE u == UsuallySpelled(f.match)
             v == UsuallySpelled(g.match)
  <2>2. from_of_match(as_of_match(f.match)) = u /\ from_of_match(as_of_match(g.match)) = v
    BY <1>1, MatchReadsBack DEF FlowInv, FlowsAreFlows, BuiltInv, IsFlow
  <2>3. IsFlow(f) /\ IsFlow(g)
    BY <1>1 DEF FlowInv, FlowsAreFlows
  <2>4. as_of_match(u) = as_of_match(f.match) /\ as_of_match(v) = as_of_match(g.match)
    BY <2>3, ReportedIs
  <2>5. SameEntry(as_of_flow_mod(f), as_of_flow_mod(g))
           <=> /\ f.table_id = g.table_id /\ f.priority = g.priority
               /\ as_of_match(f.match) = as_of_match(g.match)
    BY DEF SameEntry, as_of_flow_mod
  <2>6. (MatchId(AsReported(f)) = MatchId(AsReported(g)))
           <=> f.table_id = g.table_id /\ f.priority = g.priority /\ u = v
    BY <2>3, ReportedIs DEF MatchId
  <2>. HIDE DEF u, v
  <2>7. as_of_match(f.match) = as_of_match(g.match) <=> u = v
    BY ONLY <2>2, <2>4
  <2>. QED  BY <2>5, <2>6, <2>7
<1>. QED  BY <1>1, BuiltInvariant, PTL

\* A flow that is read back from its entry and added again is that entry.
THEOREM AddedAgainIsTheEntry ==
  ASSUME DictsHaveOneForm
  PROVE  Spec => []AddedAgainIsTheSame
<1>1. ASSUME FlowInv, BuiltInv PROVE AddedAgainIsTheSame
  <2>1. SUFFICES ASSUME NEW g \in built
                 PROVE  LET e == EntryOf(as_of_flow_mod(g))
                        IN  Readable(e) /\ EntryOf(as_of_flow_mod(FlowOf(e))) = e
    BY DEF AddedAgainIsTheSame, Own
  <2> DEFINE e == EntryOf(as_of_flow_mod(g))
             f == FlowOf(e)
  <2>2. /\ Readable(e)
        /\ f = [table_id |-> g.table_id, match |-> UsuallySpelled(g.match),
                priority |-> g.priority,
                idle_timeout |-> g.idle_timeout, hard_timeout |-> g.hard_timeout,
                cookie |-> g.cookie, cookie_mask |-> 0, instructions |-> g.instructions,
                stats |-> StatsFromOf(FlowStatsOf(e))]
        /\ IsFlow(g)
    BY <1>1, BuiltReadsBack
  <2>3. /\ f.table_id = g.table_id /\ f.priority = g.priority
        /\ as_of_match(f.match) = as_of_match(g.match)
        /\ f.idle_timeout = g.idle_timeout /\ f.hard_timeout = g.hard_timeout
        /\ f.cookie = g.cookie /\ f.instructions = g.instructions
    <3>. HIDE DEF f, e
    <3>. QED  BY <2>2, ReportedIs
  <2>4. EntryOf(as_of_flow_mod(f)) = EntryOf(as_of_flow_mod(g))
    <3>. HIDE DEF f, e
    <3>. QED  BY <2>3 DEF EntryOf, as_of_flow_mod
  <2>. QED  BY <2>2, <2>4
<1>. QED  BY <1>1, BuiltInvariant, PTL

\* A flow that was collected has the id of one that was built, its cookie mask and
\* the spelling of its values aside, or is read from an entry of others.
THEOREM CollectedFlowsKeepIds ==
  ASSUME DictsHaveOneForm
  PROVE  Spec => []CollectedKeepsId
<1>1. ASSUME FlowInv, BuiltInv PROVE CollectedKeepsId
  <2>1. SUFFICES ASSUME NEW f \in collected
                 PROVE  \/ \E g \in built : Id(f) = Id(AsReported(g))
                        \/ \E e \in Foreign : Readable(e) /\ Id(f) = Id(FlowOf(e))
    BY DEF CollectedKeepsId
  <2>2. PICK e \in Foreign \union OwnEntries : Readable(e) /\ f = FlowOf(e)
    BY <1>1 DEF FlowInv, CollectedAreEntries
  <2>3. CASE e \in Foreign
    BY <2>2, <2>3
  <2>4. CASE e \in OwnEntries
    <3>1. PICK g \in built : e = EntryOf(as_of_flow_mod(g))
      BY <2>4 DEF OwnEntries
    <3>2. /\ IsFlow(g)
          /\ f = [table_id |-> g.table_id, match |-> UsuallySpelled(g.match),
                  priority |-> g.priority,
                  idle_timeout |-> g.idle_timeout, hard_timeout |-> g.hard_timeout,
                  cookie |-> g.cookie, cookie_mask |-> 0, instructions |-> g.instructions,
                  stats |-> StatsFromOf(FlowStatsOf(e))]
      BY <1>1, <2>2, <3>1, BuiltReadsBack
    <3> DEFINE h == AsReported(g)
    <3>3. /\ h.table_id = g.table_id /\ h.match = UsuallySpelled(g.match)
          /\ h.priority = g.priority
          /\ h.idle_timeout = g.idle_timeout /\ h.hard_timeout = g.hard_timeout
          /\ h.cookie = g.cookie /\ h.cookie_mask = 0 /\ h.instructions = g.instructions
      BY <3>2, ReportedIs
    <3>4. Id(f) = Id(h)
      <4>. HIDE DEF h
      <4>. QED  BY <3>2, <3>3 DEF Id, WithoutId
    <3>. QED  BY <3>4
  <2>. QED  BY <2>3, <2>4
<1>. QED  BY <1>1, BuiltInvariant, PTL

\* A strict delete of a flow, as it was built or read back, removes its entry, but
\* for the cookie mask (as_of_strict_delete_flow_mod).
THEOREM StrictDeletesRemove ==
  ASSUME DictsHaveOneForm
  PROVE  Spec => StrictDeleteRemoves
<1>1. ASSUME FlowInv, BuiltInv, NEW f \in built \union collected, DeleteStrict(f),
             NEW e \in entries', Own(e), CookieSelects(as_of_flow_mod(f), e)
      PROVE  MatchId(FlowOf(e)) # MatchId(AsReported(f))
  <2>1. SUFFICES ASSUME MatchId(FlowOf(e)) = MatchId(AsReported(f)) PROVE FALSE
    OBVIOUS
  <2>2. PICK g \in built : e = EntryOf(as_of_flow_mod(g))
    BY <1>1 DEF Own
  <2>3. FlowOf(e).table_id = g.table_id /\ FlowOf(e).match = UsuallySpelled(g.match)
        /\ FlowOf(e).priority = g.priority /\ IsFlow(g) /\ IsFlow(f)
    BY <1>1, <2>2, BuiltReadsBack DEF FlowInv, FlowsAreFlows
  <2>4. f.table_id = g.table_id /\ f.priority = g.priority
        /\ as_of_match(f.match) = as_of_match(g.match)
    BY <2>1, <2>3, ReportedIs DEF MatchId
  <2>5. SameEntry(as_of_flow_mod(f), e)
    BY <2>2, <2>4 DEF SameEntry, EntryOf, as_of_flow_mod
  <2>6. ~(SameEntry(as_of_flow_mod(f), e) /\ CookieSelects(as_of_flow_mod(f), e))
    BY <1>1 DEF DeleteStrict
  <2>. QED  BY <1>1, <2>5, <2>6
<1>2. FlowInv /\ BuiltInv =>
         \A f \in built \union collected : DeleteStrict(f) =>
            \A e \in entries' : Own(e) /\ CookieSelects(as_of_flow_mod(f), e)
                                   => MatchId(FlowOf(e)) # MatchId(AsReported(f))
  BY <1>1
<1>. QED  BY <1>2, BuiltInvariant, PTL DEF StrictDeleteRemoves
===============================================================================
