------------------------------ MODULE HelloProofs ------------------------------
(***************************************************************************)
(* Proofs about Hello, for every set of versions and every elements that   *)
(* follow the bitmap: the types, what a bitmap is read back as, and what   *)
(* both ways to a version agree on.                                        *)
(***************************************************************************)
EXTENDS Hello, InductionFacts

Byte == 0 .. 255

\* What is assumed of the versions alone.
LEMMA VersionNumbers ==
  /\ OPENFLOW_VERSIONS # {} /\ OPENFLOW_VERSIONS \subseteq SwitchVersions
  /\ SwitchVersions \subseteq 0 .. 31
  BY HelloAssumption, Zenon

-------------------------------------------------------------------------------
(* Bytes and bitmaps.                                                      *)

\* The bits that a byte is the sum of are its digits.
IsSumOf(n, b0, b1, b2, b3, b4, b5, b6, b7) ==
  /\ b0 \in 0 .. 1 /\ b1 \in 0 .. 1 /\ b2 \in 0 .. 1 /\ b3 \in 0 .. 1
  /\ b4 \in 0 .. 1 /\ b5 \in 0 .. 1 /\ b6 \in 0 .. 1 /\ b7 \in 0 .. 1
  /\ n = b0 + 2*b1 + 4*b2 + 8*b3 + 16*b4 + 32*b5 + 64*b6 + 128*b7

LEMMA DigitsOfSum ==
  ASSUME NEW n, NEW b0, NEW b1, NEW b2, NEW b3, NEW b4, NEW b5, NEW b6, NEW b7,
         IsSumOf(n, b0, b1, b2, b3, b4, b5, b6, b7)
  PROVE  /\ n \in Byte
         /\ (n \div 1) % 2 = b0 /\ (n \div 2) % 2 = b1 /\ (n \div 4) % 2 = b2
         /\ (n \div 8) % 2 = b3 /\ (n \div 16) % 2 = b4 /\ (n \div 32) % 2 = b5
         /\ (n \div 64) % 2 = b6 /\ (n \div 128) % 2 = b7
<1>. USE DEF IsSumOf
<1>1. n \in Byte
  BY DEF Byte
<1>2. (n \div 1) % 2 = b0 /\ (n \div 2) % 2 = b1 /\ (n \div 4) % 2 = b2
  OBVIOUS
<1>3. (n \div 8) % 2 = b3 /\ (n \div 16) % 2 = b4 /\ (n \div 32) % 2 = b5
  OBVIOUS
<1>4. (n \div 64) % 2 = b6 /\ (n \div 128) % 2 = b7
  OBVIOUS
<1>. QED  BY <1>1, <1>2, <1>3, <1>4

LEMMA DigitsOfByte ==
  ASSUME NEW b \in [0 .. 7 -> 0 .. 1], NEW n,
         n = b[0] + 2*b[1] + 4*b[2] + 8*b[3] + 16*b[4] + 32*b[5] + 64*b[6] + 128*b[7]
  PROVE  n \in Byte /\ \A i \in 0 .. 7 : (n \div 2^i) % 2 = b[i]
<1>1. IsSumOf(n, b[0], b[1], b[2], b[3], b[4], b[5], b[6], b[7])
  BY DEF IsSumOf
<1>2. /\ n \in Byte
      /\ (n \div 1) % 2 = b[0] /\ (n \div 2) % 2 = b[1] /\ (n \div 4) % 2 = b[2]
      /\ (n \div 8) % 2 = b[3] /\ (n \div 16) % 2 = b[4] /\ (n \div 32) % 2 = b[5]
      /\ (n \div 64) % 2 = b[6] /\ (n \div 128) % 2 = b[7]
  BY <1>1, DigitsOfSum
<1>3. ASSUME NEW i \in 0 .. 7 PROVE (n \div 2^i) % 2 = b[i]
  <2>1. /\ 2^0 = 1 /\ 2^1 = 2 /\ 2^2 = 4 /\ 2^3 = 8
        /\ 2^4 = 16 /\ 2^5 = 32 /\ 2^6 = 64 /\ 2^7 = 128
    OBVIOUS
  <2>2. CASE i = 0
    BY <1>2, <2>1, <2>2
  <2>3. CASE i = 1
    BY <1>2, <2>1, <2>3
  <2>4. CASE i = 2
    BY <1>2, <2>1, <2>4
  <2>5. CASE i = 3
    BY <1>2, <2>1, <2>5
  <2>6. CASE i = 4
    BY <1>2, <2>1, <2>6
  <2>7. CASE i = 5
    BY <1>2, <2>1, <2>7
  <2>8. CASE i = 6
    BY <1>2, <2>1, <2>8
  <2>9. CASE i = 7
    BY <1>2, <2>1, <2>9
  <2>. QED  BY <2>2, <2>3, <2>4, <2>5, <2>6, <2>7, <2>8, <2>9
<1>. QED  BY <1>2, <1>3

\* ByteOf: a byte, whose bits are the versions.
LEMMA BitsOfByteOf ==
  ASSUME NEW S, NEW first \in {0, 8, 16, 24}
  PROVE  /\ ByteOf(S, first) \in Byte
         /\ \A i \in 0 .. 7 : Bit(ByteOf(S, first), i) <=> first + i \in S
<1> DEFINE b == [i \in 0 .. 7 |-> IF first + i \in S THEN 1 ELSE 0]
<1>1. ByteOf(S, first) =
         b[0] + 2*b[1] + 4*b[2] + 8*b[3] + 16*b[4] + 32*b[5] + 64*b[6] + 128*b[7]
  BY DEF ByteOf
<1>2. b \in [0 .. 7 -> 0 .. 1] /\ \A i \in 0 .. 7 : (b[i] = 1) <=> first + i \in S
  OBVIOUS
<1>. HIDE DEF b
<1>3. /\ ByteOf(S, first) \in Byte
      /\ \A i \in 0 .. 7 : (ByteOf(S, first) \div 2^i) % 2 = b[i]
  BY <1>1, <1>2, DigitsOfByte
<1>. QED  BY <1>2, <1>3 DEF Bit

\* VersionsOf reads what Bitmap writes.
LEMMA BitmapIsRead ==
  ASSUME NEW S \in SUBSET (0 .. 31)
  PROVE  /\ Bitmap(S) \in Seq(Byte) /\ Len(Bitmap(S)) = 4
         /\ VersionsOf(Bitmap(S)) = S
<1> DEFINE B == Bitmap(S)
<1>1. B \in Seq(Byte) /\ Len(B) = 4
  BY BitsOfByteOf DEF Bitmap
<1>2. B[1] = ByteOf(S, 24) /\ B[2] = ByteOf(S, 16) /\ B[3] = ByteOf(S, 8) /\ B[4] = ByteOf(S, 0)
  BY DEF Bitmap
<1>3. ASSUME NEW v \in 0 .. 31
      PROVE  (LET k == Len(B) - (v \div 8) IN k >= 1 /\ Bit(B[k], v % 8)) <=> v \in S
  <2>1. PICK q \in 0 .. 3, r \in 0 .. 7 : v = 8 * q + r /\ v \div 8 = q /\ v % 8 = r
    OBVIOUS
  <2>2. 4 - q >= 1 /\ B[4 - q] = ByteOf(S, 8 * q) /\ 8 * q \in {0, 8, 16, 24}
    BY <1>2
  <2>3. Bit(B[4 - q], r) <=> v \in S
    BY <2>1, <2>2, BitsOfByteOf
  <2>. HIDE DEF B
  <2>. QED  BY <1>1, <2>1, <2>2, <2>3
<1>. HIDE DEF B
<1>4. VersionsOf(B) = S
  BY <1>3 DEF VersionsOf
<1>. QED  BY <1>1, <1>4 DEF B

\* A set of versions has a highest one; the lower of two numbers.
LEMMA HighestVersion ==
  ASSUME NEW S \in SUBSET Byte, S # {}
  PROVE  Max(S) \in S /\ \A y \in S : y <= Max(S)
<1> DEFINE U == {u \in Nat : 255 - u \in S}
<1>1. PICK x \in U : \A y \in U : x <= y
  <2>1. PICK s \in S : TRUE
    OBVIOUS
  <2>2. 255 - s \in U
    BY <2>1 DEF Byte
  <2>. HIDE DEF U
  <2>3. U \in SUBSET Nat
    BY DEF U
  <2>. QED  BY <2>2, <2>3, LeastNumber
<1>2. 255 - x \in S /\ \A y \in S : 255 - x >= y
  <2>1. ASSUME NEW y \in S PROVE 255 - x >= y
    <3>1. y \in Byte
      OBVIOUS
    <3>2. 255 - y \in U
      BY <3>1 DEF Byte
    <3>3. x <= 255 - y /\ x \in Nat
      BY <1>1, <3>2
    <3>. QED  BY <3>1, <3>3 DEF Byte
  <2>. QED  BY <1>1, <2>1
<1>3. Max(S) \in S /\ \A y \in S : Max(S) >= y
  BY <1>2 DEF Max
<1>. QED  BY <1>3 DEF Byte

LEMMA LowerOfTwo ==
  ASSUME NEW x \in Nat, NEW y \in Nat
  PROVE  Min({x, y}) \in {x, y} /\ Min({x, y}) <= x /\ Min({x, y}) <= y
<1>1. (x \in {x, y} /\ \A z \in {x, y} : x <= z) \/ (y \in {x, y} /\ \A z \in {x, y} : y <= z)
  OBVIOUS
<1>2. Min({x, y}) \in {x, y} /\ \A z \in {x, y} : Min({x, y}) <= z
  BY <1>1 DEF Min
<1>. QED  BY <1>2

-------------------------------------------------------------------------------
(* The packet.                                                             *)

\* What is known of every hello: its header, and the element of its bitmap if it
\* has no other.
IsPacket ==
  /\ packet \in Seq(Byte) /\ Len(packet) % 4 = 0 /\ Len(packet) >= HeaderSize
  /\ packet[3] = 0 /\ packet[4] = Len(packet)
  /\ HasBitmap => packet[2] = HELLO
  /\ ~HasBitmap => /\ packet[1] \in SwitchVersions
                   /\ spoken = {w \in SwitchVersions : w <= packet[1]}
  /\ OnlyBitmap => /\ spoken # {}
                   /\ packet[9] = 0 /\ packet[10] = BITMAP /\ packet[11] = 0 /\ packet[12] = 8
                   /\ SubSeq(packet, 13, 16) = Bitmap(spoken)

LEMMA JoinedParts ==
  ASSUME NEW S, NEW s \in Seq(S), NEW t \in Seq(S)
  PROVE  /\ Len(s) \in Nat /\ Len(t) \in Nat
         /\ s \o t \in Seq(S) /\ Len(s \o t) = Len(s) + Len(t)
         /\ \A i \in 1 .. Len(s) : (s \o t)[i] = s[i]
         /\ \A i \in 1 .. Len(t) : (s \o t)[Len(s) + i] = t[i]
  OBVIOUS

LEMMA BitmapPacket ==
  ASSUME NEW S \in SUBSET (0 .. 31), S # {},
         NEW extra \in Seq(Byte), Len(extra) % 4 = 0, Len(extra) < 240,
         packet = Pack(S, extra), spoken = S
  PROVE  IsPacket
<1> DEFINE head == <<Max(S), HELLO, 0, HeaderSize + 8 + Len(extra), 0, 0, 0, 0>>
           elem == <<0, BITMAP, 0, 8>>
           bits == Bitmap(S)
           two   == head \o elem
           three == two \o bits
<1>1. Max(S) \in Byte /\ 0 \in Byte /\ 1 \in Byte /\ 8 \in Byte /\ 16 + Len(extra) \in Byte
  <2>1. S \in SUBSET Byte
    BY DEF Byte
  <2>2. Max(S) \in Byte
    BY <2>1, HighestVersion
  <2>3. Len(extra) \in Nat /\ Len(extra) < 240
    OBVIOUS
  <2>4. \A n \in Nat : n < 240 => 16 + n \in Byte
    BY ONLY DEF Byte
  <2>5. 16 + Len(extra) \in Byte
    BY ONLY <2>3, <2>4
  <2>6. 0 \in Byte /\ 1 \in Byte /\ 8 \in Byte
    BY ONLY DEF Byte
  <2>. QED  BY ONLY <2>2, <2>5, <2>6
<1>2. head \in Seq(Byte)
  BY <1>1 DEF HeaderSize, HELLO
<1>3. Len(head) = 8 /\ head[2] = HELLO /\ head[3] = 0 /\ head[4] = 16 + Len(extra)
  BY DEF HeaderSize
<1>4. elem \in Seq(Byte)
  BY <1>1 DEF BITMAP
<1>5. Len(elem) = 4 /\ elem[1] = 0 /\ elem[2] = BITMAP /\ elem[3] = 0 /\ elem[4] = 8
  OBVIOUS
<1>6. bits \in Seq(Byte)
  BY BitmapIsRead
<1>7. Len(bits) = 4
  BY BitmapIsRead
<1>8. packet = three \o extra
  BY DEF Pack
<1>. HIDE DEF head, elem, bits
<1>9. /\ two \in Seq(Byte) /\ Len(two) = Len(head) + Len(elem)
      /\ \A i \in 1 .. Len(head) : two[i] = head[i]
      /\ \A i \in 1 .. Len(elem) : two[Len(head) + i] = elem[i]
  BY <1>2, <1>4, JoinedParts
<1>. HIDE DEF two
<1>10. two \in Seq(Byte)
  BY <1>9
<1>11. /\ Len(two) = 12
       /\ two[2] = HELLO /\ two[3] = 0 /\ two[4] = 16 + Len(extra)
       /\ two[9] = 0 /\ two[10] = BITMAP /\ two[11] = 0 /\ two[12] = 8
  BY ONLY <1>9, <1>3, <1>5
<1>12. /\ three \in Seq(Byte) /\ Len(three) = Len(two) + Len(bits)
       /\ \A i \in 1 .. Len(two) : three[i] = two[i]
       /\ \A i \in 1 .. Len(bits) : three[Len(two) + i] = bits[i]
  BY <1>10, <1>6, JoinedParts
<1>. HIDE DEF three
<1>13. three \in Seq(Byte)
  BY <1>12
<1>14. /\ Len(three) = 16 /\ \A i \in 1 .. 12 : three[i] = two[i]
       /\ \A i \in 1 .. 4 : three[12 + i] = bits[i]
  BY ONLY <1>12, <1>11, <1>7
<1>15. /\ packet \in Seq(Byte) /\ Len(packet) = Len(three) + Len(extra)
       /\ \A i \in 1 .. Len(three) : packet[i] = three[i]
  BY <1>8, <1>13, JoinedParts
<1>16. packet \in Seq(Byte) /\ Len(extra) \in Nat
  BY <1>15
<1>17. /\ Len(packet) = 16 + Len(extra) /\ \A i \in 1 .. 12 : packet[i] = two[i]
       /\ \A i \in 1 .. 4 : packet[12 + i] = bits[i]
  <2>1. Len(packet) = 16 + Len(extra) /\ \A i \in 1 .. 16 : packet[i] = three[i]
    BY ONLY <1>14, <1>15
  <2>2. \A i \in 1 .. 12 : packet[i] = two[i]
    BY ONLY <1>14, <2>1
  <2>3. ASSUME NEW i \in 1 .. 4 PROVE packet[12 + i] = bits[i]
    <3>1. 12 + i \in 1 .. 16
      OBVIOUS
    <3>. QED  BY ONLY <1>14, <2>1, <3>1, i \in 1 .. 4
  <2>. QED  BY ONLY <2>1, <2>2, <2>3
<1>18. SubSeq(packet, 13, 16) = bits
  <2>1. \A i \in 13 .. 16 : packet[i] \in Byte
    BY ONLY <1>16, <1>17
  <2>2. /\ SubSeq(packet, 13, 16) \in Seq(Byte) /\ Len(SubSeq(packet, 13, 16)) = 4
        /\ \A i \in 1 .. 4 : SubSeq(packet, 13, 16)[i] = packet[13 + i - 1]
    BY ONLY <2>1, SubSeqProperties
  <2>3. \A i \in 1 .. 4 : SubSeq(packet, 13, 16)[i] = bits[i]
    BY ONLY <1>17, <2>2
  <2>. QED  BY ONLY <1>6, <1>7, <2>2, <2>3, SeqEqual
<1>19. /\ packet[2] = HELLO /\ packet[3] = 0 /\ packet[4] = 16 + Len(extra)
       /\ packet[9] = 0 /\ packet[10] = BITMAP /\ packet[11] = 0 /\ packet[12] = 8
  BY ONLY <1>11, <1>17
<1>. QED
  BY <1>16, <1>17, <1>18, <1>19 DEF IsPacket, HasBitmap, OnlyBitmap, HeaderSize, bits

LEMMA BarePacket ==
  ASSUME NEW v \in SwitchVersions, NEW type \in {HELLO, 2},
         packet = BareHello(v, type), spoken = {w \in SwitchVersions : w <= v}
  PROVE  IsPacket
<1>1. v \in Byte /\ type \in Byte
  BY VersionNumbers DEF Byte, HELLO
<1>2. packet \in Seq(Byte) /\ Len(packet) = 8
  BY <1>1 DEF BareHello, HeaderSize, Byte
<1>3. packet[1] = v /\ packet[3] = 0 /\ packet[4] = 8
  BY DEF BareHello, HeaderSize
<1>. QED  BY <1>2, <1>3 DEF IsPacket, HasBitmap, OnlyBitmap, HeaderSize

\* A slice of the packet, and the numbers of one and of two bytes.
LEMMA SliceIsBytes ==
  ASSUME IsPacket, NEW from \in Nat, NEW size \in Nat
  PROVE  /\ Bytes(from, size) \in Seq(Byte)
         /\ from + size <= Len(packet) =>
               /\ Len(Bytes(from, size)) = size
               /\ \A i \in 1 .. size : Bytes(from, size)[i] = packet[from + i]
<1> DEFINE end == IF from + size < Len(packet) THEN from + size ELSE Len(packet)
<1>1. end \in Nat /\ end <= Len(packet) /\ (from + size <= Len(packet) => end = from + size)
  BY DEF IsPacket
<1>. HIDE DEF end
<1>2. \A i \in from + 1 .. end : packet[i] \in Byte
  BY <1>1 DEF IsPacket
<1>3. /\ SubSeq(packet, from + 1, end) \in Seq(Byte)
      /\ Len(SubSeq(packet, from + 1, end)) = IF from + 1 <= end THEN end - (from + 1) + 1 ELSE 0
      /\ \A i \in 1 .. end - (from + 1) + 1 :
            SubSeq(packet, from + 1, end)[i] = packet[from + 1 + i - 1]
  BY <1>1, <1>2, SubSeqProperties
<1>4. Bytes(from, size) = SubSeq(packet, from + 1, end)
  BY DEF Bytes, end
<1>. QED  BY <1>1, <1>3, <1>4

LEMMA NumbersRead ==
  ASSUME IsPacket, NEW from \in Nat
  PROVE  /\ Unpacked(from, 2) \in Nat
         /\ from + 1 <= Len(packet) => Unpacked(from, 1) = packet[from + 1]
         /\ from + 2 <= Len(packet) =>
               Unpacked(from, 2) = 256 * packet[from + 1] + packet[from + 2]
<1>1. \A i \in 1 .. Len(Bytes(from, 2)) : Bytes(from, 2)[i] \in Byte
  <2>1. Bytes(from, 2) \in Seq(Byte)
    BY SliceIsBytes
  <2>. QED  BY ONLY <2>1, ElementOfSeq
<1>2. Len(Bytes(from, 2)) \in 0 .. 2
  <2> DEFINE end == IF from + 2 < Len(packet) THEN from + 2 ELSE Len(packet)
  <2>1. end \in Nat /\ end <= from + 2 /\ \A i \in from + 1 .. end : packet[i] \in Byte
    BY DEF IsPacket
  <2>. HIDE DEF end
  <2>2. Len(SubSeq(packet, from + 1, end)) =
           IF from + 1 <= end THEN end - (from + 1) + 1 ELSE 0
    BY <2>1, SubSeqProperties
  <2>3. Bytes(from, 2) = SubSeq(packet, from + 1, end)
    BY DEF Bytes, end
  <2>4. ASSUME NEW n, n = IF from + 1 <= end THEN end - (from + 1) + 1 ELSE 0
        PROVE  n \in 0 .. 2
    BY ONLY <2>1, <2>4, from \in Nat
  <2>. QED  BY ONLY <2>2, <2>3, <2>4
<1>3. Unpacked(from, 2) \in Nat
  <2>1. ASSUME NEW n \in 0 .. 2, NEW b, \A i \in 1 .. n : b[i] \in Byte
        PROVE  (CASE n = 0 -> 0 [] n = 1 -> b[1] [] OTHER -> 256 * b[1] + b[2]) \in Nat
    BY ONLY <2>1 DEF Byte
  <2>. QED  BY ONLY <1>1, <1>2, <2>1 DEF Unpacked
<1>4. ASSUME from + 1 <= Len(packet) PROVE Unpacked(from, 1) = packet[from + 1]
  <2>1. Len(Bytes(from, 1)) = 1 /\ \A i \in 1 .. 1 : Bytes(from, 1)[i] = packet[from + i]
    BY <1>4, SliceIsBytes
  <2>2. Bytes(from, 1)[1] = packet[from + 1]
    BY ONLY <2>1
  <2>. QED  BY ONLY <2>1, <2>2 DEF Unpacked
<1>5. ASSUME from + 2 <= Len(packet)
      PROVE  Unpacked(from, 2) = 256 * packet[from + 1] + packet[from + 2]
  <2>1. Len(Bytes(from, 2)) = 2 /\ \A i \in 1 .. 2 : Bytes(from, 2)[i] = packet[from + i]
    BY <1>5, SliceIsBytes
  <2>2. Bytes(from, 2)[1] = packet[from + 1] /\ Bytes(from, 2)[2] = packet[from + 2]
    BY ONLY <2>1
  <2>. QED  BY ONLY <2>1, <2>2 DEF Unpacked
<1>. QED  BY <1>3, <1>4, <1>5

\* The header as it is read.
LEMMA HeaderRead ==
  ASSUME IsPacket
  PROVE  /\ Unpacked(0, 1) = packet[1] /\ Unpacked(1, 1) = packet[2]
         /\ Unpacked(2, 2) = Len(packet)
<1>1. Len(packet) \in Nat /\ Len(packet) >= 8 /\ packet[3] = 0 /\ packet[4] = Len(packet)
  BY DEF IsPacket, HeaderSize
<1>2. /\ \A from \in Nat : from + 1 <= Len(packet) => Unpacked(from, 1) = packet[from + 1]
      /\ \A from \in Nat : from + 2 <= Len(packet) =>
            Unpacked(from, 2) = 256 * packet[from + 1] + packet[from + 2]
  BY NumbersRead
<1>3. /\ Unpacked(0, 1) = packet[1] /\ Unpacked(1, 1) = packet[2]
      /\ Unpacked(2, 2) = 256 * packet[3] + packet[4]
  BY ONLY <1>1, <1>2
<1>4. \A n \in Nat : 256 * 0 + n = n
  OBVIOUS
<1>. QED  BY ONLY <1>1, <1>3, <1>4

-------------------------------------------------------------------------------
(* The types, and what the negotiation makes of what was decoded.          *)

\* The version that the versions of the bitmap, or the header, lead to.
Outcome == IF Versions # {} THEN VersionFromBitmask(Versions) ELSE VersionFromHeader(packet[1])

HelloInv ==
  /\ TypeOK
  /\ IsPacket
  /\ pc = "unpack" => version = NoVersion
  /\ pc # "unpack" /\ IsHello => offset = Len(packet)
  /\ ~HasBitmap => DOMAIN elements = {}
  /\ pc \in {"agreed", "failed"} /\ IsHello =>
        version = Outcome /\ (pc = "failed" <=> version = NoVersion)

\* Both ways lead to a version of the controller or to none.
LEMMA VersionsAreOwn ==
  ASSUME NEW S, NEW v \in Nat
  PROVE  /\ VersionFromBitmask(S) \in OPENFLOW_VERSIONS \union {NoVersion}
         /\ VersionFromHeader(v) \in OPENFLOW_VERSIONS \union {NoVersion}
<1>1. OPENFLOW_VERSIONS \in SUBSET Byte /\ OPENFLOW_VERSIONS # {}
  <2>1. \A x \in OPENFLOW_VERSIONS : x \in 0 .. 31
    BY VersionNumbers
  <2>2. \A x \in 0 .. 31 : x \in Byte
    BY DEF Byte
  <2>. QED  BY VersionNumbers, <2>1, <2>2
<1>2. (S \intersect OPENFLOW_VERSIONS) \in SUBSET Byte
  BY <1>1
<1>. QED  BY <1>1, <1>2, HighestVersion DEF VersionFromBitmask, VersionFromHeader

LEMMA NextElement ==
  ASSUME NEW o \in Nat, NEW l \in Nat, o % 4 = 0, l % 4 = 0, o < l
  PROVE  (o + 4) % 4 = 0 /\ o + 4 <= l
<1> DEFINE p == o \div 4
           q == l \div 4
<1>1. p \in Int /\ o = 4 * p
  OBVIOUS
<1>2. q \in Int /\ l = 4 * q
  OBVIOUS
<1>. HIDE DEF p, q
<1>3. p + 1 <= q
  BY <1>1, <1>2
<1>. QED  BY <1>1, <1>2, <1>3

LEMMA InitHello == Init => HelloInv
<1>. SUFFICES ASSUME Init PROVE HelloInv
  OBVIOUS
<1>1. IsPacket /\ spoken \subseteq SwitchVersions
  <2>1. ASSUME NEW S \in (SUBSET SwitchVersions) \ {{}}, NEW extra \in ExtraElements \union {<<>>},
               spoken = S, packet = Pack(S, extra)
        PROVE  IsPacket /\ spoken \subseteq SwitchVersions
    <3>1. S \in SUBSET (0 .. 31) /\ S # {}
      BY VersionNumbers
    <3>2. extra \in Seq(Byte) /\ Len(extra) % 4 = 0 /\ Len(extra) < 240
      <4>1. CASE extra \in ExtraElements
        BY <4>1, HelloAssumption DEF Byte
      <4>2. CASE extra = <<>>
        <5>1. Len(extra) = 0 /\ extra \in Seq(Byte)
          BY ONLY <4>2
        <5>2. 0 % 4 = 0
          OBVIOUS
        <5>. QED  BY ONLY <5>1, <5>2
      <4>. QED  BY <4>1, <4>2
    <3>. QED  BY <2>1, <3>1, <3>2, BitmapPacket
  <2>2. ASSUME NEW v \in SwitchVersions, NEW type \in {HELLO, 2},
               spoken = {w \in SwitchVersions : w <= v}, packet = BareHello(v, type)
        PROVE  IsPacket /\ spoken \subseteq SwitchVersions
    BY <2>2, BarePacket
  <2>. QED  BY <2>1, <2>2 DEF Init
<1>2. packet \in Seq(0 .. 255) /\ Len(packet) \in Nat /\ HeaderSize <= Len(packet)
  BY <1>1 DEF IsPacket, Byte
<1>3. pc = "unpack" /\ offset = HeaderSize /\ elements = <<>> /\ version = NoVersion
  BY DEF Init
<1>4. offset % 4 = 0 /\ offset \in HeaderSize .. Len(packet)
  BY <1>2, <1>3 DEF HeaderSize
<1>5. DOMAIN elements = {}
  BY <1>3
<1>6. TypeOK
  BY <1>1, <1>2, <1>3, <1>4, <1>5 DEF TypeOK
<1>. QED  BY <1>1, <1>3, <1>5, <1>6 DEF HelloInv

LEMMA NextHello == HelloInv /\ [Next]_vars => HelloInv'
<1>. SUFFICES ASSUME HelloInv, [Next]_vars PROVE HelloInv'
  OBVIOUS
<1>1. /\ spoken \subseteq SwitchVersions /\ packet \in Seq(0 .. 255) /\ IsPacket
      /\ pc \in {"unpack", "negotiate", "agreed", "failed"}
      /\ offset % 4 = 0 /\ offset \in HeaderSize .. Len(packet)
      /\ \A type \in DOMAIN elements : elements[type] \in Seq(0 .. 255)
      /\ version \in OPENFLOW_VERSIONS \union {NoVersion}
  BY DEF HelloInv, TypeOK
<1>2. Unpacked(1, 1) = packet[2] /\ Unpacked(2, 2) = Len(packet) /\ Unpacked(0, 1) = packet[1]
  BY <1>1, HeaderRead
<1>3. offset \in Nat /\ Len(packet) \in Nat /\ Len(packet) % 4 = 0 /\ offset <= Len(packet)
  BY <1>1 DEF IsPacket, HeaderSize
<1>4. spoken' = spoken /\ packet' = packet
  BY DEF Next, RefuseType, UnpackElement, FinishUnpack, Negotiate, Done, vars
<1>5. IsPacket' /\ (HasBitmap' <=> HasBitmap) /\ (IsHello' <=> IsHello)
  BY <1>1, <1>4 DEF IsPacket, HasBitmap, OnlyBitmap, IsHello
<1>6. CASE RefuseType
  BY <1>1, <1>2, <1>4, <1>5, <1>6 DEF RefuseType, HelloInv, TypeOK, IsHello
<1>7. CASE UnpackElement
  <2>1. /\ pc = "unpack" /\ pc' = pc /\ version' = version /\ offset' = offset + 4
        /\ elements' = WithElement(Unpacked(offset + 2, 2)) /\ offset < Len(packet)
    BY <1>2, <1>7 DEF UnpackElement
  <2>2. offset' % 4 = 0 /\ offset' <= Len(packet)
    BY <1>1, <1>3, <2>1, NextElement
  <2>3. offset' \in HeaderSize .. Len(packet)
    BY <1>1, <1>3, <2>1, <2>2 DEF HeaderSize
  <2>4. \A type \in DOMAIN elements' : elements'[type] \in Seq(0 .. 255)
    <3>1. offset + 2 \in Nat /\ offset + 4 \in Nat
      BY <1>3
    <3>2. Unpacked(offset + 2, 2) \in Nat
      BY <1>1, <3>1, NumbersRead
    <3>3. Bytes(offset + 4, Unpacked(offset + 2, 2)) \in Seq(0 .. 255)
      BY <1>1, <3>1, <3>2, SliceIsBytes DEF Byte
    <3>. QED  BY <1>1, <2>1, <3>3 DEF WithElement
  <2>5. HasBitmap
    <3>1. offset >= HeaderSize
      BY <1>1 DEF HeaderSize
    <3>. QED  BY <1>3, <2>1, <3>1 DEF HasBitmap, HeaderSize
  <2>. QED  BY <1>1, <1>4, <1>5, <2>1, <2>2, <2>3, <2>4, <2>5 DEF HelloInv, TypeOK
<1>8. CASE FinishUnpack
  <2>1. /\ pc' = "negotiate" /\ UNCHANGED <<offset, elements, version>>
        /\ offset >= Len(packet)
    BY <1>2, <1>8 DEF FinishUnpack
  <2>2. offset = Len(packet)
    BY <1>3, <2>1
  <2>. QED  BY <1>1, <1>4, <1>5, <2>1, <2>2 DEF HelloInv, TypeOK
<1>9. CASE Negotiate
  <2>1. /\ pc = "negotiate" /\ UNCHANGED <<offset, elements>>
        /\ version' = Outcome
        /\ pc' = IF version' = NoVersion THEN "failed" ELSE "agreed"
    BY <1>2, <1>9 DEF Negotiate, Outcome
  <2>2. Outcome' = Outcome
    BY <1>4, <2>1 DEF Outcome, Versions
  <2>3. packet[1] \in Nat
    <3>1. 1 \in 1 .. Len(packet)
      BY <1>1, <1>3 DEF HeaderSize
    <3>2. packet[1] \in 0 .. 255
      BY ONLY <1>1, <3>1, ElementOfSeq
    <3>. QED  BY ONLY <3>2
  <2>4. version' \in OPENFLOW_VERSIONS \union {NoVersion}
    BY <2>1, <2>3, VersionsAreOwn DEF Outcome
  <2>. QED  BY <1>1, <1>4, <1>5, <2>1, <2>2, <2>4 DEF HelloInv, TypeOK
<1>10. CASE Done \/ UNCHANGED vars
  <2>1. UNCHANGED <<spoken, packet, pc, offset, elements, version>>
    BY <1>10 DEF Done, vars
  <2>2. Outcome' = Outcome
    BY <2>1 DEF Outcome, Versions
  <2>. QED  BY <1>1, <1>5, <2>1, <2>2 DEF HelloInv, TypeOK
<1>. QED  BY <1>6, <1>7, <1>8, <1>9, <1>10 DEF Next

\* The inductive invariant of the decoding and the negotiation.
THEOREM HelloInvariant == Spec => []HelloInv
<1>. QED  BY InitHello, NextHello, PTL DEF Spec

\* Every variable has its type, the offset stays in the packet.
THEOREM TypeCorrect == Spec => []TypeOK
<1>1. HelloInv => TypeOK
  BY DEF HelloInv
<1>. QED  BY <1>1, HelloInvariant, PTL

\* Without a bitmap: no version above the one of the header or the controller's
\* own, and none above it would have served.
THEOREM HeaderIsRespected == Spec => []HeaderVersionRespected
<1>1. HelloInv => HeaderVersionRespected
  <2>. SUFFICES ASSUME HelloInv, pc \in {"agreed", "failed"}, ~HasBitmap, IsHello
                PROVE  /\ pc = "agreed" => version \in spoken
                       /\ Max(OPENFLOW_VERSIONS) \in spoken => version = Max(OPENFLOW_VERSIONS)
    BY DEF HeaderVersionRespected
  <2> DEFINE top == Max(OPENFLOW_VERSIONS)
             v == packet[1]
  <2>1. v \in SwitchVersions /\ spoken = {w \in SwitchVersions : w <= v}
    BY DEF HelloInv, IsPacket
  <2>2. version = VersionFromHeader(v) /\ (pc = "failed" <=> version = NoVersion)
    BY DEF HelloInv, Outcome, Versions
  <2>3. top \in OPENFLOW_VERSIONS /\ \A y \in OPENFLOW_VERSIONS : y <= top
    <3>1. OPENFLOW_VERSIONS \in SUBSET Byte /\ OPENFLOW_VERSIONS # {}
      BY VersionNumbers DEF Byte
    <3>. QED  BY <3>1, HighestVersion
  <2>4. top \in Nat /\ v \in Nat
    <3>1. \A x \in SwitchVersions : x \in 0 .. 31
      BY VersionNumbers
    <3>2. \A x \in 0 .. 31 : x \in Nat
      OBVIOUS
    <3>3. top \in SwitchVersions
      BY <2>3, VersionNumbers
    <3>. HIDE DEF top, v
    <3>. QED  BY ONLY <2>1, <3>1, <3>2, <3>3
  <2>. HIDE DEF top, v
  <2>5. Min({v, top}) \in {v, top} /\ Min({v, top}) <= v /\ Min({v, top}) <= top
    BY <2>4, LowerOfTwo
  <2>6. version = IF Min({v, top}) \in OPENFLOW_VERSIONS THEN Min({v, top}) ELSE NoVersion
    BY <2>2 DEF VersionFromHeader, top
  <2>7. ASSUME pc = "agreed" PROVE version \in spoken
    <3>1. version = Min({v, top}) /\ version \in OPENFLOW_VERSIONS
      <4>1. version # NoVersion
        BY <2>2, <2>7
      <4>. QED  BY <2>6, <4>1
    <3>2. version \in SwitchVersions
      BY <3>1, VersionNumbers
    <3>. QED  BY <2>1, <2>5, <3>1, <3>2
  <2>8. ASSUME top \in spoken PROVE version = top
    <3>1. top <= v
      BY <2>1, <2>8
    <3>2. Min({v, top}) = top
      BY <2>4, <2>5, <3>1, SMTT(60)
    <3>. QED  BY <2>3, <2>6, <3>2
  <2>. QED  BY <2>7, <2>8 DEF top
<1>. QED  BY <1>1, HelloInvariant, PTL

-------------------------------------------------------------------------------
(* The versions of the bitmap, in a hello with no other element.           *)

\* What is decoded behind the header is the bitmap, and it is kept.
BitmapInv ==
  OnlyBitmap => IF offset = HeaderSize THEN pc = "unpack"
                ELSE BITMAP \in DOMAIN elements /\ elements[BITMAP] = Bitmap(spoken)

\* The bytes of the bitmap, read as the header of an element, are not one of a
\* second bitmap.
LEMMA NoSecondBitmap ==
  ASSUME NoVersion16, IsPacket, OnlyBitmap, spoken \subseteq SwitchVersions
  PROVE  Unpacked(12, 2) # BITMAP
<1>1. /\ packet \in Seq(Byte) /\ Len(packet) = 16
      /\ SubSeq(packet, 13, 16) = Bitmap(spoken)
  BY DEF IsPacket, OnlyBitmap, HeaderSize
<1>2. packet[13] = ByteOf(spoken, 24) /\ packet[14] = ByteOf(spoken, 16)
  <2>1. \A i \in 13 .. 16 : packet[i] \in Byte
    <3>1. \A i \in 13 .. 16 : i \in 1 .. Len(packet)
      BY ONLY <1>1
    <3>. QED  BY ONLY <1>1, <3>1, ElementOfSeq
  <2>2. \A i \in 1 .. 4 : SubSeq(packet, 13, 16)[i] = packet[13 + i - 1]
    BY ONLY <2>1, SubSeqProperties
  <2>3. SubSeq(packet, 13, 16)[1] = packet[13] /\ SubSeq(packet, 13, 16)[2] = packet[14]
    BY ONLY <2>2
  <2>4. Bitmap(spoken)[1] = ByteOf(spoken, 24) /\ Bitmap(spoken)[2] = ByteOf(spoken, 16)
    BY ONLY DEF Bitmap
  <2>. QED  BY ONLY <1>1, <2>3, <2>4
<1>3. /\ ByteOf(spoken, 24) \in Byte /\ ByteOf(spoken, 16) \in Byte
      /\ ByteOf(spoken, 16) # 1
  <2>1. 16 + 0 \notin spoken
    BY DEF NoVersion16
  <2>2. ~Bit(ByteOf(spoken, 16), 0) /\ ByteOf(spoken, 16) \in Byte /\ ByteOf(spoken, 24) \in Byte
    BY <2>1, BitsOfByteOf
  <2>3. Bit(1, 0)
    <3>1. 2^0 = 1 /\ (1 \div 1) % 2 = 1
      OBVIOUS
    <3>. QED  BY ONLY <3>1 DEF Bit
  <2>. QED  BY ONLY <2>2, <2>3
<1>4. Unpacked(12, 2) = 256 * packet[13] + packet[14]
  <2>1. \A from \in Nat : from + 2 <= 16 =>
            Unpacked(from, 2) = 256 * packet[from + 1] + packet[from + 2]
    BY <1>1, NumbersRead
  <2>. QED  BY ONLY <2>1
<1>5. ASSUME NEW a \in 0 .. 255, NEW b \in 0 .. 255, b # 1 PROVE 256 * a + b # 1
  BY ONLY <1>5
<1>. QED  BY ONLY <1>2, <1>3, <1>4, <1>5, ZenonT(60) DEF BITMAP, Byte

\* The first element is the bitmap.
LEMMA FirstIsBitmap ==
  ASSUME IsPacket, OnlyBitmap
  PROVE  /\ Unpacked(8, 2) = BITMAP /\ Unpacked(10, 2) = 8
         /\ Bytes(12, 8) = Bitmap(spoken)
<1>1. /\ Len(packet) = 16 /\ SubSeq(packet, 13, 16) = Bitmap(spoken)
      /\ packet[9] = 0 /\ packet[10] = BITMAP /\ packet[11] = 0 /\ packet[12] = 8
  BY DEF IsPacket, OnlyBitmap, HeaderSize
<1>2. \A from \in Nat : from + 2 <= 16 =>
          Unpacked(from, 2) = 256 * packet[from + 1] + packet[from + 2]
  BY <1>1, NumbersRead
<1>3. Unpacked(8, 2) = 256 * packet[9] + packet[10]
  BY ONLY <1>2
<1>4. Unpacked(10, 2) = 256 * packet[11] + packet[12]
  BY ONLY <1>2
<1>5. Bytes(12, 8) = SubSeq(packet, 13, 16)
  <2>1. ~(12 + 8 < 16) /\ 12 + 1 = 13
    OBVIOUS
  <2>. QED  BY ONLY <1>1, <2>1 DEF Bytes
<1>6. 256 * 0 + BITMAP = BITMAP /\ 256 * 0 + 8 = 8
  BY DEF BITMAP
<1>. QED  BY ONLY <1>1, <1>3, <1>4, <1>5, <1>6

LEMMA InitBitmap == Init => BitmapInv
  BY DEF Init, BitmapInv

LEMMA NextBitmap ==
  ASSUME NoVersion16
  PROVE  HelloInv /\ BitmapInv /\ [Next]_vars => BitmapInv'
<1>. SUFFICES ASSUME HelloInv, BitmapInv, [Next]_vars, OnlyBitmap'
              PROVE  IF offset' = HeaderSize THEN pc' = "unpack"
                     ELSE BITMAP \in DOMAIN elements' /\ elements'[BITMAP] = Bitmap(spoken')
  BY DEF BitmapInv
<1>1. spoken' = spoken /\ packet' = packet
  BY DEF Next, RefuseType, UnpackElement, FinishUnpack, Negotiate, Done, vars
<1>2. OnlyBitmap /\ HasBitmap /\ Len(packet) = 16
  <2>1. OnlyBitmap
    BY <1>1 DEF OnlyBitmap
  <2>2. HeaderSize + 8 = 16 /\ HeaderSize + 8 > HeaderSize
    BY DEF HeaderSize
  <2>. QED  BY ONLY <2>1, <2>2 DEF OnlyBitmap, HasBitmap
<1>3. IsPacket /\ spoken \subseteq SwitchVersions /\ offset % 4 = 0 /\ offset \in 8 .. 16
  BY <1>2 DEF HelloInv, TypeOK, HeaderSize
<1>4. packet[2] = HELLO /\ Unpacked(1, 1) = packet[2] /\ Unpacked(2, 2) = Len(packet)
  BY <1>2, <1>3, HeaderRead DEF IsPacket
<1>5. IF offset = 8 THEN pc = "unpack"
      ELSE BITMAP \in DOMAIN elements /\ elements[BITMAP] = Bitmap(spoken)
  BY <1>2 DEF BitmapInv, HeaderSize
<1>6. CASE UnpackElement
  <2>1. /\ offset' = offset + 4 /\ pc' = pc /\ offset < 16
        /\ elements' = WithElement(Unpacked(offset + 2, 2))
    BY <1>2, <1>4, <1>6 DEF UnpackElement
  <2>2. offset = 8 \/ offset = 12
    BY <1>3, <2>1
  <2>3. CASE offset = 8
    <3>1. Unpacked(offset, 2) = BITMAP /\ Unpacked(offset + 2, 2) = 8
      BY <1>2, <1>3, <2>3, FirstIsBitmap
    <3>2. Bytes(offset + 4, 8) = Bitmap(spoken)
      BY <1>2, <1>3, <2>3, FirstIsBitmap
    <3>. QED  BY <1>1, <2>1, <2>3, <3>1, <3>2 DEF WithElement, HeaderSize
  <2>4. CASE offset = 12
    <3>1. Unpacked(offset, 2) # BITMAP
      BY <1>2, <1>3, <2>4, NoSecondBitmap
    <3>2. BITMAP \in DOMAIN elements /\ elements[BITMAP] = Bitmap(spoken)
      BY <1>5, <2>4
    <3>. QED  BY <1>1, <2>1, <2>4, <3>1, <3>2 DEF WithElement, HeaderSize
  <2>. QED  BY <2>2, <2>3, <2>4
<1>7. CASE RefuseType
  BY <1>4, <1>7 DEF RefuseType
<1>8. CASE FinishUnpack
  <2>1. offset >= 16 /\ UNCHANGED <<offset, elements>>
    BY <1>2, <1>4, <1>8 DEF FinishUnpack
  <2>2. offset # 8
    BY <1>3, <2>1
  <2>. QED  BY <1>1, <1>5, <2>1, <2>2 DEF HeaderSize
<1>9. CASE Negotiate
  <2>1. pc # "unpack" /\ UNCHANGED <<offset, elements>>
    BY <1>9 DEF Negotiate
  <2>. QED  BY <1>1, <1>5, <2>1 DEF HeaderSize
<1>10. CASE Done \/ UNCHANGED vars
  BY <1>1, <1>5, <1>10 DEF Done, vars, HeaderSize
<1>. QED  BY <1>6, <1>7, <1>8, <1>9, <1>10 DEF Next

LEMMA BitmapIsKept ==
  ASSUME NoVersion16
  PROVE  Spec => [](HelloInv /\ BitmapInv)
<1>. QED  BY InitHello, NextHello, InitBitmap, NextBitmap, PTL DEF Spec

\* Once a hello with a bitmap only is decoded, its versions are the switch's.
LEMMA VersionsAreSpoken ==
  ASSUME HelloInv, BitmapInv, OnlyBitmap, pc # "unpack"
  PROVE  Versions = spoken /\ spoken # {} /\ IsHello
<1>1. HasBitmap /\ IsHello /\ spoken # {} /\ spoken \subseteq SwitchVersions
  BY DEF HelloInv, TypeOK, IsPacket, OnlyBitmap, HasBitmap, HeaderSize, IsHello
<1>2. BITMAP \in DOMAIN elements /\ elements[BITMAP] = Bitmap(spoken)
  BY DEF BitmapInv, OnlyBitmap, HelloInv, HeaderSize
<1>3. spoken \in SUBSET (0 .. 31)
  BY <1>1, VersionNumbers
<1>. QED  BY <1>1, <1>2, <1>3, BitmapIsRead DEF Versions

\* What pack writes, unpack reads back.
THEOREM BitmapIsReadBack ==
  ASSUME NoVersion16
  PROVE  Spec => []BitmapReadBack
<1>1. HelloInv /\ BitmapInv => BitmapReadBack
  BY VersionsAreSpoken DEF BitmapReadBack
<1>. QED  BY <1>1, BitmapIsKept, PTL

\* The highest version that both sides speak is agreed on, if there is one.
THEOREM HighestIsAgreedOn ==
  ASSUME NoVersion16
  PROVE  Spec => []HighestCommonVersion
<1>1. HelloInv /\ BitmapInv => HighestCommonVersion
  <2>. SUFFICES ASSUME HelloInv, BitmapInv, pc \in {"agreed", "failed"}, OnlyBitmap
                PROVE  LET common == spoken \intersect OPENFLOW_VERSIONS
                       IN  IF common = {} THEN pc = "failed" ELSE version = Max(common)
    BY DEF HighestCommonVersion
  <2>1. Versions = spoken /\ spoken # {} /\ IsHello
    BY VersionsAreSpoken
  <2>2. version = VersionFromBitmask(spoken) /\ (pc = "failed" <=> version = NoVersion)
    BY <2>1 DEF HelloInv, Outcome
  <2>. QED  BY <2>2 DEF VersionFromBitmask
<1>. QED  BY <1>1, BitmapIsKept, PTL
===============================================================================
