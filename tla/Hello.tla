--------------------------------- MODULE Hello ---------------------------------
(***************************************************************************)
(* The hello of a switch: GenericHello decodes it element by element, and  *)
(* the OpenFlow version is negotiated from its version bitmap or from its  *)
(* header.  What the connection does with the outcome is in Handshake.     *)
(*                                                                         *)
(* Packets are sequences of bytes, as long as their header says (of_slicer *)
(* sees to that) and no shorter than a header.                             *)
(***************************************************************************)
EXTENDS Naturals, Sequences, FiniteSetsExt

CONSTANTS
    OPENFLOW_VERSIONS, \* settings.OPENFLOW_VERSIONS
    SwitchVersions,    \* the versions a switch may speak
    ExtraElements      \* hello elements, as bytes, that may follow the bitmap

\* The controller's versions are versions a switch may speak; elements come in
\* whole headers of four bytes (bound: one byte tells the length of the hello).
ASSUME HelloAssumption ==
    /\ OPENFLOW_VERSIONS # {} /\ OPENFLOW_VERSIONS \subseteq SwitchVersions
    /\ SwitchVersions \subseteq 0 .. 31
    /\ \A extra \in ExtraElements :
          extra \in Seq(0 .. 255) /\ Len(extra) % 4 = 0 /\ Len(extra) < 240

VARIABLES
    spoken,   \* the versions the switch speaks, and the ones of its bitmap if it has one
    packet,   \* its hello
    pc,       \* "unpack", "negotiate", "agreed" or "failed"
    offset,   \* where unpack is in the packet
    elements, \* element types -> values
    version   \* the negotiated version

vars == <<spoken, packet, pc, offset, elements, version>>

-------------------------------------------------------------------------------
HeaderSize == 8
BITMAP == 1     \* OFPHET_VERSIONBITMAP
HELLO == 0      \* the type of a hello

Bit(byte, i) == (byte \div 2^i) % 2 = 1

\* The byte with the bits for the eight versions from first on.
ByteOf(versions, first) ==
    LET bit(i) == IF first + i \in versions THEN 2^i ELSE 0
    IN  bit(0) + bit(1) + bit(2) + bit(3) + bit(4) + bit(5) + bit(6) + bit(7)

\* Mutant of Bitmap: the least significant byte comes first.
BitmapLittleEndian(versions) ==
    <<ByteOf(versions, 0), ByteOf(versions, 8), ByteOf(versions, 16), ByteOf(versions, 24)>>

\* Four bytes, the most significant first, with bit v set for version v.
Bitmap(versions) ==
    <<ByteOf(versions, 24), ByteOf(versions, 16), ByteOf(versions, 8), ByteOf(versions, 0)>>

\* GenericHello.pack, with what follows the bitmap in the hellos of others.
Pack(versions, extra) ==
    <<Max(versions), HELLO, 0, HeaderSize + 8 + Len(extra), 0, 0, 0, 0>>
        \o <<0, BITMAP, 0, 8>> \o Bitmap(versions) \o extra

\* A hello that is a header only, as switches before the bitmap send it.
BareHello(v, type) == <<v, type, 0, HeaderSize, 0, 0, 0, 0>>

\* A slice of the packet: it ends with the packet, as slices do in Python.
Bytes(from, size) ==
    SubSeq(packet, from + 1, IF from + size < Len(packet) THEN from + size ELSE Len(packet))

\* _unpack_int of one or two bytes.
Unpacked(from, size) ==
    LET bytes == Bytes(from, size)
    IN  CASE Len(bytes) = 0 -> 0
          [] Len(bytes) = 1 -> bytes[1]
          [] OTHER          -> 256 * bytes[1] + bytes[2]

\* The versions of a bitmap: the low 32 bits of the value of its element.
VersionsOf(value) ==
    {v \in 0 .. 31 : LET k == Len(value) - (v \div 8) IN k >= 1 /\ Bit(value[k], v % 8)}

\* message.versions: None, here {}, without a bitmap or with an empty one.
Versions == IF BITMAP \in DOMAIN elements THEN VersionsOf(elements[BITMAP]) ELSE {}

\* The two ways to a version; NoVersion is Python's None.
NoVersion == 255
\* Mutant of VersionFromBitmask: the highest version of the switch or none.
HighestOrNone(versions) ==
    IF Max(versions) \in OPENFLOW_VERSIONS THEN Max(versions) ELSE NoVersion

VersionFromBitmask(versions) ==
    LET common == versions \intersect OPENFLOW_VERSIONS
    IN  IF common = {} THEN NoVersion ELSE Max(common)
\* Mutant of VersionFromHeader: the controller does not go below the header.
HeaderOrNone(v) == IF v \in OPENFLOW_VERSIONS THEN v ELSE NoVersion

VersionFromHeader(v) ==
    LET lowest == Min({v, Max(OPENFLOW_VERSIONS)})
    IN  IF lowest \in OPENFLOW_VERSIONS THEN lowest ELSE NoVersion

-------------------------------------------------------------------------------
Init ==
    /\ \/ \E versions \in (SUBSET SwitchVersions) \ {{}}, extra \in ExtraElements \union {<<>>} :
              spoken = versions /\ packet = Pack(versions, extra)
       \/ \E v \in SwitchVersions, type \in {HELLO, 2} :
              spoken = {w \in SwitchVersions : w <= v} /\ packet = BareHello(v, type)
    /\ pc = "unpack"
    /\ offset = HeaderSize
    /\ elements = <<>>
    /\ version = NoVersion

\* unpack raises UnpackException: the connection is closed.
RefuseType ==
    /\ pc = "unpack"
    /\ Unpacked(1, 1) # HELLO
    /\ pc' = "failed"
    /\ UNCHANGED <<spoken, packet, offset, elements, version>>

\* The element at the offset, its value that many bytes long, among the ones before.
WithElement(size) ==
    [type \in DOMAIN elements \union {Unpacked(offset, 2)} |->
        IF type = Unpacked(offset, 2) THEN Bytes(offset + 4, size) ELSE elements[type]]

\* Mutants of UnpackElement: the next element is looked for behind the value, as
\* long as the whole element; or the offset advances by the length alone.
UnpackPastValue ==
    /\ pc = "unpack"
    /\ Unpacked(1, 1) = HELLO
    /\ offset < Unpacked(2, 2)
    /\ offset' = offset + 4 + Unpacked(offset + 2, 2)
    /\ elements' = WithElement(Unpacked(offset + 2, 2))
    /\ UNCHANGED <<spoken, packet, pc, version>>

UnpackByLength ==
    /\ pc = "unpack"
    /\ Unpacked(1, 1) = HELLO
    /\ offset < Unpacked(2, 2)
    /\ offset' = offset + Unpacked(offset + 2, 2)
    /\ elements' = WithElement(Unpacked(offset + 2, 2))
    /\ UNCHANGED <<spoken, packet, pc, version>>

\* One turn of the loop.  elem_header_size is 0 in the code: the value is read
\* as long as the whole element, and the next element is looked for where this
\* value begins.
UnpackElement ==
    /\ pc = "unpack"
    /\ Unpacked(1, 1) = HELLO
    /\ offset < Unpacked(2, 2)
    /\ offset' = offset + 4
    /\ elements' = WithElement(Unpacked(offset + 2, 2))
    /\ UNCHANGED <<spoken, packet, pc, version>>

FinishUnpack ==
    /\ pc = "unpack"
    /\ Unpacked(1, 1) = HELLO
    /\ offset >= Unpacked(2, 2)
    /\ pc' = "negotiate"
    /\ UNCHANGED <<spoken, packet, offset, elements, version>>

\* _negotiate, up to the version or the failure.
Negotiate ==
    /\ pc = "negotiate"
    /\ version' = IF Versions # {} THEN VersionFromBitmask(Versions)
                  ELSE VersionFromHeader(Unpacked(0, 1))
    /\ pc' = IF version' = NoVersion THEN "failed" ELSE "agreed"
    /\ UNCHANGED <<spoken, packet, offset, elements>>

Done == pc \in {"agreed", "failed"} /\ UNCHANGED vars

Next == RefuseType \/ UnpackElement \/ FinishUnpack \/ Negotiate \/ Done

Spec == Init /\ [][Next]_vars /\ WF_vars(Next)

-------------------------------------------------------------------------------
(* Properties.                                                             *)

IsHello == packet[2] = HELLO
HasBitmap == Len(packet) > HeaderSize
OnlyBitmap == Len(packet) = HeaderSize + 8

\* Every variable has its type; the offset advances by whole element headers and
\* never leaves the packet.
TypeOK ==
    /\ spoken \subseteq SwitchVersions
    /\ packet \in Seq(0 .. 255)
    /\ pc \in {"unpack", "negotiate", "agreed", "failed"}
    /\ offset % 4 = 0 /\ offset \in HeaderSize .. Len(packet)
    /\ \A type \in DOMAIN elements : elements[type] \in Seq(0 .. 255)
    /\ version \in OPENFLOW_VERSIONS \union {NoVersion}

\* With a hello that is a header and a bitmap, the only form in use, the highest
\* version that both sides speak is agreed on, and the negotiation fails only if
\* there is none; decoding the wrong size or the wrong place would show here.
HighestCommonVersion ==
    (pc \in {"agreed", "failed"} /\ OnlyBitmap) =>
        LET common == spoken \intersect OPENFLOW_VERSIONS
        IN  IF common = {} THEN pc = "failed" ELSE version = Max(common)

\* Without a bitmap the agreed version is never above the one of the header, nor
\* above the controller's own, and no version above it would have served.
HeaderVersionRespected ==
    (pc \in {"agreed", "failed"} /\ ~HasBitmap /\ IsHello) =>
        /\ pc = "agreed" => version \in spoken
        /\ Max(OPENFLOW_VERSIONS) \in spoken => version = Max(OPENFLOW_VERSIONS)

\* All the versions of the bitmap are read, the ones that are not agreed on too:
\* what pack writes, unpack reads back.
BitmapReadBack == (pc \in {"negotiate", "agreed"} /\ OnlyBitmap) => Versions = spoken

\* Whatever elements a hello has, its decoding ends with an answer: a version or
\* a failure, on which the connection is set up or closed.
AlwaysAnswered == <>(pc \in {"agreed", "failed"})

\* The next element is looked for in the bitmap itself: its first two bytes are
\* the type of a bitmap if they announce version 16 and nothing above 15 beside
\* it.  There is no such version yet.
NoVersion16 == 16 \notin SwitchVersions

-------------------------------------------------------------------------------
(* What the documents say and the code does not do.                        *)

\* The version taken from the bitmap is one the switch has announced in it
\* (_get_version_from_bitmask: "Get common version from hello message version
\* bitmap").  The value of the bitmap is read four bytes too long: if another
\* element follows it, its type and length are taken for versions.
AgreedOnAnnouncedVersion == (pc = "agreed" /\ HasBitmap) => version \in spoken
===============================================================================
