------------------------------ MODULE MatchFields ------------------------------
(***************************************************************************)
(* The fields of a match, as the value a user gives and as the TLV a       *)
(* switch gets: the 40 classes of match_fields, by the five ways they have *)
(* to encode a value.                                                      *)
(*                                                                         *)
(* A value is a number and a mask (100, '5/4095', '10.0.0.0/8') and the    *)
(* way it is spelled: 100 or '100', 'aa:...' or 'AA:...'.  A TLV has a     *)
(* flag oxm_hasmask beside its bytes, the value's and the mask's.          *)
(***************************************************************************)
EXTENDS Integers, FiniteSets

CONSTANTS
    OFPVID_PRESENT, \* the bit above the VLAN id, a power of two: 4096
    AddressBits,    \* the bits of an address: 32, 48 or 128
    IntBits         \* the bits of the other fields: 8 to 64

\* 2^n; a function over the numbers up to n, since the provers know no law of ^.
TwoTo(n) ==
    LET two[i \in 0 .. n] == IF i = 0 THEN 1 ELSE 2 * two[i - 1]
    IN  two[n]

ASSUME FieldAssumption ==
    /\ \E n \in 1 .. 15 : OFPVID_PRESENT = TwoTo(n)
    /\ AddressBits \in Nat \ {0}
    /\ IntBits \in Nat \ {0}

-------------------------------------------------------------------------------
NoMask == -1          \* no '/' in the value; no bytes of a mask in the TLV
OFPVID_NONE == 0
AllOnes(bits) == TwoTo(bits) - 1

\* The spelling of from_of_tlv, and that of the setters of Match; the others
\* are any that mean the same.
Usual == "usual"
Spelled(n, m, spelling) == [number |-> n, mask |-> m, spelling |-> spelling]
Value(n, m) == Spelled(n, m, Usual)
Tlv(has, n, m) == [hasmask |-> has, number |-> n, mask |-> m]

\* A mask of 0 is falsy: the flag is set and no bytes are written.
MaskBytes(m) == IF m = 0 THEN NoMask ELSE m

\* The number of the bytes of a mask: int.from_bytes of none is 0.
MaskRead(t) == IF t.mask = NoMask THEN 0 ELSE t.mask

\* MatchDLVLAN: n | OFPVID_PRESENT.
WithPresent(n) == IF (n \div OFPVID_PRESENT) % 2 = 1 THEN n ELSE n + OFPVID_PRESENT

VlanAsTlv(x) ==
    LET id == IF x.number = 0 THEN OFPVID_NONE ELSE WithPresent(x.number)
    IN  Tlv(x.mask # NoMask, id,
            IF x.mask \in {NoMask, 0} THEN NoMask ELSE WithPresent(x.mask))

\* Mutant of VlanRead: OFPVID_PRESENT alone is not kept.
VlanIdOnly(n) == n % OFPVID_PRESENT

\* OFPVID_PRESENT alone is kept: '4096/4096' is any tagged packet.
VlanRead(n) == IF n = OFPVID_PRESENT THEN n ELSE n % OFPVID_PRESENT

\* Mutant of VlanFromTlv: the mask is not read.
VlanIdFromTlv(t) == Value(VlanRead(t.number), NoMask)

VlanFromTlv(t) ==
    Value(VlanRead(t.number), IF t.hasmask THEN VlanRead(MaskRead(t)) ELSE NoMask)

\* The fields with a number and no mask.
PlainAsTlv(x) == Tlv(FALSE, x.number, NoMask)
PlainFromTlv(t) == Value(t.number, NoMask)

\* Mutant of MaskedAsTlv: the mask is not written.
MaskedAsPlain(x) == Tlv(FALSE, x.number, NoMask)

\* The fields with a number and a mask.
MaskedAsTlv(x) == Tlv(x.mask # NoMask, x.number, MaskBytes(x.mask))
MaskedFromTlv(t) == Value(t.number, IF t.hasmask THEN MaskRead(t) ELSE NoMask)

\* The MAC addresses: a mask of ones only is dropped.
MacAsTlv(x) ==
    LET mask == IF x.mask = AllOnes(AddressBits) THEN NoMask ELSE x.mask
    IN  Tlv(mask # NoMask, x.number, mask)
MacFromTlv(t) == Value(t.number, IF t.hasmask THEN t.mask ELSE NoMask)

\* The IP addresses: the mask is the length of a prefix.
mask_to_bytes(mask, size) == TwoTo(size) - TwoTo(size - mask)

\* bytes_to_mask looks for the end of the ones behind the end of a number that
\* is nothing but ones and is shorter than the mask: IndexError.
Countable(number) == \A n \in 1 .. AddressBits - 1 : number # AllOnes(n)

\* The ones that bytes_to_mask counts, from the first bit that is set on.
bytes_to_mask(number) ==
    LET bit(i)  == (number \div TwoTo(i)) % 2 = 1
        length  == CHOOSE n \in 0 .. AddressBits :
                       number < TwoTo(n) /\ \A k \in 0 .. n - 1 : number >= TwoTo(k)
        first0  == {i \in 0 .. length - 1 : ~bit(i)}
        highest == CHOOSE i \in first0 : \A j \in first0 : j <= i
    IN  IF first0 = {} THEN length ELSE length - 1 - highest

IpAsTlv(x) ==
    LET netmask == IF x.mask = NoMask THEN AddressBits ELSE x.mask
    IN  Tlv(netmask < AddressBits, x.number,
            IF netmask < AddressBits THEN mask_to_bytes(netmask, AddressBits) ELSE NoMask)

IpFromTlv(t) == Value(t.number, IF t.hasmask THEN bytes_to_mask(t.mask) ELSE NoMask)

-------------------------------------------------------------------------------
(* The classes, in the order of the source: their name, their oxm_field    *)
(* and how they encode it.                                                 *)

Class(name, oxm, kind) == [name |-> name, oxm |-> oxm, kind |-> kind]

LinkFields ==
    {Class("dl_vlan", "VLAN_VID", "vlan"), Class("dl_vlan_pcp", "VLAN_PCP", "plain"),
     Class("dl_src", "ETH_SRC", "mac"),    Class("dl_dst", "ETH_DST", "mac"),
     Class("dl_type", "ETH_TYPE", "plain")}

PacketFields ==
    {Class("nw_src", "IPV4_SRC", "ip"),     Class("nw_dst", "IPV4_DST", "ip"),
     Class("nw_proto", "IP_PROTO", "plain"), Class("in_port", "IN_PORT", "plain"),
     Class("tp_src", "TCP_SRC", "plain"),   Class("tp_dst", "TCP_DST", "plain"),
     Class("in_phy_port", "IN_PHY_PORT", "plain")}

TransportFields ==
    {Class("ip_dscp", "IP_DSCP", "plain"),   Class("ip_ecn", "IP_ECN", "plain"),
     Class("udp_src", "UDP_SRC", "plain"),   Class("udp_dst", "UDP_DST", "plain"),
     Class("sctp_src", "SCTP_SRC", "plain"), Class("sctp_dst", "SCTP_DST", "plain"),
     Class("icmpv4_type", "ICMPV4_TYPE", "plain"),
     Class("icmpv4_code", "ICMPV4_CODE", "plain")}

\* Mutant of ArpFields: the class of arp_tpa has the oxm_field of arp_spa.
ArpFieldsSlip ==
    {Class("arp_op", "ARP_OP", "plain"), Class("arp_spa", "ARP_SPA", "ip"),
     Class("arp_tpa", "ARP_SPA", "ip"),  Class("arp_sha", "ARP_SHA", "mac"),
     Class("arp_tha", "ARP_THA", "mac")}

ArpFields ==
    {Class("arp_op", "ARP_OP", "plain"), Class("arp_spa", "ARP_SPA", "ip"),
     Class("arp_tpa", "ARP_TPA", "ip"),  Class("arp_sha", "ARP_SHA", "mac"),
     Class("arp_tha", "ARP_THA", "mac")}

TunnelFields ==
    {Class("mpls_lab", "MPLS_LABEL", "plain"), Class("mpls_tc", "MPLS_TC", "plain"),
     Class("mpls_bos", "MPLS_BOS", "plain"),   Class("pbb_isid", "PBB_ISID", "masked"),
     Class("metadata", "METADATA", "masked"),  Class("tun_id", "TUNNEL_ID", "masked")}

IPv6Fields ==
    {Class("ipv6_src", "IPV6_SRC", "ip"),  Class("ipv6_dst", "IPV6_DST", "ip"),
     Class("ipv6_flabel", "IPV6_FLABEL", "masked"),
     Class("icmpv6_type", "ICMPV6_TYPE", "plain"),
     Class("icmpv6_code", "ICMPV6_CODE", "plain"),
     Class("nd_tar", "IPV6_ND_TARGET", "plain"), Class("nd_sll", "IPV6_ND_SLL", "plain"),
     Class("nd_tll", "IPV6_ND_TLL", "plain"),    Class("v6_hdr", "IPV6_EXTHDR", "masked")}

\* MatchFieldFactory: the class of a field by its name or its oxm_field; there
\* is none for fields of other vendors.
Fields == LinkFields \union PacketFields \union TransportFields \union ArpFields
          \union TunnelFields \union IPv6Fields

Names == {f.name : f \in Fields}
NamedField(name) == CHOOSE f \in Fields : f.name = name
OxmField(oxm) == CHOOSE f \in Fields : f.oxm = oxm
HasClass(oxm) == \E f \in Fields : f.oxm = oxm

AsTlv(kind, x) == CASE kind = "plain"  -> PlainAsTlv(x)
                    [] kind = "vlan"   -> VlanAsTlv(x)
                    [] kind = "masked" -> MaskedAsTlv(x)
                    [] kind = "mac"    -> MacAsTlv(x)
                    [] kind = "ip"     -> IpAsTlv(x)

FromTlv(kind, t) == CASE kind = "plain"  -> PlainFromTlv(t)
                      [] kind = "vlan"   -> VlanFromTlv(t)
                      [] kind = "masked" -> MaskedFromTlv(t)
                      [] kind = "mac"    -> MacFromTlv(t)
                      [] kind = "ip"     -> IpFromTlv(t)

\* to_bytes raises OverflowError when the number needs more bytes; the fields
\* without a mask call it on the value as it was given, which has to be a number:
\* a text ('5', '5/7') raises AttributeError.
Encodable(kind, x) ==
    LET limit == CASE kind = "vlan" -> 65536
                   [] kind \in {"mac", "ip"} -> TwoTo(AddressBits)
                   [] OTHER -> TwoTo(IntBits)
    IN  /\ x.number < limit /\ x.mask < limit
        /\ kind = "plain" => x.mask = NoMask /\ x.spelling = Usual

-------------------------------------------------------------------------------
(* Match: a function from the names of the fields that are not None.       *)

\* The setters of nw_src, nw_dst, ipv6_src and ipv6_dst refuse an address with
\* bits outside of its prefix, drop the length of a full prefix and write every
\* address in one way.
Normalised(name) == name \in {"nw_src", "nw_dst", "ipv6_src", "ipv6_dst"}
Settable(name, x) ==
    (Normalised(name) /\ x.mask # NoMask) =>
        x.mask <= AddressBits /\ x.number % TwoTo(AddressBits - x.mask) = 0
SetTo(name, x) ==
    IF Normalised(name)
    THEN Value(x.number, IF x.mask = AddressBits THEN NoMask ELSE x.mask)
    ELSE x

\* Match.from_dict, of the names that Match has.
MatchFromDict(dict) ==
    [name \in DOMAIN dict \intersect Names |-> SetTo(name, dict[name])]
MatchSettable(dict) == \A name \in DOMAIN dict \intersect Names : Settable(name, dict[name])

\* as_of_match and from_of_match: a set of TLVs, each with its oxm_field.
as_of_match(match) ==
    {LET f == NamedField(name) IN [oxm |-> f.oxm, tlv |-> AsTlv(f.kind, match[name])] :
        name \in DOMAIN match}
\* A TLV without a class is left out.
from_of_match(tlvs) ==
    LET known   == {t \in tlvs : HasClass(t.oxm)}
        tlv(f)  == (CHOOSE t \in known : t.oxm = f.oxm).tlv
    IN  [name \in {OxmField(t.oxm).name : t \in known} |->
            LET f == NamedField(name) IN SetTo(name, FromTlv(f.kind, tlv(f)))]

\* Neither bytes_to_mask nor a setter raises.
MatchReadable(tlvs) ==
    \A t \in {u \in tlvs : HasClass(u.oxm)} :
        LET f == OxmField(t.oxm)
        IN  /\ f.kind = "ip" /\ t.tlv.hasmask => Countable(t.tlv.mask)
            /\ Settable(f.name, FromTlv(f.kind, t.tlv))

MatchEncodable(match) ==
    \A name \in DOMAIN match : Encodable(NamedField(name).kind, match[name])
===============================================================================
