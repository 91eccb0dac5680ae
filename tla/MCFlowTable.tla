------------------------------ MODULE MCFlowTable ------------------------------
(* Matches on one field with every kind of value, on two, and on all fields of *)
(* a group; one flow of each kind of instruction and action; flows that differ *)
(* in the rest; and entries of others that of_core reads wrongly, in part, or  *)
(* not at all.                                                                 *)
EXTENDS FlowInvariants

Vlans == {Value(n, m) : n \in {0, 1, OFPVID_PRESENT}, m \in {NoMask, 0, 1, OFPVID_PRESENT}}
Macs  == {Value(1, m) : m \in {NoMask, 1, 2}} \union {Value(2, NoMask)}
Ips   == {Value(0, NoMask), Value(7, NoMask), Value(4, 1), Value(5, 1), Value(6, 2),
          Value(0, 0), Value(0, 1)}
ArpIps == {Value(7, NoMask), Value(5, 1), Value(0, 0), Value(6, 2)}
NwIps == Ips \union {Value(7, 3)}
Ints  == {Value(n, NoMask) : n \in {3, 8}}
Metas == {Value(3, m) : m \in {NoMask, 0, 3}} \union {Value(0, NoMask)}

SomeValue(kind) == CASE kind = "plain"  -> Value(2, NoMask)
                     [] kind = "vlan"   -> Value(2, 1)
                     [] kind = "mac"    -> Value(2, 1)
                     [] kind = "ip"     -> Value(4, 1)
                     [] kind = "masked" -> Value(2, 1)

OneField == {[dl_vlan |-> v] : v \in Vlans} \union {[dl_src |-> v] : v \in Macs}
            \union {[nw_src |-> v] : v \in NwIps} \union {[arp_spa |-> v] : v \in ArpIps}
            \union {[in_port |-> v] : v \in Ints} \union {[metadata |-> v] : v \in Metas}
\* Values in another spelling, some of them beside the usual one; and values
\* that a field without a mask does not take.
OtherSpelling == {[dl_vlan |-> Spelled(1, NoMask, "text")],
                  [dl_src |-> Spelled(1, 1, "upper case")],
                  [nw_src |-> Spelled(4, 1, "netmask")],
                  [arp_spa |-> Spelled(7, NoMask, "leading zeros")],
                  [metadata |-> Spelled(3, NoMask, "text")],
                  [in_port |-> Spelled(3, NoMask, "text")], [in_port |-> Value(3, 1)]}
ManyFields == {[name \in {f.name : f \in group} |-> SomeValue(NamedField(name).kind)] :
                   group \in {LinkFields, PacketFields, TransportFields, ArpFields,
                              TunnelFields, IPv6Fields}}
TwoFields == {[dl_vlan |-> Value(2, NoMask), unknown |-> Value(1, NoMask)],
              [dl_vlan |-> Value(2, NoMask), nw_src |-> Value(4, 1)]}

Output == [action_type |-> "output", port |-> 1]
Actions == {<<Output>>,
            <<[action_type |-> "push_vlan", tag_type |-> "s"],
              [action_type |-> "set_vlan", vlan_id |-> 0], Output>>,
            <<[action_type |-> "push_vlan", tag_type |-> "c"],
              [action_type |-> "set_vlan", vlan_id |-> 3]>>,
            <<[action_type |-> "set_queue", queue_id |-> 1],
              [action_type |-> "pop_vlan"]>>}
GotoTable == [instruction_type |-> "goto_table", table_id |-> 1]
Instructions == {<<GotoTable>>,
                 <<[instruction_type |-> "meter", meter_id |-> 1],
                   [instruction_type |-> "write_actions", actions |-> <<Output>>]>>,
                 <<[instruction_type |-> "write_metadata", metadata |-> 1, metadata_mask |-> 1],
                   [instruction_type |-> "clear_actions", actions |-> <<>>]>>}

SomeMatch == [dl_vlan |-> Value(2, NoMask)]
CanonicalDicts ==
    {[match |-> m] : m \in OneField \union OtherSpelling \union TwoFields \union ManyFields}
    \union {[match |-> SomeMatch, actions |-> a] : a \in Actions}
    \union {[match |-> SomeMatch, instructions |-> n] : n \in Instructions}
    \union {[match |-> SomeMatch, actions |-> <<Output>>, instructions |-> <<GotoTable>>],
            [match |-> SomeMatch, table_id |-> 1, cookie |-> 3, cookie_mask |-> 1],
            [match |-> SomeMatch, priority |-> 1, idle_timeout |-> 5, hard_timeout |-> 6],
            [priority |-> 1]}

\* The entries of others.
Others(match, instructions) ==
    [table_id |-> 0, priority |-> 32768, idle_timeout |-> 0, hard_timeout |-> 0, cookie |-> 0,
     match |-> match, instructions |-> instructions]
Apply(action) == <<[instruction_type |-> "apply_actions", actions |-> <<action>>]>>
Oxm(field, tlv) == [oxm |-> field, tlv |-> tlv]

VlanTlv == Oxm("VLAN_VID", VlanAsTlv(Value(2, NoMask)))
OtherEntries ==
    {\* the match of a flow of of_core and a field that has no class
     Others({VlanTlv, Oxm("TCP_FLAGS", Tlv(FALSE, 1, NoMask))}, Apply(as_of_action(Output))),
     \* masks that are not prefixes: read as one, IndexError, TypeError
     Others({Oxm("ARP_SPA", Tlv(TRUE, 2, 2))}, <<>>),
     Others({Oxm("IPV4_SRC", Tlv(TRUE, 1, 3))}, <<>>),
     Others({Oxm("IPV6_DST", Tlv(TRUE, 1, 5))}, <<>>),
     \* actions read as another one and as None, an instruction that is a KeyError
     Others({VlanTlv}, Apply([class |-> "ActionSetField", field |-> "ETH_DST", arg |-> 7])),
     Others({VlanTlv}, Apply([class |-> "ActionPush", arg |-> 34887])),
     Others({VlanTlv}, Apply([class |-> "ActionGroup", arg |-> 1])),
     Others({}, <<[instruction_type |-> "experimenter"]>>)}

NoEntries == {}

\* The dictionaries are among those that the theorems are about.
ASSUME DictsHaveOneForm
===============================================================================
