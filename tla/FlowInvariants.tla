----------------------------- MODULE FlowInvariants -----------------------------
(***************************************************************************)
(* The inductive invariant of FlowTable, and what its proofs need to know  *)
(* of the dictionaries: that what is given in them has one form only,      *)
(* however it is spelled.                                                  *)
(***************************************************************************)
EXTENDS FlowTable

-------------------------------------------------------------------------------
(* One form.  A value that a class would write as another one is not read  *)
(* back as it was given: a VLAN id with other bits above the 12th, a MAC   *)
(* address with a mask of ones, an ARP address with its full prefix.       *)

OneForm(field, x) ==
    /\ x = Spelled(x.number, x.mask, x.spelling)
    /\ field.kind = "vlan"  => /\ x.number \in 0 .. OFPVID_PRESENT
                               /\ x.mask \in {NoMask} \union 0 .. OFPVID_PRESENT
    /\ field.kind = "mac"   => x.mask # AllOnes(AddressBits)
    /\ field.kind = "ip"    => /\ x.mask \in {NoMask} \union 0 .. AddressBits
                               /\ ~Normalised(field.name) => x.mask # AddressBits

OneFormAction(a) ==
    /\ a.action_type = "push_vlan" => a.tag_type \in {"s", "c"}
    /\ a.action_type = "set_vlan"  => a.vlan_id \in 0 .. OFPVID_PRESENT - 1

OneFormInstruction(n) ==
    n.instruction_type \in WithActions => \A a \in Elements(n.actions) : OneFormAction(a)

OneFormDict(d) ==
    /\ LET match == Given(d, "match", <<>>)
       IN  \A name \in DOMAIN match \intersect Names : OneForm(NamedField(name), match[name])
    /\ \A a \in Elements(Given(d, "actions", <<>>)) : OneFormAction(a)
    /\ \A n \in Elements(Given(d, "instructions", <<>>)) : OneFormInstruction(n)

DictsHaveOneForm == \A d \in FlowDicts : OneFormDict(d)

-------------------------------------------------------------------------------
(* Flows, however they were made.                                          *)

IsMap(m, S) == DOMAIN m \subseteq S /\ m = [key \in DOMAIN m |-> m[key]]

\* What the setters leave as it is.
MatchIsSet(match) ==
    IsMap(match, Names) /\ \A name \in DOMAIN match : SetTo(name, match[name]) = match[name]

\* An action of a class, which is its own dictionary.
ActionIsKnown(a) == a.action_type \in ActionTypes /\ ActionFromDict(a) = a

InstructionIsRead(n) ==
    n.instruction_type \in WithActions =>
        /\ n = [instruction_type |-> n.instruction_type, actions |-> n.actions]
        /\ IsList(n.actions)
        /\ \A a \in Elements(n.actions) : a = NoAction \/ ActionIsKnown(a)

InstructionsAreRead(s) == IsList(s) /\ \A n \in Elements(s) : InstructionIsRead(n)

IsFlow(f) ==
    /\ f = [table_id |-> f.table_id, match |-> f.match, priority |-> f.priority,
            idle_timeout |-> f.idle_timeout, hard_timeout |-> f.hard_timeout,
            cookie |-> f.cookie, cookie_mask |-> f.cookie_mask,
            instructions |-> f.instructions, stats |-> f.stats]
    /\ \A key \in DOMAIN Defaults : f[key] \in Nat
    /\ MatchIsSet(f.match)
    /\ InstructionsAreRead(f.instructions)
    /\ IsMap(f.stats, FlowStatsNames)

FlowsAreFlows == \A f \in built \union collected : IsFlow(f)

-------------------------------------------------------------------------------
(* The entries, and the flows that were read from them.                   *)

OwnEntries == {EntryOf(as_of_flow_mod(g)) : g \in built}

EntriesAreKept == \A e \in entries : Kept(e) /\ e \in Foreign \union OwnEntries

CollectedAreEntries ==
    \A f \in collected : \E e \in Foreign \union OwnEntries : Readable(e) /\ f = FlowOf(e)

FlowInv == FlowsAreFlows /\ EntriesAreKept /\ CollectedAreEntries

-------------------------------------------------------------------------------
(* The flows that were built, if their dictionaries have one form.         *)

MatchHasOneForm(match) ==
    \A name \in DOMAIN match :
        LET f == NamedField(name)
        IN  /\ OneForm(f, match[name])
            /\ Settable(name, match[name])
            /\ f.kind = "ip" => match[name].mask # AddressBits
            /\ f.kind = "plain" => match[name].mask = NoMask

InstructionsHaveOneForm(s) ==
    \A n \in Elements(s) :
        /\ InstructionReadable(n)
        /\ OneFormInstruction(n)
        /\ n.instruction_type \in WithActions => NoAction \notin Elements(n.actions)

BuiltInv ==
    \A f \in built : MatchHasOneForm(f.match) /\ InstructionsHaveOneForm(f.instructions)
===============================================================================
