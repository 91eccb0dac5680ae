------------------------------- MODULE FlowTable -------------------------------
(***************************************************************************)
(* The flows of one switch on their way through of_core: built from the    *)
(* dictionaries of the users, sent as FlowMods, kept by the switch, read   *)
(* back from its flow stats, written to dictionaries and deleted; beside    *)
(* them, entries that others have put into the same switch.                *)
(*                                                                         *)
(* The switch applies a FlowMod at once; the messages in between, and how  *)
(* the parts of the flow stats are gathered, are in StatsCollector.        *)
(***************************************************************************)
EXTENDS MatchFields, SequenceParts

CONSTANTS
    FlowDicts,   \* the dictionaries that users give
    Foreign,     \* the entries that others may install
    MaxFlows     \* bound on the flows that are built and the entries of others

VARIABLES
    built,     \* the flows that were built and sent with an add FlowMod
    entries,   \* the flow table of the switch
    collected  \* the flows of the last flow stats

vars == <<built, entries, collected>>

-------------------------------------------------------------------------------
(* Actions.                                                                *)

VLAN_QINQ == 34984  \* 0x88a8
VLAN      == 33024  \* 0x8100

\* ActionBase.as_dict is vars(self): an action here is that dictionary.
ActionFromDict(d) ==
    CASE d.action_type = "output"    -> [action_type |-> "output", port |-> d.port]
      [] d.action_type = "set_queue" -> [action_type |-> "set_queue", queue_id |-> d.queue_id]
      [] d.action_type = "pop_vlan"  -> [action_type |-> "pop_vlan"]
      [] d.action_type = "push_vlan" -> [action_type |-> "push_vlan", tag_type |-> d.tag_type]
      [] d.action_type = "set_vlan"  -> [action_type |-> "set_vlan", vlan_id |-> d.vlan_id]

as_of_action(a) ==
    CASE a.action_type = "output"    -> [class |-> "ActionOutput", arg |-> a.port]
      [] a.action_type = "set_queue" -> [class |-> "ActionSetQueue", arg |-> a.queue_id]
      [] a.action_type = "pop_vlan"  -> [class |-> "ActionPopVLAN", arg |-> 0]
      [] a.action_type = "push_vlan" ->
            [class |-> "ActionPush", arg |-> IF a.tag_type = "s" THEN VLAN_QINQ ELSE VLAN]
      [] a.action_type = "set_vlan"  ->
            [class |-> "ActionSetField", field |-> "VLAN_VID", arg |-> WithPresent(a.vlan_id)]

\* None, in the place of an action of a class that is not known.
NoAction == [action_type |-> "None"]

\* The field of a set-field action is not looked at.
from_of_action(o) ==
    CASE o.class = "ActionOutput"   -> [action_type |-> "output", port |-> o.arg]
      [] o.class = "ActionSetQueue" -> [action_type |-> "set_queue", queue_id |-> o.arg]
      [] o.class = "ActionPopVLAN"  -> [action_type |-> "pop_vlan"]
      [] o.class = "ActionPush"     ->
            [action_type |-> "push_vlan", tag_type |-> IF o.arg = VLAN_QINQ THEN "s" ELSE "c"]
      [] o.class = "ActionSetField" ->
            [action_type |-> "set_vlan", vlan_id |-> o.arg % OFPVID_PRESENT]
      [] OTHER -> NoAction

-------------------------------------------------------------------------------
(* Instructions.                                                           *)

WithActions == {"apply_actions", "clear_actions", "write_actions"}
Each(F(_), s) == [i \in DOMAIN s |-> F(s[i])]

InstructionFromDict(d) ==
    IF d.instruction_type \in WithActions
    THEN [instruction_type |-> d.instruction_type, actions |-> Each(ActionFromDict, d.actions)]
    ELSE d

as_of_instruction(n) ==
    IF n.instruction_type \in WithActions
    THEN [instruction_type |-> n.instruction_type, actions |-> Each(as_of_action, n.actions)]
    ELSE n

\* KeyError for an instruction of a class that is not known.
InstructionReadable(n) == n.instruction_type # "experimenter"

from_of_instruction(n) ==
    IF n.instruction_type \in WithActions
    THEN [instruction_type |-> n.instruction_type, actions |-> Each(from_of_action, n.actions)]
    ELSE n

Elements(s) == {s[i] : i \in DOMAIN s}

\* InstructionAction.as_dict leaves out what is None, as_of_instruction raises
\* AttributeError for it.
WithKnownActions(n) ==
    IF n.instruction_type \in WithActions
    THEN [instruction_type |-> n.instruction_type,
          actions |-> Only(n.actions, {a \in Elements(n.actions) : a # NoAction})]
    ELSE n

-------------------------------------------------------------------------------
(* Statistics: a function from the names of the attributes that are not None. *)

FlowStatsNames == {"byte_count", "duration_sec", "duration_nsec", "packet_count"}
NoStats == <<>>

StatsFromDict(d) == [name \in FlowStatsNames \intersect DOMAIN d |-> d[name]]

\* Stats.update: of all that the switch reports, what has the name of an attribute.
StatsFromOf(reported) == [name \in FlowStatsNames |-> reported[name]]

-------------------------------------------------------------------------------
(* Flows.                                                                  *)

Defaults == [table_id |-> 0, priority |-> 32768, idle_timeout |-> 0, hard_timeout |-> 0,
             cookie |-> 0, cookie_mask |-> 0]

Given(d, key, default) == IF key \in DOMAIN d THEN d[key] ELSE default

\* Flow.from_dict: 'actions' become an instruction to apply them, before the
\* instructions; an id is not an attribute and is dropped.
FlowFromDict(d) ==
    LET actions   == Given(d, "actions", <<>>)
        apply     == [instruction_type |-> "apply_actions",
                      actions |-> Each(ActionFromDict, actions)]
        value(key) == Given(d, key, Defaults[key])
    IN  [table_id     |-> value("table_id"),
         match        |-> MatchFromDict(Given(d, "match", <<>>)),
         priority     |-> value("priority"),
         idle_timeout |-> value("idle_timeout"),
         hard_timeout |-> value("hard_timeout"),
         cookie       |-> value("cookie"),
         cookie_mask  |-> value("cookie_mask"),
         instructions |-> (IF actions = <<>> THEN <<>> ELSE <<apply>>)
                          \o Each(InstructionFromDict, Given(d, "instructions", <<>>)),
         stats        |-> StatsFromDict(Given(d, "stats", NoStats))]

\* Mutant of WithoutId: the cookie mask is left out.
WithoutIdNorMask(flow) ==
    [table_id |-> flow.table_id, match |-> flow.match, priority |-> flow.priority,
     idle_timeout |-> flow.idle_timeout, hard_timeout |-> flow.hard_timeout,
     cookie |-> flow.cookie,
     instructions |-> Each(WithKnownActions, flow.instructions)]

\* Flow.as_dict; the id and the stats are left out when the id is computed.
WithoutId(flow) ==
    [table_id |-> flow.table_id, match |-> flow.match, priority |-> flow.priority,
     idle_timeout |-> flow.idle_timeout, hard_timeout |-> flow.hard_timeout,
     cookie |-> flow.cookie, cookie_mask |-> flow.cookie_mask,
     instructions |-> Each(WithKnownActions, flow.instructions)]

\* The md5 sums are what they are the sums of: the JSON text of the attributes,
\* with the values of the match as they are spelled.
Id(flow) == WithoutId(flow)
MatchId(flow) == [table_id |-> flow.table_id, match |-> flow.match,
                  priority |-> flow.priority]

AsDict(flow) ==
    LET dict == WithoutId(flow)
    IN  [key \in DOMAIN dict \union {"id", "stats"} |->
            CASE key = "id"    -> Id(flow)
              [] key = "stats" -> flow.stats
              [] OTHER         -> dict[key]]

\* as_of_action is called on every action.
Sendable(flow) == Each(WithKnownActions, flow.instructions) = flow.instructions

\* _as_of_flow_mod, with the command left to the action that sends it.
as_of_flow_mod(flow) ==
    [table_id     |-> flow.table_id,
     match        |-> as_of_match(flow.match),
     priority     |-> flow.priority,
     idle_timeout |-> flow.idle_timeout,
     hard_timeout |-> flow.hard_timeout,
     cookie       |-> flow.cookie,
     cookie_mask  |-> flow.cookie_mask,
     instructions |-> Each(as_of_instruction, flow.instructions)]

\* Mutant of ReportedMask: it is None.
ReportedNone(stats) == NoMask

\* The stats have no cookie mask: it becomes the default.
ReportedMask(stats) == Defaults.cookie_mask

\* Flow.from_of_flow_stats.
from_of_flow_stats(stats) ==
    [table_id     |-> stats.table_id,
     match        |-> from_of_match(stats.match),
     priority     |-> stats.priority,
     idle_timeout |-> stats.idle_timeout,
     hard_timeout |-> stats.hard_timeout,
     cookie       |-> stats.cookie,
     cookie_mask  |-> ReportedMask(stats),
     instructions |-> Each(from_of_instruction, stats.instructions),
     stats        |-> StatsFromOf(stats)]

-------------------------------------------------------------------------------
\* One entry that raises loses the reply with all its entries.
Readable(entry) == /\ MatchReadable(entry.match)
                   /\ \A i \in DOMAIN entry.instructions :
                          InstructionReadable(entry.instructions[i])

-------------------------------------------------------------------------------
(* The switch (external): it refuses a TLV whose bytes do not fit its flag, *)
(* and has one entry for a table, a priority and a match.                   *)

Acceptable(mod) == \A t \in mod.match : t.tlv.hasmask = (t.tlv.mask # NoMask)

SameEntry(mod, entry) == /\ mod.table_id = entry.table_id
                         /\ mod.priority = entry.priority
                         /\ mod.match = entry.match

\* What a FlowMod without a priority of its own means by its match (bound: no
\* match has a mask that covers the one of another).
Covers(mod, entry) == mod.table_id = entry.table_id /\ mod.match \subseteq entry.match

\* A delete FlowMod leaves entries with another cookie alone, if it has a mask
\* (bound: the cookies differ in a bit of every mask but 0).
CookieSelects(mod, entry) == mod.cookie_mask = 0 \/ mod.cookie = entry.cookie

EntryOf(mod) ==
    [table_id |-> mod.table_id, match |-> mod.match, priority |-> mod.priority,
     idle_timeout |-> mod.idle_timeout, hard_timeout |-> mod.hard_timeout,
     cookie |-> mod.cookie, instructions |-> mod.instructions]

\* Bound: every entry has counted one packet.
FlowStatsOf(entry) ==
    [table_id |-> entry.table_id, match |-> entry.match, priority |-> entry.priority,
     idle_timeout |-> entry.idle_timeout, hard_timeout |-> entry.hard_timeout,
     cookie |-> entry.cookie, instructions |-> entry.instructions,
     packet_count |-> 1, byte_count |-> 64, duration_sec |-> 1, duration_nsec |-> 0,
     length |-> 56]

-------------------------------------------------------------------------------
(* What is given.                                                          *)

IsList(s) == s \in Seq(Elements(s))

\* Dictionaries that the classes take.
ActionTypes == {"output", "set_queue", "pop_vlan", "push_vlan", "set_vlan"}

ActionsTaken(s) == IsList(s) /\ \A a \in Elements(s) : a.action_type \in ActionTypes

InstructionsTaken(s) ==
    IsList(s) /\ \A n \in Elements(s) :
        /\ InstructionReadable(n)
        /\ n.instruction_type \in WithActions => ActionsTaken(n.actions)

Taken(d) ==
    /\ \A key \in DOMAIN Defaults \intersect DOMAIN d : d[key] \in Nat
    /\ ActionsTaken(Given(d, "actions", <<>>))
    /\ InstructionsTaken(Given(d, "instructions", <<>>))

\* Entries that a switch has.
Kept(e) ==
    /\ Acceptable(e)
    /\ \A key \in DOMAIN Defaults \ {"cookie_mask"} : e[key] \in Nat
    /\ IsList(e.instructions)
    /\ \A n \in Elements(e.instructions) :
            n.instruction_type \in WithActions => IsList(n.actions)

ASSUME FlowAssumption ==
    /\ MaxFlows \in Nat
    /\ \A d \in FlowDicts : Taken(d)
    /\ \A e \in Foreign : Kept(e)

-------------------------------------------------------------------------------
Init == built = {} /\ entries = {} /\ collected = {}

\* Bound: there is room for one more flow or entry of others.
MayInstall ==
    Cardinality(built) + Cardinality({e \in entries : e \in Foreign}) < MaxFlows

\* from_dict and as_of_add_flow_mod, for a dictionary that neither refuses.
Install(d) ==
    LET flow == FlowFromDict(d)
        mod  == as_of_flow_mod(flow)
    IN  /\ MayInstall
        /\ MatchSettable(Given(d, "match", <<>>))
        /\ MatchEncodable(flow.match)
        /\ built' = built \union {flow}
        /\ entries' = IF Acceptable(mod)
                      THEN {e \in entries : ~SameEntry(mod, e)} \union {EntryOf(mod)}
                      ELSE entries
        /\ UNCHANGED collected

\* Another controller, or the switch itself, installs an entry (external).
OthersInstall(entry) ==
    /\ MayInstall
    /\ entries' = {e \in entries : ~SameEntry(entry, e)} \union {entry}
    /\ UNCHANGED <<built, collected>>

\* The flow stats of the switch become flows, if none of the entries raises.
Collect ==
    /\ \A e \in entries : Readable(e)
    /\ collected' = {from_of_flow_stats(FlowStatsOf(e)) : e \in entries}
    /\ UNCHANGED <<built, entries>>

\* as_of_strict_delete_flow_mod, for a flow that was built or read back.
DeleteStrict(flow) ==
    LET mod == as_of_flow_mod(flow)
    IN  /\ UNCHANGED <<built, collected>>
        /\ Sendable(flow)
        /\ entries' = {e \in entries : ~(SameEntry(mod, e) /\ CookieSelects(mod, e))}

\* as_of_delete_flow_mod.
Delete(flow) ==
    LET mod == as_of_flow_mod(flow)
    IN  /\ UNCHANGED <<built, collected>>
        /\ Sendable(flow)
        /\ entries' = {e \in entries : ~(Covers(mod, e) /\ CookieSelects(mod, e))}

Next == \/ \E d \in FlowDicts : Install(d)
        \/ \E e \in Foreign : OthersInstall(e)
        \/ Collect
        \/ \E f \in built \union collected : DeleteStrict(f) \/ Delete(f)

Spec == Init /\ [][Next]_vars

-------------------------------------------------------------------------------
(* Properties.                                                             *)

\* Every variable has its type.
TypeOK ==
    /\ \A f \in built \union collected :
            /\ DOMAIN f = DOMAIN Defaults \union {"match", "instructions", "stats"}
            /\ \A key \in DOMAIN Defaults : f[key] \in Nat
            /\ DOMAIN f.match \subseteq Names
            /\ DOMAIN f.stats \subseteq FlowStatsNames
    /\ \A e \in entries : Acceptable(e)

\* An entry as it is read back, and the entries of of_core's own flows.
FlowOf(entry) == from_of_flow_stats(FlowStatsOf(entry))
Own(entry) == \E g \in built : entry = EntryOf(as_of_flow_mod(g))

UsuallySpelled(match) ==
    [name \in DOMAIN match |-> Value(match[name].number, match[name].mask)]

\* A flow but for what a switch cannot report of it: its cookie mask, and how the
\* user has spelled the values of its match.
AsReported(flow) ==
    [flow EXCEPT !.cookie_mask = 0, !.match = UsuallySpelled(flow.match)]

\* A flow that is read back from the switch has the id of the one that was built
\* from the user's dictionary: no field of the match, no action and no
\* instruction changes on the way to the switch and back, packets that were
\* counted do not matter, and only the cookie mask and an unusual spelling of a
\* value, which switches do not report, are lost.  Only the entries of others are
\* read as flows that nobody has built.
CollectedKeepsId ==
    \A f \in collected :
        \/ \E g \in built : Id(f) = Id(AsReported(g))
        \/ \E e \in Foreign : Readable(e) /\ Id(f) = Id(FlowOf(e))

\* A flow that is read back and added again (what NApps do that keep the flows
\* of a switch consistent) leaves its entry as it is, byte for byte: what is
\* read is not only the same for users, but for the switch.
AddedAgainIsTheSame ==
    \A e \in entries : Own(e) =>
        /\ Readable(e)
        /\ EntryOf(as_of_flow_mod(FlowOf(e))) = e

\* Two flows have the same match_id, when their values are spelled in one way,
\* exactly when the switch has one entry for both: adding the second overwrites
\* the first.  (In other spellings, one entry has several match_ids.)
MatchIdIsTheEntry ==
    \A f, g \in built :
        (MatchId(AsReported(f)) = MatchId(AsReported(g)))
            <=> SameEntry(as_of_flow_mod(f), as_of_flow_mod(g))

\* A strict delete of a flow, as it was built or read back, removes the entry of
\* that flow, also if others have entries in the switch; only a cookie mask keeps
\* entries with another cookie.
StrictDeleteRemoves ==
    [][\A f \in built \union collected :
        DeleteStrict(f) =>
            \A e \in entries' :
                Own(e) /\ CookieSelects(as_of_flow_mod(f), e)
                    => MatchId(FlowOf(e)) # MatchId(AsReported(f))]_vars

\* A flow that is written to a dictionary and built from it again is the same
\* flow, its stats included, however it was made, but for the actions that have
\* no class and were None before.
DictKeepsFlow ==
    \A f \in built \union collected :
        FlowFromDict(AsDict(f)) =
            [f EXCEPT !.instructions = Each(WithKnownActions, f.instructions)]
===============================================================================
