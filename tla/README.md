# A verification project for kytos/of_core

of_core is the NApp of the Kytos SDN controller that speaks OpenFlow 1.3 with
the switches: it does the handshake of a connection, cuts its byte stream into
messages, hands the messages to the other NApps, keeps the interfaces of a
switch as its ports are, collects its statistics, and translates flows between
Kytos dictionaries and OpenFlow messages. This directory holds TLA+ modules of
these parts, TLC configurations that model-check them, and TLAPS proofs.

Line numbers are those of the repository's root (`main.py`, `flow.py`, ...).
`PROJECT.json` maps every definition to the lines it stands for.

## 1. The system

### Components

| Component | State it keeps | Operations | Module |
|---|---|---|---|
| Raw-in loop and handshake (`main.py`) | `connection.state`, `protocol.state`, `remaining_data`, the batch of the running task, a lock for each connection | `on_raw_in`, `process_new_connection`, `_negotiate`, `fail_negotiation`, `handle_features_reply`, `handle_features_request_sent` | `Handshake` |
| Echoes (`main.py`) | none | `execute`, `on_echo_request`, `on_queued_openflow_echo_reply` | `Handshake` |
| Priorities (`msg_prios.py`) | none | `of_msg_prio` orders the output buffer | `Handshake` |
| Stream slicing (`utils.py`) | the undecoded bytes | `of_slicer` | `OfSlicer` |
| Hello (`utils.py`, `main.py`) | the elements of a hello | `GenericHello.pack`, `unpack`, the choice of the version | `Hello` |
| Interface updates (`main.py`) | the interfaces, `_msg_seq_cnt`, `_xid_seq_num`, `_intf_state_seen_num` | `update_port_status`, `_handle_port_desc`, `pop_seq_msg_counters` | `PortUpdates` |
| Statistics (`main.py`) | `_multipart_replies_xids`, `_flows`, `_ports`, `_tables`, `switch.flows` | `_request_stats`, `_handle_multipart_*`, `pop_multipart_replies`, `on_openflow_connection_error` | `StatsCollector`, which implements `StatsRounds` |
| Match fields (`v0x04/match_fields*.py`) | none | `as_of_tlv`, `from_of_tlv` of 40 classes | `MatchFields` |
| Flows and their stats (`flow.py`, `v0x04/flow.py`) | a flow | `from_dict`, `as_dict`, `id`, `match_id`, `as_of_*_flow_mod`, `from_of_flow_stats` | `FlowTable` |

Not modelled: `FlowFactory` (one version), `PortStats` and `TableStats` (they copy
attributes, as `FlowStats` does, which is in `FlowTable`), `update_links`
(stateless), the delays of `_get_switch_req_stats_delay` (in the models requests
come at any time), `on_openflow_in_hello_failed` (it listens to an event name that
nothing publishes), packaging.

### How they interact

kytos core reads a socket and puts a raw event for every read. `on_raw_in` runs
as an asyncio task for each of them; the tasks of one connection are serialised
by a lock, up to the end of the batch. Within it, packets of a connection during
its setup are deferred: they go back in front of `remaining_data`. Everything
else is put in the `msg_in` buffer at once, except multipart replies, which are
handled after the lock is released. `PORT_STATUS` messages then update the
interfaces, within the loop.

Handlers marked `@listen_to` run in threads: the one of the features reply
(which binds the switch, resets the counters and ends the handshake), the one
that records the features request as sent, those that answer echoes, and those
that request statistics. They share the state of the loop without a lock.

### What is hard

* threads and loop interleave at any point: the state of the handshake, the
  sequence counters and the dictionaries of the statistics have several writers;
* what is read before an `await` may be stale after it (multipart replies after
  the lock, `update_port_status` after `aput`);
* deferral reorders, and re-examines, messages;
* a connection closes, or a new handshake resets the state, between two steps;
* a switch connects again while what its last connection left is still pending,
  gathered or being handled;
* a switch answers late, in parts, or not at all;
* encodings that must come back as they were sent, over 40 classes of fields;
* entries of other controllers, with what of_core does not know.

`PROJECT.json` lists these hazards at their lines, with the properties.

## 2. The modules

Every module declares its bounds as constants and names them in comments.
`HandshakeInvariants`, `PortInvariants`, `StatsInvariants`, `StatsAssembly` and
`FlowInvariants` state the inductive invariants of four of them, in modules without
proofs, so that TLC can check each (section 3). `SequenceParts` has the two operators
on sequences of bytes and packets that `OfSlicer` and `FlowTable` share, and
`InductionFacts` the lemmas on induction that three of the proof modules share.
A definition that begins with "Mutant of" is a variant of the one behind it with
a plausible bug; the specification does not use it.

### Handshake, and ConnectionPhases which it implements

One connection, from its first packet to its end. A packet is an identity and a
kind; the packets of a batch are looked at in two steps (`check`, `route`), since
a thread may run between any two reads. The negotiation has a step up to each
`await`. Counters (`replies`, `sentNotices`, ...) stand for sets of threads at
the same point: threads of one kind do not differ in anything else. A handler
that the loop calls may raise: `update_links` and `update_port_status` out of the
batch (`RouteRaises`), `_handle_multipart_reply` out of
`process_multipart_messages` (`ProcessRaises`), each of which ends the task with
what it holds. `tasks` tells which gathered replies belong to which task, and
`lost` what went with one, and by which packet. The
asynchronous writer, the closing peer and the switch are external; the switch
answers a features request once per request, and may send any other message at
any time, also before the handshake and in the batch of the hello.

`ConnectionPhases` is what the rest of Kytos may rely on: phases in order,
"handshake complete" before "established", nothing but features replies handed
over before that, no packet twice, announcement after the end.

The correspondence: `StartRawIn` .. `EndBatch` is `on_raw_in`;
`ProcessMultipart` is `process_multipart_messages`; `SayHello` ..
`CloseFailed` is `process_new_connection`; `ReplyDuplicated` ..
`ReplyAnnounces` is `handle_features_reply`, with a step at each write to shared
state; `ReadSentState` and `WriteSentState` are `handle_features_request_sent`.

| Run | Shows |
|---|---|
| `Handshake_safety` | nothing early, nothing repeated, nothing lost while the connection lives but to the exception of a handler (`LostBehind`), hello first, order kept but for what was deferred; refinement of `ConnectionPhases`; and the inductive invariant of the proofs, `ConnectionInv` of `HandshakeInvariants` (`HandshakeInv`, `PlacesInv` and `SessionInv`) |
| `Handshake_live` | deferred packets are handed over in the end, unless a handler raised in their task; a first packet is answered |
| `Handshake_reply` (violation) | a reply that overtakes the record of its request does not end the handshake |

Bounds: four packets of the switch (three for liveness). The longest scenario that
matters is hello, an early message, the features reply, a message behind it; four
packets hold it, and echo replies come on top of them. One handler may raise
(`MaxRaises`); the proofs have any number. With `SendFeaturesRequestOnEcho` a second
features reply is possible within the bound. The safety run has 1.33 million states.
Deadlock is not checked: a closed connection has nothing to do.

Fairness (`Handshake_live`): weak fairness of the event loop and of every kind
of thread, since both run what is ready. The read that brings complete packets
is strongly fair: a read may end inside of a packet, but a packet has finitely
many bytes. The timer goes on, and a live switch answers the echo requests of
`execute` (a switch that does not is disconnected in practice); it owes nothing
else. `DeferredDispatched` rests on this: deferred bytes are looked at again
only when new bytes come.

### PortUpdates

The ports of a switch change, and each change is a version. The raw-in loop
counts messages when it unpacks them (also those it defers), handles
`PORT_STATUS` after an `await`, and gathers `PORT_DESC` replies; their
descriptions are handled port by port in any interleaving with later batches
(`HandlePortDesc`), which is what a task suspended at `aput` can do. A raw event
reads `connection.switch` before it waits for the lock, and so may count nothing
although the switch is known by then (`counted`). Every features reply asks for
the ports and pops the three counters, one after the other; the first one
establishes the connection, further ones come with
`SEND_FEATURES_REQUEST_ON_ECHO`.

The connection may be lost at any point (`ConnectionLost`): the running task
returns at its next look at the connection (`ReturnIfDead`), an update that was
awaited and descriptions that were gathered are still handled, and ports change
without a message until the switch is back (`Reconnect`). Interfaces and counters
belong to the switch and stay. `ConnectionError` is `on_openflow_connection_error`,
which pops the counters when the error of the old connection is handled: before
the new one, in its handshake, or long after it.

| Run | Shows |
|---|---|
| `PortUpdates_safety` | two ports, up to two features replies, on one connection or on two: interfaces never go back, end as their ports are, no announced change is taken for late, and the last event of an interface tells its state |
| `PortUpdates_midbatch` (violation) | a handshake that ends inside of a batch lets an interface go back |

The passing run assumes `MultiPart = FALSE` (a description of the ports comes in one
message, as it does for less than a thousand ports) and `ThreadsInterleave = FALSE`
(threads, the handler of the error and the loop do not run inside of each other's
handlers, and what comes while a batch runs comes behind it, as no batch depends on it):
both are needed, section 4. It also shows that the check for late messages in
`update_port_status` never fires then; the one in `_handle_port_desc` does. Bounds: two
changes, of either port or one of each (`MaxChanges`), so that a port can have a message
before and one behind its description; two features replies (`MaxReplies`); one task
that waits while another runs (`MaxTasks`), enough for one that read the switch before
it was bound; one connection is lost (`MaxLosses`). Ports go down (1) and come back live
(4); interfaces that an earlier connection left (`KnownPorts`) begin with a state of 0.
One of the two ports is the local port (`OFPP_LOCAL`), whose interface is active
whatever its state (`Activated`); it has an interface from before, and the other is new.
The run has 2.8 million states.

The inductive invariant of the proofs, `PortInv` of `PortInvariants`, is not in the run:
TLC takes three times as long with it. It was checked before its proof, on this
instance and on one with one port and two raw events that wait (`Ports <- OnePort`,
`MaxTasks = 2`), where a raw event that read the switch may stand behind one that did
not; `INVARIANT PortInv` in the configuration does it again.

### StatsCollector

The rounds of requests in two threads, the replies in parts, and what the loop does with
a list step by step: it is extended (`Extend`), read (`Collect`), for flows taken for
`switch.flows` after the copy to be published was made (`TakeFlows`), deleted (`Delete`)
and published (`Publish`, or `FinishRaises`), so that threads can come between them.
What is deleted for several kinds in a row (`main.py:99-104`, `:569-572`) is one step,
since no property relates lists of different kinds. That two threads both find a key and
the second cannot delete it (`KeyError`) is not modelled. An item of a list is the
request and the part it came from; that makes a mixed, incomplete or doubled list
visible. The connection may be lost (`ConnectionLost`), with the requests and the
answers in it, but for those that were read; the next one is bound to the switch
(`Reconnect`) before its features reply pops what is pending (`HandshakeResets`), and
requests may come in between. With `Unreadable` the switch has entries that raise
(`ExtendRaises`).

`StatsRounds` is what the rest of Kytos may rely on, without lists and parts: for
every kind one request at most is pending, it is answered once or given up for
ever, and answers come in the order of the requests. The refinement maps `xids` to
the pending requests and every published list to the request it is the whole answer
to (0, which no request has, if it is not).

| Run | Shows |
|---|---|
| `StatsCollector_safety` | handlers that do not interleave: published lists are whole answers, through skips, fresh starts, resets and a lost connection; refinement of `StatsRounds`; an unanswered request does not stop the collection; and the inductive invariant `AssemblyInv` of `StatsAssembly` |
| `StatsCollector_races` | threads and loop interleaved inside of the handlers, tasks that overtake each other, entries that cannot be read, a lost connection: still nothing is published twice; and the inductive invariant `ItemsOnce` of `StatsInvariants` |
| `StatsCollector_fresh` (violation) | a reply before its xid is recorded |

Bounds: one thread that requests where handlers do not interleave (two would do the
same, one after the other), two where they do, which are symmetric; two parts (a first
and a last), two rounds, one reset or loss, two replies of a kind that wait to be
handled (`MaxOnWire`: a whole answer, or the last part of one with the first of the
next), one skip (`STATS_REQ_SKIP` is 5; the count is compared with it and with nothing
else). In `StatsCollector_races` it is 0: pending requests are given up at once, which
leaves out no order in which threads ask and the loop handles answers.

Fairness, for `NeverStuck`: the threads that request and the loop run, since the timer
fires for ever and both run what is ready, and a features reply that was handled so far
is handled to its end. `execute` leaves out switches that are not connected, so that the
requesters are fair only with a connection; the switch owes nothing, not even to come
back.

### Hello, OfSlicer

`Hello` decodes byte sequences element by element as `GenericHello.unpack`
does, with its header size of 0. `Hello_bitmap` has all subsets of versions 1 to
6, bare headers, and elements behind the bitmap, with 1 and 4 as the supported
versions (as shipped it is 4 only, where the maximum of the common versions
would be no choice). It shows that the usual hellos give the highest common
version and that decoding always ends; `Hello_elements` (violation) has the
shipped versions and shows that an element behind the bitmap is taken for
versions. The fairness is that the decoding goes on.

`OfSlicer` cuts a stream of up to four units (a multipart reply, a port status, a
features reply, a header of length zero, a packet too short to be unpacked, a stray
byte) at every place. The setup ends at any point, also between two packets of a batch
(the second argument of `OnRawIn`), multipart replies are gathered and handed over
behind the batch (`HandleMultipart`), and handlers may raise (`RouteRaises`,
`ProcessRaises`). The packets are those of the uncut stream, each handed over, gathered,
waiting or lost to an exception, once. In which order is not claimed: an end of the
setup inside of a batch puts deferred packets behind others (section 4, 2), and
`OnlyDeferredReordered` of `Handshake` is about that. The run has 33,767 states. `Slice`
is the loop of `of_slicer`, a turn being `Cut`; it is compared with `PacketsOf`, which
looks at every byte of the whole stream once and does not slice. The streams of the run
are those of `Units`, joined.

### MatchFields, FlowTable

`MatchFields` has the 40 field classes, each with its name, its `oxm_field` and the one
of five ways in which it encodes a value: plain number, VLAN (with the `OFPVID_PRESENT`
bit), MAC address, IP prefix, number with mask. Numbers are scaled down by constants;
the VLAN mask, the prefix of an address and the refusals (`OverflowError`, host bits, a
text or a mask for a field that takes a number only) are kept. A value has a spelling
besides its number and mask, as a user may give `'100'` or 100, `AA:..` or `aa:..`:
`as_of_tlv` drops it, what is read from a TLV has the usual one (`Usual`), and the
setters of four fields write it in one way (`SetTo`), but `id` and `match_id` hash it.
Kept, too, are TLVs that no class reads and masks that `bytes_to_mask` cannot count.
Powers of two are `TwoTo`, a recursive function, since the provers know no law of `^`.

`FlowTable` sends flows to a switch, which keeps one entry for a table, a priority
and a match, and reads them back, with their stats. Others install entries in the
same switch: a field of another vendor, masks that are not prefixes, a set-field
action of another field, actions and instructions of unknown classes. `Collect`
reads all of them or none, as the list comprehension of the code does. What is given is
assumed to be what the classes take (`Taken`: numbers for the attributes, actions and
instructions of classes that exist) and what a switch keeps (`Kept`); `from_dict` raises
for other dictionaries.

| Run | Shows |
|---|---|
| `FlowTable_flows` | a flow read back has the id it was sent with (but for the cookie mask and unusual spellings, which switches do not report), and is the same entry when it is added again; two flows, spelled in one way, have one `match_id` exactly if they are one entry; a strict delete of a flow removes its entry; dictionaries keep flows and stats |

The dictionaries are: one field of each kind with every kind of value and masks of none,
zero and some bits, values in unusual spellings beside the usual ones, all fields of
each of the six groups of classes at once (so that each of the 40 is written and read),
each instruction and action, and flows that differ in the remaining attributes. Two
flows or entries of others at a time, since the properties relate pairs. Deadlock is not
checked: with an entry that cannot be read and no room for another nothing is left to
do.

The inductive invariants of the proofs, `FlowInv` and `BuiltInv` of `FlowInvariants`, are
not in the run, which is long enough. They were checked before their proofs, on this
instance; `INVARIANTS FlowInv BuiltInv` in the configuration does it again. The
hypothesis of the theorems on dictionaries, `DictsHaveOneForm`, is an `ASSUME` of
`MCFlowTable`, so that the run has the dictionaries they are about.

## 3. What is proved

TLAPS checks these for every value of the constants that the named assumption of the
module allows: `HandshakeAssumption`, `StatsAssumption`, `PortAssumption`,
`HelloAssumption`, `SlicerAssumption`, `FieldAssumption` and `FlowAssumption` say types,
that sets of threads and ports are finite, that the VLAN bit is a power of two, and what
is given to `FlowTable`. A theorem that needs more says so in its `ASSUME`: the modes of
section 2, the version 16 of `Hello`, and the form of the values in `FlowTable`, all
explained below. Every safety property that a passing run checks, and both
refinements, are stated by a theorem.

| Module | Theorem (property) | Holds |
|---|---|---|
| `HandshakeProofs` | `TypeCorrect`, `HandshakeInvariant`, `NothingEarly` (`NoDispatchBeforeHandshake`) | always |
| | `PlacesInvariant`, `NothingIsLost` (`NothingLost`), `OrderKept` (`OnlyDeferredReordered`) | always |
| | `SessionInvariant`, `ConnectionInvariant` (`ConnectionInv`), `GreetedBeforeAsked` (`HelloFirst`), `ConnectionIsSession` (`ImplementsPhases`) | always |
| `StatsCollectorProofs` | `TypeCorrect`, `ItemsInvariant` (`ItemsOnce`), `NothingPublishedTwice` (`PublishedOnce`) | always |
| | `AssemblyInvariant` (`AssemblyInv`), `PublishedListsAreComplete` (`CompleteLists`), `CollectorImplementsRounds` (`ImplementsRounds`) | `Sequential` |
| `PortUpdatesProofs` | `TypeCorrect` | always |
| | `NumbersInvariant`, `StatusIsNeverLate` (`StatusNeverLate`) | `Sequential` |
| | `MessagesInvariant`, `UpdatesAreNeverStale` (`NoStaleUpdate`) | `Sequential`, one-part descriptions |
| `PortNewsProofs` | `PortInvariant` (`PortInv`), `PortsAreFollowed` (`InterfacesFollowPorts`), `EventsAreTrue` (`EventsTellTheState`) | `Sequential`, one-part descriptions |
| `HelloProofs` | `HelloInvariant`, `TypeCorrect`, `HeaderIsRespected` (`HeaderVersionRespected`) | always |
| | `BitmapIsReadBack` (`BitmapReadBack`), `HighestIsAgreedOn` (`HighestCommonVersion`) | `NoVersion16` |
| `OfSlicerProofs` | `SlicerInvariant`, `TypeCorrect`, `PacketsAreHandedOnce` (`EachPacketOnce`), `NothingIsLeft` (`NoPacketLeftBehind`) | always |
| `FlowTableProofs` | `FlowInvariant`, `TypeCorrect`, `DictsKeepFlows` (`DictKeepsFlow`) | always |
| | `MatchReadsBack`: a match is what is read from its TLVs | values in one form |
| | `BuiltInvariant`, `MatchIdsAreEntries` (`MatchIdIsTheEntry`), `AddedAgainIsTheEntry` (`AddedAgainIsTheSame`), `CollectedFlowsKeepIds` (`CollectedKeepsId`), `StrictDeletesRemove` (`StrictDeleteRemoves`) | `DictsHaveOneForm` |
| `InductionFacts` | lemmas: induction over numbers and sequences, what recursive functions compute | |

`Sequential` says that threads and loop do not run inside of each other's handlers
(and, for the statistics, that replies are not overtaken and entries can be read). It is
the setting of the passing runs but `StatsCollector_races`, and it is needed: without it
the code has the behaviours 6, 7, 9 and 12 of section 4, for which TLC finds the
counterexamples. What
is claimed "always" holds for every interleaving that the module has.

### Handshake

`NoDispatchBeforeHandshake` is not inductive: a packet is handed over when the
connection is not during its setup, and that the protocol state is then
`handshake_complete`, and stays so, depends on every thread that may still
write either state. `HandshakeInv` says which can:

* `EstablishedIsComplete`, `DeadIsClosed`, `MultipartIsLate`: the connection
  state is never ahead of the protocol state, also for closed connections and
  for multipart replies that outlive their batch;
* `NegotiationIsEarly`, `NewIsUntouched`, `RoutedIsNegotiated`: the negotiation
  and the end of the handshake never run at the same time;
* `OneRequestInFlight`: the request, its record and the thread that read the
  state are one at most before the handshake ends, and no thread that would
  write `waiting_features_reply` is left after it;
* `EchoesAreLate`: the echo of `SEND_FEATURES_REQUEST_ON_ECHO` adds a second
  request only after the handshake;
* `RepliesInOrder`: a reply that was admitted finds the state it was admitted in.

That no packet is doubled, moved in front of another, or lost but to an exception is
proved from `PlacesInv`: the packets of a live connection stand in one line (deferred,
in the batch, put back, on the wire) in the order in which they were sent (`InOneLine`,
`BatchIsAlone`, `NumbersGiven`); each is at one place, there, gathered or handed over,
or was lost once (`HandedOverOnce`, `GatheredOnce`, `LostOnce`, `AllThere`), and what
was never deferred is behind all that was handed over (`UndeferredIsNext`). What an
exception takes is behind its packet, deferred, or a multipart reply of the same task
(`LostBehind`); for this the tasks that have released the lock have to be told apart
(`TasksApart`). A lost packet does not come back and is not handed over. `NothingLost`
counts places, so its proof goes from "at most one" and "at least one" to a cardinality.

The refinement needs `SessionInv`: one request or one answer exists before the
handshake is complete (`OneReply`), hence one thread at most concludes it and announces
it (`OneConclusion`, `AnnouncedIsEstablished`), and whoever asks has greeted
(`GreetedFirst`). `ConnectionIsSession` then takes each action to the step of
`ConnectionPhases` it is, or to a stutter.

### Statistics

`ItemsOnce` says that every item is on the wire, at hand, in the list that is being
assembled, or in one published list, and that what is yet to be answered is in none.
It is inductive whatever interleaves: the handler copies a list when it reads it, and
while that list is not yet deleted (`Reading`) what is assembled is at hand too; a thread
that clears it in between takes nothing from what is at hand, and after the deletion, or
the exception in its place, nothing is at both. A part cannot be added in between, as
`_handle_multipart_reply` does not wait there.

`AssemblyInv` is about handlers in turn. What is assembled are the first parts of the
answer to the pending request, and what is to come of it follows without a gap, or
nothing does (`Assembling`, `StreamInOrder`); the list at hand is whole (`AtHand`); a
thread that asks finds nothing assembled, and its requests are newer than everything
published (`FreshStart`, `MineAreNew`). Losing the connection cuts the stream, and a
request over a pending one leaves its late parts behind: both are why "or nothing does"
is there. `CompleteLists` under interleaving, with reordering, or with unreadable
entries is not left to TLC, it is false (section 4: 3, 9, 12).

### Interfaces

`NumbersInv` is about the local sequence numbers: none exceeds the counter, and a
running `PORT_STATUS` that was counted has the last one (`NumbersGiven`). A task that
read `connection.switch` before it was bound counts nothing; then the counters are as
they were popped and no description waits (`CountedInTurn`), since replies are read by
tasks that know the switch (`RepliesAreCounted`). So no `PORT_STATUS` is late.

`MessagesInv` adds the order: what the loop looks at is in the order in which it was
sent (`LineInOrder`) and not older than the interfaces (`LineIsNews`); a `PORT_STATUS`
is newer than all that was sent before it, than its interface and than what waits; a
description that waits is not newer than anything in the line (`WaitingFirst`), and
newer than its interface or late by its number (`WaitingOrLate`). The last is what the
numbers of `on_raw_in` are for. The step that deserves a look is the popping of the
counters, which makes what was late not late any more: with handlers in turn nothing
waits then. With descriptions in several parts `WaitingOrLate` fails, as finding 6
shows.

`NewsInv` is the other half: nothing is skipped that was not superseded. For every port

* what tells its latest version tells how it is, the interface included (`StatusIsTrue`,
  `DescriptionIsTrue`, `InterfaceIsTrue`);
* while the switch is known, the latest version is applied, announced in the line,
  described there, waits and is not late, or the switch has still to answer
  (`NewestComes`); a port that was removed is announced as removed, or the removal was
  handled and nothing is left that would undo it (`Gone`);
* the announcements end with the latest version, and a removal is followed by nothing
  or by the return of the port (`AnnouncedInTurn`);
* the last event is true, or another announcement is still to come (`EventIsTrue`), and
  descriptions of a port that was announced tell what was or will be announced before
  they are handled (`DescribedIsAnnounced`).

The last part is why `EventsTellTheState` holds although descriptions change interfaces
without an event: for a port that is known by its announcements they change nothing. A
task that ends with an exception (finding 8) takes announcements with it, so that the
parts on what is to come hold until then (`~aborted`), as in the two properties; a lost
connection takes them too, but what was announced over it is forgotten with it, and the
next features reply asks for all ports. A port that is removed meanwhile is `silent`
(finding 14) and `SilentIsSilent` keeps it apart. `InterfacesFollowPorts` and
`EventsTellTheState` are what `PortInv` says when nothing is left to read or to handle
(`NothingLeft`).

### Induction over data

What a loop of the code computes is a recursive function here (`Only`, `Joined`,
`Slice`, `PacketsOf`, `TwoTo`), and what it computes for every input is an induction.
The induction theorems of the library take a predicate as a parameter, which the provers
cannot instantiate. `InductionFacts` takes a set in its place: a set of numbers that has
n + 1 with every n (or n with all that is below it) has them all (`IntervalInduction`,
`StrongInduction`, both from `LeastNumber`), a set of sequences that is closed under
`Append` has all sequences over a set (`SequenceInduction`). A proof names the set for
which its claim holds and shows that it is closed. That a recursive function is defined
everywhere, and what its steps are, is proved once (`StepsDefine`): functions on ever
longer prefixes agree. `OnlySteps`, `JoinedSteps`, `SliceSteps` and `TwoToIsDoubling`
apply it.

### Stream

`SlicerInv` relates what was cut to the uncut stream. While the connection is open
(`WaitingInv`), the remaining bytes are the deferred packets, joined, and in front of
what slicing *all bytes that were read* would leave; and of every packet, in fact of
every set of packets, as many arrived as were handed over, are gathered, were lost and
wait. A batch is sorted into these wherever the setup ends in it and whichever handler
raises (`BatchSorted`, `BatchCounts`). It rests on three facts on slicing: slicing a
joined list of whole packets gives the packets back; slicing a prefix, and then its rest
in front of the next bytes, is slicing it all, also when the rest begins inside of bytes
that are no packet; and `Slice` is `PacketsOf` with the rest behind the last packet.
That is why writing packets back in front is sound, wherever the reads end. The
assumption has no lower bound on what a unit is: any bytes, any lengths in the headers.

### Hello

`HelloInv` says where the decoding stands: the offset is in the packet and a multiple of
four, without a bitmap in the hello no element is read as one, and the outcome is that
of the bitmap or of the header. `BitmapInv` follows the hello that the code itself can
send, a bitmap alone: after the first element its bytes are in `elements`, and the next
element, which is looked for inside of the bitmap itself as the header size is 0, is not
a second bitmap. That the versions are read back is then a fact on numbers, the bits of
the four bytes (`BitsOfByteOf`, `BitmapIsRead`). It needs `NoVersion16`: the upper half
of the bitmap is the type of a bitmap, 1, if version 16 is announced and nothing above
it. There is no such version yet (`MCHello` has it as an `ASSUME`).

### Flows

`FlowInv` says that everything in `built` and `collected` is a flow, with the types and
the setters of the code behind it, and that the entries are those of built flows and of
others; it needs nothing of the dictionaries but that they are taken. From it, with what
`as_dict` does to every instruction and action, `DictKeepsFlow`.

The others need that a value is read from its TLV as it was written. `ValueReadsBack`
has it for the five encodings, for every width of numbers and addresses: the VLAN bit is
added and taken off (`PresentIsRead`), the bytes of a prefix mask are counted back to
the length of the prefix (`MaskIsCounted`: a mask is ones and then zeros, by induction
over the powers of two). Names and `oxm_field`s of the 40 classes are unique
(`NamesAreUnique`, `OxmFieldsAreUnique`), so that a match is read back field by field
(`MatchReadsBack`). With actions and instructions element by element, a flow is read
back but for the cookie mask (`FlowReadsBack`). Then two flows with one entry have one
match, and conversely.

`DictsHaveOneForm` is needed, as the code writes two forms of some values as one: a MAC
address with a mask of ones, an ARP address with its full prefix (finding 11), VLAN ids
and masks with bits above the VLAN bit, a tag type other than `s` and `c`. It says that
dictionaries have none of these. `BuiltInv` is its image in the flows. Spellings are not
restricted: the properties compare flows as a switch would report them (`AsReported`),
and `TlvsHaveNoSpelling` says that what is sent is the same. Entries of others are not
restricted either.

### Only model-checked

* Liveness: `DeferredDispatched`, `FirstPacketAnswered`, `NeverStuck` and
  `AlwaysAnswered`. Fairness and ENABLED are out of reach of the prover.
* The four violations, which are counterexamples.

## 4. Where code and documents differ

Shown by a violation run; `PROJECT.json` quotes the documents:

1. `main.py:170`: a features reply in the state `sending_features` is let through
   by the loop and ignored by its handler; the connection stays in its setup
   (`Handshake_reply`).
2. `main.py:382`: messages that were deferred are counted again behind newer
   ones, and undo them (`PortUpdates_midbatch`). Whatever was deferred is handed over
   behind what followed it in the batch: `OnlyDeferredReordered` allows for that.
3. `main.py:129`: a reply that comes before its xid is recorded is lost in part,
   and the rest is published as the whole (`StatsCollector_fresh`).
4. `utils.py:198`: a hello element behind the bitmap is read as versions
   (`Hello_elements`).

Seen while modelling, and to be had from the same modules with other constants:

5. `main.py:411`: `CloseFailed` closes a connection while the error message of
   `fail_negotiation` is still in the output buffer; it may never be sent.
6. `main.py:346`: the parts of a port description share one sequence number, so
   that an interface may stay behind its port: `InterfacesFollowPorts` and
   `NoStaleUpdate` fail with `MultiPart = TRUE`.
7. `main.py:576`: a features reply whose thread resets the counters while
   descriptions are handled mixes numbers from before and behind the reset: a
   later `PORT_STATUS` is taken for late and skipped (`StatusNeverLate` and
   `InterfacesFollowPorts` fail with `ThreadsInterleave = TRUE` and
   `MaxReplies = 2`). The same holds for `on_openflow_connection_error`
   (`main.py:586`) when the switch is already connected again.
8. `main.py:728`: the deletion of a port without an interface ends the task with
   an exception (`UpdateRaises` of `PortUpdates`, `RouteRaises` of `Handshake` and
   `OfSlicer`): no event, and the rest of the batch, with what it had deferred and
   gathered, is lost on a connection that stays open. So does a packet-in with a
   frame that `update_links` cannot unpack. `NothingLost`, `DeferredDispatched` and
   `EachPacketOnce` allow for that and for nothing else.
9. `main.py:396`: tasks overtake each other with the parts of one reply:
   `CompleteLists` fails with `MayReorder = TRUE`.
10. `main.py:122`: two threads find nothing pending and both request, although requests
    are to be skipped while others are pending (`StartRound` of `StatsCollector_races`);
    the answer to one of them is dropped. A thread that clears the lists between the
    copy that is published (`main.py:224`) and `main.py:281` leaves `switch.flows`
    empty beside a published list (`Collect`, `TakeFlows`).
11. `flow.py:117`: two spellings of one value, `AA:..` and `aa:..` or `'100'` and 100,
    are one entry of the switch, and two `match_id`s ("Return this flow unique match
    identifier", `flow.py:106`) and `id`s: `MatchIdIsTheEntry` and `CollectedKeepsId` fail
    in `FlowTable_flows` if their flows are not taken `AsReported`. A MAC address with a
    mask of ones only and the address alone are one entry with two `match_id`s, too:
    `MatchIdIsTheEntry` fails with such a pair in `FlowDicts`. So are an ARP address
    with `/32` and without (`v0x04/match_fields.py:504`); the setters of `nw_src` and
    `nw_dst` drop it.
12. `main.py:217`: one flow entry that cannot be read (a mask that is no prefix,
    `v0x04/utils.py:165`, host bits behind the mask, `flow.py:437`, an unknown
    instruction) raises out of the list comprehension: the whole reply is lost,
    with the others of its batch (`Readable` and `Collect` of `FlowTable`, `ExtendRaises`
    of `StatsCollector`, `ProcessRaises` of `Handshake`). While such an entry is in
    the switch `flow_stats.received`, with "all flows" (README.rst:134-135), is
    never published, or, if the reply has several parts, with those behind it only:
    `CompleteLists` fails with `Unreadable = TRUE`.
13. `v0x04/flow.py:160`, `:46`: set-field actions on any field are read as
    `set_vlan`, and fields without a class are dropped, so that entries of others
    are read as flows they are not; actions without a class become `None`, are left
    out of the dictionary and make the flow impossible to send
    (`v0x04/flow.py:241`). A strict delete of a flow that was read from such an entry
    may remove another one, of of_core itself: the one with the fields that were read.
14. `main.py:741`: ports that were removed while the switch was not connected are
    in no description, and their interfaces stay active; `InterfacesFollowPorts`
    leaves them out (`silent`). Links that changed meanwhile are not announced by
    `link_up` or `link_down`: `EventsTellTheState` forgets what was announced over
    the last connection.
15. `v0x04/match_fields_base.py:87`: the index of the classes is built by the first
    caller, without a lock; a thread that comes in between gets `None` for classes
    that are not in it yet, and sends its flow without their fields. Read in the
    code, not modelled: `FlowTable` has the index complete.

## 5. Plan

Written: the modules above: `Handshake` with `ConnectionPhases` and
`HandshakeProofs` (the core), `PortUpdates` and `StatsCollector` with `StatsRounds`,
both over the loss of a connection, `Hello`, `OfSlicer`, `MatchFields` with all
classes and `FlowTable` with the entries of others.

Proved: section 3.

Next, models:

1. two connections with one dpid (`KytosDuplicatedSwitch`): `Handshake` drops the
   reply of the second, what the first sees is not modelled;
2. the index of the match field classes, built by two threads (section 4, 15);
3. the delays between the requests of several switches, whose threads read and
   write the last delay in two steps: as it is they only change how well the
   requests are spread in time.

## 6. Running

    tlc -config Handshake_safety.cfg MCHandshake.tla
    tlapm HandshakeProofs.tla

The module of a configuration is `MC` and the part of its name before the
underscore. Every run ends within five minutes on two cores. The modules with proofs
are those of the table in section 3.
