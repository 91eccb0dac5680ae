------------------------------ MODULE PortUpdates ------------------------------
(***************************************************************************)
(* How the interfaces of a switch follow its ports: PORT_STATUS messages,  *)
(* the PORT_DESC reply asked for by the handshake, and the local sequence  *)
(* numbers by which of_core skips what it assembles late.                  *)
(*                                                                         *)
(* The raw-in loop counts each message when it unpacks it, handles a       *)
(* PORT_STATUS at once and a PORT_DESC reply after the lock of the         *)
(* connection is released, port by port, while the next batch may run.     *)
(* The thread of a features reply binds the switch, asks for its ports,    *)
(* pops the counters and, the first one, establishes the connection; with  *)
(* SEND_FEATURES_REQUEST_ON_ECHO there are further ones.                   *)
(*                                                                         *)
(* The connection may be lost, and another one take its place: the         *)
(* interfaces and the counters belong to the switch and stay, and the      *)
(* counters are popped for the error of the old connection at any time.    *)
(*                                                                         *)
(* A port's description is its version: the number of changes it has had.  *)
(***************************************************************************)
EXTENDS Naturals, Sequences, FiniteSets

LOCAL INSTANCE FiniteSetsExt

CONSTANTS
    Ports,             \* the ports of the switch
    OFPP_LOCAL,        \* the number of the local port, if it is one of them
    States,            \* the states a port may have (bits: link down 1, live 4)
    KnownPorts,        \* the sets of ports that may have interfaces at the start
    MaxChanges,        \* bound on the changes of the ports
    MaxTasks,          \* bound on the raw events that wait for the lock
    MultiPart,         \* a PORT_DESC reply may come in several parts
    MaxReplies,        \* bound on the features replies
    MaxLosses,         \* bound on the connections that are lost
    ThreadsInterleave  \* thread and loop interleave inside of their handlers

ASSUME PortAssumption ==
    /\ IsFiniteSet(Ports)
    /\ States \subseteq Nat
    /\ KnownPorts \subseteq SUBSET Ports
    /\ MaxChanges \in Nat /\ MaxTasks \in Nat
    /\ MaxReplies \in Nat /\ MaxLosses \in Nat
    /\ MultiPart \in BOOLEAN /\ ThreadsInterleave \in BOOLEAN

VARIABLES
    port,        \* the ports at the switch; silent: removed, and no message tells it
    unanswered,  \* the ports the switch has still to describe, for each request
    wire,        \* messages sent and not yet read
    rawIn,       \* raw events whose tasks wait for the lock
    remaining,   \* Connection.remaining_data: what was deferred
    pc,          \* "idle", "batch", or "update" after the await of aemit_message_in
    batch,       \* messages of the running task still to be looked at
    counted,     \* its switch variable was bound when it started
    unprocessed, \* its unprocessed_packets
    multipart,   \* its multipart_messages, as port descriptions
    assembled,   \* port descriptions of tasks that have released the lock
    thread,      \* how far the features reply handler is
    requests,    \* features replies handled, each with a request for the ports
    established, \* the connection is no longer during its setup
    link,        \* the connection: "new", "bound" to its switch, or "lost"
    losses,      \* connections that were lost
    errors,      \* of them, those whose error was not handled yet
    msgSeqCnt,   \* _msg_seq_cnt of the switch
    xidSeqNum,   \* _xid_seq_num of the switch
    seenNum,     \* _intf_state_seen_num of the switch
    intf,        \* the interfaces: known, version, active
    event,       \* the last event published about an interface's existence or link
    aborted      \* a task ended with an exception

switchVars == <<port, unanswered, wire>>
taskVars   == <<pc, batch, counted, unprocessed, multipart>>
replyVars  == <<thread, requests, established>>
linkVars   == <<link, losses, errors>>
seqVars    == <<msgSeqCnt, xidSeqNum, seenNum>>
intfVars   == <<intf, event>>
vars == <<port, unanswered, wire, rawIn, remaining, pc, batch, counted, unprocessed,
          multipart, assembled, thread, requests, established, link, losses, errors,
          msgSeqCnt, xidSeqNum, seenNum, intf, event, aborted>>

-------------------------------------------------------------------------------
\* PORT_STATUS messages carry the xid 0, PORT_DESC parts the one of the request.
Requests == 1 .. MaxReplies
Xids     == {0} \union Requests

Known       == link = "bound"          \* Connection.switch
Alive       == link # "lost"
DuringSetup == ~established

Entry(x, p) == [xid |-> x, port |-> p, ver |-> port[p].ver, state |-> port[p].state]

\* Handlers that do not interleave: the thread runs between batches and when no
\* description is waiting, and nothing else happens while counters are popped.
ThreadMayRun == ThreadsInterleave \/ (pc = "idle" /\ assembled = {})
LoopMayRun   == ThreadsInterleave \/ thread \notin {"seen", "xids"}

\* No batch depends then on what comes while it runs: it may come behind it.
MayArrive == ThreadsInterleave \/ pc = "idle"

\* Bound on the changes of all ports.
ChangesLeft == MapThenSumSet(LAMBDA q : port[q].ver - 1, Ports) < MaxChanges

OFPPS_LIVE == 4

Init ==
    \* Bound: the ports begin in one state.
    /\ \E state \in States :
          port = [p \in Ports |-> [ver |-> 1, present |-> TRUE, silent |-> FALSE,
                                   state |-> state]]
    /\ unanswered = [x \in Requests |-> {}] /\ wire = <<>> /\ rawIn = <<>> /\ remaining = <<>>
    /\ pc = "idle" /\ batch = <<>> /\ counted = FALSE
    /\ unprocessed = <<>> /\ multipart = {} /\ assembled = {}
    /\ thread = "idle" /\ requests = 0 /\ established = FALSE
    /\ link = "new" /\ losses = 0 /\ errors = 0
    /\ msgSeqCnt = 0 /\ xidSeqNum = [x \in Xids |-> 0]
    /\ seenNum = [p \in Ports |-> 0]
    \* The interfaces of an earlier connection, or none yet.
    /\ \E known \in KnownPorts :
          intf = [p \in Ports |-> [known |-> p \in known, ver |-> 0, state |-> 0,
                                   active |-> FALSE]]
    /\ event = [p \in Ports |-> "none"]
    /\ aborted = FALSE

-------------------------------------------------------------------------------
(* The switch (external).                                                  *)

Reasons == {"OFPPR_ADD", "OFPPR_MODIFY", "OFPPR_DELETE"}

\* A port changes, appears or disappears, and the switch tells the controller,
\* if it is connected.
SwitchChanges(p, reason, state) ==
    /\ port[p].present <=> reason # "OFPPR_ADD"
    /\ reason = "OFPPR_DELETE" => state = port[p].state
    /\ port' = [port EXCEPT ![p] = [ver     |-> @.ver + 1,
                                    present |-> reason # "OFPPR_DELETE",
                                    silent  |-> reason = "OFPPR_DELETE" /\ ~Alive,
                                    state   |-> state]]
    /\ wire' = IF Alive
               THEN Append(wire, [xid |-> 0, reason |-> reason, port |-> p,
                                  ver |-> port'[p].ver, state |-> state])
               ELSE wire
    /\ UNCHANGED <<unanswered, rawIn, remaining, taskVars, assembled, replyVars, linkVars,
                   seqVars, intfVars, aborted>>

\* It describes its ports in one message, or some of them at a time, and
\* answers the requests in order.
SwitchDescribes(x, ps) ==
    /\ ps # {}
    /\ ps \subseteq unanswered[x]
    /\ MultiPart \/ ps = unanswered[x]
    /\ \A y \in 1 .. x - 1 : unanswered[y] = {}
    /\ wire' = Append(wire, [xid |-> x,
                             entries |-> {Entry(x, p) : p \in {q \in ps : port[q].present}}])
    /\ unanswered' = [unanswered EXCEPT ![x] = @ \ ps]
    /\ UNCHANGED <<port, rawIn, remaining, taskVars, assembled, replyVars, linkVars,
                   seqVars, intfVars, aborted>>

-------------------------------------------------------------------------------
(* handle_features_reply, in its thread.                                   *)

\* get_switch_or_create binds the switch; the ports are asked for.
Bind ==
    /\ thread = "idle"
    /\ requests < MaxReplies
    /\ Alive
    /\ Known => established
    /\ ThreadMayRun
    /\ thread' = "bound"
    /\ link' = "bound"
    /\ requests' = requests + 1
    /\ unanswered' = [unanswered EXCEPT ![requests + 1] = Ports]
    /\ UNCHANGED <<port, wire, rawIn, remaining, taskVars, assembled, established, losses,
                   errors, seqVars, intfVars, aborted>>

\* Mutant of PopSeenNum: what the interfaces have seen is kept.
KeepSeenNum ==
    /\ thread = "bound"
    /\ ThreadMayRun
    /\ thread' = "seen"
    /\ UNCHANGED <<switchVars, rawIn, remaining, taskVars, assembled, requests, established, linkVars,
                   seqVars, intfVars, aborted>>

\* pop_seq_msg_counters, one after the other: what is missing in a defaultdict
\* reads as 0.
PopSeenNum ==
    /\ thread = "bound"
    /\ ThreadMayRun
    /\ thread' = "seen"
    /\ seenNum' = [p \in Ports |-> 0]
    /\ UNCHANGED <<switchVars, rawIn, remaining, taskVars, assembled, requests, established, linkVars,
                   msgSeqCnt, xidSeqNum, intfVars, aborted>>

PopXidSeqNum ==
    /\ thread = "seen"
    /\ thread' = "xids"
    /\ xidSeqNum' = [x \in Xids |-> 0]
    /\ UNCHANGED <<switchVars, rawIn, remaining, taskVars, assembled, requests, established, linkVars,
                   msgSeqCnt, seenNum, intfVars, aborted>>

PopMsgSeqCnt ==
    /\ thread = "xids"
    /\ thread' = "popped"
    /\ msgSeqCnt' = 0
    /\ UNCHANGED <<switchVars, rawIn, remaining, taskVars, assembled, requests, established, linkVars,
                   xidSeqNum, seenNum, intfVars, aborted>>

\* Only the first reply finds the connection during its setup, and only if it
\* was not lost.
Establish ==
    /\ thread = "popped"
    /\ ThreadMayRun
    /\ thread' = "idle"
    /\ established' = (established \/ Alive)
    /\ UNCHANGED <<switchVars, rawIn, remaining, taskVars, assembled, requests, linkVars,
                   seqVars, intfVars, aborted>>

-------------------------------------------------------------------------------
(* on_raw_in.                                                              *)

\* The task of a raw event reads connection.switch before it waits for the
\* lock.  After the handshake the echo replies to execute (n = 0: they are not
\* counted and have no handler) make a task look again at what was deferred.
ReadRaw(n) ==
    /\ Len(rawIn) < MaxTasks
    /\ n = 0 => ~DuringSetup /\ remaining # <<>> /\ rawIn = <<>>
    /\ rawIn' = Append(rawIn, [msgs |-> SubSeq(wire, 1, n), known |-> Known])
    /\ wire' = SubSeq(wire, n + 1, Len(wire))
    /\ UNCHANGED <<port, unanswered, remaining, taskVars, assembled, replyVars, linkVars,
                   seqVars, intfVars, aborted>>

StartBatch ==
    /\ pc = "idle"
    /\ rawIn # <<>>
    /\ batch' = remaining \o Head(rawIn).msgs
    /\ counted' = Head(rawIn).known
    /\ rawIn' = Tail(rawIn)
    /\ remaining' = <<>>
    /\ pc' = "batch"
    /\ UNCHANGED <<switchVars, unprocessed, multipart, assembled, replyVars, linkVars,
                   seqVars, intfVars, aborted>>

\* Mutant of CountMessage: the number is read before it is incremented.
CountMessageAfter(x) ==
    IF counted
    THEN /\ msgSeqCnt' = msgSeqCnt + 1
         /\ xidSeqNum' = [xidSeqNum EXCEPT ![x] = msgSeqCnt]
    ELSE UNCHANGED <<msgSeqCnt, xidSeqNum>>

\* The sequence number of a message is counted when it is unpacked, also of
\* one that is deferred: it is counted again when it is looked at again.
CountMessage(x) ==
    IF counted
    THEN /\ msgSeqCnt' = msgSeqCnt + 1
         /\ xidSeqNum' = [xidSeqNum EXCEPT ![x] = msgSeqCnt + 1]
    ELSE UNCHANGED <<msgSeqCnt, xidSeqNum>>

DeferMessage ==
    /\ pc = "batch"
    /\ batch # <<>>
    /\ Alive
    /\ DuringSetup
    /\ CountMessage(Head(batch).xid)
    /\ unprocessed' = Append(unprocessed, Head(batch))
    /\ batch' = Tail(batch)
    /\ UNCHANGED <<switchVars, rawIn, remaining, pc, counted, multipart, assembled,
                   replyVars, linkVars, seenNum, intfVars, aborted>>

GatherPortDesc ==
    /\ pc = "batch"
    /\ batch # <<>>
    /\ Alive
    /\ ~DuringSetup
    /\ Head(batch).xid # 0
    /\ CountMessage(Head(batch).xid)
    /\ multipart' = multipart \union Head(batch).entries
    /\ batch' = Tail(batch)
    /\ UNCHANGED <<switchVars, rawIn, remaining, pc, counted, unprocessed, assembled,
                   replyVars, linkVars, seenNum, intfVars, aborted>>

\* aemit_message_in awaits before update_port_status is called.
EmitPortStatus ==
    /\ pc = "batch"
    /\ batch # <<>>
    /\ Alive
    /\ ~DuringSetup
    /\ Head(batch).xid = 0
    /\ CountMessage(0)
    /\ pc' = "update"
    /\ UNCHANGED <<switchVars, rawIn, remaining, batch, counted, unprocessed, multipart,
                   assembled, replyVars, linkVars, seenNum, intfVars, aborted>>

\* A task whose connection was lost returns with what it has gathered.
ReturnIfDead ==
    /\ pc = "batch"
    /\ batch # <<>>
    /\ ~Alive
    /\ pc' = "idle" /\ batch' = <<>> /\ counted' = FALSE
    /\ unprocessed' = <<>> /\ multipart' = {}
    /\ UNCHANGED <<switchVars, rawIn, remaining, assembled, replyVars, linkVars,
                   seqVars, intfVars, aborted>>

EndBatch ==
    /\ pc = "batch"
    /\ batch = <<>>
    /\ remaining' = IF Alive THEN unprocessed \o remaining ELSE remaining
    /\ assembled' = assembled \union multipart
    /\ pc' = "idle"
    /\ counted' = FALSE
    /\ unprocessed' = <<>>
    /\ multipart' = {}
    /\ UNCHANGED <<switchVars, rawIn, batch, replyVars, linkVars, seqVars, intfVars,
                   aborted>>

-------------------------------------------------------------------------------
(* update_port_status and _handle_port_desc.                               *)

\* Mutants of Late: an update is never late; one as late as the last is late.
NeverLate(p, x) == FALSE
LateIfNotNewer(p, x) == intf[p].known /\ xidSeqNum[x] <= seenNum[p]

\* An interface that has seen a later message is not updated.
Late(p, x) == intf[p].known /\ xidSeqNum[x] < seenNum[p]

\* try_to_activate_interface: the local port is active in any state.
Activated(p, state) == state = OFPPS_LIVE \/ p = OFPP_LOCAL

Updated(p, d) == [intf EXCEPT ![p] = [known |-> TRUE, ver |-> d.ver, state |-> d.state,
                                      active |-> Activated(p, d.state)]]

LinkStatus(state) == IF state % 2 = 1 THEN "link_down" ELSE "link_up"

\* Mutant of LinkEvent: a known interface is taken to have its link already.
LinkEventIfNew(m, i) ==
    IF i.known /\ i.state # 0 THEN event[m.port] ELSE LinkStatus(m.state)

\* _send_specific_port_mod: a state of 0 counts as no state.
LinkEvent(m, i) ==
    IF i.known /\ i.state # 0 /\ LinkStatus(i.state) = LinkStatus(m.state)
    THEN event[m.port] ELSE LinkStatus(m.state)

\* Mutant of NextInBatch: the loop does not go back to its start.
NextInBatchSameStep == pc' = pc /\ batch' = Tail(batch)

NextInBatch == pc' = "batch" /\ batch' = Tail(batch)

\* The last event about an interface: "modified" alone is not one.
EventOf(m, i) == CASE m.reason = "OFPPR_ADD"    -> "created"
                   [] m.reason = "OFPPR_DELETE" -> "deleted"
                   [] OTHER                     -> LinkEvent(m, i)

UpdatePortStatus ==
    /\ pc = "update"
    /\ LET m == Head(batch)
           p == m.port
       IN  IF Late(p, 0)
           THEN UNCHANGED <<intf, event, seenNum>>
           ELSE /\ m.reason = "OFPPR_DELETE" => intf[p].known
                /\ intf' = IF m.reason = "OFPPR_DELETE"
                           THEN [intf EXCEPT ![p].active = FALSE]
                           ELSE Updated(p, m)
                /\ event' = [event EXCEPT ![p] = EventOf(m, intf[p])]
                /\ seenNum' = [seenNum EXCEPT ![p] = xidSeqNum[0]]
    /\ NextInBatch
    /\ UNCHANGED <<switchVars, rawIn, remaining, counted, unprocessed, multipart,
                   assembled, replyVars, linkVars, msgSeqCnt, xidSeqNum, aborted>>

\* The deletion of a port without an interface raises AttributeError, and the
\* task ends with what it had gathered.
UpdateRaises ==
    /\ pc = "update"
    /\ Head(batch).reason = "OFPPR_DELETE"
    /\ ~intf[Head(batch).port].known
    /\ pc' = "idle" /\ batch' = <<>> /\ counted' = FALSE
    /\ unprocessed' = <<>> /\ multipart' = {}
    /\ aborted' = TRUE
    /\ UNCHANGED <<switchVars, rawIn, remaining, assembled, replyVars, linkVars,
                   seqVars, intfVars>>

\* One port of a PORT_DESC reply, between two awaits.
HandlePortDesc(e) ==
    /\ e \in assembled
    /\ assembled' = assembled \ {e}
    /\ IF Late(e.port, e.xid)
       THEN UNCHANGED <<intf, seenNum>>
       ELSE /\ intf' = Updated(e.port, e)
            /\ seenNum' = [seenNum EXCEPT ![e.port] = xidSeqNum[e.xid]]
    /\ UNCHANGED <<switchVars, rawIn, remaining, taskVars, replyVars, linkVars, msgSeqCnt,
                   xidSeqNum, event, aborted>>

-------------------------------------------------------------------------------
(* The loss of a connection.                                               *)

\* The connection is lost (external): what was sent and not handled is lost too,
\* but for descriptions that were gathered.
ConnectionLost ==
    /\ Alive
    /\ losses < MaxLosses
    /\ link' = "lost" /\ losses' = losses + 1
    /\ errors' = IF Known THEN errors + 1 ELSE errors
    /\ port' = [p \in Ports |-> [port[p] EXCEPT !.silent = ~port[p].present]]
    /\ unanswered' = [x \in Requests |-> {}]
    /\ wire' = <<>> /\ rawIn' = <<>> /\ remaining' = <<>>
    /\ UNCHANGED <<taskVars, assembled, replyVars, seqVars, intfVars, aborted>>

\* The switch connects again (external), when the handlers of the features
\* replies and of the raw events of its last connection are done; what was
\* announced before is forgotten.
Reconnect ==
    /\ ~Alive
    /\ thread = "idle" /\ pc = "idle"
    /\ link' = "new"
    /\ established' = FALSE
    /\ event' = [p \in Ports |-> "none"]
    /\ UNCHANGED <<switchVars, rawIn, remaining, taskVars, assembled, thread, requests, losses,
                   errors, seqVars, intf, aborted>>

\* on_openflow_connection_error, on the loop, for a connection that was lost
\* (bound: once for each): the counters of the switch are popped, whatever
\* connection it has by then.
ConnectionError ==
    /\ errors > 0
    /\ ThreadMayRun
    /\ errors' = errors - 1
    /\ seenNum' = [p \in Ports |-> 0]
    /\ xidSeqNum' = [x \in Xids |-> 0]
    /\ msgSeqCnt' = 0
    /\ UNCHANGED <<switchVars, rawIn, remaining, taskVars, assembled, replyVars, link, losses,
                   intfVars, aborted>>

-------------------------------------------------------------------------------
Switch == \/ ChangesLeft /\ \E p \in Ports, reason \in Reasons, state \in States :
                                SwitchChanges(p, reason, state)
          \/ \E x \in Requests : \E ps \in SUBSET unanswered[x] : SwitchDescribes(x, ps)

FeaturesReply == Bind \/ PopSeenNum \/ PopXidSeqNum \/ PopMsgSeqCnt \/ Establish

Reads == \E n \in 0 .. Len(wire) : ReadRaw(n)

RawInLoop == \/ StartBatch \/ DeferMessage \/ GatherPortDesc \/ EmitPortStatus
             \/ UpdatePortStatus \/ UpdateRaises \/ ReturnIfDead \/ EndBatch
             \/ \E e \in assembled : HandlePortDesc(e)

Next == \/ FeaturesReply
        \/ LoopMayRun /\ (\/ MayArrive /\ (Switch \/ Reads)
                          \/ RawInLoop
                          \/ ConnectionLost \/ Reconnect \/ ConnectionError)

Spec == Init /\ [][Next]_vars

-------------------------------------------------------------------------------
(* Properties.                                                             *)

Description == [xid : Requests, port : Ports, ver : Nat, state : States]
Message == [xid : {0}, reason : Reasons, port : Ports, ver : Nat, state : States]
           \union [xid : Requests, entries : SUBSET Description]

\* Every variable has its type.
TypeOK ==
    /\ port \in [Ports -> [ver : Nat, present : BOOLEAN, silent : BOOLEAN, state : States]]
    /\ unanswered \in [Requests -> SUBSET Ports]
    /\ wire \in Seq(Message) /\ remaining \in Seq(Message)
    /\ rawIn \in Seq([msgs : Seq(Message), known : BOOLEAN])
    /\ pc \in {"idle", "batch", "update"}
    /\ batch \in Seq(Message) /\ unprocessed \in Seq(Message)
    /\ counted \in BOOLEAN
    /\ multipart \subseteq Description /\ assembled \subseteq Description
    /\ pc = "update" => batch # <<>> /\ Head(batch).xid = 0
    /\ thread \in {"idle", "bound", "seen", "xids", "popped"}
    /\ requests \in 0 .. MaxReplies /\ established \in BOOLEAN
    /\ link \in {"new", "bound", "lost"} /\ losses \in Nat /\ errors \in 0 .. losses
    /\ msgSeqCnt \in Nat
    /\ xidSeqNum \in [Xids -> Nat]
    /\ seenNum \in [Ports -> Nat]
    /\ intf \in [Ports -> [known : BOOLEAN, ver : Nat, state : States \union {0},
                           active : BOOLEAN]]
    /\ event \in [Ports -> {"none", "created", "deleted", "link_up", "link_down"}]
    /\ aborted \in BOOLEAN

\* A PORT_STATUS is never taken for late: it is the switch that announces a
\* change, in order, and the numbers of descriptions that wait, of earlier
\* handshakes and of messages counted twice must not exceed its own.
StatusNeverLate == pc = "update" => ~Late(Head(batch).port, 0)

\* An interface never goes back to an older description of its port, although
\* PORT_DESC replies are handled after the PORT_STATUS messages of their batch
\* and of later ones (the sequence numbers of on_raw_in).
NoStaleUpdate ==
    [][\A p \in Ports : intf'[p].ver >= intf[p].ver]_vars

\* Nothing is left to read or to handle.
Quiet == /\ thread = "idle" /\ Known /\ established
         /\ \A x \in Requests : unanswered[x] = {}
         /\ wire = <<>> /\ rawIn = <<>> /\ remaining = <<>>
         /\ pc = "idle" /\ assembled = {}

Follows(p) == IF port[p].present
              THEN /\ intf[p].known
                   /\ intf[p].ver = port[p].ver
                   /\ intf[p].active = Activated(p, port[p].state)
              ELSE intf[p].known /\ ~port[p].silent => ~intf[p].active

\* When all is handled every interface is what its port is: no update was
\* skipped that was not superseded, in whatever order the batches, the late
\* PORT_DESC descriptions and the deferrals were handled.
InterfacesFollowPorts == Quiet /\ ~aborted => \A p \in Ports : Follows(p)

\* The last event about an interface is still true of it, once all is handled:
\* a subscriber that only counts link_up, link_down, created and deleted knows
\* the interface, although PORT_DESC replies change it without an event.
EventsTellTheState ==
    Quiet /\ ~aborted => \A p \in Ports :
        /\ event[p] \in {"link_up", "link_down"} =>
              intf[p].known /\ event[p] = LinkStatus(intf[p].state)
        /\ event[p] = "created" => intf[p].known /\ port[p].present
        /\ event[p] = "deleted" => ~intf[p].active /\ ~port[p].present

===============================================================================
