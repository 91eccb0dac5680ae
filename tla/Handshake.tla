------------------------------- MODULE Handshake -------------------------------
(***************************************************************************)
(* One connection of a switch: the raw-in loop of of_core with the         *)
(* OpenFlow handshake (hello, features request and reply), the deferral of *)
(* what arrives before the handshake ends, and the echoes.                 *)
(*                                                                         *)
(* on_raw_in runs as tasks of the event loop, serialised by a lock of the  *)
(* connection up to the end of a batch; multipart replies are handled      *)
(* after the lock is released.  The handling of a message may raise: the   *)
(* task ends with what it still had, and the connection lives on.  The     *)
(* handlers of features replies, of requests sent, and of echo requests    *)
(* run in threads of their own and interleave with the loop at any point.  *)
(*                                                                         *)
(* A packet is a record of an identity and a kind.  Packets arrive whole   *)
(* here; how the byte stream is cut into packets is in OfSlicer.           *)
(***************************************************************************)
EXTENDS Naturals, Sequences, FiniteSets, Functions

CONSTANTS
    MaxPackets,               \* bound on the packets the switch sends, echo replies aside
    MaxRaises,                \* bound on the exceptions that packets are lost with
    DuplicateDpid,            \* the dpid may be the one of another live connection
    SendFeaturesRequestOnEcho \* settings.SEND_FEATURES_REQUEST_ON_ECHO

ASSUME HandshakeAssumption ==
    /\ MaxPackets \in Nat /\ MaxRaises \in Nat
    /\ DuplicateDpid \in BOOLEAN
    /\ SendFeaturesRequestOnEcho \in BOOLEAN

VARIABLES
    connState,    \* Connection.state
    socketOpen,   \* Connection.socket is not None
    protoState,   \* Connection.protocol.state
    switchKnown,  \* Connection.switch is bound
    sent,         \* number of numbered packets the switch has sent
    wire,         \* packets sent and not yet read
    remaining,    \* Connection.remaining_data
    pc,           \* where the task that holds the connection's lock is
    packets,      \* its packets still to be looked at
    unprocessed,  \* its unprocessed_packets
    multipart,    \* its multipart_messages
    assembling,   \* multipart replies of tasks that have released the lock
    tasks,        \* which of them one task has still to handle
    lost,         \* history: packets that went with a task that raised, and by whose fault
    dispatched,   \* packets put in the msg_in buffer, in that order
    deferredOnce, \* identities of the packets that were ever deferred
    msgOut,       \* how many messages of each kind wait in the msg_out buffer
    written,      \* the kinds of message that were written to the socket
    asked,        \* how many requests of each kind the switch has yet to answer
    sentNotices,  \* handle_features_request_sent: threads that did not read the state
    sentChecked,  \* ... and threads that read 'sending_features'
    replies,      \* how many handle_features_reply threads are at each step
    echoes,       \* handle_echo_request threads
    echoesOut,    \* on_queued_openflow_echo_reply tasks
    completed,    \* handshake.completed events put in the app buffer
    helloFailed   \* hello_failed events put in the app buffer

connVars   == <<connState, socketOpen, protoState, switchKnown>>
inVars     == <<sent, wire, remaining>>
loopVars   == <<pc, packets, unprocessed, multipart>>
outVars    == <<msgOut, written, asked>>
threadVars == <<sentNotices, sentChecked, replies, echoes, echoesOut>>
appVars    == <<completed, helloFailed>>
vars == <<connState, socketOpen, protoState, switchKnown, sent, wire, remaining,
          pc, packets, unprocessed, multipart, assembling, tasks, lost, dispatched,
          deferredOnce, msgOut, written, asked, sentNotices, sentChecked, replies, echoes,
          echoesOut, completed, helloFailed>>

-------------------------------------------------------------------------------
ConnStates  == {"NEW", "SETUP", "ESTABLISHED", "FAILED", "FINISHED"}
ProtoStates == {"none", "hello_failed", "sending_features",
                "waiting_features_reply", "handshake_complete"}

\* "bad_hello" is a hello with no version in common, "undecodable" a packet
\* that unpack refuses, "other" any message with no handler in this module.
Kinds == {"hello", "bad_hello", "features_reply", "multipart_reply",
          "echo_request", "echo_reply", "undecodable", "other"}
Packet == [id : Nat, kind : Kinds]

\* A packet that was lost, and the one whose handling raised.
Loss == [packet : Packet, by : Packet]

OutKinds == {"hello", "features_request", "set_config", "echo_reply",
             "echo_request", "multipart_request", "error"}
Asking == {"features_request", "echo_request"}

ReplySteps == {"queued", "bound", "admitted", "completing", "finishing"}
LoopSteps  == {"idle", "check", "route", "hello", "features", "setup",
               "failing", "error", "closing"}

\* Mutant of Prio: the features request overtakes the hello.
PrioFeaturesFirst ==
    [k \in OutKinds |->
        CASE k = "features_request"               -> 0
          [] k = "hello"                          -> 1
          [] k = "set_config"                     -> 10
          [] k \in {"echo_reply", "echo_request"} -> 20
          [] k = "multipart_request"              -> 30
          [] k = "error"                          -> 50]

\* The priority of a message in the output buffer: the lower goes first.
Prio == [k \in OutKinds |->
            CASE k = "hello"                          -> 0
              [] k = "features_request"               -> 1
              [] k = "set_config"                     -> 10
              [] k \in {"echo_reply", "echo_request"} -> 20
              [] k = "multipart_request"              -> 30
              [] k = "error"                          -> 50]

Queue(out, k) == [out EXCEPT ![k] = @ + 1]
Move(from, to) == [replies EXCEPT ![from] = @ - 1, ![to] = @ + 1]
Leave(from)    == [replies EXCEPT ![from] = @ - 1]

\* Connection.is_alive, is_during_setup and close.
Alive == socketOpen /\ connState \notin {"FINISHED", "FAILED"}
DuringSetup == connState = "SETUP"

\* The first read: a features reply is let through while it is waited for,
\* also when the request was queued and not yet seen as sent.
WaitingFeaturesReply(p) ==
    /\ p.kind = "features_reply"
    /\ protoState \in {"waiting_features_reply", "sending_features"}

\* Mutant of Deferred: only once the features request is known to be sent.
DeferredOnlyWaiting(p) ==
    DuringSetup /\ protoState = "waiting_features_reply" /\ p.kind # "features_reply"

Deferred(p) == DuringSetup /\ ~WaitingFeaturesReply(p)

\* What the handlers that listen to a dispatched message add to the threads.
Dispatch(p) ==
    /\ dispatched' = IF p.id = 0 THEN dispatched ELSE Append(dispatched, p)
    /\ replies' = IF p.kind = "features_reply"
                  THEN [replies EXCEPT !["queued"] = @ + 1] ELSE replies
    /\ echoes' = IF p.kind = "echo_request" THEN echoes + 1 ELSE echoes

NotDispatched == UNCHANGED <<dispatched, replies, echoes>>

-------------------------------------------------------------------------------
Init ==
    /\ connState = "NEW" /\ socketOpen = TRUE
    /\ protoState = "none" /\ switchKnown = FALSE
    /\ sent = 0 /\ wire = <<>> /\ remaining = <<>>
    /\ pc = "idle" /\ packets = <<>> /\ unprocessed = <<>> /\ multipart = {}
    /\ assembling = {} /\ tasks = {} /\ lost = {}
    /\ dispatched = <<>> /\ deferredOnce = {}
    /\ msgOut = [k \in OutKinds |-> 0]
    /\ written = {}
    /\ asked = [k \in Asking |-> 0]
    /\ sentNotices = 0 /\ sentChecked = 0
    /\ replies = [s \in ReplySteps |-> 0]
    /\ echoes = 0 /\ echoesOut = 0 /\ completed = 0 /\ helloFailed = 0

-------------------------------------------------------------------------------
(* The switch, and the connection as kytos core drives it (external).      *)

\* The switch sends what it likes, a features reply only when asked for one.
SwitchSends(kind) ==
    /\ socketOpen
    /\ sent < MaxPackets
    /\ kind # "echo_reply"
    /\ kind = "features_reply" => asked["features_request"] > 0
    /\ asked' = IF kind = "features_reply"
                THEN [asked EXCEPT !["features_request"] = @ - 1] ELSE asked
    /\ sent' = sent + 1
    /\ wire' = Append(wire, [id |-> sent + 1, kind |-> kind])
    /\ UNCHANGED <<connVars, remaining, loopVars, assembling, tasks, lost, dispatched,
                   deferredOnce, msgOut, written, threadVars, appVars>>

\* Echo replies carry no identity: nothing listens to them.
SwitchAnswersEcho ==
    /\ socketOpen
    /\ asked["echo_request"] > 0
    /\ asked' = [asked EXCEPT !["echo_request"] = @ - 1]
    /\ wire' = Append(wire, [id |-> 0, kind |-> "echo_reply"])
    /\ UNCHANGED <<connVars, sent, remaining, loopVars, assembling, tasks, lost,
                   dispatched, deferredOnce, msgOut, written, threadVars, appVars>>

\* The writer of msg_out takes the message of highest priority, drops it if
\* the connection is gone, and otherwise tells the listeners that it was sent.
SendOut(k) ==
    /\ msgOut[k] > 0
    /\ \A other \in OutKinds : msgOut[other] > 0 => Prio[k] <= Prio[other]
    /\ msgOut' = [msgOut EXCEPT ![k] = @ - 1]
    /\ written' = IF Alive THEN written \union {k} ELSE written
    /\ asked' = IF Alive /\ k \in Asking THEN [asked EXCEPT ![k] = @ + 1] ELSE asked
    /\ sentNotices' = IF Alive /\ k = "features_request" THEN sentNotices + 1
                      ELSE sentNotices
    /\ echoesOut' = IF Alive /\ k = "echo_reply" THEN echoesOut + 1 ELSE echoesOut
    /\ UNCHANGED <<connVars, inVars, loopVars, assembling, tasks, lost, dispatched,
                   deferredOnce, sentChecked, replies, echoes, appVars>>

\* The peer or the network ends the connection.
Close ==
    /\ Alive
    /\ connState' = "FINISHED"
    /\ socketOpen' = FALSE
    /\ UNCHANGED <<protoState, switchKnown, inVars, loopVars, assembling, tasks, lost,
                   dispatched, deferredOnce, outVars, threadVars, appVars>>

-------------------------------------------------------------------------------
(* on_raw_in: one task at a time holds the lock of the connection.         *)

\* Mutant of StartRawIn: what was deferred is joined during the setup only.
StartRawInSetupOnly(n) ==
    /\ pc = "idle"
    /\ wire # <<>>
    /\ n \in 0 .. Len(wire)
    /\ remaining \o SubSeq(wire, 1, n) # <<>>
    /\ pc' = "check"
    /\ packets' = (IF DuringSetup THEN remaining ELSE <<>>) \o SubSeq(wire, 1, n)
    /\ wire' = SubSeq(wire, n + 1, Len(wire))
    /\ remaining' = IF DuringSetup THEN <<>> ELSE remaining
    /\ UNCHANGED <<connVars, sent, unprocessed, multipart, assembling, tasks, lost,
                   dispatched, deferredOnce, outVars, threadVars, appVars>>

\* A read of n whole packets, or (n = 0) of a part of the next one, is
\* prefixed with what was deferred.  A read that completes no packet changes
\* nothing: on_raw_in returns.
StartRawIn(n) ==
    /\ pc = "idle"
    /\ wire # <<>>
    /\ n \in 0 .. Len(wire)
    /\ remaining \o SubSeq(wire, 1, n) # <<>>
    /\ pc' = "check"
    /\ packets' = remaining \o SubSeq(wire, 1, n)
    /\ wire' = SubSeq(wire, n + 1, Len(wire))
    /\ remaining' = <<>>
    /\ UNCHANGED <<connVars, sent, unprocessed, multipart, assembling, tasks, lost,
                   dispatched, deferredOnce, outVars, threadVars, appVars>>

\* The early returns of on_raw_in: what the task had gathered goes with it.
Abandon ==
    /\ pc' = "idle"
    /\ packets' = <<>>
    /\ unprocessed' = <<>>
    /\ multipart' = {}

ReturnIfDead ==
    /\ pc = "check"
    /\ packets # <<>>
    /\ ~Alive
    /\ Abandon
    /\ UNCHANGED <<connVars, inVars, assembling, tasks, lost, dispatched, deferredOnce,
                   outVars, threadVars, appVars>>

\* Mutant of LookAtPacket: what is no hello is ignored on a new connection.
LookPastNoHello ==
    /\ pc = "check"
    /\ packets # <<>>
    /\ Alive
    /\ IF connState = "NEW" /\ Head(packets).kind \notin {"hello", "bad_hello"}
       THEN pc' = "check" /\ packets' = Tail(packets)
       ELSE /\ pc' = IF connState # "NEW" THEN "route"
                     ELSE IF Head(packets).kind = "hello" THEN "hello" ELSE "failing"
            /\ UNCHANGED packets
    /\ UNCHANGED <<connVars, inVars, unprocessed, multipart, assembling, tasks, lost,
                   dispatched, deferredOnce, outVars, threadVars, appVars>>

\* is_alive, then is_new: to the negotiation, or on with the packet.
LookAtPacket ==
    /\ pc = "check"
    /\ packets # <<>>
    /\ Alive
    /\ pc' = IF connState # "NEW" THEN "route"
             ELSE CASE Head(packets).kind = "hello"     -> "hello"
                    [] Head(packets).kind = "bad_hello" -> "failing"
                    [] OTHER                            -> "closing"
    /\ UNCHANGED <<connVars, inVars, packets, unprocessed, multipart, assembling, tasks,
                   lost, dispatched, deferredOnce, outVars, threadVars, appVars>>

\* unpack raises: the connection is closed and the task returns.
RouteUndecodable ==
    /\ pc = "route"
    /\ Head(packets).kind = "undecodable"
    /\ connState' = "FINISHED"
    /\ socketOpen' = FALSE
    /\ Abandon
    /\ UNCHANGED <<protoState, switchKnown, inVars, assembling, tasks, lost, dispatched,
                   deferredOnce, outVars, threadVars, appVars>>

\* Mutant of NextPacket: the next packet is not looked at from the start.
NextPacketSameStep == pc' = pc /\ packets' = Tail(packets)

\* The rest of the loop's body: defer, gather, or hand over if still alive.
NextPacket == pc' = "check" /\ packets' = Tail(packets)

RouteDeferred ==
    /\ pc = "route"
    /\ Head(packets).kind # "undecodable"
    /\ Deferred(Head(packets))
    /\ unprocessed' = Append(unprocessed, Head(packets))
    /\ deferredOnce' = deferredOnce \union {Head(packets).id}
    /\ NextPacket
    /\ NotDispatched
    /\ UNCHANGED <<connVars, inVars, multipart, assembling, tasks, lost, outVars,
                   sentNotices, sentChecked, echoesOut, appVars>>

\* Mutant of RouteMultipart: other replies are gathered as well.
RouteAnyReply ==
    /\ pc = "route"
    /\ Head(packets).kind \in {"multipart_reply", "other"}
    /\ ~Deferred(Head(packets))
    /\ multipart' = multipart \union {Head(packets)}
    /\ NextPacket
    /\ NotDispatched
    /\ UNCHANGED <<connVars, inVars, unprocessed, assembling, tasks, lost, deferredOnce,
                   outVars, sentNotices, sentChecked, echoesOut, appVars>>

RouteMultipart ==
    /\ pc = "route"
    /\ Head(packets).kind = "multipart_reply"
    /\ ~Deferred(Head(packets))
    /\ multipart' = multipart \union {Head(packets)}
    /\ NextPacket
    /\ NotDispatched
    /\ UNCHANGED <<connVars, inVars, unprocessed, assembling, tasks, lost, deferredOnce,
                   outVars, sentNotices, sentChecked, echoesOut, appVars>>

RouteMessage ==
    /\ pc = "route"
    /\ Head(packets).kind \notin {"undecodable", "multipart_reply"}
    /\ ~Deferred(Head(packets))
    /\ IF Alive THEN Dispatch(Head(packets)) ELSE NotDispatched
    /\ NextPacket
    /\ UNCHANGED <<connVars, inVars, unprocessed, multipart, assembling, tasks, lost,
                   deferredOnce, outVars, sentNotices, sentChecked, echoesOut, appVars>>

\* What is lost with an exception in the handling of p: echo replies carry no
\* identity and are not missed.
Lose(S, p) == lost \union {[packet |-> q, by |-> p] : q \in {r \in S : r.id # 0}}

MayRaise == Cardinality({l.by : l \in lost}) < MaxRaises

\* update_port_status or update_links raises, for a message that was handed
\* over: the task ends with the rest of its batch and all it has put aside.
RouteRaises ==
    /\ pc = "route"
    /\ Head(packets).kind = "other"
    /\ ~Deferred(Head(packets))
    /\ Alive
    /\ MayRaise
    /\ Dispatch(Head(packets))
    /\ lost' = Lose(Range(Tail(packets)) \union Range(unprocessed) \union multipart,
                    Head(packets))
    /\ Abandon
    /\ UNCHANGED <<connVars, inVars, assembling, tasks, deferredOnce, outVars,
                   sentNotices, sentChecked, echoesOut, appVars>>

\* Mutant of EndBatch: it forgets the multipart replies that still wait.
EndBatchOverwrites ==
    /\ pc = "check"
    /\ packets = <<>>
    /\ remaining' = unprocessed \o remaining
    /\ assembling' = multipart
    /\ tasks' = {multipart} \ {{}}
    /\ pc' = "idle"
    /\ unprocessed' = <<>>
    /\ multipart' = {}
    /\ UNCHANGED <<connVars, sent, wire, packets, lost, dispatched, deferredOnce, outVars,
                   threadVars, appVars>>

\* The end of the batch releases the lock; its multipart replies are handled
\* after that, while the next task may already run.
EndBatch ==
    /\ pc = "check"
    /\ packets = <<>>
    /\ remaining' = unprocessed \o remaining
    /\ assembling' = assembling \union multipart
    /\ tasks' = (tasks \union {multipart}) \ {{}}
    /\ pc' = "idle"
    /\ unprocessed' = <<>>
    /\ multipart' = {}
    /\ UNCHANGED <<connVars, sent, wire, packets, lost, dispatched, deferredOnce, outVars,
                   threadVars, appVars>>

\* Replies of one task are grouped by xid and those of several tasks may
\* interleave: any order is taken here.
ProcessMultipart(p) ==
    /\ p \in assembling
    /\ assembling' = assembling \ {p}
    /\ tasks' = {t \ {p} : t \in tasks} \ {{}}
    /\ IF Alive THEN Dispatch(p) ELSE NotDispatched
    /\ UNCHANGED <<connVars, inVars, loopVars, lost, deferredOnce, outVars, sentNotices,
                   sentChecked, echoesOut, appVars>>

\* _handle_multipart_reply raises before the reply is handed over: the task
\* ends, and neither this reply nor those behind it ever are.
ProcessRaises(p) ==
    /\ MayRaise
    /\ \E t \in tasks :
          /\ p \in t
          /\ assembling' = assembling \ t
          /\ tasks' = tasks \ {t}
          /\ lost' = Lose(t, p)
    /\ NotDispatched
    /\ UNCHANGED <<connVars, inVars, loopVars, deferredOnce, outVars, sentNotices,
                   sentChecked, echoesOut, appVars>>

-------------------------------------------------------------------------------
(* process_new_connection and _negotiate, a step up to each await.         *)

SayHello ==
    /\ pc = "hello"
    /\ msgOut' = Queue(msgOut, "hello")
    /\ pc' = "features"
    /\ UNCHANGED <<connVars, inVars, packets, unprocessed, multipart, assembling, tasks,
                   lost, dispatched, deferredOnce, written, asked, threadVars, appVars>>

SendFeaturesRequest ==
    /\ pc = "features"
    /\ protoState' = "sending_features"
    /\ msgOut' = IF Alive THEN Queue(msgOut, "features_request") ELSE msgOut
    /\ pc' = "setup"
    /\ UNCHANGED <<connState, socketOpen, switchKnown, inVars, packets, unprocessed,
                   multipart, assembling, tasks, lost, dispatched, deferredOnce, written,
                   asked, threadVars, appVars>>

\* Unconditional, also when the connection was closed during the negotiation.
SetSetup ==
    /\ pc = "setup"
    /\ connState' = "SETUP"
    /\ NextPacket
    /\ UNCHANGED <<socketOpen, protoState, switchKnown, inVars, unprocessed, multipart,
                   assembling, tasks, lost, dispatched, deferredOnce, outVars,
                   threadVars, appVars>>

FailNegotiation ==
    /\ pc = "failing"
    /\ protoState' = "hello_failed"
    /\ helloFailed' = helloFailed + 1
    /\ pc' = "error"
    /\ UNCHANGED <<connState, socketOpen, switchKnown, inVars, packets, unprocessed,
                   multipart, assembling, tasks, lost, dispatched, deferredOnce, outVars,
                   threadVars, completed>>

QueueError ==
    /\ pc = "error"
    /\ msgOut' = IF Alive THEN Queue(msgOut, "error") ELSE msgOut
    /\ pc' = "closing"
    /\ UNCHANGED <<connVars, inVars, packets, unprocessed, multipart, assembling, tasks,
                   lost, dispatched, deferredOnce, written, asked, threadVars, appVars>>

CloseFailed ==
    /\ pc = "closing"
    /\ protoState' = "hello_failed"
    /\ connState' = "FAILED"
    /\ socketOpen' = FALSE
    /\ Abandon
    /\ UNCHANGED <<switchKnown, inVars, assembling, tasks, lost, dispatched,
                   deferredOnce, outVars, threadVars, appVars>>

-------------------------------------------------------------------------------
(* handle_features_request_sent: the state is read, then written.          *)

ReadSentState ==
    /\ sentNotices > 0
    /\ sentNotices' = sentNotices - 1
    /\ sentChecked' = IF protoState = "sending_features" THEN sentChecked + 1
                      ELSE sentChecked
    /\ UNCHANGED <<connVars, inVars, loopVars, assembling, tasks, lost, dispatched,
                   deferredOnce, outVars, replies, echoes, echoesOut, appVars>>

WriteSentState ==
    /\ sentChecked > 0
    /\ sentChecked' = sentChecked - 1
    /\ protoState' = "waiting_features_reply"
    /\ UNCHANGED <<connState, socketOpen, switchKnown, inVars, loopVars, assembling,
                   tasks, lost, dispatched, deferredOnce, outVars, sentNotices, replies,
                   echoes, echoesOut, appVars>>

-------------------------------------------------------------------------------
(* handle_features_reply, in a thread.                                     *)

\* get_switch_or_create refuses the dpid of another live connection: the
\* handler logs it and returns, and leaves the connection as it is.
ReplyDuplicated ==
    /\ DuplicateDpid
    /\ replies["queued"] > 0
    /\ replies' = Leave("queued")
    /\ UNCHANGED <<connVars, inVars, loopVars, assembling, tasks, lost, dispatched,
                   deferredOnce, outVars, sentNotices, sentChecked, echoes, echoesOut,
                   appVars>>

\* The switch is bound to the connection and asked for its ports.
ReplyBinds ==
    /\ replies["queued"] > 0
    /\ switchKnown' = TRUE
    /\ msgOut' = Queue(msgOut, "multipart_request")
    /\ replies' = Move("queued", "bound")
    /\ UNCHANGED <<connState, socketOpen, protoState, inVars, loopVars, assembling,
                   tasks, lost, dispatched, deferredOnce, written, asked, sentNotices,
                   sentChecked, echoes, echoesOut, appVars>>

\* Mutant of ReplyChecked: every features reply ends the handshake.
ReplyUnchecked ==
    /\ replies["bound"] > 0
    /\ replies' = Move("bound", "admitted")
    /\ UNCHANGED <<connVars, inVars, loopVars, assembling, tasks, lost, dispatched,
                   deferredOnce, outVars, sentNotices, sentChecked, echoes, echoesOut,
                   appVars>>

ReplyChecked ==
    /\ replies["bound"] > 0
    /\ replies' = IF DuringSetup /\ protoState = "waiting_features_reply"
                  THEN Move("bound", "admitted") ELSE Leave("bound")
    /\ UNCHANGED <<connVars, inVars, loopVars, assembling, tasks, lost, dispatched,
                   deferredOnce, outVars, sentNotices, sentChecked, echoes, echoesOut,
                   appVars>>

ReplyConcludes ==
    /\ replies["admitted"] > 0
    /\ protoState' = "handshake_complete"
    /\ replies' = Move("admitted", "completing")
    /\ UNCHANGED <<connState, socketOpen, switchKnown, inVars, loopVars, assembling,
                   tasks, lost, dispatched, deferredOnce, outVars, sentNotices,
                   sentChecked, echoes, echoesOut, appVars>>

\* Unconditional, also when the connection was closed meanwhile.
ReplyEstablishes ==
    /\ replies["completing"] > 0
    /\ connState' = "ESTABLISHED"
    /\ replies' = Move("completing", "finishing")
    /\ UNCHANGED <<socketOpen, protoState, switchKnown, inVars, loopVars, assembling,
                   tasks, lost, dispatched, deferredOnce, outVars, sentNotices,
                   sentChecked, echoes, echoesOut, appVars>>

\* send_desc_request, send_set_config and the event handshake.completed.
ReplyAnnounces ==
    /\ replies["finishing"] > 0
    /\ msgOut' = Queue(Queue(msgOut, "multipart_request"), "set_config")
    /\ completed' = completed + 1
    /\ replies' = Leave("finishing")
    /\ UNCHANGED <<connVars, inVars, loopVars, assembling, tasks, lost, dispatched,
                   deferredOnce, written, asked, sentNotices, sentChecked, echoes,
                   echoesOut, helloFailed>>

-------------------------------------------------------------------------------
(* Echoes.                                                                 *)

AnswerEcho ==
    /\ echoes > 0
    /\ echoes' = echoes - 1
    /\ msgOut' = IF Alive THEN Queue(msgOut, "echo_reply") ELSE msgOut
    /\ UNCHANGED <<connVars, inVars, loopVars, assembling, tasks, lost, dispatched,
                   deferredOnce, written, asked, sentNotices, sentChecked, replies,
                   echoesOut, appVars>>

EchoReplySent ==
    /\ echoesOut > 0
    /\ echoesOut' = echoesOut - 1
    /\ msgOut' = IF SendFeaturesRequestOnEcho /\ Alive
                 THEN Queue(msgOut, "features_request") ELSE msgOut
    /\ UNCHANGED <<connVars, inVars, loopVars, assembling, tasks, lost, dispatched,
                   deferredOnce, written, asked, sentNotices, sentChecked, replies,
                   echoes, appVars>>

\* execute, every STATS_INTERVAL: an echo request to every connected switch.
\* Bound: the last one has been answered and read (the interval is a minute).
KeepAlive ==
    /\ switchKnown
    /\ Alive
    /\ connState = "ESTABLISHED"
    /\ msgOut["echo_request"] = 0
    /\ asked["echo_request"] = 0
    /\ \A i \in DOMAIN wire : wire[i].kind # "echo_reply"
    /\ msgOut' = Queue(msgOut, "echo_request")
    /\ UNCHANGED <<connVars, inVars, loopVars, assembling, tasks, lost, dispatched,
                   deferredOnce, written, asked, threadVars, appVars>>

-------------------------------------------------------------------------------
Switch == (\E k \in Kinds : SwitchSends(k)) \/ SwitchAnswersEcho

Negotiation == SayHello \/ SendFeaturesRequest \/ SetSetup
               \/ FailNegotiation \/ QueueError \/ CloseFailed

RawInLoop == \/ ReturnIfDead \/ LookAtPacket \/ RouteUndecodable \/ RouteDeferred
             \/ RouteMultipart \/ RouteMessage \/ RouteRaises \/ EndBatch
             \/ Negotiation

FeaturesReply == \/ ReplyDuplicated \/ ReplyBinds \/ ReplyChecked \/ ReplyConcludes
                 \/ ReplyEstablishes \/ ReplyAnnounces

RequestSent == ReadSentState \/ WriteSentState

HandleMultipart == \E p \in assembling : ProcessMultipart(p) \/ ProcessRaises(p)

Read == \E n \in 0 .. Len(wire) : StartRawIn(n)

Next == \/ Switch
        \/ Close
        \/ \E k \in OutKinds : SendOut(k)
        \/ Read
        \/ RawInLoop
        \/ HandleMultipart
        \/ RequestSent
        \/ FeaturesReply
        \/ AnswerEcho \/ EchoReplySent \/ KeepAlive

\* The event loop and the threads run what is ready; a packet has finitely
\* many bytes, so that not every read ends inside of it (the strong fairness);
\* and a connected switch answers the echoes that execute sends.
\* Nothing forces the switch to send anything else, nor the peer to close.
Fairness == /\ WF_vars(\E k \in OutKinds : SendOut(k))
            /\ SF_vars(\E n \in 1 .. Len(wire) : StartRawIn(n))
            /\ WF_vars(RawInLoop)
            /\ WF_vars(HandleMultipart)
            /\ WF_vars(RequestSent)
            /\ WF_vars(FeaturesReply)
            /\ WF_vars(AnswerEcho)
            /\ WF_vars(EchoReplySent)
            /\ WF_vars(KeepAlive)
            /\ WF_vars(SwitchAnswersEcho)

Spec == Init /\ [][Next]_vars
FairSpec == Spec /\ Fairness

-------------------------------------------------------------------------------
(* Properties.                                                             *)

\* Every variable has its type.
TypeOK ==
    /\ connState \in ConnStates /\ socketOpen \in BOOLEAN
    /\ protoState \in ProtoStates /\ switchKnown \in BOOLEAN
    /\ sent \in Nat /\ wire \in Seq(Packet) /\ remaining \in Seq(Packet)
    /\ pc \in LoopSteps /\ packets \in Seq(Packet) /\ unprocessed \in Seq(Packet)
    /\ pc \notin {"idle", "check"} => packets # <<>>
    /\ multipart \subseteq Packet /\ assembling \subseteq Packet
    /\ tasks \subseteq SUBSET Packet /\ lost \subseteq Loss
    /\ dispatched \in Seq(Packet) /\ deferredOnce \subseteq Nat
    /\ msgOut \in [OutKinds -> Nat] /\ written \subseteq OutKinds
    /\ asked \in [Asking -> Nat]
    /\ sentNotices \in Nat /\ sentChecked \in Nat
    /\ replies \in [ReplySteps -> Nat]
    /\ echoes \in Nat /\ echoesOut \in Nat
    /\ completed \in Nat /\ helloFailed \in Nat

\* The other NApps see no message of a switch, features replies aside, before
\* the handshake of its connection is complete, whatever the switch sends
\* early and whichever thread runs first (the deferral in on_raw_in).
NoDispatchBeforeHandshake ==
    (\E i \in DOMAIN dispatched : dispatched[i].kind # "features_reply")
        => protoState = "handshake_complete"

\* While the connection lives every packet the switch sent is at exactly one
\* place: on its way, deferred, in a batch, put aside, handed over, or lost with
\* a task that raised; deferral and the assembly of multipart replies neither
\* lose nor repeat a message.  (The hello that opens the connection is used up
\* by the negotiation.)
Places(id) ==
    LET Within(s) == Cardinality({i \in DOMAIN s : s[i].id = id})
        InSet(S)  == Cardinality({p \in S : p.id = id})
    IN  Within(wire) + Within(remaining) + Within(packets) + Within(unprocessed)
        + InSet(multipart) + InSet(assembling) + Within(dispatched)
        + Cardinality({l \in lost : l.packet.id = id})

\* A message whose handling raised was handed over, and takes with it what was
\* deferred, what was put aside, and what comes behind it; a multipart reply was
\* not, and takes other multipart replies.
LostBehind(l) ==
    IF l.by.kind = "multipart_reply"
    THEN /\ l.packet.kind = "multipart_reply"
         /\ \A i \in DOMAIN dispatched : dispatched[i].id # l.by.id
    ELSE /\ \E i \in DOMAIN dispatched : dispatched[i] = l.by
         /\ \/ l.packet.kind = "multipart_reply"
            \/ l.packet.id \in deferredOnce
            \/ l.packet.id > l.by.id

NothingLost ==
    /\ Alive => \A id \in 1 .. sent :
                   Places(id) = IF id = 1 /\ connState # "NEW" THEN 0 ELSE 1
    /\ \A l \in lost : LostBehind(l)

\* The switch is greeted before it is asked for its features: the hello is
\* written first although both wait in a priority queue.
HelloFirst == "features_request" \in written => "hello" \in written

\* Messages are handed over in the order in which they came, multipart
\* replies aside, unless the later-delivered one was deferred by a handshake
\* that ended in the middle of its batch.
OnlyDeferredReordered ==
    \A i, j \in DOMAIN dispatched :
        (/\ i < j
         /\ dispatched[i].kind # "multipart_reply"
         /\ dispatched[j].kind # "multipart_reply"
         /\ dispatched[i].id > dispatched[j].id)
            => dispatched[j].id \in deferredOnce

\* What was deferred during the handshake is handed over once the connection
\* is established, or the connection ends, or a task that had it raised: it
\* waits for the next bytes, which the answers to the echoes of execute provide.
DeferredDispatched ==
    \A id \in 1 .. MaxPackets :
        (/\ Alive /\ connState = "ESTABLISHED"
         /\ \E i \in DOMAIN remaining : remaining[i].id = id)
            ~> (\/ ~Alive
                \/ \E i \in DOMAIN dispatched : dispatched[i].id = id
                \/ \E l \in lost : l.packet.id = id)

\* A connection that got its first packet leaves the NEW state: the hello is
\* answered or the connection closed, never left waiting.
FirstPacketAnswered ==
    (sent > 0 /\ connState = "NEW") ~> (connState # "NEW")

\* The handshake and the loop together are the session of ConnectionPhases.
Phases == INSTANCE ConnectionPhases WITH
    phase <- IF ~Alive THEN "closed"
             ELSE CASE connState = "NEW" -> "new"
                    [] connState = "SETUP" -> "setup"
                    [] OTHER -> "established",
    handshaken <- protoState = "handshake_complete",
    delivered <- dispatched,
    announced <- completed

\* Every step of a connection is a step of the session or a stutter: phases in
\* order, nothing but features replies handed over early, no packet twice, one
\* announcement of the handshake, after its end.
ImplementsPhases == Phases!Spec

-------------------------------------------------------------------------------
(* What the documents say and the code does not do.                        *)

\* A features reply that is handed over during the handshake ends it, also
\* when it comes in the state 'sending_features' (CHANGELOG.rst: "Adding
\* sending_features as a valid state for waiting features during OF Handshake
\* phase").  handle_features_reply only ends it in 'waiting_features_reply'.
ReplyEndsHandshake ==
    (Alive /\ connState = "SETUP" /\ replies["queued"] > 0)
        ~> (~Alive \/ connState = "ESTABLISHED")

-------------------------------------------------------------------------------
(* The inductive invariant of NoDispatchBeforeHandshake: who may still      *)
(* write protocol.state, and what has only begun after the handshake.       *)

Negotiating == pc \in {"hello", "features", "setup", "failing", "error", "closing"}
Complete    == protoState = "handshake_complete"

\* Requests queued, sent but not seen as such, or seen and not yet recorded.
InFlight == msgOut["features_request"] + sentNotices + sentChecked

DeadIsClosed == connState \in {"FINISHED", "FAILED"} => ~socketOpen

EstablishedIsComplete == connState = "ESTABLISHED" => Complete

RoutedIsNegotiated == pc = "route" => connState # "NEW"

MultipartIsLate == multipart \union assembling # {} => Complete \/ ~socketOpen

NegotiationIsEarly ==
    /\ Negotiating => /\ connState \in {"NEW", "FINISHED"}
                      /\ replies["admitted"] = 0
                      /\ replies["completing"] = 0
    /\ pc \in {"hello", "features", "failing"} => protoState = "none"
    /\ pc \in {"error", "closing"} => protoState \in {"none", "hello_failed"}
    /\ pc = "setup" => protoState \in {"sending_features", "waiting_features_reply"}

NewIsUntouched ==
    connState = "NEW" => /\ replies["admitted"] = 0
                         /\ replies["completing"] = 0
                         /\ pc \in {"idle", "check"} => protoState = "none"

OneRequestInFlight ==
    /\ protoState \in {"none", "hello_failed", "waiting_features_reply"} => InFlight = 0
    /\ protoState = "sending_features" => InFlight <= 1
    /\ Complete => sentChecked = 0

EchoesAreLate == (echoes > 0 \/ echoesOut > 0 \/ msgOut["echo_reply"] > 0) => Complete

RepliesInOrder ==
    /\ replies["admitted"] > 0 => protoState \in {"waiting_features_reply",
                                                  "handshake_complete"}
    /\ replies["completing"] > 0 \/ replies["finishing"] > 0 => Complete

\* The features reply that ends the handshake meets no other writer of the
\* protocol state: the conjuncts above hold in every state of the connection.
HandshakeInv ==
    /\ DeadIsClosed
    /\ EstablishedIsComplete
    /\ RoutedIsNegotiated
    /\ MultipartIsLate
    /\ NegotiationIsEarly
    /\ NewIsUntouched
    /\ OneRequestInFlight
    /\ EchoesAreLate
    /\ RepliesInOrder
===============================================================================
