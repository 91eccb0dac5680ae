---------------------------- MODULE PortInvariants ----------------------------
(***************************************************************************)
(* In what order PortUpdates looks at the messages of a switch, and by     *)
(* which numbers, when its handlers run one after the other and a PORT_DESC*)
(* reply is one message: the inductive invariants from which the proofs    *)
(* derive that no interface goes back to an older description of its port  *)
(* (PortUpdatesProofs).                                                    *)
(***************************************************************************)
EXTENDS PortUpdates, Functions

\* The handlers as most of the properties suppose them.
Sequential == ~ThreadsInterleave

-------------------------------------------------------------------------------
(* The sequence numbers.                                                   *)

\* No number was given since they were popped, and no description waits.
NothingCounted ==
    /\ msgSeqCnt = 0 /\ \A x \in Xids : xidSeqNum[x] = 0
    /\ \A p \in Ports : seenNum[p] = 0
    /\ multipart = {} /\ assembled = {}

\* A task that read no switch runs, or waits to: its messages are not counted.
Uncounted == \/ pc # "idle" /\ ~counted
             \/ \E i \in DOMAIN rawIn : ~rawIn[i].known

\* Where the handlers are when they run one after the other.
HandlersInTurn ==
    /\ pc = "idle" => ~counted /\ batch = <<>> /\ unprocessed = <<>> /\ multipart = {}
    /\ pc # "idle" => remaining = <<>> /\ thread \notin {"seen", "xids"}
    /\ pc = "update" => established
    /\ pc # "idle" /\ established => unprocessed = <<>>
    /\ thread \in {"seen", "xids"} => assembled = {}
    /\ link = "new" => thread = "idle" /\ ~established /\ ~counted
    /\ ~Alive => wire = <<>> /\ rawIn = <<>> /\ remaining = <<>>
    /\ ~Known => \A x \in Requests : unanswered[x] = {}

\* Tasks that read the switch come after those that did not, and the numbers
\* that they give start where the features reply popped them.
CountedInTurn ==
    /\ \A i, j \in DOMAIN rawIn : i < j /\ rawIn[i].known => rawIn[j].known
    /\ counted => \A i \in DOMAIN rawIn : rawIn[i].known
    /\ link = "new" => \A i \in DOMAIN rawIn : ~rawIn[i].known
    /\ Uncounted /\ (established \/ thread = "popped") => NothingCounted

\* Replies are read by tasks that read the switch.
HasReply(s) == \E i \in DOMAIN s : s[i].xid # 0
RepliesAreCounted ==
    /\ HasReply(unprocessed) \/ HasReply(remaining) \/ HasReply(batch) => ~Uncounted
    /\ \A i \in DOMAIN rawIn : HasReply(rawIn[i].msgs) => rawIn[i].known
    /\ link = "new" => ~(HasReply(unprocessed) \/ HasReply(remaining) \/ HasReply(batch)
                         \/ HasReply(wire))

\* Nothing has a number that was not given yet, and the message that is handled
\* has the last one.
NumbersGiven ==
    /\ \A x \in Xids : xidSeqNum[x] <= msgSeqCnt
    /\ \A p \in Ports : seenNum[p] <= msgSeqCnt
    /\ thread \in {"seen", "xids"} => \A p \in Ports : seenNum[p] = 0
    /\ thread = "xids" => \A x \in Xids : xidSeqNum[x] = 0
    /\ pc = "update" /\ counted =>
          /\ xidSeqNum[0] = msgSeqCnt
          /\ \A x \in Requests : xidSeqNum[x] < msgSeqCnt

\* The inductive invariant of the numbers.
NumbersInv == HandlersInTurn /\ CountedInTurn /\ RepliesAreCounted /\ NumbersGiven

-------------------------------------------------------------------------------
(* The order of the messages.                                              *)

\* The versions of p that a message tells.
VersionsIn(m, p) == IF m.xid = 0 THEN IF m.port = p THEN {m.ver} ELSE {}
                    ELSE {e.ver : e \in {d \in m.entries : d.port = p}}

\* m was sent before n: a PORT_STATUS tells a version that nobody knew.
Before(m, n) ==
    /\ \A p \in Ports : \A v \in VersionsIn(m, p), w \in VersionsIn(n, p) :
          v <= w /\ (n.xid = 0 => v < w)
    /\ m.xid # 0 /\ n.xid # 0 => m.xid < n.xid

InOrder(s) == \A i, j \in DOMAIN s : i < j => Before(s[i], s[j])
AllBefore(ms, ns) == \A m \in ms, n \in ns : Before(m, n)

\* What the running task and the next one look at first, and what they find
\* in the raw event i.
Held == Range(unprocessed) \union Range(remaining) \union Range(batch)
Arrived(i) == Range(rawIn[i].msgs)

\* All messages that are not handled yet.
Line == Held \union Range(wire) \union UNION {Arrived(i) : i \in DOMAIN rawIn}

\* Messages are looked at in the order in which they were sent.
LineInOrder ==
    /\ InOrder(unprocessed) /\ InOrder(remaining) /\ InOrder(batch) /\ InOrder(wire)
    /\ AllBefore(Range(unprocessed), Range(batch)) /\ AllBefore(Held, Range(wire))
    /\ \A i \in DOMAIN rawIn : /\ InOrder(rawIn[i].msgs)
                               /\ AllBefore(Held, Arrived(i))
                               /\ AllBefore(Arrived(i), Range(wire))
    /\ \A i, j \in DOMAIN rawIn : i < j => AllBefore(Arrived(i), Arrived(j))

\* The descriptions that wait for their handler.
Waiting == multipart \union assembled

\* The answer to x was sent, and those to all earlier requests.
Answered(x) == x <= requests /\ \A y \in 1 .. x : unanswered[y] = {}

\* A message tells no version older than that of the interface.
LineIsNews ==
    \A m \in Line : \A p \in Ports : \A v \in VersionsIn(m, p) :
        intf[p].ver <= v /\ v <= port[p].ver /\ (m.xid = 0 => intf[p].ver < v)

\* A reply answers its request, and describes every port once.
RepliesAnswer ==
    \A m \in Line : m.xid # 0 =>
        /\ Answered(m.xid)
        /\ \A e \in m.entries : e.xid = m.xid
        /\ \A e, f \in m.entries : e.port = f.port => e = f

\* A description that waits is late, or newer than its interface.
WaitingOrLate ==
    \A e \in Waiting : /\ Late(e.port, e.xid) \/ intf[e.port].ver <= e.ver
                       /\ e.ver <= port[e.port].ver
                       /\ Answered(e.xid)

\* What is not handled yet was sent after the descriptions that wait.
WaitingFirst ==
    \A e \in Waiting, m \in Line :
        /\ \A v \in VersionsIn(m, e.port) : e.ver <= v /\ (m.xid = 0 => e.ver < v)
        /\ m.xid # 0 => e.xid < m.xid

\* Of two descriptions that wait the newer has the higher number.
WaitingInOrder ==
    \A e, f \in Waiting : e.port = f.port =>
        /\ e.xid = f.xid => e = f
        /\ e.xid < f.xid => e.ver <= f.ver /\ xidSeqNum[e.xid] < xidSeqNum[f.xid]

\* No interface is ahead of its port, and what is unanswered was asked for.
NoneAhead ==
    /\ \A p \in Ports : intf[p].ver <= port[p].ver
    /\ \A x \in Requests : unanswered[x] # {} => x <= requests

\* The inductive invariant of the messages and descriptions.
MessagesInv == /\ LineInOrder /\ LineIsNews /\ RepliesAnswer
               /\ WaitingOrLate /\ WaitingFirst /\ WaitingInOrder /\ NoneAhead

-------------------------------------------------------------------------------
(* What is still to come of a port, and what was announced of it.          *)

\* What the line and the waiting descriptions tell of p.
Statuses(p)   == {m \in Line : m.xid = 0 /\ m.port = p}
Described(p)  == {e \in UNION {m.entries : m \in {n \in Line : n.xid # 0}} : e.port = p}
WaitingFor(p) == {e \in Waiting : e.port = p}

Latest(p) == port[p].ver

\* What tells the latest version of p tells how p is.
StatusIsTrue(p) ==
    \A m \in Statuses(p) : m.ver = Latest(p) =>
        /\ m.state = port[p].state
        /\ m.reason = "OFPPR_DELETE" <=> ~port[p].present

DescriptionIsTrue(p) ==
    \A e \in Described(p) \union WaitingFor(p) : e.ver = Latest(p) =>
        port[p].present /\ e.state = port[p].state

InterfaceIsTrue(p) ==
    intf[p].ver = Latest(p) =>
        /\ port[p].present /\ intf[p].known
        /\ intf[p].state = port[p].state /\ intf[p].active = Activated(p, port[p].state)

\* Nothing tells that p was removed, and nothing did on this connection.
SilentIsSilent(p) ==
    /\ ~Alive /\ ~port[p].present => port[p].silent
    /\ Alive /\ port[p].silent => Statuses(p) = {} /\ event[p] = "none"

\* The removal of p was handled, and nothing undoes it.
Gone(p) ==
    /\ intf[p].known /\ ~intf[p].active
    /\ Statuses(p) = {} /\ Described(p) = {}
    /\ \A e \in WaitingFor(p) : Late(p, e.xid)

\* The latest version of p was applied, or will be: a message tells it, a
\* description that is not late waits, or the switch has still to describe p.
NewestComes(p) ==
    /\ port[p].present /\ Known =>
          \/ intf[p].ver = Latest(p)
          \/ \E x \in Requests : p \in unanswered[x]
          \/ \E e \in WaitingFor(p) : e.ver = Latest(p) /\ ~Late(p, e.xid)
          \/ \E d \in Statuses(p) \union Described(p) : d.ver = Latest(p)
    /\ ~port[p].present /\ ~port[p].silent => Statuses(p) # {} \/ Gone(p)

\* The announcements of p end with its latest version, and a removal is followed
\* by nothing or by the return of p.
AnnouncedInTurn(p) ==
    \A m \in Statuses(p) :
        /\ \E n \in Statuses(p) : n.ver = Latest(p)
        /\ m.reason = "OFPPR_DELETE" /\ m.ver # Latest(p) =>
              \E n \in Statuses(p) : n.reason = "OFPPR_ADD" /\ n.ver = m.ver + 1

\* What was announced of p is true, or more is still to be announced.
EventIsTrue(p) ==
    /\ event[p] # "none" => intf[p].known
    /\ event[p] \in {"link_up", "link_down"} => event[p] = LinkStatus(intf[p].state)
    /\ event[p] \in {"created", "link_up", "link_down"} => port[p].present \/ Statuses(p) # {}
    /\ event[p] = "deleted" =>
          \/ ~port[p].present /\ Statuses(p) = {}
          \/ \E n \in Statuses(p) : /\ n.reason = "OFPPR_ADD"
                                    /\ \A m \in Statuses(p) : n.ver <= m.ver

\* Once p is announced, descriptions tell nothing of it that was not announced or
\* will not be before they are handled.
Tell(i, e) == e.ver = i.ver /\ e.state = i.state
DescribedIsAnnounced(p) ==
    /\ event[p] # "none" /\ port[p].present => intf[p].ver = Latest(p) \/ Statuses(p) # {}
    /\ \A e \in Described(p) :
          event[p] # "none" \/ (\E m \in Statuses(p) : m.ver <= e.ver) =>
             \/ Tell(intf[p], e)
             \/ \E m \in Statuses(p) : Tell(m, e) /\ m.reason # "OFPPR_DELETE"
    /\ event[p] # "none" => \A e \in WaitingFor(p) : Late(p, e.xid) \/ Tell(intf[p], e)

\* The inductive invariant of what the interfaces and the events tell: a task that
\* ends with an exception loses what it had.
PortNews(p) ==
    /\ StatusIsTrue(p) /\ DescriptionIsTrue(p) /\ InterfaceIsTrue(p) /\ SilentIsSilent(p)
    /\ ~aborted => NewestComes(p)
    /\ ~aborted /\ Alive => AnnouncedInTurn(p) /\ EventIsTrue(p) /\ DescribedIsAnnounced(p)

NewsInv == \A p \in Ports : PortNews(p)

\* The inductive invariant of the interfaces.
PortInv == NumbersInv /\ MessagesInv /\ NewsInv
===============================================================================
