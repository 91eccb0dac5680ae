---------------------------- MODULE PortNewsProofs ----------------------------
(***************************************************************************)
(* Proofs that the interfaces of PortUpdates end as the ports of the switch*)
(* are, and that the last event about an interface is true of it, when     *)
(* handlers run one after the other and a reply to a request for the ports *)
(* is one message: no update is lost but with the connection, or with a    *)
(* task that ends with an exception.                                       *)
(***************************************************************************)
EXTENDS PortUpdatesProofs

-------------------------------------------------------------------------------
(* What the line and the waiting descriptions tell of a port.              *)

LEMMA NewsTypes ==
  ASSUME TypeOK, NEW p \in Ports
  PROVE  /\ \A m \in Statuses(p) : /\ m \in Line /\ m \in Message /\ m.xid = 0 /\ m.port = p
                                   /\ m.ver \in Nat /\ m.state \in States /\ m.reason \in Reasons
                                   /\ m.ver \in VersionsIn(m, p)
         /\ \A e \in Described(p) : /\ e \in Description /\ e.port = p /\ e.ver \in Nat
                                    /\ \E m \in Line : /\ m.xid # 0 /\ e \in m.entries
                                                       /\ e.ver \in VersionsIn(m, p)
         /\ \A e \in WaitingFor(p) : /\ e \in Waiting /\ e \in Description /\ e.port = p
                                     /\ e.ver \in Nat /\ e.xid \in Requests
         /\ Latest(p) \in Nat /\ intf[p].ver \in Nat
<1>1. ASSUME NEW m \in Statuses(p)
      PROVE  /\ m \in Line /\ m \in Message /\ m.xid = 0 /\ m.port = p
             /\ m.ver \in Nat /\ m.state \in States /\ m.reason \in Reasons
             /\ m.ver \in VersionsIn(m, p)
  <2>1. m \in Line /\ m \in Message /\ m.xid = 0 /\ m.port = p
    BY LineTypes DEF Statuses
  <2>. QED  BY <2>1, MessageIs DEF VersionsIn
<1>2. ASSUME NEW e \in Described(p)
      PROVE  /\ e \in Description /\ e.port = p /\ e.ver \in Nat
             /\ \E m \in Line : m.xid # 0 /\ e \in m.entries /\ e.ver \in VersionsIn(m, p)
  <2>1. PICK m \in Line : m.xid # 0 /\ e \in m.entries
    BY DEF Described
  <2>2. e.port = p
    BY DEF Described
  <2>3. e \in Description
    BY <2>1, LineTypes, MessageIs
  <2>. QED  BY <2>1, <2>2, <2>3, GatheredVersions DEF Description
<1>3. \A e \in WaitingFor(p) : /\ e \in Waiting /\ e \in Description /\ e.port = p
                               /\ e.ver \in Nat /\ e.xid \in Requests
  BY WaitingTypes DEF WaitingFor
<1>4. Latest(p) \in Nat /\ intf[p].ver \in Nat
  BY DEF TypeOK, Latest
<1>. QED  BY <1>1, <1>2, <1>3, <1>4

\* Nothing tells more than the latest version; a PORT_STATUS is newer than the
\* interface and than the descriptions that wait.
LEMMA NewsOrder ==
  ASSUME TypeOK, MessagesInv, NEW p \in Ports
  PROVE  /\ \A m \in Statuses(p) : intf[p].ver < m.ver /\ m.ver <= Latest(p)
         /\ \A e \in Described(p) : intf[p].ver <= e.ver /\ e.ver <= Latest(p)
         /\ \A e \in WaitingFor(p) :
               /\ e.ver <= Latest(p) /\ (Late(p, e.xid) \/ intf[p].ver <= e.ver)
               /\ \A m \in Statuses(p) : e.ver < m.ver
               /\ \A d \in Described(p) : e.ver <= d.ver
         /\ intf[p].ver <= Latest(p)
<1>1. \A m \in Statuses(p) : intf[p].ver < m.ver /\ m.ver <= Latest(p)
  BY NewsTypes DEF MessagesInv, LineIsNews, Latest
<1>2. \A e \in Described(p) : intf[p].ver <= e.ver /\ e.ver <= Latest(p)
  BY NewsTypes DEF MessagesInv, LineIsNews, Latest
<1>3. ASSUME NEW e \in WaitingFor(p)
      PROVE  /\ e.ver <= Latest(p) /\ (Late(p, e.xid) \/ intf[p].ver <= e.ver)
             /\ \A m \in Statuses(p) : e.ver < m.ver
             /\ \A d \in Described(p) : e.ver <= d.ver
  <2>1. e \in Waiting /\ e.port = p
    BY NewsTypes
  <2>2. e.ver <= Latest(p) /\ (Late(p, e.xid) \/ intf[p].ver <= e.ver)
    BY <2>1 DEF MessagesInv, WaitingOrLate, Latest
  <2>3. \A m \in Line : \A v \in VersionsIn(m, p) : e.ver <= v /\ (m.xid = 0 => e.ver < v)
    BY <2>1 DEF MessagesInv, WaitingFirst
  <2>. QED  BY <2>2, <2>3, NewsTypes
<1>. QED  BY <1>1, <1>2, <1>3 DEF MessagesInv, NoneAhead, Latest

\* The messages of the line are what they tell.
LEMMA SameLine ==
  ASSUME Line' = Line, NEW p
  PROVE  Statuses(p)' = Statuses(p) /\ Described(p)' = Described(p)
BY DEF Statuses, Described

LEMMA LessLine ==
  ASSUME Line' \subseteq Line, NEW p
  PROVE  Statuses(p)' \subseteq Statuses(p) /\ Described(p)' \subseteq Described(p)
BY DEF Statuses, Described

-------------------------------------------------------------------------------
(* Messages that move stay in the line.                                    *)

LEMMA SentLine ==
  ASSUME TypeOK, NEW m, Sends(m)
  PROVE  Line' = Line \union {m}
<1>1. Range(wire') = Range(wire) \union {m}
  BY LineTypes, AppendedLast DEF Sends
<1>2. Held' = Held /\ rawIn' = rawIn
  BY DEF Sends, Held
<1>. QED  BY <1>1, <1>2 DEF Line, Arrived

LEMMA HandledLine ==
  ASSUME TypeOK, HandlersInTurn, LineInOrder, Handles
  PROVE  Line = Line' \union {Head(batch)}
<1>1. /\ Range(batch) = {Head(batch)} \union Range(batch')
      /\ UNCHANGED <<unprocessed, remaining, rawIn, wire>>
  BY LineTypes, HeadFirst DEF Handles
<1>2. Held = Held' \union {Head(batch)}
  BY <1>1 DEF Held
<1>. QED  BY <1>1, <1>2 DEF Line, Arrived

LEMMA MovedLine ==
  ASSUME TypeOK, HandlersInTurn, LineInOrder,
         \/ \E n \in 0 .. Len(wire) : ReadRaw(n)
         \/ StartBatch \/ DeferMessage \/ EmitPortStatus
         \/ EndBatch /\ Alive
  PROVE  Line' = Line
<1>1. ASSUME NEW n \in 0 .. Len(wire), ReadRaw(n) PROVE Line' = Line
  <2> DEFINE a == SubSeq(wire, 1, n)
             b == SubSeq(wire, n + 1, Len(wire))
  <2>0. PICK k : k = Len(rawIn) + 1
    OBVIOUS
  <2>1. Held' = Held /\ wire' = b
    BY <1>1 DEF ReadRaw, Held, taskVars
  <2>2. Range(wire) \subseteq Range(a) \union Range(b)
    <3>1. wire \in Seq(Message) /\ DOMAIN wire = 1 .. Len(wire) /\ Len(wire) \in Nat
      BY LineTypes
    <3>2. DOMAIN a = 1 .. n /\ DOMAIN b = 1 .. Len(wire) - n
      BY <3>1, ReadCut, LenProperties
    <3>3. (\A i \in 1 .. n : a[i] = wire[i]) /\ \A i \in 1 .. Len(wire) - n : b[i] = wire[n + i]
      BY <3>1, ReadCut
    <3>. HIDE DEF a, b
    <3>4. ASSUME NEW i \in 1 .. Len(wire) PROVE wire[i] \in Range(a) \union Range(b)
      <4>1. CASE i \in 1 .. n
        BY <3>2, <3>3, <4>1 DEF Range
      <4>2. CASE i \notin 1 .. n
        <5>1. i - n \in 1 .. Len(wire) - n /\ n + (i - n) = i
          BY <3>1, <3>4, <4>2
        <5>. QED  BY <3>2, <3>3, <5>1 DEF Range
      <4>. QED  BY <4>1, <4>2
    <3>. QED  BY <3>1, <3>4 DEF Range
  <2>3. /\ \A i \in DOMAIN rawIn : i \in DOMAIN rawIn' /\ rawIn'[i] = rawIn[i]
        /\ k \in DOMAIN rawIn' /\ rawIn'[k].msgs = a
    BY <1>1, <2>0, RawInRead
  <2>. HIDE DEF a, b
  <2>4. Range(a) \subseteq Line' /\ Range(b) \subseteq Line' /\ Held \subseteq Line'
    BY <2>1, <2>3 DEF Line, Arrived
  <2>5. \A i \in DOMAIN rawIn : Arrived(i) \subseteq Line'
    BY <2>3 DEF Line, Arrived
  <2>6. Line \subseteq Line'
    BY <2>2, <2>4, <2>5 DEF Line
  <2>. QED  BY <1>1, <2>6, ReadsInOrder
<1>2. CASE StartBatch
  <2>1. batch = <<>> /\ unprocessed = <<>> /\ wire' = wire
    BY <1>2 DEF StartBatch, HandlersInTurn, switchVars
  <2>2. /\ DOMAIN rawIn = 1 .. Len(rawIn) /\ Len(rawIn) \in Nat \ {0}
        /\ DOMAIN rawIn' = 1 .. Len(rawIn) - 1
        /\ \A i \in DOMAIN rawIn' : rawIn'[i] = rawIn[i + 1]
        /\ 1 \in DOMAIN rawIn /\ batch' = remaining \o rawIn[1].msgs
    BY <1>2, RawInTaken
  <2>3. Range(batch') = Range(remaining) \union Arrived(1)
    BY <2>2, LineTypes, JoinedInOrder DEF Arrived
  <2>4. Held \subseteq Held' /\ Arrived(1) \subseteq Held'
    BY <2>1, <2>3, NoMessages DEF Held
  <2>5. ASSUME NEW i \in DOMAIN rawIn PROVE Arrived(i) \subseteq Line'
    <3>1. CASE i = 1
      BY <2>4, <3>1 DEF Line
    <3>2. CASE i # 1
      <4>1. i - 1 \in DOMAIN rawIn' /\ (i - 1) + 1 = i
        BY <2>2, <3>2
      <4>2. Arrived(i - 1)' = Arrived(i)
        BY <2>2, <4>1 DEF Arrived
      <4>3. Arrived(i - 1)' \subseteq Line'
        BY <4>1 DEF Line
      <4>. QED  BY <4>2, <4>3
    <3>. QED  BY <3>1, <3>2
  <2>6. Line \subseteq Line'
    BY <2>1, <2>4, <2>5 DEF Line
  <2>. QED  BY <1>2, <2>6, StartsInOrder
<1>3. CASE DeferMessage
  <2>1. /\ batch # <<>> /\ batch' = Tail(batch) /\ unprocessed' = Append(unprocessed, Head(batch))
        /\ UNCHANGED <<remaining, rawIn, wire>>
    BY <1>3 DEF DeferMessage, switchVars
  <2>2. Range(batch) = {Head(batch)} \union Range(batch') /\ Head(batch) \in Message
    BY <2>1, LineTypes, HeadFirst
  <2>3. Range(unprocessed') = Range(unprocessed) \union {Head(batch)}
    BY <2>1, <2>2, LineTypes, AppendedLast
  <2>4. Held' = Held
    BY <2>1, <2>2, <2>3 DEF Held
  <2>. QED  BY <2>1, <2>4 DEF Line, Arrived
<1>4. CASE EmitPortStatus
  BY <1>4 DEF EmitPortStatus, Line, Held, Arrived, switchVars
<1>5. CASE EndBatch /\ Alive
  <2>1. /\ batch' = batch /\ unprocessed' = <<>> /\ remaining' = unprocessed \o remaining
        /\ UNCHANGED <<rawIn, wire>>
    BY <1>5 DEF EndBatch, switchVars
  <2>2. Range(remaining') = Range(unprocessed) \union Range(remaining)
    BY <2>1, LineTypes, JoinedInOrder
  <2>3. Held' = Held
    BY <2>1, <2>2, NoMessages DEF Held
  <2>. QED  BY <2>1, <2>3 DEF Line, Arrived
<1>. QED  BY <1>1, <1>2, <1>3, <1>4, <1>5

-------------------------------------------------------------------------------
(* Steps that tell a port nothing, and steps that only forget.             *)

LEMMA KeptNews ==
  ASSUME NEW p, PortNews(p),
         Statuses(p)' = Statuses(p), Described(p)' = Described(p), WaitingFor(p)' = WaitingFor(p),
         \A e \in WaitingFor(p) : Late(p, e.xid)' = Late(p, e.xid),
         port'[p] = port[p], intf'[p] = intf[p], event'[p] = event[p],
         aborted' = aborted, Alive' = Alive, Known' => Known,
         \A x \in Requests : p \in unanswered[x] => p \in unanswered'[x]
  PROVE  PortNews(p)'
<1>1. Latest(p)' = Latest(p)
  BY DEF Latest
<1>2. StatusIsTrue(p)' /\ DescriptionIsTrue(p)' /\ InterfaceIsTrue(p)' /\ SilentIsSilent(p)'
  BY <1>1 DEF PortNews, StatusIsTrue, DescriptionIsTrue, InterfaceIsTrue, SilentIsSilent
<1>3. NewestComes(p) => NewestComes(p)'
  BY <1>1 DEF NewestComes, Gone
<1>4. AnnouncedInTurn(p) => AnnouncedInTurn(p)'
  BY <1>1 DEF AnnouncedInTurn
<1>5. EventIsTrue(p) => EventIsTrue(p)'
  BY <1>1 DEF EventIsTrue
<1>6. DescribedIsAnnounced(p) => DescribedIsAnnounced(p)'
  BY <1>1 DEF DescribedIsAnnounced, Tell
<1>. QED  BY <1>2, <1>3, <1>4, <1>5, <1>6 DEF PortNews

\* What a lost connection or an exception takes away.
LEMMA ForgottenNews ==
  ASSUME NEW p, PortNews(p),
         Statuses(p)' \subseteq Statuses(p), Described(p)' \subseteq Described(p),
         WaitingFor(p)' \subseteq WaitingFor(p),
         port'[p] = port[p], intf'[p] = intf[p], event'[p] = event[p], link' = link,
         ~Alive \/ aborted'
  PROVE  PortNews(p)'
<1>1. Latest(p)' = Latest(p) /\ Alive' = Alive /\ Known' = Known /\ (Known => Alive)
  BY DEF Latest, Alive, Known
<1>2. StatusIsTrue(p)' /\ DescriptionIsTrue(p)' /\ InterfaceIsTrue(p)'
  BY <1>1 DEF PortNews, StatusIsTrue, DescriptionIsTrue, InterfaceIsTrue
<1>3. SilentIsSilent(p)'
  BY <1>1 DEF PortNews, SilentIsSilent
<1>4. ~Alive => NewestComes(p)'
  BY <1>1 DEF PortNews, NewestComes, SilentIsSilent
<1>. QED  BY <1>1, <1>2, <1>3, <1>4 DEF PortNews

-------------------------------------------------------------------------------
(* The steps that change no interface and send no message.                 *)

LEMMA LateStays ==
  ASSUME Sequential, TypeOK, NumbersInv, MessagesInv, Next, intf' = intf, seenNum' = seenNum,
         NEW p \in Ports, NEW e \in WaitingFor(p)
  PROVE  Late(p, e.xid)' = Late(p, e.xid)
<1>1. e \in Waiting
  BY DEF WaitingFor
<1>2. xidSeqNum'[e.xid] = xidSeqNum[e.xid]
  BY <1>1, WaitingNumbers DEF MessagesInv
<1>. QED  BY <1>2 DEF Late

\* The line and what waits are the same.
LEMMA QuietNews ==
  ASSUME Sequential, TypeOK, NumbersInv, MessagesInv, NewsInv, Next,
         Line' = Line, Waiting' = Waiting, seenNum' = seenNum \/ Waiting = {},
         UNCHANGED <<port, intf, event, aborted, link, unanswered>>
  PROVE  NewsInv'
<1>1. SUFFICES ASSUME NEW p \in Ports PROVE PortNews(p)'
  BY DEF NewsInv
<1>2. PortNews(p) /\ Statuses(p)' = Statuses(p) /\ Described(p)' = Described(p)
  BY SameLine DEF NewsInv
<1>3. WaitingFor(p)' = WaitingFor(p)
  BY DEF WaitingFor
<1>4. \A e \in WaitingFor(p) : Late(p, e.xid)' = Late(p, e.xid)
  <2>1. CASE Waiting = {}
    BY <2>1 DEF WaitingFor
  <2>2. CASE seenNum' = seenNum
    BY <2>2, LateStays
  <2>. QED  BY <2>1, <2>2
<1>5. Alive' = Alive /\ Known' = Known
  BY DEF Alive, Known
<1>. QED  BY <1>2, <1>3, <1>4, <1>5, KeptNews

LEMMA TasksNews ==
  ASSUME Sequential, TypeOK, NumbersInv, MessagesInv, NewsInv, Next,
         \/ \E n \in 0 .. Len(wire) : ReadRaw(n)
         \/ StartBatch \/ DeferMessage \/ EmitPortStatus
         \/ EndBatch /\ Alive
  PROVE  NewsInv'
<1>1. Line' = Line
  BY MovedLine DEF NumbersInv, MessagesInv
<1>2. Waiting' = Waiting /\ UNCHANGED <<port, intf, event, aborted, link, unanswered, seenNum>>
  BY DEF ReadRaw, StartBatch, DeferMessage, EmitPortStatus, EndBatch, Waiting, switchVars,
         taskVars, replyVars, linkVars, seqVars, intfVars
<1>. QED  BY <1>1, <1>2, QuietNews

LEMMA PopsNews ==
  ASSUME Sequential, TypeOK, NumbersInv, MessagesInv, NewsInv, Next,
         PopSeenNum \/ PopXidSeqNum \/ PopMsgSeqCnt \/ Establish \/ ConnectionError
  PROVE  NewsInv'
<1>. USE DEF switchVars, taskVars, intfVars, linkVars, seqVars
<1>1. Line' = Line /\ Waiting' = Waiting
  BY DEF PopSeenNum, PopXidSeqNum, PopMsgSeqCnt, Establish, ConnectionError, Line, Held, Arrived,
         Waiting
<1>2. UNCHANGED <<port, intf, event, aborted, link, unanswered>>
  BY DEF PopSeenNum, PopXidSeqNum, PopMsgSeqCnt, Establish, ConnectionError
<1>3. seenNum' = seenNum \/ Waiting = {}
  <2>1. CASE PopSeenNum \/ ConnectionError
    <3>1. ThreadMayRun
      BY <2>1 DEF PopSeenNum, ConnectionError
    <3>. QED  BY <3>1, Turns DEF NumbersInv, HandlersInTurn, Waiting
  <2>2. CASE PopXidSeqNum \/ PopMsgSeqCnt \/ Establish
    BY <2>2 DEF PopXidSeqNum, PopMsgSeqCnt, Establish
  <2>. QED  BY <2>1, <2>2
<1>. QED  BY <1>1, <1>2, <1>3, QuietNews

\* The features reply asks for all ports.
LEMMA BindNews ==
  ASSUME Sequential, TypeOK, NumbersInv, MessagesInv, NewsInv, Next, Bind
  PROVE  NewsInv'
<1>. USE DEF switchVars, taskVars, intfVars, linkVars, seqVars
<1>1. SUFFICES ASSUME NEW p \in Ports PROVE PortNews(p)'
  BY DEF NewsInv
<1>2. Line' = Line /\ Waiting' = Waiting
  BY DEF Bind, Line, Held, Arrived, Waiting
<1>3. UNCHANGED <<port, intf, event, aborted, seenNum>> /\ Alive /\ link' = "bound"
  BY DEF Bind
<1>4. Statuses(p)' = Statuses(p) /\ Described(p)' = Described(p) /\ WaitingFor(p)' = WaitingFor(p)
  BY <1>2, SameLine DEF WaitingFor
<1>5. \A e \in WaitingFor(p) : Late(p, e.xid)' = Late(p, e.xid)
  BY <1>3, LateStays
<1>6. requests + 1 \in Requests /\ p \in unanswered'[requests + 1]
  BY PortAssumption DEF Bind, Requests, TypeOK
<1>7. Latest(p)' = Latest(p) /\ Alive' = Alive
  BY <1>3 DEF Latest, Alive
<1>8. StatusIsTrue(p)' /\ DescriptionIsTrue(p)' /\ InterfaceIsTrue(p)' /\ SilentIsSilent(p)'
  BY <1>3, <1>4, <1>7 DEF NewsInv, PortNews, StatusIsTrue, DescriptionIsTrue, InterfaceIsTrue,
                          SilentIsSilent
<1>9. NewestComes(p) => NewestComes(p)'
  BY <1>3, <1>4, <1>5, <1>6, <1>7 DEF NewestComes, Gone
<1>10. /\ AnnouncedInTurn(p) => AnnouncedInTurn(p)'
       /\ EventIsTrue(p) => EventIsTrue(p)'
       /\ DescribedIsAnnounced(p) => DescribedIsAnnounced(p)'
  BY <1>3, <1>4, <1>5, <1>7 DEF AnnouncedInTurn, EventIsTrue, DescribedIsAnnounced, Tell
<1>. QED  BY <1>3, <1>7, <1>8, <1>9, <1>10 DEF NewsInv, PortNews

\* Tasks that end early take with them what they had.
LEMMA TasksForget ==
  ASSUME Sequential, TypeOK, NumbersInv, MessagesInv, NewsInv, Next,
         ReturnIfDead \/ UpdateRaises \/ (EndBatch /\ ~Alive)
  PROVE  NewsInv'
<1>. USE DEF switchVars, intfVars, linkVars
<1>1. SUFFICES ASSUME NEW p \in Ports PROVE PortNews(p)'
  BY DEF NewsInv
<1>2. Held' \subseteq Held /\ UNCHANGED <<wire, rawIn>>
  BY NoMessages DEF ReturnIfDead, UpdateRaises, EndBatch, Held
<1>3. Line' \subseteq Line /\ Waiting' \subseteq Waiting
  BY <1>2 DEF Line, Arrived, ReturnIfDead, UpdateRaises, EndBatch, Waiting
<1>4. UNCHANGED <<port, intf, event, link>> /\ (~Alive \/ aborted')
  BY DEF ReturnIfDead, UpdateRaises, EndBatch
<1>5. WaitingFor(p)' \subseteq WaitingFor(p)
  BY <1>3 DEF WaitingFor
<1>. QED  BY <1>3, <1>4, <1>5, LessLine, ForgottenNews DEF NewsInv

LEMMA LostNews ==
  ASSUME TypeOK, NewsInv, ConnectionLost
  PROVE  NewsInv'
<1>1. SUFFICES ASSUME NEW p \in Ports PROVE PortNews(p)'
  BY DEF NewsInv
<1>2. /\ wire' = <<>> /\ rawIn' = <<>> /\ remaining' = <<>> /\ link' = "lost"
      /\ UNCHANGED <<batch, unprocessed, multipart, assembled, intf>>
  BY DEF ConnectionLost, taskVars, intfVars
<1>3. port'[p] = [port[p] EXCEPT !.silent = ~port[p].present]
  BY DEF ConnectionLost
<1>4. Held' \subseteq Held
  BY <1>2, NoMessages DEF Held
<1>5. Line' \subseteq Line
  BY <1>2, <1>4, NoMessages DEF Line
<1>6. WaitingFor(p)' = WaitingFor(p)
  BY <1>2 DEF WaitingFor, Waiting
<1>7. /\ port'[p].ver = port[p].ver /\ port'[p].present = port[p].present
      /\ port'[p].state = port[p].state /\ port'[p].silent = ~port[p].present
  BY <1>3 DEF TypeOK
<1>8. Latest(p)' = Latest(p) /\ ~Alive' /\ ~Known'
  BY <1>2, <1>7 DEF Latest, Alive, Known
<1>9. StatusIsTrue(p)' /\ DescriptionIsTrue(p)' /\ InterfaceIsTrue(p)'
  BY <1>2, <1>5, <1>6, <1>7, <1>8, LessLine
     DEF NewsInv, PortNews, StatusIsTrue, DescriptionIsTrue, InterfaceIsTrue
<1>10. SilentIsSilent(p)' /\ NewestComes(p)'
  BY <1>7, <1>8 DEF SilentIsSilent, NewestComes
<1>. QED  BY <1>8, <1>9, <1>10 DEF PortNews

LEMMA ReconnectNews ==
  ASSUME TypeOK, NumbersInv, NewsInv, Reconnect
  PROVE  NewsInv'
<1>1. SUFFICES ASSUME NEW p \in Ports PROVE PortNews(p)'
  BY DEF NewsInv
<1>2. /\ ~Alive /\ pc = "idle" /\ link' = "new" /\ event'[p] = "none"
      /\ UNCHANGED <<wire, rawIn, remaining, batch, unprocessed, multipart, assembled, intf, port,
                     aborted>>
  BY DEF Reconnect, taskVars, switchVars
<1>3. /\ wire = <<>> /\ rawIn = <<>> /\ remaining = <<>> /\ batch = <<>> /\ unprocessed = <<>>
  BY <1>2 DEF NumbersInv, HandlersInTurn
<1>4. Line' = {} /\ Line = {}
  BY <1>2, <1>3, NoMessages DEF Line, Held
<1>5. Statuses(p)' = {} /\ Described(p)' = {} /\ Statuses(p) = {} /\ Described(p) = {}
  BY <1>4 DEF Statuses, Described
<1>6. WaitingFor(p)' = WaitingFor(p)
  BY <1>2 DEF WaitingFor, Waiting
<1>7. Latest(p)' = Latest(p) /\ ~Known'
  BY <1>2 DEF Latest, Known
<1>8. StatusIsTrue(p)' /\ DescriptionIsTrue(p)' /\ InterfaceIsTrue(p)'
  BY <1>2, <1>5, <1>6, <1>7
     DEF NewsInv, PortNews, StatusIsTrue, DescriptionIsTrue, InterfaceIsTrue
<1>9. ~port[p].present => port[p].silent
  BY <1>2 DEF NewsInv, PortNews, SilentIsSilent
<1>10. SilentIsSilent(p)'
  BY <1>2, <1>5, <1>9 DEF SilentIsSilent
<1>11. NewestComes(p)'
  BY <1>2, <1>7, <1>9 DEF NewestComes
<1>12. AnnouncedInTurn(p)' /\ EventIsTrue(p)' /\ DescribedIsAnnounced(p)'
  BY <1>2, <1>5 DEF AnnouncedInTurn, EventIsTrue, DescribedIsAnnounced
<1>. QED  BY <1>8, <1>10, <1>11, <1>12 DEF PortNews

-------------------------------------------------------------------------------
(* The switch: what it sends tells the latest version of a port.           *)

\* A change is announced, if the switch is connected.
LEMMA ChangeOf ==
  ASSUME TypeOK, TypeOK', NEW p \in Ports, NEW reason \in Reasons, NEW state \in States,
         SwitchChanges(p, reason, state)
  PROVE  /\ Latest(p)' = Latest(p) + 1
         /\ port'[p].present <=> reason # "OFPPR_DELETE"
         /\ port'[p].silent <=> reason = "OFPPR_DELETE" /\ ~Alive
         /\ port'[p].state = state
         /\ port[p].present <=> reason # "OFPPR_ADD"
         /\ \A q \in Ports \ {p} : port'[q] = port[q]
         /\ ~Alive => Line' = Line
         /\ Alive => \E m : /\ Line' = Line \union {m}
                            /\ m.xid = 0 /\ m.port = p /\ m.ver = Latest(p)'
                            /\ m.state = state /\ m.reason = reason
<1>1. /\ Latest(p)' = Latest(p) + 1
      /\ port'[p].present <=> reason # "OFPPR_DELETE"
      /\ port'[p].silent <=> reason = "OFPPR_DELETE" /\ ~Alive
      /\ port'[p].state = state
      /\ port[p].present <=> reason # "OFPPR_ADD"
      /\ \A q \in Ports \ {p} : port'[q] = port[q]
  BY DEF SwitchChanges, TypeOK, Latest
<1>2. CASE ~Alive
  BY <1>1, <1>2 DEF SwitchChanges, Line, Held, Arrived, taskVars
<1>3. CASE Alive
  <2> DEFINE m == [xid |-> 0, reason |-> reason, port |-> p, ver |-> port'[p].ver,
                   state |-> state]
  <2>1. m.xid = 0 /\ m.port = p /\ m.ver = Latest(p)' /\ m.state = state /\ m.reason = reason
    BY DEF Latest
  <2>2. m \in Message
    BY DEF Message, TypeOK
  <2>3. wire' = Append(wire, m) /\ UNCHANGED <<unprocessed, remaining, batch, rawIn>>
    BY <1>3 DEF SwitchChanges, taskVars
  <2>. HIDE DEF m
  <2>4. Line' = Line \union {m}
    BY <2>2, <2>3, SentLine DEF Sends
  <2>. QED  BY <1>1, <1>3, <2>1, <2>4
<1>. QED  BY <1>1, <1>2, <1>3

LEMMA ChangesNews ==
  ASSUME Sequential, TypeOK, TypeOK', NumbersInv, MessagesInv, NewsInv, Next,
         NEW p \in Ports, NEW reason \in Reasons, NEW state \in States,
         SwitchChanges(p, reason, state)
  PROVE  NewsInv'
<1>1. /\ UNCHANGED <<intf, event, aborted, link, unanswered, seenNum, multipart, assembled>>
      /\ Alive' = Alive /\ Known' = Known /\ Waiting' = Waiting
  BY DEF SwitchChanges, taskVars, intfVars, linkVars, seqVars, Alive, Known, Waiting
<1>2. ASSUME NEW q \in Ports
      PROVE  WaitingFor(q)' = WaitingFor(q)
             /\ \A e \in WaitingFor(q) : Late(q, e.xid)' = Late(q, e.xid)
  BY <1>1, LateStays DEF WaitingFor
<1>3. ASSUME NEW q \in Ports \ {p} PROVE PortNews(q)'
  <2>1. Statuses(q)' = Statuses(q) /\ Described(q)' = Described(q)
    <3>1. CASE ~Alive
      BY <3>1, ChangeOf, SameLine
    <3>2. CASE Alive
      <4>1. PICK m : Line' = Line \union {m} /\ m.xid = 0 /\ m.port = p
        BY <3>2, ChangeOf
      <4>. QED  BY <1>3, <4>1 DEF Statuses, Described
    <3>. QED  BY <3>1, <3>2
  <2>2. port'[q] = port[q]
    BY <1>3, ChangeOf
  <2>. QED  BY <1>1, <1>2, <2>1, <2>2, KeptNews DEF NewsInv
<1>4. PortNews(p)'
  <2>0. PortNews(p)
    BY DEF NewsInv
  <2>1. PICK n : n = Latest(p)
    OBVIOUS
  <2>2. /\ n \in Nat /\ Latest(p)' = n + 1 /\ intf[p].ver \in Nat /\ intf[p].ver <= n
        /\ \A e \in Described(p) \union WaitingFor(p) : e.ver \in Nat /\ e.ver <= n
        /\ \A m \in Statuses(p) : m.ver \in Nat /\ m.ver <= n
    BY <2>1, NewsTypes, NewsOrder, ChangeOf
  <2>3. CASE ~Alive
    <3>1. Statuses(p)' = Statuses(p) /\ Described(p)' = Described(p)
      BY <2>3, ChangeOf, SameLine
    <3>2. StatusIsTrue(p)' /\ DescriptionIsTrue(p)' /\ InterfaceIsTrue(p)'
      BY <1>1, <1>2, <2>2, <3>1 DEF StatusIsTrue, DescriptionIsTrue, InterfaceIsTrue
    <3>3. ~port'[p].present => port'[p].silent
      BY <2>3, ChangeOf
    <3>4. ~Known'
      BY <1>1, <2>3 DEF Known, Alive
    <3>. QED  BY <1>1, <2>3, <3>2, <3>3, <3>4 DEF PortNews, SilentIsSilent, NewestComes
  <2>4. CASE Alive
    <3>1. PICK m : /\ Line' = Line \union {m} /\ m.xid = 0 /\ m.port = p /\ m.ver = n + 1
                   /\ m.state = state /\ m.reason = reason
      BY <2>2, <2>4, ChangeOf
    <3>2. Statuses(p)' = Statuses(p) \union {m} /\ Described(p)' = Described(p)
      BY <3>1 DEF Statuses, Described
    <3>3. /\ port'[p].present <=> reason # "OFPPR_DELETE"
          /\ port[p].present <=> reason # "OFPPR_ADD"
          /\ port'[p].state = state /\ ~port'[p].silent
      BY <2>4, ChangeOf
    <3>4. \A k \in Statuses(p)' : k.ver = n + 1 => k = m
      BY <2>2, <3>2
    <3>5. StatusIsTrue(p)' /\ DescriptionIsTrue(p)' /\ InterfaceIsTrue(p)' /\ SilentIsSilent(p)'
      BY <1>1, <1>2, <2>2, <2>4, <3>1, <3>2, <3>3, <3>4
         DEF StatusIsTrue, DescriptionIsTrue, InterfaceIsTrue, SilentIsSilent
    <3>6. NewestComes(p)'
      BY <2>2, <3>1, <3>2 DEF NewestComes
    <3>7. ASSUME AnnouncedInTurn(p) PROVE AnnouncedInTurn(p)'
      <4>1. ASSUME NEW k \in Statuses(p)', k.reason = "OFPPR_DELETE", k.ver # n + 1
            PROVE  \E a \in Statuses(p)' : a.reason = "OFPPR_ADD" /\ a.ver = k.ver + 1
        <5>1. k \in Statuses(p)
          BY <3>1, <3>2, <4>1
        <5>2. CASE k.ver = n
          BY <2>0, <2>1, <3>1, <3>2, <3>3, <4>1, <5>1, <5>2 DEF PortNews, StatusIsTrue
        <5>3. CASE k.ver # n
          BY <2>1, <3>2, <3>7, <4>1, <5>1, <5>3 DEF AnnouncedInTurn
        <5>. QED  BY <5>2, <5>3
      <4>. QED  BY <2>2, <3>1, <3>2, <4>1 DEF AnnouncedInTurn
    <3>8. ASSUME EventIsTrue(p) PROVE EventIsTrue(p)'
      <4>1. Statuses(p)' # {}
        BY <3>2
      <4>2. ASSUME event[p] = "deleted"
            PROVE  \E a \in Statuses(p)' : /\ a.reason = "OFPPR_ADD"
                                           /\ \A k \in Statuses(p)' : a.ver <= k.ver
        <5>1. CASE ~port[p].present /\ Statuses(p) = {}
          BY <2>2, <3>1, <3>2, <3>3, <5>1
        <5>2. CASE \E a \in Statuses(p) : /\ a.reason = "OFPPR_ADD"
                                          /\ \A k \in Statuses(p) : a.ver <= k.ver
          BY <2>2, <3>1, <3>2, <5>2
        <5>. QED  BY <3>8, <4>2, <5>1, <5>2 DEF EventIsTrue
      <4>. QED  BY <1>1, <3>8, <4>1, <4>2 DEF EventIsTrue
    <3>9. ASSUME DescribedIsAnnounced(p) PROVE DescribedIsAnnounced(p)'
      <4>1. \A e \in Described(p) : ~(m.ver <= e.ver)
        BY <2>2, <3>1
      <4>. QED  BY <1>1, <1>2, <3>2, <3>9, <4>1 DEF DescribedIsAnnounced, Tell
    <3>. QED  BY <1>1, <2>0, <3>5, <3>6, <3>7, <3>8, <3>9 DEF PortNews
  <2>. QED  BY <2>3, <2>4
<1>. QED  BY <1>3, <1>4 DEF NewsInv

\* A description of the ports that are present tells their latest versions.
LEMMA DescriptionOf ==
  ASSUME ~MultiPart, TypeOK, NEW x \in Requests, NEW ps \in SUBSET unanswered[x],
         SwitchDescribes(x, ps)
  PROVE  \E m : /\ Line' = Line \union {m} /\ m.xid # 0
                /\ \A e \in m.entries : /\ e.port \in Ports /\ e.ver = Latest(e.port)
                                        /\ e.state = port[e.port].state
                                        /\ port[e.port].present
                /\ \A p \in unanswered[x] : port[p].present =>
                      \E e \in m.entries : e.port = p /\ e.ver = Latest(p)
<1> DEFINE m == [xid |-> x, entries |-> {Entry(x, p) : p \in {q \in ps : port[q].present}}]
<1>1. ps = unanswered[x] /\ ps \subseteq Ports /\ x # 0
  <2>1. unanswered[x] \subseteq Ports
    BY DEF TypeOK
  <2>. QED  BY <2>1 DEF SwitchDescribes, Requests
<1>2. ASSUME NEW p \in ps
      PROVE  /\ Entry(x, p) \in Description
             /\ Entry(x, p).port = p /\ Entry(x, p).ver = Latest(p)
             /\ Entry(x, p).state = port[p].state
  <2>1. p \in Ports /\ port[p].ver \in Nat /\ port[p].state \in States
    BY <1>1, <1>2 DEF TypeOK
  <2>. QED  BY <2>1 DEF Entry, Description, Latest
<1>3. m \in Message
  BY <1>2 DEF Message
<1>4. wire' = Append(wire, m) /\ UNCHANGED <<unprocessed, remaining, batch, rawIn>>
  BY DEF SwitchDescribes, taskVars
<1>5. m.xid # 0
  BY <1>1
<1>6. \A e \in m.entries : /\ e.port \in Ports /\ e.ver = Latest(e.port)
                           /\ e.state = port[e.port].state /\ port[e.port].present
  BY <1>1, <1>2
<1>7. \A p \in unanswered[x] : port[p].present =>
         \E e \in m.entries : e.port = p /\ e.ver = Latest(p)
  BY <1>1, <1>2
<1>. HIDE DEF m
<1>8. Line' = Line \union {m}
  BY <1>3, <1>4, SentLine DEF Sends
<1>. QED  BY <1>5, <1>6, <1>7, <1>8

LEMMA DescribesNews ==
  ASSUME Sequential, ~MultiPart, TypeOK, NumbersInv, MessagesInv, NewsInv, Next,
         NEW x \in Requests, NEW ps \in SUBSET unanswered[x], SwitchDescribes(x, ps)
  PROVE  NewsInv'
<1>1. /\ UNCHANGED <<port, intf, event, aborted, link, seenNum>>
      /\ Alive' = Alive /\ Known' = Known /\ Waiting' = Waiting
  BY DEF SwitchDescribes, taskVars, intfVars, linkVars, seqVars, Alive, Known, Waiting
<1>2. SUFFICES ASSUME NEW p \in Ports PROVE PortNews(p)'
  BY DEF NewsInv
<1>3. PortNews(p) /\ Latest(p)' = Latest(p)
  BY <1>1 DEF NewsInv, Latest
<1>4. /\ WaitingFor(p)' = WaitingFor(p)
      /\ \A e \in WaitingFor(p) : Late(p, e.xid)' = Late(p, e.xid)
  BY <1>1, LateStays DEF WaitingFor
<1>5. PICK m : /\ Line' = Line \union {m} /\ m.xid # 0
               /\ \A e \in m.entries : /\ e.port \in Ports /\ e.ver = Latest(e.port)
                                       /\ e.state = port[e.port].state
                                       /\ port[e.port].present
               /\ \A q \in unanswered[x] : port[q].present =>
                     \E e \in m.entries : e.port = q /\ e.ver = Latest(q)
  BY DescriptionOf
<1>6. Statuses(p)' = Statuses(p)
  BY <1>5 DEF Statuses
<1>7. /\ Described(p) \subseteq Described(p)'
      /\ \A e \in Described(p)' \ Described(p) :
            e.ver = Latest(p) /\ e.state = port[p].state /\ port[p].present
      /\ p \in unanswered[x] /\ port[p].present =>
            \E e \in Described(p)' : e.ver = Latest(p)
  BY <1>5 DEF Described
<1>8. \A y \in Requests : p \in unanswered[y] => p \in unanswered'[y] \/ y = x
  BY DEF SwitchDescribes, TypeOK
<1>9. StatusIsTrue(p)' /\ DescriptionIsTrue(p)' /\ InterfaceIsTrue(p)' /\ SilentIsSilent(p)'
  BY <1>1, <1>3, <1>4, <1>6, <1>7
     DEF PortNews, StatusIsTrue, DescriptionIsTrue, InterfaceIsTrue, SilentIsSilent
<1>10. ASSUME NewestComes(p) PROVE NewestComes(p)'
  <2>1. CASE port[p].present
    BY <1>1, <1>3, <1>4, <1>6, <1>7, <1>8, <1>10, <2>1 DEF NewestComes
  <2>2. CASE ~port[p].present
    <3>1. Described(p)' = Described(p)
      BY <1>7, <2>2
    <3>. QED  BY <1>1, <1>3, <1>4, <1>6, <1>10, <2>2, <3>1 DEF NewestComes, Gone
  <2>. QED  BY <2>1, <2>2
<1>11. AnnouncedInTurn(p) => AnnouncedInTurn(p)'
  BY <1>3, <1>6 DEF AnnouncedInTurn
<1>12. EventIsTrue(p) => EventIsTrue(p)'
  BY <1>1, <1>6 DEF EventIsTrue
<1>13. ASSUME AnnouncedInTurn(p), DescribedIsAnnounced(p) PROVE DescribedIsAnnounced(p)'
  <2>1. ASSUME NEW e \in Described(p)' \ Described(p),
               event[p] # "none" \/ \E k \in Statuses(p) : k.ver <= e.ver
        PROVE  \/ Tell(intf[p], e)
               \/ \E k \in Statuses(p) : Tell(k, e) /\ k.reason # "OFPPR_DELETE"
    <3>1. e.ver = Latest(p) /\ e.state = port[p].state /\ port[p].present
      BY <1>7, <2>1
    <3>2. CASE Statuses(p) # {}
      <4>1. PICK k \in Statuses(p) : k.ver = Latest(p)
        BY <1>13, <3>2 DEF AnnouncedInTurn
      <4>. QED  BY <1>3, <3>1, <4>1 DEF PortNews, StatusIsTrue, Tell
    <3>3. CASE Statuses(p) = {}
      <4>1. intf[p].ver = Latest(p)
        BY <1>13, <2>1, <3>1, <3>3 DEF DescribedIsAnnounced
      <4>. QED  BY <1>3, <3>1, <4>1 DEF PortNews, InterfaceIsTrue, Tell
    <3>. QED  BY <3>2, <3>3
  <2>. QED  BY <1>1, <1>3, <1>4, <1>6, <1>13, <2>1 DEF DescribedIsAnnounced, Tell
<1>. QED  BY <1>1, <1>3, <1>9, <1>10, <1>11, <1>12, <1>13 DEF PortNews

-------------------------------------------------------------------------------
(* A reply is gathered: its descriptions wait, and are not late.           *)

LEMMA GathersNews ==
  ASSUME Sequential, TypeOK, NumbersInv, MessagesInv, NewsInv, Next, GatherPortDesc
  PROVE  NewsInv'
<1> DEFINE m == Head(batch)
           G(p) == {e \in m.entries : e.port = p}
<1>0. HandlersInTurn /\ LineInOrder /\ RepliesAnswer /\ NumbersGiven /\ RepliesAreCounted
  BY DEF NumbersInv, MessagesInv
<1>1. /\ m \in Line /\ m.xid # 0 /\ m \in Message /\ CountMessage(m.xid) /\ batch # <<>>
      /\ Line = Line' \union {m} /\ AllBefore({m}, Line')
  BY <1>0, HandledMessage, HandlesFirst, HandledLine DEF GatherPortDesc
<1>2. /\ UNCHANGED <<port, intf, event, aborted, link, unanswered, seenNum>>
      /\ Alive' = Alive /\ Known' = Known /\ Waiting' = Waiting \union m.entries
  BY DEF GatherPortDesc, switchVars, intfVars, linkVars, replyVars, Alive, Known, Waiting
<1>3. counted
  <2>1. HasReply(batch)
    BY <1>1, LineTypes, TakenReply
  <2>. QED  BY <1>0, <2>1 DEF RepliesAreCounted, Uncounted, GatherPortDesc
<1>4. PICK x : x = m.xid
  OBVIOUS
<1>5. x \in Requests /\ x \in Xids
  BY <1>1, <1>4, MessageIs
<1>6. \A e \in m.entries : e.xid = x
  BY <1>0, <1>1, <1>4 DEF RepliesAnswer
<1>7. xidSeqNum'[x] = msgSeqCnt + 1
  BY <1>1, <1>3, <1>4, <1>5 DEF CountMessage, TypeOK
<1>. SUFFICES ASSUME NEW p \in Ports PROVE PortNews(p)'
  BY DEF NewsInv
<1>8. PortNews(p) /\ Latest(p)' = Latest(p)
  BY <1>2 DEF NewsInv, Latest
<1>9. \A e \in G(p) : ~Late(p, e.xid)'
  <2>1. seenNum[p] <= msgSeqCnt /\ seenNum[p] \in Nat /\ msgSeqCnt \in Nat
    BY <1>0 DEF NumbersGiven, TypeOK
  <2>2. ~(xidSeqNum'[x] < seenNum'[p])
    BY <1>2, <1>7, <2>1
  <2>. QED  BY <1>6, <2>2 DEF Late
<1>10. \A e \in WaitingFor(p) : Late(p, e.xid)' = Late(p, e.xid)
  BY <1>2, LateStays
<1>11. \A e \in G(p), k \in Statuses(p) : e.ver < k.ver
  <2>1. SUFFICES ASSUME NEW e \in G(p), NEW k \in Statuses(p) PROVE e.ver < k.ver
    OBVIOUS
  <2>2. k.xid = 0 /\ k \in Line /\ k.ver \in VersionsIn(k, p)
    BY NewsTypes
  <2>3. k \in Line'
    BY <1>1, <2>2
  <2>4. e.ver \in VersionsIn(m, p)
    BY <1>1, GatheredVersions
  <2>. QED  BY <1>1, <2>2, <2>3, <2>4 DEF AllBefore, Before
<1>12. /\ Statuses(p)' = Statuses(p)
       /\ Described(p) = Described(p)' \union G(p)
       /\ WaitingFor(p)' = WaitingFor(p) \union G(p)
  <2>1. Statuses(p)' = Statuses(p)
    BY <1>1 DEF Statuses
  <2>2. WaitingFor(p)' = WaitingFor(p) \union G(p)
    BY <1>2 DEF WaitingFor
  <2>3. Described(p) = Described(p)' \union G(p)
    <3>. HIDE DEF m
    <3>. QED  BY <1>1 DEF Described
  <2>. QED  BY <2>1, <2>2, <2>3
<1>. HIDE DEF m, G
<1>13. StatusIsTrue(p)' /\ DescriptionIsTrue(p)' /\ InterfaceIsTrue(p)' /\ SilentIsSilent(p)'
  BY <1>2, <1>8, <1>12
     DEF PortNews, StatusIsTrue, DescriptionIsTrue, InterfaceIsTrue, SilentIsSilent
<1>14. ASSUME NewestComes(p) PROVE NewestComes(p)'
  <2>1. CASE port[p].present
    BY <1>2, <1>8, <1>9, <1>10, <1>12, <1>14, <2>1 DEF NewestComes
  <2>2. CASE ~port[p].present
    <3>1. Gone(p) => Gone(p)'
      BY <1>2, <1>10, <1>12 DEF Gone
    <3>. QED  BY <1>2, <1>12, <1>14, <2>2, <3>1 DEF NewestComes
  <2>. QED  BY <2>1, <2>2
<1>15. AnnouncedInTurn(p) => AnnouncedInTurn(p)'
  BY <1>8, <1>12 DEF AnnouncedInTurn
<1>16. EventIsTrue(p) => EventIsTrue(p)'
  BY <1>2, <1>12 DEF EventIsTrue
<1>17. ASSUME DescribedIsAnnounced(p) PROVE DescribedIsAnnounced(p)'
  <2>1. ASSUME NEW e \in G(p), event[p] # "none" PROVE Tell(intf[p], e)
    <3>1. e \in Described(p) /\ e.ver \in Nat
      BY <1>12, <2>1, NewsTypes
    <3>2. \A k \in Statuses(p) : ~Tell(k, e)
      BY <1>11, <2>1, <3>1, NewsTypes DEF Tell
    <3>. QED  BY <1>17, <2>1, <3>1, <3>2 DEF DescribedIsAnnounced
  <2>. QED  BY <1>2, <1>8, <1>10, <1>12, <1>17, <2>1 DEF DescribedIsAnnounced, Tell
<1>. QED  BY <1>2, <1>8, <1>13, <1>14, <1>15, <1>16, <1>17 DEF PortNews

-------------------------------------------------------------------------------
(* A description is handled.                                               *)

LEMMA HandlesNews ==
  ASSUME Sequential, TypeOK, NumbersInv, MessagesInv, NewsInv, Next,
         NEW e \in assembled, HandlePortDesc(e)
  PROVE  NewsInv'
<1>. USE DEF switchVars, taskVars, replyVars, linkVars
<1>1. /\ UNCHANGED <<port, event, aborted, link, unanswered, xidSeqNum>>
      /\ Alive' = Alive /\ Known' = Known
  BY DEF HandlePortDesc, Alive, Known
<1>2. Line' = Line
  BY DEF HandlePortDesc, Line, Held, Arrived
<1>3. Waiting' \subseteq Waiting /\ Waiting \subseteq Waiting' \union {e} /\ e \in Waiting
  BY DEF HandlePortDesc, Waiting
<1>4. PICK p \in Ports : p = e.port
  BY <1>3, WaitingTypes
<1>5. e \in WaitingFor(p) /\ e.ver \in Nat /\ e.xid \in Xids
  BY <1>3, <1>4, WaitingTypes DEF WaitingFor
<1>6. ASSUME NEW q \in Ports
      PROVE  /\ Statuses(q)' = Statuses(q) /\ Described(q)' = Described(q)
             /\ WaitingFor(q)' \subseteq WaitingFor(q)
             /\ WaitingFor(q) \subseteq WaitingFor(q)' \union {e}
             /\ q # p => WaitingFor(q)' = WaitingFor(q)
             /\ PortNews(q) /\ Latest(q)' = Latest(q)
  BY <1>1, <1>2, <1>3, <1>4, SameLine DEF WaitingFor, NewsInv, Latest
<1>7. \/ Late(p, e.xid) /\ UNCHANGED <<intf, seenNum>>
      \/ /\ ~Late(p, e.xid)
         /\ \A q \in Ports \ {p} : intf'[q] = intf[q] /\ seenNum'[q] = seenNum[q]
         /\ intf'[p] = [known |-> TRUE, ver |-> e.ver, state |-> e.state,
                        active |-> Activated(p, e.state)]
         /\ seenNum'[p] = xidSeqNum[e.xid]
  BY <1>4 DEF HandlePortDesc, Updated, TypeOK
<1>8. ASSUME NEW q \in Ports \ {p} PROVE PortNews(q)'
  <2>1. intf'[q] = intf[q] /\ seenNum'[q] = seenNum[q]
    BY <1>7, <1>8
  <2>2. \A f \in WaitingFor(q) : Late(q, f.xid)' = Late(q, f.xid)
    BY <1>1, <2>1 DEF Late
  <2>. QED  BY <1>1, <1>6, <1>8, <2>1, <2>2, KeptNews
<1>9. PortNews(p)'
  <2>1. CASE Late(p, e.xid) /\ UNCHANGED <<intf, seenNum>>
    <3>1. \A f \in WaitingFor(p) : Late(p, f.xid)' = Late(p, f.xid)
      BY <1>1, <2>1 DEF Late
    <3>2. StatusIsTrue(p)' /\ DescriptionIsTrue(p)' /\ InterfaceIsTrue(p)' /\ SilentIsSilent(p)'
      BY <1>1, <1>6, <2>1
         DEF PortNews, StatusIsTrue, DescriptionIsTrue, InterfaceIsTrue, SilentIsSilent
    <3>3. NewestComes(p) => NewestComes(p)'
      BY <1>1, <1>6, <2>1, <3>1 DEF NewestComes, Gone
    <3>4. AnnouncedInTurn(p) => AnnouncedInTurn(p)'
      BY <1>6 DEF AnnouncedInTurn
    <3>5. EventIsTrue(p) => EventIsTrue(p)'
      BY <1>1, <1>6, <2>1 DEF EventIsTrue
    <3>6. DescribedIsAnnounced(p) => DescribedIsAnnounced(p)'
      BY <1>1, <1>6, <2>1, <3>1 DEF DescribedIsAnnounced, Tell
    <3>. QED  BY <1>1, <1>6, <3>2, <3>3, <3>4, <3>5, <3>6 DEF PortNews
  <2>2. CASE /\ ~Late(p, e.xid)
             /\ intf'[p] = [known |-> TRUE, ver |-> e.ver, state |-> e.state,
                            active |-> Activated(p, e.state)]
             /\ seenNum'[p] = xidSeqNum[e.xid]
    <3>1. /\ intf'[p].known /\ intf'[p].ver = e.ver /\ intf'[p].state = e.state
          /\ intf'[p].active = Activated(p, e.state)
      BY <2>2
    <3>2. /\ intf[p].ver <= e.ver /\ e.ver <= Latest(p)
          /\ Latest(p) \in Nat /\ intf[p].ver \in Nat
      BY <1>5, <2>2, NewsOrder, NewsTypes
    <3>3. ASSUME NEW f \in WaitingFor(p), Late(p, f.xid) PROVE Late(p, f.xid)'
      <4>1. /\ seenNum[p] \in Nat /\ xidSeqNum[e.xid] \in Nat /\ xidSeqNum[f.xid] \in Nat
        BY <1>5, <3>3, WaitingTypes DEF TypeOK, WaitingFor
      <4>. QED  BY <1>1, <2>2, <3>1, <3>3, <4>1 DEF Late
    <3>4. ASSUME NEW w \in WaitingFor(p), w.ver = Latest(p), e.ver # Latest(p), ~Late(p, w.xid)
          PROVE  w \in WaitingFor(p)' /\ ~Late(p, w.xid)'
      <4>1. /\ w \in Waiting /\ w.port = e.port /\ w.xid \in Nat /\ e.xid \in Nat
            /\ xidSeqNum[e.xid] \in Nat /\ xidSeqNum[w.xid] \in Nat
        BY <1>3, <1>4, <3>4, WaitingTypes DEF WaitingFor, TypeOK
      <4>2. /\ e.xid = w.xid => e = w
            /\ w.xid < e.xid => w.ver <= e.ver
            /\ e.xid < w.xid => xidSeqNum[e.xid] < xidSeqNum[w.xid]
        BY <1>3, <4>1 DEF MessagesInv, WaitingInOrder
      <4>3. e # w /\ ~(w.ver <= e.ver)
        BY <1>5, <3>2, <3>4
      <4>4. xidSeqNum[e.xid] < xidSeqNum[w.xid]
        BY <4>1, <4>2, <4>3
      <4>. QED  BY <1>1, <1>6, <2>2, <3>4, <4>1, <4>3, <4>4 DEF Late
    <3>5. StatusIsTrue(p)' /\ DescriptionIsTrue(p)' /\ SilentIsSilent(p)'
      BY <1>1, <1>6 DEF PortNews, StatusIsTrue, DescriptionIsTrue, SilentIsSilent
    <3>6. InterfaceIsTrue(p)'
      BY <1>1, <1>5, <1>6, <3>1 DEF PortNews, InterfaceIsTrue, DescriptionIsTrue
    <3>7. ASSUME NewestComes(p) PROVE NewestComes(p)'
      <4>1. intf[p].ver = Latest(p) => intf'[p].ver = Latest(p)
        BY <1>5, <3>1, <3>2
      <4>2. ~Gone(p)
        BY <1>5, <2>2 DEF Gone
      <4>. QED  BY <1>1, <1>6, <3>1, <3>4, <3>7, <4>1, <4>2 DEF NewestComes
    <3>8. AnnouncedInTurn(p) => AnnouncedInTurn(p)'
      BY <1>6 DEF AnnouncedInTurn
    <3>9. ASSUME EventIsTrue(p), DescribedIsAnnounced(p)
          PROVE  EventIsTrue(p)' /\ DescribedIsAnnounced(p)'
      <4>1. event[p] # "none" => e.ver = intf[p].ver /\ e.state = intf[p].state
        BY <1>5, <2>2, <3>9 DEF DescribedIsAnnounced, Tell
      <4>2. ASSUME NEW d \in Described(p), NEW k \in Statuses(p), k.ver <= d.ver
            PROVE  ~Tell(intf[p], d)
        BY <3>2, <4>2, NewsOrder, NewsTypes DEF Tell
      <4>3. EventIsTrue(p)'
        BY <1>1, <1>6, <3>1, <3>9, <4>1 DEF EventIsTrue
      <4>4. DescribedIsAnnounced(p)'
        BY <1>1, <1>6, <3>1, <3>3, <3>9, <4>1, <4>2 DEF DescribedIsAnnounced, Tell
      <4>. QED  BY <4>3, <4>4
    <3>. QED  BY <1>1, <1>6, <3>5, <3>6, <3>7, <3>8, <3>9 DEF PortNews
  <2>. QED  BY <1>7, <2>1, <2>2
<1>. QED  BY <1>8, <1>9 DEF NewsInv
-------------------------------------------------------------------------------
(* A PORT_STATUS is handled: it is the first of its port, and what waits   *)
(* for the port is late from then on.                                      *)

\* The first announcement of p that is not handled yet.
FirstOf(m, p) ==
    /\ m \in Statuses(p) /\ Statuses(p) = Statuses(p)' \union {m}
    /\ \A k \in Statuses(p)' : m.ver < k.ver
    /\ Described(p)' = Described(p) /\ \A e \in Described(p) : m.ver <= e.ver
    /\ WaitingFor(p)' = WaitingFor(p) /\ \A e \in WaitingFor(p) : Late(p, e.xid)'

LEMMA FirstStatus ==
  ASSUME Sequential, TypeOK, NumbersInv, MessagesInv, UpdatePortStatus,
         NEW p, p = Head(batch).port
  PROVE  FirstOf(Head(batch), p)
<1> DEFINE m == Head(batch)
<1>0. HandlersInTurn /\ LineInOrder
  BY DEF NumbersInv, MessagesInv
<1>1. /\ m \in Line /\ m.xid = 0 /\ m \in Message
      /\ Line = Line' \union {m} /\ AllBefore({m}, Line')
  BY <1>0, HandledMessage, HandlesFirst, HandledLine
<1>2. /\ p \in Ports /\ m.ver \in VersionsIn(m, p)
      /\ intf'[p].known /\ seenNum'[p] = xidSeqNum[0]
      /\ UNCHANGED <<xidSeqNum, multipart, assembled>>
  BY StatusUpdates
<1>3. m.port = p
  OBVIOUS
<1>. HIDE DEF m
<1>4. m \in Statuses(p) /\ Statuses(p) = Statuses(p)' \union {m}
  BY <1>1, <1>3 DEF Statuses
<1>5. Described(p)' = Described(p)
  BY <1>1 DEF Described
<1>6. ASSUME NEW k \in Statuses(p)' PROVE m.ver < k.ver
  <2>1. k \in Line' /\ k.xid = 0 /\ k.port = p
    BY <1>6 DEF Statuses
  <2>2. k.ver \in VersionsIn(k, p)
    BY <2>1 DEF VersionsIn
  <2>. QED  BY <1>1, <1>2, <2>1, <2>2 DEF AllBefore, Before
<1>7. ASSUME NEW e \in Described(p) PROVE m.ver <= e.ver
  <2>1. PICK k \in Line : k.xid # 0 /\ e \in k.entries /\ e.ver \in VersionsIn(k, p)
    BY <1>2, <1>7, NewsTypes
  <2>2. k \in Line'
    BY <1>1, <2>1
  <2>. QED  BY <1>1, <1>2, <2>1, <2>2 DEF AllBefore, Before
<1>8. WaitingFor(p)' = WaitingFor(p)
  BY <1>2 DEF WaitingFor, Waiting
<1>9. ASSUME NEW e \in WaitingFor(p) PROVE Late(p, e.xid)'
  <2>1. e \in Waiting
    BY <1>9 DEF WaitingFor
  <2>2. counted
    BY <2>1 DEF UpdatePortStatus, NumbersInv, HandlersInTurn, CountedInTurn, Uncounted,
                NothingCounted, Waiting
  <2>3. xidSeqNum[e.xid] < xidSeqNum[0]
    BY <2>1, <2>2, WaitingTypes DEF UpdatePortStatus, NumbersInv, NumbersGiven
  <2>. QED  BY <1>2, <2>3 DEF Late
<1>. QED  BY <1>4, <1>5, <1>6, <1>7, <1>8, <1>9 DEF FirstOf, m

\* What a PORT_STATUS makes of its interface, and of the last event about it.
Applied(m, p) ==
    /\ intf'[p].known
    /\ m.reason = "OFPPR_DELETE" =>
          /\ ~intf'[p].active /\ intf'[p].ver = intf[p].ver /\ intf'[p].state = intf[p].state
          /\ event'[p] = "deleted"
    /\ m.reason # "OFPPR_DELETE" => /\ intf'[p].ver = m.ver /\ intf'[p].state = m.state
                                    /\ intf'[p].active = Activated(p, m.state)
    /\ m.reason = "OFPPR_ADD" => event'[p] = "created"
    /\ m.reason = "OFPPR_MODIFY" =>
          \/ event'[p] = LinkStatus(m.state)
          \/ /\ event'[p] = event[p]
             /\ intf[p].known /\ LinkStatus(intf[p].state) = LinkStatus(m.state)

LEMMA AppliedStatus ==
  ASSUME TypeOK, NumbersInv, UpdatePortStatus, NEW p, p = Head(batch).port
  PROVE  /\ p \in Ports /\ Applied(Head(batch), p)
         /\ \A q \in Ports \ {p} : /\ intf'[q] = intf[q] /\ event'[q] = event[q]
                                   /\ seenNum'[q] = seenNum[q]
<1> DEFINE m == Head(batch)
<1>1. m \in Message /\ m.xid = 0
  BY HandledMessage DEF NumbersInv
<1>2. p \in Ports /\ m.reason \in Reasons
  BY <1>1, MessageIs
<1>3. ~Late(p, 0)
  BY NumbersAreNotLate DEF StatusNeverLate, UpdatePortStatus
<1>4. /\ m.reason = "OFPPR_DELETE" => intf[p].known
      /\ intf' = IF m.reason = "OFPPR_DELETE" THEN [intf EXCEPT ![p].active = FALSE]
                 ELSE Updated(p, m)
      /\ event' = [event EXCEPT ![p] = EventOf(m, intf[p])]
      /\ seenNum' = [seenNum EXCEPT ![p] = xidSeqNum[0]]
  BY <1>3 DEF UpdatePortStatus
<1>5. m.port = p
  OBVIOUS
<1>. HIDE DEF m
<1>6. /\ event'[p] = EventOf(m, intf[p])
      /\ \A q \in Ports \ {p} : event'[q] = event[q] /\ seenNum'[q] = seenNum[q]
  BY <1>2, <1>4 DEF TypeOK
<1>7. /\ m.reason = "OFPPR_ADD" => event'[p] = "created"
      /\ m.reason = "OFPPR_DELETE" => event'[p] = "deleted"
      /\ m.reason = "OFPPR_MODIFY" => event'[p] = LinkEvent(m, intf[p])
  BY <1>6 DEF EventOf
<1>8. m.reason = "OFPPR_MODIFY" =>
          \/ event'[p] = LinkStatus(m.state)
          \/ /\ event'[p] = event[p]
             /\ intf[p].known /\ LinkStatus(intf[p].state) = LinkStatus(m.state)
  BY <1>5, <1>7 DEF LinkEvent
<1>9. CASE m.reason = "OFPPR_DELETE"
  <2>1. intf' = [intf EXCEPT ![p].active = FALSE] /\ intf[p].known
    BY <1>4, <1>9
  <2>2. /\ \A q \in Ports \ {p} : intf'[q] = intf[q]
        /\ intf'[p].known /\ ~intf'[p].active
        /\ intf'[p].ver = intf[p].ver /\ intf'[p].state = intf[p].state
    BY <1>2, <2>1 DEF TypeOK
  <2>. QED  BY <1>2, <1>6, <1>7, <1>9, <2>2 DEF Applied, m
<1>10. CASE m.reason # "OFPPR_DELETE"
  <2>1. intf' = Updated(p, m)
    BY <1>4, <1>10
  <2>2. /\ \A q \in Ports \ {p} : intf'[q] = intf[q]
        /\ intf'[p].known /\ intf'[p].ver = m.ver /\ intf'[p].state = m.state
        /\ intf'[p].active = Activated(p, m.state)
    BY <1>2, <2>1 DEF TypeOK, Updated
  <2>. QED  BY <1>2, <1>6, <1>7, <1>8, <1>10, <2>2 DEF Applied, m
<1>. QED  BY <1>9, <1>10
LEMMA StatusNews ==
  ASSUME Sequential, TypeOK, NumbersInv, MessagesInv, NewsInv, Next, UpdatePortStatus
  PROVE  NewsInv'
<1> DEFINE m == Head(batch)
<1>1. PICK p : p = m.port
  OBVIOUS
<1>2. FirstOf(m, p)
  BY <1>1, FirstStatus
<1>3. /\ p \in Ports /\ Applied(m, p)
      /\ \A q \in Ports \ {p} : /\ intf'[q] = intf[q] /\ event'[q] = event[q]
                                /\ seenNum'[q] = seenNum[q]
  BY <1>1, AppliedStatus
<1>4. /\ UNCHANGED <<port, aborted, link, unanswered, xidSeqNum, multipart, assembled>>
      /\ Alive' = Alive /\ Known' = Known
  BY DEF UpdatePortStatus, switchVars, linkVars, replyVars, Alive, Known
<1>5. Line = Line' \union {m}
  BY HandledMessage, HandledLine DEF NumbersInv, MessagesInv
<1>6. m.xid = 0
  BY HandledMessage DEF NumbersInv
<1>. HIDE DEF m
<1>7. ASSUME NEW q \in Ports \ {p} PROVE PortNews(q)'
  <2>1. Statuses(q)' = Statuses(q) /\ Described(q)' = Described(q)
    BY <1>1, <1>5, <1>6, <1>7 DEF Statuses, Described
  <2>2. WaitingFor(q)' = WaitingFor(q) /\ \A e \in WaitingFor(q) : Late(q, e.xid)' = Late(q, e.xid)
    BY <1>3, <1>4, <1>7 DEF WaitingFor, Waiting, Late
  <2>. QED  BY <1>3, <1>4, <1>7, <2>1, <2>2, KeptNews DEF NewsInv
<1>8. PortNews(p)'
  <2>1. PortNews(p) /\ Latest(p)' = Latest(p)
    BY <1>3, <1>4 DEF NewsInv, Latest
  <2>2. /\ m \in Statuses(p) /\ m.ver \in Nat /\ m.reason \in Reasons
        /\ Latest(p) \in Nat /\ intf[p].ver \in Nat
        /\ intf[p].ver < m.ver /\ m.ver <= Latest(p)
        /\ \A k \in Statuses(p) : k.ver \in Nat /\ k.ver <= Latest(p)
        /\ \A k \in Statuses(p)' : k \in Statuses(p) /\ m.ver < k.ver
    BY <1>2, <1>3, NewsTypes, NewsOrder DEF FirstOf
  <2>3. \A e \in WaitingFor(p) : e.ver \in Nat /\ e.ver < m.ver
    BY <1>3, <2>2, NewsTypes, NewsOrder
  <2>4. \A e \in Described(p) : e.ver \in Nat /\ m.ver <= e.ver /\ e.ver <= Latest(p)
    BY <1>2, <1>3, NewsTypes, NewsOrder DEF FirstOf
  <2>5. m.ver = Latest(p) => /\ Statuses(p)' = {} /\ m.state = port[p].state
                             /\ m.reason = "OFPPR_DELETE" <=> ~port[p].present
    BY <2>1, <2>2 DEF PortNews, StatusIsTrue
  <2>6. StatusIsTrue(p)' /\ DescriptionIsTrue(p)'
    BY <1>2, <1>4, <2>1 DEF FirstOf, PortNews, StatusIsTrue, DescriptionIsTrue
  <2>7. InterfaceIsTrue(p)'
    BY <1>3, <1>4, <2>1, <2>2, <2>5 DEF Applied, InterfaceIsTrue
  <2>8. SilentIsSilent(p)'
    BY <1>4, <2>1, <2>2 DEF PortNews, SilentIsSilent
  <2>9. ASSUME AnnouncedInTurn(p), m.ver # Latest(p) PROVE Statuses(p)' # {}
    BY <1>2, <2>9 DEF FirstOf, AnnouncedInTurn
  <2>10. ASSUME ~aborted PROVE NewestComes(p)'
    <3>1. CASE port[p].present /\ Known
      <4>1. m.ver = Latest(p) => intf'[p].ver = Latest(p)
        BY <1>3, <2>5, <3>1 DEF Applied
      <4>2. intf[p].ver # Latest(p) /\ \A e \in WaitingFor(p) : e.ver # Latest(p)
        BY <2>2, <2>3
      <4>. QED  BY <1>2, <1>4, <2>1, <2>10, <3>1, <4>1, <4>2 DEF PortNews, NewestComes, FirstOf
    <3>2. CASE port[p].present /\ ~Known
      BY <1>4, <3>2 DEF NewestComes
    <3>3. CASE ~port[p].present
      <4>1. ASSUME ~port[p].silent, Statuses(p)' = {} PROVE Gone(p)'
        <5>1. Alive
          BY <2>1, <3>3, <4>1 DEF PortNews, SilentIsSilent
        <5>2. m.ver = Latest(p) /\ m.reason = "OFPPR_DELETE"
          BY <2>1, <2>5, <2>9, <2>10, <3>3, <4>1, <5>1 DEF PortNews
        <5>3. \A e \in Described(p) : e.ver = Latest(p)
          BY <2>2, <2>4, <5>2
        <5>4. Described(p) = {}
          BY <2>1, <3>3, <5>3 DEF PortNews, DescriptionIsTrue
        <5>. QED  BY <1>2, <1>3, <4>1, <5>2, <5>4 DEF Gone, FirstOf, Applied
      <4>. QED  BY <1>4, <3>3, <4>1 DEF NewestComes
    <3>. QED  BY <3>1, <3>2, <3>3
  <2>11. ASSUME AnnouncedInTurn(p) PROVE AnnouncedInTurn(p)'
    <3>1. ASSUME Statuses(p)' # {} PROVE \E k \in Statuses(p)' : k.ver = Latest(p)
      BY <1>2, <2>5, <2>11, <3>1 DEF FirstOf, AnnouncedInTurn
    <3>2. ASSUME NEW k \in Statuses(p)', k.reason = "OFPPR_DELETE", k.ver # Latest(p)
          PROVE  \E n \in Statuses(p)' : n.reason = "OFPPR_ADD" /\ n.ver = k.ver + 1
      <4>1. PICK n \in Statuses(p) : n.reason = "OFPPR_ADD" /\ n.ver = k.ver + 1
        BY <2>2, <2>11, <3>2 DEF AnnouncedInTurn
      <4>2. n # m
        BY <2>2, <3>2, <4>1
      <4>. QED  BY <1>2, <4>1, <4>2 DEF FirstOf
    <3>. QED  BY <2>1, <3>1, <3>2 DEF AnnouncedInTurn
  <2>12. ASSUME AnnouncedInTurn(p), EventIsTrue(p) PROVE EventIsTrue(p)'
    <3>1. CASE m.reason = "OFPPR_DELETE"
      <4>1. event'[p] = "deleted" /\ intf'[p].known
        BY <1>3, <3>1 DEF Applied
      <4>2. ASSUME m.ver # Latest(p)
            PROVE  \E n \in Statuses(p)' : /\ n.reason = "OFPPR_ADD"
                                           /\ \A k \in Statuses(p)' : n.ver <= k.ver
        <5>1. PICK n \in Statuses(p) : n.reason = "OFPPR_ADD" /\ n.ver = m.ver + 1
          BY <2>2, <2>12, <3>1, <4>2 DEF AnnouncedInTurn
        <5>2. n \in Statuses(p)'
          BY <1>2, <2>2, <5>1 DEF FirstOf
        <5>. QED  BY <2>2, <5>1, <5>2
      <4>3. CASE m.ver = Latest(p)
        BY <1>4, <2>5, <3>1, <4>1, <4>3 DEF EventIsTrue
      <4>4. CASE m.ver # Latest(p)
        BY <4>1, <4>2, <4>4 DEF EventIsTrue
      <4>. QED  BY <4>3, <4>4
    <3>2. CASE m.reason # "OFPPR_DELETE"
      <4>1. intf'[p].known /\ intf'[p].state = m.state
        BY <1>3, <3>2 DEF Applied
      <4>2. port[p].present \/ Statuses(p)' # {}
        BY <2>5, <2>9, <2>12, <3>2
      <4>3. event[p] # "deleted" \/ m.reason = "OFPPR_ADD"
        <5>1. ASSUME NEW n \in Statuses(p), n.reason = "OFPPR_ADD", n.ver <= m.ver
              PROVE  m.reason = "OFPPR_ADD"
          BY <1>2, <2>2, <5>1 DEF FirstOf
        <5>. QED  BY <2>2, <2>12, <5>1 DEF EventIsTrue
      <4>4. \/ event'[p] = "created"
            \/ event'[p] = LinkStatus(m.state)
            \/ event'[p] = event[p] /\ event[p] # "deleted"
               /\ LinkStatus(intf[p].state) = LinkStatus(m.state)
        BY <1>3, <2>2, <3>2, <4>3 DEF Applied, Reasons
      <4>5. /\ event'[p] \in {"link_up", "link_down"} => event'[p] = LinkStatus(intf'[p].state)
            /\ event'[p] # "deleted"
        BY <2>12, <4>1, <4>4 DEF EventIsTrue, LinkStatus
      <4>. QED  BY <1>4, <4>1, <4>2, <4>5 DEF EventIsTrue
    <3>. QED  BY <3>1, <3>2
  <2>13. ASSUME AnnouncedInTurn(p), DescribedIsAnnounced(p) PROVE DescribedIsAnnounced(p)'
    <3>1. ASSUME port[p].present PROVE intf'[p].ver = Latest(p) \/ Statuses(p)' # {}
      BY <1>3, <2>5, <2>9, <2>13, <3>1 DEF Applied
    <3>2. ASSUME NEW e \in Described(p)
          PROVE  \/ Tell(intf[p], e)'
                 \/ \E k \in Statuses(p)' : Tell(k, e) /\ k.reason # "OFPPR_DELETE"
      <4>1. ~Tell(intf[p], e)
        BY <2>2, <2>4, <3>2 DEF Tell
      <4>2. PICK k \in Statuses(p) : Tell(k, e) /\ k.reason # "OFPPR_DELETE"
        BY <2>2, <2>4, <2>13, <3>2, <4>1 DEF DescribedIsAnnounced
      <4>3. CASE k = m
        BY <1>3, <4>2, <4>3 DEF Applied, Tell
      <4>4. CASE k \in Statuses(p)'
        BY <4>2, <4>4
      <4>. QED  BY <1>2, <4>3, <4>4 DEF FirstOf
    <3>. QED  BY <1>2, <1>4, <2>1, <3>1, <3>2 DEF DescribedIsAnnounced, FirstOf, Tell
  <2>. QED  BY <1>4, <2>1, <2>6, <2>7, <2>8, <2>10, <2>11, <2>12, <2>13 DEF PortNews
<1>. QED  BY <1>7, <1>8 DEF NewsInv
-------------------------------------------------------------------------------
(* The invariant of the interfaces, and what it is for.                    *)

LEMMA InitNews ==
  ASSUME Init
  PROVE  NewsInv
<1>1. /\ wire = <<>> /\ remaining = <<>> /\ batch = <<>> /\ unprocessed = <<>> /\ rawIn = <<>>
      /\ multipart = {} /\ assembled = {} /\ link = "new"
  BY DEF Init
<1>2. Line = {} /\ Waiting = {}
  BY <1>1, NoMessages DEF Held, Line, Waiting
<1>3. SUFFICES ASSUME NEW p \in Ports PROVE PortNews(p)
  BY DEF NewsInv
<1>4. Statuses(p) = {} /\ Described(p) = {} /\ WaitingFor(p) = {}
  BY <1>2 DEF Statuses, Described, WaitingFor
<1>5. port[p].ver = 1 /\ port[p].present /\ ~port[p].silent /\ intf[p].ver = 0 /\ event[p] = "none"
  BY DEF Init
<1>6. StatusIsTrue(p) /\ DescriptionIsTrue(p) /\ InterfaceIsTrue(p)
  BY <1>4, <1>5 DEF StatusIsTrue, DescriptionIsTrue, InterfaceIsTrue, Latest
<1>7. SilentIsSilent(p) /\ NewestComes(p)
  BY <1>1, <1>5 DEF SilentIsSilent, NewestComes, Known
<1>8. AnnouncedInTurn(p) /\ EventIsTrue(p) /\ DescribedIsAnnounced(p)
  BY <1>4, <1>5 DEF AnnouncedInTurn, EventIsTrue, DescribedIsAnnounced
<1>. QED  BY <1>6, <1>7, <1>8 DEF PortNews

LEMMA StepsNews ==
  ASSUME Sequential, ~MultiPart, TypeOK, TypeOK', NumbersInv, MessagesInv, NewsInv, [Next]_vars
  PROVE  NewsInv'
<1>1. CASE Next
  <2>1. CASE FeaturesReply
    BY <1>1, <2>1, BindNews, PopsNews DEF FeaturesReply
  <2>2. CASE Switch
    BY <1>1, <2>2, ChangesNews, DescribesNews DEF Switch
  <2>3. CASE Reads
    BY <1>1, <2>3, TasksNews DEF Reads
  <2>4. CASE RawInLoop
    BY <1>1, <2>4, TasksNews, TasksForget, GathersNews, StatusNews, HandlesNews DEF RawInLoop
  <2>5. CASE ConnectionLost \/ Reconnect \/ ConnectionError
    BY <1>1, <2>5, LostNews, ReconnectNews, PopsNews
  <2>. QED  BY <1>1, <2>1, <2>2, <2>3, <2>4, <2>5 DEF Next
<1>2. CASE UNCHANGED vars
  <2>1. SUFFICES ASSUME NEW p \in Ports PROVE PortNews(p)'
    BY DEF NewsInv
  <2>2. Line' = Line /\ Waiting' = Waiting
    BY <1>2 DEF vars, Line, Held, Arrived, Waiting
  <2>3. Statuses(p)' = Statuses(p) /\ Described(p)' = Described(p) /\ WaitingFor(p)' = WaitingFor(p)
    BY <2>2, SameLine DEF WaitingFor
  <2>4. /\ UNCHANGED <<port, intf, event, aborted, link, unanswered, xidSeqNum, seenNum>>
        /\ Alive' = Alive /\ Known' = Known
    BY <1>2 DEF vars, Alive, Known
  <2>. QED  BY <2>3, <2>4, KeptNews DEF NewsInv, Late
<1>. QED  BY <1>1, <1>2

\* Handlers that run one after the other, replies of one message: the numbers and
\* the order of the messages are as they should be, the latest version of each
\* port is applied or still to come, and what was announced of it is true or will
\* be announced anew.
THEOREM PortInvariant == ASSUME Sequential, ~MultiPart PROVE Spec => []PortInv
<1>1. Init => NewsInv
  BY InitNews
<1>2. TypeOK /\ TypeOK' /\ NumbersInv /\ MessagesInv /\ NewsInv /\ [Next]_vars => NewsInv'
  BY StepsNews
<1>. QED
  BY <1>1, <1>2, TypeCorrect, NumbersInvariant, MessagesInvariant, PTL DEF Spec, PortInv

\* What is true once all is handled.
LEMMA NothingLeft ==
  ASSUME NumbersInv, Quiet, NEW p
  PROVE  Statuses(p) = {} /\ Described(p) = {} /\ WaitingFor(p) = {}
<1>1. /\ wire = <<>> /\ rawIn = <<>> /\ remaining = <<>> /\ batch = <<>> /\ unprocessed = <<>>
      /\ multipart = {} /\ assembled = {}
  BY DEF Quiet, NumbersInv, HandlersInTurn
<1>2. Line = {} /\ Waiting = {}
  BY <1>1, NoMessages DEF Held, Line, Waiting
<1>. QED  BY <1>2 DEF Statuses, Described, WaitingFor

LEMMA QuietFollows ==
  ASSUME PortInv, Quiet, ~aborted, NEW p \in Ports
  PROVE  Follows(p)
<1>1. Statuses(p) = {} /\ Described(p) = {} /\ WaitingFor(p) = {}
  BY NothingLeft DEF PortInv
<1>2. Known /\ \A x \in Requests : unanswered[x] = {}
  BY DEF Quiet
<1>3. NewestComes(p) /\ InterfaceIsTrue(p)
  BY DEF PortInv, NewsInv, PortNews
<1>4. CASE port[p].present
  <2>1. intf[p].ver = Latest(p)
    BY <1>1, <1>2, <1>3, <1>4 DEF NewestComes
  <2>. QED  BY <1>3, <1>4, <2>1 DEF Follows, InterfaceIsTrue, Latest
<1>5. CASE ~port[p].present
  BY <1>1, <1>3, <1>5 DEF Follows, NewestComes, Gone
<1>. QED  BY <1>4, <1>5

\* When all is handled every interface is what its port is, for any number of
\* ports, changes, replies, raw events, losses and late errors: no update was
\* skipped that was not superseded, but for what a task lost that ended with an
\* exception.
THEOREM PortsAreFollowed == ASSUME Sequential, ~MultiPart PROVE Spec => []InterfacesFollowPorts
<1>1. PortInv => InterfacesFollowPorts
  BY QuietFollows DEF InterfacesFollowPorts
<1>. QED  BY <1>1, PortInvariant, PTL

LEMMA QuietEvents ==
  ASSUME PortInv, Quiet, ~aborted, NEW p \in Ports
  PROVE  /\ event[p] \in {"link_up", "link_down"} =>
               intf[p].known /\ event[p] = LinkStatus(intf[p].state)
         /\ event[p] = "created" => intf[p].known /\ port[p].present
         /\ event[p] = "deleted" => ~intf[p].active /\ ~port[p].present
<1>1. Statuses(p) = {}
  BY NothingLeft DEF PortInv
<1>2. Alive
  BY DEF Quiet, Known, Alive
<1>3. EventIsTrue(p) /\ NewestComes(p) /\ SilentIsSilent(p)
  BY <1>2 DEF PortInv, NewsInv, PortNews
<1>4. CASE event[p] \in {"created", "link_up", "link_down"}
  BY <1>1, <1>3, <1>4 DEF EventIsTrue
<1>5. CASE event[p] = "deleted"
  <2>1. ~port[p].present
    BY <1>1, <1>3, <1>5 DEF EventIsTrue
  <2>2. ~port[p].silent
    BY <1>2, <1>3, <1>5 DEF SilentIsSilent
  <2>. QED  BY <1>1, <1>3, <1>5, <2>1, <2>2 DEF NewestComes, Gone
<1>. QED  BY <1>4, <1>5

\* The last event about an interface is true of it when all is handled, although
\* descriptions change interfaces without an event: they tell nothing of an
\* announced port that was not announced.
THEOREM EventsAreTrue == ASSUME Sequential, ~MultiPart PROVE Spec => []EventsTellTheState
<1>1. PortInv => EventsTellTheState
  BY QuietEvents DEF EventsTellTheState
<1>. QED  BY <1>1, PortInvariant, PTL
===============================================================================
