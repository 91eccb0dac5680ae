--------------------------- MODULE PortUpdatesProofs ---------------------------
(***************************************************************************)
(* Proofs about PortUpdates, for any number of ports, changes, features    *)
(* replies and lost connections, in two parts: types and numbers; the order*)
(* of messages.  What is told of the ports is in PortNewsProofs.           *)
(***************************************************************************)
EXTENDS PortInvariants, SequenceTheorems, TLAPS

-------------------------------------------------------------------------------
(* Part 1.  The variables keep their types and, with handlers that run one *)
(* after the other, no PORT_STATUS is taken for late.                      *)
(*                                                                         *)
(* Types.                                                                  *)

\* A message is a PORT_STATUS, or a part of the answer to a request.
LEMMA MessageIs ==
  ASSUME NEW m \in Message
  PROVE  /\ m.xid \in Xids
         /\ m.xid = 0 => /\ m.port \in Ports /\ m.ver \in Nat /\ m.state \in States
                         /\ m.reason \in Reasons
         /\ m.xid # 0 => m.xid \in Requests /\ m.entries \subseteq Description
<1>1. 0 \notin Requests
  BY DEF Requests
<1>2. CASE m \in [xid : {0}, reason : Reasons, port : Ports, ver : Nat, state : States]
  BY <1>2 DEF Xids
<1>3. CASE m \in [xid : Requests, entries : SUBSET Description]
  BY <1>1, <1>3 DEF Xids
<1>. QED  BY <1>2, <1>3 DEF Message

LEMMA InitTypeOK == Init => TypeOK
<1>1. SUFFICES ASSUME Init PROVE TypeOK
  OBVIOUS
<1>2. MaxReplies \in Nat
  BY PortAssumption
<1>3. /\ unanswered \in [Requests -> SUBSET Ports] /\ xidSeqNum \in [Xids -> Nat]
      /\ seenNum \in [Ports -> Nat]
      /\ event \in [Ports -> {"none", "created", "deleted", "link_up", "link_down"}]
  BY <1>1 DEF Init
<1>4. port \in [Ports -> [ver : Nat, present : BOOLEAN, silent : BOOLEAN, state : States]]
  BY <1>1 DEF Init
<1>5. intf \in [Ports -> [known : BOOLEAN, ver : Nat, state : States \union {0},
                          active : BOOLEAN]]
  BY <1>1 DEF Init
<1>6. requests \in 0 .. MaxReplies /\ errors \in 0 .. losses
  BY <1>1, <1>2 DEF Init
<1>7. /\ wire = <<>> /\ rawIn = <<>> /\ remaining = <<>> /\ pc = "idle" /\ batch = <<>>
      /\ counted = FALSE /\ unprocessed = <<>> /\ multipart = {} /\ assembled = {}
      /\ thread = "idle" /\ established = FALSE /\ link = "new" /\ losses = 0
      /\ msgSeqCnt = 0 /\ aborted = FALSE
  BY <1>1 DEF Init
<1>8. /\ wire \in Seq(Message) /\ remaining \in Seq(Message) /\ batch \in Seq(Message)
      /\ unprocessed \in Seq(Message) /\ rawIn \in Seq([msgs : Seq(Message), known : BOOLEAN])
  BY <1>7
<1>9. /\ multipart \subseteq Description /\ assembled \subseteq Description
      /\ pc = "update" => batch # <<>> /\ Head(batch).xid = 0
  BY <1>7
<1>10. /\ pc \in {"idle", "batch", "update"} /\ counted \in BOOLEAN
       /\ thread \in {"idle", "bound", "seen", "xids", "popped"} /\ established \in BOOLEAN
       /\ link \in {"new", "bound", "lost"} /\ losses \in Nat /\ msgSeqCnt \in Nat
       /\ aborted \in BOOLEAN
  BY <1>7
<1>. QED  BY <1>3, <1>4, <1>5, <1>6, <1>8, <1>9, <1>10 DEF TypeOK

LEMMA SwitchType ==
  ASSUME TypeOK, Switch
  PROVE  TypeOK'
<1>. USE DEF taskVars, replyVars, linkVars, seqVars, intfVars
<1>1. ASSUME NEW p \in Ports, NEW reason \in Reasons, NEW state \in States,
             SwitchChanges(p, reason, state)
      PROVE  TypeOK'
  <2> DEFINE d == [ver |-> port[p].ver + 1, present |-> reason # "OFPPR_DELETE",
                   silent |-> reason = "OFPPR_DELETE" /\ ~Alive, state |-> state]
  <2>0. d \in [ver : Nat, present : BOOLEAN, silent : BOOLEAN, state : States]
    <3>1. port[p].ver + 1 \in Nat
      BY DEF TypeOK
    <3>. QED  BY <3>1
  <2>1. port' \in [Ports -> [ver : Nat, present : BOOLEAN, silent : BOOLEAN, state : States]]
    <3>1. port' = [port EXCEPT ![p] = d]
      BY <1>1 DEF SwitchChanges
    <3>. HIDE DEF d
    <3>. QED  BY <2>0, <3>1 DEF TypeOK
  <2>2. port'[p].ver \in Nat
    BY <2>1
  <2> DEFINE m == [xid |-> 0, reason |-> reason, port |-> p, ver |-> port'[p].ver,
                   state |-> state]
  <2>3. m \in Message
    BY <2>2 DEF Message
  <2>4. wire' \in Seq(Message)
    <3>1. CASE Alive
      <4>1. wire' = Append(wire, m) /\ wire \in Seq(Message)
        BY <1>1, <3>1 DEF SwitchChanges, TypeOK
      <4>. HIDE DEF m
      <4>. QED  BY <2>3, <4>1, AppendProperties
    <3>2. CASE ~Alive
      BY <1>1, <3>2 DEF SwitchChanges, TypeOK
    <3>. QED  BY <3>1, <3>2
  <2>. QED  BY <1>1, <2>1, <2>4, SMTT(40) DEF SwitchChanges, TypeOK
<1>2. ASSUME NEW x \in Requests, NEW ps \in SUBSET unanswered[x], SwitchDescribes(x, ps)
      PROVE  TypeOK'
  <2>1. unanswered[x] \subseteq Ports
    BY DEF TypeOK
  <2>2. ASSUME NEW p \in ps PROVE Entry(x, p) \in Description
    <3>1. p \in Ports /\ port[p].ver \in Nat /\ port[p].state \in States
      BY <2>1 DEF TypeOK
    <3>. QED  BY <3>1 DEF Entry, Description
  <2>3. [xid |-> x, entries |-> {Entry(x, p) : p \in {q \in ps : port[q].present}}] \in Message
    BY <2>2 DEF Message
  <2>4. wire' \in Seq(Message)
    BY <1>2, <2>3 DEF SwitchDescribes, TypeOK
  <2>5. unanswered' \in [Requests -> SUBSET Ports]
    BY <1>2, <2>1 DEF SwitchDescribes, TypeOK
  <2>. QED  BY <1>2, <2>4, <2>5 DEF SwitchDescribes, TypeOK
<1>. QED  BY <1>1, <1>2 DEF Switch

LEMMA ReplyType ==
  ASSUME TypeOK, FeaturesReply
  PROVE  TypeOK'
<1>. USE DEF switchVars, taskVars, linkVars, seqVars, intfVars
<1>1. CASE Bind
  <2>1. requests' \in 0 .. MaxReplies
    BY <1>1, PortAssumption DEF Bind, TypeOK
  <2>2. unanswered' \in [Requests -> SUBSET Ports]
    BY <1>1 DEF Bind, TypeOK
  <2>. QED  BY <1>1, <2>1, <2>2 DEF Bind, TypeOK
<1>2. CASE PopSeenNum
  <2>1. seenNum' \in [Ports -> Nat]
    BY <1>2 DEF PopSeenNum
  <2>. QED  BY <1>2, <2>1 DEF PopSeenNum, TypeOK
<1>3. CASE PopXidSeqNum
  <2>1. xidSeqNum' \in [Xids -> Nat]
    BY <1>3 DEF PopXidSeqNum
  <2>. QED  BY <1>3, <2>1 DEF PopXidSeqNum, TypeOK
<1>4. CASE PopMsgSeqCnt
  BY <1>4 DEF PopMsgSeqCnt, TypeOK
<1>5. CASE Establish
  <2>1. established' \in BOOLEAN
    BY <1>5 DEF Establish, TypeOK
  <2>. QED  BY <1>5, <2>1 DEF Establish, TypeOK
<1>. QED  BY <1>1, <1>2, <1>3, <1>4, <1>5 DEF FeaturesReply

\* What is read is a cut of what was sent.
LEMMA ReadCut ==
  ASSUME NEW s \in Seq(Message), NEW n \in 0 .. Len(s)
  PROVE  /\ SubSeq(s, 1, n) \in Seq(Message) /\ SubSeq(s, n + 1, Len(s)) \in Seq(Message)
         /\ Len(SubSeq(s, 1, n)) = n /\ Len(SubSeq(s, n + 1, Len(s))) = Len(s) - n
         /\ \A i \in 1 .. n : SubSeq(s, 1, n)[i] = s[i]
         /\ \A i \in 1 .. Len(s) - n : SubSeq(s, n + 1, Len(s))[i] = s[n + i]
<1>1. Len(s) \in Nat /\ \A i \in 1 .. Len(s) : s[i] \in Message
  OBVIOUS
<1>2. SubSeq(s, 1, n) = [i \in 1 .. n |-> s[i]]
  BY <1>1
<1>3. SubSeq(s, n + 1, Len(s)) = [i \in 1 .. Len(s) - n |-> s[n + i]]
  BY <1>1
<1>. QED  BY <1>1, <1>2, <1>3

LEMMA ReadType ==
  ASSUME TypeOK, Reads
  PROVE  TypeOK'
<1>. USE DEF taskVars, replyVars, linkVars, seqVars, intfVars
<1>1. PICK n \in 0 .. Len(wire) : ReadRaw(n)
  BY DEF Reads
<1>2. wire \in Seq(Message)
  BY DEF TypeOK
<1>3. SubSeq(wire, 1, n) \in Seq(Message) /\ wire' \in Seq(Message)
  BY <1>1, <1>2, ReadCut DEF ReadRaw
<1>4. rawIn' \in Seq([msgs : Seq(Message), known : BOOLEAN])
  <2>1. [msgs |-> SubSeq(wire, 1, n), known |-> Known] \in [msgs : Seq(Message), known : BOOLEAN]
    BY <1>3 DEF Known
  <2>. QED  BY <1>1, <2>1 DEF ReadRaw, TypeOK
<1>. QED  BY <1>1, <1>3, <1>4, SMTT(40) DEF ReadRaw, TypeOK

LEMMA CountType ==
  ASSUME TypeOK, NEW x \in Xids, CountMessage(x)
  PROVE  msgSeqCnt' \in Nat /\ xidSeqNum' \in [Xids -> Nat]
<1>1. /\ msgSeqCnt \in Nat /\ xidSeqNum \in [Xids -> Nat]
      /\ counted => msgSeqCnt' = msgSeqCnt + 1
                    /\ xidSeqNum' = [xidSeqNum EXCEPT ![x] = msgSeqCnt + 1]
      /\ ~counted => msgSeqCnt' = msgSeqCnt /\ xidSeqNum' = xidSeqNum
  BY DEF CountMessage, TypeOK
<1>2. msgSeqCnt + 1 \in Nat
  BY <1>1
<1>. QED  BY <1>1, <1>2

\* The running task.
LEMMA TaskType ==
  ASSUME TypeOK,
         StartBatch \/ DeferMessage \/ GatherPortDesc \/ EmitPortStatus
            \/ ReturnIfDead \/ EndBatch \/ UpdateRaises
  PROVE  TypeOK'
<1>. USE DEF switchVars, taskVars, replyVars, linkVars, seqVars, intfVars
<1>1. ASSUME batch # <<>>
      PROVE  /\ Head(batch) \in Message /\ Head(batch).xid \in Xids /\ Tail(batch) \in Seq(Message)
             /\ Head(batch).xid # 0 => Head(batch).entries \subseteq Description
  <2>1. Head(batch) \in Message /\ Tail(batch) \in Seq(Message)
    BY <1>1, HeadTailProperties DEF TypeOK
  <2>. QED  BY <2>1, MessageIs
<1>2. 0 \in Xids /\ <<>> \in Seq(Message) /\ {} \subseteq Description
  BY DEF Xids
<1>3. CASE StartBatch
  <2>1. Head(rawIn) \in [msgs : Seq(Message), known : BOOLEAN]
        /\ rawIn' \in Seq([msgs : Seq(Message), known : BOOLEAN])
    <3>1. rawIn \in Seq([msgs : Seq(Message), known : BOOLEAN]) /\ rawIn # <<>>
          /\ rawIn' = Tail(rawIn)
      BY <1>3 DEF StartBatch, TypeOK
    <3>. QED  BY <3>1, HeadTailProperties
  <2>2. batch' \in Seq(Message) /\ counted' \in BOOLEAN
    BY <1>3, <2>1, ConcatProperties DEF StartBatch, TypeOK
  <2>. QED  BY <1>3, <2>1, <2>2, SMTT(40) DEF StartBatch, TypeOK
<1>4. CASE DeferMessage
  <2>1. unprocessed' \in Seq(Message) /\ batch' \in Seq(Message)
    BY <1>1, <1>4, AppendProperties DEF DeferMessage, TypeOK
  <2>2. msgSeqCnt' \in Nat /\ xidSeqNum' \in [Xids -> Nat]
    BY <1>1, <1>4, CountType DEF DeferMessage
  <2>. QED  BY <1>4, <2>1, <2>2 DEF DeferMessage, TypeOK
<1>5. CASE GatherPortDesc
  <2>1. multipart' \subseteq Description /\ batch' \in Seq(Message)
    BY <1>1, <1>5 DEF GatherPortDesc, TypeOK
  <2>2. msgSeqCnt' \in Nat /\ xidSeqNum' \in [Xids -> Nat]
    BY <1>1, <1>5, CountType DEF GatherPortDesc
  <2>. QED  BY <1>5, <2>1, <2>2 DEF GatherPortDesc, TypeOK
<1>6. CASE EmitPortStatus
  <2>1. msgSeqCnt' \in Nat /\ xidSeqNum' \in [Xids -> Nat]
    BY <1>2, <1>6, CountType DEF EmitPortStatus
  <2>. QED  BY <1>6, <2>1 DEF EmitPortStatus, TypeOK
<1>7. CASE ReturnIfDead
  <2>1. /\ pc' = "idle" /\ batch' \in Seq(Message) /\ unprocessed' \in Seq(Message)
        /\ multipart' \subseteq Description /\ counted' \in BOOLEAN /\ aborted' \in BOOLEAN
    BY <1>2, <1>7 DEF ReturnIfDead, TypeOK
  <2>. QED  BY <1>7, <2>1 DEF ReturnIfDead, TypeOK
<1>8. CASE EndBatch
  <2>1. remaining' \in Seq(Message) /\ assembled' \subseteq Description
    BY <1>8, ConcatProperties DEF EndBatch, TypeOK
  <2>. QED  BY <1>8, <2>1 DEF EndBatch, TypeOK
<1>9. CASE UpdateRaises
  <2>1. /\ pc' = "idle" /\ batch' \in Seq(Message) /\ unprocessed' \in Seq(Message)
        /\ multipart' \subseteq Description /\ counted' \in BOOLEAN /\ aborted' \in BOOLEAN
    BY <1>2, <1>9 DEF UpdateRaises, TypeOK
  <2>. QED  BY <1>9, <2>1 DEF UpdateRaises, TypeOK
<1>. QED  BY <1>3, <1>4, <1>5, <1>6, <1>7, <1>8, <1>9

LEMMA UpdatedType ==
  ASSUME TypeOK, NEW p \in Ports, NEW d, d.ver \in Nat, d.state \in States
  PROVE  Updated(p, d) \in [Ports -> [known : BOOLEAN, ver : Nat, state : States \union {0},
                                      active : BOOLEAN]]
<1>1. [known |-> TRUE, ver |-> d.ver, state |-> d.state, active |-> Activated(p, d.state)]
         \in [known : BOOLEAN, ver : Nat, state : States \union {0}, active : BOOLEAN]
  BY DEF Activated
<1>. QED  BY <1>1 DEF Updated, TypeOK

LEMMA UpdateType ==
  ASSUME TypeOK, UpdatePortStatus \/ \E e \in assembled : HandlePortDesc(e)
  PROVE  TypeOK'
<1>. USE DEF switchVars, taskVars, replyVars, linkVars, seqVars, intfVars
<1>1. CASE UpdatePortStatus
  <2> DEFINE m == Head(batch)
             p == m.port
  <2>1. /\ m \in Message /\ m.xid = 0 /\ batch' \in Seq(Message)
        /\ p \in Ports /\ m.ver \in Nat /\ m.state \in States /\ m.reason \in Reasons
    <3>1. m \in Message /\ m.xid = 0 /\ Tail(batch) \in Seq(Message)
      BY <1>1, HeadTailProperties DEF UpdatePortStatus, TypeOK
    <3>. QED  BY <1>1, <3>1, MessageIs DEF UpdatePortStatus, NextInBatch
  <2>2. pc' = "batch"
    BY <1>1 DEF UpdatePortStatus, NextInBatch
  <2>3. CASE Late(p, 0)
    BY <1>1, <2>1, <2>2, <2>3 DEF UpdatePortStatus, TypeOK
  <2>4. CASE ~Late(p, 0)
    <3>1. /\ intf' = IF m.reason = "OFPPR_DELETE" THEN [intf EXCEPT ![p].active = FALSE]
                     ELSE Updated(p, m)
          /\ event' = [event EXCEPT ![p] = EventOf(m, intf[p])]
          /\ seenNum' = [seenNum EXCEPT ![p] = xidSeqNum[0]]
      BY <1>1, <2>4 DEF UpdatePortStatus
    <3>2. intf' \in [Ports -> [known : BOOLEAN, ver : Nat, state : States \union {0},
                               active : BOOLEAN]]
      <4>1. [intf EXCEPT ![p].active = FALSE] \in
               [Ports -> [known : BOOLEAN, ver : Nat, state : States \union {0},
                          active : BOOLEAN]]
        BY <2>1, ZenonT(40) DEF TypeOK
      <4>. QED  BY <2>1, <3>1, <4>1, UpdatedType
    <3>3. EventOf(m, intf[p]) \in {"none", "created", "deleted", "link_up", "link_down"}
      BY <2>1 DEF EventOf, LinkEvent, LinkStatus, TypeOK
    <3>4. event' \in [Ports -> {"none", "created", "deleted", "link_up", "link_down"}]
      <4>. HIDE DEF m, p
      <4>. QED  BY <3>1, <3>3 DEF TypeOK
    <3>5. seenNum' \in [Ports -> Nat]
      BY <3>1 DEF TypeOK, Xids
    <3>. QED  BY <1>1, <2>1, <2>2, <3>2, <3>4, <3>5 DEF UpdatePortStatus, TypeOK
  <2>. QED  BY <2>3, <2>4
<1>2. ASSUME NEW e \in assembled, HandlePortDesc(e) PROVE TypeOK'
  <2>1. e.xid \in Xids /\ e.port \in Ports /\ e.ver \in Nat /\ e.state \in States
    BY DEF TypeOK, Description, Xids
  <2>2. CASE Late(e.port, e.xid)
    BY <1>2, <2>2 DEF HandlePortDesc, TypeOK
  <2>3. CASE ~Late(e.port, e.xid)
    <3>1. intf' = Updated(e.port, e) /\ seenNum' = [seenNum EXCEPT ![e.port] = xidSeqNum[e.xid]]
      BY <1>2, <2>3 DEF HandlePortDesc
    <3>2. intf' \in [Ports -> [known : BOOLEAN, ver : Nat, state : States \union {0},
                               active : BOOLEAN]]
      BY <2>1, <3>1, UpdatedType
    <3>3. seenNum' \in [Ports -> Nat]
      BY <2>1, <3>1 DEF TypeOK
    <3>. QED  BY <1>2, <3>2, <3>3, ZenonT(40) DEF HandlePortDesc, TypeOK
  <2>. QED  BY <2>2, <2>3
<1>. QED  BY <1>1, <1>2

LEMMA LossType ==
  ASSUME TypeOK, ConnectionLost \/ Reconnect \/ ConnectionError
  PROVE  TypeOK'
<1>. USE DEF switchVars, taskVars, replyVars, linkVars, seqVars, intfVars
<1>1. CASE ConnectionLost
  <2>1. port' \in [Ports -> [ver : Nat, present : BOOLEAN, silent : BOOLEAN, state : States]]
    <3>1. ASSUME NEW p \in Ports
          PROVE  [port[p] EXCEPT !.silent = ~port[p].present]
                    \in [ver : Nat, present : BOOLEAN, silent : BOOLEAN, state : States]
      BY ZenonT(40) DEF TypeOK
    <3>. QED  BY <1>1, <3>1 DEF ConnectionLost
  <2>2. losses' \in Nat /\ errors' \in 0 .. losses'
    BY <1>1 DEF ConnectionLost, TypeOK
  <2>3. unanswered' \in [Requests -> SUBSET Ports]
    BY <1>1 DEF ConnectionLost
  <2>. QED  BY <1>1, <2>1, <2>2, <2>3, SMTT(40) DEF ConnectionLost, TypeOK
<1>2. CASE Reconnect
  <2>1. event' \in [Ports -> {"none", "created", "deleted", "link_up", "link_down"}]
    BY <1>2 DEF Reconnect
  <2>. QED  BY <1>2, <2>1 DEF Reconnect, TypeOK
<1>3. CASE ConnectionError
  <2>1. seenNum' \in [Ports -> Nat] /\ xidSeqNum' \in [Xids -> Nat] /\ msgSeqCnt' \in Nat
    BY <1>3 DEF ConnectionError
  <2>2. errors' \in 0 .. losses'
    BY <1>3 DEF ConnectionError, TypeOK
  <2>. QED  BY <1>3, <2>1, <2>2 DEF ConnectionError, TypeOK
<1>. QED  BY <1>1, <1>2, <1>3

LEMMA NextTypeOK == TypeOK /\ [Next]_vars => TypeOK'
<1>1. SUFFICES ASSUME TypeOK, [Next]_vars PROVE TypeOK'
  OBVIOUS
<1>2. CASE UNCHANGED vars
  BY <1>1, <1>2 DEF vars, TypeOK
<1>3. CASE RawInLoop
  BY <1>1, <1>3, TaskType, UpdateType DEF RawInLoop
<1>. QED  BY <1>1, <1>2, <1>3, SwitchType, ReplyType, ReadType, LossType DEF Next

\* Every variable has its type, whatever interleaves.
THEOREM TypeCorrect == Spec => []TypeOK
BY InitTypeOK, NextTypeOK, PTL DEF Spec

-------------------------------------------------------------------------------
(* Replies and raw events.                                                 *)

\* What has no reply has none when it is cut, extended or joined.
LEMMA NoReply ==
  ~HasReply(<<>>)
BY DEF HasReply

LEMMA AppendedReply ==
  ASSUME NEW s \in Seq(Message), NEW m \in Message, HasReply(Append(s, m))
  PROVE  HasReply(s) \/ m.xid # 0
<1>1. /\ Append(s, m) \in Seq(Message) /\ Len(Append(s, m)) = Len(s) + 1
      /\ \A i \in 1 .. Len(s) : Append(s, m)[i] = s[i]
      /\ Append(s, m)[Len(s) + 1] = m
  BY AppendProperties
<1>2. Len(s) \in Nat /\ DOMAIN s = 1 .. Len(s)
  OBVIOUS
<1>3. DOMAIN Append(s, m) = 1 .. Len(s) + 1
  BY <1>1, LenProperties
<1>4. PICK i \in 1 .. Len(s) + 1 : Append(s, m)[i].xid # 0
  BY <1>3 DEF HasReply
<1>5. i \in 1 .. Len(s) \/ i = Len(s) + 1
  BY <1>2
<1>. QED  BY <1>1, <1>2, <1>4, <1>5 DEF HasReply

LEMMA TakenReply ==
  ASSUME NEW s \in Seq(Message), s # <<>>
  PROVE  /\ HasReply(Tail(s)) => HasReply(s)
         /\ Head(s).xid # 0 => HasReply(s)
<1>1. /\ Len(s) \in Nat \ {0} /\ DOMAIN s = 1 .. Len(s) /\ Head(s) = s[1]
      /\ Tail(s) \in Seq(Message) /\ Len(Tail(s)) = Len(s) - 1
      /\ \A i \in 1 .. Len(s) - 1 : Tail(s)[i] = s[i + 1]
  BY HeadTailProperties, EmptySeq
<1>2. DOMAIN Tail(s) = 1 .. Len(s) - 1
  BY <1>1, LenProperties
<1>3. 1 \in 1 .. Len(s) /\ \A i \in 1 .. Len(s) - 1 : i + 1 \in 1 .. Len(s)
  BY <1>1
<1>. QED  BY <1>1, <1>2, <1>3 DEF HasReply

LEMMA JoinedReply ==
  ASSUME NEW s \in Seq(Message), NEW t \in Seq(Message), HasReply(s \o t)
  PROVE  HasReply(s) \/ HasReply(t)
<1>1. Len(s) \in Nat /\ Len(t) \in Nat /\ DOMAIN s = 1 .. Len(s) /\ DOMAIN t = 1 .. Len(t)
  OBVIOUS
<1>2. /\ DOMAIN (s \o t) = 1 .. Len(s) + Len(t)
      /\ \A i \in 1 .. Len(s) + Len(t) :
            (s \o t)[i] = IF i <= Len(s) THEN s[i] ELSE t[i - Len(s)]
  BY ConcatProperties, LenProperties
<1>3. PICK i \in 1 .. Len(s) + Len(t) : (s \o t)[i].xid # 0
  BY <1>2 DEF HasReply
<1>4. CASE i <= Len(s)
  <2>1. i \in 1 .. Len(s)
    BY <1>1, <1>4
  <2>. QED  BY <1>1, <1>2, <1>3, <1>4, <2>1 DEF HasReply
<1>5. CASE ~(i <= Len(s))
  <2>1. i - Len(s) \in 1 .. Len(t)
    BY <1>1, <1>5
  <2>. QED  BY <1>1, <1>2, <1>3, <1>5, <2>1 DEF HasReply
<1>. QED  BY <1>4, <1>5

LEMMA CutReply ==
  ASSUME NEW s \in Seq(Message), NEW n \in 0 .. Len(s),
         HasReply(SubSeq(s, 1, n)) \/ HasReply(SubSeq(s, n + 1, Len(s)))
  PROVE  HasReply(s)
<1>1. Len(s) \in Nat /\ DOMAIN s = 1 .. Len(s)
  OBVIOUS
<1>2. DOMAIN SubSeq(s, 1, n) = 1 .. n /\ DOMAIN SubSeq(s, n + 1, Len(s)) = 1 .. Len(s) - n
  BY ReadCut, LenProperties
<1>3. /\ \A i \in 1 .. n : i \in DOMAIN s /\ SubSeq(s, 1, n)[i] = s[i]
      /\ \A i \in 1 .. Len(s) - n : n + i \in DOMAIN s /\ SubSeq(s, n + 1, Len(s))[i] = s[n + i]
  BY <1>1, ReadCut
<1>. QED  BY <1>2, <1>3 DEF HasReply

\* The raw events after one more was read, and after the first was taken.
LEMMA RawInRead ==
  ASSUME TypeOK, NEW n \in 0 .. Len(wire), ReadRaw(n)
  PROVE  /\ Len(rawIn) \in Nat /\ DOMAIN rawIn = 1 .. Len(rawIn)
         /\ DOMAIN rawIn' = 1 .. Len(rawIn) + 1
         /\ \A i \in DOMAIN rawIn : rawIn'[i] = rawIn[i]
         /\ rawIn'[Len(rawIn) + 1].msgs = SubSeq(wire, 1, n)
         /\ rawIn'[Len(rawIn) + 1].known = Known
         /\ \A i \in DOMAIN rawIn' : i \in DOMAIN rawIn \/ i = Len(rawIn) + 1
<1> DEFINE r == [msgs |-> SubSeq(wire, 1, n), known |-> Known]
           R == [msgs : Seq(Message), known : BOOLEAN]
<1>1. rawIn \in Seq(R) /\ rawIn' = Append(rawIn, r)
  BY DEF ReadRaw, TypeOK
<1>2. r \in R
  <2>1. SubSeq(wire, 1, n) \in Seq(Message)
    BY ReadCut DEF TypeOK
  <2>. QED  BY <2>1 DEF Known
<1>3. r.msgs = SubSeq(wire, 1, n) /\ r.known = Known
  OBVIOUS
<1>. HIDE DEF r, R
<1>4. /\ Len(rawIn) \in Nat /\ DOMAIN rawIn = 1 .. Len(rawIn)
      /\ rawIn' \in Seq(R) /\ Len(rawIn') = Len(rawIn) + 1
      /\ \A i \in 1 .. Len(rawIn) : rawIn'[i] = rawIn[i]
      /\ rawIn'[Len(rawIn) + 1] = r
  BY <1>1, <1>2, AppendProperties, LenProperties
<1>5. DOMAIN rawIn' = 1 .. Len(rawIn) + 1
  BY <1>4, LenProperties
<1>. QED  BY <1>3, <1>4, <1>5

LEMMA RawInTaken ==
  ASSUME TypeOK, StartBatch
  PROVE  /\ DOMAIN rawIn = 1 .. Len(rawIn) /\ Len(rawIn) \in Nat \ {0}
         /\ DOMAIN rawIn' = 1 .. Len(rawIn) - 1
         /\ \A i \in DOMAIN rawIn' : i + 1 \in DOMAIN rawIn /\ rawIn'[i] = rawIn[i + 1]
         /\ 1 \in DOMAIN rawIn
         /\ counted' = rawIn[1].known /\ batch' = remaining \o rawIn[1].msgs
         /\ rawIn[1].msgs \in Seq(Message) /\ rawIn[1].known \in BOOLEAN
<1> DEFINE R == [msgs : Seq(Message), known : BOOLEAN]
<1>1. rawIn \in Seq(R) /\ rawIn # <<>> /\ rawIn' = Tail(rawIn)
  BY DEF StartBatch, TypeOK
<1>2. counted' = Head(rawIn).known /\ batch' = remaining \o Head(rawIn).msgs
  BY DEF StartBatch
<1>3. \A r \in R : r.msgs \in Seq(Message) /\ r.known \in BOOLEAN
  OBVIOUS
<1>. HIDE DEF R
<1>4. /\ Head(rawIn) \in R /\ Tail(rawIn) \in Seq(R) /\ Len(Tail(rawIn)) = Len(rawIn) - 1
      /\ \A i \in 1 .. Len(rawIn) - 1 : Tail(rawIn)[i] = rawIn[i + 1]
  BY <1>1, HeadTailProperties
<1>5. DOMAIN rawIn = 1 .. Len(rawIn) /\ Len(rawIn) \in Nat \ {0} /\ Head(rawIn) = rawIn[1]
  BY <1>1, EmptySeq, LenProperties
<1>6. DOMAIN rawIn' = 1 .. Len(rawIn) - 1
  BY <1>1, <1>4, LenProperties
<1>7. 1 \in DOMAIN rawIn /\ \A i \in 1 .. Len(rawIn) - 1 : i + 1 \in DOMAIN rawIn
  BY <1>5
<1>. QED  BY <1>1, <1>2, <1>3, <1>4, <1>5, <1>6, <1>7

-------------------------------------------------------------------------------
(* The invariant of the numbers.                                           *)

LEMMA InitNumbers == Init => NumbersInv
<1>1. SUFFICES ASSUME Init PROVE NumbersInv
  OBVIOUS
<1>2. HandlersInTurn
  BY <1>1 DEF Init, HandlersInTurn, Alive
<1>3. CountedInTurn
  BY <1>1 DEF Init, CountedInTurn, Uncounted
<1>4. RepliesAreCounted
  BY <1>1, NoReply DEF Init, RepliesAreCounted
<1>5. NumbersGiven
  BY <1>1 DEF Init, NumbersGiven
<1>. QED  BY <1>2, <1>3, <1>4, <1>5 DEF NumbersInv

\* The handlers that run one after the other: the thread of a features reply
\* when no task runs, the loop when no counter is half popped.
LEMMA Turns ==
  ASSUME Sequential
  PROVE  /\ ThreadMayRun => pc = "idle" /\ assembled = {}
         /\ LoopMayRun => thread \notin {"seen", "xids"}
         /\ MayArrive => pc = "idle"
BY DEF Sequential, ThreadMayRun, LoopMayRun, MayArrive

\* A step of the loop, of the switch or of a connection.
LEMMA StepIs ==
  ASSUME Sequential, Next
  PROVE  \/ FeaturesReply
         \/ /\ thread \notin {"seen", "xids"} /\ pc = "idle"
            /\ Switch \/ \E n \in 0 .. Len(wire) : ReadRaw(n)
         \/ /\ thread \notin {"seen", "xids"}
            /\ RawInLoop \/ ConnectionLost \/ Reconnect \/ ConnectionError
BY Turns DEF Next, Reads

LEMMA NextHandlers ==
  ASSUME Sequential, TypeOK, NumbersInv, Next
  PROVE  HandlersInTurn'
<1>. USE DEF switchVars, taskVars, replyVars, linkVars, seqVars, intfVars, Alive, Known,
             DuringSetup
<1>0. HandlersInTurn
  BY DEF NumbersInv
<1>1. CASE FeaturesReply
  <2>1. CASE Bind
    BY <1>0, <2>1, Turns DEF Bind, HandlersInTurn
  <2>2. CASE PopSeenNum
    BY <1>0, <2>2, Turns DEF PopSeenNum, HandlersInTurn
  <2>3. CASE PopXidSeqNum
    BY <1>0, <2>3 DEF PopXidSeqNum, HandlersInTurn
  <2>4. CASE PopMsgSeqCnt
    BY <1>0, <2>4 DEF PopMsgSeqCnt, HandlersInTurn
  <2>5. CASE Establish
    BY <1>0, <2>5, Turns DEF Establish, HandlersInTurn
  <2>. QED  BY <1>1, <2>1, <2>2, <2>3, <2>4, <2>5 DEF FeaturesReply
<1>2. CASE thread \notin {"seen", "xids"} /\ pc = "idle" /\ Switch
  <2>1. ASSUME NEW p \in Ports, NEW reason \in Reasons, NEW state \in States,
               SwitchChanges(p, reason, state)
        PROVE  HandlersInTurn'
    BY <1>0, <2>1 DEF SwitchChanges, HandlersInTurn
  <2>2. ASSUME NEW x \in Requests, NEW ps \in SUBSET unanswered[x], SwitchDescribes(x, ps)
        PROVE  HandlersInTurn'
    <3>1. Known
      BY <1>0, <2>2 DEF SwitchDescribes, HandlersInTurn
    <3>. QED  BY <1>0, <2>2, <3>1 DEF SwitchDescribes, HandlersInTurn
  <2>. QED  BY <1>2, <2>1, <2>2 DEF Switch
<1>3. ASSUME thread \notin {"seen", "xids"}, pc = "idle", NEW n \in 0 .. Len(wire), ReadRaw(n)
      PROVE  HandlersInTurn'
  <2>1. Alive
    BY <1>0, <1>3 DEF ReadRaw, HandlersInTurn
  <2>. QED  BY <1>0, <1>3, <2>1 DEF ReadRaw, HandlersInTurn
<1>4. CASE thread \notin {"seen", "xids"} /\ RawInLoop
  <2>1. CASE StartBatch
    <3>1. rawIn # <<>> /\ Alive
      BY <1>0, <2>1 DEF StartBatch, HandlersInTurn
    <3>2. link = "new" => ~counted'
      BY <2>1, RawInTaken DEF NumbersInv, CountedInTurn
    <3>. QED  BY <1>0, <1>4, <2>1, <3>1, <3>2 DEF StartBatch, HandlersInTurn
  <2>2. CASE DeferMessage
    BY <1>0, <2>2 DEF DeferMessage, HandlersInTurn
  <2>3. CASE GatherPortDesc
    BY <1>0, <2>3 DEF GatherPortDesc, HandlersInTurn
  <2>4. CASE EmitPortStatus
    BY <1>0, <2>4 DEF EmitPortStatus, HandlersInTurn
  <2>5. CASE UpdatePortStatus
    BY <1>0, <2>5 DEF UpdatePortStatus, NextInBatch, HandlersInTurn
  <2>6. CASE UpdateRaises
    BY <1>0, <2>6 DEF UpdateRaises, HandlersInTurn
  <2>7. CASE ReturnIfDead
    BY <1>0, <2>7 DEF ReturnIfDead, HandlersInTurn
  <2>8. CASE EndBatch
    BY <1>0, <1>4, <2>8 DEF EndBatch, HandlersInTurn
  <2>9. ASSUME NEW e \in assembled, HandlePortDesc(e) PROVE HandlersInTurn'
    BY <1>0, <1>4, <2>9 DEF HandlePortDesc, HandlersInTurn
  <2>. QED
    BY <1>4, <2>1, <2>2, <2>3, <2>4, <2>5, <2>6, <2>7, <2>8, <2>9 DEF RawInLoop
<1>5. CASE ConnectionLost
  BY <1>0, <1>5 DEF ConnectionLost, HandlersInTurn
<1>6. CASE Reconnect
  BY <1>0, <1>6 DEF Reconnect, HandlersInTurn
<1>7. CASE ConnectionError
  BY <1>0, <1>7 DEF ConnectionError, HandlersInTurn
<1>. QED  BY <1>1, <1>2, <1>3, <1>4, <1>5, <1>6, <1>7, StepIs

\* A task whose messages are not counted finds no number and looks at no reply.
LEMMA UncountedFacts ==
  ASSUME NumbersInv
  PROVE  /\ counted => ~Uncounted
         /\ Uncounted => ~HasReply(unprocessed) /\ ~HasReply(remaining) /\ ~HasReply(batch)
         /\ Uncounted /\ (established \/ thread = "popped") => NothingCounted
BY DEF NumbersInv, CountedInTurn, RepliesAreCounted, HandlersInTurn, Uncounted

\* Only the tasks that start, and the raw events that are read, may be uncounted.
LEMMA UncountedKept ==
  ASSUME Sequential, TypeOK, NumbersInv, Next
  PROVE  \/ Uncounted' => Uncounted
         \/ link = "new" /\ link' = "new" /\ thread' = "idle" /\ ~established'
<1>. USE DEF switchVars, taskVars, replyVars, linkVars, seqVars, intfVars
<1>1. CASE FeaturesReply
  BY <1>1 DEF FeaturesReply, Bind, PopSeenNum, PopXidSeqNum, PopMsgSeqCnt, Establish, Uncounted
<1>2. CASE Switch
  BY <1>2, ZenonT(40) DEF Switch, SwitchChanges, SwitchDescribes, Uncounted
<1>3. ASSUME NEW n \in 0 .. Len(wire), ReadRaw(n)
      PROVE  \/ Uncounted' => Uncounted
             \/ link = "new" /\ link' = "new" /\ thread' = "idle" /\ ~established'
  <2>1. CASE Known
    <3>1. \A i \in DOMAIN rawIn' : ~rawIn'[i].known => i \in DOMAIN rawIn /\ ~rawIn[i].known
      BY <1>3, <2>1, RawInRead
    <3>. QED  BY <1>3, <3>1 DEF ReadRaw, Uncounted
  <2>2. CASE ~Known
    <3>1. link = "new"
      BY <1>3, <2>2 DEF ReadRaw, NumbersInv, HandlersInTurn, Alive, Known, TypeOK
    <3>. QED  BY <1>3, <3>1 DEF ReadRaw, NumbersInv, HandlersInTurn
  <2>. QED  BY <2>1, <2>2
<1>4. CASE RawInLoop
  <2>1. CASE StartBatch
    <3>1. Uncounted' => \E i \in DOMAIN rawIn : ~rawIn[i].known
      BY <2>1, RawInTaken DEF Uncounted
    <3>. QED  BY <3>1 DEF Uncounted
  <2>2. CASE DeferMessage \/ GatherPortDesc \/ EmitPortStatus
    BY <2>2 DEF DeferMessage, GatherPortDesc, EmitPortStatus, Uncounted
  <2>3. CASE UpdatePortStatus
    BY <2>3 DEF UpdatePortStatus, NextInBatch, Uncounted
  <2>4. CASE UpdateRaises \/ ReturnIfDead \/ EndBatch
    BY <2>4 DEF UpdateRaises, ReturnIfDead, EndBatch, Uncounted
  <2>5. CASE \E e \in assembled : HandlePortDesc(e)
    BY <2>5 DEF HandlePortDesc, Uncounted
  <2>. QED  BY <1>4, <2>1, <2>2, <2>3, <2>4, <2>5 DEF RawInLoop
<1>5. CASE ConnectionLost
  BY <1>5 DEF ConnectionLost, Uncounted
<1>6. CASE Reconnect \/ ConnectionError
  BY <1>6 DEF Reconnect, ConnectionError, Uncounted
<1>. QED  BY <1>1, <1>2, <1>3, <1>4, <1>5, <1>6, StepIs

\* What a task without a switch looks at leaves the counters as they were popped.
LEMMA NothingCountedKept ==
  ASSUME Sequential, TypeOK, NumbersInv, Uncounted, NothingCounted,
         RawInLoop \/ ConnectionLost \/ Reconnect \/ ConnectionError
  PROVE  NothingCounted'
<1>. USE DEF switchVars, taskVars, replyVars, linkVars, seqVars, intfVars
<1>1. CASE StartBatch \/ ReturnIfDead \/ UpdateRaises
  BY <1>1 DEF StartBatch, ReturnIfDead, UpdateRaises, NothingCounted
<1>2. ASSUME NEW x, CountMessage(x) PROVE msgSeqCnt' = msgSeqCnt /\ xidSeqNum' = xidSeqNum
  BY <1>2, UncountedFacts DEF CountMessage
<1>3. CASE DeferMessage
  BY <1>2, <1>3 DEF DeferMessage, NothingCounted
<1>4. CASE GatherPortDesc
  <2>1. HasReply(batch)
    BY <1>4, TakenReply DEF GatherPortDesc, TypeOK
  <2>. QED  BY <2>1, UncountedFacts
<1>5. CASE EmitPortStatus
  BY <1>2, <1>5 DEF EmitPortStatus, NothingCounted
<1>6. CASE UpdatePortStatus
  <2>1. xidSeqNum[0] = 0
    BY DEF NothingCounted, Xids
  <2>. QED  BY <1>6, <2>1 DEF UpdatePortStatus, NothingCounted, TypeOK
<1>7. CASE EndBatch
  BY <1>7 DEF EndBatch, NothingCounted
<1>8. CASE \E e \in assembled : HandlePortDesc(e)
  BY <1>8 DEF NothingCounted
<1>9. CASE ConnectionLost \/ Reconnect
  BY <1>9 DEF ConnectionLost, Reconnect, NothingCounted
<1>10. CASE ConnectionError
  BY <1>10 DEF ConnectionError, NothingCounted
<1>. QED  BY <1>1, <1>3, <1>4, <1>5, <1>6, <1>7, <1>8, <1>9, <1>10 DEF RawInLoop

LEMMA NextNothingCounted ==
  ASSUME Sequential, TypeOK, NumbersInv, Next, Uncounted', established' \/ thread' = "popped"
  PROVE  NothingCounted'
<1>. USE DEF switchVars, taskVars, replyVars, linkVars, seqVars, intfVars
<1>1. Uncounted
  BY UncountedKept
<1>2. CASE Bind \/ Establish
  BY <1>1, <1>2, UncountedFacts DEF Bind, Establish, NothingCounted
<1>3. CASE PopSeenNum
  BY <1>1, <1>3, UncountedFacts DEF PopSeenNum, NothingCounted
<1>4. CASE PopXidSeqNum
  BY <1>1, <1>4, UncountedFacts DEF PopXidSeqNum, NothingCounted
<1>5. CASE PopMsgSeqCnt
  <2>1. multipart = {} /\ assembled = {}
    BY <1>5 DEF PopMsgSeqCnt, NumbersInv, HandlersInTurn
  <2>2. (\A x \in Xids : xidSeqNum[x] = 0) /\ \A p \in Ports : seenNum[p] = 0
    BY <1>5 DEF PopMsgSeqCnt, NumbersInv, NumbersGiven
  <2>. QED  BY <1>5, <2>1, <2>2 DEF PopMsgSeqCnt, NothingCounted
<1>6. CASE Switch \/ \E n \in 0 .. Len(wire) : ReadRaw(n)
  <2>1. UNCHANGED <<taskVars, assembled, replyVars, seqVars>>
    BY <1>6 DEF Switch, SwitchChanges, SwitchDescribes, ReadRaw
  <2>2. NothingCounted
    BY <1>1, <2>1, UncountedFacts
  <2>. QED  BY <2>1, <2>2 DEF NothingCounted
<1>7. CASE RawInLoop
  <2>1. UNCHANGED <<established, thread>>
    BY <1>7 DEF RawInLoop, StartBatch, DeferMessage, GatherPortDesc, EmitPortStatus,
                UpdatePortStatus, UpdateRaises, ReturnIfDead, EndBatch, HandlePortDesc
  <2>. QED  BY <1>1, <1>7, <2>1, UncountedFacts, NothingCountedKept
<1>8. CASE ConnectionLost \/ ConnectionError
  <2>1. UNCHANGED <<established, thread>>
    BY <1>8 DEF ConnectionLost, ConnectionError
  <2>. QED  BY <1>1, <1>8, <2>1, UncountedFacts, NothingCountedKept
<1>9. CASE Reconnect
  BY <1>9 DEF Reconnect
<1>. QED  BY <1>2, <1>3, <1>4, <1>5, <1>6, <1>7, <1>8, <1>9, StepIs DEF FeaturesReply

LEMMA NextCounted ==
  ASSUME Sequential, TypeOK, NumbersInv, Next
  PROVE  CountedInTurn'
<1>. USE DEF switchVars, taskVars, replyVars, linkVars, seqVars, intfVars, Alive, Known
<1>. DEFINE Ordered == \A i, j \in DOMAIN rawIn : i < j /\ rawIn[i].known => rawIn[j].known
            AfterIt == counted => \A i \in DOMAIN rawIn : rawIn[i].known
            NoneYet == link = "new" => \A i \in DOMAIN rawIn : ~rawIn[i].known
<1>0. Ordered /\ AfterIt /\ NoneYet /\ HandlersInTurn
  BY DEF NumbersInv, CountedInTurn
<1>. SUFFICES Ordered' /\ AfterIt' /\ NoneYet'
  BY NextNothingCounted DEF CountedInTurn
<1>1. ASSUME UNCHANGED <<rawIn, counted>>, link' = "new" => link = "new"
      PROVE  Ordered' /\ AfterIt' /\ NoneYet'
  BY <1>0, <1>1
<1>2. CASE FeaturesReply
  BY <1>1, <1>2 DEF FeaturesReply, Bind, PopSeenNum, PopXidSeqNum, PopMsgSeqCnt, Establish
<1>3. CASE Switch
  BY <1>1, <1>3, ZenonT(40) DEF Switch, SwitchChanges, SwitchDescribes
<1>4. ASSUME pc = "idle", NEW n \in 0 .. Len(wire), ReadRaw(n)
      PROVE  Ordered' /\ AfterIt' /\ NoneYet'
  <2>1. ~counted /\ UNCHANGED <<counted, link>>
    BY <1>0, <1>4 DEF ReadRaw, HandlersInTurn
  <2>2. \A i \in DOMAIN rawIn : rawIn[i].known => Known
    <3>1. link = "lost" => DOMAIN rawIn = {}
      BY <1>0 DEF HandlersInTurn
    <3>. QED  BY <1>0, <3>1 DEF TypeOK
  <2>3. Ordered'
    <3>1. SUFFICES ASSUME NEW i \in DOMAIN rawIn', NEW j \in DOMAIN rawIn',
                          i < j, rawIn'[i].known
                   PROVE  rawIn'[j].known
      OBVIOUS
    <3>2. i \in DOMAIN rawIn
      BY <1>4, <3>1, RawInRead
    <3>3. rawIn[i].known
      BY <1>4, <3>1, <3>2, RawInRead
    <3>4. CASE j \in DOMAIN rawIn
      BY <1>0, <1>4, <3>1, <3>2, <3>3, <3>4, RawInRead
    <3>5. CASE j = Len(rawIn) + 1
      BY <1>4, <2>2, <3>2, <3>3, <3>5, RawInRead
    <3>. QED  BY <1>4, <3>4, <3>5, RawInRead
  <2>4. NoneYet'
    BY <1>0, <1>4, <2>1, RawInRead
  <2>. QED  BY <2>1, <2>3, <2>4
<1>5. CASE StartBatch
  <2>1. Ordered'
    BY <1>0, <1>5, RawInTaken
  <2>2. AfterIt'
    <3>1. \A i \in DOMAIN rawIn' : 1 < i + 1
      BY <1>5, RawInTaken
    <3>2. rawIn[1].known => \A i \in DOMAIN rawIn' : rawIn[i + 1].known
      BY <1>0, <1>5, <3>1, RawInTaken
    <3>. QED  BY <1>5, <3>2, RawInTaken
  <2>3. NoneYet'
    BY <1>0, <1>5, RawInTaken DEF StartBatch
  <2>. QED  BY <2>1, <2>2, <2>3
<1>6. CASE RawInLoop /\ ~StartBatch
  <2>1. rawIn' = rawIn /\ link' = link /\ (counted' => counted)
    BY <1>6 DEF RawInLoop, DeferMessage, GatherPortDesc, EmitPortStatus, UpdatePortStatus,
                NextInBatch, UpdateRaises, ReturnIfDead, EndBatch, HandlePortDesc
  <2>. QED  BY <1>0, <2>1
<1>7. CASE ConnectionLost
  BY <1>7 DEF ConnectionLost
<1>8. CASE Reconnect
  BY <1>0, <1>8 DEF Reconnect, HandlersInTurn
<1>9. CASE ConnectionError
  BY <1>1, <1>9 DEF ConnectionError
<1>. QED  BY <1>2, <1>3, <1>4, <1>5, <1>6, <1>7, <1>8, <1>9, StepIs

\* A reply is sent when the switch is bound, and read by a task that knows it.
LEMMA NextReplies ==
  ASSUME Sequential, TypeOK, TypeOK', NumbersInv, Next
  PROVE  RepliesAreCounted'
<1>. USE DEF switchVars, taskVars, replyVars, linkVars, seqVars, intfVars, Alive, Known
<1>. DEFINE Looked == HasReply(unprocessed) \/ HasReply(remaining) \/ HasReply(batch)
            Read == \A i \in DOMAIN rawIn : HasReply(rawIn[i].msgs) => rawIn[i].known
<1>0. /\ Looked => ~Uncounted
      /\ Read
      /\ link = "new" => ~Looked /\ ~HasReply(wire)
      /\ HandlersInTurn /\ CountedInTurn
  BY DEF NumbersInv, RepliesAreCounted
<1>1. /\ wire \in Seq(Message) /\ remaining \in Seq(Message) /\ batch \in Seq(Message)
      /\ unprocessed \in Seq(Message)
  BY DEF TypeOK
<1>. SUFFICES /\ Looked' => ~Uncounted'
              /\ Read'
              /\ link' = "new" => ~Looked' /\ ~HasReply(wire)'
  BY DEF RepliesAreCounted
<1>. HIDE DEF Looked, Read
<1>2. ASSUME Looked' => Looked, Read',
             link' = "new" => link = "new" /\ (HasReply(wire)' => HasReply(wire))
      PROVE  /\ Looked' => ~Uncounted'
             /\ link' = "new" => ~Looked' /\ ~HasReply(wire)'
  <2>1. link = "new" => ~Looked'
    BY <1>0, <1>2
  <2>2. CASE Uncounted' => Uncounted
    BY <1>0, <1>2, <2>2
  <2>3. CASE link = "new"
    BY <1>0, <1>2, <2>1, <2>3
  <2>. QED  BY <1>0, <1>2, <2>1, <2>2, <2>3, UncountedKept
<1>3. ASSUME UNCHANGED <<unprocessed, remaining, batch>> PROVE Looked' => Looked
  BY <1>3 DEF Looked
<1>4. ASSUME UNCHANGED rawIn PROVE Read'
  BY <1>0, <1>4 DEF Read
<1>5. CASE FeaturesReply
  <2>1. UNCHANGED <<unprocessed, remaining, batch, rawIn, wire>> /\ (link' = "new" => link = "new")
    BY <1>5 DEF FeaturesReply, Bind, PopSeenNum, PopXidSeqNum, PopMsgSeqCnt, Establish
  <2>. QED  BY <1>2, <1>3, <1>4, <2>1
<1>6. CASE Switch
  <2>1. UNCHANGED <<unprocessed, remaining, batch, rawIn, link>>
    BY <1>6 DEF Switch, SwitchChanges, SwitchDescribes
  <2>2. ASSUME link = "new" PROVE HasReply(wire)' => HasReply(wire)
    <3>1. \A x \in Requests : unanswered[x] = {}
      BY <1>0, <2>2 DEF HandlersInTurn
    <3>2. PICK p \in Ports, reason \in Reasons, state \in States : SwitchChanges(p, reason, state)
      BY <1>6, <3>1 DEF Switch, SwitchDescribes
    <3> DEFINE m == [xid |-> 0, reason |-> reason, port |-> p, ver |-> port'[p].ver,
                     state |-> state]
    <3>3. m \in Message /\ m.xid = 0
      BY DEF Message, TypeOK
    <3>4. wire' = Append(wire, m)
      BY <2>2, <3>2 DEF SwitchChanges
    <3>. HIDE DEF m
    <3>. QED  BY <1>1, <3>3, <3>4, AppendedReply
  <2>. QED  BY <1>2, <1>3, <1>4, <2>1, <2>2
<1>7. ASSUME pc = "idle", NEW n \in 0 .. Len(wire), ReadRaw(n)
      PROVE  /\ Looked' => ~Uncounted'
             /\ Read'
             /\ link' = "new" => ~Looked' /\ ~HasReply(wire)'
  <2>1. UNCHANGED <<unprocessed, remaining, batch, link>> /\ wire' = SubSeq(wire, n + 1, Len(wire))
    BY <1>7 DEF ReadRaw
  <2>2. HasReply(wire)' => HasReply(wire)
    BY <1>1, <2>1, CutReply
  <2>3. HasReply(SubSeq(wire, 1, n)) => Known
    <3>1. HasReply(SubSeq(wire, 1, n)) => HasReply(wire)
      BY <1>1, CutReply
    <3>2. link = "lost" => ~HasReply(wire)
      BY <1>0, NoReply DEF HandlersInTurn
    <3>. QED  BY <1>0, <3>1, <3>2 DEF TypeOK
  <2>4. ASSUME NEW i \in DOMAIN rawIn', HasReply(rawIn'[i].msgs) PROVE rawIn'[i].known
    <3>1. CASE i \in DOMAIN rawIn
      BY <1>0, <1>7, <2>4, <3>1, RawInRead DEF Read
    <3>2. CASE i = Len(rawIn) + 1
      BY <1>7, <2>3, <2>4, <3>2, RawInRead
    <3>. QED  BY <1>7, <3>1, <3>2, RawInRead
  <2>5. Read'
    BY <2>4 DEF Read
  <2>. QED  BY <1>2, <1>3, <2>1, <2>2, <2>5
<1>8. CASE StartBatch
  <2>1. remaining' = <<>> /\ UNCHANGED <<unprocessed, wire, link>>
    BY <1>8 DEF StartBatch
  <2>2. HasReply(batch)' => HasReply(remaining) \/ HasReply(rawIn[1].msgs)
    BY <1>1, <1>8, RawInTaken, JoinedReply
  <2>3. Read'
    BY <1>0, <1>8, RawInTaken DEF Read
  <2>4. ASSUME Looked' PROVE ~Uncounted' /\ link # "new"
    <3>1. Looked \/ HasReply(rawIn[1].msgs)
      BY <2>1, <2>2, <2>4, NoReply DEF Looked
    <3>2. CASE Looked
      <4>1. link # "new" /\ link' = link
        BY <1>0, <2>1, <3>2
      <4>. QED  BY <1>2, <2>3, <2>4, <3>2, <4>1
    <3>3. CASE HasReply(rawIn[1].msgs)
      <4>1. rawIn[1].known
        BY <1>0, <1>8, <3>3, RawInTaken DEF Read
      <4>2. \A j \in DOMAIN rawIn' : rawIn'[j].known
        <5>1. \A j \in DOMAIN rawIn : 1 < j => rawIn[j].known
          BY <1>0, <1>8, <4>1, RawInTaken DEF CountedInTurn
        <5>2. \A j \in DOMAIN rawIn' : 1 < j + 1
          BY <1>8, RawInTaken
        <5>. QED  BY <1>8, <5>1, <5>2, RawInTaken
      <4>3. counted'
        BY <1>8, <4>1, RawInTaken
      <4>. QED  BY <1>0, <1>8, <4>1, <4>2, <4>3, RawInTaken DEF Uncounted, CountedInTurn
    <3>. QED  BY <3>1, <3>2, <3>3
  <2>. QED  BY <1>0, <2>1, <2>3, <2>4
<1>9. CASE RawInLoop /\ ~StartBatch
  <2>1. UNCHANGED <<rawIn, link, wire>>
    BY <1>9 DEF RawInLoop, DeferMessage, GatherPortDesc, EmitPortStatus, UpdatePortStatus,
                UpdateRaises, ReturnIfDead, EndBatch, HandlePortDesc
  <2>2. Looked' => Looked
    <3>1. CASE DeferMessage
      <4>1. /\ batch # <<>> /\ batch' = Tail(batch) /\ remaining' = remaining
            /\ unprocessed' = Append(unprocessed, Head(batch))
        BY <3>1 DEF DeferMessage
      <4>2. Head(batch) \in Message
        BY <1>1, <4>1, HeadTailProperties
      <4>3. HasReply(unprocessed)' => HasReply(unprocessed) \/ HasReply(batch)
        BY <1>1, <4>1, <4>2, AppendedReply, TakenReply
      <4>. QED  BY <1>1, <4>1, <4>3, TakenReply DEF Looked
    <3>2. CASE GatherPortDesc
      BY <1>1, <3>2, TakenReply DEF GatherPortDesc, Looked
    <3>3. CASE EmitPortStatus
      BY <1>3, <3>3 DEF EmitPortStatus
    <3>4. CASE UpdatePortStatus
      <4>1. batch # <<>> /\ batch' = Tail(batch) /\ UNCHANGED <<remaining, unprocessed>>
        BY <3>4 DEF UpdatePortStatus, NextInBatch, TypeOK
      <4>. QED  BY <1>1, <4>1, TakenReply DEF Looked
    <3>5. CASE UpdateRaises \/ ReturnIfDead
      BY <3>5, NoReply DEF UpdateRaises, ReturnIfDead, Looked
    <3>6. CASE EndBatch
      <4>1. HasReply(remaining)' => HasReply(unprocessed) \/ HasReply(remaining)
        BY <1>1, <3>6, JoinedReply DEF EndBatch
      <4>. QED  BY <3>6, <4>1, NoReply DEF EndBatch, Looked
    <3>7. CASE \E e \in assembled : HandlePortDesc(e)
      BY <1>3, <3>7 DEF HandlePortDesc
    <3>. QED  BY <1>9, <3>1, <3>2, <3>3, <3>4, <3>5, <3>6, <3>7 DEF RawInLoop
  <2>. QED  BY <1>2, <1>4, <2>1, <2>2
<1>10. CASE ConnectionLost
  <2>1. Looked' => Looked
    BY <1>10, NoReply DEF ConnectionLost, Looked
  <2>2. Read' /\ link' # "new"
    BY <1>10 DEF ConnectionLost, Read
  <2>. QED  BY <1>2, <2>1, <2>2
<1>11. CASE Reconnect
  <2>1. UNCHANGED <<unprocessed, remaining, batch, rawIn, wire>> /\ pc = "idle" /\ link = "lost"
    BY <1>11 DEF Reconnect
  <2>2. ~Looked /\ ~HasReply(wire)
    BY <1>0, <2>1, NoReply DEF HandlersInTurn, Looked
  <2>3. Read'
    BY <1>4, <2>1
  <2>. QED  BY <1>3, <2>1, <2>2, <2>3
<1>12. CASE ConnectionError
  <2>1. UNCHANGED <<unprocessed, remaining, batch, rawIn, wire, link>>
    BY <1>12 DEF ConnectionError
  <2>. QED  BY <1>2, <1>3, <1>4, <2>1
<1>. QED  BY <1>5, <1>6, <1>7, <1>8, <1>9, <1>10, <1>11, <1>12, StepIs

\* A number that is counted is the last one.
LEMMA CountedNumbers ==
  ASSUME TypeOK, NumbersGiven, NEW y \in Xids, CountMessage(y)
  PROVE  /\ msgSeqCnt' >= msgSeqCnt
         /\ \A x \in Xids : xidSeqNum'[x] <= msgSeqCnt'
         /\ counted => /\ xidSeqNum'[y] = msgSeqCnt'
                       /\ \A x \in Xids \ {y} : xidSeqNum'[x] < msgSeqCnt'
<1>1. /\ msgSeqCnt \in Nat /\ xidSeqNum \in [Xids -> Nat]
      /\ \A x \in Xids : xidSeqNum[x] <= msgSeqCnt
  BY DEF TypeOK, NumbersGiven
<1>2. CASE counted
  <2>1. msgSeqCnt' = msgSeqCnt + 1 /\ xidSeqNum' = [xidSeqNum EXCEPT ![y] = msgSeqCnt + 1]
    BY <1>2 DEF CountMessage
  <2>2. \A x \in Xids \ {y} : xidSeqNum'[x] < msgSeqCnt + 1
    BY <1>1, <2>1
  <2>. QED  BY <1>1, <2>1, <2>2
<1>3. CASE ~counted
  BY <1>1, <1>3 DEF CountMessage
<1>. QED  BY <1>2, <1>3

LEMMA NextGiven ==
  ASSUME Sequential, TypeOK, TypeOK', NumbersInv, Next
  PROVE  NumbersGiven'
<1>. USE DEF switchVars, taskVars, replyVars, linkVars, seqVars, intfVars
<1>0. NumbersGiven /\ HandlersInTurn
  BY DEF NumbersInv
<1>a. /\ msgSeqCnt \in Nat /\ msgSeqCnt' \in Nat /\ 0 \in Xids
      /\ xidSeqNum \in [Xids -> Nat] /\ seenNum \in [Ports -> Nat]
  BY DEF TypeOK, Xids
<1>b. Requests \subseteq Xids /\ 0 \notin Requests
  BY DEF Xids, Requests
<1>1. ASSUME UNCHANGED <<thread, seqVars, counted>>, pc' = "update" => pc = "update"
      PROVE  NumbersGiven'
  BY <1>0, <1>1 DEF NumbersGiven
<1>2. CASE Bind \/ Establish
  BY <1>0, <1>2 DEF Bind, Establish, NumbersGiven
<1>3. CASE PopSeenNum
  BY <1>0, <1>3, <1>a, Turns DEF PopSeenNum, NumbersGiven
<1>4. CASE PopXidSeqNum
  BY <1>0, <1>4, <1>a DEF PopXidSeqNum, NumbersGiven, HandlersInTurn
<1>5. CASE PopMsgSeqCnt
  BY <1>0, <1>5, <1>a DEF PopMsgSeqCnt, NumbersGiven, HandlersInTurn
<1>6. CASE Switch \/ \E n \in 0 .. Len(wire) : ReadRaw(n)
  BY <1>1, <1>6, ZenonT(40) DEF Switch, SwitchChanges, SwitchDescribes, ReadRaw
<1>7. CASE thread \notin {"seen", "xids"} /\ RawInLoop
  <2>1. ASSUME NEW y \in Xids, CountMessage(y), UNCHANGED <<thread, seenNum, counted>>,
               pc' = "update" => y = 0
        PROVE  NumbersGiven'
    <3>1. \A x \in Xids : xidSeqNum'[x] <= msgSeqCnt'
      BY <1>0, <2>1, CountedNumbers
    <3>2. \A p \in Ports : seenNum'[p] <= msgSeqCnt'
      BY <1>0, <1>a, <2>1, CountedNumbers DEF NumbersGiven
    <3>3. thread' \notin {"seen", "xids"}
      BY <1>7, <2>1
    <3>4. ASSUME pc' = "update", counted'
          PROVE  xidSeqNum'[0] = msgSeqCnt' /\ \A x \in Requests : xidSeqNum'[x] < msgSeqCnt'
      BY <1>0, <1>b, <2>1, <3>4, CountedNumbers
    <3>. QED  BY <3>1, <3>2, <3>3, <3>4 DEF NumbersGiven
  <2>2. batch # <<>> => Head(batch).xid \in Xids
    BY HeadTailProperties, MessageIs DEF TypeOK
  <2>3. CASE DeferMessage
    BY <2>1, <2>2, <2>3 DEF DeferMessage
  <2>4. CASE GatherPortDesc
    BY <2>1, <2>2, <2>4 DEF GatherPortDesc
  <2>5. CASE EmitPortStatus
    BY <1>a, <2>1, <2>5 DEF EmitPortStatus
  <2>6. ASSUME UNCHANGED <<thread, msgSeqCnt, xidSeqNum>>,
               NEW p \in Ports, NEW x \in Xids, seenNum' = [seenNum EXCEPT ![p] = xidSeqNum[x]],
               pc' = "update" => pc = "update", counted' = counted
        PROVE  NumbersGiven'
    <3>1. \A q \in Ports : seenNum'[q] <= msgSeqCnt
      BY <1>0, <1>a, <2>6 DEF NumbersGiven
    <3>2. thread \notin {"seen", "xids"}
      BY <1>7
    <3>. QED  BY <1>0, <2>6, <3>1, <3>2 DEF NumbersGiven
  <2>7. CASE UpdatePortStatus
    <3>1. /\ UNCHANGED <<thread, msgSeqCnt, xidSeqNum, counted>> /\ pc' # "update"
          /\ Head(batch).port \in Ports
      <4>1. Head(batch) \in Message /\ Head(batch).xid = 0
        BY <2>7, HeadTailProperties DEF UpdatePortStatus, TypeOK
      <4>. QED  BY <2>7, <4>1, MessageIs DEF UpdatePortStatus, NextInBatch
    <3>2. CASE Late(Head(batch).port, 0)
      BY <1>1, <2>7, <3>1, <3>2 DEF UpdatePortStatus
    <3>3. CASE ~Late(Head(batch).port, 0)
      BY <1>a, <2>6, <2>7, <3>1, <3>3 DEF UpdatePortStatus
    <3>. QED  BY <3>2, <3>3
  <2>8. ASSUME NEW e \in assembled, HandlePortDesc(e) PROVE NumbersGiven'
    <3>1. e.port \in Ports /\ e.xid \in Xids
      BY DEF TypeOK, Description, Xids
    <3>2. UNCHANGED <<thread, msgSeqCnt, xidSeqNum, counted, pc>>
      BY <2>8 DEF HandlePortDesc
    <3>3. CASE Late(e.port, e.xid)
      BY <1>1, <2>8, <3>2, <3>3 DEF HandlePortDesc
    <3>4. CASE ~Late(e.port, e.xid)
      BY <2>6, <2>8, <3>1, <3>2, <3>4 DEF HandlePortDesc
    <3>. QED  BY <3>3, <3>4
  <2>9. CASE StartBatch \/ UpdateRaises \/ ReturnIfDead \/ EndBatch
    <3>1. UNCHANGED <<thread, seqVars>> /\ pc' # "update"
      BY <2>9 DEF StartBatch, UpdateRaises, ReturnIfDead, EndBatch
    <3>. QED  BY <1>0, <3>1 DEF NumbersGiven
  <2>. QED  BY <1>7, <2>3, <2>4, <2>5, <2>7, <2>8, <2>9 DEF RawInLoop
<1>8. CASE ConnectionLost \/ Reconnect
  BY <1>0, <1>8 DEF ConnectionLost, Reconnect, NumbersGiven
<1>9. CASE thread \notin {"seen", "xids"} /\ ConnectionError
  BY <1>0, <1>9, <1>a, <1>b, Turns DEF ConnectionError, NumbersGiven
<1>. QED  BY <1>2, <1>3, <1>4, <1>5, <1>6, <1>7, <1>8, <1>9, StepIs DEF FeaturesReply

LEMMA NextNumbers ==
  ASSUME Sequential, TypeOK, TypeOK', NumbersInv, [Next]_vars
  PROVE  NumbersInv'
<1>1. CASE Next
  BY <1>1, NextHandlers, NextCounted, NextReplies, NextGiven DEF NumbersInv
<1>2. CASE UNCHANGED vars
  BY <1>2 DEF vars, NumbersInv, HandlersInTurn, CountedInTurn, Uncounted, NothingCounted,
              RepliesAreCounted, HasReply, NumbersGiven, Alive, Known
<1>. QED  BY <1>1, <1>2

\* Handlers that run one after the other: the numbers are given in the order in
\* which they are compared, whatever replies, losses and errors pop them.
THEOREM NumbersInvariant == ASSUME Sequential PROVE Spec => []NumbersInv
<1>1. TypeOK /\ TypeOK' /\ NumbersInv /\ [Next]_vars => NumbersInv'
  BY NextNumbers
<1>. QED  BY <1>1, InitNumbers, TypeCorrect, PTL DEF Spec

LEMMA NumbersAreNotLate ==
  ASSUME TypeOK, NumbersInv
  PROVE  StatusNeverLate
<1>1. SUFFICES ASSUME pc = "update" PROVE ~Late(Head(batch).port, 0)
  BY DEF StatusNeverLate
<1>2. Head(batch).port \in Ports
  <2>1. Head(batch) \in Message /\ Head(batch).xid = 0
    BY <1>1, HeadTailProperties DEF TypeOK
  <2>. QED  BY <2>1, MessageIs
<1>3. CASE counted
  <2>1. xidSeqNum[0] = msgSeqCnt /\ seenNum[Head(batch).port] <= msgSeqCnt
    BY <1>1, <1>2, <1>3 DEF NumbersInv, NumbersGiven
  <2>2. msgSeqCnt \in Nat /\ seenNum[Head(batch).port] \in Nat
    BY <1>2 DEF TypeOK
  <2>. QED  BY <2>1, <2>2 DEF Late
<1>4. CASE ~counted
  <2>1. NothingCounted
    BY <1>1, <1>4 DEF NumbersInv, HandlersInTurn, CountedInTurn, Uncounted
  <2>. QED  BY <1>2, <2>1 DEF NothingCounted, Late, Xids
<1>. QED  BY <1>3, <1>4

\* No PORT_STATUS is taken for late, for any number of ports, handshakes and
\* losses, when the handlers run one after the other.
THEOREM StatusIsNeverLate == ASSUME Sequential PROVE Spec => []StatusNeverLate
BY NumbersInvariant, TypeCorrect, NumbersAreNotLate, PTL

-------------------------------------------------------------------------------
(* Part 2.  No interface goes back to an older description of its port, when*)
(* handlers run one after the other and a reply to a request for the ports *)
(* is one message: messages are looked at in the order in which they were  *)
(* sent, and a description that is handled after a newer one is late by its*)
(* number.                                                                 *)
(*                                                                         *)
(* The messages of sequences, and their order.                             *)

LEMMA NoMessages == Range(<<>>) = {} /\ InOrder(<<>>)
BY DEF Range, InOrder

\* What is appended comes last.
LEMMA AppendedLast ==
  ASSUME NEW s \in Seq(Message), NEW m \in Message
  PROVE  /\ Append(s, m) \in Seq(Message)
         /\ Range(Append(s, m)) = Range(s) \union {m}
         /\ InOrder(s) /\ AllBefore(Range(s), {m}) => InOrder(Append(s, m))
<1>1. Len(s) \in Nat /\ DOMAIN s = 1 .. Len(s)
  OBVIOUS
<1>2. /\ Append(s, m) \in Seq(Message)
      /\ DOMAIN Append(s, m) = 1 .. Len(s) + 1
      /\ \A i \in 1 .. Len(s) : Append(s, m)[i] = s[i]
      /\ Append(s, m)[Len(s) + 1] = m
  BY AppendProperties, LenProperties
<1>3. /\ \A i \in 1 .. Len(s) + 1 : i \in 1 .. Len(s) \/ i = Len(s) + 1
      /\ \A i \in 1 .. Len(s) : i \in 1 .. Len(s) + 1 /\ i < Len(s) + 1
      /\ Len(s) + 1 \in 1 .. Len(s) + 1
      /\ \A i \in 1 .. Len(s) + 1 : ~(Len(s) + 1 < i)
  BY <1>1
<1>4. Range(Append(s, m)) = Range(s) \union {m}
  BY <1>1, <1>2, <1>3 DEF Range
<1>5. ASSUME InOrder(s), AllBefore(Range(s), {m}),
             NEW i \in 1 .. Len(s) + 1, NEW j \in 1 .. Len(s) + 1, i < j
      PROVE  Before(Append(s, m)[i], Append(s, m)[j])
  <2>1. i \in 1 .. Len(s)
    BY <1>3, <1>5
  <2>2. CASE j \in 1 .. Len(s)
    BY <1>1, <1>2, <1>5, <2>1, <2>2 DEF InOrder
  <2>3. CASE j = Len(s) + 1
    BY <1>1, <1>2, <1>5, <2>1, <2>3 DEF AllBefore, Range
  <2>. QED  BY <1>3, <2>2, <2>3
<1>. QED  BY <1>2, <1>4, <1>5 DEF InOrder

\* The head is before the tail.
LEMMA HeadFirst ==
  ASSUME NEW s \in Seq(Message), s # <<>>
  PROVE  /\ Head(s) \in Message /\ Tail(s) \in Seq(Message)
         /\ Range(s) = {Head(s)} \union Range(Tail(s))
         /\ InOrder(s) => InOrder(Tail(s)) /\ AllBefore({Head(s)}, Range(Tail(s)))
<1>1. /\ Len(s) \in Nat \ {0} /\ DOMAIN s = 1 .. Len(s)
      /\ Head(s) \in Message /\ Head(s) = s[1] /\ Tail(s) \in Seq(Message)
      /\ DOMAIN Tail(s) = 1 .. Len(s) - 1
      /\ \A i \in 1 .. Len(s) - 1 : Tail(s)[i] = s[i + 1]
  BY HeadTailProperties, EmptySeq, LenProperties
<1>2. /\ 1 \in 1 .. Len(s)
      /\ \A i \in 1 .. Len(s) - 1 : i + 1 \in 1 .. Len(s) /\ 1 < i + 1
      /\ \A i \in 1 .. Len(s) : i = 1 \/ \E k \in 1 .. Len(s) - 1 : i = k + 1
      /\ \A i, j \in 1 .. Len(s) - 1 : i < j => i + 1 < j + 1
  <2>1. \A i \in 1 .. Len(s) : i # 1 => i - 1 \in 1 .. Len(s) - 1 /\ i = (i - 1) + 1
    BY <1>1
  <2>. QED  BY <1>1, <2>1
<1>3. Range(s) = {Head(s)} \union Range(Tail(s))
  <2>1. Range(s) \subseteq {Head(s)} \union Range(Tail(s))
    <3>1. ASSUME NEW i \in 1 .. Len(s) PROVE s[i] \in {Head(s)} \union Range(Tail(s))
      <4>1. CASE i = 1
        BY <1>1, <4>1
      <4>2. ASSUME NEW k \in 1 .. Len(s) - 1, i = k + 1
            PROVE  s[i] \in {Head(s)} \union Range(Tail(s))
        <5>1. s[i] = Tail(s)[k] /\ k \in DOMAIN Tail(s)
          BY <1>1, <4>2
        <5>. QED  BY <5>1 DEF Range
      <4>. QED  BY <1>2, <4>1, <4>2
    <3>. QED  BY <1>1, <3>1 DEF Range
  <2>2. Head(s) \in Range(s) /\ Range(Tail(s)) \subseteq Range(s)
    BY <1>1, <1>2 DEF Range
  <2>. QED  BY <2>1, <2>2
<1>4. InOrder(s) => InOrder(Tail(s))
  BY <1>1, <1>2 DEF InOrder
<1>5. InOrder(s) => AllBefore({Head(s)}, Range(Tail(s)))
  BY <1>1, <1>2 DEF InOrder, AllBefore, Range
<1>. QED  BY <1>1, <1>3, <1>4, <1>5

\* What is joined keeps its order.
LEMMA JoinedInOrder ==
  ASSUME NEW s \in Seq(Message), NEW t \in Seq(Message)
  PROVE  /\ s \o t \in Seq(Message)
         /\ Range(s \o t) = Range(s) \union Range(t)
         /\ InOrder(s) /\ InOrder(t) /\ AllBefore(Range(s), Range(t)) => InOrder(s \o t)
<1>1. Len(s) \in Nat /\ Len(t) \in Nat /\ DOMAIN s = 1 .. Len(s) /\ DOMAIN t = 1 .. Len(t)
  OBVIOUS
<1>2. /\ s \o t \in Seq(Message)
      /\ DOMAIN (s \o t) = 1 .. Len(s) + Len(t)
      /\ \A i \in 1 .. Len(s) + Len(t) :
            (s \o t)[i] = IF i <= Len(s) THEN s[i] ELSE t[i - Len(s)]
  BY ConcatProperties, LenProperties
<1>3. ASSUME InOrder(s), InOrder(t), AllBefore(Range(s), Range(t)),
             NEW i \in 1 .. Len(s) + Len(t), NEW j \in 1 .. Len(s) + Len(t), i < j
      PROVE  Before((s \o t)[i], (s \o t)[j])
  <2>1. CASE j <= Len(s)
    <3>1. i \in DOMAIN s /\ j \in DOMAIN s /\ i <= Len(s)
      BY <1>1, <1>3, <2>1
    <3>. QED  BY <1>2, <1>3, <2>1, <3>1 DEF InOrder
  <2>2. CASE i <= Len(s) /\ ~(j <= Len(s))
    <3>1. i \in DOMAIN s /\ j - Len(s) \in DOMAIN t
      BY <1>1, <2>2
    <3>. QED  BY <1>2, <1>3, <2>2, <3>1 DEF AllBefore, Range
  <2>3. CASE ~(i <= Len(s))
    <3>1. /\ i - Len(s) \in DOMAIN t /\ j - Len(s) \in DOMAIN t
          /\ i - Len(s) < j - Len(s) /\ ~(j <= Len(s))
      BY <1>1, <1>3, <2>3
    <3>. QED  BY <1>2, <1>3, <2>3, <3>1 DEF InOrder
  <2>. QED  BY <1>1, <2>1, <2>2, <2>3
<1>4. Range(s \o t) = Range(s) \union Range(t)
  BY RangeConcatenation
<1>. QED  BY <1>2, <1>3, <1>4 DEF InOrder

\* What is read is before what is left to read.
LEMMA CutInOrder ==
  ASSUME NEW s \in Seq(Message), NEW n \in 0 .. Len(s)
  PROVE  /\ Range(SubSeq(s, 1, n)) \subseteq Range(s)
         /\ Range(SubSeq(s, n + 1, Len(s))) \subseteq Range(s)
         /\ InOrder(s) => /\ InOrder(SubSeq(s, 1, n)) /\ InOrder(SubSeq(s, n + 1, Len(s)))
                          /\ AllBefore(Range(SubSeq(s, 1, n)), Range(SubSeq(s, n + 1, Len(s))))
<1> DEFINE a == SubSeq(s, 1, n)
           b == SubSeq(s, n + 1, Len(s))
<1>1. Len(s) \in Nat /\ DOMAIN s = 1 .. Len(s)
  OBVIOUS
<1>2. DOMAIN a = 1 .. n /\ DOMAIN b = 1 .. Len(s) - n
  BY ReadCut, LenProperties
<1>3. (\A i \in 1 .. n : a[i] = s[i]) /\ \A i \in 1 .. Len(s) - n : b[i] = s[n + i]
  BY ReadCut
<1>. HIDE DEF a, b
<1>4. /\ \A i \in 1 .. n : i \in 1 .. Len(s)
      /\ \A i \in 1 .. Len(s) - n : n + i \in 1 .. Len(s)
      /\ \A i, j \in 1 .. Len(s) - n : i < j => n + i < n + j
      /\ \A i \in 1 .. n, j \in 1 .. Len(s) - n : i < n + j
  BY <1>1
<1>5. Range(a) \subseteq Range(s) /\ Range(b) \subseteq Range(s)
  BY <1>1, <1>2, <1>3, <1>4 DEF Range
<1>6. InOrder(s) => InOrder(a) /\ InOrder(b)
  BY <1>1, <1>2, <1>3, <1>4 DEF InOrder
<1>7. InOrder(s) => AllBefore(Range(a), Range(b))
  BY <1>1, <1>2, <1>3, <1>4, SMTT(40) DEF InOrder, AllBefore, Range
<1>. QED  BY <1>5, <1>6, <1>7 DEF a, b

LEMMA BeforeParts ==
  ASSUME NEW A, NEW B, NEW C, NEW D, AllBefore(A, B), C \subseteq A, D \subseteq B
  PROVE  AllBefore(C, D)
BY DEF AllBefore

\* The versions that a message tells are numbers.
LEMMA VersionsType ==
  ASSUME NEW m \in Message, NEW p
  PROVE  VersionsIn(m, p) \subseteq Nat
BY MessageIs DEF VersionsIn, Description

-------------------------------------------------------------------------------
(* How a step moves the messages that are not handled yet.                 *)

LEMMA LineTypes ==
  ASSUME TypeOK
  PROVE  /\ wire \in Seq(Message) /\ remaining \in Seq(Message)
         /\ batch \in Seq(Message) /\ unprocessed \in Seq(Message)
         /\ \A i \in DOMAIN rawIn : rawIn[i].msgs \in Seq(Message)
         /\ Line \subseteq Message
<1>1. /\ wire \in Seq(Message) /\ remaining \in Seq(Message)
      /\ batch \in Seq(Message) /\ unprocessed \in Seq(Message)
  BY DEF TypeOK
<1>2. \A i \in DOMAIN rawIn : rawIn[i].msgs \in Seq(Message)
  <2> DEFINE R == [msgs : Seq(Message), known : BOOLEAN]
  <2>1. \A r \in R : r.msgs \in Seq(Message)
    OBVIOUS
  <2>2. rawIn \in Seq(R)
    BY DEF TypeOK
  <2>. HIDE DEF R
  <2>3. \A i \in DOMAIN rawIn : rawIn[i] \in R
    BY <2>2, ElementOfSeq, LenProperties
  <2>. QED  BY <2>1, <2>3
<1>3. Held \subseteq Message /\ Range(wire) \subseteq Message
  BY <1>1, RangeOfSeq DEF Held
<1>4. \A i \in DOMAIN rawIn : Arrived(i) \subseteq Message
  BY <1>2, RangeOfSeq DEF Arrived
<1>. QED  BY <1>1, <1>2, <1>3, <1>4 DEF Line

\* The switch sends m.
Sends(m) ==
    /\ m \in Message
    /\ wire' = Append(wire, m)
    /\ UNCHANGED <<unprocessed, remaining, batch, rawIn>>

\* The running task is done with the first message of its batch.
Handles ==
    /\ pc # "idle" /\ established /\ batch # <<>>
    /\ batch' = Tail(batch)
    /\ UNCHANGED <<unprocessed, remaining, rawIn, wire>>

LEMMA HeldKept ==
  ASSUME LineInOrder, Held' \subseteq Held, UNCHANGED <<rawIn, wire>>,
         InOrder(unprocessed'), InOrder(remaining'), InOrder(batch'),
         AllBefore(Range(unprocessed'), Range(batch'))
  PROVE  LineInOrder' /\ Line' \subseteq Line
<1>1. /\ AllBefore(Held', Range(wire'))
      /\ \A i \in DOMAIN rawIn' : AllBefore(Held', Arrived(i)')
  BY BeforeParts DEF LineInOrder, Arrived
<1>2. Line' \subseteq Line
  BY DEF Line, Arrived
<1>. QED  BY <1>1, <1>2 DEF LineInOrder, Arrived

LEMMA SendsInOrder ==
  ASSUME TypeOK, LineInOrder, NEW m, Sends(m), AllBefore(Line, {m})
  PROVE  LineInOrder' /\ Line' \subseteq Line \union {m}
<1>. USE DEF Arrived
<1>1. Range(wire') = Range(wire) \union {m} /\ (AllBefore(Range(wire), {m}) => InOrder(wire'))
  BY LineTypes, AppendedLast DEF Sends, LineInOrder
<1>2. AllBefore(Range(wire), {m}) /\ AllBefore(Held, {m})
  BY BeforeParts DEF Line
<1>3. Held' = Held
  BY DEF Sends, Held
<1>4. AllBefore(Held', Range(wire'))
  BY <1>1, <1>2, <1>3 DEF LineInOrder, AllBefore
<1>5. \A i \in DOMAIN rawIn : AllBefore(Range(rawIn[i].msgs), Range(wire'))
  <2>1. SUFFICES ASSUME NEW i \in DOMAIN rawIn PROVE AllBefore(Range(rawIn[i].msgs), Range(wire'))
    OBVIOUS
  <2>2. Range(rawIn[i].msgs) \subseteq Line
    BY DEF Line
  <2>3. AllBefore(Range(rawIn[i].msgs), {m})
    BY <2>2, BeforeParts
  <2>. QED  BY <1>1, <2>3 DEF LineInOrder, AllBefore
<1>6. Line' \subseteq Line \union {m}
  BY <1>1, <1>3 DEF Line, Sends
<1>. QED  BY <1>1, <1>2, <1>3, <1>4, <1>5, <1>6 DEF LineInOrder, Sends

LEMMA ReadsInOrder ==
  ASSUME TypeOK, LineInOrder, NEW n \in 0 .. Len(wire), ReadRaw(n)
  PROVE  LineInOrder' /\ Line' \subseteq Line
<1>. USE DEF taskVars
<1> DEFINE a == SubSeq(wire, 1, n)
           b == SubSeq(wire, n + 1, Len(wire))
<1>0. PICK k : k = Len(rawIn) + 1
  OBVIOUS
<1>1. UNCHANGED <<unprocessed, remaining, batch>> /\ wire' = b /\ Held' = Held
  BY DEF ReadRaw, Held
<1>2. /\ Range(a) \subseteq Range(wire) /\ Range(b) \subseteq Range(wire)
      /\ InOrder(a) /\ InOrder(b) /\ AllBefore(Range(a), Range(b))
  BY LineTypes, CutInOrder DEF LineInOrder
<1>3. /\ \A i \in DOMAIN rawIn : Arrived(i)' = Arrived(i) /\ rawIn'[i] = rawIn[i]
      /\ rawIn'[k].msgs = a
      /\ \A i \in DOMAIN rawIn' : i \in DOMAIN rawIn \/ i = k
      /\ \A i \in DOMAIN rawIn' : k < i => FALSE
  BY <1>0, RawInRead DEF Arrived
<1>4. Arrived(k)' = Range(a)
  BY <1>3 DEF Arrived
<1>. HIDE DEF a, b
<1>5. AllBefore(Held, Range(wire)) /\ AllBefore(Held, Range(a)) /\ AllBefore(Held, Range(b))
  BY <1>2, BeforeParts DEF LineInOrder
<1>6. \A i \in DOMAIN rawIn : AllBefore(Arrived(i), Range(a)) /\ AllBefore(Arrived(i), Range(b))
  BY <1>2, BeforeParts DEF LineInOrder
<1>7. \A i \in DOMAIN rawIn' : /\ InOrder(rawIn'[i].msgs)
                               /\ AllBefore(Held', Arrived(i)')
                               /\ AllBefore(Arrived(i)', Range(wire'))
  BY <1>1, <1>2, <1>3, <1>4, <1>5, <1>6 DEF LineInOrder
<1>8. \A i, j \in DOMAIN rawIn' : i < j => AllBefore(Arrived(i)', Arrived(j)')
  <2>1. SUFFICES ASSUME NEW i \in DOMAIN rawIn', NEW j \in DOMAIN rawIn', i < j
                 PROVE  AllBefore(Arrived(i)', Arrived(j)')
    OBVIOUS
  <2>2. i \in DOMAIN rawIn
    BY <1>3, <2>1
  <2>3. CASE j \in DOMAIN rawIn
    BY <1>3, <2>1, <2>2, <2>3 DEF LineInOrder
  <2>4. CASE j = k
    BY <1>3, <1>4, <1>6, <2>2, <2>4
  <2>. QED  BY <1>3, <2>3, <2>4
<1>9. Line' \subseteq Line
  <2>1. \A i \in DOMAIN rawIn' : Arrived(i)' \subseteq Line
    BY <1>2, <1>3, <1>4 DEF Line
  <2>. QED  BY <1>1, <1>2, <2>1 DEF Line
<1>. QED  BY <1>1, <1>2, <1>5, <1>7, <1>8, <1>9 DEF LineInOrder

LEMMA StartsInOrder ==
  ASSUME TypeOK, HandlersInTurn, LineInOrder, StartBatch
  PROVE  LineInOrder' /\ Line' \subseteq Line
<1>1. batch = <<>> /\ unprocessed = <<>> /\ unprocessed' = <<>> /\ remaining' = <<>> /\ wire' = wire
  BY DEF StartBatch, HandlersInTurn, switchVars
<1>2. Held = Range(remaining)
  BY <1>1, NoMessages DEF Held
<1>3. /\ Range(batch') = Held \union Arrived(1) /\ InOrder(batch')
  <2>1. /\ 1 \in DOMAIN rawIn /\ batch' = remaining \o rawIn[1].msgs
        /\ remaining \in Seq(Message) /\ rawIn[1].msgs \in Seq(Message)
    BY RawInTaken, LineTypes
  <2>2. InOrder(remaining) /\ InOrder(rawIn[1].msgs) /\ AllBefore(Range(remaining), Range(rawIn[1].msgs))
    BY <1>2, <2>1 DEF LineInOrder, Arrived
  <2>. QED  BY <1>2, <2>1, <2>2, JoinedInOrder DEF Arrived
<1>4. Held' = Held \union Arrived(1)
  BY <1>1, <1>3, NoMessages DEF Held
<1>5. /\ 1 \in DOMAIN rawIn
      /\ \A i \in DOMAIN rawIn' : /\ i + 1 \in DOMAIN rawIn /\ 1 < i + 1
                                  /\ rawIn'[i] = rawIn[i + 1] /\ Arrived(i)' = Arrived(i + 1)
  BY RawInTaken DEF Arrived
<1>6. \A i, j \in DOMAIN rawIn' : i < j => i + 1 < j + 1
  BY RawInTaken
<1>7. AllBefore(Held', Range(wire'))
  BY <1>1, <1>4, <1>5 DEF LineInOrder, AllBefore
<1>8. \A i \in DOMAIN rawIn' : AllBefore(Held', Arrived(i)')
  BY <1>4, <1>5 DEF LineInOrder, AllBefore
<1>9. \A i \in DOMAIN rawIn' : InOrder(rawIn'[i].msgs) /\ AllBefore(Arrived(i)', Range(wire'))
  BY <1>1, <1>5 DEF LineInOrder
<1>10. \A i, j \in DOMAIN rawIn' : i < j => AllBefore(Arrived(i)', Arrived(j)')
  BY <1>5, <1>6 DEF LineInOrder
<1>11. Line' \subseteq Line
  BY <1>1, <1>4, <1>5 DEF Line
<1>12. InOrder(unprocessed') /\ InOrder(remaining') /\ AllBefore(Range(unprocessed'), Range(batch'))
       /\ InOrder(wire')
  BY <1>1, NoMessages DEF LineInOrder, AllBefore
<1>. QED  BY <1>3, <1>7, <1>8, <1>9, <1>10, <1>11, <1>12 DEF LineInOrder

LEMMA DefersInOrder ==
  ASSUME TypeOK, LineInOrder, DeferMessage
  PROVE  LineInOrder' /\ Line' \subseteq Line
<1>1. /\ batch # <<>> /\ batch' = Tail(batch) /\ unprocessed' = Append(unprocessed, Head(batch))
      /\ UNCHANGED <<remaining, rawIn, wire>>
  BY DEF DeferMessage, switchVars
<1>2. /\ Head(batch) \in Message /\ Range(batch) = {Head(batch)} \union Range(batch')
      /\ InOrder(batch') /\ AllBefore({Head(batch)}, Range(batch'))
  BY <1>1, LineTypes, HeadFirst DEF LineInOrder
<1>3. AllBefore(Range(unprocessed), {Head(batch)}) /\ AllBefore(Range(unprocessed), Range(batch'))
  BY <1>2, BeforeParts DEF LineInOrder
<1>4. Range(unprocessed') = Range(unprocessed) \union {Head(batch)} /\ InOrder(unprocessed')
  BY <1>1, <1>2, <1>3, LineTypes, AppendedLast DEF LineInOrder
<1>5. AllBefore(Range(unprocessed'), Range(batch'))
  BY <1>2, <1>3, <1>4 DEF AllBefore
<1>6. Held' \subseteq Held
  BY <1>1, <1>2, <1>4 DEF Held
<1>. QED  BY <1>1, <1>2, <1>4, <1>5, <1>6, HeldKept DEF LineInOrder

\* What is handled is before all that is not.
LEMMA HandlesFirst ==
  ASSUME TypeOK, HandlersInTurn, LineInOrder, Handles
  PROVE  /\ LineInOrder' /\ Line' \subseteq Line
         /\ Head(batch) \in Line /\ AllBefore({Head(batch)}, Line')
<1>1. /\ batch # <<>> /\ batch' = Tail(batch) /\ UNCHANGED <<unprocessed, remaining, rawIn, wire>>
      /\ unprocessed = <<>> /\ remaining = <<>>
  BY DEF Handles, HandlersInTurn
<1>2. /\ Range(batch) = {Head(batch)} \union Range(batch')
      /\ InOrder(batch') /\ AllBefore({Head(batch)}, Range(batch'))
  BY <1>1, LineTypes, HeadFirst DEF LineInOrder
<1>3. Held = Range(batch) /\ Held' = Range(batch')
  BY <1>1, NoMessages DEF Held
<1>4. AllBefore(Range(unprocessed'), Range(batch'))
  BY <1>1, NoMessages DEF AllBefore
<1>5. LineInOrder' /\ Line' \subseteq Line
  BY <1>1, <1>2, <1>3, <1>4, HeldKept DEF LineInOrder
<1>6. AllBefore({Head(batch)}, Range(wire))
  BY <1>2, <1>3, BeforeParts DEF LineInOrder
<1>7. \A i \in DOMAIN rawIn : AllBefore({Head(batch)}, Arrived(i))
  BY <1>2, <1>3, BeforeParts DEF LineInOrder
<1>8. AllBefore({Head(batch)}, Line')
  BY <1>1, <1>2, <1>3, <1>6, <1>7 DEF AllBefore, Line, Arrived
<1>. QED  BY <1>2, <1>3, <1>5, <1>8 DEF Line

-------------------------------------------------------------------------------
(* What a step may change.                                                 *)

LEMMA HeldIsTheSame ==
  ASSUME LineInOrder, UNCHANGED <<unprocessed, remaining, batch, rawIn, wire>>
  PROVE  LineInOrder' /\ Line' \subseteq Line
<1>1. Held' = Held
  BY DEF Held
<1>. QED  BY <1>1, HeldKept DEF LineInOrder

\* A PORT_STATUS or a gathered reply is handled when it is the first of the batch.
LEMMA HandledMessage ==
  ASSUME TypeOK, HandlersInTurn, GatherPortDesc \/ UpdatePortStatus
  PROVE  /\ Handles /\ Head(batch) \in Message
         /\ GatherPortDesc => Head(batch).xid # 0
         /\ UpdatePortStatus => Head(batch).xid = 0
<1>. USE DEF switchVars, HandlersInTurn, DuringSetup
<1>1. CASE GatherPortDesc
  BY <1>1, LineTypes, HeadFirst DEF GatherPortDesc, Handles, UpdatePortStatus
<1>2. CASE UpdatePortStatus
  BY <1>2, LineTypes, HeadFirst DEF UpdatePortStatus, NextInBatch, Handles, TypeOK,
                                    GatherPortDesc
<1>. QED  BY <1>1, <1>2

\* Only the switch adds to the messages that are not handled yet.
LEMMA MovesInOrder ==
  ASSUME Sequential, TypeOK, NumbersInv, LineInOrder, Next
  PROVE  \/ Switch
         \/ LineInOrder' /\ Line' \subseteq Line
<1>. USE DEF switchVars, taskVars
<1>0. HandlersInTurn
  BY DEF NumbersInv
<1>1. CASE FeaturesReply
  <2>1. UNCHANGED <<unprocessed, remaining, batch, rawIn, wire>>
    BY <1>1 DEF FeaturesReply, Bind, PopSeenNum, PopXidSeqNum, PopMsgSeqCnt, Establish
  <2>. QED  BY <2>1, HeldIsTheSame
<1>2. ASSUME NEW n \in 0 .. Len(wire), ReadRaw(n) PROVE LineInOrder' /\ Line' \subseteq Line
  BY <1>2, ReadsInOrder
<1>3. CASE RawInLoop
  <2>1. CASE StartBatch
    BY <1>0, <2>1, StartsInOrder
  <2>2. CASE DeferMessage
    BY <2>2, DefersInOrder
  <2>3. CASE GatherPortDesc \/ UpdatePortStatus
    BY <1>0, <2>3, HandledMessage, HandlesFirst
  <2>4. CASE EmitPortStatus \/ \E e \in assembled : HandlePortDesc(e)
    <3>1. UNCHANGED <<unprocessed, remaining, batch, rawIn, wire>>
      BY <2>4 DEF EmitPortStatus, HandlePortDesc
    <3>. QED  BY <3>1, HeldIsTheSame
  <2>5. CASE ReturnIfDead \/ UpdateRaises
    <3>1. batch' = <<>> /\ unprocessed' = <<>> /\ UNCHANGED <<remaining, rawIn, wire>>
      BY <2>5 DEF ReturnIfDead, UpdateRaises
    <3>2. Held' \subseteq Held
      BY <3>1, NoMessages DEF Held
    <3>3. AllBefore(Range(unprocessed'), Range(batch'))
      BY <3>1, NoMessages DEF AllBefore
    <3>. QED  BY <3>1, <3>2, <3>3, NoMessages, HeldKept DEF LineInOrder
  <2>6. CASE EndBatch
    <3>1. /\ batch = <<>> /\ batch' = <<>> /\ unprocessed' = <<>> /\ remaining = <<>>
          /\ UNCHANGED <<rawIn, wire>>
      BY <1>0, <2>6 DEF EndBatch, HandlersInTurn
    <3>2. remaining' = unprocessed \o remaining \/ remaining' = <<>>
      BY <2>6, <3>1 DEF EndBatch
    <3>3. Range(remaining') \subseteq Held /\ InOrder(remaining')
      <4>1. CASE remaining' = <<>>
        BY <4>1, NoMessages
      <4>2. CASE remaining' = unprocessed \o remaining
        <5>1. InOrder(unprocessed) /\ InOrder(remaining) /\ AllBefore(Range(unprocessed), Range(remaining))
          BY <3>1, NoMessages DEF LineInOrder, AllBefore
        <5>. QED  BY <4>2, <5>1, LineTypes, JoinedInOrder DEF Held
      <4>. QED  BY <3>2, <4>1, <4>2
    <3>4. Held' \subseteq Held
      BY <3>1, <3>3, NoMessages DEF Held
    <3>5. AllBefore(Range(unprocessed'), Range(batch'))
      BY <3>1, NoMessages DEF AllBefore
    <3>. QED  BY <3>1, <3>3, <3>4, <3>5, NoMessages, HeldKept
  <2>. QED  BY <1>3, <2>1, <2>2, <2>3, <2>4, <2>5, <2>6 DEF RawInLoop
<1>4. CASE ConnectionLost
  <2>1. /\ wire' = <<>> /\ rawIn' = <<>> /\ remaining' = <<>>
        /\ UNCHANGED <<batch, unprocessed>>
    BY <1>4 DEF ConnectionLost
  <2>2. Held' \subseteq Held
    BY <2>1, NoMessages DEF Held
  <2>3. Line' \subseteq Line
    BY <2>1, <2>2, NoMessages DEF Line
  <2>4. AllBefore(Held', Range(wire')) /\ DOMAIN rawIn' = {}
    BY <2>1, NoMessages DEF AllBefore
  <2>. QED  BY <2>1, <2>3, <2>4, NoMessages DEF LineInOrder
<1>5. CASE Reconnect \/ ConnectionError
  <2>1. UNCHANGED <<unprocessed, remaining, batch, rawIn, wire>>
    BY <1>5 DEF Reconnect, ConnectionError
  <2>. QED  BY <2>1, HeldIsTheSame
<1>. QED  BY <1>1, <1>2, <1>3, <1>4, <1>5, StepIs

\* Ports only change to newer versions.
LEMMA PortGrows ==
  ASSUME TypeOK, Next, NEW p \in Ports
  PROVE  port[p].ver \in Nat /\ port[p].ver <= port'[p].ver
<1>0. port[p].ver \in Nat
  BY DEF TypeOK
<1>a. port[p].ver <= port[p].ver /\ port[p].ver <= port[p].ver + 1
  BY <1>0
<1>1. ASSUME NEW q \in Ports, NEW reason \in Reasons, NEW state \in States,
             SwitchChanges(q, reason, state)
      PROVE  port'[p].ver \in {port[p].ver, port[p].ver + 1}
  BY <1>1 DEF SwitchChanges, TypeOK
<1>2. ASSUME NEW x \in Requests, NEW ps \in SUBSET unanswered[x], SwitchDescribes(x, ps)
      PROVE  port' = port
  BY <1>2 DEF SwitchDescribes
<1>b. ASSUME port' = port PROVE port[p].ver <= port'[p].ver
  BY <1>a, <1>b
<1>3. CASE FeaturesReply
  BY <1>0, <1>b, <1>3 DEF FeaturesReply, Bind, PopSeenNum, PopXidSeqNum, PopMsgSeqCnt, Establish,
                    switchVars
<1>4. CASE RawInLoop
  BY <1>0, <1>b, <1>4 DEF RawInLoop, StartBatch, DeferMessage, GatherPortDesc, EmitPortStatus,
       UpdatePortStatus, UpdateRaises, ReturnIfDead, EndBatch, HandlePortDesc, switchVars
<1>5. CASE Reads \/ Reconnect \/ ConnectionError
  BY <1>0, <1>b, <1>5 DEF Reads, ReadRaw, Reconnect, ConnectionError, switchVars
<1>6. CASE ConnectionLost
  <2>1. port'[p].ver = port[p].ver
    BY <1>6 DEF ConnectionLost, TypeOK
  <2>. QED  BY <1>0, <1>a, <2>1
<1>7. CASE Switch
  BY <1>0, <1>a, <1>b, <1>1, <1>2, <1>7 DEF Switch
<1>. QED  BY <1>0, <1>3, <1>4, <1>5, <1>6, <1>7 DEF Next

\* An answer that was sent is not asked for again.
LEMMA AnsweredKept ==
  ASSUME TypeOK, Next, NEW x \in Requests, Answered(x)
  PROVE  Answered(x)'
<1>0. x \in 1 .. MaxReplies /\ MaxReplies \in Nat /\ requests \in Nat
  BY PortAssumption DEF Requests, TypeOK
<1>1. x <= requests /\ \A y \in 1 .. x : unanswered[y] = {} /\ y \in Requests /\ y <= requests
  BY <1>0 DEF Answered, Requests
<1>2. ASSUME x <= requests', \A y \in 1 .. x : unanswered'[y] = {} PROVE Answered(x)'
  BY <1>2 DEF Answered
<1>3. CASE Bind
  <2>1. requests' = requests + 1 /\ unanswered' = [unanswered EXCEPT ![requests + 1] = Ports]
    BY <1>3 DEF Bind
  <2>2. \A y \in 1 .. x : y # requests + 1
    BY <1>0, <1>1
  <2>3. \A y \in 1 .. x : unanswered'[y] = {}
    BY <1>1, <2>1, <2>2 DEF TypeOK
  <2>. QED  BY <1>0, <1>1, <1>2, <2>1, <2>3
<1>4. ASSUME NEW z \in Requests, NEW ps \in SUBSET unanswered[z], SwitchDescribes(z, ps)
      PROVE  Answered(x)'
  <2>1. unanswered' = [unanswered EXCEPT ![z] = @ \ ps] /\ requests' = requests
    BY <1>4 DEF SwitchDescribes, replyVars
  <2>2. \A y \in 1 .. x : unanswered'[y] = {}
    BY <1>1, <2>1 DEF TypeOK
  <2>. QED  BY <1>1, <1>2, <2>1, <2>2
<1>5. CASE ConnectionLost
  BY <1>1, <1>2, <1>5 DEF ConnectionLost, replyVars
<1>6. ASSUME UNCHANGED <<requests, unanswered>> PROVE Answered(x)'
  BY <1>1, <1>2, <1>6
<1>7. CASE PopSeenNum \/ PopXidSeqNum \/ PopMsgSeqCnt \/ Establish
  BY <1>6, <1>7 DEF PopSeenNum, PopXidSeqNum, PopMsgSeqCnt, Establish, switchVars
<1>8. CASE RawInLoop
  BY <1>6, <1>8 DEF RawInLoop, StartBatch, DeferMessage, GatherPortDesc, EmitPortStatus,
       UpdatePortStatus, UpdateRaises, ReturnIfDead, EndBatch, HandlePortDesc, switchVars,
       replyVars
<1>9. CASE Reads \/ Reconnect \/ ConnectionError
  BY <1>6, <1>9 DEF Reads, ReadRaw, Reconnect, ConnectionError, switchVars, replyVars
<1>10. ASSUME NEW q \in Ports, NEW reason \in Reasons, NEW state \in States,
              SwitchChanges(q, reason, state)
       PROVE  Answered(x)'
  BY <1>6, <1>10 DEF SwitchChanges, replyVars
<1>. QED
  BY <1>3, <1>4, <1>5, <1>7, <1>8, <1>9, <1>10 DEF Next, FeaturesReply, Switch

-------------------------------------------------------------------------------
(* What the switch sends is the last, and the newest.                      *)

\* m tells the versions that the ports have, and answers one request.
Tells(m) ==
    /\ \A p \in Ports : \A v \in VersionsIn(m, p) :
          v = port'[p].ver /\ (m.xid = 0 => port[p].ver < v)
    /\ m.xid # 0 => /\ ~Answered(m.xid) /\ Answered(m.xid)'
                    /\ \A e \in m.entries : e.xid = m.xid
                    /\ \A e, f \in m.entries : e.port = f.port => e = f

\* What tells the new versions, and answers what was not answered, is the last.
LEMMA TellsLast ==
  ASSUME TypeOK, Next, LineIsNews, RepliesAnswer, NEW m \in Message, Tells(m)
  PROVE  AllBefore(Line, {m})
<1>1. SUFFICES ASSUME NEW n \in Line PROVE Before(n, m)
  BY DEF AllBefore
<1>2. n \in Message
  BY LineTypes
<1>3. ASSUME NEW p \in Ports, NEW v \in VersionsIn(n, p), NEW w \in VersionsIn(m, p)
      PROVE  v <= w /\ (m.xid = 0 => v < w)
  <2>1. v <= port[p].ver /\ w = port'[p].ver /\ (m.xid = 0 => port[p].ver < w)
    BY <1>1, <1>3 DEF LineIsNews, Tells
  <2>2. v \in Nat /\ w \in Nat
    BY <1>2, VersionsType
  <2>. QED  BY <2>1, <2>2, PortGrows
<1>4. ASSUME n.xid # 0, m.xid # 0 PROVE n.xid < m.xid
  <2>1. /\ n.xid \in Requests /\ m.xid \in Requests
        /\ Answered(n.xid) /\ ~Answered(m.xid) /\ Answered(m.xid)'
    BY <1>1, <1>2, <1>4, MessageIs DEF RepliesAnswer, Tells
  <2>2. n.xid \in Nat /\ m.xid \in Nat /\ requests \in Nat
    BY <2>1 DEF Requests, TypeOK
  <2>3. ~(m.xid <= n.xid)
    <3>1. ASSUME m.xid <= n.xid PROVE Answered(m.xid)
      <4>1. m.xid <= requests /\ \A y \in 1 .. m.xid : y \in 1 .. n.xid
        BY <2>1, <2>2, <3>1 DEF Answered
      <4>. QED  BY <2>1, <4>1 DEF Answered
    <3>. QED  BY <2>1, <3>1
  <2>. QED  BY <2>2, <2>3
<1>. QED  BY <1>3, <1>4 DEF Before

LEMMA StatusSent ==
  ASSUME TypeOK, TypeOK', NEW p \in Ports, NEW reason \in Reasons, NEW state \in States,
         SwitchChanges(p, reason, state), Alive
  PROVE  \E m : Sends(m) /\ Tells(m)
<1> DEFINE m == [xid |-> 0, reason |-> reason, port |-> p, ver |-> port'[p].ver,
                 state |-> state]
<1>1. port'[p].ver \in Nat
  BY DEF TypeOK
<1>2. m \in Message
  BY <1>1 DEF Message
<1>3. wire' = Append(wire, m) /\ UNCHANGED <<unprocessed, remaining, batch, rawIn>>
  BY DEF SwitchChanges, taskVars
<1>4. \A q \in Ports : \A v \in VersionsIn(m, q) : v = port'[q].ver /\ port[q].ver < v
  <2>1. port'[p].ver = port[p].ver + 1 /\ port[p].ver \in Nat
    BY DEF SwitchChanges, TypeOK
  <2>2. \A q \in Ports : \A v \in VersionsIn(m, q) : q = p /\ v = port'[p].ver
    BY DEF VersionsIn
  <2>. QED  BY <2>1, <2>2
<1>5. m.xid = 0
  OBVIOUS
<1>. HIDE DEF m
<1>. QED  BY <1>2, <1>3, <1>4, <1>5 DEF Sends, Tells

LEMMA ReplySent ==
  ASSUME ~MultiPart, TypeOK, NoneAhead, NEW x \in Requests, NEW ps \in SUBSET unanswered[x],
         SwitchDescribes(x, ps)
  PROVE  \E m : Sends(m) /\ Tells(m)
<1> DEFINE m == [xid |-> x, entries |-> {Entry(x, p) : p \in {q \in ps : port[q].present}}]
<1>1. ps = unanswered[x] /\ ps # {} /\ ps \subseteq Ports /\ x # 0
  <2>1. ps = unanswered[x] /\ ps # {}
    BY DEF SwitchDescribes
  <2>2. x # 0
    BY DEF Requests
  <2>3. unanswered[x] \subseteq Ports
    BY DEF TypeOK
  <2>. QED  BY <2>1, <2>2, <2>3
<1>2. ASSUME NEW p \in ps
      PROVE  /\ Entry(x, p) \in Description
             /\ Entry(x, p).xid = x /\ Entry(x, p).port = p /\ Entry(x, p).ver = port[p].ver
  <2>1. p \in Ports /\ port[p].ver \in Nat /\ port[p].state \in States
    BY <1>1, <1>2 DEF TypeOK
  <2>. QED  BY <2>1 DEF Entry, Description
<1>3. m \in Message
  BY <1>2 DEF Message
<1>4. wire' = Append(wire, m) /\ UNCHANGED <<unprocessed, remaining, batch, rawIn, port, requests>>
  BY DEF SwitchDescribes, taskVars, replyVars
<1>5. ASSUME NEW q \in Ports, NEW v \in VersionsIn(m, q) PROVE v = port'[q].ver
  <2>1. PICK e \in m.entries : e.port = q /\ v = e.ver
    BY <1>1, <1>5 DEF VersionsIn
  <2>2. PICK p \in ps : e = Entry(x, p)
    BY <2>1
  <2>. QED  BY <1>2, <1>4, <2>1, <2>2
<1>6. \A e \in m.entries : e.xid = x
  BY <1>2
<1>7. \A e, f \in m.entries : e.port = f.port => e = f
  BY <1>2
<1>8. x \in 1 .. x /\ x \in Nat
  BY DEF Requests
<1>9. ~Answered(x)
  BY <1>1, <1>8 DEF Answered
<1>10. Answered(x)'
  <2>1. x <= requests /\ \A y \in 1 .. x - 1 : unanswered[y] = {}
    <3>1. x <= requests
      BY <1>1 DEF NoneAhead
    <3>. QED  BY <3>1 DEF SwitchDescribes
  <2>2. unanswered' = [unanswered EXCEPT ![x] = {}]
    <3>1. unanswered' = [unanswered EXCEPT ![x] = unanswered[x] \ ps]
      BY DEF SwitchDescribes
    <3>2. unanswered[x] \ ps = {}
      BY <1>1
    <3>. QED  BY <3>1, <3>2
  <2>3. \A y \in 1 .. x : y \in Requests /\ (y = x \/ y \in 1 .. x - 1)
    <3>1. x \in 1 .. MaxReplies /\ MaxReplies \in Nat
      BY PortAssumption DEF Requests
    <3>. QED  BY <3>1 DEF Requests
  <2>4. \A y \in 1 .. x : unanswered'[y] = {}
    BY <2>1, <2>2, <2>3 DEF TypeOK
  <2>. QED  BY <1>4, <2>1, <2>4 DEF Answered
<1>11. m.xid = x /\ m.xid # 0
  BY <1>1
<1>. HIDE DEF m
<1>. QED  BY <1>3, <1>4, <1>5, <1>6, <1>7, <1>9, <1>10, <1>11 DEF Sends, Tells

\* A step of the switch sends the last message, or none.
LEMMA SwitchSends ==
  ASSUME ~MultiPart, TypeOK, TypeOK', MessagesInv, Next, Switch
  PROVE  /\ UNCHANGED <<intf, requests, multipart, assembled, seqVars>>
         /\ LineInOrder'
         /\ \/ Line' \subseteq Line
            \/ \E m \in Message : /\ Line' \subseteq Line \union {m}
                                  /\ AllBefore(Line, {m}) /\ Tells(m)
<1>1. UNCHANGED <<intf, requests, multipart, assembled, seqVars>>
  BY DEF Switch, SwitchChanges, SwitchDescribes, intfVars, taskVars, seqVars, replyVars
<1>2. ASSUME NEW m, Sends(m), Tells(m)
      PROVE  /\ LineInOrder'
             /\ \E n \in Message : /\ Line' \subseteq Line \union {n}
                                   /\ AllBefore(Line, {n}) /\ Tells(n)
  <2>1. m \in Message
    BY <1>2 DEF Sends
  <2>2. AllBefore(Line, {m})
    BY <1>2, <2>1, TellsLast DEF MessagesInv
  <2>. QED  BY <1>2, <2>1, <2>2, SendsInOrder DEF MessagesInv
<1>3. ASSUME NEW p \in Ports, NEW reason \in Reasons, NEW state \in States,
             SwitchChanges(p, reason, state), ~Alive
      PROVE  LineInOrder' /\ Line' \subseteq Line
  <2>1. UNCHANGED <<unprocessed, remaining, batch, rawIn, wire>>
    BY <1>3 DEF SwitchChanges, taskVars
  <2>. QED  BY <2>1, HeldIsTheSame DEF MessagesInv
<1>4. CASE \E p \in Ports, reason \in Reasons, state \in States : SwitchChanges(p, reason, state)
  BY <1>1, <1>2, <1>3, <1>4, StatusSent
<1>5. CASE \E x \in Requests : \E ps \in SUBSET unanswered[x] : SwitchDescribes(x, ps)
  BY <1>1, <1>2, <1>5, ReplySent DEF MessagesInv
<1>. QED  BY <1>4, <1>5 DEF Switch

-------------------------------------------------------------------------------
(* The updates of interfaces.                                              *)

HandlesDescription == \E e \in assembled : HandlePortDesc(e)

LEMMA OnlyUpdates ==
  ASSUME Next, ~UpdatePortStatus, ~HandlesDescription
  PROVE  intf' = intf
<1>. USE DEF intfVars
<1>1. CASE FeaturesReply
  BY <1>1 DEF FeaturesReply, Bind, PopSeenNum, PopXidSeqNum, PopMsgSeqCnt, Establish
<1>2. CASE Switch
  BY <1>2 DEF Switch, SwitchChanges, SwitchDescribes
<1>3. CASE RawInLoop
  BY <1>3 DEF RawInLoop, StartBatch, DeferMessage, GatherPortDesc, EmitPortStatus, UpdateRaises,
              ReturnIfDead, EndBatch, HandlesDescription
<1>4. CASE Reads \/ ConnectionLost \/ Reconnect \/ ConnectionError
  BY <1>4 DEF Reads, ReadRaw, ConnectionLost, Reconnect, ConnectionError
<1>. QED  BY <1>1, <1>2, <1>3, <1>4 DEF Next

\* A PORT_STATUS, which is not late, is the last that its interface has seen.
LEMMA StatusUpdates ==
  ASSUME TypeOK, NumbersInv, UpdatePortStatus, NEW p, p = Head(batch).port
  PROVE  /\ p \in Ports /\ Head(batch).ver \in VersionsIn(Head(batch), p)
         /\ \A q \in Ports \ {p} : intf'[q] = intf[q] /\ seenNum'[q] = seenNum[q]
         /\ intf'[p].known /\ intf'[p].ver \in {intf[p].ver, Head(batch).ver}
         /\ seenNum'[p] = xidSeqNum[0]
         /\ UNCHANGED <<msgSeqCnt, xidSeqNum, multipart, assembled>>
<1> DEFINE m == Head(batch)
<1>1. m \in Message /\ m.xid = 0
  BY HandledMessage DEF NumbersInv
<1>2. p \in Ports
  BY <1>1, MessageIs
<1>3. m.ver \in VersionsIn(m, p)
  BY <1>1 DEF VersionsIn
<1>4. ~Late(p, 0)
  BY NumbersAreNotLate DEF StatusNeverLate, UpdatePortStatus
<1>5. /\ m.reason = "OFPPR_DELETE" => intf[p].known
      /\ intf' = IF m.reason = "OFPPR_DELETE" THEN [intf EXCEPT ![p].active = FALSE]
                 ELSE Updated(p, m)
      /\ seenNum' = [seenNum EXCEPT ![p] = xidSeqNum[0]]
      /\ UNCHANGED <<msgSeqCnt, xidSeqNum, multipart, assembled>>
  BY <1>4, SMTT(40) DEF UpdatePortStatus
<1>6. CASE m.reason = "OFPPR_DELETE"
  <2>1. intf' = [intf EXCEPT ![p].active = FALSE] /\ intf[p].known
    BY <1>5, <1>6
  <2>. HIDE DEF m
  <2>2. (\A q \in Ports \ {p} : intf'[q] = intf[q]) /\ intf'[p].known /\ intf'[p].ver = intf[p].ver
    BY <1>2, <2>1 DEF TypeOK
  <2>. QED  BY <1>2, <1>3, <1>5, <2>2 DEF TypeOK, m
<1>7. CASE m.reason # "OFPPR_DELETE"
  <2>1. intf' = Updated(p, m)
    BY <1>5, <1>7
  <2>. HIDE DEF m
  <2>2. (\A q \in Ports \ {p} : intf'[q] = intf[q]) /\ intf'[p].known /\ intf'[p].ver = m.ver
    BY <1>2, <2>1 DEF TypeOK, Updated
  <2>. QED  BY <1>2, <1>3, <1>5, <2>2 DEF TypeOK, m
<1>. QED  BY <1>6, <1>7

\* A description is late, or what its interface has seen.
LEMMA DescriptionUpdates ==
  ASSUME TypeOK, NEW e \in assembled, HandlePortDesc(e)
  PROVE  /\ e \in Waiting /\ e \in Description
         /\ Waiting' \subseteq Waiting
         /\ UNCHANGED <<msgSeqCnt, xidSeqNum>>
         /\ \/ UNCHANGED <<intf, seenNum>>
            \/ /\ ~Late(e.port, e.xid)
               /\ \A q \in Ports \ {e.port} : intf'[q] = intf[q] /\ seenNum'[q] = seenNum[q]
               /\ intf'[e.port].known /\ intf'[e.port].ver = e.ver
               /\ seenNum'[e.port] = xidSeqNum[e.xid]
<1>1. /\ e \in Waiting /\ e \in Description /\ e.port \in Ports /\ e.xid \in Xids
      /\ Waiting' \subseteq Waiting
  BY DEF TypeOK, HandlePortDesc, Waiting, Description, Xids, taskVars
<1>2. UNCHANGED <<msgSeqCnt, xidSeqNum>>
  BY DEF HandlePortDesc
<1>3. CASE Late(e.port, e.xid)
  BY <1>1, <1>2, <1>3 DEF HandlePortDesc
<1>4. CASE ~Late(e.port, e.xid)
  <2>1. intf' = Updated(e.port, e) /\ seenNum' = [seenNum EXCEPT ![e.port] = xidSeqNum[e.xid]]
    BY <1>4 DEF HandlePortDesc
  <2>. QED  BY <1>1, <1>2, <1>4, <2>1 DEF TypeOK, Updated
<1>. QED  BY <1>3, <1>4

\* No message that is not handled is older than its interface becomes.
LEMMA NextNews ==
  ASSUME Sequential, ~MultiPart, TypeOK, TypeOK', NumbersInv, MessagesInv, Next
  PROVE  LineIsNews' /\ \A p \in Ports : intf'[p].ver <= port'[p].ver
<1>0. LineIsNews /\ LineInOrder /\ NoneAhead /\ HandlersInTurn
  BY DEF MessagesInv, NumbersInv
<1>1. \A p \in Ports : /\ port[p].ver \in Nat /\ port'[p].ver \in Nat
                       /\ intf[p].ver \in Nat /\ intf'[p].ver \in Nat
                       /\ port[p].ver <= port'[p].ver
                       /\ intf[p].ver <= port[p].ver /\ intf[p].ver <= port'[p].ver
  <2>1. \A p \in Ports : /\ port[p].ver \in Nat /\ port'[p].ver \in Nat
                         /\ intf[p].ver \in Nat /\ intf'[p].ver \in Nat
    BY DEF TypeOK
  <2>2. \A p \in Ports : port[p].ver <= port'[p].ver /\ intf[p].ver <= port[p].ver
    BY <1>0, PortGrows DEF NoneAhead
  <2>. QED  BY <2>1, <2>2
<1>2. ASSUME NEW m \in Line, NEW p \in Ports, NEW v \in VersionsIn(m, p)
      PROVE  /\ intf[p].ver <= v /\ v <= port'[p].ver /\ v \in Nat
             /\ m.xid = 0 => intf[p].ver < v
  <2>1. v \in Nat
    BY <1>2, LineTypes, VersionsType
  <2>2. intf[p].ver <= v /\ v <= port[p].ver /\ (m.xid = 0 => intf[p].ver < v)
    BY <1>0, <1>2 DEF LineIsNews
  <2>. QED  BY <1>1, <1>2, <2>1, <2>2
<1>3. CASE Switch
  <2>1. intf' = intf
    BY <1>3, SwitchSends
  <2>2. ASSUME NEW m \in Message, Tells(m), NEW p \in Ports, NEW v \in VersionsIn(m, p)
        PROVE  intf[p].ver <= v /\ v <= port'[p].ver /\ (m.xid = 0 => intf[p].ver < v)
    BY <1>1, <2>2 DEF Tells
  <2>3. CASE Line' \subseteq Line
    BY <1>1, <1>2, <2>1, <2>3 DEF LineIsNews
  <2>4. CASE \E m \in Message : Line' \subseteq Line \union {m} /\ AllBefore(Line, {m}) /\ Tells(m)
    <3>1. PICK m \in Message : Line' \subseteq Line \union {m} /\ Tells(m)
      BY <2>4
    <3>. QED  BY <1>1, <1>2, <2>1, <2>2, <3>1 DEF LineIsNews
  <2>. QED  BY <1>3, <2>3, <2>4, SwitchSends
<1>4. CASE ~Switch /\ ~UpdatePortStatus /\ ~HandlesDescription
  <2>1. intf' = intf /\ Line' \subseteq Line
    BY <1>0, <1>4, OnlyUpdates, MovesInOrder
  <2>. QED  BY <1>1, <1>2, <2>1 DEF LineIsNews
<1>5. CASE UpdatePortStatus
  <2> DEFINE m == Head(batch)
  <2>1. PICK p : p = m.port
    OBVIOUS
  <2>2. /\ p \in Ports /\ m.ver \in VersionsIn(m, p)
        /\ \A q \in Ports \ {p} : intf'[q].ver = intf[q].ver
        /\ intf'[p].ver \in {intf[p].ver, m.ver}
    BY <1>5, <2>1, StatusUpdates
  <2>3. m \in Line /\ Line' \subseteq Line /\ AllBefore({m}, Line')
    BY <1>0, <1>5, HandledMessage, HandlesFirst
  <2>. HIDE DEF m
  <2>4. m.ver <= port'[p].ver
    BY <1>2, <2>2, <2>3
  <2>5. ASSUME NEW n \in Line', NEW v \in VersionsIn(n, p)
        PROVE  m.ver <= v /\ (n.xid = 0 => m.ver < v)
    BY <2>2, <2>3, <2>5 DEF AllBefore, Before
  <2>. QED  BY <1>1, <1>2, <2>2, <2>3, <2>4, <2>5 DEF LineIsNews
<1>6. ASSUME NEW e \in assembled, HandlePortDesc(e), ~Switch
      PROVE  LineIsNews' /\ \A p \in Ports : intf'[p].ver <= port'[p].ver
  <2>1. Line' \subseteq Line
    BY <1>0, <1>6, MovesInOrder
  <2>2. e \in Waiting /\ e.port \in Ports
    BY <1>6, DescriptionUpdates DEF Description
  <2>3. /\ e.ver <= port[e.port].ver
        /\ \A m \in Line : \A v \in VersionsIn(m, e.port) :
              e.ver <= v /\ (m.xid = 0 => e.ver < v)
    BY <2>2 DEF MessagesInv, WaitingOrLate, WaitingFirst
  <2>4. e.ver <= port'[e.port].ver
    <3>1. e.ver \in Nat
      BY <1>6, DescriptionUpdates DEF Description
    <3>. QED  BY <1>1, <2>2, <2>3, <3>1
  <2>5. CASE intf' = intf
    BY <1>1, <1>2, <2>1, <2>5 DEF LineIsNews
  <2>6. CASE intf' # intf
    <3>1. /\ \A q \in Ports \ {e.port} : intf'[q].ver = intf[q].ver
          /\ intf'[e.port].ver = e.ver
      BY <1>6, <2>6, DescriptionUpdates
    <3>. QED  BY <1>1, <1>2, <2>1, <2>2, <2>3, <2>4, <3>1 DEF LineIsNews
  <2>. QED  BY <2>5, <2>6
<1>. QED  BY <1>3, <1>4, <1>5, <1>6 DEF HandlesDescription

-------------------------------------------------------------------------------
(* The descriptions that wait.                                             *)

LEMMA WaitingTypes ==
  ASSUME TypeOK, NEW e \in Waiting
  PROVE  /\ e \in Description /\ e.port \in Ports /\ e.ver \in Nat
         /\ e.xid \in Requests /\ e.xid \in Xids /\ e.xid # 0 /\ e.xid \in Nat
BY DEF TypeOK, Waiting, Description, Xids, Requests

\* Only a reply that is gathered adds to what waits.
LEMMA WaitingMoves ==
  ASSUME TypeOK, Next
  PROVE  \/ Waiting' \subseteq Waiting
         \/ GatherPortDesc /\ Waiting' \subseteq Waiting \union Head(batch).entries
<1>. USE DEF taskVars, Waiting
<1>1. CASE FeaturesReply
  BY <1>1 DEF FeaturesReply, Bind, PopSeenNum, PopXidSeqNum, PopMsgSeqCnt, Establish
<1>2. CASE Switch \/ Reads
  BY <1>2 DEF Switch, SwitchChanges, SwitchDescribes, Reads, ReadRaw
<1>3. CASE StartBatch \/ DeferMessage \/ EmitPortStatus \/ UpdatePortStatus
  BY <1>3 DEF StartBatch, DeferMessage, EmitPortStatus, UpdatePortStatus
<1>4. CASE UpdateRaises \/ ReturnIfDead \/ EndBatch
  BY <1>4 DEF UpdateRaises, ReturnIfDead, EndBatch
<1>5. CASE GatherPortDesc
  BY <1>5 DEF GatherPortDesc
<1>6. CASE HandlesDescription
  BY <1>6 DEF HandlesDescription, HandlePortDesc
<1>7. CASE ConnectionLost \/ Reconnect \/ ConnectionError
  BY <1>7 DEF ConnectionLost, Reconnect, ConnectionError
<1>. QED
  BY <1>1, <1>2, <1>3, <1>4, <1>5, <1>6, <1>7 DEF Next, RawInLoop, HandlesDescription

\* The number of a description that waits is neither popped nor given again.
LEMMA WaitingNumbers ==
  ASSUME Sequential, TypeOK, NumbersInv, WaitingFirst, Next, NEW e \in Waiting
  PROVE  /\ xidSeqNum'[e.xid] = xidSeqNum[e.xid]
         /\ seenNum' = seenNum \/ UpdatePortStatus \/ HandlesDescription
<1>. USE DEF seqVars
<1>0. HandlersInTurn
  BY DEF NumbersInv
<1>1. ~(pc = "idle" /\ assembled = {})
  BY <1>0 DEF HandlersInTurn, Waiting
<1>2. ~ThreadMayRun /\ thread \notin {"seen", "xids"}
  BY <1>0, <1>1, Turns DEF HandlersInTurn
<1>3. ASSUME NEW y, y = 0 \/ \E m \in Line : m.xid # 0 /\ y = m.xid, CountMessage(y)
      PROVE  xidSeqNum'[e.xid] = xidSeqNum[e.xid]
  <2>1. e.xid # y
    <3>1. CASE y = 0
      BY <3>1, WaitingTypes
    <3>2. ASSUME NEW m \in Line, m.xid # 0, y = m.xid PROVE e.xid # y
      BY <3>2, WaitingTypes, LineTypes, MessageIs DEF WaitingFirst, Requests
    <3>. QED  BY <1>3, <3>1, <3>2
  <2>. QED  BY <1>3, <2>1, WaitingTypes DEF CountMessage, TypeOK
<1>4. batch # <<>> => Head(batch).xid = 0 \/ \E m \in Line : m.xid # 0 /\ Head(batch).xid = m.xid
  BY LineTypes, HeadFirst DEF Line, Held
<1>5. CASE DeferMessage
  BY <1>3, <1>4, <1>5 DEF DeferMessage
<1>6. CASE GatherPortDesc
  BY <1>3, <1>4, <1>6 DEF GatherPortDesc
<1>7. CASE EmitPortStatus
  BY <1>3, <1>7 DEF EmitPortStatus
<1>8. CASE UpdatePortStatus
  BY <1>8 DEF UpdatePortStatus
<1>9. CASE HandlesDescription
  BY <1>9 DEF HandlesDescription, HandlePortDesc
<1>10. CASE StartBatch \/ UpdateRaises \/ ReturnIfDead \/ EndBatch
  BY <1>10 DEF StartBatch, UpdateRaises, ReturnIfDead, EndBatch
<1>11. CASE FeaturesReply
  BY <1>2, <1>11 DEF FeaturesReply, Bind, PopSeenNum, PopXidSeqNum, PopMsgSeqCnt, Establish
<1>12. CASE Switch \/ Reads
  BY <1>12 DEF Switch, SwitchChanges, SwitchDescribes, Reads, ReadRaw
<1>13. CASE ConnectionLost \/ Reconnect
  BY <1>13 DEF ConnectionLost, Reconnect
<1>14. CASE ConnectionError
  BY <1>2, <1>14 DEF ConnectionError
<1>. QED
  BY <1>5, <1>6, <1>7, <1>8, <1>9, <1>10, <1>11, <1>12, <1>13, <1>14
     DEF Next, RawInLoop, HandlesDescription

\* A gathered reply tells, for each of its descriptions, what its messages tell.
LEMMA GatheredVersions ==
  ASSUME NEW m, m.xid # 0, NEW e \in m.entries
  PROVE  e.ver \in VersionsIn(m, e.port)
BY DEF VersionsIn

LEMMA NextAnswers ==
  ASSUME Sequential, ~MultiPart, TypeOK, TypeOK', NumbersInv, MessagesInv, Next
  PROVE  RepliesAnswer'
<1>1. ASSUME NEW m \in Line, m.xid # 0
      PROVE  /\ Answered(m.xid)'
             /\ \A e \in m.entries : e.xid = m.xid
             /\ \A e, f \in m.entries : e.port = f.port => e = f
  <2>1. /\ Answered(m.xid)
        /\ \A e \in m.entries : e.xid = m.xid
        /\ \A e, f \in m.entries : e.port = f.port => e = f
    BY <1>1 DEF MessagesInv, RepliesAnswer
  <2>2. m.xid \in Requests
    BY <1>1, LineTypes, MessageIs
  <2>3. ASSUME NEW x, x = m.xid PROVE Answered(x)'
    BY <2>1, <2>2, <2>3, AnsweredKept
  <2>. QED  BY <2>1, <2>3
<1>2. CASE Line' \subseteq Line
  BY <1>1, <1>2 DEF RepliesAnswer
<1>3. CASE \E m \in Message : Line' \subseteq Line \union {m} /\ AllBefore(Line, {m}) /\ Tells(m)
  BY <1>1, <1>3 DEF RepliesAnswer, Tells
<1>. QED  BY <1>2, <1>3, SwitchSends, MovesInOrder DEF MessagesInv

LEMMA NextWaitingFirst ==
  ASSUME Sequential, ~MultiPart, TypeOK, TypeOK', NumbersInv, MessagesInv, Next
  PROVE  WaitingFirst'
<1>0. /\ HandlersInTurn /\ LineInOrder /\ LineIsNews /\ RepliesAnswer
      /\ WaitingOrLate /\ WaitingFirst
  BY DEF NumbersInv, MessagesInv
<1>1. CASE Waiting' \subseteq Waiting /\ Line' \subseteq Line
  BY <1>0, <1>1 DEF WaitingFirst
<1>2. ASSUME Waiting' \subseteq Waiting, NEW m \in Message,
             Line' \subseteq Line \union {m}, Tells(m)
      PROVE  WaitingFirst'
  <2>1. ASSUME NEW e \in Waiting
        PROVE  /\ \A v \in VersionsIn(m, e.port) : e.ver <= v /\ (m.xid = 0 => e.ver < v)
               /\ m.xid # 0 => e.xid < m.xid
    <3>1. /\ e.ver <= port[e.port].ver /\ port[e.port].ver <= port'[e.port].ver
          /\ e.ver \in Nat /\ port[e.port].ver \in Nat /\ port'[e.port].ver \in Nat
      BY <1>0, <2>1, WaitingTypes, PortGrows DEF WaitingOrLate, TypeOK
    <3>2. \A v \in VersionsIn(m, e.port) : v = port'[e.port].ver
                                            /\ (m.xid = 0 => port[e.port].ver < v)
      BY <1>2, <2>1, WaitingTypes DEF Tells
    <3>3. e.ver <= port'[e.port].ver
      BY <3>1
    <3>4. ASSUME m.xid # 0 PROVE e.xid < m.xid
      <4>1. Answered(e.xid) /\ ~Answered(m.xid) /\ Answered(m.xid)'
        BY <1>0, <1>2, <2>1, <3>4 DEF WaitingOrLate, Tells
      <4>2. e.xid \in Nat /\ m.xid \in Nat /\ requests \in Nat
        <5>1. m.xid \in Requests
          BY <1>2, <3>4, MessageIs
        <5>2. e.xid \in Nat
          BY <2>1, WaitingTypes
        <5>. QED  BY <5>1, <5>2, SMTT(40) DEF Requests, TypeOK
      <4>3. ASSUME m.xid <= e.xid PROVE Answered(m.xid)
        <5>0. e.xid <= requests
          BY <4>1 DEF Answered
        <5>1. m.xid <= requests /\ \A y \in 1 .. m.xid : y \in 1 .. e.xid
          BY <4>2, <4>3, <5>0
        <5>. QED  BY <4>1, <5>1 DEF Answered
      <4>. QED  BY <4>1, <4>2, <4>3
    <3>. QED  BY <3>1, <3>2, <3>3, <3>4
  <2>. QED  BY <1>0, <1>2, <2>1 DEF WaitingFirst
<1>3. CASE GatherPortDesc /\ Waiting' \subseteq Waiting \union Head(batch).entries
  <2> DEFINE m == Head(batch)
  <2>1. m \in Line /\ Line' \subseteq Line /\ AllBefore({m}, Line') /\ m.xid # 0
    BY <1>0, <1>3, HandledMessage, HandlesFirst
  <2>. HIDE DEF m
  <2>2. ASSUME NEW e \in m.entries, NEW n \in Line'
        PROVE  /\ \A v \in VersionsIn(n, e.port) : e.ver <= v /\ (n.xid = 0 => e.ver < v)
               /\ n.xid # 0 => e.xid < n.xid
    <3>1. e.ver \in VersionsIn(m, e.port) /\ e.xid = m.xid
      BY <1>0, <2>1, <2>2, GatheredVersions DEF RepliesAnswer
    <3>2. e.port \in Ports
      BY <2>1, <2>2, LineTypes, MessageIs DEF Description
    <3>3. Before(m, n)
      BY <2>1, <2>2 DEF AllBefore
    <3>. QED  BY <2>1, <3>1, <3>2, <3>3 DEF Before
  <2>3. Waiting' \subseteq Waiting \union m.entries
    BY <1>3 DEF m
  <2>. QED  BY <1>0, <2>1, <2>2, <2>3 DEF WaitingFirst
<1>4. CASE Switch
  <2>1. Waiting' \subseteq Waiting
    BY <1>4, SwitchSends DEF Waiting
  <2>. QED  BY <1>1, <1>2, <1>4, <2>1, SwitchSends
<1>5. CASE ~Switch
  BY <1>0, <1>1, <1>3, <1>5, MovesInOrder, WaitingMoves
<1>. QED  BY <1>4, <1>5

\* A description stays late, or no older than its interface.
LEMMA NextWaiting ==
  ASSUME Sequential, ~MultiPart, TypeOK, TypeOK', NumbersInv, MessagesInv, Next
  PROVE  WaitingOrLate'
<1>0. /\ HandlersInTurn /\ LineInOrder /\ LineIsNews /\ RepliesAnswer
      /\ WaitingOrLate /\ WaitingFirst /\ WaitingInOrder
  BY DEF NumbersInv, MessagesInv
<1>1. ASSUME NEW e \in Description, NEW n \in Nat, n = port[e.port].ver, e.ver <= n, Answered(e.xid)
      PROVE  e.ver <= port'[e.port].ver /\ Answered(e.xid)'
  <2>1. e.port \in Ports /\ e.ver \in Nat /\ e.xid \in Requests
    BY <1>1 DEF Description
  <2>2. port'[e.port].ver \in Nat /\ n <= port'[e.port].ver
    BY <1>1, <2>1, PortGrows DEF TypeOK
  <2>. QED  BY <1>1, <2>1, <2>2, AnsweredKept
<1>2. ASSUME NEW e \in Waiting
      PROVE  /\ Late(e.port, e.xid) \/ intf[e.port].ver <= e.ver
             /\ e.ver <= port'[e.port].ver
             /\ Answered(e.xid)'
             /\ xidSeqNum'[e.xid] = xidSeqNum[e.xid]
  <2>1. e \in Description /\ port[e.port].ver \in Nat
    BY <1>2, WaitingTypes DEF TypeOK
  <2>2. /\ Late(e.port, e.xid) \/ intf[e.port].ver <= e.ver
        /\ e.ver <= port[e.port].ver /\ Answered(e.xid)
    BY <1>0, <1>2 DEF WaitingOrLate
  <2>. QED  BY <1>0, <1>1, <1>2, <2>1, <2>2, WaitingNumbers
<1>3. ASSUME NEW e \in Waiting, intf' = intf, seenNum' = seenNum
      PROVE  Late(e.port, e.xid)' \/ intf'[e.port].ver <= e.ver
  BY <1>2, <1>3 DEF Late
<1>4. CASE UpdatePortStatus
  <2> DEFINE m == Head(batch)
  <2>1. PICK p : p = m.port
    OBVIOUS
  <2>2. /\ p \in Ports
        /\ \A q \in Ports \ {p} : intf'[q] = intf[q] /\ seenNum'[q] = seenNum[q]
        /\ intf'[p].known /\ seenNum'[p] = xidSeqNum[0]
        /\ UNCHANGED <<msgSeqCnt, xidSeqNum, multipart, assembled>>
    BY <1>4, <2>1, StatusUpdates
  <2>3. ASSUME NEW e \in Waiting, e.port = p PROVE Late(e.port, e.xid)'
    <3>1. counted
      BY <1>4, <2>3 DEF UpdatePortStatus, NumbersInv, HandlersInTurn, CountedInTurn, Uncounted,
                        NothingCounted, Waiting
    <3>2. xidSeqNum[e.xid] < xidSeqNum[0]
      BY <1>4, <2>3, <3>1, WaitingTypes DEF UpdatePortStatus, NumbersInv, NumbersGiven
    <3>. QED  BY <2>2, <2>3, <3>2 DEF Late
  <2>4. ASSUME NEW e \in Waiting, e.port # p
        PROVE  Late(e.port, e.xid)' \/ intf'[e.port].ver <= e.ver
    BY <1>2, <2>2, <2>4, WaitingTypes DEF Late
  <2>. QED  BY <1>2, <2>2, <2>3, <2>4 DEF WaitingOrLate, Waiting
<1>5. ASSUME NEW e \in assembled, HandlePortDesc(e) PROVE WaitingOrLate'
  <2>1. e \in Waiting /\ Waiting' \subseteq Waiting
    BY <1>5, DescriptionUpdates
  <2>2. ASSUME NEW f \in Waiting PROVE Late(f.port, f.xid)' \/ intf'[f.port].ver <= f.ver
    <3>1. CASE UNCHANGED <<intf, seenNum>>
      BY <1>3, <3>1
    <3>2. CASE ~(UNCHANGED <<intf, seenNum>>)
      <4>1. /\ \A q \in Ports \ {e.port} : intf'[q] = intf[q] /\ seenNum'[q] = seenNum[q]
            /\ intf'[e.port].known /\ intf'[e.port].ver = e.ver
            /\ seenNum'[e.port] = xidSeqNum[e.xid]
        BY <1>5, <3>2, DescriptionUpdates
      <4>2. CASE f.port # e.port
        BY <1>2, <4>1, <4>2, WaitingTypes DEF Late
      <4>3. CASE f.port = e.port
        <5>1. e.xid \in Nat /\ f.xid \in Nat /\ e.ver \in Nat /\ f.ver \in Nat
          BY <2>1, WaitingTypes
        <5>2. CASE e.xid < f.xid
          <6>1. e.ver <= f.ver
            BY <1>0, <2>1, <4>3, <5>2 DEF WaitingInOrder
          <6>. QED  BY <4>1, <4>3, <6>1
        <5>3. CASE e.xid = f.xid
          <6>1. e = f
            BY <1>0, <2>1, <4>3, <5>3 DEF WaitingInOrder
          <6>. QED  BY <4>1, <5>1, <6>1
        <5>4. CASE f.xid < e.xid
          <6>1. xidSeqNum[f.xid] < xidSeqNum[e.xid]
            BY <1>0, <2>1, <4>3, <5>4 DEF WaitingInOrder
          <6>. QED  BY <1>2, <4>1, <4>3, <6>1 DEF Late
        <5>. QED  BY <5>1, <5>2, <5>3, <5>4
      <4>. QED  BY <4>2, <4>3
    <3>. QED  BY <3>1, <3>2
  <2>. QED  BY <1>2, <2>1, <2>2 DEF WaitingOrLate
<1>6. CASE ~UpdatePortStatus /\ ~HandlesDescription
  <2>1. intf' = intf
    BY <1>6, OnlyUpdates
  <2>2. \A e \in Waiting : Late(e.port, e.xid)' \/ intf'[e.port].ver <= e.ver
    BY <1>0, <1>3, <1>6, <2>1, WaitingNumbers
  <2>3. CASE Waiting' \subseteq Waiting
    BY <1>2, <2>2, <2>3 DEF WaitingOrLate
  <2>4. CASE GatherPortDesc /\ Waiting' \subseteq Waiting \union Head(batch).entries
    <3> DEFINE m == Head(batch)
    <3>1. m \in Line /\ m.xid # 0 /\ m \in Message
      BY <1>0, <2>4, HandledMessage, HandlesFirst
    <3>. HIDE DEF m
    <3>2. ASSUME NEW e \in m.entries
          PROVE  /\ intf'[e.port].ver <= e.ver /\ e.ver <= port'[e.port].ver
                 /\ Answered(e.xid)'
      <4>1. e.ver \in VersionsIn(m, e.port) /\ e.xid = m.xid /\ Answered(e.xid)
        BY <1>0, <3>1, <3>2, GatheredVersions DEF RepliesAnswer
      <4>2. e \in Description /\ e.port \in Ports
        BY <3>1, <3>2, MessageIs DEF Description
      <4>3. intf[e.port].ver <= e.ver /\ e.ver <= port[e.port].ver /\ port[e.port].ver \in Nat
        BY <1>0, <3>1, <4>1, <4>2 DEF LineIsNews, TypeOK
      <4>. QED  BY <1>1, <2>1, <4>1, <4>2, <4>3
    <3>3. Waiting' \subseteq Waiting \union m.entries
      BY <2>4 DEF m
    <3>. QED  BY <1>2, <2>2, <3>2, <3>3 DEF WaitingOrLate
  <2>. QED  BY <2>3, <2>4, WaitingMoves
<1>. QED  BY <1>4, <1>5, <1>6 DEF HandlesDescription

\* A newer description that waits keeps the higher number.
LEMMA NextWaitingInOrder ==
  ASSUME Sequential, ~MultiPart, TypeOK, TypeOK', NumbersInv, MessagesInv, Next
  PROVE  WaitingInOrder'
<1>0. /\ HandlersInTurn /\ LineInOrder /\ RepliesAnswer /\ WaitingFirst /\ WaitingInOrder
      /\ NumbersGiven /\ RepliesAreCounted
  BY DEF NumbersInv, MessagesInv
<1>1. \A e \in Waiting : xidSeqNum'[e.xid] = xidSeqNum[e.xid]
  BY <1>0, WaitingNumbers
<1>2. ASSUME NEW e \in Waiting, NEW f \in Waiting, e.port = f.port
      PROVE  /\ e.xid = f.xid => e = f
             /\ e.xid < f.xid => e.ver <= f.ver /\ xidSeqNum'[e.xid] < xidSeqNum'[f.xid]
  BY <1>0, <1>1, <1>2 DEF WaitingInOrder
<1>3. CASE Waiting' \subseteq Waiting
  BY <1>2, <1>3 DEF WaitingInOrder
<1>4. CASE GatherPortDesc /\ Waiting' \subseteq Waiting \union Head(batch).entries
  <2> DEFINE m == Head(batch)
  <2>1. m \in Line /\ m.xid # 0 /\ m \in Message /\ CountMessage(m.xid) /\ batch # <<>>
    BY <1>0, <1>4, HandledMessage, HandlesFirst DEF GatherPortDesc
  <2>2. counted
    <3>1. HasReply(batch)
      BY <2>1, LineTypes, TakenReply
    <3>. QED  BY <1>0, <1>4, <3>1 DEF RepliesAreCounted, Uncounted, GatherPortDesc
  <2>3. Waiting' \subseteq Waiting \union m.entries
    BY <1>4
  <2>. HIDE DEF m
  <2>4. m.xid \in Requests /\ m.xid \in Xids /\ m.xid \in Nat
    BY <2>1, MessageIs DEF Requests
  <2>5. PICK x : x = m.xid
    OBVIOUS
  <2>6. /\ xidSeqNum'[x] = msgSeqCnt'
        /\ \A y \in Xids \ {x} : xidSeqNum'[y] < msgSeqCnt'
    BY <1>0, <2>1, <2>2, <2>4, <2>5, CountedNumbers
  <2>7. \A e, f \in m.entries : e.xid = x /\ (e.port = f.port => e = f)
    BY <1>0, <2>1, <2>5 DEF RepliesAnswer
  <2>8. ASSUME NEW e \in Waiting, NEW f \in m.entries, e.port = f.port
        PROVE  e.xid < x /\ e.ver <= f.ver /\ xidSeqNum'[e.xid] < xidSeqNum'[x]
    <3>1. e.xid < x
      BY <1>0, <2>1, <2>5, <2>8 DEF WaitingFirst
    <3>2. e.ver <= f.ver
      BY <1>0, <2>1, <2>8, GatheredVersions DEF WaitingFirst
    <3>3. e.xid \in Xids \ {x}
      BY <2>4, <2>5, <2>8, <3>1, WaitingTypes
    <3>. QED  BY <2>6, <3>1, <3>2, <3>3
  <2>9. SUFFICES ASSUME NEW e \in Waiting \union m.entries, NEW f \in Waiting \union m.entries,
                        e.port = f.port
                 PROVE  /\ e.xid = f.xid => e = f
                        /\ e.xid < f.xid => /\ e.ver <= f.ver
                                            /\ xidSeqNum'[e.xid] < xidSeqNum'[f.xid]
    BY <2>3 DEF WaitingInOrder
  <2>10. CASE e \in Waiting /\ f \in Waiting
    BY <1>2, <2>9, <2>10
  <2>11. CASE e \in Waiting /\ f \in m.entries
    <3>1. f.xid = x /\ e.xid < x /\ e.ver <= f.ver /\ xidSeqNum'[e.xid] < xidSeqNum'[x]
      BY <2>7, <2>8, <2>9, <2>11
    <3>2. e.xid # f.xid
      BY <2>4, <2>5, <2>11, <3>1, WaitingTypes
    <3>. QED  BY <3>1, <3>2
  <2>12. CASE e \in m.entries /\ f \in Waiting
    <3>1. e.xid = x /\ f.xid < x
      BY <2>7, <2>8, <2>9, <2>12
    <3>2. e.xid # f.xid /\ ~(e.xid < f.xid)
      BY <2>4, <2>5, <2>12, <3>1, WaitingTypes
    <3>. QED  BY <3>2
  <2>13. CASE e \in m.entries /\ f \in m.entries
    <3>1. e.xid = x /\ f.xid = x /\ e = f
      BY <2>7, <2>9, <2>13
    <3>2. ~(x < x)
      BY <2>4, <2>5
    <3>. QED  BY <3>1, <3>2
  <2>. QED  BY <2>10, <2>11, <2>12, <2>13
<1>. QED  BY <1>3, <1>4, WaitingMoves

LEMMA NextNoneAhead ==
  ASSUME Sequential, ~MultiPart, TypeOK, TypeOK', NumbersInv, MessagesInv, Next
  PROVE  NoneAhead'
<1>1. \A p \in Ports : intf'[p].ver <= port'[p].ver
  BY NextNews
<1>2. \A x \in Requests : unanswered[x] # {} => x <= requests
  BY DEF MessagesInv, NoneAhead
<1>3. requests \in Nat /\ Requests \subseteq Nat
  BY SMTT(40) DEF TypeOK, Requests
<1>. SUFFICES \A x \in Requests : unanswered'[x] # {} => x <= requests'
  BY <1>1 DEF NoneAhead
<1>4. CASE Bind
  <2>1. requests' = requests + 1 /\ unanswered' = [unanswered EXCEPT ![requests + 1] = Ports]
    BY <1>4 DEF Bind
  <2>. QED  BY <1>2, <1>3, <2>1 DEF TypeOK
<1>5. CASE Switch
  BY <1>2, <1>5, ZenonT(40) DEF Switch, SwitchChanges, SwitchDescribes, replyVars, TypeOK
<1>6. CASE ConnectionLost
  BY <1>6 DEF ConnectionLost
<1>7. CASE PopSeenNum \/ PopXidSeqNum \/ PopMsgSeqCnt \/ Establish
  BY <1>2, <1>7 DEF PopSeenNum, PopXidSeqNum, PopMsgSeqCnt, Establish, switchVars
<1>8. CASE RawInLoop
  BY <1>2, <1>8 DEF RawInLoop, StartBatch, DeferMessage, GatherPortDesc, EmitPortStatus,
       UpdatePortStatus, UpdateRaises, ReturnIfDead, EndBatch, HandlePortDesc, switchVars,
       replyVars
<1>9. CASE Reads \/ Reconnect \/ ConnectionError
  BY <1>2, <1>9 DEF Reads, ReadRaw, Reconnect, ConnectionError, switchVars, replyVars
<1>. QED  BY <1>4, <1>5, <1>6, <1>7, <1>8, <1>9 DEF Next, FeaturesReply

-------------------------------------------------------------------------------
(* The invariant of the messages, and what it is for.                      *)

LEMMA InitMessages ==
  ASSUME Init
  PROVE  MessagesInv
<1>1. /\ wire = <<>> /\ remaining = <<>> /\ batch = <<>> /\ unprocessed = <<>> /\ rawIn = <<>>
      /\ multipart = {} /\ assembled = {}
  BY DEF Init
<1>2. DOMAIN rawIn = {} /\ Held = {} /\ Line = {} /\ Waiting = {}
  BY <1>1, NoMessages DEF Held, Line, Waiting
<1>3. LineInOrder
  BY <1>1, <1>2, NoMessages DEF LineInOrder, AllBefore
<1>4. LineIsNews /\ RepliesAnswer /\ WaitingOrLate /\ WaitingFirst /\ WaitingInOrder
  BY <1>2 DEF LineIsNews, RepliesAnswer, WaitingOrLate, WaitingFirst, WaitingInOrder
<1>5. NoneAhead
  <2>1. \A p \in Ports : intf[p].ver = 0 /\ port[p].ver = 1
    BY DEF Init
  <2>2. \A x \in Requests : unanswered[x] = {}
    BY DEF Init
  <2>. QED  BY <2>1, <2>2 DEF NoneAhead
<1>. QED  BY <1>3, <1>4, <1>5 DEF MessagesInv

LEMMA NextMessages ==
  ASSUME Sequential, ~MultiPart, TypeOK, TypeOK', NumbersInv, MessagesInv, [Next]_vars
  PROVE  MessagesInv'
<1>1. CASE Next
  <2>1. LineInOrder'
    BY <1>1, MovesInOrder, SwitchSends DEF MessagesInv
  <2>. QED
    BY <1>1, <2>1, NextNews, NextAnswers, NextWaiting, NextWaitingFirst, NextWaitingInOrder,
       NextNoneAhead DEF MessagesInv
<1>2. CASE UNCHANGED vars
  <2>1. UNCHANGED <<unprocessed, remaining, batch, rawIn, wire>>
    BY <1>2 DEF vars
  <2>2. LineInOrder' /\ Line' = Line /\ Waiting' = Waiting
    BY <1>2, <2>1, HeldIsTheSame DEF MessagesInv, Line, Held, Arrived, Waiting, vars
  <2>3. UNCHANGED <<port, intf, requests, unanswered, xidSeqNum, seenNum>>
    BY <1>2 DEF vars
  <2>4. LineIsNews' /\ RepliesAnswer'
    BY <2>2, <2>3 DEF MessagesInv, LineIsNews, RepliesAnswer, Answered
  <2>5. WaitingOrLate' /\ WaitingFirst' /\ WaitingInOrder' /\ NoneAhead'
    BY <2>2, <2>3 DEF MessagesInv, WaitingOrLate, WaitingFirst, WaitingInOrder, NoneAhead,
                      Answered, Late
  <2>. QED  BY <2>2, <2>4, <2>5 DEF MessagesInv
<1>. QED  BY <1>1, <1>2

\* Handlers that run one after the other, replies of one message: messages are
\* looked at in the order in which they were sent, and a description that waits
\* is newer than its interface or late.
THEOREM MessagesInvariant == ASSUME Sequential, ~MultiPart PROVE Spec => []MessagesInv
<1>1. Init => MessagesInv
  BY InitMessages
<1>2. TypeOK /\ TypeOK' /\ NumbersInv /\ MessagesInv /\ [Next]_vars => MessagesInv'
  BY NextMessages
<1>. QED  BY <1>1, <1>2, TypeCorrect, NumbersInvariant, PTL DEF Spec

LEMMA NoStepBack ==
  ASSUME Sequential, ~MultiPart, TypeOK, TypeOK', NumbersInv, MessagesInv, [Next]_vars,
         NEW p \in Ports
  PROVE  intf'[p].ver >= intf[p].ver
<1>0. intf[p].ver \in Nat /\ HandlersInTurn
  BY DEF TypeOK, NumbersInv
<1>1. CASE intf' = intf
  BY <1>0, <1>1
<1>2. CASE UpdatePortStatus
  <2> DEFINE m == Head(batch)
  <2>1. PICK q : q = m.port
    OBVIOUS
  <2>2. /\ q \in Ports /\ m.ver \in VersionsIn(m, q)
        /\ \A r \in Ports \ {q} : intf'[r] = intf[r]
        /\ intf'[q].ver \in {intf[q].ver, m.ver}
    BY <1>2, <2>1, StatusUpdates
  <2>3. m \in Line
    BY <1>0, <1>2, HandledMessage, HandlesFirst DEF MessagesInv
  <2>. HIDE DEF m
  <2>4. intf[q].ver <= m.ver /\ m.ver \in Nat
    BY <2>2, <2>3, LineTypes, VersionsType DEF MessagesInv, LineIsNews
  <2>. QED  BY <1>0, <2>2, <2>4
<1>3. ASSUME NEW e \in assembled, HandlePortDesc(e) PROVE intf'[p].ver >= intf[p].ver
  <2>1. e \in Waiting /\ e.ver \in Nat
    BY <1>3, DescriptionUpdates DEF Description
  <2>2. Late(e.port, e.xid) \/ intf[e.port].ver <= e.ver
    BY <2>1 DEF MessagesInv, WaitingOrLate
  <2>3. \/ intf' = intf
        \/ /\ ~Late(e.port, e.xid)
           /\ \A q \in Ports \ {e.port} : intf'[q] = intf[q]
           /\ intf'[e.port].ver = e.ver
    BY <1>3, DescriptionUpdates
  <2>. QED  BY <1>0, <2>1, <2>2, <2>3
<1>4. CASE ~UpdatePortStatus /\ ~HandlesDescription
  BY <1>1, <1>4, OnlyUpdates DEF vars
<1>. QED  BY <1>2, <1>3, <1>4 DEF HandlesDescription

\* No interface goes back to an older description of its port, for any number of
\* ports, changes, replies, raw events, losses and late errors, although replies
\* are handled after later PORT_STATUS messages and the numbers are popped.
THEOREM UpdatesAreNeverStale == ASSUME Sequential, ~MultiPart PROVE Spec => NoStaleUpdate
<1>1. TypeOK /\ TypeOK' /\ NumbersInv /\ MessagesInv /\ [Next]_vars
         => [\A p \in Ports : intf'[p].ver >= intf[p].ver]_vars
  BY NoStepBack
<1>. QED
  BY <1>1, TypeCorrect, NumbersInvariant, MessagesInvariant, PTL DEF Spec, NoStaleUpdate
===============================================================================
