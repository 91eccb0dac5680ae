---------------------------- MODULE HandshakeProofs ----------------------------
(***************************************************************************)
(* Proofs about Handshake, for every bound on the packets of the switch    *)
(* and every value of the settings, in three parts: types and the order of *)
(* the handshake; the places of packets; sessions and ConnectionPhases.    *)
(***************************************************************************)
EXTENDS HandshakeInvariants, TLAPS, SequenceTheorems, FiniteSetTheorems

-------------------------------------------------------------------------------
(* Part 1.  The variables keep their types, and no message but a features  *)
(* reply is handed over before the handshake of its connection is complete.*)

\* The kinds and the steps that the actions name.
LEMMA OutMembers ==
    /\ {"hello", "features_request", "set_config", "echo_reply", "echo_request",
        "multipart_request", "error"} \subseteq OutKinds
    /\ {"features_request", "echo_request"} = Asking
  BY DEF OutKinds, Asking

LEMMA StepMembers ==
    {"queued", "bound", "admitted", "completing", "finishing"} \subseteq ReplySteps
  BY DEF ReplySteps

\* Queueing a message leaves a count for every kind.
LEMMA QueueType ==
  ASSUME NEW f \in [OutKinds -> Nat], NEW k \in OutKinds
  PROVE  Queue(f, k) \in [OutKinds -> Nat]
  BY DEF Queue

\* A handler that takes a step, or ends, leaves a count for every step.
LEMMA MoveType ==
  ASSUME replies \in [ReplySteps -> Nat],
         NEW a \in ReplySteps, NEW b \in ReplySteps, replies[a] > 0
  PROVE  Move(a, b) \in [ReplySteps -> Nat]
  BY DEF Move

LEMMA LeaveType ==
  ASSUME replies \in [ReplySteps -> Nat], NEW a \in ReplySteps, replies[a] > 0
  PROVE  Leave(a) \in [ReplySteps -> Nat]
  BY DEF Leave

\* An answer of the switch takes a request from those it was asked.
LEMMA AnsweredType ==
  ASSUME asked \in [Asking -> Nat], NEW k \in Asking, asked[k] > 0
  PROVE  [asked EXCEPT ![k] = @ - 1] \in [Asking -> Nat]
  OBVIOUS

LEMMA SwitchSendsAsked ==
  ASSUME asked \in [Asking -> Nat], NEW k \in Kinds, SwitchSends(k)
  PROVE  asked' \in [Asking -> Nat]
<1>1. CASE k = "features_reply"
  <2>1. /\ asked["features_request"] > 0
        /\ asked' = [asked EXCEPT !["features_request"] = @ - 1]
    BY <1>1 DEF SwitchSends
  <2>. QED  BY <2>1, OutMembers, AnsweredType
<1>2. CASE k # "features_reply"
  BY <1>2 DEF SwitchSends
<1>. QED  BY <1>1, <1>2

LEMMA SwitchAnswersAsked ==
  ASSUME asked \in [Asking -> Nat], SwitchAnswersEcho
  PROVE  asked' \in [Asking -> Nat]
<1>1. /\ asked["echo_request"] > 0
      /\ asked' = [asked EXCEPT !["echo_request"] = @ - 1]
  BY DEF SwitchAnswersEcho
<1>. QED  BY <1>1, OutMembers, AnsweredType

\* Handing a packet over keeps the types of what it changes.
LEMMA DispatchType ==
  ASSUME TypeOK, NEW p \in Packet, Dispatch(p) \/ NotDispatched
  PROVE  /\ dispatched' \in Seq(Packet)
         /\ replies' \in [ReplySteps -> Nat]
         /\ echoes' \in Nat
<1>1. CASE NotDispatched
  BY <1>1 DEF NotDispatched, TypeOK
<1>2. CASE Dispatch(p)
  <2>1. dispatched' \in Seq(Packet)
    BY <1>2 DEF Dispatch, TypeOK
  <2>2. replies' \in [ReplySteps -> Nat]
    BY <1>2, StepMembers DEF Dispatch, TypeOK
  <2>3. echoes' \in Nat
    BY <1>2 DEF Dispatch, TypeOK
  <2>. QED  BY <2>1, <2>2, <2>3
<1>. QED  BY <1>1, <1>2

\* What is lost with a packet are packets, each with a number.
LEMMA LoseType ==
  ASSUME TypeOK, NEW S \in SUBSET Packet, NEW p \in Packet
  PROVE  Lose(S, p) \subseteq Loss
  BY DEF Lose, Loss, TypeOK

\* Every variable has its type in the initial state.
LEMMA InitTypeOK == Init => TypeOK
<1> SUFFICES ASSUME Init PROVE TypeOK
  OBVIOUS
<1> USE DEF Init
<1>1. /\ msgOut \in [OutKinds -> Nat]
      /\ asked \in [Asking -> Nat]
      /\ replies \in [ReplySteps -> Nat]
  OBVIOUS
<1>2. /\ wire \in Seq(Packet) /\ remaining \in Seq(Packet)
      /\ packets \in Seq(Packet) /\ unprocessed \in Seq(Packet)
      /\ dispatched \in Seq(Packet)
  OBVIOUS
<1>. QED  BY <1>1, <1>2 DEF TypeOK, ConnStates, ProtoStates, LoopSteps

\* Whatever on_raw_in, its listeners, the switch and the network do, every
\* variable keeps its type.
LEMMA NextTypeOK == TypeOK /\ [Next]_vars => TypeOK'
<1> SUFFICES ASSUME TypeOK, [Next]_vars
             PROVE  TypeOK'
  OBVIOUS
<1> USE DEF TypeOK, connVars, inVars, loopVars, outVars, threadVars, appVars
<1>SwitchSends. CASE \E k \in Kinds : SwitchSends(k)
  <2>. PICK k \in Kinds : SwitchSends(k)
    BY <1>SwitchSends
  <2>1. asked' \in [Asking -> Nat]
    BY SwitchSendsAsked
  <2>2. wire' \in Seq(Packet) /\ sent' \in Nat
    BY DEF SwitchSends, Packet
  <2>. QED  BY <2>1, <2>2 DEF SwitchSends
<1>SwitchAnswersEcho. CASE SwitchAnswersEcho
  <2>. USE <1>SwitchAnswersEcho
  <2>1. asked' \in [Asking -> Nat]
    BY SwitchAnswersAsked
  <2>2. wire' \in Seq(Packet)
    BY DEF SwitchAnswersEcho, Packet, Kinds
  <2>. QED  BY <2>1, <2>2 DEF SwitchAnswersEcho
<1>SendOut. CASE \E k \in OutKinds : SendOut(k)
  <2>. PICK k \in OutKinds : SendOut(k)
    BY <1>SendOut
  <2>1. msgOut' \in [OutKinds -> Nat]
    BY DEF SendOut
  <2>2. written' \subseteq OutKinds
    BY DEF SendOut
  <2>3. asked' \in [Asking -> Nat]
    BY DEF SendOut
  <2>4. sentNotices' \in Nat /\ echoesOut' \in Nat
    BY DEF SendOut
  <2>. QED  BY <2>1, <2>2, <2>3, <2>4 DEF SendOut
<1>Close. CASE Close
  BY <1>Close DEF Close, ConnStates
<1>StartRawIn. CASE Read
  <2>. PICK n \in 0 .. Len(wire) : StartRawIn(n)
    BY <1>StartRawIn DEF Read
  <2>1. /\ SubSeq(wire, 1, n) \in Seq(Packet)
        /\ SubSeq(wire, n + 1, Len(wire)) \in Seq(Packet)
    BY SubSeqProperties
  <2>2. remaining \o SubSeq(wire, 1, n) \in Seq(Packet)
    BY <2>1, ConcatProperties
  <2>3. /\ packets' \in Seq(Packet) /\ wire' \in Seq(Packet)
        /\ remaining' \in Seq(Packet) /\ pc' = "check"
    BY <2>1, <2>2 DEF StartRawIn
  <2>. QED  BY <2>3 DEF StartRawIn, LoopSteps
<1>ProcessMultipart. CASE \E p \in assembling : ProcessMultipart(p)
  <2>. PICK p \in assembling : ProcessMultipart(p)
    BY <1>ProcessMultipart
  <2>1. Dispatch(p) \/ NotDispatched
    BY DEF ProcessMultipart
  <2>2. /\ dispatched' \in Seq(Packet)
        /\ replies' \in [ReplySteps -> Nat]
        /\ echoes' \in Nat
    BY <2>1, DispatchType
  <2>3. assembling' \subseteq Packet /\ tasks' \subseteq SUBSET Packet
    BY DEF ProcessMultipart
  <2>. QED  BY <2>2, <2>3 DEF ProcessMultipart
<1>ProcessRaises. CASE \E p \in assembling : ProcessRaises(p)
  <2>. PICK p \in assembling : ProcessRaises(p)
    BY <1>ProcessRaises
  <2>1. PICK s \in tasks : /\ p \in s /\ assembling' = assembling \ s
                          /\ tasks' = tasks \ {s} /\ lost' = Lose(s, p)
    BY DEF ProcessRaises
  <2>2. lost' \subseteq Loss
    BY <2>1, LoseType
  <2>3. assembling' \subseteq Packet /\ tasks' \subseteq SUBSET Packet
    BY <2>1
  <2>. QED  BY <2>2, <2>3 DEF ProcessRaises, NotDispatched
<1>ReturnIfDead. CASE ReturnIfDead
  <2>. USE <1>ReturnIfDead
  <2>1. /\ pc' = "idle" /\ packets' \in Seq(Packet)
        /\ unprocessed' \in Seq(Packet) /\ multipart' \subseteq Packet
    BY DEF ReturnIfDead, Abandon
  <2>. QED  BY <2>1 DEF ReturnIfDead, LoopSteps
<1>LookAtPacket. CASE LookAtPacket
  BY <1>LookAtPacket DEF LookAtPacket, LoopSteps
<1>RouteUndecodable. CASE RouteUndecodable
  <2>. USE <1>RouteUndecodable
  <2>1. /\ pc' = "idle" /\ packets' \in Seq(Packet)
        /\ unprocessed' \in Seq(Packet) /\ multipart' \subseteq Packet
    BY DEF RouteUndecodable, Abandon
  <2>2. connState' \in ConnStates /\ socketOpen' \in BOOLEAN
    BY DEF RouteUndecodable, ConnStates
  <2>. QED  BY <2>1, <2>2 DEF RouteUndecodable, LoopSteps
<1>RouteDeferred. CASE RouteDeferred
  <2>. USE <1>RouteDeferred
  <2>1. Head(packets) \in Packet /\ Tail(packets) \in Seq(Packet)
    <3>1. packets # <<>>
      BY DEF RouteDeferred
    <3>. QED  BY <3>1, HeadTailProperties
  <2>2. packets' \in Seq(Packet) /\ pc' = "check"
    BY <2>1 DEF RouteDeferred, NextPacket
  <2>3. deferredOnce' \subseteq Nat
    BY <2>1 DEF RouteDeferred, Packet
  <2>4. unprocessed' \in Seq(Packet)
    BY <2>1 DEF RouteDeferred
  <2>. QED  BY <2>2, <2>3, <2>4 DEF RouteDeferred, LoopSteps, NotDispatched
<1>RouteMultipart. CASE RouteMultipart
  <2>. USE <1>RouteMultipart
  <2>1. Head(packets) \in Packet /\ Tail(packets) \in Seq(Packet)
    BY DEF RouteMultipart
  <2>2. packets' \in Seq(Packet) /\ pc' = "check"
    BY <2>1 DEF RouteMultipart, NextPacket
  <2>3. multipart' \subseteq Packet
    BY <2>1 DEF RouteMultipart
  <2>. QED  BY <2>1, <2>2, <2>3 DEF RouteMultipart, LoopSteps, NotDispatched
<1>RouteMessage. CASE RouteMessage
  <2>. USE <1>RouteMessage
  <2>1. Head(packets) \in Packet /\ Tail(packets) \in Seq(Packet)
    BY DEF RouteMessage
  <2>2. packets' \in Seq(Packet) /\ pc' = "check"
    BY <2>1 DEF RouteMessage, NextPacket
  <2>3. Dispatch(Head(packets)) \/ NotDispatched
    BY Zenon DEF RouteMessage
  <2>4. /\ dispatched' \in Seq(Packet)
        /\ replies' \in [ReplySteps -> Nat]
        /\ echoes' \in Nat
    BY <2>1, <2>3, DispatchType
  <2>. QED  BY <2>1, <2>2, <2>3, <2>4 DEF RouteMessage, LoopSteps
<1>RouteRaises. CASE RouteRaises
  <2>. USE <1>RouteRaises
  <2>1. /\ packets # <<>> /\ Head(packets) \in Packet /\ Tail(packets) \in Seq(Packet)
        /\ Dispatch(Head(packets))
    BY DEF RouteRaises
  <2>2. /\ dispatched' \in Seq(Packet)
        /\ replies' \in [ReplySteps -> Nat]
        /\ echoes' \in Nat
    BY <2>1, DispatchType
  <2>3. Range(Tail(packets)) \union Range(unprocessed) \union multipart \subseteq Packet
    BY <2>1, RangeOfSeq
  <2>4. lost' \subseteq Loss
    BY <2>1, <2>3, LoseType DEF RouteRaises
  <2>5. /\ pc' = "idle" /\ packets' \in Seq(Packet)
        /\ unprocessed' \in Seq(Packet) /\ multipart' \subseteq Packet
    BY DEF RouteRaises, Abandon
  <2>. QED  BY <2>2, <2>4, <2>5 DEF RouteRaises, LoopSteps
<1>EndBatch. CASE EndBatch
  <2>. USE <1>EndBatch
  <2>1. remaining' \in Seq(Packet)
    BY ConcatProperties DEF EndBatch
  <2>2. /\ assembling' \subseteq Packet /\ multipart' \subseteq Packet
        /\ tasks' \subseteq SUBSET Packet
    BY DEF EndBatch
  <2>. QED  BY <2>1, <2>2 DEF EndBatch, LoopSteps
<1>SayHello. CASE SayHello
  <2>. USE <1>SayHello
  <2>1. msgOut' \in [OutKinds -> Nat]
    BY QueueType, OutMembers DEF SayHello
  <2>. QED  BY <2>1 DEF SayHello, LoopSteps
<1>SendFeaturesRequest. CASE SendFeaturesRequest
  <2>. USE <1>SendFeaturesRequest
  <2>1. msgOut' \in [OutKinds -> Nat]
    BY QueueType, OutMembers DEF SendFeaturesRequest
  <2>. QED  BY <2>1 DEF SendFeaturesRequest, LoopSteps, ProtoStates
<1>SetSetup. CASE SetSetup
  BY <1>SetSetup DEF SetSetup, NextPacket, LoopSteps, ConnStates
<1>FailNegotiation. CASE FailNegotiation
  BY <1>FailNegotiation DEF FailNegotiation, LoopSteps, ProtoStates
<1>QueueError. CASE QueueError
  <2>. USE <1>QueueError
  <2>1. msgOut' \in [OutKinds -> Nat]
    BY QueueType, OutMembers DEF QueueError
  <2>. QED  BY <2>1 DEF QueueError, LoopSteps
<1>CloseFailed. CASE CloseFailed
  <2>. USE <1>CloseFailed
  <2>1. /\ pc' = "idle" /\ packets' \in Seq(Packet)
        /\ unprocessed' \in Seq(Packet) /\ multipart' \subseteq Packet
    BY DEF CloseFailed, Abandon
  <2>2. /\ connState' \in ConnStates /\ protoState' \in ProtoStates
        /\ socketOpen' \in BOOLEAN
    BY DEF CloseFailed, ConnStates, ProtoStates
  <2>. QED  BY <2>1, <2>2 DEF CloseFailed, LoopSteps
<1>ReadSentState. CASE ReadSentState
  BY <1>ReadSentState DEF ReadSentState
<1>WriteSentState. CASE WriteSentState
  BY <1>WriteSentState DEF WriteSentState, ProtoStates
<1>ReplyDuplicated. CASE ReplyDuplicated
  <2>. USE <1>ReplyDuplicated
  <2>1. replies' \in [ReplySteps -> Nat]
    BY LeaveType, StepMembers DEF ReplyDuplicated
  <2>. QED  BY <2>1 DEF ReplyDuplicated
<1>ReplyBinds. CASE ReplyBinds
  <2>. USE <1>ReplyBinds
  <2>1. replies' \in [ReplySteps -> Nat]
    BY MoveType, StepMembers DEF ReplyBinds
  <2>2. msgOut' \in [OutKinds -> Nat]
    BY QueueType, OutMembers DEF ReplyBinds
  <2>. QED  BY <2>1, <2>2 DEF ReplyBinds
<1>ReplyChecked. CASE ReplyChecked
  <2>. USE <1>ReplyChecked
  <2>1. replies' \in [ReplySteps -> Nat]
    BY MoveType, LeaveType, StepMembers DEF ReplyChecked
  <2>. QED  BY <2>1 DEF ReplyChecked
<1>ReplyConcludes. CASE ReplyConcludes
  <2>. USE <1>ReplyConcludes
  <2>1. replies' \in [ReplySteps -> Nat]
    BY MoveType, StepMembers DEF ReplyConcludes
  <2>. QED  BY <2>1 DEF ReplyConcludes, ProtoStates
<1>ReplyEstablishes. CASE ReplyEstablishes
  <2>. USE <1>ReplyEstablishes
  <2>1. replies' \in [ReplySteps -> Nat]
    BY MoveType, StepMembers DEF ReplyEstablishes
  <2>. QED  BY <2>1 DEF ReplyEstablishes, ConnStates
<1>ReplyAnnounces. CASE ReplyAnnounces
  <2>. USE <1>ReplyAnnounces
  <2>1. replies' \in [ReplySteps -> Nat]
    BY LeaveType, StepMembers DEF ReplyAnnounces
  <2>2. msgOut' \in [OutKinds -> Nat]
    BY QueueType, OutMembers DEF ReplyAnnounces
  <2>. QED  BY <2>1, <2>2 DEF ReplyAnnounces
<1>AnswerEcho. CASE AnswerEcho
  <2>. USE <1>AnswerEcho
  <2>1. msgOut' \in [OutKinds -> Nat]
    BY QueueType, OutMembers DEF AnswerEcho
  <2>. QED  BY <2>1 DEF AnswerEcho
<1>EchoReplySent. CASE EchoReplySent
  <2>. USE <1>EchoReplySent
  <2>1. msgOut' \in [OutKinds -> Nat]
    BY QueueType, OutMembers DEF EchoReplySent
  <2>. QED  BY <2>1 DEF EchoReplySent
<1>KeepAlive. CASE KeepAlive
  <2>. USE <1>KeepAlive
  <2>1. msgOut' \in [OutKinds -> Nat]
    BY QueueType, OutMembers DEF KeepAlive
  <2>. QED  BY <2>1 DEF KeepAlive
<1>Stutter. CASE UNCHANGED vars
  BY <1>Stutter DEF vars
<1>. QED
  BY <1>SwitchSends, <1>SwitchAnswersEcho, <1>SendOut, <1>Close,
     <1>StartRawIn, <1>ProcessMultipart, <1>ProcessRaises, <1>ReturnIfDead,
     <1>LookAtPacket, <1>RouteUndecodable, <1>RouteDeferred, <1>RouteMultipart,
     <1>RouteMessage, <1>RouteRaises, <1>EndBatch, <1>SayHello, <1>SendFeaturesRequest,
     <1>SetSetup, <1>FailNegotiation, <1>QueueError, <1>CloseFailed,
     <1>ReadSentState, <1>WriteSentState, <1>ReplyDuplicated, <1>ReplyBinds,
     <1>ReplyChecked, <1>ReplyConcludes, <1>ReplyEstablishes,
     <1>ReplyAnnounces, <1>AnswerEcho, <1>EchoReplySent, <1>KeepAlive,
     <1>Stutter
  DEF Next, Switch, RawInLoop, Negotiation, RequestSent, FeaturesReply, HandleMultipart

\* Type correctness of the connection, the handshake and the raw-in loop.
THEOREM TypeCorrect == Spec => []TypeOK
  BY InitTypeOK, NextTypeOK, PTL DEF Spec

-------------------------------------------------------------------------------
\* The strengthening holds in the initial state.
LEMMA InitInv == Init => HandshakeInv
  BY OutMembers, StepMembers
  DEF Init, HandshakeInv, DeadIsClosed, EstablishedIsComplete, RoutedIsNegotiated,
      MultipartIsLate, NegotiationIsEarly, NewIsUntouched, OneRequestInFlight,
      EchoesAreLate, RepliesInOrder, Negotiating, Complete, InFlight

\* A request that is sent, or seen as sent, does not make more of them.
LEMMA CountsTyped ==
  ASSUME TypeOK
  PROVE  /\ msgOut["features_request"] \in Nat
         /\ sentNotices \in Nat
         /\ sentChecked \in Nat
  BY OutMembers DEF TypeOK

LEMMA SendOutInFlight ==
  ASSUME TypeOK, NEW k \in OutKinds, SendOut(k)
  PROVE  InFlight' \in Nat /\ InFlight' <= InFlight /\ sentChecked' = sentChecked
<1>1. /\ sentChecked' = sentChecked /\ sentChecked \in Nat
      /\ sentNotices \in Nat /\ msgOut["features_request"] \in Nat
  BY CountsTyped DEF SendOut, threadVars
<1>2. msgOut' = [msgOut EXCEPT ![k] = @ - 1] /\ msgOut[k] > 0
  BY DEF SendOut
<1>3. msgOut \in [OutKinds -> Nat]
  BY DEF TypeOK
<1>4. CASE k = "features_request"
  <2>1. msgOut'["features_request"] = msgOut["features_request"] - 1
    BY <1>2, <1>3, <1>4
  <2>2. sentNotices' \in {sentNotices, sentNotices + 1}
    BY DEF SendOut
  <2>. QED  BY <1>1, <1>2, <1>4, <2>1, <2>2 DEF InFlight
<1>5. CASE k # "features_request"
  <2>1. msgOut'["features_request"] = msgOut["features_request"]
    BY <1>2, <1>3, <1>5, OutMembers
  <2>2. sentNotices' = sentNotices
    BY <1>5 DEF SendOut
  <2>. QED  BY <1>1, <2>1, <2>2 DEF InFlight
<1>. QED  BY <1>4, <1>5

LEMMA ReadInFlight ==
  ASSUME TypeOK, ReadSentState
  PROVE  InFlight' \in Nat /\ InFlight' <= InFlight
<1>1. msgOut' = msgOut
  BY DEF ReadSentState, outVars
<1>2. /\ sentNotices > 0 /\ sentNotices' = sentNotices - 1
      /\ sentChecked' \in {sentChecked, sentChecked + 1}
  BY DEF ReadSentState
<1>. QED  BY <1>1, <1>2, CountsTyped DEF InFlight

\* Only the one request in flight can be recorded, and none is after it.
LEMMA WriteInFlight ==
  ASSUME TypeOK, OneRequestInFlight, WriteSentState
  PROVE  protoState = "sending_features" /\ InFlight' = 0
<1>1. sentChecked > 0 /\ sentChecked' = sentChecked - 1
  BY DEF WriteSentState
<1>2. msgOut' = msgOut /\ sentNotices' = sentNotices
  BY DEF WriteSentState, outVars
<1>3. InFlight > 0
  BY <1>1, CountsTyped DEF InFlight
<1>4. protoState = "sending_features"
  BY <1>1, <1>3 DEF OneRequestInFlight, Complete, TypeOK, ProtoStates
<1>5. InFlight <= 1
  BY <1>4 DEF OneRequestInFlight
<1>. QED  BY <1>1, <1>2, <1>4, <1>5, CountsTyped DEF InFlight

LEMMA RequestInFlight ==
  ASSUME TypeOK, OneRequestInFlight, protoState = "none", SendFeaturesRequest
  PROVE  InFlight' \in Nat /\ InFlight' <= 1
<1>1. InFlight = 0
  BY DEF OneRequestInFlight
<1>2. sentNotices' = sentNotices /\ sentChecked' = sentChecked
  BY DEF SendFeaturesRequest, threadVars
<1>3. msgOut'["features_request"] \in {msgOut["features_request"],
                                      msgOut["features_request"] + 1}
  BY OutMembers DEF SendFeaturesRequest, Queue, TypeOK
<1>. QED  BY <1>1, <1>2, <1>3, CountsTyped DEF InFlight

\* When a reply is admitted the request that it answers has been recorded.
LEMMA AdmittedIsRecorded ==
  ASSUME TypeOK, OneRequestInFlight, RepliesInOrder, replies["admitted"] > 0
  PROVE  sentChecked = 0
<1>1. CASE Complete
  BY <1>1 DEF OneRequestInFlight
<1>2. CASE protoState = "waiting_features_reply"
  <2>1. InFlight = 0
    BY <1>2 DEF OneRequestInFlight
  <2>. QED  BY <2>1, CountsTyped DEF InFlight
<1>. QED  BY <1>1, <1>2 DEF RepliesInOrder, Complete

\* It is admitted on a connection whose negotiation is over.
LEMMA AdmittedIsNegotiated ==
  ASSUME NegotiationIsEarly, NewIsUntouched, replies["admitted"] > 0
  PROVE  connState # "NEW" /\ ~Negotiating
  BY DEF NegotiationIsEarly, NewIsUntouched

LEMMA FewerInFlight ==
  ASSUME TypeOK, OneRequestInFlight, protoState' = protoState,
         InFlight' \in Nat, InFlight' <= InFlight, Complete => sentChecked' = 0
  PROVE  OneRequestInFlight'
<1>1. InFlight \in Nat
  BY CountsTyped DEF InFlight
<1>. QED  BY <1>1 DEF OneRequestInFlight, Complete

\* Every step keeps the strengthening.
LEMMA NextInv == TypeOK /\ HandshakeInv /\ [Next]_vars => HandshakeInv'
<1> SUFFICES ASSUME TypeOK, HandshakeInv, [Next]_vars
             PROVE  HandshakeInv'
  OBVIOUS
<1> USE OutMembers, StepMembers
    DEF connVars, inVars, loopVars, outVars, threadVars, appVars,
        HandshakeInv, DeadIsClosed, EstablishedIsComplete, RoutedIsNegotiated,
        MultipartIsLate, NegotiationIsEarly, NewIsUntouched, OneRequestInFlight,
        EchoesAreLate, RepliesInOrder, Negotiating, Complete, InFlight, TypeOK,
        Alive, DuringSetup
<1>SwitchSends. CASE \E k \in Kinds : SwitchSends(k)
  BY <1>SwitchSends DEF SwitchSends
<1>SendOut. CASE \E k \in OutKinds : SendOut(k)
  <2>. PICK k \in OutKinds : SendOut(k)
    BY <1>SendOut
  <2>1. InFlight' \in Nat /\ InFlight' <= InFlight /\ sentChecked' = sentChecked
    BY SendOutInFlight
  <2>2. OneRequestInFlight'
    <3>1. protoState' = protoState /\ (Complete => sentChecked' = 0)
      BY <2>1 DEF SendOut
    <3>. QED  BY <2>1, <3>1, FewerInFlight
  <2>3. EchoesAreLate'
    BY DEF SendOut
  <2>. QED  BY <2>2, <2>3 DEF SendOut
<1>StartRawIn. CASE Read
  <2>1. /\ pc = "idle" /\ pc' = "check"
        /\ UNCHANGED <<connVars, multipart, assembling, outVars, threadVars, appVars>>
    BY <1>StartRawIn DEF Read, StartRawIn
  <2>. QED  BY <2>1
<1>ProcessMultipart. CASE \E p \in assembling : ProcessMultipart(p)
  <2>. PICK p \in assembling : ProcessMultipart(p)
    BY <1>ProcessMultipart
  <2>1. MultipartIsLate'
    BY DEF ProcessMultipart
  <2>2. EchoesAreLate'
    BY DEF ProcessMultipart, Dispatch, NotDispatched
  <2>3. \A s \in ReplySteps \ {"queued"} : replies'[s] = replies[s]
    BY DEF ProcessMultipart, Dispatch, NotDispatched
  <2>. QED  BY <2>1, <2>2, <2>3 DEF ProcessMultipart
<1>ProcessRaises. CASE \E p \in assembling : ProcessRaises(p)
  BY <1>ProcessRaises DEF ProcessRaises, NotDispatched
<1>ReturnIfDead. CASE ReturnIfDead
  BY <1>ReturnIfDead DEF ReturnIfDead, Abandon
<1>LookAtPacket. CASE LookAtPacket
  BY <1>LookAtPacket DEF LookAtPacket
<1>RouteUndecodable. CASE RouteUndecodable
  BY <1>RouteUndecodable DEF RouteUndecodable, Abandon
<1>RouteDeferred. CASE RouteDeferred
  BY <1>RouteDeferred DEF RouteDeferred, NextPacket, NotDispatched, Deferred, WaitingFeaturesReply
<1>RouteMultipart. CASE RouteMultipart
  <2>. USE <1>RouteMultipart
  <2>1. ~DuringSetup
    BY DEF RouteMultipart, Deferred, WaitingFeaturesReply
  <2>2. MultipartIsLate'
    BY <2>1 DEF RouteMultipart, ConnStates
  <2>. QED  BY <2>2 DEF RouteMultipart, NextPacket, NotDispatched
<1>RouteMessage. CASE RouteMessage
  <2>. USE <1>RouteMessage
  <2>1. EchoesAreLate'
    <3>1. CASE Alive /\ Head(packets).kind = "echo_request"
      <4>1. connState = "ESTABLISHED"
        BY <3>1 DEF RouteMessage, Deferred, WaitingFeaturesReply, ConnStates
      <4>. QED  BY <4>1 DEF RouteMessage
    <3>2. CASE ~(Alive /\ Head(packets).kind = "echo_request")
      BY <3>2 DEF RouteMessage, NotDispatched, Dispatch
    <3>. QED  BY <3>1, <3>2
  <2>2. \A s \in ReplySteps \ {"queued"} : replies'[s] = replies[s]
    BY DEF RouteMessage, Dispatch, NotDispatched
  <2>. QED  BY <2>1, <2>2 DEF RouteMessage, NextPacket
<1>RouteRaises. CASE RouteRaises
  <2>. USE <1>RouteRaises
  <2>1. replies' = replies /\ echoes' = echoes
    BY DEF RouteRaises, Dispatch
  <2>. QED  BY <2>1 DEF RouteRaises, Abandon
<1>EndBatch. CASE EndBatch
  BY <1>EndBatch DEF EndBatch
<1>SayHello. CASE SayHello
  BY <1>SayHello DEF SayHello, Queue
<1>SendFeaturesRequest. CASE SendFeaturesRequest
  <2>. USE <1>SendFeaturesRequest
  <2>1. InFlight' \in Nat /\ InFlight' <= 1
    BY RequestInFlight DEF SendFeaturesRequest
  <2>2. OneRequestInFlight'
    BY <2>1 DEF SendFeaturesRequest
  <2>3. ~Complete /\ RepliesInOrder' /\ EchoesAreLate'
    BY DEF SendFeaturesRequest, Queue
  <2>. QED  BY <2>2, <2>3 DEF SendFeaturesRequest
<1>SetSetup. CASE SetSetup
  BY <1>SetSetup DEF SetSetup, NextPacket
<1>FailNegotiation. CASE FailNegotiation
  BY <1>FailNegotiation DEF FailNegotiation
<1>QueueError. CASE QueueError
  BY <1>QueueError DEF QueueError, Queue
<1>CloseFailed. CASE CloseFailed
  BY <1>CloseFailed DEF CloseFailed, Abandon
<1>ReadSentState. CASE ReadSentState
  <2>. USE <1>ReadSentState
  <2>1. InFlight' \in Nat /\ InFlight' <= InFlight
    BY ReadInFlight
  <2>2. OneRequestInFlight'
    <3>1. protoState' = protoState /\ (Complete => sentChecked' = 0)
      BY DEF ReadSentState
    <3>. QED  BY <2>1, <3>1, FewerInFlight
  <2>. QED  BY <2>2 DEF ReadSentState
<1>WriteSentState. CASE WriteSentState
  <2>. USE <1>WriteSentState
  <2>1. protoState = "sending_features"
    BY WriteInFlight
  <2>2. InFlight' = 0
    BY WriteInFlight
  <2>3. NegotiationIsEarly' /\ NewIsUntouched'
    BY <2>1 DEF WriteSentState
  <2>4. RepliesInOrder' /\ EchoesAreLate'
    BY <2>1 DEF WriteSentState
  <2>. QED  BY <2>1, <2>2, <2>3, <2>4 DEF WriteSentState
<1>ReplyDuplicated. CASE ReplyDuplicated
  BY <1>ReplyDuplicated DEF ReplyDuplicated, Leave
<1>ReplyBinds. CASE ReplyBinds
  BY <1>ReplyBinds DEF ReplyBinds, Queue, Move
<1>ReplyChecked. CASE ReplyChecked
  BY <1>ReplyChecked DEF ReplyChecked, Move, Leave
<1>ReplyConcludes. CASE ReplyConcludes
  <2>. USE <1>ReplyConcludes
  <2>1. connState # "NEW" /\ ~Negotiating
    BY AdmittedIsNegotiated DEF ReplyConcludes
  <2>2. sentChecked = 0
    BY AdmittedIsRecorded DEF ReplyConcludes
  <2>3. OneRequestInFlight' /\ Complete'
    BY <2>2 DEF ReplyConcludes
  <2>4. NegotiationIsEarly' /\ NewIsUntouched'
    BY <2>1 DEF ReplyConcludes
  <2>. QED  BY <2>3, <2>4 DEF ReplyConcludes
<1>ReplyEstablishes. CASE ReplyEstablishes
  BY <1>ReplyEstablishes DEF ReplyEstablishes, Move
<1>ReplyAnnounces. CASE ReplyAnnounces
  BY <1>ReplyAnnounces DEF ReplyAnnounces, Leave, Queue
<1>AnswerEcho. CASE AnswerEcho
  BY <1>AnswerEcho DEF AnswerEcho, Queue
<1>EchoReplySent. CASE EchoReplySent
  BY <1>EchoReplySent DEF EchoReplySent, Queue
<1>KeepAlive. CASE KeepAlive
  BY <1>KeepAlive DEF KeepAlive, Queue
<1>Close. CASE Close
  BY <1>Close DEF Close
<1>SwitchAnswersEcho. CASE SwitchAnswersEcho
  BY <1>SwitchAnswersEcho DEF SwitchAnswersEcho
<1>Stutter. CASE UNCHANGED vars
  BY <1>Stutter DEF vars
<1>. QED
  BY <1>SwitchSends, <1>SendOut, <1>StartRawIn, <1>ProcessMultipart,
     <1>ProcessRaises, <1>ReturnIfDead, <1>LookAtPacket, <1>RouteUndecodable,
     <1>RouteDeferred, <1>RouteMultipart, <1>RouteMessage, <1>RouteRaises,
     <1>EndBatch, <1>SayHello,
     <1>SendFeaturesRequest, <1>SetSetup, <1>FailNegotiation, <1>QueueError,
     <1>CloseFailed, <1>ReadSentState, <1>WriteSentState, <1>ReplyDuplicated,
     <1>ReplyBinds, <1>ReplyChecked, <1>ReplyConcludes, <1>ReplyEstablishes,
     <1>ReplyAnnounces, <1>AnswerEcho, <1>EchoReplySent, <1>KeepAlive,
     <1>Close, <1>SwitchAnswersEcho, <1>Stutter
  DEF Next, Switch, RawInLoop, Negotiation, RequestSent, FeaturesReply, HandleMultipart

-------------------------------------------------------------------------------
\* Nothing takes the protocol state out of 'handshake_complete'.
LEMMA CompleteStays ==
  ASSUME TypeOK, HandshakeInv, [Next]_vars, Complete
  PROVE  Complete'
<1>1. sentChecked = 0 /\ ~Negotiating
  BY DEF HandshakeInv, OneRequestInFlight, NegotiationIsEarly, Complete, Negotiating
<1>2. ~SendFeaturesRequest /\ ~FailNegotiation /\ ~CloseFailed /\ ~WriteSentState
  BY <1>1 DEF SendFeaturesRequest, FailNegotiation, CloseFailed, WriteSentState,
              Negotiating, TypeOK
<1>3. CASE ReplyConcludes
  BY <1>3 DEF ReplyConcludes, Complete
<1>4. CASE UNCHANGED vars
  BY <1>4 DEF vars, Complete
<1>5. CASE Next /\ ~ReplyConcludes
  <2>1. protoState' = protoState
    BY <1>2, <1>5
    DEF Next, Switch, RawInLoop, Negotiation, RequestSent, FeaturesReply, connVars, Read,
        SwitchSends, SwitchAnswersEcho, SendOut, Close, StartRawIn, ReturnIfDead,
        LookAtPacket, RouteUndecodable, RouteDeferred, RouteMultipart, RouteMessage,
        RouteRaises, EndBatch, HandleMultipart, ProcessMultipart, ProcessRaises, SayHello, SetSetup, QueueError, ReadSentState,
        ReplyDuplicated, ReplyBinds, ReplyChecked, ReplyEstablishes, ReplyAnnounces,
        AnswerEcho, EchoReplySent, KeepAlive
  <2>. QED  BY <2>1 DEF Complete
<1>. QED  BY <1>3, <1>4, <1>5

\* What the loop hands over while the connection lives is a features reply,
\* or the connection is established.
LEMMA RoutedIsDue ==
  ASSUME TypeOK, HandshakeInv, RouteMessage \/ RouteRaises, Alive
  PROVE  Head(packets).kind = "features_reply" \/ Complete
<1>1. CASE DuringSetup
  BY <1>1 DEF RouteMessage, RouteRaises, Deferred, WaitingFeaturesReply
<1>2. CASE ~DuringSetup
  <2>1. connState = "ESTABLISHED"
    BY <1>2 DEF RouteMessage, RouteRaises, Alive, DuringSetup, HandshakeInv, RoutedIsNegotiated,
                TypeOK, ConnStates
  <2>. QED  BY <2>1 DEF HandshakeInv, EstablishedIsComplete
<1>. QED  BY <1>1, <1>2

\* One more packet at the end of what was handed over keeps the property, if
\* it is a features reply or the handshake is complete.
LEMMA DispatchKeeps ==
  ASSUME TypeOK, NoDispatchBeforeHandshake, Complete => Complete',
         NEW p \in Packet, Dispatch(p), p.kind = "features_reply" \/ Complete
  PROVE  NoDispatchBeforeHandshake'
<1>1. SUFFICES ASSUME NEW i \in DOMAIN dispatched',
                      dispatched'[i].kind # "features_reply"
               PROVE  Complete'
  BY DEF NoDispatchBeforeHandshake, Complete
<1>2. dispatched \in Seq(Packet)
  BY DEF TypeOK
<1>3. CASE i \in DOMAIN dispatched /\ dispatched'[i] = dispatched[i]
  BY <1>1, <1>3 DEF NoDispatchBeforeHandshake, Complete
<1>4. CASE dispatched'[i] = p
  BY <1>1, <1>4
<1>. QED  BY <1>2, <1>3, <1>4 DEF Dispatch

LEMMA NextNoDispatch ==
  TypeOK /\ HandshakeInv /\ NoDispatchBeforeHandshake /\ [Next]_vars
    => NoDispatchBeforeHandshake'
<1> SUFFICES ASSUME TypeOK, HandshakeInv, NoDispatchBeforeHandshake, [Next]_vars
             PROVE  NoDispatchBeforeHandshake'
  OBVIOUS
<1>1. Complete => Complete'
  BY CompleteStays
<1>2. CASE dispatched' = dispatched
  BY <1>1, <1>2 DEF NoDispatchBeforeHandshake, Complete
<1>3. CASE RouteMessage
  <2>1. CASE Alive
    <3>1. Head(packets) \in Packet
      BY <1>3 DEF RouteMessage, TypeOK
    <3>2. Dispatch(Head(packets))
      BY <1>3, <2>1, Zenon DEF RouteMessage
    <3>. QED  BY <1>1, <1>3, <2>1, <3>1, <3>2, RoutedIsDue, DispatchKeeps
  <2>2. CASE ~Alive
    BY <1>2, <1>3, <2>2 DEF RouteMessage, NotDispatched
  <2>. QED  BY <2>1, <2>2
<1>4. ASSUME NEW p \in assembling, ProcessMultipart(p)
      PROVE  NoDispatchBeforeHandshake'
  <2>1. CASE Alive
    <3>1. Complete
      BY <2>1 DEF HandshakeInv, MultipartIsLate, Alive
    <3>2. p \in Packet /\ Dispatch(p)
      BY <1>4, <2>1 DEF ProcessMultipart, TypeOK
    <3>. QED  BY <1>1, <3>1, <3>2, DispatchKeeps
  <2>2. CASE ~Alive
    BY <1>2, <1>4, <2>2 DEF ProcessMultipart, NotDispatched
  <2>. QED  BY <2>1, <2>2
<1>5. CASE UNCHANGED vars
  BY <1>2, <1>5 DEF vars
<1>6. CASE RouteRaises
  <2>1. Head(packets) \in Packet /\ Dispatch(Head(packets)) /\ Alive
    BY <1>6 DEF RouteRaises, TypeOK
  <2>. QED  BY <1>1, <1>6, <2>1, RoutedIsDue, DispatchKeeps
<1>7. CASE /\ Next /\ ~RouteMessage /\ ~RouteRaises
           /\ ~\E p \in assembling : ProcessMultipart(p)
  <2>1. dispatched' = dispatched
    BY <1>7
    DEF Next, Switch, RawInLoop, Negotiation, RequestSent, FeaturesReply, Read,
        HandleMultipart, ProcessRaises, NotDispatched, SwitchSends, SwitchAnswersEcho, SendOut, Close, StartRawIn,
        ReturnIfDead, LookAtPacket, RouteUndecodable, RouteDeferred, RouteMultipart,
        EndBatch, SayHello, SendFeaturesRequest, SetSetup, FailNegotiation, QueueError,
        CloseFailed, ReadSentState, WriteSentState, ReplyDuplicated, ReplyBinds,
        ReplyChecked, ReplyConcludes, ReplyEstablishes, ReplyAnnounces, AnswerEcho,
        EchoReplySent, KeepAlive
  <2>. QED  BY <1>2, <2>1
<1>. QED  BY <1>3, <1>4, <1>5, <1>6, <1>7

-------------------------------------------------------------------------------
\* The strengthening is an invariant of the connection: no writer of the
\* protocol state is left once a reply is admitted.
THEOREM HandshakeInvariant == Spec => []HandshakeInv
<1>1. Init => TypeOK /\ HandshakeInv
  BY InitTypeOK, InitInv
<1>2. TypeOK /\ HandshakeInv /\ [Next]_vars => (TypeOK /\ HandshakeInv)'
  BY NextTypeOK, NextInv
<1>. QED  BY <1>1, <1>2, PTL DEF Spec

\* The other NApps see no message but features replies before the handshake of
\* the connection is complete (the deferral in on_raw_in), whatever the switch
\* sends and however the threads are scheduled.
THEOREM NothingEarly == Spec => []NoDispatchBeforeHandshake
<1>1. Init => NoDispatchBeforeHandshake
  BY DEF Init, NoDispatchBeforeHandshake
<1>. QED  BY <1>1, NextNoDispatch, TypeCorrect, HandshakeInvariant, PTL DEF Spec

-------------------------------------------------------------------------------
(* Part 2.  Every packet of a live connection is at exactly one place, and *)
(* packets are handed over in the order in which they came.                *)

\* Taking the first packet of a sequence, adding one at its end, joining two
\* sequences and cutting one: what is in them, and in which order.
LEMMA TailPackets ==
  ASSUME NEW s \in Seq(Packet), s # <<>>
  PROVE  /\ Tail(s) \in Seq(Packet) /\ Head(s) \in Packet
         /\ Range(s) = {Head(s)} \union Range(Tail(s))
         /\ Ordered(s) => /\ Ordered(Tail(s))
                          /\ \A q \in Range(Tail(s)) :
                                Head(s).id # 0 /\ q.id # 0 => Head(s).id < q.id
<1>1. /\ Tail(s) \in Seq(Packet) /\ Head(s) \in Packet /\ Head(s) = s[1]
      /\ Len(s) \in Nat /\ Len(s) >= 1 /\ DOMAIN s = 1 .. Len(s)
      /\ DOMAIN Tail(s) = 1 .. Len(s) - 1
      /\ \A i \in 1 .. Len(s) - 1 : Tail(s)[i] = s[i + 1]
  BY HeadTailProperties
<1>2. Range(s) = {Head(s)} \union Range(Tail(s))
  <2>1. ASSUME NEW i \in DOMAIN s PROVE s[i] \in {Head(s)} \union Range(Tail(s))
    <3>1. CASE i = 1
      BY <1>1, <3>1
    <3>2. CASE i # 1
      <4>1. i - 1 \in 1 .. Len(s) - 1 /\ Tail(s)[i - 1] = s[i]
        BY <1>1, <3>2
      <4>. QED  BY <4>1, <1>1 DEF Range
    <3>. QED  BY <3>1, <3>2
  <2>2. ASSUME NEW i \in DOMAIN Tail(s) PROVE Tail(s)[i] \in Range(s)
    BY <1>1 DEF Range
  <2>3. Head(s) \in Range(s)
    BY <1>1 DEF Range
  <2>. QED  BY <2>1, <2>2, <2>3 DEF Range
<1>3. ASSUME Ordered(s) PROVE Ordered(Tail(s))
  BY <1>1, <1>3 DEF Ordered
<1>4. ASSUME Ordered(s), NEW q \in Range(Tail(s)), Head(s).id # 0, q.id # 0
      PROVE  Head(s).id < q.id
  <2>1. PICK i \in 1 .. Len(s) - 1 : q = s[i + 1]
    BY <1>1 DEF Range
  <2>2. 1 \in DOMAIN s /\ i + 1 \in DOMAIN s /\ 1 < i + 1
    BY <1>1
  <2>. QED  BY <1>1, <1>4, <2>1, <2>2 DEF Ordered
<1>. QED  BY <1>1, <1>2, <1>3, <1>4

LEMMA JoinedPackets ==
  ASSUME NEW s \in Seq(Packet), NEW t \in Seq(Packet)
  PROVE  /\ s \o t \in Seq(Packet)
         /\ Range(s \o t) = Range(s) \union Range(t)
         /\ Ordered(s) /\ Ordered(t) /\ Before(s, t) => Ordered(s \o t)
<1>1. /\ s \o t \in Seq(Packet) /\ DOMAIN s = 1 .. Len(s) /\ DOMAIN t = 1 .. Len(t)
      /\ Len(s) \in Nat /\ Len(t) \in Nat
      /\ DOMAIN (s \o t) = 1 .. Len(s) + Len(t)
      /\ \A i \in 1 .. Len(s) + Len(t) :
            (s \o t)[i] = IF i <= Len(s) THEN s[i] ELSE t[i - Len(s)]
  BY ConcatProperties
<1>2. Range(s \o t) = Range(s) \union Range(t)
  BY RangeConcatenation
<1>3. ASSUME Ordered(s), Ordered(t), Before(s, t) PROVE Ordered(s \o t)
  <2>1. SUFFICES ASSUME NEW i \in DOMAIN (s \o t), NEW j \in DOMAIN (s \o t), i < j,
                        (s \o t)[i].id # 0, (s \o t)[j].id # 0
                 PROVE  (s \o t)[i].id < (s \o t)[j].id
    BY DEF Ordered
  <2>2. CASE j <= Len(s)
    <3>1. /\ i \in DOMAIN s /\ j \in DOMAIN s
          /\ (s \o t)[i] = s[i] /\ (s \o t)[j] = s[j]
      BY <1>1, <2>1, <2>2
    <3>. QED  BY <1>3, <2>1, <3>1 DEF Ordered
  <2>3. CASE i > Len(s)
    <3>1. /\ i - Len(s) \in DOMAIN t /\ j - Len(s) \in DOMAIN t /\ i - Len(s) < j - Len(s)
          /\ (s \o t)[i] = t[i - Len(s)] /\ (s \o t)[j] = t[j - Len(s)]
      BY <1>1, <2>1, <2>3
    <3>. QED  BY <1>3, <2>1, <3>1 DEF Ordered
  <2>4. CASE i <= Len(s) /\ j > Len(s)
    <3>1. /\ i \in DOMAIN s /\ j - Len(s) \in DOMAIN t
          /\ (s \o t)[i] = s[i] /\ (s \o t)[j] = t[j - Len(s)]
      BY <1>1, <2>4
    <3>2. s[i] \in Range(s) /\ t[j - Len(s)] \in Range(t)
      BY <3>1 DEF Range
    <3>. QED  BY <1>3, <2>1, <3>1, <3>2 DEF Before
  <2>. QED  BY <1>1, <2>2, <2>3, <2>4
<1>. QED  BY <1>1, <1>2, <1>3

LEMMA AddedPacket ==
  ASSUME NEW s \in Seq(Packet), NEW p \in Packet
  PROVE  /\ Append(s, p) \in Seq(Packet)
         /\ Range(Append(s, p)) = Range(s) \union {p}
         /\ Ordered(s) /\ (\A q \in Range(s) : q.id # 0 /\ p.id # 0 => q.id < p.id)
              => Ordered(Append(s, p))
<1>1. /\ <<p>> \in Seq(Packet) /\ Range(<<p>>) = {p} /\ Ordered(<<p>>)
      /\ Append(s, p) = s \o <<p>>
  BY AppendIsConcat DEF Range, Ordered
<1>. QED  BY <1>1, JoinedPackets DEF Before

LEMMA CutPackets ==
  ASSUME NEW s \in Seq(Packet), NEW n \in 0 .. Len(s)
  PROVE  LET first == SubSeq(s, 1, n)
             rest  == SubSeq(s, n + 1, Len(s))
         IN  /\ first \in Seq(Packet) /\ rest \in Seq(Packet)
             /\ Range(s) = Range(first) \union Range(rest)
             /\ Ordered(s) => Ordered(first) /\ Ordered(rest) /\ Before(first, rest)
<1> DEFINE first == SubSeq(s, 1, n)
           rest  == SubSeq(s, n + 1, Len(s))
<1>1. /\ first \in Seq(Packet) /\ rest \in Seq(Packet)
      /\ Len(s) \in Nat /\ DOMAIN s = 1 .. Len(s)
      /\ DOMAIN first = 1 .. n /\ DOMAIN rest = 1 .. Len(s) - n
      /\ \A i \in 1 .. n : first[i] = s[i]
      /\ \A i \in 1 .. Len(s) - n : rest[i] = s[n + i]
  BY SubSeqProperties
<1>2. Range(s) = Range(first) \union Range(rest)
  <2>1. ASSUME NEW i \in DOMAIN s PROVE s[i] \in Range(first) \union Range(rest)
    <3>1. CASE i <= n
      <4>1. i \in DOMAIN first /\ first[i] = s[i]
        BY <1>1, <3>1
      <4>. QED  BY <4>1 DEF Range
    <3>2. CASE i > n
      <4>1. i - n \in DOMAIN rest /\ rest[i - n] = s[i]
        BY <1>1, <3>2
      <4>. QED  BY <4>1 DEF Range
    <3>. QED  BY <1>1, <3>1, <3>2
  <2>2. ASSUME NEW i \in DOMAIN first PROVE first[i] \in Range(s)
    <3>1. i \in DOMAIN s /\ first[i] = s[i]
      BY <1>1
    <3>. QED  BY <3>1 DEF Range
  <2>3. ASSUME NEW i \in DOMAIN rest PROVE rest[i] \in Range(s)
    <3>1. n + i \in DOMAIN s /\ rest[i] = s[n + i]
      BY <1>1
    <3>. QED  BY <3>1 DEF Range
  <2>. QED  BY <2>1, <2>2, <2>3 DEF Range
<1>3. ASSUME Ordered(s) PROVE Ordered(first) /\ Ordered(rest) /\ Before(first, rest)
  <2>1. Ordered(first)
    BY <1>1, <1>3 DEF Ordered
  <2>2. Ordered(rest)
    <3>1. SUFFICES ASSUME NEW i \in DOMAIN rest, NEW j \in DOMAIN rest, i < j,
                          rest[i].id # 0, rest[j].id # 0
                   PROVE  rest[i].id < rest[j].id
      BY DEF Ordered
    <3>2. n + i \in DOMAIN s /\ n + j \in DOMAIN s /\ n + i < n + j
          /\ rest[i] = s[n + i] /\ rest[j] = s[n + j]
      BY <1>1, <3>1, SMTT(40)
    <3>. QED  BY <1>3, <3>1, <3>2 DEF Ordered
  <2>3. Before(first, rest)
    <3>1. SUFFICES ASSUME NEW i \in DOMAIN first, NEW j \in DOMAIN rest,
                          first[i].id # 0, rest[j].id # 0
                   PROVE  first[i].id < rest[j].id
      BY DEF Before, Range
    <3>2. i \in DOMAIN s /\ n + j \in DOMAIN s /\ i < n + j
          /\ first[i] = s[i] /\ rest[j] = s[n + j]
      BY <1>1, <3>1
    <3>. QED  BY <1>3, <3>1, <3>2 DEF Ordered
  <2>. QED  BY <2>1, <2>2, <2>3
<1>. QED  BY <1>1, <1>2, <1>3

\* In a sequence in order a number is given once.
LEMMA OrderedIsOnce ==
  ASSUME NEW s \in Seq(Packet), Ordered(s), NEW id \in Nat \ {0}
  PROVE  \A i, j \in DOMAIN s : s[i].id = id /\ s[j].id = id => i = j
<1>1. SUFFICES ASSUME NEW i \in DOMAIN s, NEW j \in DOMAIN s, s[i].id = id, s[j].id = id,
                      i # j
               PROVE  FALSE
  OBVIOUS
<1>2. DOMAIN s = 1 .. Len(s) /\ Len(s) \in Nat
  BY LenProperties
<1>3. i < j \/ j < i
  BY <1>1, <1>2
<1>4. id < id
  BY <1>1, <1>3 DEF Ordered
<1>. QED  BY <1>4

-------------------------------------------------------------------------------
(* What a step does with the packets of the connection.                    *)

Kept == UNCHANGED <<sent, wire, remaining, packets, unprocessed, multipart, assembling,
                    tasks, lost, dispatched, deferredOnce>>

\* A packet leaves the batch.
Leaves == packets # <<>> /\ packets' = Tail(packets)
          /\ UNCHANGED <<sent, wire, remaining, unprocessed>>

\* All other steps leave every packet where it is.
LEMMA StepsOfPackets ==
  ASSUME [Next]_vars
  PROVE  \/ Kept /\ (pc' = pc \/ (pc # "idle" /\ pc' # "idle"))
         \/ \E k \in Kinds : SwitchSends(k)
         \/ SwitchAnswersEcho
         \/ Read
         \/ Abandon /\ pc # "idle" /\ ~Alive'
            /\ UNCHANGED <<sent, wire, remaining, assembling, tasks, lost, dispatched,
                           deferredOnce>>
         \/ RouteDeferred \/ RouteMultipart \/ RouteMessage \/ SetSetup
         \/ EndBatch
         \/ \E p \in assembling : ProcessMultipart(p)
         \/ RouteRaises \/ \E p \in assembling : ProcessRaises(p)
<1> USE DEF connVars, inVars, loopVars, outVars, threadVars, appVars
<1>1. CASE UNCHANGED vars
  BY <1>1 DEF vars, Kept
<1>2. CASE Switch \/ Read \/ HandleMultipart
  BY <1>2 DEF Switch, HandleMultipart
<1>3. CASE Close \/ (\E k \in OutKinds : SendOut(k)) \/ AnswerEcho \/ EchoReplySent
           \/ KeepAlive
  BY <1>3 DEF Kept, Close, SendOut, AnswerEcho, EchoReplySent, KeepAlive
<1>4. CASE RequestSent
  BY <1>4 DEF Kept, RequestSent, ReadSentState, WriteSentState
<1>5. CASE FeaturesReply
  BY <1>5 DEF Kept, FeaturesReply, ReplyDuplicated, ReplyBinds, ReplyChecked,
              ReplyConcludes, ReplyEstablishes, ReplyAnnounces
<1>6. CASE Negotiation
  BY <1>6 DEF Kept, Negotiation, SayHello, SendFeaturesRequest, FailNegotiation,
              QueueError, CloseFailed, Alive
<1>7. CASE RawInLoop /\ ~Negotiation
  BY <1>7 DEF Kept, RawInLoop, ReturnIfDead, LookAtPacket, RouteUndecodable, Alive
<1>. QED  BY <1>1, <1>2, <1>3, <1>4, <1>5, <1>6, <1>7 DEF Next

\* Packets are lost with a task that raises, and in no other way.
LEMMA LostAfter ==
  ASSUME [Next]_vars, ~RouteRaises, ~ \E p \in assembling : ProcessRaises(p)
  PROVE  lost' = lost /\ Lost' = Lost
<1> USE DEF connVars, inVars, loopVars, outVars, threadVars, appVars
<1>1. CASE Kept
  BY <1>1 DEF Kept, Lost
<1>2. CASE (\E k \in Kinds : SwitchSends(k)) \/ SwitchAnswersEcho \/ Read
  BY <1>2 DEF SwitchSends, SwitchAnswersEcho, Read, StartRawIn, Lost
<1>3. CASE RouteDeferred \/ RouteMultipart \/ RouteMessage \/ SetSetup \/ EndBatch
  BY <1>3 DEF RouteDeferred, RouteMultipart, RouteMessage, SetSetup, EndBatch, Lost
<1>4. CASE UNCHANGED lost
  BY <1>4 DEF Lost
<1>5. CASE \E p \in assembling : ProcessMultipart(p)
  BY <1>5 DEF ProcessMultipart, Lost
<1>. QED  BY <1>1, <1>2, <1>3, <1>4, <1>5, StepsOfPackets

\* All that is lost with a packet p, and has a number, is among what was lost.
LEMMA LoseAll ==
  ASSUME NEW S, NEW p, lost' = Lose(S, p)
  PROVE  /\ Lost' = Lost \union {q \in S : q.id # 0}
         /\ \A l \in lost' : \/ l \in lost
                             \/ l.by = p /\ l.packet \in S /\ l.packet.id # 0
         /\ lost \subseteq lost'
         /\ \A l, k \in lost' : \/ l \in lost \/ k \in lost
                                \/ l.packet = k.packet => l = k
<1>1. lost' = lost \union {[packet |-> q, by |-> p] : q \in {r \in S : r.id # 0}}
  BY DEF Lose
<1>2. Lost' = Lost \union {q \in S : q.id # 0}
  <2>1. ASSUME NEW q \in Lost' PROVE q \in Lost \union {r \in S : r.id # 0}
    BY <1>1, <2>1 DEF Lost
  <2>2. ASSUME NEW q \in Lost PROVE q \in Lost'
    BY <1>1, <2>2 DEF Lost
  <2>3. ASSUME NEW q \in S, q.id # 0 PROVE q \in Lost'
    <3>1. [packet |-> q, by |-> p] \in lost'
      BY <1>1, <2>3
    <3>2. [packet |-> q, by |-> p].packet = q
      OBVIOUS
    <3>. QED  BY <3>1, <3>2, Zenon DEF Lost
  <2>. QED  BY <2>1, <2>2, <2>3
<1>. QED  BY <1>1, <1>2

LEMMA WaitingPackets ==
  ASSUME TypeOK
  PROVE  Waiting \subseteq Packet /\ \A p \in Waiting : p.id \in Nat /\ p.kind \in Kinds
<1>1. Waiting \subseteq Packet
  BY RangeOfSeq DEF Waiting, TypeOK
<1>. QED  BY <1>1 DEF Packet

\* The packet at the head of the batch is looked at once.
LEMMA HeadLeaves ==
  ASSUME TypeOK, InOneLine, BatchIsAlone, Leaves, pc # "idle"
  PROVE  /\ Head(packets) \in Packet
         /\ Waiting = Waiting' \union {Head(packets)}
         /\ Head(packets).id # 0 => \A q \in Waiting' : q.id # Head(packets).id
<1>1. packets \in Seq(Packet) /\ remaining = <<>> /\ Range(remaining) = {}
      /\ remaining' = <<>> /\ Range(remaining') = {}
  BY DEF TypeOK, BatchIsAlone, Leaves, Range
<1>2. /\ Head(packets) \in Packet
      /\ Range(packets) = {Head(packets)} \union Range(packets')
      /\ \A q \in Range(packets') :
            Head(packets).id # 0 /\ q.id # 0 => Head(packets).id < q.id
  BY <1>1, TailPackets DEF Leaves, InOneLine
<1>3. Range(unprocessed') = Range(unprocessed) /\ Range(wire') = Range(wire)
  BY DEF Leaves
<1>4. Waiting = Waiting' \union {Head(packets)}
  BY <1>1, <1>2, <1>3 DEF Waiting
<1>5. ASSUME Head(packets).id # 0, NEW q \in Waiting' PROVE q.id # Head(packets).id
  <2>1. \A p \in Waiting : p.id \in Nat
    BY WaitingPackets
  <2>2. q.id \in Nat /\ Head(packets).id \in Nat
    BY <1>4, <2>1
  <2>3. CASE q \in Range(unprocessed)
    BY <1>2, <1>5, <2>2, <2>3 DEF InOneLine, Before
  <2>4. CASE q \in Range(packets')
    BY <1>2, <1>5, <2>2, <2>4
  <2>5. CASE q \in Range(wire)
    BY <1>2, <1>5, <2>2, <2>5 DEF InOneLine, Before
  <2>. QED  BY <1>1, <1>3, <2>3, <2>4, <2>5 DEF Waiting
<1>. QED  BY <1>2, <1>4, <1>5

\* What is waiting before and after each step.
LEMMA WaitingAfter ==
  ASSUME TypeOK, InOneLine, BatchIsAlone
  PROVE  /\ Kept => Waiting' = Waiting
         /\ \A k \in Kinds : SwitchSends(k) =>
                Waiting' = Waiting \union {[id |-> sent + 1, kind |-> k]}
         /\ SwitchAnswersEcho =>
                Waiting' = Waiting \union {[id |-> 0, kind |-> "echo_reply"]}
         /\ Read => Waiting' = Waiting
         /\ Abandon /\ UNCHANGED <<wire, remaining>> => Waiting' \subseteq Waiting
         /\ RouteDeferred => Waiting' = Waiting
         /\ EndBatch => Waiting' = Waiting
         /\ \A p \in assembling :
                ProcessMultipart(p) \/ ProcessRaises(p) => Waiting' = Waiting
<1> USE DEF connVars, inVars, loopVars, outVars, threadVars, appVars
<1>1. /\ wire \in Seq(Packet) /\ remaining \in Seq(Packet)
      /\ packets \in Seq(Packet) /\ unprocessed \in Seq(Packet)
  BY DEF TypeOK
<1>2. ASSUME Kept PROVE Waiting' = Waiting
  BY <1>2 DEF Kept, Waiting
<1>3. ASSUME NEW k \in Kinds, SwitchSends(k)
      PROVE  Waiting' = Waiting \union {[id |-> sent + 1, kind |-> k]}
  <2>1. [id |-> sent + 1, kind |-> k] \in Packet
    BY DEF TypeOK, Packet
  <2>2. Range(wire') = Range(wire) \union {[id |-> sent + 1, kind |-> k]}
    BY <1>1, <1>3, <2>1, AddedPacket DEF SwitchSends
  <2>. QED  BY <1>3, <2>2 DEF SwitchSends, Waiting
<1>4. ASSUME SwitchAnswersEcho
      PROVE  Waiting' = Waiting \union {[id |-> 0, kind |-> "echo_reply"]}
  <2>1. [id |-> 0, kind |-> "echo_reply"] \in Packet
    BY DEF Packet, Kinds
  <2>2. Range(wire') = Range(wire) \union {[id |-> 0, kind |-> "echo_reply"]}
    BY <1>1, <1>4, <2>1, AddedPacket DEF SwitchAnswersEcho
  <2>. QED  BY <1>4, <2>2 DEF SwitchAnswersEcho, Waiting
<1>5. ASSUME Read PROVE Waiting' = Waiting
  <2>1. PICK n \in 0 .. Len(wire) : StartRawIn(n)
    BY <1>5 DEF Read
  <2> DEFINE first == SubSeq(wire, 1, n)
             rest  == SubSeq(wire, n + 1, Len(wire))
  <2>2. /\ pc = "idle" /\ packets' = remaining \o first /\ wire' = rest
        /\ remaining' = <<>> /\ unprocessed' = unprocessed
    BY <2>1 DEF StartRawIn
  <2>3. /\ first \in Seq(Packet) /\ rest \in Seq(Packet)
        /\ Range(wire) = Range(first) \union Range(rest)
    BY <1>1, CutPackets
  <2>4. Range(packets') = Range(remaining) \union Range(first)
    BY <1>1, <2>2, <2>3, JoinedPackets
  <2>5. Range(packets) = {} /\ Range(remaining') = {}
    BY <2>2 DEF BatchIsAlone, Range
  <2>. QED  BY <2>2, <2>3, <2>4, <2>5 DEF Waiting
<1>6. ASSUME Abandon, UNCHANGED <<wire, remaining>> PROVE Waiting' \subseteq Waiting
  <2>1. Range(packets') = {} /\ Range(unprocessed') = {}
    BY <1>6 DEF Abandon, Range
  <2>. QED  BY <1>6, <2>1 DEF Waiting
<1>7. ASSUME RouteDeferred PROVE Waiting' = Waiting
  <2>1. packets # <<>> /\ packets' = Tail(packets)
    BY <1>7 DEF RouteDeferred, NextPacket, TypeOK
  <2>2. /\ Range(packets) = {Head(packets)} \union Range(packets')
        /\ Head(packets) \in Packet
    BY <1>1, <2>1, TailPackets
  <2>3. Range(unprocessed') = Range(unprocessed) \union {Head(packets)}
    BY <1>1, <1>7, <2>2, AddedPacket DEF RouteDeferred
  <2>. QED  BY <1>7, <2>2, <2>3 DEF RouteDeferred, Waiting
<1>8. ASSUME EndBatch PROVE Waiting' = Waiting
  <2>1. Range(remaining') = Range(unprocessed) \union Range(remaining)
    BY <1>1, <1>8, JoinedPackets DEF EndBatch
  <2>2. Range(unprocessed') = {}
    BY <1>8 DEF EndBatch, Range
  <2>. QED  BY <1>8, <2>1, <2>2 DEF EndBatch, Waiting
<1>9. ASSUME NEW p \in assembling, ProcessMultipart(p) \/ ProcessRaises(p)
      PROVE  Waiting' = Waiting
  BY <1>9 DEF ProcessMultipart, ProcessRaises, Waiting
<1>. QED  BY <1>2, <1>3, <1>4, <1>5, <1>6, <1>7, <1>8, <1>9

-------------------------------------------------------------------------------
(* Every step keeps PlacesInv, conjunct by conjunct.                       *)

LineInv == InOneLine /\ BatchIsAlone /\ NumbersGiven

LEMMA NextBatchIsAlone ==
  ASSUME TypeOK, BatchIsAlone, [Next]_vars
  PROVE  BatchIsAlone'
<1> USE DEF BatchIsAlone, connVars, inVars, loopVars, outVars, threadVars, appVars
<1>1. CASE Kept /\ (pc' = pc \/ (pc # "idle" /\ pc' # "idle"))
  BY <1>1 DEF Kept
<1>2. CASE (\E k \in Kinds : SwitchSends(k)) \/ SwitchAnswersEcho
  BY <1>2 DEF SwitchSends, SwitchAnswersEcho
<1>3. CASE Read \/ EndBatch
  BY <1>3 DEF Read, StartRawIn, EndBatch
<1>4. CASE Abandon
  BY <1>4 DEF Abandon
<1>5. CASE RouteDeferred \/ RouteMultipart \/ RouteMessage \/ SetSetup
  BY <1>5 DEF RouteDeferred, RouteMultipart, RouteMessage, SetSetup, NextPacket
<1>6. CASE \E p \in assembling : ProcessMultipart(p) \/ ProcessRaises(p)
  BY <1>6 DEF ProcessMultipart, ProcessRaises
<1>7. CASE RouteRaises
  BY <1>7 DEF RouteRaises, Abandon
<1>. QED  BY <1>1, <1>2, <1>3, <1>4, <1>5, <1>6, <1>7, StepsOfPackets

\* A new packet has the highest number, or none.
LEMMA NextNumbersGiven ==
  ASSUME TypeOK, LineInv, [Next]_vars
  PROVE  NumbersGiven' /\ sent' \in Nat /\ sent' >= sent
<1> USE DEF connVars, inVars, loopVars, outVars, threadVars, appVars, LineInv
<1>1. sent \in Nat /\ \A p \in Waiting : p.id \in Nat
  BY WaitingPackets DEF TypeOK
<1>2. ASSUME NEW k \in Kinds, SwitchSends(k)
      PROVE  NumbersGiven' /\ sent' \in Nat /\ sent' >= sent
  <2>1. Waiting' = Waiting \union {[id |-> sent + 1, kind |-> k]}
    BY <1>2, WaitingAfter
  <2>2. sent' = sent + 1 /\ k # "echo_reply"
    BY <1>2 DEF SwitchSends
  <2>. QED  BY <1>1, <2>1, <2>2 DEF NumbersGiven
<1>3. CASE SwitchAnswersEcho
  <2>1. Waiting' = Waiting \union {[id |-> 0, kind |-> "echo_reply"]} /\ sent' = sent
    BY <1>3, WaitingAfter DEF SwitchAnswersEcho
  <2>. QED  BY <1>1, <2>1 DEF NumbersGiven
<1>4. CASE Waiting' \subseteq Waiting /\ sent' = sent
  BY <1>1, <1>4 DEF NumbersGiven
<1>5. CASE RouteMultipart \/ RouteMessage \/ SetSetup
  <2>1. Leaves /\ pc # "idle"
    BY <1>5 DEF RouteMultipart, RouteMessage, SetSetup, NextPacket, Leaves, TypeOK
  <2>2. Waiting' \subseteq Waiting /\ sent' = sent
    BY <2>1, HeadLeaves DEF Leaves
  <2>. QED  BY <1>4, <2>2
<1>6. CASE \/ Kept \/ Read \/ RouteDeferred \/ EndBatch
           \/ \E p \in assembling : ProcessMultipart(p) \/ ProcessRaises(p)
  <2>1. Waiting' = Waiting /\ sent' = sent
    BY <1>6, WaitingAfter
    DEF Kept, Read, StartRawIn, RouteDeferred, EndBatch, ProcessMultipart, ProcessRaises
  <2>. QED  BY <1>4, <2>1
<1>7. CASE Abandon /\ UNCHANGED <<sent, wire, remaining>>
  BY <1>4, <1>7, WaitingAfter
<1>8. CASE RouteRaises
  BY <1>7, <1>8 DEF RouteRaises
<1>. QED  BY <1>2, <1>3, <1>5, <1>6, <1>7, <1>8, StepsOfPackets

LEMMA NextInOneLine ==
  ASSUME TypeOK, LineInv, [Next]_vars
  PROVE  InOneLine'
<1> USE DEF connVars, inVars, loopVars, outVars, threadVars, appVars, LineInv
<1>1. /\ wire \in Seq(Packet) /\ remaining \in Seq(Packet)
      /\ packets \in Seq(Packet) /\ unprocessed \in Seq(Packet)
  BY DEF TypeOK
<1>2. sent \in Nat /\ \A p \in Waiting : p.id \in Nat /\ p.id <= sent
  BY WaitingPackets DEF TypeOK, NumbersGiven
<1>3. ASSUME NEW p \in Packet, wire' = Append(wire, p), p.id \in {0, sent + 1},
             UNCHANGED <<unprocessed, packets, remaining>>
      PROVE  InOneLine'
  <2>1. \A q \in Waiting : q.id # 0 /\ p.id # 0 => q.id < p.id
    BY <1>2, <1>3
  <2>2. Range(wire') = Range(wire) \union {p} /\ Ordered(wire')
    BY <1>1, <1>3, <2>1, AddedPacket DEF InOneLine, Waiting
  <2>. QED  BY <1>3, <2>1, <2>2 DEF InOneLine, Before, Waiting
<1>4. CASE (\E k \in Kinds : SwitchSends(k)) \/ SwitchAnswersEcho
  <2>1. \A k \in Kinds : [id |-> sent + 1, kind |-> k] \in Packet
    BY <1>2 DEF Packet
  <2>2. [id |-> 0, kind |-> "echo_reply"] \in Packet
    BY DEF Packet, Kinds
  <2>3. PICK p \in Packet : wire' = Append(wire, p) /\ p.id \in {0, sent + 1}
    BY <1>4, <2>1, <2>2 DEF SwitchSends, SwitchAnswersEcho
  <2>. QED  BY <1>3, <1>4, <2>3 DEF SwitchSends, SwitchAnswersEcho
<1>5. CASE Read
  <2>1. PICK n \in 0 .. Len(wire) : StartRawIn(n)
    BY <1>5 DEF Read
  <2> DEFINE first == SubSeq(wire, 1, n)
             rest  == SubSeq(wire, n + 1, Len(wire))
  <2>2. /\ packets' = remaining \o first /\ wire' = rest
        /\ Range(remaining') = {} /\ Ordered(remaining')
    BY <2>1 DEF StartRawIn, Range, Ordered
  <2>3. Range(unprocessed') = {} /\ Ordered(unprocessed')
    BY <2>1 DEF StartRawIn, BatchIsAlone, Range, Ordered
  <2>4. /\ first \in Seq(Packet) /\ rest \in Seq(Packet)
        /\ Range(wire) = Range(first) \union Range(rest)
        /\ Ordered(first) /\ Ordered(rest) /\ Before(first, rest)
    BY <1>1, CutPackets DEF InOneLine
  <2>5. Before(remaining, first) /\ Before(remaining, rest)
    BY <2>4 DEF InOneLine, Before
  <2>6. Range(packets') = Range(remaining) \union Range(first) /\ Ordered(packets')
    BY <1>1, <2>2, <2>4, <2>5, JoinedPackets DEF InOneLine
  <2>. QED  BY <2>2, <2>3, <2>4, <2>5, <2>6 DEF InOneLine, Before
<1>6. CASE Abandon /\ UNCHANGED <<wire, remaining>>
  <2>1. /\ Range(packets') = {} /\ Range(unprocessed') = {}
        /\ Ordered(packets') /\ Ordered(unprocessed')
    BY <1>6 DEF Abandon, Range, Ordered
  <2>. QED  BY <1>6, <2>1 DEF InOneLine, Before
<1>7. CASE Leaves
  <2>1. /\ Range(packets') \subseteq Range(packets) /\ Ordered(packets')
    BY <1>1, <1>7, TailPackets DEF Leaves, InOneLine
  <2>. QED  BY <1>7, <2>1 DEF Leaves, InOneLine, Before
<1>8. CASE RouteMultipart \/ RouteMessage \/ SetSetup
  BY <1>7, <1>8 DEF RouteMultipart, RouteMessage, SetSetup, NextPacket, Leaves, TypeOK
<1>9. CASE RouteDeferred
  <2>1. /\ packets # <<>> /\ packets' = Tail(packets)
        /\ unprocessed' = Append(unprocessed, Head(packets))
        /\ wire' = wire /\ remaining' = remaining
    BY <1>9 DEF RouteDeferred, NextPacket, TypeOK
  <2>2. /\ Head(packets) \in Packet
        /\ Range(packets) = {Head(packets)} \union Range(packets')
        /\ Ordered(packets')
        /\ \A q \in Range(packets') :
              Head(packets).id # 0 /\ q.id # 0 => Head(packets).id < q.id
    BY <1>1, <2>1, TailPackets DEF InOneLine
  <2>3. \A q \in Range(unprocessed) :
           q.id # 0 /\ Head(packets).id # 0 => q.id < Head(packets).id
    BY <2>2 DEF InOneLine, Before
  <2>4. /\ Range(unprocessed') = Range(unprocessed) \union {Head(packets)}
        /\ Ordered(unprocessed')
    BY <1>1, <2>1, <2>2, <2>3, AddedPacket DEF InOneLine
  <2>. QED  BY <2>1, <2>2, <2>4 DEF InOneLine, Before
<1>10. CASE EndBatch
  <2>1. /\ remaining' = unprocessed \o remaining /\ packets' = packets /\ wire' = wire
        /\ Range(unprocessed') = {} /\ Ordered(unprocessed')
    BY <1>10 DEF EndBatch, Range, Ordered
  <2>2. Before(unprocessed, remaining)
    BY <1>10 DEF EndBatch, BatchIsAlone, Before, Range
  <2>3. /\ Range(remaining') = Range(unprocessed) \union Range(remaining)
        /\ Ordered(remaining')
    BY <1>1, <2>1, <2>2, JoinedPackets DEF InOneLine
  <2>. QED  BY <2>1, <2>3 DEF InOneLine, Before
<1>11. CASE Kept \/ \E p \in assembling : ProcessMultipart(p) \/ ProcessRaises(p)
  BY <1>11 DEF Kept, ProcessMultipart, ProcessRaises, InOneLine
<1>12. CASE RouteRaises
  BY <1>6, <1>12 DEF RouteRaises
<1>. QED
  BY <1>4, <1>5, <1>6, <1>8, <1>9, <1>10, <1>11, <1>12, StepsOfPackets

\* What is gathered, and handed over, after each step.
LEMMA GatheredAfter ==
  /\ Kept => Gathered' = Gathered /\ dispatched' = dispatched
  /\ (\E k \in Kinds : SwitchSends(k)) \/ SwitchAnswersEcho \/ Read \/ RouteDeferred
       \/ SetSetup \/ EndBatch
         => Gathered' = Gathered /\ dispatched' = dispatched
  /\ RouteMessage => Gathered' = Gathered
  /\ Abandon /\ UNCHANGED <<assembling, dispatched>>
         => Gathered' \subseteq Gathered /\ dispatched' = dispatched
  /\ RouteMultipart => Gathered' = Gathered \union {Head(packets)} /\ dispatched' = dispatched
<1> USE DEF Gathered, connVars, inVars, loopVars, outVars, threadVars, appVars
<1>1. Kept => Gathered' = Gathered /\ dispatched' = dispatched
  BY DEF Kept
<1>2. (\E k \in Kinds : SwitchSends(k)) \/ SwitchAnswersEcho \/ Read
         => Gathered' = Gathered /\ dispatched' = dispatched
  BY DEF SwitchSends, SwitchAnswersEcho, Read, StartRawIn
<1>3. RouteDeferred \/ SetSetup \/ EndBatch
         => Gathered' = Gathered /\ dispatched' = dispatched
  BY DEF RouteDeferred, NotDispatched, SetSetup, EndBatch
<1>4. RouteMessage => Gathered' = Gathered
  BY DEF RouteMessage
<1>5. Abandon /\ UNCHANGED <<assembling, dispatched>>
         => Gathered' \subseteq Gathered /\ dispatched' = dispatched
  BY DEF Abandon
<1>6. RouteMultipart => Gathered' = Gathered \union {Head(packets)} /\ dispatched' = dispatched
  BY DEF RouteMultipart, NotDispatched
<1>. QED  BY <1>1, <1>2, <1>3, <1>4, <1>5, <1>6

\* A message that is routed, or a multipart reply that is processed, is handed
\* over at most: as the last one, and under a number of its own.
LEMMA DispatchedAfter ==
  ASSUME TypeOK, NEW p \in Packet, Dispatch(p) \/ NotDispatched
  PROVE  \/ dispatched' = dispatched
         \/ /\ p.id # 0 /\ dispatched' = Append(dispatched, p)
            /\ DOMAIN dispatched' = DOMAIN dispatched \union {Len(dispatched) + 1}
            /\ DOMAIN dispatched = 1 .. Len(dispatched) /\ Len(dispatched) \in Nat
            /\ \A i \in DOMAIN dispatched : dispatched'[i] = dispatched[i]
            /\ dispatched'[Len(dispatched) + 1] = p
<1>1. dispatched \in Seq(Packet)
  BY DEF TypeOK
<1>2. dispatched' = dispatched \/ (p.id # 0 /\ dispatched' = Append(dispatched, p))
  BY DEF Dispatch, NotDispatched
<1>3. /\ Len(dispatched) \in Nat /\ DOMAIN dispatched = 1 .. Len(dispatched)
      /\ Append(dispatched, p) \in Seq(Packet)
      /\ Len(Append(dispatched, p)) = Len(dispatched) + 1
      /\ \A i \in 1 .. Len(dispatched) : Append(dispatched, p)[i] = dispatched[i]
      /\ Append(dispatched, p)[Len(dispatched) + 1] = p
  BY <1>1, AppendProperties
<1>4. DOMAIN Append(dispatched, p) = DOMAIN dispatched \union {Len(dispatched) + 1}
  BY <1>3
<1>. QED  BY <1>2, <1>3, <1>4

\* RouteMessage takes the head of the batch, ProcessMultipart a gathered reply.
LEMMA Routed ==
  ASSUME TypeOK, RouteMessage
  PROVE  /\ Leaves /\ pc # "idle" /\ Head(packets) \in Packet
         /\ Dispatch(Head(packets)) \/ NotDispatched
<1>1. packets # <<>> /\ packets \in Seq(Packet)
  BY DEF RouteMessage, TypeOK
<1>2. Dispatch(Head(packets)) \/ NotDispatched
  BY Zenon DEF RouteMessage
<1>3. /\ pc = "route" /\ packets' = Tail(packets)
      /\ UNCHANGED <<sent, wire, remaining, unprocessed>>
  BY Zenon DEF RouteMessage, NextPacket, inVars
<1>. QED  BY <1>1, <1>2, <1>3, TailPackets DEF Leaves

\* What arrives has the next number, or is an echo reply.
LEMMA Arrives ==
  ASSUME TypeOK, InOneLine, BatchIsAlone,
         (\E k \in Kinds : SwitchSends(k)) \/ SwitchAnswersEcho
  PROVE  \E p \in Packet : /\ p.id \in {0, sent + 1}
                           /\ Waiting' = Waiting \union {p}
<1>1. ASSUME NEW k \in Kinds, SwitchSends(k)
      PROVE  \E p \in Packet : p.id \in {0, sent + 1} /\ Waiting' = Waiting \union {p}
  <2>1. [id |-> sent + 1, kind |-> k] \in Packet
    BY DEF TypeOK, Packet
  <2>2. Waiting' = Waiting \union {[id |-> sent + 1, kind |-> k]}
    BY <1>1, WaitingAfter
  <2>. QED  BY <2>1, <2>2
<1>2. CASE SwitchAnswersEcho
  <2>1. [id |-> 0, kind |-> "echo_reply"] \in Packet
    BY DEF Packet, Kinds
  <2>2. Waiting' = Waiting \union {[id |-> 0, kind |-> "echo_reply"]}
    BY <1>2, WaitingAfter
  <2>. QED  BY <2>1, <2>2
<1>. QED  BY <1>1, <1>2

LEMMA Processed ==
  ASSUME TypeOK, GatheredOnce, NEW p \in assembling, ProcessMultipart(p)
  PROVE  /\ p \in Packet /\ p.id \in 1 .. sent /\ sent' = sent
         /\ Dispatch(p) \/ NotDispatched
         /\ Gathered' = Gathered \ {p}
         /\ \A q \in Waiting \union Gathered' : p.id # q.id
<1>1. /\ p \in Packet /\ p \in Gathered /\ multipart' = multipart
      /\ assembling' = assembling \ {p} /\ sent' = sent
  BY DEF TypeOK, Gathered, ProcessMultipart, loopVars, inVars
<1>2. Dispatch(p) \/ NotDispatched
  BY Zenon DEF ProcessMultipart
<1>3. Gathered' = Gathered \ {p}
  BY <1>1 DEF Gathered, GatheredOnce
<1>. QED  BY <1>1, <1>2, <1>3 DEF GatheredOnce

\* What a task has besides the message that it looks at.
Behind == Range(Tail(packets)) \union Range(unprocessed) \union multipart

\* The message whose handling raises is handed over, and all that its task had
\* besides is lost, but for the echo replies.
LEMMA RaisedInLoop ==
  ASSUME TypeOK, LineInv, GatheredOnce, RouteRaises
  PROVE  /\ Head(packets) \in Packet /\ Head(packets).id \in 1 .. sent
         /\ Head(packets) \in Waiting /\ Head(packets).kind = "other"
         /\ Dispatch(Head(packets)) /\ sent' = sent
         /\ Behind \subseteq Packet /\ Behind \subseteq Waiting \union Gathered
         /\ Waiting' = Range(wire) /\ Gathered' = assembling
         /\ Waiting = {Head(packets)} \union Range(Tail(packets)) \union Range(unprocessed)
                         \union Waiting'
         /\ \A q \in Behind : q.id # Head(packets).id
         /\ \A q \in Waiting' \union Gathered' :
               /\ q.id # Head(packets).id
               /\ \A r \in Behind : r.id # 0 => q.id # r.id
         /\ lost' = Lose(Behind, Head(packets))
<1> USE DEF LineInv
<1> DEFINE h == Head(packets)
<1>1. /\ packets # <<>> /\ pc = "route" /\ h.kind = "other" /\ Dispatch(h)
      /\ Abandon /\ lost' = Lose(Behind, h)
      /\ UNCHANGED <<sent, wire, remaining, assembling>>
  BY DEF RouteRaises, TypeOK, Behind, inVars
<1>2. /\ packets \in Seq(Packet) /\ unprocessed \in Seq(Packet)
      /\ Range(remaining) = {}
  BY <1>1 DEF TypeOK, BatchIsAlone, Range
<1>3. /\ h \in Packet /\ Tail(packets) \in Seq(Packet)
      /\ Range(packets) = {h} \union Range(Tail(packets))
      /\ \A q \in Range(Tail(packets)) : h.id # 0 /\ q.id # 0 => h.id < q.id
  BY <1>1, <1>2, TailPackets DEF InOneLine
<1>4. Waiting' = Range(wire) /\ Gathered' = assembling
  BY <1>1, <1>2 DEF Waiting, Gathered, Abandon, Range
<1>5. Waiting = {h} \union Range(Tail(packets)) \union Range(unprocessed) \union Waiting'
  BY <1>2, <1>3, <1>4 DEF Waiting
<1>6. \A q \in Waiting : q \in Packet /\ q.id \in Nat
  BY WaitingPackets
<1>7. h.id \in 1 .. sent
  BY <1>1, <1>5, <1>6 DEF NumbersGiven, TypeOK
<1>8. /\ Behind \subseteq Waiting \union Gathered /\ Behind \subseteq Packet
  BY <1>5, <1>6 DEF Behind, Gathered, TypeOK
<1>9. \A q \in Behind : q.id # h.id
  <2>1. \A q \in Range(Tail(packets)) : q.id # h.id
    BY <1>3, <1>5, <1>6, <1>7
  <2>2. \A q \in Range(unprocessed) : q.id # h.id
    BY <1>3, <1>5, <1>6, <1>7 DEF InOneLine, Before
  <2>3. \A q \in multipart : q.id # h.id
    BY <1>5 DEF GatheredOnce, Gathered
  <2>. QED  BY <2>1, <2>2, <2>3 DEF Behind
<1>10. ASSUME NEW q \in Waiting', NEW r \in {h} \union Behind, r.id # 0 PROVE q.id # r.id
  <2>1. CASE r \in {h} \union Range(Tail(packets)) \union Range(unprocessed)
    BY <1>3, <1>4, <1>5, <1>6, <1>10, <2>1 DEF InOneLine, Before
  <2>2. CASE r \in multipart
    BY <1>5, <2>2 DEF GatheredOnce, Gathered
  <2>. QED  BY <2>1, <2>2 DEF Behind
<1>11. ASSUME NEW q \in Gathered', NEW r \in {h} \union Behind PROVE q.id # r.id
  <2>1. CASE r \in Waiting
    BY <1>4, <2>1 DEF GatheredOnce, Gathered
  <2>2. CASE r \in multipart
    BY <1>4, <2>2 DEF GatheredOnce, Gathered
  <2>. QED  BY <1>5, <2>1, <2>2 DEF Behind
<1>. QED  BY <1>1, <1>3, <1>4, <1>5, <1>7, <1>8, <1>9, <1>10, <1>11

\* What it had besides has one number each.
LEMMA BehindIsOnce ==
  ASSUME TypeOK, LineInv, GatheredOnce, RouteRaises
  PROVE  \A q, r \in Behind : q.id # 0 /\ q.id = r.id => q = r
<1> USE DEF LineInv
<1>1. SUFFICES ASSUME NEW q \in Behind, NEW r \in Behind, q.id # 0, q.id = r.id
               PROVE  q = r
  OBVIOUS
<1>2. /\ packets # <<>> /\ packets \in Seq(Packet) /\ unprocessed \in Seq(Packet)
  BY DEF RouteRaises, TypeOK
<1>3. /\ Range(packets) = {Head(packets)} \union Range(Tail(packets))
      /\ Tail(packets) \in Seq(Packet) /\ Ordered(Tail(packets)) /\ Ordered(unprocessed)
  BY <1>2, TailPackets DEF InOneLine
<1>4. q.id \in Nat \ {0}
  BY <1>1, RaisedInLoop DEF Packet
<1>5. ASSUME NEW s \in Seq(Packet), Ordered(s), q \in Range(s), r \in Range(s) PROVE q = r
  <2>1. PICK i \in DOMAIN s : q = s[i]
    BY <1>5 DEF Range
  <2>2. PICK j \in DOMAIN s : r = s[j]
    BY <1>5 DEF Range
  <2>. QED  BY <1>1, <1>4, <1>5, <2>1, <2>2, OrderedIsOnce
<1>6. ASSUME NEW a \in Range(unprocessed), NEW b \in Range(Tail(packets)),
             a.id = b.id, a.id = q.id
      PROVE  FALSE
  <2>1. a.id # 0 /\ b.id # 0 /\ b \in Range(packets)
    BY <1>3, <1>4, <1>6
  <2>2. a.id < b.id
    BY <2>1 DEF InOneLine, Before
  <2>. QED  BY <1>4, <1>6, <2>2
<1>7. ASSUME NEW a \in Behind, NEW b \in Behind, a.id = b.id, a \in multipart
      PROVE  a = b
  <2>1. a \in Gathered
    BY <1>7 DEF Gathered
  <2>2. b \in Waiting \/ b \in Gathered
    BY RaisedInLoop
  <2>. QED  BY <1>7, <2>1, <2>2 DEF GatheredOnce
<1>8. CASE q \in multipart \/ r \in multipart
  BY <1>1, <1>7, <1>8
<1>9. CASE q \in Range(unprocessed) /\ r \in Range(unprocessed)
  BY <1>2, <1>3, <1>5, <1>9
<1>10. CASE q \in Range(Tail(packets)) /\ r \in Range(Tail(packets))
  BY <1>3, <1>5, <1>10
<1>11. CASE q \in Range(unprocessed) /\ r \in Range(Tail(packets))
  BY <1>1, <1>6, <1>11
<1>12. CASE r \in Range(unprocessed) /\ q \in Range(Tail(packets))
  BY <1>1, <1>6, <1>12
<1>. QED  BY <1>1, <1>8, <1>9, <1>10, <1>11, <1>12 DEF Behind

\* A multipart reply whose handling raises is lost with all that its task has
\* still to handle.
LEMMA RaisedBehind ==
  ASSUME TypeOK, GatheredOnce, NEW p \in assembling, ProcessRaises(p)
  PROVE  \E s \in tasks :
            /\ p \in s /\ s \subseteq Gathered /\ s \subseteq Packet
            /\ \A q \in s : q.id \in 1 .. sent /\ q.kind = "multipart_reply"
            /\ Waiting' = Waiting /\ Gathered' = Gathered \ s
            /\ multipart' = multipart /\ assembling' = assembling \ s
            /\ tasks' = tasks \ {s}
            /\ UNCHANGED <<dispatched, sent, deferredOnce, remaining, unprocessed>>
            /\ lost' = Lose(s, p)
<1>1. PICK s \in tasks : /\ p \in s /\ assembling' = assembling \ s
                        /\ tasks' = tasks \ {s} /\ lost' = Lose(s, p)
  BY DEF ProcessRaises
<1>2. /\ UNCHANGED <<dispatched, sent, deferredOnce, multipart, remaining, wire, packets,
                      unprocessed>>
  BY DEF ProcessRaises, NotDispatched, inVars, loopVars
<1>3. s \subseteq assembling /\ s \subseteq Gathered
  BY <1>1 DEF GatheredOnce, TasksApart, Gathered
<1>4. Waiting' = Waiting
  BY <1>2 DEF Waiting
<1>5. Gathered' = Gathered \ s
  BY <1>1, <1>2, <1>3 DEF Gathered, GatheredOnce
<1>6. \A q \in s : q \in Packet /\ q.id \in 1 .. sent /\ q.kind = "multipart_reply"
  BY <1>3 DEF GatheredOnce, TypeOK
<1>. QED  BY <1>1, <1>2, <1>3, <1>4, <1>5, <1>6

LEMMA NextHandedOverOnce ==
  ASSUME TypeOK, LineInv, HandedOverOnce, GatheredOnce, LostOnce, [Next]_vars
  PROVE  HandedOverOnce'
<1> USE DEF LineInv
<1>1. sent \in Nat /\ sent' \in Nat /\ sent' >= sent
  BY NextNumbersGiven DEF TypeOK
<1>2. CASE /\ dispatched' = dispatched
           /\ Waiting' \union Gathered' \union Lost'
                \subseteq Waiting \union Gathered \union Lost
  BY <1>1, <1>2 DEF HandedOverOnce
<1>3. ASSUME NEW p \in Packet, p.id \in 1 .. sent, sent' = sent,
             Dispatch(p) \/ NotDispatched,
             p \in Waiting \union Gathered,
             Waiting' \union Gathered' \union Lost'
                \subseteq Waiting \union Gathered \union Lost,
             \A q \in Waiting' \union Gathered' \union Lost' : q.id # p.id
      PROVE  HandedOverOnce'
  <2>1. CASE dispatched' = dispatched
    BY <1>2, <1>3, <2>1
  <2>2. CASE dispatched' # dispatched
    <3>1. /\ DOMAIN dispatched' = DOMAIN dispatched \union {Len(dispatched) + 1}
          /\ \A i \in DOMAIN dispatched : dispatched'[i] = dispatched[i]
          /\ dispatched'[Len(dispatched) + 1] = p
      BY <1>3, <2>2, DispatchedAfter
    <3>2. \A i \in DOMAIN dispatched : dispatched[i].id # p.id
      BY <1>3 DEF HandedOverOnce
    <3>. QED  BY <1>1, <1>3, <3>1, <3>2 DEF HandedOverOnce
  <2>. QED  BY <2>1, <2>2
<1>4. CASE (\E k \in Kinds : SwitchSends(k)) \/ SwitchAnswersEcho
  <2>1. PICK p \in Packet : p.id \in {0, sent + 1} /\ Waiting' = Waiting \union {p}
    BY <1>4, Arrives
  <2>2. Gathered' = Gathered /\ dispatched' = dispatched
    BY <1>4, GatheredAfter
  <2>3. lost' = lost /\ Lost' = Lost
    BY <1>4 DEF SwitchSends, SwitchAnswersEcho, Lost
  <2>. QED  BY <1>1, <2>1, <2>2, <2>3 DEF HandedOverOnce
<1>5. CASE \/ Kept \/ Read \/ RouteDeferred \/ EndBatch
           \/ Abandon /\ UNCHANGED <<wire, remaining, assembling, lost, dispatched>>
  <2>1. Lost' = Lost
    BY <1>5 DEF Kept, Read, StartRawIn, RouteDeferred, EndBatch, Lost
  <2>. QED  BY <1>2, <1>5, <2>1, WaitingAfter, GatheredAfter
<1>6. CASE SetSetup \/ RouteMultipart
  <2>1. Leaves /\ pc # "idle"
    BY <1>6 DEF RouteMultipart, SetSetup, NextPacket, Leaves, TypeOK, inVars
  <2>2. Lost' = Lost
    BY <1>6 DEF RouteMultipart, SetSetup, Lost
  <2>. QED  BY <1>2, <1>6, <2>1, <2>2, HeadLeaves, GatheredAfter
<1>7. CASE RouteMessage
  <2>0. Lost' = Lost
    BY <1>7 DEF RouteMessage, Lost
  <2>1. /\ Leaves /\ pc # "idle" /\ Head(packets) \in Packet
        /\ Dispatch(Head(packets)) \/ NotDispatched
    BY <1>7, Routed
  <2>2. /\ Waiting = Waiting' \union {Head(packets)}
        /\ Head(packets).id # 0 => \A q \in Waiting' : q.id # Head(packets).id
    BY <2>1, HeadLeaves
  <2>3. Gathered' = Gathered /\ sent' = sent
    BY <1>7, <2>1, GatheredAfter DEF Leaves
  <2>4. CASE Head(packets).id = 0
    <3>1. dispatched' = dispatched
      BY <2>1, <2>4, DispatchedAfter
    <3>. QED  BY <1>2, <2>0, <2>2, <2>3, <3>1
  <2>5. CASE Head(packets).id # 0
    <3>1. Head(packets).id \in 1 .. sent
      BY <1>1, <2>2, <2>5, WaitingPackets DEF NumbersGiven
    <3>2. \A q \in Gathered' \union Lost' : q.id # Head(packets).id
      BY <2>0, <2>2, <2>3 DEF GatheredOnce, LostOnce
    <3>. QED  BY <1>3, <2>0, <2>1, <2>2, <2>3, <2>5, <3>1, <3>2
  <2>. QED  BY <2>4, <2>5
<1>8. ASSUME NEW p \in assembling, ProcessMultipart(p)
      PROVE  HandedOverOnce'
  <2>1. Waiting' = Waiting /\ p \in Gathered
    BY <1>8, WaitingAfter DEF Gathered
  <2>2. Lost' = Lost /\ \A q \in Lost : q.id # p.id
    BY <1>8, <2>1 DEF ProcessMultipart, Lost, LostOnce
  <2>. QED  BY <1>3, <1>8, <2>1, <2>2, Processed
<1>9. CASE RouteRaises
  <2>1. /\ Head(packets) \in Packet /\ Head(packets).id \in 1 .. sent
        /\ Head(packets) \in Waiting /\ Dispatch(Head(packets)) /\ sent' = sent
        /\ Behind \subseteq Waiting \union Gathered
        /\ Waiting' \subseteq Waiting /\ Gathered' \subseteq Gathered
        /\ \A q \in Waiting' \union Gathered' \union Behind : q.id # Head(packets).id
        /\ lost' = Lose(Behind, Head(packets))
    BY <1>9, RaisedInLoop DEF Gathered
  <2>2. Lost' = Lost \union {q \in Behind : q.id # 0}
    BY <2>1, LoseAll
  <2>3. \A q \in Lost : q.id # Head(packets).id
    BY <2>1 DEF LostOnce
  <2>. QED  BY <1>3, <2>1, <2>2, <2>3
<1>10. ASSUME NEW p \in assembling, ProcessRaises(p)
      PROVE  HandedOverOnce'
  <2>1. PICK s \in tasks : /\ s \subseteq Gathered /\ Gathered' = Gathered \ s
                          /\ Waiting' = Waiting /\ dispatched' = dispatched
                          /\ lost' = Lose(s, p)
    BY <1>10, RaisedBehind
  <2>2. Lost' = Lost \union {q \in s : q.id # 0}
    BY <2>1, LoseAll
  <2>. QED  BY <1>2, <2>1, <2>2
<1>. QED  BY <1>4, <1>5, <1>6, <1>7, <1>8, <1>9, <1>10, StepsOfPackets

\* The replies of two tasks have nothing in common.
LEMMA NextTasksApart ==
  ASSUME TypeOK, GatheredOnce, [Next]_vars
  PROVE  TasksApart'
<1> USE DEF connVars, inVars, loopVars, outVars, threadVars, appVars
<1>0. TasksApart /\ multipart \intersect assembling = {}
  BY DEF GatheredOnce
<1>1. CASE tasks' = tasks /\ assembling' = assembling
  BY <1>0, <1>1 DEF TasksApart
<1>2. CASE EndBatch
  <2>1. /\ assembling' = assembling \union multipart
        /\ tasks' = (tasks \union {multipart}) \ {{}}
    BY <1>2 DEF EndBatch
  <2>2. assembling' = UNION tasks'
    BY <1>0, <2>1 DEF TasksApart
  <2>3. \A u \in tasks : u \intersect multipart = {}
    BY <1>0 DEF TasksApart
  <2>. QED  BY <1>0, <2>1, <2>2, <2>3 DEF TasksApart
<1>3. ASSUME NEW p \in assembling, ProcessMultipart(p) PROVE TasksApart'
  <2>1. assembling' = assembling \ {p} /\ tasks' = {u \ {p} : u \in tasks} \ {{}}
    BY <1>3 DEF ProcessMultipart
  <2>2. ASSUME NEW q \in assembling' PROVE q \in UNION tasks'
    <3>1. PICK u \in tasks : q \in u
      BY <1>0, <2>1 DEF TasksApart
    <3>2. q \in u \ {p} /\ u \ {p} \in tasks'
      BY <2>1, <3>1
    <3>. QED  BY <3>2
  <2>3. ASSUME NEW v \in tasks', NEW q \in v PROVE q \in assembling'
    <3>1. PICK u \in tasks : v = u \ {p}
      BY <2>1
    <3>. QED  BY <1>0, <2>1, <3>1 DEF TasksApart
  <2>4. ASSUME NEW v \in tasks', NEW w \in tasks', v # w PROVE v \intersect w = {}
    <3>1. PICK a \in tasks : v = a \ {p}
      BY <2>1
    <3>2. PICK b \in tasks : w = b \ {p}
      BY <2>1
    <3>3. a \intersect b = {}
      BY <1>0, <2>4, <3>1, <3>2 DEF TasksApart
    <3>. QED  BY <3>1, <3>2, <3>3
  <2>5. \A v \in tasks' : v # {}
    BY <2>1
  <2>6. assembling' = UNION tasks'
    BY <2>2, <2>3
  <2>. QED  BY <2>4, <2>5, <2>6 DEF TasksApart
<1>4. ASSUME NEW p \in assembling, ProcessRaises(p) PROVE TasksApart'
  <2>1. PICK s \in tasks : assembling' = assembling \ s /\ tasks' = tasks \ {s}
    BY <1>4 DEF ProcessRaises
  <2>2. assembling' = UNION tasks'
    BY <1>0, <2>1 DEF TasksApart
  <2>. QED  BY <1>0, <2>1, <2>2 DEF TasksApart
<1>5. CASE \/ (\E k \in Kinds : SwitchSends(k)) \/ SwitchAnswersEcho \/ Read
           \/ RouteDeferred \/ RouteMultipart \/ RouteMessage \/ SetSetup \/ RouteRaises
  BY <1>1, <1>5 DEF SwitchSends, SwitchAnswersEcho, Read, StartRawIn, RouteDeferred,
                    RouteMultipart, RouteMessage, SetSetup, RouteRaises
<1>6. CASE Kept \/ (Abandon /\ UNCHANGED <<assembling, tasks>>)
  BY <1>1, <1>6 DEF Kept
<1>. QED  BY <1>2, <1>3, <1>4, <1>5, <1>6, StepsOfPackets

LEMMA NextGatheredOnce ==
  ASSUME TypeOK, LineInv, GatheredOnce, [Next]_vars
  PROVE  GatheredOnce'
<1> USE DEF LineInv
<1>1. sent \in Nat /\ sent' \in Nat /\ sent' >= sent
  BY NextNumbersGiven DEF TypeOK
<1>0. TasksApart'
  BY NextTasksApart
<1>2. CASE /\ Waiting' \subseteq Waiting /\ Gathered' \subseteq Gathered
           /\ multipart' \intersect assembling' = {}
  BY <1>0, <1>1, <1>2 DEF GatheredOnce
<1>3. CASE (\E k \in Kinds : SwitchSends(k)) \/ SwitchAnswersEcho
  <2>1. PICK p \in Packet : p.id \in {0, sent + 1} /\ Waiting' = Waiting \union {p}
    BY <1>3, Arrives
  <2>2. Gathered' = Gathered /\ multipart' = multipart /\ assembling' = assembling
    BY <1>3, GatheredAfter DEF SwitchSends, SwitchAnswersEcho, loopVars
  <2>. QED  BY <1>0, <1>1, <2>1, <2>2 DEF GatheredOnce
<1>4. CASE Kept \/ Read \/ RouteDeferred \/ EndBatch
           \/ (Abandon /\ UNCHANGED <<wire, remaining, assembling, dispatched>>)
  <2>1. Waiting' \subseteq Waiting /\ Gathered' \subseteq Gathered
    BY <1>4, WaitingAfter, GatheredAfter
  <2>2. multipart' \intersect assembling' = {}
    BY <1>4 DEF Kept, Read, StartRawIn, RouteDeferred, EndBatch, Abandon, GatheredOnce
  <2>. QED  BY <1>2, <2>1, <2>2
<1>5. CASE SetSetup \/ RouteMessage
  <2>1. Leaves /\ pc # "idle" /\ multipart' = multipart /\ assembling' = assembling
    BY <1>5 DEF RouteMessage, SetSetup, NextPacket, Leaves, TypeOK, inVars
  <2>. QED  BY <1>2, <1>5, <2>1, HeadLeaves, GatheredAfter DEF GatheredOnce
<1>6. CASE RouteMultipart
  <2>1. /\ Leaves /\ pc # "idle" /\ Head(packets).kind = "multipart_reply"
        /\ multipart' = multipart \union {Head(packets)} /\ assembling' = assembling
    BY <1>6 DEF RouteMultipart, NextPacket, Leaves, TypeOK, inVars
  <2>2. Head(packets) \in Waiting /\ Waiting' \subseteq Waiting
    BY <2>1, HeadLeaves
  <2>3. Head(packets).id \in 1 .. sent
    BY <1>1, <2>1, <2>2, WaitingPackets DEF NumbersGiven
  <2>4. \A q \in Waiting' : q.id # Head(packets).id
    BY <2>1, <2>3, HeadLeaves
  <2>5. \A q \in Gathered : q.id # Head(packets).id
    BY <2>2 DEF GatheredOnce
  <2>6. Gathered' = Gathered \union {Head(packets)}
    BY <1>6, GatheredAfter
  <2>7. multipart' \intersect assembling' = {}
    BY <2>1, <2>5 DEF GatheredOnce, Gathered
  <2>. QED  BY <1>0, <1>1, <2>1, <2>2, <2>3, <2>4, <2>5, <2>6, <2>7 DEF GatheredOnce
<1>7. ASSUME NEW p \in assembling, ProcessMultipart(p)
      PROVE  GatheredOnce'
  <2>1. Waiting' = Waiting /\ Gathered' \subseteq Gathered
    BY <1>7, WaitingAfter, Processed
  <2>2. multipart' \intersect assembling' = {}
    BY <1>7 DEF ProcessMultipart, loopVars, GatheredOnce
  <2>. QED  BY <1>2, <2>1, <2>2
<1>8. CASE RouteRaises
  <2>1. Waiting' \subseteq Waiting /\ Gathered' = assembling
    BY <1>8, RaisedInLoop
  <2>2. multipart' = {}
    BY <1>8 DEF RouteRaises, Abandon
  <2>. QED  BY <1>2, <2>1, <2>2 DEF Gathered
<1>9. ASSUME NEW p \in assembling, ProcessRaises(p)
      PROVE  GatheredOnce'
  <2>1. PICK s \in tasks : /\ Gathered' = Gathered \ s /\ Waiting' = Waiting
                          /\ multipart' = multipart /\ assembling' = assembling \ s
    BY <1>9, RaisedBehind
  <2>2. multipart' \intersect assembling' = {}
    BY <2>1 DEF GatheredOnce
  <2>. QED  BY <1>2, <2>1, <2>2
<1>. QED  BY <1>3, <1>4, <1>5, <1>6, <1>7, <1>8, <1>9, StepsOfPackets

\* What is handed over was waiting or gathered, and stays handed over; what was
\* deferred once stays so.
LEMMA HandedAfter ==
  ASSUME TypeOK, LineInv, GatheredOnce, [Next]_vars
  PROVE  /\ deferredOnce \subseteq deferredOnce'
         /\ \A i \in DOMAIN dispatched :
               i \in DOMAIN dispatched' /\ dispatched'[i] = dispatched[i]
         /\ \A i \in DOMAIN dispatched' :
               \/ i \in DOMAIN dispatched /\ dispatched'[i] = dispatched[i]
               \/ dispatched'[i] \in Waiting \union Gathered
<1> USE DEF LineInv
<1>1. CASE dispatched' = dispatched /\ deferredOnce \subseteq deferredOnce'
  BY <1>1
<1>2. ASSUME NEW p \in Packet, Dispatch(p) \/ NotDispatched, deferredOnce' = deferredOnce,
             p \in Waiting \union Gathered
      PROVE  /\ deferredOnce \subseteq deferredOnce'
             /\ \A i \in DOMAIN dispatched :
                   i \in DOMAIN dispatched' /\ dispatched'[i] = dispatched[i]
             /\ \A i \in DOMAIN dispatched' :
                   \/ i \in DOMAIN dispatched /\ dispatched'[i] = dispatched[i]
                   \/ dispatched'[i] \in Waiting \union Gathered
  BY <1>1, <1>2, DispatchedAfter
<1>3. CASE RouteMessage
  <2>1. Leaves /\ pc # "idle" /\ Head(packets) \in Packet
        /\ (Dispatch(Head(packets)) \/ NotDispatched) /\ deferredOnce' = deferredOnce
    BY <1>3, Routed DEF RouteMessage
  <2>2. Head(packets) \in Waiting
    BY <2>1, HeadLeaves
  <2>. QED  BY <1>2, <2>1, <2>2
<1>4. CASE RouteRaises
  BY <1>2, <1>4, RaisedInLoop DEF RouteRaises
<1>5. ASSUME NEW p \in assembling, ProcessMultipart(p)
      PROVE  p \in Packet /\ (Dispatch(p) \/ NotDispatched) /\ deferredOnce' = deferredOnce
             /\ p \in Gathered
  BY <1>5, Processed DEF ProcessMultipart, Gathered
<1>6. ASSUME NEW p \in assembling, ProcessRaises(p)
      PROVE  dispatched' = dispatched /\ deferredOnce' = deferredOnce
  BY <1>6 DEF ProcessRaises, NotDispatched
<1>7. CASE Kept \/ (Abandon /\ UNCHANGED <<dispatched, deferredOnce>>)
  BY <1>1, <1>7 DEF Kept
<1>8. CASE (\E k \in Kinds : SwitchSends(k)) \/ SwitchAnswersEcho \/ Read \/ EndBatch
  BY <1>1, <1>8 DEF SwitchSends, SwitchAnswersEcho, Read, StartRawIn, EndBatch
<1>9. CASE RouteDeferred \/ RouteMultipart \/ SetSetup
  <2>1. dispatched' = dispatched
    BY <1>9, GatheredAfter
  <2>2. deferredOnce \subseteq deferredOnce'
    BY <1>9 DEF RouteDeferred, RouteMultipart, SetSetup
  <2>. QED  BY <1>1, <2>1, <2>2
<1>. QED  BY <1>1, <1>2, <1>3, <1>4, <1>5, <1>6, <1>7, <1>8, <1>9, StepsOfPackets

\* What is lost stays lost, and was with what raised when it raised.
LEMMA NextLostOnce ==
  ASSUME TypeOK, LineInv, HandedOverOnce, GatheredOnce, LostOnce, UndeferredIsNext,
         [Next]_vars
  PROVE  LostOnce'
<1> USE DEF LineInv
<1>1. sent \in Nat /\ sent' \in Nat /\ sent' >= sent
  BY NextNumbersGiven DEF TypeOK
<1>2. \A q \in Waiting' \union Gathered' :
         \/ q.id = 0 \/ q.id = sent + 1
         \/ q \in Waiting \union Gathered
  <2>1. CASE (\E k \in Kinds : SwitchSends(k)) \/ SwitchAnswersEcho
    <3>1. PICK p \in Packet : p.id \in {0, sent + 1} /\ Waiting' = Waiting \union {p}
      BY <2>1, Arrives
    <3>. QED  BY <2>1, <3>1, GatheredAfter
  <2>2. CASE \/ Kept \/ Read \/ RouteDeferred \/ EndBatch
             \/ Abandon /\ UNCHANGED <<wire, remaining, assembling, dispatched>>
    BY <2>2, WaitingAfter, GatheredAfter
  <2>3. CASE SetSetup \/ RouteMultipart \/ RouteMessage
    <3>1. Leaves /\ pc # "idle"
      BY <2>3 DEF RouteMultipart, RouteMessage, SetSetup, NextPacket, Leaves, TypeOK, inVars
    <3>. QED  BY <2>3, <3>1, HeadLeaves, GatheredAfter
  <2>4. ASSUME NEW p \in assembling, ProcessMultipart(p)
        PROVE  Waiting' \union Gathered' \subseteq Waiting \union Gathered
    BY <2>4, WaitingAfter, Processed
  <2>5. ASSUME NEW p \in assembling, ProcessRaises(p)
        PROVE  Waiting' \union Gathered' \subseteq Waiting \union Gathered
    BY <2>5, RaisedBehind
  <2>6. CASE RouteRaises
    BY <2>6, RaisedInLoop DEF Gathered
  <2>. QED  BY <2>1, <2>2, <2>3, <2>4, <2>5, <2>6, StepsOfPackets
<1>3. /\ deferredOnce \subseteq deferredOnce'
      /\ \A i \in DOMAIN dispatched :
            i \in DOMAIN dispatched' /\ dispatched'[i] = dispatched[i]
      /\ \A i \in DOMAIN dispatched' :
            \/ i \in DOMAIN dispatched /\ dispatched'[i] = dispatched[i]
            \/ dispatched'[i] \in Waiting \union Gathered
  BY HandedAfter
<1>4. \A l \in lost : l.packet \in Lost /\ LostBehind(l)
                     /\ (l.by.kind = "multipart_reply" => l.by \in Lost)
  BY DEF Lost, LostOnce
<1>5. ASSUME NEW l \in lost PROVE LostBehind(l)'
  <2>1. CASE l.by.kind = "multipart_reply"
    <3>1. \A i \in DOMAIN dispatched' : dispatched'[i].id # l.by.id
      BY <1>3, <1>4, <2>1 DEF LostBehind, LostOnce
    <3>. QED  BY <1>4, <2>1, <3>1 DEF LostBehind
  <2>2. CASE l.by.kind # "multipart_reply"
    BY <1>3, <1>4, <2>2 DEF LostBehind
  <2>. QED  BY <2>1, <2>2
<1>6. CASE lost' = lost /\ Lost' = Lost
  <2>1. \A p \in Lost : /\ p.id \in 1 .. sent'
                       /\ \A q \in Waiting' \union Gathered' : p.id # q.id
    BY <1>1, <1>2 DEF LostOnce
  <2>2. \A l \in lost : LostBehind(l)' /\ (l.by.kind = "multipart_reply" => l.by \in Lost)
    BY <1>4, <1>5
  <2>. QED  BY <1>6, <2>1, <2>2 DEF LostOnce
\* What is lost now, S, was waiting or gathered, and had one number each.
<1>7. ASSUME NEW S, NEW p, lost' = Lose(S, p), S \subseteq Waiting \union Gathered,
             \A q \in S : q.id # 0 => q.id \in 1 .. sent,
             \A q, r \in S : q.id # 0 /\ q.id = r.id => q = r,
             \A q \in Waiting' \union Gathered', r \in S : r.id # 0 => q.id # r.id,
             \A q \in S, l \in lost' : l.packet = q /\ l.by = p /\ q.id # 0 => LostBehind(l)',
             p.kind = "multipart_reply" => p \in S /\ p.id # 0
      PROVE  LostOnce'
  <2>0. lost' = Lose(S, p)
    BY <1>7
  <2>1. /\ Lost' = Lost \union {q \in S : q.id # 0}
        /\ \A l \in lost' : \/ l \in lost
                            \/ l.by = p /\ l.packet \in S /\ l.packet.id # 0
    BY <2>0, LoseAll
  <2>2. \A l, k \in lost' : l \in lost \/ k \in lost \/ (l.packet = k.packet => l = k)
    BY <2>0, LoseAll
  <2>3. \A q \in Lost, r \in S : q.id # r.id
    BY <1>7 DEF LostOnce
  <2>4. ASSUME NEW l \in lost', NEW k \in lost', l.packet.id = k.packet.id PROVE l = k
    <3>1. CASE l \in lost /\ k \in lost
      BY <2>4, <3>1 DEF LostOnce
    <3>2. CASE l \in lost /\ k \notin lost
      BY <1>4, <2>1, <2>3, <2>4, <3>2
    <3>3. CASE l \notin lost /\ k \in lost
      BY <1>4, <2>1, <2>3, <2>4, <3>3
    <3>4. CASE l \notin lost /\ k \notin lost
      BY <1>7, <2>1, <2>2, <2>4, <3>4
    <3>. QED  BY <3>1, <3>2, <3>3, <3>4
  <2>5. \A q \in Lost' : /\ q.id \in 1 .. sent'
                        /\ \A r \in Waiting' \union Gathered' : q.id # r.id
    BY <1>1, <1>2, <1>7, <2>1 DEF LostOnce
  <2>6. ASSUME NEW l \in lost'
        PROVE  LostBehind(l)' /\ (l.by.kind = "multipart_reply" => l.by \in Lost')
    <3>1. CASE l \in lost
      BY <1>4, <1>5, <2>1, <3>1
    <3>2. CASE l.by = p /\ l.packet \in S /\ l.packet.id # 0
      BY <1>7, <2>1, <3>2
    <3>. QED  BY <2>1, <3>1, <3>2
  <2>. QED  BY <2>4, <2>5, <2>6 DEF LostOnce
<1>8. CASE RouteRaises
  <2>1. /\ lost' = Lose(Behind, Head(packets)) /\ Behind \subseteq Waiting \union Gathered
        /\ Head(packets).id \in 1 .. sent /\ Head(packets).kind = "other"
        /\ Head(packets) \in Packet
        /\ \A q \in Waiting' \union Gathered' :
              \A r \in Behind : r.id # 0 => q.id # r.id
    BY <1>8, RaisedInLoop
  <2>2. \A q \in Behind : q.id # 0 => q.id \in 1 .. sent
    <3>1. \A q \in Waiting : q.id \in Nat /\ q.id <= sent
      BY WaitingPackets DEF NumbersGiven
    <3>. QED  BY <1>1, <2>1, <3>1 DEF GatheredOnce
  <2>3. \E i \in DOMAIN dispatched' : dispatched'[i] = Head(packets)
    <3>1. Dispatch(Head(packets)) /\ dispatched \in Seq(Packet)
      BY <1>8, RaisedInLoop DEF TypeOK
    <3>2. dispatched' = Append(dispatched, Head(packets))
      BY <1>1, <2>1, <3>1 DEF Dispatch
    <3>. QED  BY <2>1, <3>1, <3>2, AppendProperties
  <2>4. ASSUME NEW q \in Behind, q.id # 0
        PROVE  q.kind = "multipart_reply" \/ q.id \in deferredOnce'
               \/ q.id > Head(packets).id
    <3>1. CASE q \in multipart
      BY <3>1 DEF GatheredOnce, Gathered
    <3>2. CASE q \in Range(unprocessed)
      BY <1>3, <3>2 DEF UndeferredIsNext
    <3>3. CASE q \in Range(Tail(packets))
      <4>1. packets # <<>> /\ packets \in Seq(Packet)
        BY <1>8 DEF RouteRaises, TypeOK
      <4>2. Head(packets).id < q.id
        BY <1>1, <2>1, <2>4, <3>3, <4>1, TailPackets DEF InOneLine
      <4>3. q.id \in Nat /\ Head(packets).id \in Nat
        BY <1>1, <2>1, <2>2, <2>4
      <4>. QED  BY <4>2, <4>3
    <3>. QED  BY <3>1, <3>2, <3>3 DEF Behind
  <2>5. \A q \in Behind, l \in lost' :
           l.packet = q /\ l.by = Head(packets) /\ q.id # 0 => LostBehind(l)'
    BY <2>1, <2>3, <2>4 DEF LostBehind
  <2>. QED  BY <1>7, <1>8, <2>1, <2>2, <2>5, BehindIsOnce
<1>9. ASSUME NEW p \in assembling, ProcessRaises(p) PROVE LostOnce'
  <2>1. PICK s \in tasks :
           /\ p \in s /\ s \subseteq Gathered
           /\ \A q \in s : q.id \in 1 .. sent /\ q.kind = "multipart_reply"
           /\ Waiting' = Waiting /\ Gathered' = Gathered \ s
           /\ dispatched' = dispatched /\ lost' = Lose(s, p)
    BY <1>9, RaisedBehind
  <2>2. \A q, r \in s : q.id = r.id => q = r
    BY <2>1 DEF GatheredOnce
  <2>3. \A q \in Waiting' \union Gathered', r \in s : q.id # r.id
    BY <2>1 DEF GatheredOnce
  <2>4. \A i \in DOMAIN dispatched' : dispatched'[i].id # p.id
    BY <2>1 DEF HandedOverOnce
  <2>5. \A q \in s, l \in lost' :
           l.packet = q /\ l.by = p /\ q.id # 0 => LostBehind(l)'
    BY <2>1, <2>4 DEF LostBehind
  <2>6. p \in s /\ p.id # 0
    BY <1>1, <2>1
  <2>. QED  BY <1>7, <2>1, <2>2, <2>3, <2>5, <2>6
<1>. QED  BY <1>6, <1>8, <1>9, LostAfter


LEMMA NextUndeferredIsNext ==
  ASSUME TypeOK, LineInv, HandedOverOnce, GatheredOnce, UndeferredIsNext, [Next]_vars
  PROVE  UndeferredIsNext'
<1> USE DEF LineInv
<1>1. /\ wire \in Seq(Packet) /\ remaining \in Seq(Packet) /\ sent \in Nat
      /\ packets \in Seq(Packet) /\ unprocessed \in Seq(Packet)
  BY DEF TypeOK
<1>2. CASE /\ Waiting' \subseteq Waiting /\ dispatched' = dispatched
           /\ deferredOnce' = deferredOnce
           /\ Range(unprocessed') \union Range(remaining')
                \subseteq Range(unprocessed) \union Range(remaining)
  BY <1>2 DEF UndeferredIsNext
<1>3. CASE (\E k \in Kinds : SwitchSends(k)) \/ SwitchAnswersEcho
  <2>1. PICK p \in Packet : p.id \in {0, sent + 1} /\ Waiting' = Waiting \union {p}
    BY <1>3, Arrives
  <2>2. /\ dispatched' = dispatched /\ deferredOnce' = deferredOnce
        /\ remaining' = remaining /\ unprocessed' = unprocessed
    BY <1>3 DEF SwitchSends, SwitchAnswersEcho, loopVars
  <2>3. \A i \in DOMAIN dispatched : p.id # 0 => dispatched[i].id < p.id
    BY <1>1, <2>1 DEF HandedOverOnce
  <2>. QED  BY <2>1, <2>2, <2>3 DEF UndeferredIsNext
<1>4. CASE Kept \/ Read \/ EndBatch
  <2>1. Waiting' = Waiting /\ dispatched' = dispatched /\ deferredOnce' = deferredOnce
    BY <1>4, WaitingAfter, GatheredAfter DEF Kept, Read, StartRawIn, EndBatch
  <2>2. CASE Kept
    BY <1>2, <2>1, <2>2 DEF Kept
  <2>3. CASE Read
    <3>1. Range(remaining') = {} /\ unprocessed' = unprocessed
      BY <2>3 DEF Read, StartRawIn, Range
    <3>. QED  BY <1>2, <2>1, <3>1
  <2>4. CASE EndBatch
    <3>1. Range(remaining') = Range(unprocessed) \union Range(remaining)
      BY <1>1, <2>4, JoinedPackets DEF EndBatch
    <3>2. Range(unprocessed') = {}
      BY <2>4 DEF EndBatch, Range
    <3>. QED  BY <1>2, <2>1, <3>1, <3>2
  <2>. QED  BY <1>4, <2>2, <2>3, <2>4
<1>5. CASE Abandon /\ UNCHANGED <<wire, remaining, dispatched, deferredOnce>>
  <2>1. Range(unprocessed') = {}
    BY <1>5 DEF Abandon, Range
  <2>. QED  BY <1>2, <1>5, <2>1, WaitingAfter
<1>6. CASE SetSetup \/ RouteMultipart
  <2>1. Leaves /\ pc # "idle" /\ deferredOnce' = deferredOnce
    BY <1>6 DEF RouteMultipart, SetSetup, NextPacket, Leaves, TypeOK, inVars
  <2>. QED  BY <1>2, <1>6, <2>1, HeadLeaves, GatheredAfter DEF Leaves
<1>7. CASE RouteDeferred
  <2>1. /\ Waiting' = Waiting /\ dispatched' = dispatched /\ remaining' = remaining
        /\ deferredOnce' = deferredOnce \union {Head(packets).id}
    BY <1>7, WaitingAfter, GatheredAfter DEF RouteDeferred, inVars
  <2>2. Range(unprocessed') = Range(unprocessed) \union {Head(packets)}
    <3>1. packets # <<>> /\ unprocessed' = Append(unprocessed, Head(packets))
      BY <1>7 DEF RouteDeferred, TypeOK
    <3>. QED  BY <1>1, <3>1, TailPackets, AddedPacket
  <2>. QED  BY <2>1, <2>2 DEF UndeferredIsNext
<1>8. CASE RouteMessage
  <2>1. /\ Leaves /\ pc # "idle" /\ Head(packets) \in Packet
        /\ Dispatch(Head(packets)) \/ NotDispatched
        /\ deferredOnce' = deferredOnce
    BY <1>8, Routed DEF RouteMessage
  <2>2. Waiting' \subseteq Waiting
    BY <2>1, HeadLeaves
  <2>3. CASE dispatched' = dispatched
    BY <1>2, <2>1, <2>2, <2>3 DEF Leaves
  <2>4. CASE dispatched' # dispatched
    <3>1. /\ DOMAIN dispatched' = DOMAIN dispatched \union {Len(dispatched) + 1}
          /\ \A i \in DOMAIN dispatched : dispatched'[i] = dispatched[i]
          /\ dispatched'[Len(dispatched) + 1] = Head(packets)
          /\ Head(packets).id # 0
      BY <2>1, <2>4, DispatchedAfter
    <3>2. ASSUME NEW q \in Waiting', q.id # 0, q.id \notin deferredOnce
          PROVE  Head(packets).id < q.id
      <4>1. q \in Range(packets') \union Range(wire)
        BY <2>1, <3>2 DEF Waiting, Leaves, UndeferredIsNext
      <4>2. /\ Head(packets) \in Range(packets)
            /\ \A r \in Range(packets') : r.id # 0 => Head(packets).id < r.id
        BY <1>1, <2>1, <3>1, TailPackets DEF Leaves, InOneLine
      <4>. QED  BY <3>1, <3>2, <4>1, <4>2 DEF InOneLine, Before
    <3>3. Range(unprocessed') \union Range(remaining')
            = Range(unprocessed) \union Range(remaining)
      BY <2>1 DEF Leaves
    <3>. QED  BY <2>1, <2>2, <3>1, <3>2, <3>3 DEF UndeferredIsNext
  <2>. QED  BY <2>3, <2>4
<1>9. ASSUME NEW p \in assembling, ProcessMultipart(p)
      PROVE  UndeferredIsNext'
  <2>1. /\ Waiting' = Waiting /\ deferredOnce' = deferredOnce
        /\ remaining' = remaining /\ unprocessed' = unprocessed
    BY <1>9, WaitingAfter DEF ProcessMultipart, loopVars, inVars
  <2>2. p \in Packet /\ p.kind = "multipart_reply" /\ (Dispatch(p) \/ NotDispatched)
    BY <1>9, Processed DEF GatheredOnce, Gathered
  <2>3. CASE dispatched' = dispatched
    BY <1>2, <2>1, <2>3
  <2>4. CASE dispatched' # dispatched
    <3>1. /\ DOMAIN dispatched' = DOMAIN dispatched \union {Len(dispatched) + 1}
          /\ \A i \in DOMAIN dispatched : dispatched'[i] = dispatched[i]
          /\ dispatched'[Len(dispatched) + 1] = p
      BY <2>2, <2>4, DispatchedAfter
    <3>. QED  BY <2>1, <2>2, <3>1 DEF UndeferredIsNext
  <2>. QED  BY <2>3, <2>4
<1>10. CASE RouteRaises
  <2>1. /\ Head(packets) \in Packet /\ Head(packets).id \in 1 .. sent
        /\ Dispatch(Head(packets)) /\ Waiting' = Range(wire) /\ Waiting' \subseteq Waiting
        /\ Head(packets) \in Packet
    BY <1>10, RaisedInLoop
  <2>2. Range(unprocessed') = {} /\ Range(remaining') = {} /\ deferredOnce' = deferredOnce
    BY <1>10 DEF RouteRaises, Abandon, BatchIsAlone, inVars, Range
  <2>3. \A q \in Waiting' : q.id # 0 => Head(packets).id < q.id
    <3>1. packets # <<>>
      BY <1>10 DEF RouteRaises, TypeOK
    <3>2. Head(packets) \in Range(packets)
      BY <1>1, <3>1, TailPackets
    <3>. QED  BY <1>1, <2>1, <3>2 DEF InOneLine, Before
  <2>4. CASE dispatched' = dispatched
    BY <1>2, <2>1, <2>2, <2>4
  <2>5. CASE dispatched' # dispatched
    <3>1. /\ DOMAIN dispatched' = DOMAIN dispatched \union {Len(dispatched) + 1}
          /\ \A i \in DOMAIN dispatched : dispatched'[i] = dispatched[i]
          /\ dispatched'[Len(dispatched) + 1] = Head(packets)
      BY <2>1, <2>5, DispatchedAfter
    <3>. QED  BY <2>1, <2>2, <2>3, <3>1 DEF UndeferredIsNext
  <2>. QED  BY <2>4, <2>5
<1>11. ASSUME NEW p \in assembling, ProcessRaises(p)
      PROVE  UndeferredIsNext'
  <2>1. /\ Waiting' = Waiting
        /\ UNCHANGED <<dispatched, deferredOnce, remaining, unprocessed>>
    BY <1>11, RaisedBehind
  <2>. QED  BY <1>2, <2>1
<1>. QED
  BY <1>3, <1>4, <1>5, <1>6, <1>7, <1>8, <1>9, <1>10, <1>11, StepsOfPackets

\* A connection is new once, and opened once; and it is the first packet of a
\* new connection that is negotiated.
LEMMA StepsOfConnection ==
  ASSUME TypeOK, HandshakeInv, [Next]_vars
  PROVE  /\ socketOpen' => socketOpen
         /\ connState' = "NEW" => connState = "NEW"
         /\ connState' = connState \/ SetSetup \/ connState # "NEW" \/ ~socketOpen'
         /\ connState' \in {connState, "ESTABLISHED"} \/ SetSetup \/ ~socketOpen'
         /\ pc' \in {"hello", "features", "setup"} =>
              \/ pc \in {"hello", "features", "setup"} /\ packets' = packets
              \/ /\ connState = "NEW" /\ pc = "check" /\ packets # <<>>
                 /\ packets' = packets /\ Head(packets).kind = "hello"
<1> DEFINE Goal ==
        /\ socketOpen' => socketOpen
        /\ connState' = "NEW" => connState = "NEW"
        /\ connState' = connState \/ SetSetup \/ connState # "NEW" \/ ~socketOpen'
        /\ connState' \in {connState, "ESTABLISHED"} \/ SetSetup \/ ~socketOpen'
        /\ pc' \in {"hello", "features", "setup"} =>
             \/ pc \in {"hello", "features", "setup"} /\ packets' = packets
             \/ /\ connState = "NEW" /\ pc = "check" /\ packets # <<>>
                /\ packets' = packets /\ Head(packets).kind = "hello"
<1> USE DEF connVars, inVars, loopVars, outVars, threadVars, appVars
<1>1. CASE UNCHANGED <<connState, socketOpen, pc, packets>>
  BY <1>1
<1>2. CASE Switch \/ (\E k \in OutKinds : SendOut(k)) \/ AnswerEcho \/ EchoReplySent
           \/ KeepAlive \/ UNCHANGED vars \/ RequestSent \/ HandleMultipart
  <2>. UNCHANGED <<connState, socketOpen, pc, packets>>
    BY <1>2 DEF Switch, SwitchSends, SwitchAnswersEcho, SendOut, AnswerEcho, EchoReplySent,
                KeepAlive, vars, RequestSent, ReadSentState, WriteSentState,
                HandleMultipart, ProcessMultipart, ProcessRaises
  <2>. QED  BY <1>1
<1>3. CASE Close
  BY <1>3 DEF Close, Alive
<1>4. CASE Read
  BY <1>4 DEF Read, StartRawIn
<1>5. CASE FeaturesReply
  BY <1>5 DEF FeaturesReply, ReplyDuplicated, ReplyBinds, ReplyChecked, ReplyConcludes,
              ReplyEstablishes, ReplyAnnounces, HandshakeInv, NewIsUntouched
<1>6. CASE Negotiation
  BY <1>6 DEF Negotiation, SayHello, SendFeaturesRequest, SetSetup, FailNegotiation,
              QueueError, CloseFailed, NextPacket, Abandon
<1>7. CASE RawInLoop /\ ~Negotiation
  BY <1>7 DEF RawInLoop, ReturnIfDead, LookAtPacket, RouteUndecodable, RouteDeferred,
              RouteMultipart, RouteMessage, RouteRaises, EndBatch, NextPacket, Abandon
<1>8. Goal
  BY <1>2, <1>3, <1>4, <1>5, <1>6, <1>7 DEF Next
<1>. QED  BY <1>8

LEMMA HeadIsFirst ==
  ASSUME TypeOK, HandshakeInv, PlacesInv, socketOpen, connState = "NEW", pc = "check",
         packets # <<>>, Head(packets).kind = "hello"
  PROVE  Head(packets).id = 1
<1> USE DEF PlacesInv
<1>1. packets \in Seq(Packet) /\ sent \in Nat /\ Range(remaining) = {}
      /\ Range(unprocessed) = {}
  BY DEF TypeOK, BatchIsAlone, HelloIsFirst, Range
<1>2. /\ Range(packets) = {Head(packets)} \union Range(Tail(packets))
      /\ \A q \in Range(Tail(packets)) :
            Head(packets).id # 0 /\ q.id # 0 => Head(packets).id < q.id
  BY <1>1, TailPackets DEF InOneLine
<1>3. Head(packets) \in Waiting /\ Head(packets).id \in Nat
  BY <1>2, WaitingPackets DEF Waiting
<1>4. Head(packets).id # 0 /\ Head(packets).id <= sent
  BY <1>3 DEF NumbersGiven
<1>5. HasPacket(1)
  BY <1>1, <1>3, <1>4 DEF AllThere
<1>6. PICK p \in Waiting : p.id = 1
  BY <1>5 DEF HasPacket, HelloIsFirst, Lost
<1>7. CASE p \in Range(Tail(packets))
  BY <1>2, <1>3, <1>4, <1>6, <1>7
<1>8. CASE p \in Range(wire)
  BY <1>2, <1>3, <1>4, <1>6, <1>8 DEF InOneLine, Before
<1>. QED  BY <1>1, <1>2, <1>6, <1>7, <1>8 DEF Waiting

LEMMA NextHelloIsFirst ==
  ASSUME TypeOK, HandshakeInv, PlacesInv, [Next]_vars
  PROVE  HelloIsFirst'
<1> USE DEF PlacesInv
<1>1. ASSUME connState' = "NEW"
      PROVE  unprocessed' = <<>> /\ Gathered' = {} /\ dispatched' = <<>> /\ lost' = {}
  <2>1. /\ unprocessed = <<>> /\ Gathered = {} /\ dispatched = <<>> /\ pc # "route"
        /\ lost = {}
    BY <1>1, StepsOfConnection DEF HelloIsFirst, HandshakeInv, RoutedIsNegotiated
  <2>0. lost' = {}
    BY <2>1, LostAfter DEF Gathered, RouteRaises
  <2>2. CASE Kept
    BY <2>0, <2>1, <2>2, GatheredAfter DEF Kept
  <2>3. CASE (\E k \in Kinds : SwitchSends(k)) \/ SwitchAnswersEcho \/ Read \/ EndBatch
    <3>1. unprocessed' = unprocessed \/ unprocessed' = <<>>
      BY <2>3 DEF SwitchSends, SwitchAnswersEcho, Read, StartRawIn, EndBatch, loopVars
    <3>. QED  BY <2>0, <2>1, <2>3, <3>1, GatheredAfter
  <2>4. CASE Abandon /\ UNCHANGED <<assembling, dispatched>>
    BY <2>0, <2>1, <2>4, GatheredAfter DEF Abandon
  <2>5. CASE RouteDeferred \/ RouteMultipart \/ RouteMessage \/ RouteRaises
    BY <2>1, <2>5 DEF RouteDeferred, RouteMultipart, RouteMessage, RouteRaises
  <2>6. CASE SetSetup
    BY <1>1, <2>6 DEF SetSetup
  <2>7. ~ \E p \in assembling : ProcessMultipart(p) \/ ProcessRaises(p)
    BY <2>1 DEF Gathered
  <2>. QED  BY <2>2, <2>3, <2>4, <2>5, <2>6, <2>7, StepsOfPackets
<1>2. ASSUME socketOpen', pc' \in {"hello", "features", "setup"}
      PROVE  Head(packets').id = 1
  BY <1>2, StepsOfConnection, HeadIsFirst DEF HelloIsFirst
<1>. QED  BY <1>1, <1>2 DEF HelloIsFirst

\* A packet is somewhere as long as it is kept, moved or handed over.
LEMMA StillThere ==
  ASSUME TypeOK, LineInv, GatheredOnce, LostOnce, DeadIsClosed, socketOpen, [Next]_vars,
         NEW n \in Nat \ {0}
  PROVE  \/ /\ HasPacket(n)' <=> HasPacket(n)
            /\ sent' = sent
         \/ /\ HasPacket(n)' <=> HasPacket(n) \/ n = sent + 1
            /\ sent' = sent + 1
         \/ SetSetup
         \/ Abandon /\ ~Alive'
<1> USE DEF HasPacket, LineInv
<1> DEFINE Handed(d) == \E i \in DOMAIN d : d[i].id = n
<1>1. \A p \in Packet : p.id \in Nat
  BY DEF Packet
<1>2. CASE Kept \/ Read \/ RouteDeferred \/ EndBatch
  <2>1. Waiting' = Waiting /\ Gathered' = Gathered /\ dispatched' = dispatched
        /\ sent' = sent
    BY <1>2, WaitingAfter, GatheredAfter
    DEF Kept, Read, StartRawIn, RouteDeferred, EndBatch, inVars
  <2>2. Lost' = Lost
    BY <1>2 DEF Kept, Read, StartRawIn, RouteDeferred, EndBatch, Lost
  <2>. QED  BY <2>1, <2>2
<1>3. CASE \E k \in Kinds : SwitchSends(k)
  <2>1. PICK k \in Kinds : SwitchSends(k)
    BY <1>3
  <2>2. Waiting' = Waiting \union {[id |-> sent + 1, kind |-> k]} /\ sent' = sent + 1
    BY <2>1, WaitingAfter DEF SwitchSends
  <2>3. Gathered' = Gathered /\ dispatched' = dispatched /\ Lost' = Lost
    BY <1>3, GatheredAfter DEF SwitchSends, Lost
  <2>4. PICK p : p.id = sent + 1 /\ Waiting' = Waiting \union {p}
    BY <2>2
  <2>5. (\E q \in Waiting' \union Gathered' : q.id = n)
           <=> (\E q \in Waiting \union Gathered : q.id = n) \/ n = sent + 1
    BY <2>3, <2>4
  <2>. QED  BY <2>2, <2>3, <2>5
<1>4. CASE SwitchAnswersEcho
  <2>1. Waiting' = Waiting \union {[id |-> 0, kind |-> "echo_reply"]} /\ sent' = sent
    BY <1>4, WaitingAfter DEF SwitchAnswersEcho
  <2>2. Gathered' = Gathered /\ dispatched' = dispatched /\ Lost' = Lost
    BY <1>4, GatheredAfter DEF SwitchAnswersEcho, Lost
  <2>. QED  BY <2>1, <2>2
<1>5. CASE RouteMultipart
  <2>1. Leaves /\ pc # "idle"
    BY <1>5 DEF RouteMultipart, NextPacket, Leaves, TypeOK, inVars
  <2>2. Lost' = Lost
    BY <1>5 DEF RouteMultipart, Lost
  <2>. QED  BY <1>5, <2>1, <2>2, HeadLeaves, GatheredAfter DEF Leaves
<1>6. ASSUME NEW p \in Packet, Dispatch(p)
      PROVE  Handed(dispatched') <=> Handed(dispatched) \/ p.id = n
  <2>1. CASE p.id = 0
    BY <1>6, <2>1 DEF Dispatch
  <2>2. CASE p.id # 0
    <3>1. dispatched' = Append(dispatched, p) /\ dispatched \in Seq(Packet)
      BY <1>6, <2>2 DEF Dispatch, TypeOK
    <3>2. Len(dispatched') = Len(dispatched) + 1 /\ Len(dispatched) \in Nat
      BY <1>6, <3>1, AppendProperties
    <3>3. dispatched' # dispatched
      BY <3>2
    <3>. QED  BY <1>6, <3>3, DispatchedAfter
  <2>. QED  BY <2>1, <2>2
<1>7. Alive
  BY DEF Alive, DeadIsClosed
<1>8. CASE RouteMessage
  <2>1. Leaves /\ pc # "idle" /\ Head(packets) \in Packet
    BY <1>8, Routed
  <2>2. Dispatch(Head(packets))
    BY <1>7, <1>8, Zenon DEF RouteMessage
  <2>3. Handed(dispatched') <=> Handed(dispatched) \/ Head(packets).id = n
    BY <1>6, <2>1, <2>2
  <2>4. Waiting = Waiting' \union {Head(packets)} /\ Gathered' = Gathered /\ sent' = sent
    BY <1>8, <2>1, HeadLeaves, GatheredAfter DEF Leaves
  <2>5. Lost' = Lost
    BY <1>8 DEF RouteMessage, Lost
  <2>. QED  BY <2>3, <2>4, <2>5
<1>9. ASSUME NEW p \in assembling, ProcessMultipart(p)
      PROVE  (HasPacket(n)' <=> HasPacket(n)) /\ sent' = sent
  <2>1. p \in Packet /\ Gathered' = Gathered \ {p} /\ sent' = sent /\ p \in Gathered
    BY <1>9, Processed DEF Gathered
  <2>2. Dispatch(p)
    BY <1>7, <1>9, Zenon DEF ProcessMultipart
  <2>3. Handed(dispatched') <=> Handed(dispatched) \/ p.id = n
    BY <1>6, <2>1, <2>2
  <2>4. Waiting' = Waiting
    BY <1>9, WaitingAfter
  <2>5. Lost' = Lost
    BY <1>9 DEF ProcessMultipart, Lost
  <2>. QED  BY <2>1, <2>3, <2>4, <2>5
<1>10. CASE RouteRaises
  <2>1. /\ Head(packets) \in Packet /\ Dispatch(Head(packets)) /\ sent' = sent
        /\ Gathered' = assembling
        /\ Waiting = {Head(packets)} \union Range(Tail(packets)) \union Range(unprocessed)
                        \union Waiting'
        /\ lost' = Lose(Behind, Head(packets))
    BY <1>10, RaisedInLoop
  <2>2. Handed(dispatched') <=> Handed(dispatched) \/ Head(packets).id = n
    BY <1>6, <2>1
  <2>3. Lost' = Lost \union {q \in Behind : q.id # 0}
    BY <2>1, LoseAll
  <2>4. Waiting \union Gathered = {Head(packets)} \union Behind \union Waiting' \union Gathered'
    BY <2>1 DEF Behind, Gathered
  <2>5. (\E q \in Waiting \union Gathered \union Lost : q.id = n)
           <=> \/ Head(packets).id = n
               \/ \E q \in Waiting' \union Gathered' \union Lost' : q.id = n
    BY <2>3, <2>4
  <2>. QED  BY <2>1, <2>2, <2>5
<1>11. ASSUME NEW p \in assembling, ProcessRaises(p)
       PROVE  (HasPacket(n)' <=> HasPacket(n)) /\ sent' = sent
  <2>1. PICK s \in tasks : /\ s \subseteq Gathered /\ Gathered' = Gathered \ s
                          /\ Waiting' = Waiting
                          /\ dispatched' = dispatched /\ sent' = sent
                          /\ lost' = Lose(s, p)
    BY <1>11, RaisedBehind
  <2>2. Lost' = Lost \union {q \in s : q.id # 0}
    BY <2>1, LoseAll
  <2>. QED  BY <2>1, <2>2
<1>. QED  BY <1>2, <1>3, <1>4, <1>5, <1>8, <1>9, <1>10, <1>11, StepsOfPackets

LEMMA NextAllThere ==
  ASSUME TypeOK, HandshakeInv, PlacesInv, [Next]_vars
  PROVE  AllThere'
<1> USE DEF PlacesInv, LineInv
<1>1. SUFFICES ASSUME socketOpen'
               PROVE  /\ \A n \in 1 .. sent' :
                            HasPacket(n)' <=> ~(n = 1 /\ connState' # "NEW")
                      /\ connState' # "NEW" => sent' > 0
  BY DEF AllThere
<1>2. /\ socketOpen /\ sent \in Nat
      /\ \A n \in 1 .. sent : HasPacket(n) <=> ~(n = 1 /\ connState # "NEW")
      /\ connState # "NEW" => sent > 0
  BY <1>1, StepsOfConnection DEF AllThere, TypeOK
<1>3. /\ connState' = "NEW" => connState = "NEW"
      /\ connState' = connState \/ SetSetup \/ connState # "NEW"
  BY <1>1, StepsOfConnection
<1>4. ~(Abandon /\ ~Alive')
  <2>1. DeadIsClosed'
    BY NextInv DEF HandshakeInv
  <2>. QED  BY <1>1, <2>1 DEF DeadIsClosed, Alive
<1>5. CASE ~SetSetup
  <2>1. ASSUME NEW n \in Nat \ {0}
        PROVE  \/ (HasPacket(n)' <=> HasPacket(n)) /\ sent' = sent
               \/ (HasPacket(n)' <=> HasPacket(n) \/ n = sent + 1) /\ sent' = sent + 1
    BY <1>2, <1>4, <1>5, StillThere DEF HandshakeInv
  <2>2. sent' = sent \/ sent' = sent + 1
    BY <2>1
  <2>3. connState' # "NEW" <=> connState # "NEW"
    BY <1>3, <1>5
  <2>4. ASSUME NEW n \in 1 .. sent'
        PROVE  HasPacket(n)' <=> ~(n = 1 /\ connState # "NEW")
    <3>1. CASE n \in 1 .. sent
      <4>1. HasPacket(n)' <=> HasPacket(n)
        BY <1>2, <2>1, <3>1
      <4>. QED  BY <1>2, <3>1, <4>1
    <3>2. CASE n \notin 1 .. sent
      <4>1. n = sent + 1 /\ sent' = sent + 1 /\ n \in Nat \ {0} /\ sent' # sent
        BY <1>2, <2>2, <3>2
      <4>2. HasPacket(n)'
        BY <2>1, <4>1
      <4>. QED  BY <1>2, <4>1, <4>2
    <3>. QED  BY <3>1, <3>2
  <2>. QED  BY <1>2, <2>2, <2>3, <2>4
<1>6. CASE SetSetup
  <2>1. /\ Leaves /\ pc = "setup" /\ connState' = "SETUP" /\ sent' = sent
    BY <1>6 DEF SetSetup, NextPacket, Leaves, TypeOK, inVars
  <2>2. connState = "NEW"
    BY <1>2, <2>1 DEF HandshakeInv, NegotiationIsEarly, Negotiating, DeadIsClosed
  <2>3. Head(packets).id = 1
    BY <1>2, <2>1 DEF HelloIsFirst
  <2>4. /\ Waiting = Waiting' \union {Head(packets)}
        /\ \A q \in Waiting' : q.id # 1
    BY <2>1, <2>3, HeadLeaves
  <2>5. Gathered' = {} /\ dispatched' = <<>>
    BY <1>6, <2>2, GatheredAfter DEF HelloIsFirst
  <2>6. Gathered = {} /\ dispatched = <<>> /\ Lost = {} /\ Lost' = {}
    BY <1>6, <2>2 DEF HelloIsFirst, Lost, SetSetup
  <2>7. 1 <= sent
    BY <2>3, <2>4 DEF NumbersGiven
  <2>. QED  BY <1>2, <2>1, <2>2, <2>3, <2>4, <2>5, <2>6, <2>7 DEF HasPacket
<1>. QED  BY <1>5, <1>6

-------------------------------------------------------------------------------
LEMMA InitPlaces == Init => PlacesInv
<1>1. SUFFICES ASSUME Init PROVE PlacesInv
  OBVIOUS
<1>2. /\ Waiting = {} /\ Gathered = {} /\ Lost = {} /\ dispatched = <<>> /\ sent = 0
      /\ Range(<<>>) = {} /\ Ordered(<<>>)
  BY <1>1 DEF Init, Waiting, Gathered, Lost, Range, Ordered
<1>3. TasksApart /\ LostOnce
  BY <1>1, <1>2 DEF Init, TasksApart, LostOnce
<1>. QED
  BY <1>1, <1>2, <1>3
  DEF PlacesInv, Init, InOneLine, BatchIsAlone, NumbersGiven, HandedOverOnce, GatheredOnce,
      UndeferredIsNext, HelloIsFirst, AllThere, Before

LEMMA NextPlaces == TypeOK /\ HandshakeInv /\ PlacesInv /\ [Next]_vars => PlacesInv'
  BY NextBatchIsAlone, NextNumbersGiven, NextInOneLine, NextHandedOverOnce,
     NextGatheredOnce, NextLostOnce, NextUndeferredIsNext, NextHelloIsFirst,
     NextAllThere
  DEF PlacesInv, LineInv

\* PlacesInv is an invariant, whatever the switch sends, whatever the reads
\* cut, whichever thread runs next, and whatever handler raises (on_raw_in, its
\* deferral, and process_multipart_messages).
THEOREM PlacesInvariant == Spec => []PlacesInv
<1>1. Init => PlacesInv
  BY InitPlaces
<1>2. TypeOK /\ HandshakeInv /\ PlacesInv /\ [Next]_vars => PlacesInv'
  BY NextPlaces
<1>. QED  BY <1>1, <1>2, TypeCorrect, HandshakeInvariant, PTL DEF Spec

-------------------------------------------------------------------------------
(* What follows from it.                                                   *)

\* A number that only one packet has is counted once.
LEMMA CountInSequence ==
  ASSUME NEW s, NEW id, \A i, j \in DOMAIN s : s[i].id = id /\ s[j].id = id => i = j
  PROVE  Cardinality({i \in DOMAIN s : s[i].id = id})
           = IF \E p \in Range(s) : p.id = id THEN 1 ELSE 0
<1> DEFINE S == {i \in DOMAIN s : s[i].id = id}
<1>1. CASE \E p \in Range(s) : p.id = id
  <2>1. PICK i \in DOMAIN s : s[i].id = id
    BY <1>1 DEF Range
  <2>2. S = {i}
    BY <2>1
  <2>. QED  BY <1>1, <2>2, FS_Singleton
<1>2. CASE ~ \E p \in Range(s) : p.id = id
  <2>1. S = {}
    BY <1>2 DEF Range
  <2>. QED  BY <1>2, <2>1, FS_EmptySet
<1>. QED  BY <1>1, <1>2

LEMMA CountInSet ==
  ASSUME NEW S, NEW id, \A p, q \in S : p.id = id /\ q.id = id => p = q
  PROVE  Cardinality({p \in S : p.id = id}) = IF \E p \in S : p.id = id THEN 1 ELSE 0
<1>1. CASE \E p \in S : p.id = id
  <2>1. PICK p \in S : p.id = id
    BY <1>1
  <2>2. {q \in S : q.id = id} = {p}
    BY <2>1
  <2>. QED  BY <1>1, <2>2, FS_Singleton
<1>2. CASE ~ \E p \in S : p.id = id
  <2>1. {p \in S : p.id = id} = {}
    BY <1>2
  <2>. QED  BY <1>2, <2>1, FS_EmptySet
<1>. QED  BY <1>1, <1>2

LEMMA PlacesAreOne ==
  ASSUME TypeOK, PlacesInv, NEW id \in 1 .. sent
  PROVE  Places(id) = IF HasPacket(id) THEN 1 ELSE 0
<1> USE DEF PlacesInv
<1> DEFINE Of(s) == \E p \in Range(s) : p.id = id
           In(S) == \E p \in S : p.id = id
           Count(b) == IF b THEN 1 ELSE 0
<1>1. /\ wire \in Seq(Packet) /\ remaining \in Seq(Packet) /\ packets \in Seq(Packet)
      /\ unprocessed \in Seq(Packet) /\ dispatched \in Seq(Packet)
      /\ id \in Nat \ {0}
  BY DEF TypeOK
<1>2. /\ Cardinality({i \in DOMAIN wire : wire[i].id = id}) = Count(Of(wire))
      /\ Cardinality({i \in DOMAIN remaining : remaining[i].id = id}) = Count(Of(remaining))
      /\ Cardinality({i \in DOMAIN packets : packets[i].id = id}) = Count(Of(packets))
      /\ Cardinality({i \in DOMAIN unprocessed : unprocessed[i].id = id})
           = Count(Of(unprocessed))
  <2>1. ASSUME NEW s \in Seq(Packet), Ordered(s)
        PROVE  Cardinality({i \in DOMAIN s : s[i].id = id}) = Count(Of(s))
    <3>1. \A i, j \in DOMAIN s : s[i].id = id /\ s[j].id = id => i = j
      BY <1>1, <2>1, OrderedIsOnce
    <3>. QED  BY <3>1, CountInSequence, Zenon
  <2> HIDE DEF Of
  <2>. QED  BY <1>1, <2>1 DEF InOneLine
<1>3. Cardinality({i \in DOMAIN dispatched : dispatched[i].id = id}) = Count(Of(dispatched))
  <2>1. \A i, j \in DOMAIN dispatched :
           dispatched[i].id = id /\ dispatched[j].id = id => i = j
    BY DEF HandedOverOnce
  <2>. QED  BY <2>1, CountInSequence, Zenon
<1>4. /\ Cardinality({p \in multipart : p.id = id}) = Count(In(multipart))
      /\ Cardinality({p \in assembling : p.id = id}) = Count(In(assembling))
  BY CountInSet, ZenonT(40) DEF GatheredOnce, Gathered
<1>12. Cardinality({l \in lost : l.packet.id = id}) = Count(In(Lost))
  <2>1. CASE \E l \in lost : l.packet.id = id
    <3>1. PICK l \in lost : l.packet.id = id
      BY <2>1
    <3>2. {k \in lost : k.packet.id = id} = {l}
      BY <3>1 DEF LostOnce
    <3>3. In(Lost)
      BY <3>1 DEF Lost
    <3>. QED  BY <3>2, <3>3, FS_Singleton
  <2>2. CASE ~ \E l \in lost : l.packet.id = id
    <3>1. {l \in lost : l.packet.id = id} = {}
      BY <2>2
    <3>2. ~In(Lost)
      BY <2>2 DEF Lost
    <3>. QED  BY <3>1, <3>2, FS_EmptySet
  <2>. QED  BY <2>1, <2>2
<1>5. Places(id) = Count(Of(wire)) + Count(Of(remaining)) + Count(Of(packets))
                   + Count(Of(unprocessed)) + Count(In(multipart)) + Count(In(assembling))
                   + Count(Of(dispatched)) + Count(In(Lost))
  BY <1>2, <1>3, <1>4, <1>12 DEF Places
<1>6. /\ ~(Of(unprocessed) /\ Of(packets)) /\ ~(Of(unprocessed) /\ Of(wire))
      /\ ~(Of(packets) /\ Of(wire)) /\ ~(Of(remaining) /\ Of(wire))
  <2>1. ASSUME NEW s, NEW t, Before(s, t), Of(s), Of(t) PROVE FALSE
    <3>1. PICK p \in Range(s), q \in Range(t) : p.id = id /\ q.id = id
      BY <2>1
    <3>2. id < id
      BY <1>1, <2>1, <3>1 DEF Before
    <3>. QED  BY <1>1, <3>2
  <2> HIDE DEF Of
  <2>. QED  BY <2>1 DEF InOneLine
<1>7. ~(Of(remaining) /\ Of(packets)) /\ ~(Of(remaining) /\ Of(unprocessed))
  <2>1. ~Of(<<>>)
    BY DEF Range
  <2> HIDE DEF Of
  <2>. QED  BY <2>1 DEF BatchIsAlone
<1>8. In(multipart) => ~(Of(wire) \/ Of(remaining) \/ Of(packets) \/ Of(unprocessed))
                       /\ ~In(assembling)
  BY DEF GatheredOnce, Gathered, Waiting
<1>9. In(assembling) => ~(Of(wire) \/ Of(remaining) \/ Of(packets) \/ Of(unprocessed))
  BY DEF GatheredOnce, Gathered, Waiting
<1>10. Of(dispatched) => ~(Of(wire) \/ Of(remaining) \/ Of(packets) \/ Of(unprocessed)
                           \/ In(multipart) \/ In(assembling))
  BY DEF HandedOverOnce, Gathered, Waiting, Range
<1>13. In(Lost) => ~(Of(wire) \/ Of(remaining) \/ Of(packets) \/ Of(unprocessed)
                     \/ In(multipart) \/ In(assembling) \/ Of(dispatched))
  <2>1. In(Lost) => ~Of(dispatched)
    BY DEF HandedOverOnce, Range
  <2>2. In(Lost) => ~(Of(wire) \/ Of(remaining) \/ Of(packets) \/ Of(unprocessed)
                      \/ In(multipart) \/ In(assembling))
    BY DEF LostOnce, Gathered, Waiting
  <2>. QED  BY <2>1, <2>2
<1>11. HasPacket(id) <=> Of(wire) \/ Of(remaining) \/ Of(packets) \/ Of(unprocessed)
                         \/ In(multipart) \/ In(assembling) \/ Of(dispatched)
                         \/ In(Lost)
  BY DEF HasPacket, Waiting, Gathered, Range
<1> HIDE DEF Of, In
<1>. QED  BY <1>5, <1>6, <1>7, <1>8, <1>9, <1>10, <1>11, <1>13

\* While a connection lives, every packet the switch sent is on its way,
\* deferred, in a batch, gathered, handed over, or lost with a task that raised,
\* at exactly one of these places; only the hello that opened the connection is
\* used up.  A message that raises takes what was deferred, gathered or came
\* behind it, a multipart reply that raises other multipart replies.
THEOREM NothingIsLost == Spec => []NothingLost
<1>1. TypeOK /\ PlacesInv => NothingLost
  <2>1. ASSUME TypeOK, PlacesInv, Alive, NEW id \in 1 .. sent
        PROVE  Places(id) = IF id = 1 /\ connState # "NEW" THEN 0 ELSE 1
    <3>1. HasPacket(id) <=> ~(id = 1 /\ connState # "NEW")
      BY <2>1 DEF PlacesInv, AllThere, Alive
    <3>. QED  BY <2>1, <3>1, PlacesAreOne
  <2>2. PlacesInv => \A l \in lost : LostBehind(l)
    BY DEF PlacesInv, LostOnce
  <2>. QED  BY <2>1, <2>2 DEF NothingLost
<1>. QED  BY <1>1, TypeCorrect, PlacesInvariant, PTL

LEMMA NextReordered ==
  ASSUME TypeOK, PlacesInv, OnlyDeferredReordered, [Next]_vars
  PROVE  OnlyDeferredReordered'
<1> USE DEF PlacesInv, LineInv
<1>1. CASE dispatched' = dispatched /\ deferredOnce \subseteq deferredOnce'
  BY <1>1 DEF OnlyDeferredReordered
<1>2. ASSUME NEW p \in Packet, Dispatch(p) \/ NotDispatched, deferredOnce' = deferredOnce,
             p.kind # "multipart_reply" /\ p.id # 0 /\ p.id \notin deferredOnce =>
                \A i \in DOMAIN dispatched :
                   dispatched[i].kind # "multipart_reply" => dispatched[i].id < p.id
      PROVE  OnlyDeferredReordered'
  <2>1. CASE dispatched' = dispatched
    BY <1>1, <1>2, <2>1
  <2>2. CASE dispatched' # dispatched
    <3>1. /\ DOMAIN dispatched' = DOMAIN dispatched \union {Len(dispatched) + 1}
          /\ DOMAIN dispatched = 1 .. Len(dispatched) /\ Len(dispatched) \in Nat
          /\ \A i \in DOMAIN dispatched : dispatched'[i] = dispatched[i]
          /\ dispatched'[Len(dispatched) + 1] = p /\ p.id # 0
      BY <1>2, <2>2, DispatchedAfter
    <3>2. /\ p.id \in Nat
          /\ \A i \in DOMAIN dispatched : dispatched[i].id \in Nat
      <4>1. \A i \in DOMAIN dispatched : dispatched[i] \in Packet
        BY ElementOfSeq DEF TypeOK
      <4>. QED  BY <1>2, <4>1 DEF Packet
    <3>3. SUFFICES ASSUME NEW i \in DOMAIN dispatched', NEW j \in DOMAIN dispatched', i < j,
                          dispatched'[i].kind # "multipart_reply",
                          dispatched'[j].kind # "multipart_reply",
                          dispatched'[i].id > dispatched'[j].id
                   PROVE  dispatched'[j].id \in deferredOnce
      BY <1>2 DEF OnlyDeferredReordered
    <3>4. i \in DOMAIN dispatched
      BY <3>1, <3>3
    <3>5. CASE j \in DOMAIN dispatched
      BY <3>1, <3>3, <3>4, <3>5 DEF OnlyDeferredReordered
    <3>6. CASE j = Len(dispatched) + 1
      BY <1>2, <3>1, <3>2, <3>3, <3>4, <3>6
    <3>. QED  BY <3>1, <3>5, <3>6
  <2>. QED  BY <2>1, <2>2
<1>3. CASE RouteMessage
  <2>1. /\ Leaves /\ pc # "idle" /\ Head(packets) \in Packet
        /\ Dispatch(Head(packets)) \/ NotDispatched
        /\ deferredOnce' = deferredOnce
    BY <1>3, Routed DEF RouteMessage
  <2>2. Head(packets) \in Waiting
    BY <2>1, HeadLeaves
  <2>. QED  BY <1>2, <2>1, <2>2 DEF UndeferredIsNext
<1>4. ASSUME NEW p \in assembling, ProcessMultipart(p)
      PROVE  OnlyDeferredReordered'
  <2>1. /\ p \in Packet /\ p.kind = "multipart_reply" /\ (Dispatch(p) \/ NotDispatched)
        /\ deferredOnce' = deferredOnce
    BY <1>4, Processed DEF GatheredOnce, Gathered, ProcessMultipart
  <2>. QED  BY <1>2, <2>1
<1>8. CASE RouteRaises
  <2>1. /\ Head(packets) \in Packet /\ Head(packets) \in Waiting
        /\ Dispatch(Head(packets)) /\ deferredOnce' = deferredOnce
    BY <1>8, RaisedInLoop DEF RouteRaises
  <2>. QED  BY <1>2, <2>1 DEF UndeferredIsNext
<1>9. CASE \E p \in assembling : ProcessRaises(p)
  BY <1>1, <1>9 DEF ProcessRaises, NotDispatched
<1>5. CASE Kept \/ (Abandon /\ UNCHANGED <<dispatched, deferredOnce>>)
  BY <1>1, <1>5 DEF Kept
<1>6. CASE (\E k \in Kinds : SwitchSends(k)) \/ SwitchAnswersEcho \/ Read \/ EndBatch
  BY <1>1, <1>6 DEF SwitchSends, SwitchAnswersEcho, Read, StartRawIn, EndBatch
<1>7. CASE RouteDeferred \/ RouteMultipart \/ SetSetup
  <2>1. dispatched' = dispatched
    BY <1>7, GatheredAfter
  <2>2. deferredOnce \subseteq deferredOnce'
    BY <1>7 DEF RouteDeferred, RouteMultipart, SetSetup
  <2>. QED  BY <1>1, <2>1, <2>2
<1>. QED  BY <1>3, <1>4, <1>5, <1>6, <1>7, <1>8, <1>9, StepsOfPackets

\* Messages are handed over in the order in which the switch sent them,
\* multipart replies aside, unless the later-delivered one was deferred.
THEOREM OrderKept == Spec => []OnlyDeferredReordered
<1>1. Init => OnlyDeferredReordered
  BY DEF Init, OnlyDeferredReordered
<1>2. TypeOK /\ PlacesInv /\ OnlyDeferredReordered /\ [Next]_vars => OnlyDeferredReordered'
  BY NextReordered
<1>. QED  BY <1>1, <1>2, TypeCorrect, PlacesInvariant, PTL DEF Spec

-------------------------------------------------------------------------------
(* Part 3.  A switch is greeted before it is asked for its features, one   *)
(* thread at most concludes the handshake, and a connection is a session of*)
(* ConnectionPhases, step by step.                                         *)

\* A count after a message is queued, sent, or a handler has taken a step.
LEMMA QueueCount ==
  ASSUME TypeOK, NEW k \in OutKinds, NEW j \in OutKinds
  PROVE  Queue(msgOut, k)[j] = IF j = k THEN msgOut[j] + 1 ELSE msgOut[j]
  BY DEF Queue, TypeOK

LEMMA MoveCount ==
  ASSUME TypeOK, NEW a \in ReplySteps, NEW b \in ReplySteps, a # b
  PROVE  /\ Move(a, b)[a] = replies[a] - 1 /\ Move(a, b)[b] = replies[b] + 1
         /\ \A s \in ReplySteps \ {a, b} : Move(a, b)[s] = replies[s]
  BY DEF Move, TypeOK

LEMMA LeaveCount ==
  ASSUME TypeOK, NEW a \in ReplySteps
  PROVE  /\ Leave(a)[a] = replies[a] - 1
         /\ \A s \in ReplySteps \ {a} : Leave(a)[s] = replies[s]
  BY DEF Leave, TypeOK

\* The counts that the invariant speaks of.
LEMMA Counted ==
  ASSUME TypeOK
  PROVE  /\ \A s \in ReplySteps : replies[s] \in Nat
         /\ \A k \in OutKinds : msgOut[k] \in Nat
         /\ asked["features_request"] \in Nat
         /\ Requests \in Nat /\ Answers \in Nat /\ completed \in Nat
<1>1. /\ \A s \in ReplySteps : replies[s] \in Nat
      /\ \A k \in OutKinds : msgOut[k] \in Nat
      /\ \A k \in Asking : asked[k] \in Nat
      /\ completed \in Nat
  BY DEF TypeOK
<1>. QED  BY <1>1, OutMembers, StepMembers DEF Requests, Answers

\* The handshake is completed by ReplyConcludes alone, and on a connection
\* that is past its negotiation.
LEMMA CompleteIsLate ==
  ASSUME TypeOK, HandshakeInv, Complete
  PROVE  connState # "NEW" /\ ~Negotiating
  BY DEF HandshakeInv, NewIsUntouched, NegotiationIsEarly, RoutedIsNegotiated,
         Negotiating, Complete, TypeOK, LoopSteps

-------------------------------------------------------------------------------
LEMMA NextGreetedFirst ==
  ASSUME TypeOK, HandshakeInv, GreetedFirst, [Next]_vars
  PROVE  GreetedFirst'
<1> USE DEF connVars, inVars, loopVars, outVars, threadVars, appVars
<1>1. msgOut \in [OutKinds -> Nat] /\ {"hello", "features_request"} \subseteq OutKinds
  BY OutMembers DEF TypeOK
<1>2. CASE /\ written' = written
           /\ socketOpen' => /\ Greeted => Greeted'
                             /\ socketOpen
                             /\ connState' # "NEW" => connState # "NEW" \/ Greeted
                             /\ pc' \in {"features", "setup"}
                                  => pc \in {"features", "setup"} \/ Greeted'
                             /\ msgOut'["features_request"] > 0
                                  => msgOut["features_request"] > 0 \/ Greeted
  BY <1>2 DEF GreetedFirst, HelloFirst
<1>3. ASSUME NEW k \in OutKinds, msgOut' = Queue(msgOut, k), k # "features_request",
             UNCHANGED <<written, socketOpen, connState, pc>>
      PROVE  GreetedFirst'
  <2>1. msgOut'["features_request"] = msgOut["features_request"]
        /\ msgOut'["hello"] \in {msgOut["hello"], msgOut["hello"] + 1}
        /\ msgOut["hello"] \in Nat
    BY <1>1, <1>3, QueueCount
  <2>2. Greeted => Greeted'
    BY <1>3, <2>1 DEF Greeted
  <2>. QED  BY <1>2, <1>3, <2>1, <2>2
<1>4. CASE UNCHANGED <<written, socketOpen, connState, pc, msgOut>>
  BY <1>2, <1>4 DEF Greeted
<1>5. ASSUME NEW k \in OutKinds, SendOut(k) PROVE GreetedFirst'
  <2>1. /\ msgOut' = [msgOut EXCEPT ![k] = @ - 1] /\ msgOut[k] > 0
        /\ written' = IF Alive THEN written \union {k} ELSE written
        /\ UNCHANGED <<socketOpen, connState, pc>>
    BY <1>5 DEF SendOut
  <2>2. msgOut'["features_request"] > 0 => msgOut["features_request"] > 0
    BY <1>1, <2>1
  <2>3. Alive /\ Greeted => Greeted'
    <3>1. CASE k = "hello"
      BY <2>1, <3>1 DEF Greeted
    <3>2. CASE k # "hello"
      BY <1>1, <2>1, <3>2 DEF Greeted
    <3>. QED  BY <3>1, <3>2
  <2>4. socketOpen => Alive
    BY DEF HandshakeInv, DeadIsClosed, Alive
  <2>5. HelloFirst'
    <3>1. CASE Alive /\ k = "features_request"
      <4>1. Greeted
        BY <2>1, <3>1 DEF GreetedFirst, Alive
      <4>2. msgOut["hello"] > 0 => Prio["features_request"] <= Prio["hello"]
        BY <1>1, <1>5, <3>1 DEF SendOut
      <4>3. Prio["features_request"] = 1 /\ Prio["hello"] = 0
        BY <1>1 DEF Prio
      <4>. QED  BY <2>1, <4>1, <4>2, <4>3 DEF HelloFirst, Greeted
    <3>2. CASE ~(Alive /\ k = "features_request")
      BY <2>1, <3>2 DEF HelloFirst, GreetedFirst
    <3>. QED  BY <3>1, <3>2
  <2>. QED  BY <2>1, <2>2, <2>3, <2>4, <2>5 DEF GreetedFirst
<1>6. CASE SayHello
  <2>1. Greeted'
    BY <1>1, <1>6, QueueCount DEF SayHello, Greeted
  <2>2. msgOut'["features_request"] = msgOut["features_request"]
    BY <1>1, <1>6, QueueCount DEF SayHello
  <2>. QED  BY <1>2, <1>6, <2>1, <2>2 DEF SayHello
<1>7. CASE SendFeaturesRequest
  <2>1. socketOpen => Greeted
    BY <1>7 DEF SendFeaturesRequest, GreetedFirst
  <2>2. msgOut'["hello"] = msgOut["hello"]
    BY <1>1, <1>7, QueueCount DEF SendFeaturesRequest
  <2>. QED  BY <1>2, <1>7, <2>1, <2>2 DEF SendFeaturesRequest, Greeted
<1>8. CASE SetSetup
  BY <1>2, <1>8 DEF SetSetup, NextPacket, Greeted, GreetedFirst
<1>9. CASE FailNegotiation \/ CloseFailed \/ RouteUndecodable \/ Close
           \/ ReadSentState \/ WriteSentState
  BY <1>2, <1>9 DEF FailNegotiation, CloseFailed, RouteUndecodable, Close, Abandon,
                    ReadSentState, WriteSentState, Greeted
<1>10. CASE QueueError
  <2>1. msgOut' = msgOut \/ msgOut' = Queue(msgOut, "error")
    BY <1>10 DEF QueueError
  <2>2. msgOut'["features_request"] = msgOut["features_request"]
        /\ msgOut'["hello"] = msgOut["hello"]
    BY <1>1, <2>1, OutMembers, QueueCount
  <2>. QED  BY <1>2, <1>10, <2>2 DEF QueueError, Greeted
<1>11. CASE ReturnIfDead \/ LookAtPacket \/ RouteDeferred \/ RouteMultipart \/ RouteMessage
            \/ RouteRaises \/ EndBatch \/ Read
  <2>1. UNCHANGED <<written, socketOpen, connState, msgOut>>
    BY <1>11 DEF ReturnIfDead, LookAtPacket, RouteDeferred, RouteMultipart, RouteMessage,
                 RouteRaises, EndBatch, Read, StartRawIn
  <2>2. pc' \notin {"features", "setup"}
    BY <1>11 DEF ReturnIfDead, LookAtPacket, RouteDeferred, RouteMultipart, RouteMessage,
                 RouteRaises, EndBatch, Read, StartRawIn, NextPacket, Abandon
  <2>. QED  BY <1>2, <2>1, <2>2 DEF Greeted
<1>12. CASE Switch \/ UNCHANGED vars \/ HandleMultipart
  BY <1>4, <1>12 DEF Switch, SwitchSends, SwitchAnswersEcho, HandleMultipart,
                     ProcessMultipart, ProcessRaises, vars
<1>13. CASE ReplyDuplicated \/ ReplyChecked \/ ReplyConcludes
  BY <1>4, <1>13 DEF ReplyDuplicated, ReplyChecked, ReplyConcludes
<1>14. CASE ReplyEstablishes
  <2>1. connState # "NEW"
    BY <1>14 DEF ReplyEstablishes, HandshakeInv, NewIsUntouched
  <2>. QED  BY <1>2, <1>14, <2>1 DEF ReplyEstablishes, Greeted
<1>15. CASE ReplyBinds
  BY <1>3, <1>15, OutMembers DEF ReplyBinds
<1>16. CASE ReplyAnnounces
  <2> DEFINE out == Queue(msgOut, "multipart_request")
  <2>1. out \in [OutKinds -> Nat] /\ out["features_request"] = msgOut["features_request"]
        /\ out["hello"] = msgOut["hello"]
    BY <1>1, OutMembers, QueueType, QueueCount
  <2>2. msgOut' = [out EXCEPT !["set_config"] = @ + 1]
    BY <1>16 DEF ReplyAnnounces, Queue
  <2>3. msgOut'["features_request"] = msgOut["features_request"]
        /\ msgOut'["hello"] = msgOut["hello"]
    BY <1>1, <2>1, <2>2, OutMembers
  <2>. QED  BY <1>2, <1>16, <2>3 DEF ReplyAnnounces, Greeted
<1>17. CASE AnswerEcho \/ KeepAlive
  <2>1. msgOut' = msgOut \/ msgOut' = Queue(msgOut, "echo_reply")
        \/ msgOut' = Queue(msgOut, "echo_request")
    BY <1>17 DEF AnswerEcho, KeepAlive
  <2>2. UNCHANGED <<written, socketOpen, connState, pc>>
    BY <1>17 DEF AnswerEcho, KeepAlive
  <2>. QED  BY <1>3, <1>4, <2>1, <2>2, OutMembers
<1>18. CASE EchoReplySent
  <2>1. socketOpen => Greeted
    BY <1>18, CompleteIsLate DEF EchoReplySent, HandshakeInv, EchoesAreLate, GreetedFirst
  <2>2. msgOut' = msgOut \/ msgOut' = Queue(msgOut, "features_request")
    BY <1>18 DEF EchoReplySent
  <2>3. msgOut'["hello"] = msgOut["hello"]
    BY <1>1, <2>2, QueueCount
  <2>. QED  BY <1>2, <1>18, <2>1, <2>3 DEF EchoReplySent, Greeted
<1>. QED
  BY <1>5, <1>6, <1>7, <1>8, <1>9, <1>10, <1>11, <1>12, <1>13, <1>14, <1>15, <1>16, <1>17,
     <1>18
  DEF Next, RawInLoop, Negotiation, RequestSent, FeaturesReply

LEMMA NextGatheredEstablished ==
  ASSUME TypeOK, HandshakeInv, PlacesInv, GatheredEstablished, [Next]_vars
  PROVE  GatheredEstablished'
<1> USE DEF PlacesInv, LineInv
<1>1. SUFFICES ASSUME socketOpen', connState' # "ESTABLISHED" PROVE Gathered' = {}
  BY DEF GatheredEstablished
<1>2. socketOpen /\ (connState' = connState \/ SetSetup)
  BY <1>1, StepsOfConnection
<1>3. /\ SetSetup => connState = "NEW"
      /\ connState \notin {"FINISHED", "FAILED"}
  BY <1>2 DEF SetSetup, HandshakeInv, NegotiationIsEarly, Negotiating, DeadIsClosed
<1>4. Gathered = {} /\ connState # "ESTABLISHED"
  BY <1>1, <1>2, <1>3 DEF GatheredEstablished
<1>5. ~RouteMultipart
  <2>1. SUFFICES ASSUME RouteMultipart PROVE FALSE
    OBVIOUS
  <2>2. connState = "SETUP"
    BY <1>3, <1>4, <2>1
    DEF RouteMultipart, HandshakeInv, RoutedIsNegotiated, TypeOK, ConnStates
  <2>. QED
    BY <2>1, <2>2 DEF RouteMultipart, Deferred, DuringSetup, WaitingFeaturesReply
<1>6. ~ \E p \in assembling : ProcessMultipart(p) \/ ProcessRaises(p)
  BY <1>4 DEF Gathered
<1>7. RouteRaises => Gathered' = {}
  BY <1>4 DEF RouteRaises, Abandon, Gathered
<1>. QED  BY <1>4, <1>5, <1>6, <1>7, StepsOfPackets, GatheredAfter

-------------------------------------------------------------------------------
\* What the steps do to the threads of handle_features_reply.
LEMMA RepliesAfter ==
  ASSUME TypeOK, GatheredOnce, [Next]_vars
  PROVE  \/ /\ \A s \in ReplySteps \ {"queued"} : replies'[s] = replies[s]
            /\ completed' = completed
            /\ \/ replies'["queued"] = replies["queued"]
               \/ /\ RouteMessage /\ Head(packets).kind = "features_reply"
                  /\ replies'["queued"] = replies["queued"] + 1
         \/ FeaturesReply
<1> USE DEF connVars, inVars, loopVars, outVars, threadVars, appVars
<1> DEFINE Others == \A s \in ReplySteps \ {"queued"} : replies'[s] = replies[s]
<1>1. CASE replies' = replies /\ completed' = completed
  BY <1>1
<1>2. CASE RouteMessage
  <2>1. completed' = completed
    BY <1>2 DEF RouteMessage
  <2>2. \/ replies' = replies
        \/ /\ Head(packets).kind = "features_reply"
           /\ replies' = [replies EXCEPT !["queued"] = @ + 1]
    <3>1. Dispatch(Head(packets)) \/ NotDispatched
      BY <1>2, Routed
    <3>. QED  BY <3>1 DEF Dispatch, NotDispatched
  <2>3. replies' = [replies EXCEPT !["queued"] = @ + 1]
          => Others /\ replies'["queued"] = replies["queued"] + 1
    BY StepMembers DEF TypeOK
  <2>. QED  BY <1>1, <1>2, <2>1, <2>2, <2>3
<1>3. ASSUME NEW p \in assembling, ProcessMultipart(p)
      PROVE  replies' = replies /\ completed' = completed
  <2>1. p.kind = "multipart_reply"
    BY DEF GatheredOnce, Gathered
  <2>2. completed' = completed
    BY <1>3 DEF ProcessMultipart
  <2>. QED  BY <1>3, <2>1, <2>2 DEF ProcessMultipart, Dispatch, NotDispatched
<1>4. CASE Switch \/ Close \/ (\E k \in OutKinds : SendOut(k)) \/ Read \/ RequestSent
           \/ AnswerEcho \/ EchoReplySent \/ KeepAlive \/ UNCHANGED vars
  BY <1>1, <1>4
  DEF Switch, SwitchSends, SwitchAnswersEcho, Close, SendOut, Read, StartRawIn, RequestSent,
      ReadSentState, WriteSentState, AnswerEcho, EchoReplySent, KeepAlive, vars
<1>6. CASE \E p \in assembling : ProcessRaises(p)
  BY <1>1, <1>6 DEF ProcessRaises, NotDispatched
<1>7. CASE RouteRaises
  <2>1. Dispatch(Head(packets)) /\ Head(packets).kind = "other" /\ completed' = completed
    BY <1>7 DEF RouteRaises
  <2>2. replies' = replies
    BY <2>1 DEF Dispatch
  <2>. QED  BY <1>1, <2>1, <2>2
<1>5. CASE RawInLoop /\ ~RouteMessage /\ ~RouteRaises
  BY <1>1, <1>5
  DEF RawInLoop, ReturnIfDead, LookAtPacket, RouteUndecodable, RouteDeferred, RouteMultipart,
      EndBatch, Negotiation, SayHello, SendFeaturesRequest, SetSetup, FailNegotiation,
      QueueError, CloseFailed, NotDispatched
<1>. QED  BY <1>1, <1>2, <1>3, <1>4, <1>5, <1>6, <1>7 DEF Next, HandleMultipart

\* A thread takes one step, or ends.
LEMMA AnswersAfter ==
  ASSUME TypeOK, GatheredOnce, [Next]_vars
  PROVE  /\ Answers' \in Nat
         /\ \/ Answers' <= Answers
            \/ /\ RouteMessage /\ Head(packets).kind = "features_reply"
               /\ Answers' = Answers + 1
<1>1. /\ {"queued", "bound", "admitted", "completing", "finishing"} \subseteq ReplySteps
      /\ \A s \in ReplySteps : replies[s] \in Nat
  BY StepMembers, Counted
<1>2. CASE ~FeaturesReply
  BY <1>1, <1>2, RepliesAfter DEF Answers
<1>3. CASE ReplyDuplicated
  BY <1>1, <1>3, LeaveCount DEF ReplyDuplicated, Answers
<1>4. CASE ReplyBinds
  BY <1>1, <1>4, MoveCount DEF ReplyBinds, Answers
<1>5. CASE ReplyChecked
  BY <1>1, <1>5, MoveCount, LeaveCount DEF ReplyChecked, Answers
<1>6. CASE ReplyConcludes
  BY <1>1, <1>6, MoveCount DEF ReplyConcludes, Answers
<1>7. CASE ReplyEstablishes
  BY <1>1, <1>7, MoveCount DEF ReplyEstablishes, Answers
<1>8. CASE ReplyAnnounces
  BY <1>1, <1>8, LeaveCount DEF ReplyAnnounces, Answers
<1>. QED  BY <1>2, <1>3, <1>4, <1>5, <1>6, <1>7, <1>8 DEF FeaturesReply

\* The protocol state before the request is left once, and entered again by a
\* negotiation that fails before the request; ReplyConcludes is the only end.
LEMMA ProtoAfter ==
  ASSUME TypeOK, HandshakeInv, [Next]_vars
  PROVE  /\ protoState' \in {"none", "hello_failed"}
              => protoState \in {"none", "hello_failed"}
         /\ Complete' => Complete \/ ReplyConcludes
         /\ Complete => Complete'
<1> USE DEF connVars, Complete
<1>1. CASE protoState' = protoState
  BY <1>1
<1>2. CASE FailNegotiation \/ CloseFailed
  BY <1>2 DEF FailNegotiation, CloseFailed, HandshakeInv, NegotiationIsEarly
<1>3. CASE SendFeaturesRequest \/ WriteSentState
  BY <1>3, CompleteStays DEF SendFeaturesRequest, WriteSentState
<1>4. CASE ReplyConcludes
  BY <1>4 DEF ReplyConcludes
<1>5. CASE /\ ~(FailNegotiation \/ CloseFailed \/ SendFeaturesRequest \/ WriteSentState)
           /\ ~ReplyConcludes
  <2>1. protoState' = protoState
    BY <1>5
    DEF Next, Switch, RawInLoop, Negotiation, RequestSent, FeaturesReply, Read, vars,
        SwitchSends, SwitchAnswersEcho, SendOut, Close, StartRawIn, ReturnIfDead,
        LookAtPacket, RouteUndecodable, RouteDeferred, RouteMultipart, RouteMessage,
        RouteRaises, EndBatch, HandleMultipart, ProcessMultipart, ProcessRaises, SayHello,
        SetSetup, QueueError, ReadSentState,
        ReplyDuplicated, ReplyBinds, ReplyChecked, ReplyEstablishes, ReplyAnnounces,
        AnswerEcho, EchoReplySent, KeepAlive
  <2>. QED  BY <1>1, <2>1
<1>. QED  BY <1>2, <1>3, <1>4, <1>5

\* The switch answers a request for its features once.
LEMMA RequestAnswered ==
  ASSUME TypeOK, SwitchSends("features_reply")
  PROVE  Requests' \in Nat /\ Requests' = Requests - 1 /\ Requests > 0
<1>1. /\ asked["features_request"] > 0 /\ msgOut' = msgOut
      /\ asked' = [asked EXCEPT !["features_request"] = @ - 1]
  BY DEF SwitchSends, outVars
<1>2. /\ asked \in [Asking -> Nat] /\ "features_request" \in Asking
      /\ msgOut["features_request"] \in Nat /\ asked["features_request"] \in Nat
  BY OutMembers, Counted DEF TypeOK
<1>3. asked'["features_request"] = asked["features_request"] - 1
  BY <1>1, <1>2
<1>. QED  BY <1>1, <1>2, <1>3 DEF Requests

\* Requests for the features are made by SendFeaturesRequest, before the
\* handshake, and by EchoReplySent, after it.
LEMMA RequestsAfter ==
  ASSUME TypeOK, [Next]_vars
  PROVE  /\ Requests' \in Nat
         /\ \/ Requests' <= Requests
            \/ EchoReplySent
            \/ SendFeaturesRequest /\ Requests' <= Requests + 1
<1> USE DEF connVars, inVars, loopVars, outVars, threadVars, appVars
<1>1. /\ msgOut \in [OutKinds -> Nat] /\ asked \in [Asking -> Nat]
      /\ msgOut["features_request"] \in Nat /\ asked["features_request"] \in Nat
      /\ {"features_request", "multipart_request", "set_config"} \subseteq OutKinds
      /\ {"features_request", "echo_request"} = Asking
      /\ Requests \in Nat
  BY OutMembers, Counted DEF TypeOK
<1>2. CASE UNCHANGED <<msgOut, asked>>
  BY <1>1, <1>2 DEF Requests
<1>3. ASSUME NEW k \in OutKinds \ {"features_request"}, msgOut' = Queue(msgOut, k),
             asked' = asked
      PROVE  Requests' = Requests
  BY <1>1, <1>3, QueueCount DEF Requests
<1>4. ASSUME NEW k \in OutKinds, SendOut(k) PROVE Requests' \in Nat /\ Requests' <= Requests
  <2>1. /\ msgOut' = [msgOut EXCEPT ![k] = @ - 1] /\ msgOut[k] > 0
        /\ \/ asked' = asked
           \/ k \in Asking /\ asked' = [asked EXCEPT ![k] = @ + 1]
    BY <1>4 DEF SendOut
  <2>2. CASE k = "features_request"
    <3>1. msgOut'["features_request"] = msgOut["features_request"] - 1
      BY <1>1, <2>1, <2>2
    <3>2. asked'["features_request"] \in {asked["features_request"],
                                         asked["features_request"] + 1}
      BY <1>1, <2>1, <2>2
    <3>. QED  BY <1>1, <2>1, <2>2, <3>1, <3>2 DEF Requests
  <2>3. CASE k # "features_request"
    <3>1. msgOut'["features_request"] = msgOut["features_request"]
      BY <1>1, <2>1, <2>3
    <3>2. asked'["features_request"] = asked["features_request"]
      BY <1>1, <2>1, <2>3
    <3>. QED  BY <1>1, <3>1, <3>2 DEF Requests
  <2>. QED  BY <2>2, <2>3
<1>5. ASSUME NEW k \in Kinds, SwitchSends(k), k # "features_reply"
      PROVE  Requests' = Requests
  BY <1>5 DEF SwitchSends, Requests
<1>6. CASE SwitchSends("features_reply")
  BY <1>1, <1>6, RequestAnswered
<1>7. CASE SwitchAnswersEcho
  <2>1. asked'["features_request"] = asked["features_request"] /\ msgOut' = msgOut
    BY <1>1, <1>7 DEF SwitchAnswersEcho
  <2>. QED  BY <1>1, <2>1, <1>7 DEF Requests, SwitchAnswersEcho
<1>8. CASE SendFeaturesRequest \/ EchoReplySent
  <2>1. /\ asked' = asked
        /\ msgOut' = msgOut \/ msgOut' = Queue(msgOut, "features_request")
    BY <1>8 DEF SendFeaturesRequest, EchoReplySent
  <2>2. msgOut'["features_request"] \in {msgOut["features_request"],
                                        msgOut["features_request"] + 1}
    BY <1>1, <2>1, QueueCount
  <2>. QED  BY <1>1, <1>8, <2>1, <2>2 DEF Requests
<1>9. CASE SayHello \/ QueueError \/ ReplyBinds \/ AnswerEcho \/ KeepAlive
  <2>1. /\ asked' = asked
        /\ msgOut' = msgOut \/ \E k \in OutKinds \ {"features_request"} :
                                  msgOut' = Queue(msgOut, k)
    BY <1>9, OutMembers DEF SayHello, QueueError, ReplyBinds, AnswerEcho, KeepAlive
  <2>. QED  BY <1>1, <1>2, <1>3, <2>1
<1>10. CASE ReplyAnnounces
  <2> DEFINE out == Queue(msgOut, "multipart_request")
  <2>1. out \in [OutKinds -> Nat] /\ out["features_request"] = msgOut["features_request"]
    BY <1>1, QueueType, QueueCount
  <2>2. msgOut' = [out EXCEPT !["set_config"] = @ + 1] /\ asked' = asked
    BY <1>10 DEF ReplyAnnounces, Queue
  <2>3. msgOut'["features_request"] = msgOut["features_request"]
    BY <1>1, <2>1, <2>2
  <2>. QED  BY <1>1, <2>2, <2>3 DEF Requests
<1>11. CASE Close \/ Read \/ RequestSent \/ UNCHANGED vars \/ HandleMultipart
  BY <1>2, <1>11
  DEF Close, Read, StartRawIn, RequestSent, ReadSentState, WriteSentState, vars,
      HandleMultipart, ProcessMultipart, ProcessRaises
<1>12. CASE /\ RawInLoop \/ FeaturesReply
            /\ ~SayHello /\ ~QueueError /\ ~ReplyBinds /\ ~ReplyAnnounces
            /\ ~SendFeaturesRequest
  BY <1>2, <1>12
  DEF RawInLoop, ReturnIfDead, LookAtPacket, RouteUndecodable, RouteDeferred, RouteMultipart,
      RouteMessage, RouteRaises, EndBatch, Negotiation, SetSetup, FailNegotiation,
      CloseFailed, FeaturesReply, ReplyDuplicated, ReplyChecked, ReplyConcludes, ReplyEstablishes
<1>. QED
  BY <1>1, <1>4, <1>5, <1>6, <1>7, <1>8, <1>9, <1>10, <1>11, <1>12
  DEF Next, Switch

\* A features reply waits from the moment it is sent until it is handed over.
LEMMA RepliesWaitingAfter ==
  ASSUME TypeOK, LineInv, [Next]_vars
  PROVE  /\ RepliesWaiting' \subseteq RepliesWaiting \/ SwitchSends("features_reply")
         /\ SwitchSends("features_reply") =>
                \E p : RepliesWaiting' = RepliesWaiting \union {p}
         /\ RouteMessage /\ Head(packets).kind = "features_reply" =>
                /\ Head(packets) \in RepliesWaiting
                /\ RepliesWaiting' \subseteq RepliesWaiting \ {Head(packets)}
<1> USE DEF LineInv
<1>1. ASSUME NEW k \in Kinds, SwitchSends(k)
      PROVE  /\ k = "features_reply" => \E p : RepliesWaiting' = RepliesWaiting \union {p}
             /\ k # "features_reply" => RepliesWaiting' = RepliesWaiting
  <2> DEFINE new == [id |-> sent + 1, kind |-> k]
  <2>1. Waiting' = Waiting \union {new} /\ new.kind = k
    BY <1>1, WaitingAfter
  <2> HIDE DEF new
  <2>2. CASE k = "features_reply"
    <3>1. RepliesWaiting' = RepliesWaiting \union {new}
      BY <2>1, <2>2 DEF RepliesWaiting
    <3>. QED  BY <2>2, <3>1
  <2>3. CASE k # "features_reply"
    BY <2>1, <2>3 DEF RepliesWaiting
  <2>. QED  BY <2>2, <2>3
<1>2. ASSUME SwitchAnswersEcho PROVE RepliesWaiting' = RepliesWaiting
  <2> DEFINE new == [id |-> 0, kind |-> "echo_reply"]
  <2>1. Waiting' = Waiting \union {new} /\ new.kind = "echo_reply"
    BY <1>2, WaitingAfter
  <2> HIDE DEF new
  <2>. QED  BY <2>1 DEF RepliesWaiting
<1>3. Waiting' \subseteq Waiting => RepliesWaiting' \subseteq RepliesWaiting
  BY DEF RepliesWaiting
<1>4. ASSUME \/ Kept \/ Read \/ RouteDeferred \/ EndBatch
             \/ \E p \in assembling : ProcessMultipart(p) \/ ProcessRaises(p)
             \/ Abandon /\ UNCHANGED <<wire, remaining>>
             \/ RouteRaises
      PROVE  RepliesWaiting' \subseteq RepliesWaiting
  <2>1. RouteRaises => Abandon /\ UNCHANGED <<wire, remaining>>
    BY DEF RouteRaises, inVars
  <2>. QED  BY <1>3, <1>4, <2>1, WaitingAfter
<1>5. ASSUME SetSetup \/ RouteMultipart
      PROVE  RepliesWaiting' \subseteq RepliesWaiting
  <2>1. Leaves /\ pc # "idle"
    BY <1>5 DEF RouteMultipart, SetSetup, NextPacket, Leaves, TypeOK, inVars
  <2>. QED  BY <1>3, <2>1, HeadLeaves
<1>6. ASSUME RouteMessage
      PROVE  /\ Waiting' \subseteq Waiting
             /\ Head(packets).kind = "features_reply" =>
                   /\ Head(packets) \in RepliesWaiting
                   /\ RepliesWaiting' \subseteq RepliesWaiting \ {Head(packets)}
  <2>1. Leaves /\ pc # "idle"
    BY <1>6, Routed
  <2>2. /\ Waiting = Waiting' \union {Head(packets)}
        /\ Head(packets).id # 0 => \A q \in Waiting' : q.id # Head(packets).id
    BY <2>1, HeadLeaves
  <2>3. Head(packets).kind = "features_reply" => Head(packets).id # 0
    BY <2>2 DEF NumbersGiven
  <2>. QED  BY <2>2, <2>3 DEF RepliesWaiting
<1>7. "features_reply" \in Kinds
  BY DEF Kinds
<1>8. RepliesWaiting' \subseteq RepliesWaiting \/ SwitchSends("features_reply")
  <2>1. ASSUME NEW k \in Kinds, SwitchSends(k)
        PROVE  RepliesWaiting' \subseteq RepliesWaiting \/ SwitchSends("features_reply")
    BY <1>1, <2>1
  <2>2. CASE RouteMessage
    BY <1>3, <1>6, <2>2
  <2>3. CASE SwitchAnswersEcho
    BY <1>2, <2>3
  <2>. QED  BY <1>4, <1>5, <2>1, <2>2, <2>3, StepsOfPackets
<1>. QED  BY <1>1, <1>6, <1>7, <1>8

\* Sums of the requests and the answers before and after a step.
LEMMA Sums ==
  ASSUME NEW r \in Nat, NEW a \in Nat, NEW rr \in Nat, NEW aa \in Nat
  PROVE  /\ r + a \in Nat /\ rr + aa \in Nat
         /\ r + a = 0 <=> r = 0 /\ a = 0
         /\ r + a <= 1 /\ r > 0 => r = 1 /\ a = 0
         /\ rr <= r /\ aa <= a => rr + aa <= r + a
         /\ rr <= 1 /\ aa = 0 => rr + aa <= 1
         /\ rr = 0 /\ aa <= 1 => rr + aa <= 1
  OBVIOUS

LEMMA NextOneReply ==
  ASSUME TypeOK, HandshakeInv, PlacesInv, OneReply, [Next]_vars
  PROVE  OneReply'
<1> USE DEF PlacesInv, LineInv
<1>1. /\ Requests \in Nat /\ Answers \in Nat /\ Requests' \in Nat /\ Answers' \in Nat
  BY Counted, RequestsAfter, AnswersAfter
<1>2. /\ ~Complete' => ~Complete
      /\ protoState' \in {"none", "hello_failed"} => protoState \in {"none", "hello_failed"}
  BY ProtoAfter
<1>3. CASE Complete'
  BY <1>3 DEF OneReply, Complete
<1>4. CASE ~Complete' /\ SwitchSends("features_reply")
  <2>1. Requests' = Requests - 1 /\ Requests > 0
    BY <1>4, RequestAnswered
  <2>2. Answers' <= Answers
    BY <1>4, AnswersAfter DEF SwitchSends, RouteMessage, TypeOK, inVars
  <2>3. Requests + Answers <= 1 /\ (Requests + Answers = 1 => RepliesWaiting = {})
    BY <1>2, <1>4 DEF OneReply
  <2>4. Requests' + Answers' = 0 /\ RepliesWaiting = {}
    <3>1. Requests = 1 /\ Answers = 0 /\ Requests + Answers = 1
      BY <1>1, <2>1, <2>3, Sums
    <3>2. Requests' = 0 /\ Answers' = 0
      BY <1>1, <2>1, <2>2, <3>1
    <3>. QED  BY <1>1, <2>3, <3>1, <3>2, Sums
  <2>5. PICK p : RepliesWaiting' = {p}
    BY <1>4, <2>4, RepliesWaitingAfter
  <2>6. protoState \notin {"none", "hello_failed"}
    BY <1>1, <2>1 DEF OneReply
  <2>. QED  BY <1>2, <2>4, <2>5, <2>6 DEF OneReply
<1>5. CASE /\ ~Complete' /\ RouteMessage /\ Head(packets).kind = "features_reply"
  <2>1. Head(packets) \in RepliesWaiting
        /\ RepliesWaiting' \subseteq RepliesWaiting \ {Head(packets)}
    BY <1>5, RepliesWaitingAfter
  <2>2. \A p, q \in RepliesWaiting : p = q
    BY <1>2, <1>5 DEF OneReply
  <2>3. RepliesWaiting' = {}
    BY <2>1, <2>2
  <2>4. Requests + Answers <= 1 /\ (Requests + Answers = 1 => RepliesWaiting = {})
    BY <1>2, <1>5 DEF OneReply
  <2>5. Requests = 0 /\ Answers = 0
    BY <1>1, <2>1, <2>4
  <2>6. Requests' = Requests
    BY <1>5 DEF RouteMessage, outVars, Requests
  <2>7. Answers' <= 1
    BY <1>1, <2>5, AnswersAfter
  <2>8. protoState \notin {"none", "hello_failed"}
    BY <2>1 DEF OneReply
  <2>9. Requests' + Answers' <= 1
    BY <1>1, <2>5, <2>6, <2>7, Sums
  <2>. QED  BY <1>2, <2>3, <2>8, <2>9 DEF OneReply
<1>6. CASE ~Complete' /\ SendFeaturesRequest
  <2>1. protoState = "none" /\ protoState' = "sending_features"
    BY <1>6 DEF SendFeaturesRequest, HandshakeInv, NegotiationIsEarly
  <2>2. Requests + Answers = 0 /\ RepliesWaiting = {}
    BY <2>1 DEF OneReply
  <2>3. Requests' <= 1
    BY <1>1, <1>6, <2>2, RequestsAfter DEF SendFeaturesRequest, EchoReplySent, loopVars, TypeOK
  <2>4. Answers' = Answers
    BY <1>6 DEF SendFeaturesRequest, threadVars, Answers
  <2>5. wire' = wire /\ packets' = packets /\ remaining' = remaining
        /\ unprocessed' = unprocessed
    BY <1>6 DEF SendFeaturesRequest, inVars
  <2>6. RepliesWaiting' = {}
    BY <2>2, <2>5 DEF RepliesWaiting, Waiting
  <2>7. Requests' + Answers' <= 1
    BY <1>1, <2>2, <2>3, <2>4, Sums
  <2>. QED  BY <2>1, <2>6, <2>7 DEF OneReply
<1>7. CASE /\ ~Complete' /\ ~SendFeaturesRequest /\ ~SwitchSends("features_reply")
           /\ ~(RouteMessage /\ Head(packets).kind = "features_reply")
  <2>1. ~EchoReplySent
    BY <1>2, <1>7 DEF EchoReplySent, HandshakeInv, EchoesAreLate
  <2>2. Requests' <= Requests /\ Answers' <= Answers
    BY <1>7, <2>1, RequestsAfter, AnswersAfter
  <2>3. RepliesWaiting' \subseteq RepliesWaiting
    BY <1>7, RepliesWaitingAfter
  <2>4. PICK n, m \in Nat : n = Requests + Answers /\ m = Requests' + Answers' /\ m <= n
    <3>1. /\ Requests + Answers \in Nat /\ Requests' + Answers' \in Nat
          /\ Requests' + Answers' <= Requests + Answers
      BY <1>1, <2>2, Sums
    <3>. QED  BY <3>1, Zenon
  <2>5. n <= 1
    BY <1>2, <1>7, <2>4 DEF OneReply
  <2>6. m <= 1 /\ (m = 1 => n = 1) /\ (n = 0 => m = 0)
    BY <2>4, <2>5
  <2>. QED  BY <1>2, <1>7, <2>3, <2>4, <2>6 DEF OneReply
<1>. QED  BY <1>3, <1>4, <1>5, <1>6, <1>7

LEMMA NextOneConclusion ==
  ASSUME TypeOK, HandshakeInv, GatheredOnce, OneReply, OneConclusion, [Next]_vars
  PROVE  OneConclusion'
<1>1. /\ {"queued", "bound", "admitted", "completing", "finishing"} \subseteq ReplySteps
      /\ \A s \in ReplySteps : replies[s] \in Nat
      /\ completed \in Nat /\ Requests \in Nat
  BY StepMembers, Counted
<1>2. (Complete' <=> Complete) \/ ReplyConcludes
  BY ProtoAfter
<1>3. CASE ~FeaturesReply
  <2>1. /\ replies'["admitted"] = replies["admitted"]
        /\ replies'["completing"] = replies["completing"]
        /\ replies'["finishing"] = replies["finishing"]
        /\ completed' = completed
    BY <1>1, <1>3, RepliesAfter
  <2>2. Complete' <=> Complete
    BY <1>2, <1>3 DEF FeaturesReply
  <2>. QED  BY <2>1, <2>2 DEF OneConclusion
<1>4. CASE ReplyConcludes
  <2>1. ~Complete
    BY <1>1, <1>4 DEF OneConclusion, ReplyConcludes
  <2>2. Requests + Answers <= 1
    BY <2>1 DEF OneReply
  <2>3. replies["admitted"] = 1
    <3>1. replies["admitted"] > 0 /\ replies["admitted"] \in Nat
      BY <1>1, <1>4 DEF ReplyConcludes
    <3>2. Answers \in Nat /\ replies["admitted"] <= Answers
      BY <1>1 DEF Answers
    <3>3. Answers <= 1
      BY <1>1, <2>2, <3>2
    <3>. QED  BY <3>1, <3>2, <3>3
  <2>4. /\ replies' = Move("admitted", "completing") /\ completed' = completed /\ Complete'
    BY <1>4 DEF ReplyConcludes, appVars, Complete
  <2>5. /\ replies'["admitted"] = 0 /\ replies'["completing"] = replies["completing"] + 1
        /\ replies'["finishing"] = replies["finishing"]
    BY <1>1, <2>3, <2>4, MoveCount
  <2>. QED  BY <1>1, <2>1, <2>4, <2>5 DEF OneConclusion
<1>5. CASE ReplyDuplicated \/ ReplyBinds
  <2>1. /\ replies' = Leave("queued") \/ replies' = Move("queued", "bound")
        /\ completed' = completed
    BY <1>5 DEF ReplyDuplicated, ReplyBinds, appVars
  <2>2. /\ replies'["admitted"] = replies["admitted"]
        /\ replies'["completing"] = replies["completing"]
        /\ replies'["finishing"] = replies["finishing"]
    BY <1>1, <2>1, MoveCount, LeaveCount
  <2>3. protoState' = protoState
    BY <1>5 DEF ReplyDuplicated, ReplyBinds, connVars
  <2>. QED  BY <2>1, <2>2, <2>3 DEF OneConclusion, Complete
<1>6. CASE ReplyChecked
  <2>1. /\ completed' = completed /\ protoState' = protoState
        /\ \/ protoState = "waiting_features_reply" /\ replies' = Move("bound", "admitted")
           \/ replies' = Leave("bound")
    BY <1>6 DEF ReplyChecked, appVars, connVars
  <2>2. /\ replies'["completing"] = replies["completing"]
        /\ replies'["finishing"] = replies["finishing"]
        /\ Complete => replies'["admitted"] = replies["admitted"]
    BY <1>1, <2>1, MoveCount, LeaveCount DEF Complete
  <2>. QED  BY <2>1, <2>2 DEF OneConclusion, Complete
<1>7. CASE ReplyEstablishes
  <2>1. /\ replies' = Move("completing", "finishing") /\ completed' = completed
        /\ protoState' = protoState
    BY <1>7 DEF ReplyEstablishes, appVars
  <2>2. /\ replies'["admitted"] = replies["admitted"]
        /\ replies'["completing"] = replies["completing"] - 1
        /\ replies'["finishing"] = replies["finishing"] + 1
    BY <1>1, <2>1, MoveCount
  <2>. QED  BY <1>1, <2>1, <2>2 DEF OneConclusion, Complete
<1>8. CASE ReplyAnnounces
  <2>1. /\ replies' = Leave("finishing") /\ completed' = completed + 1
        /\ protoState' = protoState
    BY <1>8 DEF ReplyAnnounces, connVars
  <2>2. /\ replies'["admitted"] = replies["admitted"]
        /\ replies'["completing"] = replies["completing"]
        /\ replies'["finishing"] = replies["finishing"] - 1
    BY <1>1, <2>1, LeaveCount
  <2>. QED  BY <1>1, <2>1, <2>2 DEF OneConclusion, Complete
<1>. QED  BY <1>3, <1>4, <1>5, <1>6, <1>7, <1>8 DEF FeaturesReply

LEMMA NextAnnounced ==
  ASSUME TypeOK, HandshakeInv, GatheredOnce, AnnouncedIsEstablished, [Next]_vars
  PROVE  AnnouncedIsEstablished'
<1>1. /\ {"queued", "bound", "admitted", "completing", "finishing"} \subseteq ReplySteps
      /\ \A s \in ReplySteps : replies[s] \in Nat
  BY StepMembers, Counted
<1>2. /\ connState' \in {connState, "ESTABLISHED"} \/ SetSetup \/ ~socketOpen'
      /\ socketOpen' => socketOpen
  BY StepsOfConnection
<1>3. replies'["finishing"] > 0 => replies["finishing"] > 0 \/ ReplyEstablishes
  <2>1. CASE ~FeaturesReply
    BY <1>1, <2>1, RepliesAfter
  <2>2. CASE FeaturesReply
    BY <1>1, <2>2, MoveCount, LeaveCount
    DEF FeaturesReply, ReplyDuplicated, ReplyBinds, ReplyChecked, ReplyConcludes,
        ReplyEstablishes, ReplyAnnounces
  <2>. QED  BY <2>1, <2>2
<1>4. CASE ReplyEstablishes
  BY <1>4 DEF ReplyEstablishes, AnnouncedIsEstablished
<1>5. replies["finishing"] > 0 => ~SetSetup
  BY CompleteIsLate DEF SetSetup, Negotiating, HandshakeInv, RepliesInOrder
<1>. QED  BY <1>2, <1>3, <1>4, <1>5 DEF AnnouncedIsEstablished

-------------------------------------------------------------------------------
LEMMA InitSession == Init => SessionInv
<1>1. SUFFICES ASSUME Init PROVE SessionInv
  OBVIOUS
<1>2. /\ Waiting = {} /\ Gathered = {}
      /\ msgOut["features_request"] = 0 /\ asked["features_request"] = 0
      /\ \A s \in ReplySteps : replies[s] = 0
  BY <1>1, OutMembers DEF Init, Waiting, Gathered, Range
<1>3. Requests = 0 /\ Answers = 0 /\ RepliesWaiting = {} /\ Requests + Answers = 0
  BY <1>2, StepMembers DEF Requests, Answers, RepliesWaiting
<1>. QED
  BY <1>1, <1>2, <1>3, StepMembers
  DEF SessionInv, Init, GreetedFirst, HelloFirst, GatheredEstablished, OneReply,
      OneConclusion, AnnouncedIsEstablished, Complete

\* SessionInv is an invariant: the switch is greeted before it is asked, and
\* of all the threads of handle_features_reply one at most passes the check of
\* the state and concludes the handshake.
THEOREM SessionInvariant == Spec => []SessionInv
<1>1. TypeOK /\ HandshakeInv /\ PlacesInv /\ SessionInv /\ [Next]_vars => SessionInv'
  BY NextGreetedFirst, NextGatheredEstablished, NextOneReply, NextOneConclusion,
     NextAnnounced
  DEF SessionInv, PlacesInv
<1>. QED
  BY <1>1, InitSession, TypeCorrect, HandshakeInvariant, PlacesInvariant, PTL DEF Spec

\* The hello is written before the features request, although both wait in the
\* same priority queue (the priorities of emit_message_out).
THEOREM GreetedBeforeAsked == Spec => []HelloFirst
<1>1. SessionInv => HelloFirst
  BY DEF SessionInv, GreetedFirst
<1>. QED  BY <1>1, SessionInvariant, PTL

-------------------------------------------------------------------------------
(* A connection is a session of ConnectionPhases.                          *)

\* The steps that the session may see.
LEMMA StepsOfSession ==
  ASSUME TypeOK, HandshakeInv, [Next]_vars
  PROVE  \/ UNCHANGED <<connState, socketOpen, dispatched, completed>>
            /\ (Complete' <=> Complete)
         \/ SetSetup \/ ReplyConcludes \/ ReplyEstablishes \/ ReplyAnnounces
         \/ Close \/ RouteUndecodable \/ CloseFailed
         \/ RouteMessage \/ RouteRaises \/ \E p \in assembling : ProcessMultipart(p)
<1> USE DEF connVars, inVars, loopVars, outVars, threadVars, appVars
<1>1. (Complete' <=> Complete) \/ ReplyConcludes
  BY ProtoAfter
<1>2. CASE Switch \/ (\E k \in OutKinds : SendOut(k)) \/ Read \/ RequestSent
           \/ AnswerEcho \/ EchoReplySent \/ KeepAlive \/ UNCHANGED vars
  BY <1>1, <1>2
  DEF Switch, SwitchSends, SwitchAnswersEcho, SendOut, Read, StartRawIn, RequestSent,
      ReadSentState, WriteSentState, AnswerEcho, EchoReplySent, KeepAlive, vars
<1>3. CASE RawInLoop
  BY <1>1, <1>3
  DEF RawInLoop, ReturnIfDead, LookAtPacket, RouteDeferred, RouteMultipart, EndBatch,
      Negotiation, SayHello, SendFeaturesRequest, FailNegotiation, QueueError, NotDispatched
<1>4. CASE FeaturesReply
  BY <1>1, <1>4 DEF FeaturesReply, ReplyDuplicated, ReplyBinds, ReplyChecked
<1>5. CASE HandleMultipart
  BY <1>1, <1>5 DEF HandleMultipart, ProcessRaises, NotDispatched, ReplyConcludes
<1>. QED  BY <1>2, <1>3, <1>4, <1>5 DEF Next

LEMMA DeliversOne ==
  ASSUME TypeOK, NEW p \in Packet, Dispatch(p) \/ NotDispatched, dispatched' # dispatched,
         \A i \in DOMAIN dispatched : dispatched[i].id # p.id,
         UNCHANGED <<connState, socketOpen, protoState, completed>>,
         Alive, connState \in {"SETUP", "ESTABLISHED"},
         connState = "SETUP" => p.kind = "features_reply"
  PROVE  Phases!Deliver
<1>1. /\ DOMAIN dispatched' = DOMAIN dispatched \union {Len(dispatched) + 1}
      /\ DOMAIN dispatched = 1 .. Len(dispatched) /\ Len(dispatched) \in Nat
      /\ \A i \in DOMAIN dispatched : dispatched'[i] = dispatched[i]
      /\ dispatched'[Len(dispatched) + 1] = p
  BY DispatchedAfter
<1>2. DOMAIN dispatched' = 1 .. Len(dispatched) + 1
  BY <1>1
<1>. QED  BY <1>1, <1>2 DEF Phases!Deliver, Alive

\* Every step of the connection is a step of the session, or none.
LEMMA StepOfPhases ==
  ASSUME TypeOK, HandshakeInv, PlacesInv, SessionInv, [Next]_vars
  PROVE  [Phases!Next]_(Phases!vars)
<1> USE DEF PlacesInv, LineInv, SessionInv
<1>1. CASE UNCHANGED <<connState, socketOpen, dispatched, completed>>
           /\ (Complete' <=> Complete)
  BY <1>1 DEF Phases!vars, Alive, Complete
<1>2. CASE SetSetup
  <2>1. /\ connState' = "SETUP" /\ connState \in {"NEW", "FINISHED"}
        /\ UNCHANGED <<socketOpen, protoState, dispatched, completed>>
    BY <1>2 DEF SetSetup, HandshakeInv, NegotiationIsEarly, Negotiating, appVars
  <2>2. CASE Alive
    BY <2>1, <2>2 DEF Phases!Next, Phases!Setup, Alive
  <2>3. CASE ~Alive
    BY <2>1, <2>3 DEF Phases!vars, Alive, HandshakeInv, DeadIsClosed
  <2>. QED  BY <2>2, <2>3
<1>3. CASE ReplyConcludes
  <2>1. /\ replies["admitted"] > 0 /\ protoState' = "handshake_complete"
        /\ UNCHANGED <<connState, socketOpen, dispatched, completed>>
    BY <1>3 DEF ReplyConcludes, appVars
  <2>2. ~Complete
    BY <2>1 DEF OneConclusion
  <2>3. ~Alive \/ connState = "SETUP"
    BY <2>1, <2>2 DEF Alive, TypeOK, ConnStates, HandshakeInv, EstablishedIsComplete,
                      NewIsUntouched
  <2>. QED
    BY <2>1, <2>2, <2>3 DEF Phases!Next, Phases!Conclude, Alive, Complete
<1>4. CASE ReplyEstablishes
  <2>1. /\ replies["completing"] > 0 /\ connState' = "ESTABLISHED"
        /\ UNCHANGED <<protoState, socketOpen, dispatched, completed>>
    BY <1>4 DEF ReplyEstablishes, appVars
  <2>2. Complete /\ connState # "NEW"
    BY <2>1 DEF HandshakeInv, RepliesInOrder, NewIsUntouched
  <2>3. CASE ~Alive
    BY <2>1, <2>3 DEF Phases!vars, Alive, HandshakeInv, DeadIsClosed
  <2>4. CASE Alive /\ connState = "ESTABLISHED"
    BY <2>1, <2>4 DEF Phases!vars, Alive
  <2>5. CASE Alive /\ connState = "SETUP"
    BY <2>1, <2>2, <2>5 DEF Phases!Next, Phases!Establish, Alive, Complete
  <2>. QED  BY <2>2, <2>3, <2>4, <2>5 DEF Alive, TypeOK, ConnStates
<1>5. CASE ReplyAnnounces
  <2>1. /\ replies["finishing"] > 0 /\ completed' = completed + 1
        /\ UNCHANGED <<connState, protoState, socketOpen, dispatched>>
    BY <1>5 DEF ReplyAnnounces, connVars
  <2>2. Complete /\ (connState = "ESTABLISHED" \/ ~socketOpen)
    BY <2>1 DEF HandshakeInv, RepliesInOrder, AnnouncedIsEstablished
  <2>3. completed = 0
    BY <2>1, <2>2, Counted, StepMembers DEF OneConclusion
  <2>. QED  BY <2>1, <2>2, <2>3 DEF Phases!Next, Phases!Announce, Alive, Complete
<1>6. CASE Close \/ RouteUndecodable \/ CloseFailed
  <2>1. ~Alive' /\ UNCHANGED <<dispatched, completed>>
    BY <1>6 DEF Close, RouteUndecodable, CloseFailed, Alive, appVars
  <2>2. Complete' <=> Complete
    BY <1>6, ProtoAfter
    DEF Close, RouteUndecodable, CloseFailed, ReplyConcludes, threadVars, Move, Complete,
        connVars, HandshakeInv, NegotiationIsEarly
  <2>3. CASE Alive
    BY <2>1, <2>2, <2>3 DEF Phases!Next, Phases!Close, Alive, Complete
  <2>4. CASE ~Alive
    BY <2>1, <2>2, <2>4 DEF Phases!vars, Alive, Complete
  <2>. QED  BY <2>3, <2>4
<1>7. CASE RouteMessage
  <2>1. /\ Leaves /\ pc # "idle" /\ Head(packets) \in Packet
        /\ Dispatch(Head(packets)) \/ NotDispatched
        /\ UNCHANGED <<connState, socketOpen, protoState, completed>>
    BY <1>7, Routed DEF RouteMessage, connVars, appVars
  <2>2. CASE dispatched' = dispatched
    BY <1>1, <2>1, <2>2 DEF Complete
  <2>3. CASE dispatched' # dispatched
    <3>1. Alive
      BY <1>7, <2>3 DEF RouteMessage, NotDispatched
    <3>2. connState \in {"SETUP", "ESTABLISHED"}
      BY <1>7, <3>1 DEF RouteMessage, Alive, TypeOK, ConnStates, HandshakeInv,
                        RoutedIsNegotiated
    <3>3. connState = "SETUP" => Head(packets).kind = "features_reply"
      BY <1>7 DEF RouteMessage, Deferred, DuringSetup, WaitingFeaturesReply
    <3>4. \A i \in DOMAIN dispatched : dispatched[i].id # Head(packets).id
      BY <2>1, HeadLeaves DEF HandedOverOnce
    <3>5. Phases!Deliver
      BY <2>1, <2>3, <3>1, <3>2, <3>3, <3>4, DeliversOne
    <3>. QED  BY <3>5 DEF Phases!Next
  <2>. QED  BY <2>2, <2>3
<1>9. CASE RouteRaises
  <2>1. /\ Head(packets) \in Packet /\ Head(packets) \in Waiting
        /\ Dispatch(Head(packets)) /\ Head(packets).kind = "other"
        /\ UNCHANGED <<connState, socketOpen, protoState, completed>>
    BY <1>9, RaisedInLoop DEF RouteRaises, connVars, appVars
  <2>2. CASE dispatched' = dispatched
    BY <1>1, <2>1, <2>2 DEF Complete
  <2>3. CASE dispatched' # dispatched
    <3>1. Alive /\ connState = "ESTABLISHED"
      BY <1>9 DEF RouteRaises, Alive, TypeOK, ConnStates, HandshakeInv,
                  RoutedIsNegotiated, Deferred, DuringSetup, WaitingFeaturesReply
    <3>2. \A i \in DOMAIN dispatched : dispatched[i].id # Head(packets).id
      BY <2>1 DEF HandedOverOnce
    <3>3. Phases!Deliver
      BY <2>1, <2>3, <3>1, <3>2, DeliversOne
    <3>. QED  BY <3>3 DEF Phases!Next
  <2>. QED  BY <2>2, <2>3
<1>8. ASSUME NEW p \in assembling, ProcessMultipart(p)
      PROVE  [Phases!Next]_(Phases!vars)
  <2>1. /\ p \in Packet /\ p \in Gathered
        /\ Dispatch(p) \/ NotDispatched
        /\ UNCHANGED <<connState, socketOpen, protoState, completed>>
    BY <1>8, Processed DEF ProcessMultipart, connVars, appVars, Gathered
  <2>2. CASE dispatched' = dispatched
    BY <1>1, <2>1, <2>2 DEF Complete
  <2>3. CASE dispatched' # dispatched
    <3>1. Alive
      BY <1>8, <2>3 DEF ProcessMultipart, NotDispatched
    <3>2. connState = "ESTABLISHED"
      BY <2>1, <3>1 DEF GatheredEstablished, Alive
    <3>3. \A i \in DOMAIN dispatched : dispatched[i].id # p.id
      BY <2>1 DEF HandedOverOnce
    <3>4. Phases!Deliver
      BY <2>1, <2>3, <3>1, <3>2, <3>3, DeliversOne
    <3>. QED  BY <3>4 DEF Phases!Next
  <2>. QED  BY <2>2, <2>3
<1>. QED
  BY <1>1, <1>2, <1>3, <1>4, <1>5, <1>6, <1>7, <1>8, <1>9, StepsOfSession

\* The handshake, the raw-in loop and the threads of the handlers together are
\* a session of ConnectionPhases: phases in order, nothing but features
\* replies early, no packet twice, and one announcement, after the end.
THEOREM ConnectionIsSession == Spec => ImplementsPhases
<1>1. Init => Phases!Init
  BY DEF Init, Phases!Init, Alive
<1>2. TypeOK /\ HandshakeInv /\ PlacesInv /\ SessionInv /\ [Next]_vars
        => [Phases!Next]_(Phases!vars)
  BY StepOfPhases
<1>. QED
  BY <1>1, <1>2, TypeCorrect, HandshakeInvariant, PlacesInvariant, SessionInvariant, PTL
  DEF Spec, ImplementsPhases, Phases!Spec
\* The three inductive invariants of a connection together, for any number of
\* packets and however the loop and the threads interleave.
THEOREM ConnectionInvariant == Spec => []ConnectionInv
BY HandshakeInvariant, PlacesInvariant, SessionInvariant, PTL DEF ConnectionInv
===============================================================================
