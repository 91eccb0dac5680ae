-------------------------- MODULE HandshakeInvariants --------------------------
(***************************************************************************)
(* Where the packets of a connection are, in every state of Handshake: the *)
(* inductive invariants from which HandshakeProofs derives that nothing is *)
(* lost but to exceptions, repeated or put out of order, and that a        *)
(* connection is a session of ConnectionPhases.                            *)
(***************************************************************************)
EXTENDS Handshake

\* The packets that are yet to be looked at, or to be looked at again.
Waiting == Range(unprocessed) \union Range(packets) \union Range(remaining)
           \union Range(wire)

\* The multipart replies that are put aside until their batch has ended.
Gathered == multipart \union assembling

\* The packets that were lost with a task.
Lost == {l.packet : l \in lost}

-------------------------------------------------------------------------------
(* Packets stand in one line, in the order in which they were sent: those  *)
(* deferred in the batch, the rest of the batch or what earlier batches    *)
(* deferred, and what is on the wire.  Echo replies have no number.        *)

Ordered(s) ==
    \A i, j \in DOMAIN s : i < j /\ s[i].id # 0 /\ s[j].id # 0 => s[i].id < s[j].id

Before(s, t) ==
    \A p \in Range(s), q \in Range(t) : p.id # 0 /\ q.id # 0 => p.id < q.id

InOneLine ==
    /\ Ordered(unprocessed) /\ Ordered(packets) /\ Ordered(remaining) /\ Ordered(wire)
    /\ Before(unprocessed, packets) /\ Before(unprocessed, wire)
    /\ Before(packets, wire) /\ Before(remaining, wire)

BatchIsAlone ==
    IF pc = "idle" THEN packets = <<>> /\ unprocessed = <<>> /\ multipart = {}
    ELSE remaining = <<>>

\* Nothing has a number that was not given out; only echo replies have none.
NumbersGiven ==
    \A p \in Waiting : /\ p.id <= sent
                       /\ p.id = 0 <=> p.kind = "echo_reply"

\* No packet is at two places.
HandedOverOnce ==
    /\ \A i, j \in DOMAIN dispatched :
          i # j => dispatched[i].id # dispatched[j].id
    /\ \A i \in DOMAIN dispatched :
          /\ dispatched[i].id \in 1 .. sent
          /\ \A p \in Waiting \union Gathered \union Lost : p.id # dispatched[i].id

TasksApart ==
    /\ assembling = UNION tasks
    /\ \A t \in tasks : t # {}
    /\ \A t, u \in tasks : t # u => t \intersect u = {}

GatheredOnce ==
    /\ TasksApart
    /\ multipart \intersect assembling = {}
    /\ \A p \in Gathered :
          /\ p.id \in 1 .. sent /\ p.kind = "multipart_reply"
          /\ \A q \in Waiting : p.id # q.id
          /\ \A q \in Gathered : p.id = q.id => p = q

\* What is lost does not come back, and is lost once, by what was read with it.
LostOnce ==
    /\ \A l, k \in lost : l.packet.id = k.packet.id => l = k
    /\ \A p \in Lost : /\ p.id \in 1 .. sent
                      /\ \A q \in Waiting \union Gathered : p.id # q.id
    /\ \A l \in lost : /\ LostBehind(l)
                       /\ l.by.kind = "multipart_reply" => l.by \in Lost

\* What was never deferred was sent behind all that was handed over.
UndeferredIsNext ==
    /\ \A p \in Range(unprocessed) \union Range(remaining) : p.id \in deferredOnce
    /\ \A p \in Waiting : p.id # 0 /\ p.id \notin deferredOnce =>
          \A i \in DOMAIN dispatched :
              dispatched[i].kind # "multipart_reply" => dispatched[i].id < p.id

\* A live connection has every packet, but the hello that opened it.
HasPacket(n) == \/ \E p \in Waiting \union Gathered \union Lost : p.id = n
                \/ \E i \in DOMAIN dispatched : dispatched[i].id = n

HelloIsFirst ==
    /\ connState = "NEW" => /\ unprocessed = <<>> /\ Gathered = {} /\ dispatched = <<>>
                          /\ lost = {}
    /\ socketOpen /\ pc \in {"hello", "features", "setup"} => Head(packets).id = 1

AllThere ==
    socketOpen => /\ \A n \in 1 .. sent :
                        HasPacket(n) <=> ~(n = 1 /\ connState # "NEW")
                  /\ connState # "NEW" => sent > 0

\* Every packet of the connection has its number, its one place and its turn,
\* whatever the loop defers, gathers, joins and hands over.
PlacesInv ==
    /\ InOneLine
    /\ BatchIsAlone
    /\ NumbersGiven
    /\ HandedOverOnce
    /\ GatheredOnce
    /\ LostOnce
    /\ UndeferredIsNext
    /\ HelloIsFirst
    /\ AllThere

-------------------------------------------------------------------------------
(* The session.                                                            *)

\* Who is asked for its features has been greeted, or the hello waits in the
\* same queue.
Greeted == msgOut["hello"] > 0 \/ "hello" \in written

GreetedFirst ==
    /\ HelloFirst
    /\ socketOpen => /\ connState # "NEW" => Greeted
                     /\ pc \in {"features", "setup"} => Greeted
                     /\ msgOut["features_request"] > 0 => Greeted

\* Multipart replies are put aside on established connections only.
GatheredEstablished == Gathered # {} => connState = "ESTABLISHED" \/ ~socketOpen

\* Features requests to be answered, and the threads of their answers.
Requests == msgOut["features_request"] + asked["features_request"]
Answers  == replies["queued"] + replies["bound"] + replies["admitted"]
RepliesWaiting == {p \in Waiting : p.kind = "features_reply"}

\* Before the handshake is complete there is one request or one answer, at one
\* place; so one thread at most concludes the handshake.
OneReply ==
    /\ ~Complete => /\ Requests + Answers <= 1
                    /\ Requests + Answers = 1 => RepliesWaiting = {}
                    /\ \A p, q \in RepliesWaiting : p = q
    /\ protoState \in {"none", "hello_failed"} =>
          Requests + Answers = 0 /\ RepliesWaiting = {}

OneConclusion ==
    IF Complete
    THEN replies["admitted"] = 0
         /\ replies["completing"] + replies["finishing"] + completed <= 1
    ELSE replies["completing"] + replies["finishing"] + completed = 0

AnnouncedIsEstablished ==
    replies["finishing"] > 0 => connState = "ESTABLISHED" \/ ~socketOpen

\* A switch is greeted, asked, answered and announced in this order, and one
\* thread at most gets to each of these points, whichever runs first.
SessionInv ==
    /\ GreetedFirst
    /\ GatheredEstablished
    /\ OneReply
    /\ OneConclusion
    /\ AnnouncedIsEstablished

\* The inductive invariant of the connection: the handshake, the places of the
\* packets and the session, which rest on each other in this order.
ConnectionInv == HandshakeInv /\ PlacesInv /\ SessionInv
===============================================================================
