---------------------------- MODULE StatsInvariants ----------------------------
(***************************************************************************)
(* Where the items of the replies of a switch are, in every state of       *)
(* StatsCollector: the inductive invariants from which the proofs derive   *)
(* that no item is published twice (StatsCollectorProofs).                 *)
(***************************************************************************)
EXTENDS StatsCollector

ItemOf(q) == [xid |-> q.xid, part |-> q.part]

\* The items of the parts in a sequence of replies.
Items(s) == {ItemOf(s[i]) : i \in DOMAIN s}

\* The items of a kind that the switch has sent: on the wire, in the hands of
\* the handler, in the list that is being assembled, and in published lists.
OnWire(k) == Items(wire[k])

\* The list that is being assembled was read, and not yet deleted.
Reading(k) == loop.at \in {"take", "delete"} /\ loop.reply.kind = k

InHand(k) == IF loop.at \in {"idle", "collect"} \/ loop.reply.kind # k THEN {}
             ELSE IF loop.at = "extend" THEN {ItemOf(loop.reply)} ELSE Range(loop.list)

Assembled(k) == Range(acc[k])

Out(k) == UNION {Range(published[k][i]) : i \in DOMAIN published[k]}

Seen(k) == OnWire(k) \union InHand(k) \union Assembled(k) \union Out(k)

\* A reply is of the kind of its request, and no part of it comes twice.
Replies(s, k) ==
    /\ \A i \in DOMAIN s : s[i].kind = k
    /\ \A i, j \in DOMAIN s : i # j => ItemOf(s[i]) # ItemOf(s[j])

WireOnce(k) == Replies(wire[k], k)

\* No item is at two places, but for a list that was read and not yet deleted.
Apart(k) ==
    LET onWire    == OnWire(k)
        inHand    == InHand(k)
        assembled == Assembled(k)
        out       == Out(k)
    IN  /\ onWire \intersect inHand = {}
        /\ onWire \intersect assembled = {}
        /\ onWire \intersect out = {}
        /\ IF Reading(k) THEN assembled \subseteq inHand
                         ELSE inHand \intersect assembled = {}
        /\ inHand \intersect out = {}
        /\ assembled \intersect out = {}

OutOnce(k) ==
    \A i, j \in DOMAIN published[k] :
        i # j => Range(published[k][i]) \intersect Range(published[k][j]) = {}

\* What the switch has yet to answer was not seen before.
AskedIsUnseen(k) ==
    /\ \A i \in DOMAIN asked[k] :
          /\ asked[k][i].kind = k /\ asked[k][i].xid < nextXid
          /\ \A x \in Seen(k) : x.xid = asked[k][i].xid => x.part < asked[k][i].part
    /\ \A i, j \in DOMAIN asked[k] : i # j => asked[k][i].xid # asked[k][j].xid
    /\ \A x \in Seen(k) : x.xid < nextXid

PlacesOnce(k) == WireOnce(k) /\ Apart(k) /\ OutOnce(k) /\ AskedIsUnseen(k)

\* Every item that the switch sends is at one place at a time, whichever thread
\* clears the lists and whichever reply the loop handles.
ItemsOnce == \A k \in Kinds : PlacesOnce(k)
===============================================================================
