----------------------------- MODULE StatsCollector -----------------------------
(***************************************************************************)
(* The statistics of one switch: the flow, port and table statistics that  *)
(* of_core requests after the handshake and every STATS_INTERVAL, the      *)
(* assembly of their multipart replies, the skipping of requests while     *)
(* earlier ones are pending, and what is left of them when the connection  *)
(* of the switch is lost and another one takes its place.                  *)
(*                                                                         *)
(* The requests are made in threads (the handler of handshake.completed    *)
(* and the timer), the replies handled by the event loop, and both use the *)
(* dictionaries of xids and of the lists being assembled without a lock.   *)
(* An item of a list is the request and the part of its reply it came in.  *)
(***************************************************************************)
EXTENDS Naturals, Sequences, FiniteSets, SequencesExt

CONSTANTS
    Requesters,        \* the threads that request statistics
    HasTables,         \* the switch has the capability OFPC_TABLE_STATS
    StatsReqSkip,      \* settings.STATS_REQ_SKIP
    Parts,             \* how many parts every reply has
    ThreadsInterleave, \* threads and loop interleave inside of their handlers
    MayReorder,        \* the tasks of several raw events may overtake each other
    Unreadable,        \* the switch may have flow entries that cannot be read
    MaxRounds,         \* bound on the rounds of requests
    MaxPops,           \* bound on the resets and losses of the connection
    MaxOnWire          \* bound on the replies of a kind that wait to be handled

ASSUME StatsAssumption ==
    /\ IsFiniteSet(Requesters)
    /\ HasTables \in BOOLEAN
    /\ StatsReqSkip \in Nat
    /\ Parts \in Nat \ {0}
    /\ ThreadsInterleave \in BOOLEAN /\ MayReorder \in BOOLEAN
    /\ Unreadable \in BOOLEAN
    /\ MaxRounds \in Nat /\ MaxPops \in Nat /\ MaxOnWire \in Nat

VARIABLES
    xids,       \* _multipart_replies_xids of the switch
    acc,        \* _multipart_replies_flows, _ports and _tables of the switch
    flows,      \* switch.flows
    published,  \* the lists in the app buffer, in that order for each kind
    step,       \* where each requester is
    mine,       \* the xids a requester has in its local variables
    loop,       \* where the handler of a reply is, and the reply
    asked,      \* requests that the switch has not answered in full, by kind
    wire,       \* parts of replies that are not yet handled, by kind
    nextXid,    \* the xid of the next request
    rounds,     \* rounds of requests made
    link,       \* the connection of the switch: up, down, or bound and not yet reset
    pops        \* resets and losses

reqVars  == <<step, mine, nextXid, rounds>>
linkVars == <<link, pops>>
vars == <<xids, acc, flows, published, step, mine, loop, asked, wire, nextXid, rounds,
          link, pops>>

-------------------------------------------------------------------------------
Kinds == {"flows", "ports", "tables"}

\* A dictionary of xids: 0 where there is no key; "present" if the switch has one.
NoXids == [present |-> FALSE, skipped |-> 0, flows |-> 0, ports |-> 0, tables |-> 0]
Pending == \E k \in Kinds : xids[k] # 0

NoneMine == [k \in Kinds |-> 0]
NoLists == [k \in Kinds |-> <<>>]
Idle == [at |-> "idle", reply |-> [kind |-> "flows", xid |-> 0, part |-> 0], list |-> <<>>]

\* Threads that do not interleave run one at a time, and not inside of a handler.
Between  == loop = Idle /\ \A r \in Requesters : step[r] = "idle"
Turn(r)  == \/ ThreadsInterleave
            \/ loop = Idle /\ link # "bound" /\ \A s \in Requesters \ {r} : step[s] = "idle"
LoopTurn == ThreadsInterleave \/ (link # "bound" /\ \A s \in Requesters : step[s] = "idle")

Init ==
    /\ xids = NoXids /\ acc = NoLists /\ flows = <<>> /\ published = NoLists
    /\ step = [r \in Requesters |-> "idle"]
    /\ mine = [r \in Requesters |-> NoneMine]
    /\ loop = Idle /\ asked = NoLists /\ wire = NoLists
    /\ nextXid = 1 /\ rounds = 0 /\ link = "up" /\ pops = 0

-------------------------------------------------------------------------------
(* _request_stats, in a thread.                                            *)

\* Mutant of SkipRound: the rounds that are skipped are not counted.
SkipRoundUncounted(r) ==
    /\ step[r] = "idle"
    /\ Turn(r)
    /\ Pending
    /\ xids.skipped < StatsReqSkip
    /\ UNCHANGED vars

\* _check_overlapping_multipart_request: pending requests are waited for, up
\* to StatsReqSkip times ...
SkipRound(r) ==
    /\ step[r] = "idle"
    /\ Turn(r)
    /\ Pending
    /\ xids.skipped < StatsReqSkip
    /\ xids' = [xids EXCEPT !.skipped = @ + 1]
    /\ UNCHANGED <<acc, flows, published, reqVars, loop, asked, wire, linkVars>>

\* Mutant of StartRound: the lists are not cleared.
StartRoundKeepsLists(r) ==
    /\ step[r] = "idle"
    /\ Turn(r)
    /\ rounds < MaxRounds
    /\ Pending => xids.skipped >= StatsReqSkip
    /\ rounds' = rounds + 1
    /\ step' = [step EXCEPT ![r] = "flows"]
    /\ UNCHANGED <<xids, acc, flows, published, mine, loop, asked, wire, nextXid, linkVars>>

\* ... and then given up for a fresh start.  Lists of different kinds are not
\* related anywhere, so that they are cleared in one step.
StartRound(r) ==
    /\ step[r] = "idle"
    /\ Turn(r)
    /\ rounds < MaxRounds
    /\ Pending => xids.skipped >= StatsReqSkip
    /\ rounds' = rounds + 1
    /\ acc' = NoLists
    /\ step' = [step EXCEPT ![r] = "flows"]
    /\ UNCHANGED <<xids, flows, published, mine, loop, asked, wire, nextXid, linkVars>>

\* A multipart request is queued with a new xid, for the connection that the
\* switch has then: it is lost if that one is closed.
Ask(r, kind) ==
    /\ asked' = IF link = "down" THEN asked
                ELSE [asked EXCEPT ![kind] =
                         Append(@, [kind |-> kind, xid |-> nextXid, part |-> 1])]
    /\ mine' = [mine EXCEPT ![r][kind] = nextXid]
    /\ nextXid' = nextXid + 1

RequestFlows(r) ==
    /\ step[r] = "flows"
    /\ Turn(r)
    /\ Ask(r, "flows")
    /\ step' = [step EXCEPT ![r] = "ports"]
    /\ UNCHANGED <<xids, acc, flows, published, loop, wire, rounds, linkVars>>

RequestPorts(r) ==
    /\ step[r] = "ports"
    /\ Turn(r)
    /\ Ask(r, "ports")
    /\ step' = [step EXCEPT ![r] = "register"]
    /\ UNCHANGED <<xids, acc, flows, published, loop, wire, rounds, linkVars>>

RegisterXids(r) ==
    /\ step[r] = "register"
    /\ Turn(r)
    /\ xids' = [present |-> TRUE, skipped |-> 0, flows |-> mine[r].flows,
                ports |-> mine[r].ports, tables |-> 0]
    /\ step' = [step EXCEPT ![r] = IF HasTables THEN "tables" ELSE "idle"]
    /\ mine' = [mine EXCEPT ![r] = NoneMine]
    /\ UNCHANGED <<acc, flows, published, loop, asked, wire, nextXid, rounds, linkVars>>

RequestTables(r) ==
    /\ step[r] = "tables"
    /\ Turn(r)
    /\ Ask(r, "tables")
    /\ step' = [step EXCEPT ![r] = "update"]
    /\ UNCHANGED <<xids, acc, flows, published, loop, wire, rounds, linkVars>>

\* KeyError, and the end of the thread, if the xids were popped meanwhile.
UpdateXids(r) ==
    /\ step[r] = "update"
    /\ Turn(r)
    /\ xids' = IF xids.present THEN [xids EXCEPT !.tables = mine[r].tables] ELSE xids
    /\ step' = [step EXCEPT ![r] = "idle"]
    /\ mine' = [mine EXCEPT ![r] = NoneMine]
    /\ UNCHANGED <<acc, flows, published, loop, asked, wire, nextXid, rounds, linkVars>>

-------------------------------------------------------------------------------
(* The switch (external): it answers requests of a kind in order, part by  *)
(* part, or not at all.                                                    *)

SwitchSendsPart(kind) ==
    /\ link = "up"
    /\ Len(wire[kind]) < MaxOnWire
    /\ asked[kind] # <<>>
    /\ LET q == Head(asked[kind])
       IN  /\ wire' = [wire EXCEPT ![kind] = Append(@, q)]
           /\ asked' = [asked EXCEPT ![kind] =
                            IF q.part < Parts
                            THEN <<[q EXCEPT !.part = @ + 1]>> \o Tail(@) ELSE Tail(@)]
    /\ UNCHANGED <<xids, acc, flows, published, reqVars, loop, linkVars>>

SwitchGivesUp(kind) ==
    /\ asked[kind] # <<>>
    /\ asked' = [asked EXCEPT ![kind] = Tail(@)]
    /\ UNCHANGED <<xids, acc, flows, published, reqVars, loop, wire, linkVars>>

-------------------------------------------------------------------------------
(* _handle_multipart_reply, on the event loop.  Replies of different kinds *)
(* have nothing in common but the dictionary of xids: any order is taken.  *)

\* Mutant of Ours: the answer to any request is taken.
OursIfPending(q) == xids.present /\ xids[q.kind] # 0

\* _is_multipart_reply_ours.
Ours(q) == xids.present /\ xids[q.kind] = q.xid

HandleReply(kind, i) ==
    /\ loop = Idle
    /\ LoopTurn
    /\ MayReorder \/ i = 1
    /\ wire' = [wire EXCEPT ![kind] = RemoveAt(@, i)]
    /\ loop' = IF Ours(wire[kind][i])
               THEN [at |-> "extend", reply |-> wire[kind][i], list |-> <<>>]
               ELSE Idle
    /\ UNCHANGED <<xids, acc, flows, published, reqVars, asked, linkVars>>

\* Any number of the parts of each kind.
Cuts == [flows : 0 .. Len(wire.flows), ports : 0 .. Len(wire.ports),
         tables : 0 .. Len(wire.tables)]

\* An exception ends the task, and the other replies of its batch are lost.
LoseRest ==
    \E n \in Cuts :
        wire' = [k \in Kinds |-> SubSeq(wire[k], n[k] + 1, Len(wire[k]))]

\* A flow entry that cannot be read (FlowTable's Readable).
ExtendRaises ==
    /\ loop.at = "extend"
    /\ LoopTurn
    /\ Unreadable
    /\ loop.reply.kind = "flows"
    /\ LoseRest
    /\ loop' = Idle
    /\ UNCHANGED <<xids, acc, flows, published, reqVars, asked, linkVars>>

\* The last part has no flag for more replies.
Extend ==
    /\ loop.at = "extend"
    /\ LoopTurn
    /\ acc' = [acc EXCEPT ![loop.reply.kind] =
                   Append(@, [xid |-> loop.reply.xid, part |-> loop.reply.part])]
    /\ loop' = IF loop.reply.part < Parts THEN Idle ELSE [loop EXCEPT !.at = "collect"]
    /\ UNCHANGED <<xids, flows, published, reqVars, asked, wire, linkVars>>

\* The list is read: it is a new one, and empty, if a thread has cleared it ...
Collect ==
    /\ loop.at = "collect"
    /\ LoopTurn
    /\ loop' = [loop EXCEPT !.at = IF loop.reply.kind = "flows" THEN "take" ELSE "delete",
                            !.list = acc[loop.reply.kind]]
    /\ UNCHANGED <<xids, acc, flows, published, reqVars, asked, wire, linkVars>>

\* ... for flows once more, to be the flows of the switch ...
TakeFlows ==
    /\ loop.at = "take"
    /\ LoopTurn
    /\ flows' = acc["flows"]
    /\ loop' = [loop EXCEPT !.at = "delete"]
    /\ UNCHANGED <<xids, acc, published, reqVars, asked, wire, linkVars>>

\* What the last read of the list has found.
LastRead == IF loop.reply.kind = "flows" THEN flows ELSE loop.list

\* Mutant of Delete: the list stays.
DeleteNothing ==
    /\ loop.at = "delete"
    /\ LoopTurn
    /\ acc[loop.reply.kind] # <<>> \/ LastRead = <<>>
    /\ loop' = [loop EXCEPT !.at = "finish"]
    /\ UNCHANGED <<xids, acc, flows, published, reqVars, asked, wire, linkVars>>

\* ... and deleted, if no thread has cleared it since it was read.
Delete ==
    /\ loop.at = "delete"
    /\ LoopTurn
    /\ acc[loop.reply.kind] # <<>> \/ LastRead = <<>>
    /\ acc' = [acc EXCEPT ![loop.reply.kind] = <<>>]
    /\ loop' = [loop EXCEPT !.at = "finish"]
    /\ UNCHANGED <<xids, flows, published, reqVars, asked, wire, linkVars>>

\* The request is no longer pending, and the list is published.
Publish ==
    /\ loop.at = "finish"
    /\ LoopTurn
    /\ xids[loop.reply.kind] # 0
    /\ xids' = [xids EXCEPT ![loop.reply.kind] = 0]
    /\ published' = [published EXCEPT ![loop.reply.kind] = Append(@, loop.list)]
    /\ loop' = Idle
    /\ UNCHANGED <<acc, flows, reqVars, asked, wire, linkVars>>

\* A thread has cleared the list since it was read (a list that was empty then
\* is there, unless it was cleared once more), or popped the xids.
Missing == \/ loop.at = "delete" /\ acc[loop.reply.kind] = <<>>
           \/ loop.at = "finish" /\ xids[loop.reply.kind] = 0

\* KeyError: logged for flows and tables; for ports it ends the task.
FinishRaises ==
    /\ LoopTurn
    /\ Missing
    /\ loop' = Idle
    /\ IF loop.reply.kind = "ports" THEN LoseRest ELSE wire' = wire
    /\ UNCHANGED <<xids, acc, flows, published, reqVars, asked, linkVars>>

-------------------------------------------------------------------------------
(* The connection of the switch.                                           *)

\* Mutant of PopMultipartReplies: the count of skipped rounds has no default.
PopWithoutSkipped ==
    /\ xids' = [present |-> FALSE, flows |-> 0, ports |-> 0, tables |-> 0]
    /\ acc' = NoLists

PopMultipartReplies == xids' = NoXids /\ acc' = NoLists

\* A further features reply (in a thread), or an error of the connection or of
\* an earlier one (on the loop).
Reset ==
    /\ pops < MaxPops
    /\ ThreadsInterleave \/ Between
    /\ PopMultipartReplies
    /\ pops' = pops + 1
    /\ UNCHANGED <<flows, published, reqVars, loop, asked, wire, link>>

\* The connection closes (external): what was asked is lost, and of what the
\* switch has sent only what was read before is still handled.
ConnectionLost ==
    /\ link = "up"
    /\ pops < MaxPops
    /\ ThreadsInterleave \/ Between
    /\ link' = "down"
    /\ pops' = pops + 1
    /\ asked' = NoLists
    /\ \E n \in Cuts :
          wire' = [k \in Kinds |-> SubSeq(wire[k], 1, n[k])]
    /\ UNCHANGED <<xids, acc, flows, published, reqVars, loop>>

\* The switch connects again: the features reply binds its new connection ...
Reconnect ==
    /\ link = "down"
    /\ ThreadsInterleave \/ Between
    /\ link' = "bound"
    /\ UNCHANGED <<xids, acc, flows, published, reqVars, loop, asked, wire, pops>>

\* ... and resets what is pending before the connection is established.
HandshakeResets ==
    /\ link = "bound"
    /\ PopMultipartReplies
    /\ link' = "up"
    /\ UNCHANGED <<flows, published, reqVars, loop, asked, wire, pops>>

-------------------------------------------------------------------------------
Requester(r) == \/ SkipRound(r) \/ StartRound(r) \/ RequestFlows(r) \/ RequestPorts(r)
                \/ RegisterXids(r) \/ RequestTables(r) \/ UpdateXids(r)

Loop == \/ \E k \in Kinds : \E i \in DOMAIN wire[k] : HandleReply(k, i)
        \/ Extend \/ ExtendRaises \/ Collect \/ TakeFlows \/ Delete \/ Publish \/ FinishRaises

Next == \/ \E r \in Requesters : Requester(r)
        \/ \E k \in Kinds : SwitchSendsPart(k) \/ SwitchGivesUp(k)
        \/ Loop
        \/ Reset \/ ConnectionLost \/ Reconnect \/ HandshakeResets

\* The timer goes off for ever while the switch is connected, the threads run,
\* and the loop handles what was read.  The switch owes nothing.
Fairness == /\ \A r \in Requesters : WF_vars(link # "down" /\ Requester(r))
            /\ WF_vars(HandshakeResets)
            /\ WF_vars(Loop)

Spec == Init /\ [][Next]_vars
FairSpec == Spec /\ Fairness

-------------------------------------------------------------------------------
(* Properties.                                                             *)

Item == [xid : Nat, part : 1 .. Parts]
Part == [kind : Kinds, xid : Nat, part : 1 .. Parts]

\* Every variable has its type.
TypeOK ==
    /\ xids \in [present : BOOLEAN, skipped : Nat, flows : Nat, ports : Nat, tables : Nat]
    /\ acc \in [Kinds -> Seq(Item)]
    /\ flows \in Seq(Item)
    /\ published \in [Kinds -> Seq(Seq(Item))]
    /\ step \in [Requesters -> {"idle", "flows", "ports", "register", "tables", "update"}]
    /\ mine \in [Requesters -> [Kinds -> Nat]]
    /\ loop \in [at : {"idle", "extend", "collect", "take", "delete", "finish"},
                 reply : Part \union {Idle.reply}, list : Seq(Item)]
    /\ loop.at = "idle" <=> loop = Idle
    /\ loop # Idle => loop.reply \in Part
    /\ asked \in [Kinds -> Seq(Part)] /\ wire \in [Kinds -> Seq(Part)]
    /\ nextXid \in Nat /\ rounds \in Nat /\ link \in {"up", "down", "bound"} /\ pops \in Nat

Whole(list) == \E x \in 1 .. nextXid :
                   list = [i \in 1 .. Parts |-> [xid |-> x, part |-> i]]

\* A published list is the whole answer to one request: nothing missing,
\* nothing twice, nothing of another request, whatever was given up, reset or
\* skipped before (README.rst: flow_stats.received carries "the assembled flows
\* that have been just received").
CompleteLists ==
    \A k \in Kinds : \A i \in DOMAIN published[k] : Whole(published[k][i])

\* No item is published twice.
PublishedOnce ==
    \A k \in Kinds : \A i, j \in DOMAIN published[k] :
        i # j => Range(published[k][i]) \intersect Range(published[k][j]) = {}

\* Statistics that a switch never answers are asked for again, or answered
\* after all, as long as it is connected: a pending request does not stop the
\* collection, and neither does one that was lost with an earlier connection.
NeverStuck ==
    \A n \in 1 .. MaxRounds - 1 :
        (rounds = n /\ Pending) ~> (rounds > n \/ ~Pending \/ link = "down")

\* The abstract view: the xid of an answer that is whole, and 0 of any other.
XidOf(list) == IF Whole(list) THEN Head(list).xid ELSE 0
Rounds == INSTANCE StatsRounds WITH
              pending  <- [k \in Kinds |-> xids[k]],
              answered <- [k \in Kinds |-> [i \in DOMAIN published[k] |-> XidOf(published[k][i])]],
              newest   <- nextXid - 1

\* The collector implements StatsRounds: what it publishes of each kind are the
\* whole answers to requests that are pending then, each once and in the order
\* of the requests, and what was given up, reset, or lost with a connection is
\* never answered after that.
ImplementsRounds == Rounds!Spec
===============================================================================
