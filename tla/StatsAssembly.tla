----------------------------- MODULE StatsAssembly -----------------------------
(***************************************************************************)
(* How StatsCollector assembles its lists when its handlers run one after  *)
(* the other and replies are handled in the order in which they came: the  *)
(* inductive invariant from which the proofs derive that every published   *)
(* list is whole (StatsCollectorProofs).                                   *)
(***************************************************************************)
EXTENDS StatsInvariants

\* The handlers as most of the properties suppose them: without interleaving,
\* reordering, or entries that cannot be read.
Sequential == ~ThreadsInterleave /\ ~MayReorder /\ ~Unreadable

\* A thread has cleared the lists and not yet recorded the xids of its requests.
Asking == \E r \in Requesters : step[r] \in {"flows", "ports", "register"}

\* One handler at a time, and none while a new connection is not yet reset.
OneAtATime ==
    /\ \A r, s \in Requesters : step[r] # "idle" /\ step[s] # "idle" => r = s
    /\ (\E r \in Requesters : step[r] # "idle") => loop = Idle /\ link # "bound"
    /\ link = "bound" => loop = Idle

\* What is still to come of a kind: what was sent, and what is yet to be sent.
Stream(k) == wire[k] \o asked[k]

\* Replies come request by request, part by part ...
InOrder(s) ==
    \A i, j \in DOMAIN s : i < j => \/ s[i].xid < s[j].xid
                                    \/ s[i].xid = s[j].xid /\ s[i].part < s[j].part

\* ... each part right after the one before.
NoGaps(s) ==
    \A i \in DOMAIN s : \/ i = 1 \/ s[i].part = 1
                        \/ s[i - 1].xid = s[i].xid /\ s[i].part = s[i - 1].part + 1

\* The next part of the answer to x, if there is one, comes after n parts.
Follows(s, x, n) ==
    \A i \in DOMAIN s : s[i].xid = x /\ (i = 1 \/ s[i - 1].xid # x) => s[i].part = n + 1

StreamInOrder(k) ==
    /\ InOrder(Stream(k)) /\ NoGaps(Stream(k))
    /\ \A i \in DOMAIN Stream(k) : Stream(k)[i].xid # 0

FirstParts(x, n) == [i \in 1 .. n |-> [xid |-> x, part |-> i]]

\* How many parts of the pending request were handled.
Handled(k) == IF loop.reply.kind # k \/ loop.at \notin {"extend", "finish"} THEN Len(acc[k])
              ELSE IF loop.at = "extend" THEN Len(acc[k]) + 1 ELSE Len(loop.list)

\* What is assembled are the first parts of the answer to the pending request,
\* and its other parts are still to come, or none.
Assembling(k) ==
    /\ xids[k] = 0 => acc[k] = <<>>
    /\ xids[k] # 0 /\ ~Asking => /\ acc[k] = FirstParts(xids[k], Len(acc[k]))
                                 /\ Follows(Stream(k), xids[k], Handled(k))

\* The reply at hand is the next part of the pending request, and the list at
\* hand is whole.
AtHand ==
    loop # Idle =>
        /\ xids[loop.reply.kind] = loop.reply.xid /\ loop.reply.xid # 0
        /\ loop.at = "extend" => loop.reply.part = Len(acc[loop.reply.kind]) + 1
        /\ loop.at \in {"collect", "take", "delete"} => Len(acc[loop.reply.kind]) = Parts
        /\ loop.at = "take" => loop.reply.kind = "flows"
        /\ loop.at \in {"take", "delete"} => loop.list = acc[loop.reply.kind]
        /\ loop.at = "finish" => /\ acc[loop.reply.kind] = <<>>
                                 /\ loop.list = FirstParts(loop.reply.xid, Parts)

\* While a thread asks, nothing is assembled, and what is pending was skipped
\* for long enough; the request for tables is recorded last.
FreshStart ==
    /\ Asking => acc = NoLists
    /\ Asking /\ Pending => xids.skipped >= StatsReqSkip
    /\ Pending => xids.present
    /\ (\E r \in Requesters : step[r] \in {"tables", "update"}) => xids.tables = 0

\* The requests that a thread has not recorded yet are newer than all others,
\* and no part of their answers was handled.
MineAreNew ==
    \A r \in Requesters :
        /\ step[r] \in {"idle", "flows"} => mine[r] = NoneMine
        /\ \A k \in Kinds : mine[r][k] # 0 =>
              /\ mine[r][k] < nextXid /\ mine[r][k] > xids[k]
              /\ \A i \in DOMAIN published[k] : XidOf(published[k][i]) < mine[r][k]
              /\ Follows(Stream(k), mine[r][k], 0)

\* Published lists are whole answers to earlier requests.
OutWhole ==
    /\ \A k \in Kinds : /\ xids[k] < nextXid
                        /\ \A i \in DOMAIN published[k] :
                              \E x \in 1 .. nextXid - 1 : published[k][i] = FirstParts(x, Parts)
    /\ flows # <<>> => \E x \in 1 .. nextXid - 1 : flows = FirstParts(x, Parts)

\* The inductive invariant of the collector with handlers in sequence.
AssemblyInv ==
    /\ OneAtATime /\ AtHand /\ FreshStart /\ MineAreNew /\ OutWhole
    /\ \A k \in Kinds : StreamInOrder(k) /\ Assembling(k)
===============================================================================
