------------------------- MODULE StatsCollectorProofs --------------------------
(***************************************************************************)
(* Proofs about StatsCollector, for any threads that request statistics and*)
(* any switch, in two parts: the places of items, whatever interleaves; the*)
(* assembly of lists and StatsRounds, with handlers in turn.               *)
(***************************************************************************)
EXTENDS StatsAssembly, TLAPS, SequenceTheorems

-------------------------------------------------------------------------------
(* Part 1.  The variables keep their types, and no item of a reply is      *)
(* published twice, in whatever order threads, replies and losses of the   *)
(* connection come.                                                        *)
(*                                                                         *)
(* Sequences of replies, and what the actions do with them.                *)

LEMMA PartItem ==
  ASSUME NEW q \in Part
  PROVE  /\ ItemOf(q) \in Item /\ ItemOf(q).xid = q.xid /\ ItemOf(q).part = q.part
         /\ q.kind \in Kinds /\ q.xid \in Nat /\ q.part \in 1 .. Parts
BY DEF ItemOf, Item, Part

\* Some replies of a sequence of them, in their order: what is left is taken
\* from other places of the sequence.
LEMMA SomeReplies ==
  ASSUME NEW s \in Seq(Part), NEW t \in Seq(Part), NEW k,
         NEW f, \A i \in DOMAIN t : f[i] \in DOMAIN s /\ t[i] = s[f[i]],
         \A i, j \in DOMAIN t : i # j => f[i] # f[j]
  PROVE  /\ Items(t) \subseteq Items(s)
         /\ Replies(s, k) => Replies(t, k)
<1>1. Items(t) \subseteq Items(s)
  <2>1. ASSUME NEW i \in DOMAIN t PROVE ItemOf(t[i]) \in Items(s)
    BY DEF Items
  <2>. QED  BY <2>1 DEF Items
<1>2. ASSUME Replies(s, k) PROVE Replies(t, k)
  <2>1. ASSUME NEW i \in DOMAIN t PROVE t[i].kind = k
    BY <1>2 DEF Replies
  <2>2. ASSUME NEW i \in DOMAIN t, NEW j \in DOMAIN t, i # j
        PROVE  ItemOf(t[i]) # ItemOf(t[j])
    <3>1. /\ f[i] \in DOMAIN s /\ f[j] \in DOMAIN s /\ f[i] # f[j]
          /\ t[i] = s[f[i]] /\ t[j] = s[f[j]]
      BY <2>2
    <3>. QED  BY <1>2, <3>1, Zenon DEF Replies
  <2>. QED  BY <2>1, <2>2 DEF Replies
<1>. QED  BY <1>1, <1>2

LEMMA CutReplies ==
  ASSUME NEW s \in Seq(Part), NEW k, NEW m \in 1 .. Len(s) + 1, NEW n \in 0 .. Len(s)
  PROVE  /\ SubSeq(s, m, n) \in Seq(Part)
         /\ Items(SubSeq(s, m, n)) \subseteq Items(s)
         /\ Replies(s, k) => Replies(SubSeq(s, m, n), k)
<1> DEFINE t == SubSeq(s, m, n)
           f == [i \in DOMAIN t |-> m + i - 1]
<1>1. /\ t \in Seq(Part) /\ DOMAIN t = 1 .. Len(t) /\ DOMAIN s = 1 .. Len(s)
      /\ Len(t) = IF m <= n THEN n - m + 1 ELSE 0
      /\ \A i \in 1 .. n - m + 1 : t[i] = s[m + i - 1]
      /\ Len(s) \in Nat /\ m \in Nat /\ n \in Nat
  BY SubSeqProperties
<1>2. \A i \in DOMAIN t : f[i] \in DOMAIN s /\ t[i] = s[f[i]]
  BY <1>1, SMTT(30)
<1>3. \A i, j \in DOMAIN t : i # j => f[i] # f[j]
  BY <1>1
<1>. HIDE DEF f, t
<1>4. Items(t) \subseteq Items(s) /\ (Replies(s, k) => Replies(t, k))
  BY <1>1, <1>2, <1>3, SomeReplies
<1>. QED  BY <1>1, <1>4 DEF t

LEMMA TakenReply ==
  ASSUME NEW s \in Seq(Part), NEW k, NEW i \in DOMAIN s
  PROVE  /\ RemoveAt(s, i) \in Seq(Part)
         /\ s[i] \in Part /\ ItemOf(s[i]) \in Items(s)
         /\ Items(RemoveAt(s, i)) \subseteq Items(s)
         /\ Replies(s, k) => /\ Replies(RemoveAt(s, i), k)
                             /\ s[i].kind = k
                             /\ ItemOf(s[i]) \notin Items(RemoveAt(s, i))
<1> DEFINE a == SubSeq(s, 1, i - 1)
           b == SubSeq(s, i + 1, Len(s))
           t == RemoveAt(s, i)
           f == [j \in DOMAIN t |-> IF j < i THEN j ELSE j + 1]
<1>1. i \in 1 .. Len(s) /\ Len(s) \in Nat /\ DOMAIN s = 1 .. Len(s) /\ s[i] \in Part
  OBVIOUS
<1>2. /\ a \in Seq(Part) /\ Len(a) = i - 1 /\ \A j \in 1 .. i - 1 : a[j] = s[j]
  BY <1>1, SubSeqProperties, SMTT(30)
<1>3. /\ b \in Seq(Part) /\ Len(b) = Len(s) - i
      /\ \A j \in 1 .. Len(s) - i : b[j] = s[i + j]
  BY <1>1, SubSeqProperties, SMTT(30)
<1>. HIDE DEF a, b
<1>4. t = a \o b
  BY DEF RemoveAt, a, b
<1>5. /\ t \in Seq(Part) /\ DOMAIN t = 1 .. Len(s) - 1
      /\ \A j \in 1 .. Len(s) - 1 : t[j] = IF j < i THEN s[j] ELSE s[j + 1]
  <2>1. /\ a \o b \in Seq(Part) /\ Len(a \o b) = Len(a) + Len(b)
        /\ \A j \in 1 .. Len(a) + Len(b) :
              (a \o b)[j] = IF j <= Len(a) THEN a[j] ELSE b[j - Len(a)]
    BY <1>2, <1>3, ConcatProperties
  <2>2. ASSUME NEW j \in 1 .. Len(s) - 1 PROVE t[j] = IF j < i THEN s[j] ELSE s[j + 1]
    <3>1. CASE j < i
      <4>1. j \in 1 .. Len(a) + Len(b) /\ j <= Len(a) /\ j \in 1 .. i - 1
        BY <1>1, <1>2, <1>3, <3>1
      <4>. QED  BY <1>2, <1>4, <2>1, <3>1, <4>1
    <3>2. CASE j >= i
      <4>1. t[j] = b[j - (i - 1)] /\ j - (i - 1) \in 1 .. Len(s) - i
        <5>1. j \in 1 .. Len(a) + Len(b) /\ ~(j <= Len(a)) /\ Len(a) = i - 1
          BY <1>1, <1>2, <1>3, <3>2
        <5>2. j - (i - 1) \in 1 .. Len(s) - i
          BY <1>1, <3>2
        <5>. QED  BY <1>4, <2>1, <5>1, <5>2
      <4>2. b[j - (i - 1)] = s[i + (j - (i - 1))] /\ i + (j - (i - 1)) = j + 1
        BY <1>1, <1>3, <4>1
      <4>. QED  BY <1>1, <3>2, <4>1, <4>2
    <3>. QED  BY <1>1, <3>1, <3>2
  <2>3. t \in Seq(Part) /\ DOMAIN t = 1 .. Len(s) - 1
    <3>1. Len(a \o b) = Len(s) - 1
      BY <1>1, <1>2, <1>3, <2>1
    <3>2. DOMAIN (a \o b) = 1 .. Len(a \o b)
      BY <2>1
    <3>. QED  BY <1>4, <2>1, <3>1, <3>2
  <2>. QED  BY <2>2, <2>3
<1>. HIDE DEF t
<1>6. \A j \in DOMAIN t : f[j] \in DOMAIN s /\ t[j] = s[f[j]] /\ f[j] # i
  BY <1>1, <1>5
<1>7. \A j, l \in DOMAIN t : j # l => f[j] # f[l]
  BY <1>1, <1>5
<1>. HIDE DEF f
<1>8. Items(t) \subseteq Items(s) /\ (Replies(s, k) => Replies(t, k))
  BY <1>1, <1>5, <1>6, <1>7, SomeReplies
<1>9. ItemOf(s[i]) \in Items(s)
  BY DEF Items
<1>10. ASSUME Replies(s, k) PROVE s[i].kind = k /\ ItemOf(s[i]) \notin Items(t)
  <2>1. \A j \in DOMAIN t : ItemOf(t[j]) # ItemOf(s[i])
    BY <1>6, <1>10 DEF Replies
  <2>. QED  BY <1>10, <2>1 DEF Items, Replies
<1>. QED  BY <1>1, <1>5, <1>8, <1>9, <1>10 DEF t

LEMMA AddedReply ==
  ASSUME NEW s \in Seq(Part), NEW q \in Part, NEW k
  PROVE  /\ Append(s, q) \in Seq(Part)
         /\ Items(Append(s, q)) = Items(s) \union {ItemOf(q)}
         /\ Replies(s, k) /\ q.kind = k /\ ItemOf(q) \notin Items(s) => Replies(Append(s, q), k)
<1> DEFINE t == Append(s, q)
<1>1. /\ t \in Seq(Part) /\ Len(s) \in Nat /\ DOMAIN s = 1 .. Len(s)
      /\ DOMAIN t = 1 .. Len(s) + 1 /\ \A i \in 1 .. Len(s) : t[i] = s[i]
      /\ t[Len(s) + 1] = q
  BY AppendProperties
<1>. HIDE DEF t
<1>2. Items(t) = Items(s) \union {ItemOf(q)}
  <2>1. ASSUME NEW i \in DOMAIN t PROVE ItemOf(t[i]) \in Items(s) \union {ItemOf(q)}
    BY <1>1 DEF Items
  <2>2. ASSUME NEW i \in DOMAIN s PROVE ItemOf(s[i]) \in Items(t)
    <3>1. i \in DOMAIN t /\ t[i] = s[i]
      BY <1>1
    <3>. QED  BY <3>1 DEF Items
  <2>3. ItemOf(q) \in Items(t)
    <3>1. Len(s) + 1 \in DOMAIN t /\ t[Len(s) + 1] = q
      BY <1>1
    <3>. QED  BY <3>1 DEF Items
  <2>. QED  BY <2>1, <2>2, <2>3 DEF Items
<1>3. ASSUME Replies(s, k), q.kind = k, ItemOf(q) \notin Items(s) PROVE Replies(t, k)
  <2>1. \A i \in DOMAIN s : ItemOf(s[i]) # ItemOf(q)
    BY <1>3 DEF Items
  <2>. QED  BY <1>1, <1>3, <2>1 DEF Replies
<1>. QED  BY <1>1, <1>2, <1>3 DEF t

LEMMA AddedItem ==
  ASSUME NEW s \in Seq(Item), NEW e \in Item
  PROVE  Append(s, e) \in Seq(Item) /\ Range(Append(s, e)) = Range(s) \union {e}
<1>1. /\ <<e>> \in Seq(Item) /\ Range(<<e>>) = {e} /\ Append(s, e) = s \o <<e>>
  BY AppendIsConcat DEF Range
<1>2. Range(s \o <<e>>) = Range(s) \union Range(<<e>>)
  <2>1. <<e>> \in Seq(Item)
    BY <1>1
  <2>. QED  BY <2>1, RangeConcatenation, ZenonT(30)
<1>. QED  BY <1>1, <1>2, AppendProperties

\* The next part of a reply.
LEMMA NextPart ==
  ASSUME NEW q \in Part, q.part < Parts
  PROVE  LET n == [q EXCEPT !.part = @ + 1]
         IN  n \in Part /\ n.kind = q.kind /\ n.xid = q.xid /\ n.part = q.part + 1
BY StatsAssumption DEF Part

LEMMA NoItems == Range(<<>>) = {} /\ Items(<<>>) = {}
BY DEF Range, Items

-------------------------------------------------------------------------------
(* The variables keep their types.                                         *)

LEMMA InitTypeOK == Init => TypeOK
<1>1. SUFFICES ASSUME Init PROVE TypeOK
  OBVIOUS
<1>2. /\ NoLists \in [Kinds -> Seq(Item)] /\ NoLists \in [Kinds -> Seq(Seq(Item))]
      /\ NoLists \in [Kinds -> Seq(Part)] /\ NoneMine \in [Kinds -> Nat]
  BY DEF NoLists, NoneMine
<1>3. /\ Idle \in [at : {"idle", "extend", "collect", "take", "delete", "finish"},
                   reply : Part \union {Idle.reply}, list : Seq(Item)]
      /\ Idle.at = "idle"
  BY DEF Idle
<1>. QED  BY <1>1, <1>2, <1>3 DEF Init, TypeOK, NoXids

\* The xid of a kind: one of three fields.
LEMMA XidsOfKinds ==
  ASSUME TypeOK, NEW k \in Kinds, NEW x \in Nat
  PROVE  /\ xids[k] \in Nat
         /\ [xids EXCEPT ![k] = x] \in
               [present : BOOLEAN, skipped : Nat, flows : Nat, ports : Nat, tables : Nat]
<1>1. CASE k = "flows"
  BY <1>1 DEF TypeOK
<1>2. CASE k = "ports"
  BY <1>2 DEF TypeOK
<1>3. CASE k = "tables"
  BY <1>3 DEF TypeOK
<1>. QED  BY <1>1, <1>2, <1>3 DEF Kinds

LEMMA CutAt ==
  ASSUME NEW n \in Cuts, NEW k \in Kinds
  PROVE  n[k] \in 0 .. Len(wire[k])
<1>1. CASE k = "flows"
  BY <1>1 DEF Cuts
<1>2. CASE k = "ports"
  BY <1>2 DEF Cuts
<1>3. CASE k = "tables"
  BY <1>3 DEF Cuts
<1>. QED  BY <1>1, <1>2, <1>3 DEF Kinds

\* What is left on the wire when a task ends or a connection is lost: of every
\* kind, a cut of what was there.
LEMMA CutWires ==
  ASSUME TypeOK,
         \/ LoseRest
         \/ \E n \in Cuts : wire' = [k \in Kinds |-> SubSeq(wire[k], 1, n[k])]
  PROVE  /\ wire' \in [Kinds -> Seq(Part)]
         /\ \A k \in Kinds : /\ Items(wire'[k]) \subseteq Items(wire[k])
                             /\ Replies(wire[k], k) => Replies(wire'[k], k)
<1>1. \A k \in Kinds : wire[k] \in Seq(Part) /\ Len(wire[k]) \in Nat
  BY DEF TypeOK
<1>2. ASSUME NEW n \in Cuts, NEW k \in Kinds PROVE n[k] \in 0 .. Len(wire[k])
  BY CutAt
<1>3. CASE LoseRest
  <2>1. PICK n \in Cuts : wire' = [k \in Kinds |-> SubSeq(wire[k], n[k] + 1, Len(wire[k]))]
    BY <1>3 DEF LoseRest
  <2>2. ASSUME NEW k \in Kinds
        PROVE  /\ wire'[k] \in Seq(Part) /\ Items(wire'[k]) \subseteq Items(wire[k])
               /\ Replies(wire[k], k) => Replies(wire'[k], k)
    <3>1. wire'[k] = SubSeq(wire[k], n[k] + 1, Len(wire[k]))
      BY <2>1
    <3>2. n[k] + 1 \in 1 .. Len(wire[k]) + 1 /\ Len(wire[k]) \in 0 .. Len(wire[k])
      BY <1>1, <1>2
    <3>. QED  BY <1>1, <3>1, <3>2, CutReplies
  <2>. QED  BY <2>1, <2>2
<1>4. CASE \E n \in Cuts : wire' = [k \in Kinds |-> SubSeq(wire[k], 1, n[k])]
  <2>1. PICK n \in Cuts : wire' = [k \in Kinds |-> SubSeq(wire[k], 1, n[k])]
    BY <1>4
  <2>2. ASSUME NEW k \in Kinds
        PROVE  /\ wire'[k] \in Seq(Part) /\ Items(wire'[k]) \subseteq Items(wire[k])
               /\ Replies(wire[k], k) => Replies(wire'[k], k)
    <3>1. wire'[k] = SubSeq(wire[k], 1, n[k])
      BY <2>1
    <3>2. 1 \in 1 .. Len(wire[k]) + 1 /\ n[k] \in 0 .. Len(wire[k])
      BY <1>1, <1>2
    <3>. QED  BY <1>1, <3>1, <3>2, CutReplies
  <2>. QED  BY <2>1, <2>2
<1>. QED  BY <1>3, <1>4

\* A request is queued.
LEMMA AskType ==
  ASSUME TypeOK, NEW r \in Requesters, NEW kind \in Kinds, Ask(r, kind)
  PROVE  /\ asked' \in [Kinds -> Seq(Part)] /\ nextXid' \in Nat
         /\ mine' \in [Requesters -> [Kinds -> Nat]]
<1>1. [kind |-> kind, xid |-> nextXid, part |-> 1] \in Part
  BY StatsAssumption DEF TypeOK, Part
<1>2. Append(asked[kind], [kind |-> kind, xid |-> nextXid, part |-> 1]) \in Seq(Part)
  BY <1>1, AppendProperties DEF TypeOK
<1>. QED  BY <1>2 DEF Ask, TypeOK

LEMMA RequesterType ==
  ASSUME TypeOK, NEW r \in Requesters, Requester(r)
  PROVE  TypeOK'
<1>. USE DEF reqVars, linkVars
<1>0. NoLists \in [Kinds -> Seq(Item)] /\ NoneMine \in [Kinds -> Nat]
  BY DEF NoLists, NoneMine
<1>1. CASE SkipRound(r)
  <2>0. xids \in [present : BOOLEAN, skipped : Nat, flows : Nat, ports : Nat, tables : Nat]
        /\ xids' = [xids EXCEPT !.skipped = @ + 1]
    BY <1>1 DEF SkipRound, TypeOK
  <2>1. xids' \in [present : BOOLEAN, skipped : Nat, flows : Nat, ports : Nat, tables : Nat]
    BY <2>0
  <2>. QED  BY <1>1, <2>1 DEF SkipRound, TypeOK
<1>2. CASE StartRound(r)
  BY <1>0, <1>2 DEF StartRound, TypeOK
<1>3. CASE RequestFlows(r)
  <2>1. "flows" \in Kinds
    BY DEF Kinds
  <2>. QED  BY <1>3, <2>1, AskType DEF RequestFlows, TypeOK
<1>4. CASE RequestPorts(r)
  <2>1. "ports" \in Kinds
    BY DEF Kinds
  <2>. QED  BY <1>4, <2>1, AskType DEF RequestPorts, TypeOK
<1>5. CASE RegisterXids(r)
  <2>0. mine[r] \in [Kinds -> Nat]
    BY DEF TypeOK
  <2>1. mine[r].flows \in Nat /\ mine[r].ports \in Nat
    BY <2>0 DEF Kinds
  <2>. QED  BY <1>0, <1>5, <2>1 DEF RegisterXids, TypeOK
<1>6. CASE RequestTables(r)
  <2>1. "tables" \in Kinds
    BY DEF Kinds
  <2>. QED  BY <1>6, <2>1, AskType DEF RequestTables, TypeOK
<1>7. CASE UpdateXids(r)
  <2>1. mine[r].tables \in Nat
    BY DEF TypeOK, Kinds
  <2>. QED  BY <1>0, <1>7, <2>1 DEF UpdateXids, TypeOK
<1>. QED  BY <1>1, <1>2, <1>3, <1>4, <1>5, <1>6, <1>7 DEF Requester

LEMMA SwitchType ==
  ASSUME TypeOK, NEW kind \in Kinds, SwitchSendsPart(kind) \/ SwitchGivesUp(kind)
  PROVE  TypeOK'
<1>. USE DEF reqVars, linkVars
<1>0. asked[kind] \in Seq(Part) /\ wire[kind] \in Seq(Part)
  BY DEF TypeOK
<1>1. asked[kind] # <<>>
  BY DEF SwitchSendsPart, SwitchGivesUp
<1>2. Head(asked[kind]) \in Part /\ Tail(asked[kind]) \in Seq(Part)
  BY <1>0, <1>1
<1>3. CASE SwitchSendsPart(kind)
  <2> DEFINE q == Head(asked[kind])
             n == [q EXCEPT !.part = @ + 1]
  <2>1. Append(wire[kind], q) \in Seq(Part)
    BY <1>0, <1>2, AppendProperties
  <2>2. ASSUME q.part < Parts PROVE <<n>> \o Tail(asked[kind]) \in Seq(Part)
    <3>1. n \in Part
      BY <1>2, <2>2, NextPart
    <3>. HIDE DEF n
    <3>2. <<n>> \in Seq(Part)
      BY <3>1
    <3>. QED  BY <1>2, <3>2
  <2>3. /\ wire' = [wire EXCEPT ![kind] = Append(wire[kind], q)]
        /\ asked' = [asked EXCEPT ![kind] = IF q.part < Parts THEN <<n>> \o Tail(asked[kind])
                                            ELSE Tail(asked[kind])]
    BY <1>3 DEF SwitchSendsPart
  <2>. HIDE DEF q, n
  <2>4. asked' \in [Kinds -> Seq(Part)] /\ wire' \in [Kinds -> Seq(Part)]
    BY <1>2, <2>1, <2>2, <2>3 DEF TypeOK
  <2>. QED  BY <1>3, <2>4 DEF SwitchSendsPart, TypeOK
<1>4. CASE SwitchGivesUp(kind)
  BY <1>2, <1>4 DEF SwitchGivesUp, TypeOK
<1>. QED  BY <1>3, <1>4

\* The handler of a reply: where it is, and the part that it handles.
LEMMA AtWork ==
  ASSUME TypeOK, loop.at # "idle"
  PROVE  /\ loop # Idle /\ loop.reply \in Part /\ loop.reply.kind \in Kinds
         /\ loop.list \in Seq(Item)
         /\ ItemOf(loop.reply) \in Item
<1>1. loop # Idle
  BY DEF Idle
<1>. QED  BY <1>1, PartItem DEF TypeOK

LEMMA LoopAt ==
  ASSUME NEW at \in {"extend", "collect", "take", "delete", "finish"}, NEW q \in Part, NEW list \in Seq(Item),
         loop' = [at |-> at, reply |-> q, list |-> list]
  PROVE  /\ loop' \in [at : {"idle", "extend", "collect", "take", "delete", "finish"},
                       reply : Part \union {Idle.reply}, list : Seq(Item)]
         /\ loop'.at = "idle" <=> loop' = Idle
         /\ loop' # Idle => loop'.reply \in Part
BY DEF Idle

LEMMA LoopIdle ==
  ASSUME loop' = Idle
  PROVE  /\ loop' \in [at : {"idle", "extend", "collect", "take", "delete", "finish"},
                       reply : Part \union {Idle.reply}, list : Seq(Item)]
         /\ loop'.at = "idle" <=> loop' = Idle
         /\ loop' # Idle => loop'.reply \in Part
BY DEF Idle

LEMMA LoopType ==
  ASSUME TypeOK, Loop
  PROVE  TypeOK'
<1>. USE DEF reqVars, linkVars
<1>1. ASSUME NEW k \in Kinds, NEW i \in DOMAIN wire[k], HandleReply(k, i) PROVE TypeOK'
  <2>1. wire[k] \in Seq(Part)
    BY DEF TypeOK
  <2>2. RemoveAt(wire[k], i) \in Seq(Part) /\ wire[k][i] \in Part
    BY <2>1, TakenReply
  <2>3. wire' \in [Kinds -> Seq(Part)]
    BY <1>1, <2>2 DEF HandleReply, TypeOK
  <2>4. loop' = Idle \/ loop' = [at |-> "extend", reply |-> wire[k][i], list |-> <<>>]
    BY <1>1 DEF HandleReply
  <2>5. <<>> \in Seq(Item) /\ "extend" \in {"extend", "collect", "take", "delete", "finish"}
    OBVIOUS
  <2>6. /\ loop' \in [at : {"idle", "extend", "collect", "take", "delete", "finish"},
                      reply : Part \union {Idle.reply}, list : Seq(Item)]
        /\ loop'.at = "idle" <=> loop' = Idle
        /\ loop' # Idle => loop'.reply \in Part
    BY <2>2, <2>4, <2>5, LoopAt, LoopIdle
  <2>. QED  BY <1>1, <2>3, <2>6 DEF HandleReply, TypeOK
<1>2. CASE Extend
  <2>1. loop.reply \in Part /\ loop.reply.kind \in Kinds /\ loop.list \in Seq(Item)
        /\ [xid |-> loop.reply.xid, part |-> loop.reply.part] \in Item
    BY <1>2, AtWork DEF Extend, ItemOf
  <2>2. acc' \in [Kinds -> Seq(Item)]
    BY <1>2, <2>1, AddedItem DEF Extend, TypeOK
  <2>3. loop' = Idle \/ loop' = [at |-> "collect", reply |-> loop.reply, list |-> loop.list]
    BY <1>2 DEF Extend, TypeOK
  <2>4. /\ loop' \in [at : {"idle", "extend", "collect", "take", "delete", "finish"},
                      reply : Part \union {Idle.reply}, list : Seq(Item)]
        /\ loop'.at = "idle" <=> loop' = Idle
        /\ loop' # Idle => loop'.reply \in Part
    BY <2>1, <2>3, LoopAt, LoopIdle
  <2>. QED  BY <1>2, <2>2, <2>4 DEF Extend, TypeOK
<1>3. CASE ExtendRaises
  <2>1. wire' \in [Kinds -> Seq(Part)]
    BY <1>3, CutWires DEF ExtendRaises
  <2>. QED  BY <1>3, <2>1, LoopIdle DEF ExtendRaises, TypeOK
<1>4. CASE Collect \/ TakeFlows \/ Delete
  <2>1. loop.reply \in Part /\ loop.reply.kind \in Kinds /\ loop.list \in Seq(Item)
    BY <1>4, AtWork DEF Collect, TakeFlows, Delete
  <2>2. acc[loop.reply.kind] \in Seq(Item) /\ acc["flows"] \in Seq(Item)
    BY <2>1 DEF TypeOK, Kinds
  <2>3. acc' \in [Kinds -> Seq(Item)] /\ flows' \in Seq(Item)
    <3>1. acc' = acc \/ acc' = [acc EXCEPT ![loop.reply.kind] = <<>>]
      BY <1>4 DEF Collect, TakeFlows, Delete
    <3>2. acc' \in [Kinds -> Seq(Item)]
      <4>1. <<>> \in Seq(Item) /\ acc \in [Kinds -> Seq(Item)]
        BY DEF TypeOK
      <4>. QED  BY <2>1, <3>1, <4>1
    <3>3. flows' = flows \/ flows' = acc["flows"]
      BY <1>4 DEF Collect, TakeFlows, Delete
    <3>. QED  BY <2>2, <3>2, <3>3 DEF TypeOK
  <2>4. PICK at \in {"take", "delete", "finish"}, list \in {loop.list, acc[loop.reply.kind]} :
            loop' = [at |-> at, reply |-> loop.reply, list |-> list]
    BY <1>4 DEF Collect, TakeFlows, Delete, TypeOK
  <2>5. /\ loop' \in [at : {"idle", "extend", "collect", "take", "delete", "finish"},
                      reply : Part \union {Idle.reply}, list : Seq(Item)]
        /\ loop'.at = "idle" <=> loop' = Idle
        /\ loop' # Idle => loop'.reply \in Part
    BY <2>1, <2>2, <2>4, LoopAt
  <2>. QED  BY <1>4, <2>3, <2>5 DEF Collect, TakeFlows, Delete, TypeOK
<1>5. CASE Publish
  <2>1. loop.reply \in Part /\ loop.reply.kind \in Kinds /\ loop.list \in Seq(Item)
    BY <1>5, AtWork DEF Publish
  <2>2. xids' \in [present : BOOLEAN, skipped : Nat, flows : Nat, ports : Nat, tables : Nat]
    BY <1>5, <2>1, XidsOfKinds DEF Publish
  <2>3. published' \in [Kinds -> Seq(Seq(Item))]
    BY <1>5, <2>1, AppendProperties DEF Publish, TypeOK
  <2>. QED  BY <1>5, <2>2, <2>3, LoopIdle DEF Publish, TypeOK
<1>6. CASE FinishRaises
  <2>1. wire' \in [Kinds -> Seq(Part)]
    BY <1>6, CutWires DEF FinishRaises, TypeOK
  <2>. QED  BY <1>6, <2>1, LoopIdle DEF FinishRaises, TypeOK
<1>. QED  BY <1>1, <1>2, <1>3, <1>4, <1>5, <1>6 DEF Loop

LEMMA ConnectionType ==
  ASSUME TypeOK, Reset \/ ConnectionLost \/ Reconnect \/ HandshakeResets
  PROVE  TypeOK'
<1>. USE DEF reqVars, linkVars
<1>0. /\ NoLists \in [Kinds -> Seq(Item)] /\ NoLists \in [Kinds -> Seq(Part)]
      /\ NoXids \in [present : BOOLEAN, skipped : Nat, flows : Nat, ports : Nat, tables : Nat]
  BY DEF NoLists, NoXids
<1>1. CASE Reset
  BY <1>0, <1>1 DEF Reset, PopMultipartReplies, TypeOK
<1>2. CASE ConnectionLost
  <2>1. wire' \in [Kinds -> Seq(Part)]
    BY <1>2, CutWires DEF ConnectionLost
  <2>. QED  BY <1>0, <1>2, <2>1 DEF ConnectionLost, TypeOK
<1>3. CASE Reconnect
  BY <1>3 DEF Reconnect, TypeOK
<1>4. CASE HandshakeResets
  BY <1>0, <1>4 DEF HandshakeResets, PopMultipartReplies, TypeOK
<1>. QED  BY <1>1, <1>2, <1>3, <1>4

LEMMA NextTypeOK == TypeOK /\ [Next]_vars => TypeOK'
<1>1. SUFFICES ASSUME TypeOK, [Next]_vars PROVE TypeOK'
  OBVIOUS
<1>2. CASE UNCHANGED vars
  BY <1>1, <1>2 DEF vars, TypeOK
<1>3. CASE Next
  BY <1>1, <1>3, RequesterType, SwitchType, LoopType, ConnectionType DEF Next
<1>. QED  BY <1>1, <1>2, <1>3

\* Every variable has its type, in every state of the collector.
THEOREM TypeCorrect == Spec => []TypeOK
BY InitTypeOK, NextTypeOK, PTL DEF Spec

-------------------------------------------------------------------------------
(* Every item that the switch sends is at one place.                       *)

LEMMA SeenItems ==
  ASSUME TypeOK, NEW k \in Kinds
  PROVE  Seen(k) \subseteq Item
<1>1. OnWire(k) \subseteq Item
  BY PartItem DEF OnWire, Items, TypeOK
<1>2. Range(acc[k]) \subseteq Item /\ Assembled(k) \subseteq Item
  BY RangeOfSeq DEF Assembled, TypeOK
<1>3. \A i \in DOMAIN published[k] : Range(published[k][i]) \subseteq Item
  BY RangeOfSeq DEF TypeOK
<1>4. InHand(k) \subseteq Item
  <2>1. CASE loop.at = "idle"
    BY <2>1 DEF InHand
  <2>2. CASE loop.at # "idle"
    BY <2>2, AtWork, RangeOfSeq DEF InHand
  <2>. QED  BY <2>1, <2>2
<1>. QED  BY <1>1, <1>2, <1>3, <1>4 DEF Seen, Out

\* Requests that are no longer answered, and items that are no longer there,
\* leave the others unseen.
LEMMA StillUnseen ==
  ASSUME TypeOK, TypeOK', NEW k \in Kinds, AskedIsUnseen(k),
         Seen(k)' \subseteq Seen(k), nextXid' >= nextXid,
         \/ asked'[k] = asked[k]
         \/ asked[k] # <<>> /\ asked'[k] = Tail(asked[k])
         \/ asked'[k] = <<>>
  PROVE  AskedIsUnseen(k)'
<1>1. asked[k] \in Seq(Part) /\ nextXid \in Nat /\ nextXid' \in Nat
  BY DEF TypeOK
<1>2. \A x \in Seen(k)' : x.xid < nextXid'
  BY <1>1, SeenItems DEF AskedIsUnseen, Item
<1>3. CASE asked'[k] = asked[k]
  <2>1. ASSUME NEW i \in DOMAIN asked[k] PROVE asked[k][i].xid \in Nat
    <3>1. asked[k][i] \in Part
      BY <1>1
    <3>. QED  BY <3>1 DEF Part
  <2>. QED  BY <1>1, <1>2, <1>3, <2>1 DEF AskedIsUnseen
<1>4. CASE asked[k] # <<>> /\ asked'[k] = Tail(asked[k])
  <2>1. /\ DOMAIN asked'[k] = 1 .. Len(asked[k]) - 1 /\ DOMAIN asked[k] = 1 .. Len(asked[k])
        /\ \A i \in DOMAIN asked'[k] : asked'[k][i] = asked[k][i + 1]
        /\ Len(asked[k]) \in Nat
    BY <1>1, <1>4, HeadTailProperties
  <2>2. ASSUME NEW i \in DOMAIN asked'[k]
        PROVE  /\ asked'[k][i].kind = k /\ asked'[k][i].xid < nextXid'
               /\ \A x \in Seen(k)' : x.xid = asked'[k][i].xid => x.part < asked'[k][i].part
    <3>1. i + 1 \in DOMAIN asked[k] /\ asked'[k][i] = asked[k][i + 1]
          /\ asked[k][i + 1] \in Part
      BY <1>1, <2>1
    <3>. QED  BY <1>1, <3>1 DEF AskedIsUnseen, Part
  <2>3. ASSUME NEW i \in DOMAIN asked'[k], NEW j \in DOMAIN asked'[k], i # j
        PROVE  asked'[k][i].xid # asked'[k][j].xid
    <3>1. /\ i + 1 \in DOMAIN asked[k] /\ j + 1 \in DOMAIN asked[k] /\ i + 1 # j + 1
          /\ asked'[k][i] = asked[k][i + 1] /\ asked'[k][j] = asked[k][j + 1]
      BY <2>1, <2>3
    <3>. QED  BY <3>1 DEF AskedIsUnseen
  <2>. QED  BY <1>2, <2>2, <2>3 DEF AskedIsUnseen
<1>5. CASE asked'[k] = <<>>
  BY <1>2, <1>5 DEF AskedIsUnseen
<1>. QED  BY <1>3, <1>4, <1>5

\* A new request has a new xid.
LEMMA AskUnseen ==
  ASSUME TypeOK, TypeOK', NEW r \in Requesters, NEW kind \in Kinds, Ask(r, kind),
         NEW k \in Kinds, AskedIsUnseen(k), Seen(k)' = Seen(k)
  PROVE  AskedIsUnseen(k)'
<1>1. nextXid \in Nat /\ nextXid' = nextXid + 1 /\ asked[k] \in Seq(Part)
  BY DEF TypeOK, Ask
<1>2. CASE asked'[k] = asked[k]
  BY <1>1, <1>2, StillUnseen
<1>3. CASE asked'[k] # asked[k]
  <2> DEFINE q == [kind |-> k, xid |-> nextXid, part |-> 1]
  <2>1. asked'[k] = Append(asked[k], q)
    BY <1>3 DEF Ask, TypeOK
  <2>2. q \in Part /\ q.kind = k /\ q.xid = nextXid
    BY <1>1, StatsAssumption DEF Part
  <2>. HIDE DEF q
  <2>3. /\ DOMAIN asked'[k] = 1 .. Len(asked[k]) + 1 /\ Len(asked[k]) \in Nat
        /\ DOMAIN asked[k] = 1 .. Len(asked[k])
        /\ \A i \in DOMAIN asked[k] : asked'[k][i] = asked[k][i] /\ asked[k][i] \in Part
        /\ asked'[k][Len(asked[k]) + 1] = q
    BY <1>1, <2>1, <2>2, AppendProperties
  <2>4. \A x \in Seen(k)' : x.xid < nextXid /\ x.xid \in Nat /\ x.part \in Nat
    BY SeenItems, StatsAssumption DEF AskedIsUnseen, Item
  <2>5. ASSUME NEW i \in DOMAIN asked'[k]
        PROVE  /\ asked'[k][i].kind = k /\ asked'[k][i].xid < nextXid'
               /\ \A x \in Seen(k)' : x.xid = asked'[k][i].xid => x.part < asked'[k][i].part
    <3>1. CASE i \in DOMAIN asked[k]
      <4>1. asked'[k][i] = asked[k][i] /\ asked[k][i].xid \in Nat
        BY <2>3, <3>1 DEF Part
      <4>. QED  BY <1>1, <3>1, <4>1 DEF AskedIsUnseen
    <3>2. CASE i = Len(asked[k]) + 1
      BY <1>1, <2>2, <2>3, <2>4, <3>2
    <3>. QED  BY <2>3, <3>1, <3>2
  <2>6. ASSUME NEW i \in DOMAIN asked'[k], NEW j \in DOMAIN asked'[k], i # j
        PROVE  asked'[k][i].xid # asked'[k][j].xid
    <3>1. \A l \in DOMAIN asked[k] : asked'[k][l].xid < nextXid /\ asked'[k][l].xid \in Nat
      BY <2>3 DEF AskedIsUnseen, Part
    <3>2. CASE i \in DOMAIN asked[k] /\ j \in DOMAIN asked[k]
      BY <2>3, <2>6, <3>2 DEF AskedIsUnseen
    <3>3. CASE i = Len(asked[k]) + 1 \/ j = Len(asked[k]) + 1
      BY <1>1, <2>2, <2>3, <2>6, <3>1, <3>3
    <3>. QED  BY <2>3, <3>2, <3>3
  <2>7. \A x \in Seen(k)' : x.xid < nextXid'
    BY <1>1, <2>4
  <2>. QED  BY <2>5, <2>6, <2>7 DEF AskedIsUnseen
<1>. QED  BY <1>2, <1>3

\* Nothing new is seen, and what is gone is gone: of the replies on the wire,
\* of the one at hand and of the list that is being assembled.
LEMMA Fewer ==
  ASSUME TypeOK, TypeOK', NEW k \in Kinds, PlacesOnce(k),
         Items(wire'[k]) \subseteq Items(wire[k]),
         Replies(wire[k], k) => Replies(wire'[k], k),
         loop' = loop \/ (InHand(k)' = {} /\ ~Reading(k)'),
         acc'[k] = acc[k] \/ acc'[k] = <<>>,
         published'[k] = published[k],
         nextXid' >= nextXid,
         \/ asked'[k] = asked[k]
         \/ asked[k] # <<>> /\ asked'[k] = Tail(asked[k])
         \/ asked'[k] = <<>>
  PROVE  PlacesOnce(k)'
<1>1. /\ OnWire(k)' \subseteq OnWire(k) /\ Assembled(k)' \subseteq Assembled(k)
      /\ Out(k)' = Out(k)
  BY NoItems DEF OnWire, Assembled, Out
<1>2. /\ InHand(k)' \subseteq InHand(k)
      /\ \/ InHand(k)' = {} /\ ~Reading(k)'
         \/ InHand(k)' = InHand(k) /\ Reading(k)' = Reading(k)
  <2>1. CASE loop' = loop
    BY <2>1 DEF InHand, Reading
  <2>2. CASE InHand(k)' = {} /\ ~Reading(k)'
    BY <2>2
  <2>. QED  BY <2>1, <2>2
<1>3. Seen(k)' \subseteq Seen(k)
  BY <1>1, <1>2 DEF Seen
<1>4. AskedIsUnseen(k)'
  BY <1>3, StillUnseen DEF PlacesOnce
<1>5. Apart(k)'
  BY <1>1, <1>2 DEF Apart, PlacesOnce
<1>6. OutOnce(k)'
  BY DEF OutOnce, PlacesOnce
<1>. QED  BY <1>4, <1>5, <1>6 DEF PlacesOnce, WireOnce

LEMMA InitItemsOnce == Init => ItemsOnce
<1>1. SUFFICES ASSUME Init, NEW k \in Kinds PROVE PlacesOnce(k)
  BY DEF ItemsOnce
<1>2. wire[k] = <<>> /\ acc[k] = <<>> /\ published[k] = <<>> /\ asked[k] = <<>>
  BY <1>1 DEF Init, NoLists
<1>3. loop.at = "idle"
  BY <1>1 DEF Init, Idle
<1>4. OnWire(k) = {} /\ InHand(k) = {} /\ Assembled(k) = {} /\ Out(k) = {}
  BY <1>2, <1>3, NoItems DEF OnWire, InHand, Assembled, Out
<1>5. WireOnce(k) /\ OutOnce(k)
  BY <1>2 DEF WireOnce, Replies, OutOnce
<1>6. Apart(k)
  BY <1>4 DEF Apart
<1>7. AskedIsUnseen(k)
  BY <1>2, <1>4 DEF AskedIsUnseen, Seen
<1>. QED  BY <1>5, <1>6, <1>7 DEF PlacesOnce

\* A thread asks, or clears the lists that are being assembled.
LEMMA RequesterOnce ==
  ASSUME TypeOK, TypeOK', ItemsOnce, NEW r \in Requesters, Requester(r)
  PROVE  ItemsOnce'
<1>. USE DEF reqVars, linkVars
<1>0. SUFFICES ASSUME NEW k \in Kinds PROVE PlacesOnce(k)'
  BY DEF ItemsOnce
<1>1. PlacesOnce(k) /\ acc[k] \in Seq(Item)
  BY DEF ItemsOnce, TypeOK
<1>2. ASSUME UNCHANGED <<wire, loop, published, asked, nextXid>>,
             acc'[k] = acc[k] \/ acc'[k] = <<>>
      PROVE  PlacesOnce(k)'
  <2>1. nextXid' >= nextXid
    BY <1>2 DEF TypeOK
  <2>. QED  BY <1>1, <1>2, <2>1, Fewer
<1>3. ASSUME NEW kind \in Kinds, Ask(r, kind), UNCHANGED <<wire, loop, published, acc>>
      PROVE  PlacesOnce(k)'
  <2>1. /\ OnWire(k)' = OnWire(k) /\ InHand(k)' = InHand(k) /\ Reading(k)' = Reading(k)
        /\ Assembled(k)' = Assembled(k) /\ Out(k)' = Out(k)
    BY <1>3 DEF OnWire, InHand, Reading, Assembled, Out
  <2>2. Seen(k)' = Seen(k)
    BY <2>1 DEF Seen
  <2>3. AskedIsUnseen(k)'
    BY <1>1, <1>3, <2>2, AskUnseen DEF PlacesOnce
  <2>4. WireOnce(k)' /\ Apart(k)' /\ OutOnce(k)'
    BY <1>1, <1>3, <2>1 DEF WireOnce, Apart, OutOnce, PlacesOnce
  <2>. QED  BY <2>3, <2>4 DEF PlacesOnce
<1>4. CASE SkipRound(r) \/ RegisterXids(r) \/ UpdateXids(r)
  <2>1. UNCHANGED <<wire, loop, published, asked, nextXid, acc>>
    BY <1>4 DEF SkipRound, RegisterXids, UpdateXids
  <2>. QED  BY <1>2, <2>1
<1>5. CASE StartRound(r)
  <2>1. UNCHANGED <<wire, loop, published, asked, nextXid>> /\ acc'[k] = <<>>
    BY <1>5 DEF StartRound, NoLists
  <2>. QED  BY <1>2, <2>1
<1>6. CASE RequestFlows(r) \/ RequestPorts(r) \/ RequestTables(r)
  <2>1. \E kind \in Kinds : Ask(r, kind)
    BY <1>6 DEF RequestFlows, RequestPorts, RequestTables, Kinds
  <2>2. UNCHANGED <<wire, loop, published, acc>>
    BY <1>6 DEF RequestFlows, RequestPorts, RequestTables
  <2>. QED  BY <1>3, <2>1, <2>2
<1>. QED  BY <1>4, <1>5, <1>6 DEF Requester

\* The part that the switch sends next was not seen before, and the next part
\* of the same request comes after it.
LEMMA SendsOnce ==
  ASSUME TypeOK, TypeOK', NEW kind \in Kinds, PlacesOnce(kind), SwitchSendsPart(kind)
  PROVE  PlacesOnce(kind)'
<1>. USE DEF reqVars, linkVars
<1> DEFINE k == kind
           q == Head(asked[k])
           n == [q EXCEPT !.part = @ + 1]
           e == ItemOf(q)
<1>1. /\ asked[k] \in Seq(Part) /\ wire[k] \in Seq(Part) /\ asked[k] # <<>>
      /\ acc' = acc /\ published' = published /\ loop' = loop /\ nextXid' = nextXid
      /\ nextXid \in Nat
  BY DEF SwitchSendsPart, TypeOK
<1>2. /\ q \in Part /\ q = asked[k][1] /\ Tail(asked[k]) \in Seq(Part)
      /\ DOMAIN asked[k] = 1 .. Len(asked[k]) /\ Len(asked[k]) \in Nat /\ 1 \in DOMAIN asked[k]
      /\ DOMAIN Tail(asked[k]) = 1 .. Len(asked[k]) - 1
      /\ \A i \in 1 .. Len(asked[k]) - 1 : Tail(asked[k])[i] = asked[k][i + 1]
  BY <1>1, HeadTailProperties
<1>3. /\ wire'[k] = Append(wire[k], q)
      /\ asked'[k] = IF q.part < Parts THEN <<n>> \o Tail(asked[k]) ELSE Tail(asked[k])
  BY DEF SwitchSendsPart, TypeOK
<1>4. q.kind = k /\ q.xid < nextXid /\ e \notin Seen(k)
      /\ \A x \in Seen(k) : x.xid = q.xid => x.part < q.part
  BY <1>2, PartItem DEF PlacesOnce, AskedIsUnseen
<1>5. e \in Item /\ e.xid = q.xid /\ e.part = q.part /\ q.xid \in Nat /\ q.part \in 1 .. Parts
  BY <1>2, PartItem
<1>6. q.part < Parts => n \in Part /\ n.kind = k /\ n.xid = q.xid /\ n.part = q.part + 1
  BY <1>2, <1>4, NextPart
<1>. HIDE DEF q, n, e
<1>7. e \notin OnWire(k) /\ e \notin InHand(k) /\ e \notin Assembled(k) /\ e \notin Out(k)
  BY <1>4 DEF Seen
<1>8. /\ OnWire(k)' = OnWire(k) \union {e}
      /\ InHand(k)' = InHand(k) /\ Reading(k)' = Reading(k)
      /\ Assembled(k)' = Assembled(k) /\ Out(k)' = Out(k)
      /\ WireOnce(k)'
  <2>1. /\ Items(wire'[k]) = Items(wire[k]) \union {e}
        /\ Replies(wire'[k], k)
    BY <1>1, <1>2, <1>3, <1>4, <1>7, AddedReply DEF e, OnWire, WireOnce, PlacesOnce
  <2>. QED  BY <1>1, <2>1 DEF OnWire, InHand, Reading, Assembled, Out, WireOnce
<1>9. Apart(k)'
  BY <1>7, <1>8 DEF Apart, PlacesOnce
<1>10. OutOnce(k)'
  BY <1>1 DEF OutOnce, PlacesOnce
<1>11. Seen(k)' = Seen(k) \union {e}
  BY <1>8 DEF Seen
<1>12. \A x \in Seen(k)' : x.xid < nextXid'
  BY <1>1, <1>4, <1>5, <1>11 DEF PlacesOnce, AskedIsUnseen
<1>13. ASSUME NEW i \in DOMAIN asked[k], i # 1
       PROVE  /\ asked[k][i].kind = k /\ asked[k][i].xid < nextXid'
              /\ asked[k][i].xid # q.xid
              /\ \A x \in Seen(k)' : x.xid = asked[k][i].xid => x.part < asked[k][i].part
  <2>1. asked[k][i].xid # q.xid
    BY <1>2, <1>13 DEF PlacesOnce, AskedIsUnseen
  <2>. QED  BY <1>1, <1>5, <1>11, <2>1 DEF PlacesOnce, AskedIsUnseen
<1>14. CASE q.part < Parts
  <2>1. /\ DOMAIN asked'[k] = DOMAIN asked[k] /\ asked'[k][1] = n
        /\ \A i \in DOMAIN asked[k] : i # 1 => asked'[k][i] = asked[k][i]
    <3> DEFINE t == Tail(asked[k])
    <3>1. /\ <<n>> \in Seq(Part) /\ Len(<<n>>) = 1 /\ <<n>>[1] = n
          /\ t \in Seq(Part) /\ Len(t) = Len(asked[k]) - 1
          /\ asked'[k] = <<n>> \o t
      BY <1>2, <1>3, <1>6, <1>14
    <3>2. \A i \in 1 .. Len(asked[k]) - 1 : t[i] = asked[k][i + 1]
      BY <1>2
    <3>. HIDE DEF t
    <3>3. /\ asked'[k] \in Seq(Part) /\ Len(asked'[k]) = 1 + Len(t)
          /\ \A i \in 1 .. 1 + Len(t) :
                asked'[k][i] = IF i <= 1 THEN <<n>>[i] ELSE t[i - 1]
      BY <3>1, ConcatProperties
    <3>4. DOMAIN asked'[k] = DOMAIN asked[k] /\ asked'[k][1] = n
      BY <1>2, <3>1, <3>3
    <3>5. ASSUME NEW i \in DOMAIN asked[k], i # 1 PROVE asked'[k][i] = asked[k][i]
      <4>1. i - 1 \in 1 .. Len(asked[k]) - 1 /\ i \in 1 .. 1 + Len(t) /\ ~(i <= 1)
        BY <1>2, <3>1, <3>5
      <4>2. asked'[k][i] = t[i - 1] /\ t[i - 1] = asked[k][(i - 1) + 1]
        BY <3>2, <3>3, <4>1
      <4>. QED  BY <4>1, <4>2
    <3>. QED  BY <3>4, <3>5
  <2>2. \A x \in Seen(k)' : x.xid = n.xid => x.part < n.part
    <3>1. \A x \in Seen(k) : x.part \in Nat
      BY SeenItems, StatsAssumption DEF Item
    <3>. QED  BY <1>4, <1>5, <1>6, <1>11, <1>14, <3>1, StatsAssumption
  <2>3. ASSUME NEW i \in DOMAIN asked'[k]
        PROVE  /\ asked'[k][i].kind = k /\ asked'[k][i].xid < nextXid'
               /\ \A x \in Seen(k)' : x.xid = asked'[k][i].xid => x.part < asked'[k][i].part
    BY <1>1, <1>4, <1>6, <1>13, <1>14, <2>1, <2>2
  <2>4. ASSUME NEW i \in DOMAIN asked'[k], NEW j \in DOMAIN asked'[k], i # j
        PROVE  asked'[k][i].xid # asked'[k][j].xid
    <3>1. CASE i # 1 /\ j # 1
      BY <2>1, <2>4, <3>1 DEF PlacesOnce, AskedIsUnseen
    <3>2. CASE i = 1 \/ j = 1
      BY <1>6, <1>13, <1>14, <2>1, <2>4, <3>2
    <3>. QED  BY <3>1, <3>2
  <2>5. AskedIsUnseen(k)'
    BY <1>12, <2>3, <2>4 DEF AskedIsUnseen
  <2>. QED  BY <1>8, <1>9, <1>10, <2>5 DEF PlacesOnce
<1>15. CASE ~(q.part < Parts)
  <2>1. /\ DOMAIN asked'[k] = 1 .. Len(asked[k]) - 1
        /\ \A i \in DOMAIN asked'[k] : asked'[k][i] = asked[k][i + 1]
    BY <1>2, <1>3, <1>15
  <2>2. \A i \in DOMAIN asked'[k] : i + 1 \in DOMAIN asked[k] /\ i + 1 # 1
    BY <1>2, <2>1
  <2>3. ASSUME NEW i \in DOMAIN asked'[k]
        PROVE  /\ asked'[k][i].kind = k /\ asked'[k][i].xid < nextXid'
               /\ \A x \in Seen(k)' : x.xid = asked'[k][i].xid => x.part < asked'[k][i].part
    BY <1>13, <2>1, <2>2
  <2>4. ASSUME NEW i \in DOMAIN asked'[k], NEW j \in DOMAIN asked'[k], i # j
        PROVE  asked'[k][i].xid # asked'[k][j].xid
    <3>1. i + 1 # j + 1 /\ i + 1 \in DOMAIN asked[k] /\ j + 1 \in DOMAIN asked[k]
      BY <2>1, <2>2, <2>4
    <3>. QED  BY <2>1, <3>1 DEF PlacesOnce, AskedIsUnseen
  <2>5. AskedIsUnseen(k)'
    BY <1>12, <2>3, <2>4 DEF AskedIsUnseen
  <2>. QED  BY <1>8, <1>9, <1>10, <2>5 DEF PlacesOnce
<1>. QED  BY <1>14, <1>15

LEMMA SwitchOnce ==
  ASSUME TypeOK, TypeOK', ItemsOnce, NEW kind \in Kinds,
         SwitchSendsPart(kind) \/ SwitchGivesUp(kind)
  PROVE  ItemsOnce'
<1>. USE DEF reqVars, linkVars
<1>0. SUFFICES ASSUME NEW k \in Kinds PROVE PlacesOnce(k)'
  BY DEF ItemsOnce
<1>1. PlacesOnce(k) /\ PlacesOnce(kind)
  BY DEF ItemsOnce
<1>2. CASE SwitchSendsPart(kind) /\ k = kind
  BY <1>1, <1>2, SendsOnce
<1>3. CASE SwitchGivesUp(kind) \/ k # kind
  <2>1. UNCHANGED <<acc, published, loop, nextXid>> /\ wire'[k] = wire[k]
    BY <1>3 DEF SwitchSendsPart, SwitchGivesUp, TypeOK
  <2>2. asked'[k] = asked[k] \/ (asked[k] # <<>> /\ asked'[k] = Tail(asked[k]))
    BY <1>3, ZenonT(60) DEF SwitchSendsPart, SwitchGivesUp, TypeOK
  <2>3. nextXid' >= nextXid
    BY <2>1 DEF TypeOK
  <2>4. acc'[k] = acc[k] /\ published'[k] = published[k] /\ wire'[k] = wire[k] /\ loop' = loop
    BY <2>1
  <2>. QED  BY <1>1, <2>2, <2>3, <2>4, Fewer
<1>. QED  BY <1>2, <1>3

\* Items that move from one place to another: none is seen that was not, and
\* the switch is not heard of.
LEMMA Moved ==
  ASSUME TypeOK, TypeOK', NEW k \in Kinds, PlacesOnce(k),
         Seen(k)' \subseteq Seen(k), WireOnce(k)', Apart(k)', OutOnce(k)',
         asked' = asked, nextXid' = nextXid
  PROVE  PlacesOnce(k)'
<1>1. AskedIsUnseen(k)
  BY DEF PlacesOnce
<1>2. asked'[k] = asked[k] /\ nextXid' >= nextXid
  BY DEF TypeOK
<1>3. AskedIsUnseen(k)'
  BY <1>1, <1>2, StillUnseen
<1>. QED  BY <1>3 DEF PlacesOnce

\* Nothing is in the hands of an idle handler, nor of one of another kind.
LEMMA NothingInHand ==
  ASSUME NEW k \in Kinds
  PROVE  /\ loop.at \in {"idle", "collect"} => InHand(k) = {} /\ ~Reading(k)
         /\ loop' = Idle => InHand(k)' = {} /\ ~Reading(k)'
         /\ loop'.reply.kind # k => InHand(k)' = {} /\ ~Reading(k)'
BY DEF InHand, Reading, Idle

LEMMA HandledOnce ==
  ASSUME TypeOK, TypeOK', ItemsOnce, NEW kind \in Kinds, NEW i \in DOMAIN wire[kind],
         HandleReply(kind, i), NEW k \in Kinds
  PROVE  PlacesOnce(k)'
<1>. USE DEF reqVars, linkVars
<1>1. /\ PlacesOnce(k) /\ wire[kind] \in Seq(Part) /\ loop.at = "idle"
      /\ UNCHANGED <<acc, published, asked, nextXid>>
  BY DEF ItemsOnce, TypeOK, HandleReply, Idle
<1>2. PlacesOnce(kind) /\ Replies(wire[kind], kind)
  BY DEF ItemsOnce, PlacesOnce, WireOnce
<1> DEFINE q == wire[kind][i]
<1>3. /\ RemoveAt(wire[kind], i) \in Seq(Part) /\ q \in Part /\ q.kind = kind
      /\ Items(RemoveAt(wire[kind], i)) \subseteq Items(wire[kind])
      /\ Replies(RemoveAt(wire[kind], i), kind)
      /\ ItemOf(q) \in Items(wire[kind])
      /\ ItemOf(q) \notin Items(RemoveAt(wire[kind], i))
  BY <1>1, <1>2, TakenReply
<1>4. /\ wire'[k] = IF k = kind THEN RemoveAt(wire[kind], i) ELSE wire[k]
      /\ \/ loop' = Idle
         \/ loop' = [at |-> "extend", reply |-> q, list |-> <<>>]
  BY DEF HandleReply, TypeOK
<1>. HIDE DEF q
<1>5. InHand(k) = {}
  BY <1>1, NothingInHand
<1>6. CASE k # kind
  <2>1. InHand(k)' = {} /\ ~Reading(k)'
    <3>1. loop' = Idle \/ loop'.reply.kind # k
      BY <1>3, <1>4, <1>6
    <3>. QED  BY <3>1, NothingInHand
  <2>2. nextXid' >= nextXid /\ wire'[k] = wire[k]
    BY <1>1, <1>4, <1>6 DEF TypeOK
  <2>. QED  BY <1>1, <2>1, <2>2, Fewer
<1>7. CASE k = kind
  <2>1. InHand(k)' \subseteq {ItemOf(q)} /\ ~Reading(k)'
    BY <1>3, <1>4, NothingInHand DEF InHand, Reading
  <2>2. /\ OnWire(k)' \subseteq OnWire(k) /\ ItemOf(q) \in OnWire(k)
        /\ ItemOf(q) \notin OnWire(k)'
        /\ Assembled(k)' = Assembled(k) /\ Out(k)' = Out(k)
        /\ WireOnce(k)'
    BY <1>1, <1>3, <1>4, <1>7 DEF OnWire, Assembled, Out, WireOnce
  <2>3. Apart(k)'
    BY <1>1, <2>1, <2>2 DEF Apart, PlacesOnce
  <2>4. OutOnce(k)'
    BY <1>1 DEF OutOnce, PlacesOnce
  <2>5. Seen(k)' \subseteq Seen(k)
    BY <1>5, <2>1, <2>2 DEF Seen
  <2>. QED  BY <1>1, <2>2, <2>3, <2>4, <2>5, Moved
<1>. QED  BY <1>6, <1>7

\* The item at hand joins the list that is being assembled.
LEMMA ExtendedOnce ==
  ASSUME TypeOK, TypeOK', ItemsOnce, Extend, NEW k \in Kinds
  PROVE  PlacesOnce(k)'
<1>. USE DEF reqVars, linkVars
<1> DEFINE e == ItemOf(loop.reply)
<1>1. /\ PlacesOnce(k) /\ loop.at = "extend" /\ acc[k] \in Seq(Item)
      /\ UNCHANGED <<wire, published, asked, nextXid>>
  BY DEF ItemsOnce, TypeOK, Extend
<1>2. loop.reply \in Part /\ loop.reply.kind \in Kinds /\ e \in Item
  BY <1>1, AtWork
<1>3. /\ acc' = [acc EXCEPT ![loop.reply.kind] = Append(acc[loop.reply.kind], e)]
      /\ acc \in [Kinds -> Seq(Item)]
  BY DEF Extend, ItemOf, TypeOK
<1>4. InHand(k) = IF loop.reply.kind = k THEN {e} ELSE {}
  BY <1>1 DEF InHand
<1>. HIDE DEF e
<1>5. InHand(k)' = {} /\ ~Reading(k) /\ ~Reading(k)'
  <2>1. loop' = Idle \/ loop'.at = "collect"
    BY DEF Extend, TypeOK
  <2>. QED  BY <1>1, <2>1 DEF InHand, Reading, Idle
<1>6. CASE loop.reply.kind # k
  <2>1. acc'[k] = acc[k]
    BY <1>2, <1>3, <1>6
  <2>2. nextXid' >= nextXid
    BY <1>1, SMTT(60) DEF TypeOK
  <2>. QED  BY <1>1, <1>5, <2>1, <2>2, Fewer
<1>7. CASE loop.reply.kind = k
  <2>1. acc'[k] = Append(acc[k], e)
    BY <1>3, <1>7
  <2>2. /\ OnWire(k)' = OnWire(k) /\ Out(k)' = Out(k) /\ WireOnce(k)' /\ OutOnce(k)'
        /\ Assembled(k)' = Assembled(k) \union InHand(k)
    <3>1. Range(Append(acc[k], e)) = Range(acc[k]) \union {e}
      BY <1>1, <1>2, AddedItem
    <3>2. Assembled(k)' = Assembled(k) \union InHand(k)
      BY <1>4, <1>7, <2>1, <3>1 DEF Assembled
    <3>. QED  BY <1>1, <3>2 DEF OnWire, Out, WireOnce, OutOnce, PlacesOnce
  <2>3. Apart(k)'
    BY <1>1, <1>5, <2>2 DEF Apart, PlacesOnce
  <2>4. Seen(k)' \subseteq Seen(k)
    BY <1>5, <2>2 DEF Seen
  <2>. QED  BY <1>1, <2>2, <2>3, <2>4, Moved
<1>. QED  BY <1>6, <1>7

\* The list that was assembled is taken in hand, and still there.
LEMMA CollectedOnce ==
  ASSUME TypeOK, TypeOK', ItemsOnce, Collect, NEW k \in Kinds
  PROVE  PlacesOnce(k)'
<1>. USE DEF reqVars, linkVars
<1>1. /\ PlacesOnce(k) /\ loop.at = "collect"
      /\ UNCHANGED <<wire, acc, published, asked, nextXid>>
  BY DEF ItemsOnce, Collect
<1>2. /\ loop'.at \in {"take", "delete"} /\ loop'.reply = loop.reply
      /\ loop'.list = acc[loop.reply.kind]
  BY DEF Collect, TypeOK
<1>3. InHand(k) = {}
  BY <1>1, NothingInHand
<1>4. CASE loop.reply.kind # k
  <2>1. InHand(k)' = {} /\ ~Reading(k)'
    BY <1>2, <1>4, NothingInHand
  <2>2. nextXid' >= nextXid
    BY <1>1 DEF TypeOK
  <2>. QED  BY <1>1, <2>1, <2>2, Fewer
<1>5. CASE loop.reply.kind = k
  <2>1. InHand(k)' = Assembled(k) /\ Reading(k)'
    BY <1>2, <1>5 DEF InHand, Reading, Assembled
  <2>2. /\ OnWire(k)' = OnWire(k) /\ Out(k)' = Out(k) /\ Assembled(k)' = Assembled(k)
        /\ WireOnce(k)' /\ OutOnce(k)'
    BY <1>1 DEF OnWire, Out, Assembled, WireOnce, OutOnce, PlacesOnce
  <2>3. Apart(k)'
    BY <1>1, <2>1, <2>2 DEF Apart, PlacesOnce
  <2>4. Seen(k)' \subseteq Seen(k)
    BY <2>1, <2>2 DEF Seen
  <2>. QED  BY <1>1, <2>2, <2>3, <2>4, Moved
<1>. QED  BY <1>4, <1>5

\* The list at hand becomes the flows of the switch, or is not assembled any more.
LEMMA TakenOnce ==
  ASSUME TypeOK, TypeOK', ItemsOnce, TakeFlows \/ Delete, NEW k \in Kinds
  PROVE  PlacesOnce(k)'
<1>. USE DEF reqVars, linkVars
<1>1. /\ PlacesOnce(k) /\ loop.at \in {"take", "delete"} /\ acc \in [Kinds -> Seq(Item)]
      /\ UNCHANGED <<wire, published, asked, nextXid>>
      /\ \/ TakeFlows /\ acc' = acc
         \/ Delete /\ acc' = [acc EXCEPT ![loop.reply.kind] = <<>>]
  BY DEF ItemsOnce, TypeOK, TakeFlows, Delete
<1>2. /\ loop'.at \in {"delete", "finish"} /\ loop'.reply = loop.reply /\ loop'.list = loop.list
      /\ TakeFlows => loop'.at = "delete"
  BY DEF TakeFlows, Delete, TypeOK
<1>3. nextXid' >= nextXid
  BY <1>1 DEF TypeOK
<1>4. CASE loop.reply.kind # k
  <2>1. InHand(k)' = {} /\ ~Reading(k)' /\ acc'[k] = acc[k]
    BY <1>1, <1>2, <1>4, NothingInHand
  <2>. QED  BY <1>1, <1>3, <2>1, Fewer
<1>5. CASE loop.reply.kind = k
  <2>1. k \in DOMAIN acc
    BY <1>1
  <2>2. InHand(k)' = InHand(k) /\ Reading(k)
    BY <1>1, <1>2, <1>5 DEF InHand, Reading
  <2>3. (Reading(k)' /\ Assembled(k)' = Assembled(k)) \/ Assembled(k)' = {}
    BY <1>1, <1>2, <1>5, <2>1, NoItems DEF Reading, Assembled
  <2>4. OnWire(k)' = OnWire(k) /\ Out(k)' = Out(k) /\ WireOnce(k)' /\ OutOnce(k)'
    <3>1. wire' = wire /\ published' = published
      BY <1>1
    <3>2. WireOnce(k) /\ OutOnce(k)
      BY <1>1 DEF PlacesOnce
    <3>3. OnWire(k)' = OnWire(k) /\ Out(k)' = Out(k)
      BY <3>1 DEF OnWire, Out
    <3>4. WireOnce(k)' /\ OutOnce(k)'
      BY <3>1, <3>2 DEF WireOnce, OutOnce
    <3>. QED  BY <3>3, <3>4
  <2>5. Apart(k)'
    BY <1>1, <2>2, <2>3, <2>4 DEF Apart, PlacesOnce
  <2>6. Seen(k)' \subseteq Seen(k)
    BY <2>2, <2>3, <2>4 DEF Seen
  <2>. QED  BY <1>1, <2>4, <2>5, <2>6, Moved
<1>. QED  BY <1>4, <1>5

\* The list at hand is published.
LEMMA PublishedListOnce ==
  ASSUME TypeOK, TypeOK', ItemsOnce, Publish, NEW k \in Kinds
  PROVE  PlacesOnce(k)'
<1>. USE DEF reqVars, linkVars
<1>1. /\ PlacesOnce(k) /\ loop.at = "finish" /\ published \in [Kinds -> Seq(Seq(Item))]
      /\ UNCHANGED <<wire, acc, asked, nextXid>>
      /\ published' = [published EXCEPT
                          ![loop.reply.kind] = Append(published[loop.reply.kind], loop.list)]
  BY DEF ItemsOnce, TypeOK, Publish
<1>2. loop.reply.kind \in Kinds /\ loop.list \in Seq(Item)
  BY <1>1, AtWork
<1>3. InHand(k)' = {} /\ ~Reading(k) /\ ~Reading(k)'
  BY <1>1, NothingInHand DEF Publish, Reading
<1>4. InHand(k) = IF loop.reply.kind = k THEN Range(loop.list) ELSE {}
  BY <1>1 DEF InHand
<1>5. CASE loop.reply.kind # k
  <2>1. published'[k] = published[k]
    BY <1>1, <1>2, <1>5
  <2>2. nextXid' >= nextXid
    BY <1>1 DEF TypeOK
  <2>. QED  BY <1>1, <1>3, <2>1, <2>2, Fewer
<1>6. CASE loop.reply.kind = k
  <2>1. /\ DOMAIN published[k] = 1 .. Len(published[k]) /\ Len(published[k]) \in Nat
        /\ DOMAIN published'[k] = 1 .. Len(published[k]) + 1
        /\ \A i \in DOMAIN published[k] : published'[k][i] = published[k][i]
        /\ published'[k][Len(published[k]) + 1] = loop.list
    <3>1. published[k] \in Seq(Seq(Item)) /\ published'[k] = Append(published[k], loop.list)
      BY <1>1, <1>6
    <3>. QED  BY <1>2, <3>1, AppendProperties
  <2>2. Out(k)' = Out(k) \union InHand(k)
    <3>1. ASSUME NEW x \in Out(k)' PROVE x \in Out(k) \union InHand(k)
      <4>1. PICK i \in DOMAIN published'[k] : x \in Range(published'[k][i])
        BY <3>1 DEF Out
      <4>. QED  BY <1>4, <1>6, <2>1, <4>1 DEF Out
    <3>2. ASSUME NEW x \in Out(k) PROVE x \in Out(k)'
      <4>1. PICK i \in DOMAIN published[k] : x \in Range(published[k][i])
        BY <3>2 DEF Out
      <4>2. i \in DOMAIN published'[k] /\ x \in Range(published'[k][i])
        BY <2>1, <4>1
      <4>. QED  BY <4>2 DEF Out
    <3>3. ASSUME NEW x \in InHand(k) PROVE x \in Out(k)'
      <4>1. /\ Len(published[k]) + 1 \in DOMAIN published'[k]
            /\ x \in Range(published'[k][Len(published[k]) + 1])
        BY <1>4, <1>6, <2>1, <3>3
      <4>. QED  BY <4>1 DEF Out
    <3>. QED  BY <3>1, <3>2, <3>3
  <2>3. /\ OnWire(k)' = OnWire(k) /\ WireOnce(k)' /\ Assembled(k)' = Assembled(k)
    BY <1>1 DEF OnWire, WireOnce, PlacesOnce, Assembled
  <2>4. OutOnce(k)'
    <3>1. ASSUME NEW i \in DOMAIN published[k]
          PROVE  Range(published'[k][i]) \intersect Range(loop.list) = {}
      <4>1. Range(published[k][i]) \subseteq Out(k)
        BY DEF Out
      <4>. QED  BY <1>1, <1>4, <1>6, <2>1, <4>1 DEF Apart, PlacesOnce
    <3>2. ASSUME NEW i \in DOMAIN published'[k], NEW j \in DOMAIN published'[k], i # j
          PROVE  Range(published'[k][i]) \intersect Range(published'[k][j]) = {}
      <4>1. CASE i \in DOMAIN published[k] /\ j \in DOMAIN published[k]
        BY <1>1, <2>1, <3>2, <4>1 DEF OutOnce, PlacesOnce
      <4>2. CASE i \notin DOMAIN published[k]
        <5>1. j \in DOMAIN published[k] /\ published'[k][i] = loop.list
          BY <2>1, <3>2, <4>2
        <5>. QED  BY <3>1, <5>1
      <4>3. CASE j \notin DOMAIN published[k]
        <5>1. i \in DOMAIN published[k] /\ published'[k][j] = loop.list
          BY <2>1, <3>2, <4>3
        <5>. QED  BY <3>1, <5>1
      <4>. QED  BY <4>1, <4>2, <4>3
    <3>. QED  BY <3>2 DEF OutOnce
  <2>5. Apart(k)'
    BY <1>1, <1>3, <2>2, <2>3 DEF Apart, PlacesOnce
  <2>6. Seen(k)' \subseteq Seen(k)
    BY <1>3, <2>2, <2>3 DEF Seen
  <2>. QED  BY <1>1, <2>3, <2>4, <2>5, <2>6, Moved
<1>. QED  BY <1>5, <1>6

LEMMA LoopOnce ==
  ASSUME TypeOK, TypeOK', ItemsOnce, Loop
  PROVE  ItemsOnce'
<1>. USE DEF reqVars, linkVars
<1>0. SUFFICES ASSUME NEW k \in Kinds PROVE PlacesOnce(k)'
  BY DEF ItemsOnce
<1>1. PlacesOnce(k)
  BY DEF ItemsOnce
<1>2. CASE \E kind \in Kinds : \E i \in DOMAIN wire[kind] : HandleReply(kind, i)
  BY <1>2, HandledOnce
<1>3. CASE ExtendRaises \/ FinishRaises
  <2>1. UNCHANGED <<acc, published, asked, nextXid>> /\ loop' = Idle
    BY <1>3 DEF ExtendRaises, FinishRaises
  <2>2. LoseRest \/ wire' = wire
    BY <1>3 DEF ExtendRaises, FinishRaises
  <2>3. /\ Items(wire'[k]) \subseteq Items(wire[k])
        /\ Replies(wire[k], k) => Replies(wire'[k], k)
    BY <2>2, CutWires
  <2>4. InHand(k)' = {} /\ ~Reading(k)' /\ nextXid' >= nextXid
    BY <2>1, NothingInHand DEF TypeOK
  <2>. QED  BY <1>1, <2>1, <2>3, <2>4, Fewer
<1>. QED  BY <1>2, <1>3, ExtendedOnce, CollectedOnce, TakenOnce, PublishedListOnce DEF Loop

LEMMA ConnectionOnce ==
  ASSUME TypeOK, TypeOK', ItemsOnce, Reset \/ ConnectionLost \/ Reconnect \/ HandshakeResets
  PROVE  ItemsOnce'
<1>. USE DEF reqVars, linkVars
<1>0. SUFFICES ASSUME NEW k \in Kinds PROVE PlacesOnce(k)'
  BY DEF ItemsOnce
<1>1. PlacesOnce(k)
  BY DEF ItemsOnce
<1>2. UNCHANGED <<published, loop, nextXid>>
  BY DEF Reset, ConnectionLost, Reconnect, HandshakeResets
<1>3. nextXid' >= nextXid
  BY <1>2 DEF TypeOK
<1>4. acc'[k] = acc[k] \/ acc'[k] = <<>>
  BY DEF Reset, ConnectionLost, Reconnect, HandshakeResets, PopMultipartReplies, NoLists
<1>5. asked'[k] = asked[k] \/ asked'[k] = <<>>
  BY DEF Reset, ConnectionLost, Reconnect, HandshakeResets, NoLists
<1>6. /\ Items(wire'[k]) \subseteq Items(wire[k])
      /\ Replies(wire[k], k) => Replies(wire'[k], k)
  <2>1. CASE ConnectionLost
    BY <2>1, CutWires DEF ConnectionLost
  <2>2. CASE ~ConnectionLost
    BY <2>2 DEF Reset, Reconnect, HandshakeResets
  <2>. QED  BY <2>1, <2>2
<1>. QED  BY <1>1, <1>2, <1>3, <1>4, <1>5, <1>6, Fewer

LEMMA NextItemsOnce == TypeOK /\ TypeOK' /\ ItemsOnce /\ [Next]_vars => ItemsOnce'
<1>1. SUFFICES ASSUME TypeOK, TypeOK', ItemsOnce, [Next]_vars PROVE ItemsOnce'
  OBVIOUS
<1>2. CASE UNCHANGED vars
  <2>1. SUFFICES ASSUME NEW k \in Kinds PROVE PlacesOnce(k)'
    BY DEF ItemsOnce
  <2>2. PlacesOnce(k) /\ nextXid' >= nextXid
    BY <1>1, <1>2 DEF vars, ItemsOnce, TypeOK
  <2>. QED  BY <1>1, <1>2, <2>2, Fewer DEF vars
<1>3. CASE Next
  BY <1>1, <1>3, RequesterOnce, SwitchOnce, LoopOnce, ConnectionOnce DEF Next
<1>. QED  BY <1>1, <1>2, <1>3

\* Every item that the switch sends is at one place at a time, also when
\* threads and loop interleave, replies overtake each other, entries cannot be
\* read, and connections are lost.
THEOREM ItemsInvariant == Spec => []ItemsOnce
<1>1. TypeOK /\ ItemsOnce /\ [Next]_vars => TypeOK' /\ ItemsOnce'
  BY NextTypeOK, NextItemsOnce
<1>. QED  BY <1>1, InitTypeOK, InitItemsOnce, PTL DEF Spec

\* No item is published twice.
THEOREM NothingPublishedTwice == Spec => []PublishedOnce
<1>1. ItemsOnce => PublishedOnce
  BY DEF ItemsOnce, PlacesOnce, OutOnce, PublishedOnce
<1>. QED  BY <1>1, ItemsInvariant, PTL

-------------------------------------------------------------------------------
(* Part 2.  With handlers that run one after the other, every published    *)
(* list is whole, and the collector implements StatsRounds.                *)
(*                                                                         *)
(* Streams of replies, and what the actions do with them.                  *)

\* A sequence of replies: a part is sent after place m, nothing else comes of
\* the request at place m, the stream is cut after m places.
Inserted(s, t, m) ==
    /\ m \in 1 .. Len(s) /\ Len(t) = Len(s) + 1
    /\ \A i \in 1 .. m : t[i] = s[i]
    /\ t[m + 1].xid = s[m].xid /\ t[m + 1].part = s[m].part + 1
    /\ \A i \in m + 2 .. Len(s) + 1 : t[i] = s[i - 1]
    /\ \A j \in m + 1 .. Len(s) : s[j].xid # s[m].xid

Dropped(s, t, m) ==
    /\ m \in 1 .. Len(s) /\ Len(t) = Len(s) - 1
    /\ \A i \in 1 .. m - 1 : t[i] = s[i]
    /\ \A i \in m .. Len(s) - 1 : t[i] = s[i + 1]
    /\ \A j \in m + 1 .. Len(s) : s[j].xid # s[m].xid

Shortened(s, t, m) ==
    /\ m \in 0 .. Len(s) /\ Len(t) = m /\ \A i \in 1 .. m : t[i] = s[i]

LEMMA PlaceOfStream ==
  ASSUME NEW s \in Seq(Part)
  PROVE  /\ Len(s) \in Nat /\ DOMAIN s = 1 .. Len(s)
         /\ \A i \in 1 .. Len(s) : s[i] \in Part /\ s[i].xid \in Nat /\ s[i].part \in Nat
<1>1. \A i \in 1 .. Len(s) : s[i] \in Part
  OBVIOUS
<1>2. \A q \in Part : q.xid \in Nat /\ q.part \in Nat
  BY StatsAssumption DEF Part
<1>. QED  BY <1>1, <1>2

LEMMA InsertedStream ==
  ASSUME NEW s \in Seq(Part), NEW t \in Seq(Part), NEW m, Inserted(s, t, m),
         InOrder(s), NoGaps(s)
  PROVE  /\ InOrder(t) /\ NoGaps(t)
         /\ \A x, n : Follows(s, x, n) => Follows(t, x, n)
<1>1. /\ Len(s) \in Nat /\ DOMAIN s = 1 .. Len(s) /\ DOMAIN t = 1 .. Len(s) + 1
      /\ m \in 1 .. Len(s)
      /\ \A i \in 1 .. Len(s) : s[i].xid \in Nat /\ s[i].part \in Nat
  BY PlaceOfStream DEF Inserted
<1>2. /\ \A i \in 1 .. m : t[i] = s[i]
      /\ t[m + 1].xid = s[m].xid /\ t[m + 1].part = s[m].part + 1
      /\ \A i \in m + 2 .. Len(s) + 1 : t[i] = s[i - 1] /\ i - 1 \in DOMAIN s
      /\ \A j \in m + 1 .. Len(s) : s[j].xid > s[m].xid
  <2>1. ASSUME NEW j \in m + 1 .. Len(s) PROVE s[j].xid > s[m].xid
    <3>1. s[j].xid # s[m].xid /\ m < j /\ j \in DOMAIN s /\ m \in DOMAIN s
      BY <1>1 DEF Inserted
    <3>. QED  BY <1>1, <3>1 DEF InOrder
  <2>. QED  BY <1>1, <2>1 DEF Inserted
<1>3. InOrder(t)
  <2>1. SUFFICES ASSUME NEW i \in DOMAIN t, NEW j \in DOMAIN t, i < j
                 PROVE  \/ t[i].xid < t[j].xid
                        \/ t[i].xid = t[j].xid /\ t[i].part < t[j].part
    BY DEF InOrder
  <2>2. CASE j <= m
    <3>1. t[j] = s[j] /\ j \in DOMAIN s /\ t[i] = s[i] /\ i \in DOMAIN s
      BY <1>1, <1>2, <2>1, <2>2
    <3>. QED  BY <2>1, <3>1 DEF InOrder
  <2>3. CASE j = m + 1
    <3>1. i \in DOMAIN s /\ m \in DOMAIN s /\ t[i] = s[i] /\ i <= m
      BY <1>1, <1>2, <2>1, <2>3
    <3>2. \/ s[i].xid < s[m].xid
          \/ s[i].xid = s[m].xid /\ s[i].part <= s[m].part
      <4>1. CASE i = m
        BY <1>1, <3>1, <4>1
      <4>2. CASE i < m
        BY <1>1, <3>1, <4>2, SMTT(30) DEF InOrder
      <4>. QED  BY <1>1, <3>1, <4>1, <4>2
    <3>. QED  BY <1>1, <1>2, <2>3, <3>1, <3>2
  <2>4. CASE j > m + 1 /\ i = m + 1
    <3>1. t[j] = s[j - 1] /\ j - 1 \in m + 1 .. Len(s)
      BY <1>1, <1>2, <2>1, <2>4
    <3>. QED  BY <1>1, <1>2, <2>4, <3>1
  <2>5. CASE j > m + 1 /\ i <= m
    <3>1. t[j] = s[j - 1] /\ j - 1 \in DOMAIN s /\ t[i] = s[i] /\ i \in DOMAIN s /\ i < j - 1
      BY <1>1, <1>2, <2>1, <2>5
    <3>. QED  BY <3>1 DEF InOrder
  <2>6. CASE i > m + 1
    <3>1. /\ t[j] = s[j - 1] /\ j - 1 \in DOMAIN s /\ t[i] = s[i - 1] /\ i - 1 \in DOMAIN s
          /\ i - 1 < j - 1
      BY <1>1, <1>2, <2>1, <2>6
    <3>. QED  BY <3>1 DEF InOrder
  <2>. QED  BY <1>1, <2>1, <2>2, <2>3, <2>4, <2>5, <2>6
<1>4. NoGaps(t)
  <2>1. SUFFICES ASSUME NEW i \in DOMAIN t, i # 1
                 PROVE  \/ t[i].part = 1
                        \/ t[i - 1].xid = t[i].xid /\ t[i].part = t[i - 1].part + 1
    BY DEF NoGaps
  <2>2. CASE i <= m
    <3>1. t[i] = s[i] /\ t[i - 1] = s[i - 1] /\ i \in DOMAIN s
      BY <1>1, <1>2, <2>1, <2>2
    <3>. QED  BY <2>1, <3>1 DEF NoGaps
  <2>3. CASE i = m + 1
    BY <1>1, <1>2, <2>3
  <2>4. CASE i = m + 2
    <3>1. t[i] = s[m + 1] /\ m + 1 \in DOMAIN s /\ s[m + 1].xid > s[m].xid
      BY <1>1, <1>2, <2>1, <2>4
    <3>2. m + 1 # 1 /\ s[(m + 1) - 1].xid # s[m + 1].xid
      BY <1>1, <3>1
    <3>. QED  BY <3>1, <3>2 DEF NoGaps
  <2>5. CASE i > m + 2
    <3>1. /\ t[i] = s[i - 1] /\ t[i - 1] = s[(i - 1) - 1] /\ i - 1 \in DOMAIN s /\ i - 1 # 1
      BY <1>1, <1>2, <2>1, <2>5, SMTT(30)
    <3>. QED  BY <3>1 DEF NoGaps
  <2>6. i <= m \/ i = m + 1 \/ i = m + 2 \/ i > m + 2
    BY <1>1
  <2>. QED  BY <2>2, <2>3, <2>4, <2>5, <2>6
<1>5. ASSUME NEW x, NEW n, Follows(s, x, n) PROVE Follows(t, x, n)
  <2>1. SUFFICES ASSUME NEW i \in DOMAIN t, t[i].xid = x, i = 1 \/ t[i - 1].xid # x
                 PROVE  t[i].part = n + 1
    BY DEF Follows
  <2>2. CASE i <= m
    <3>1. t[i] = s[i] /\ i \in DOMAIN s /\ (i = 1 \/ t[i - 1] = s[i - 1])
      BY <1>1, <1>2, <2>1, <2>2
    <3>. QED  BY <1>5, <2>1, <3>1 DEF Follows
  <2>3. CASE i = m + 1
    <3>1. i # 1 /\ t[i - 1] = s[m] /\ t[i].xid = s[m].xid
      BY <1>1, <1>2, <2>3
    <3>. QED  BY <2>1, <3>1
  <2>4. CASE i = m + 2
    <3>1. t[i] = s[m + 1] /\ m + 1 \in DOMAIN s /\ s[m + 1].xid > s[m].xid
      BY <1>1, <1>2, <2>1, <2>4
    <3>2. s[(m + 1) - 1].xid # x
      BY <1>1, <2>1, <3>1
    <3>. QED  BY <1>5, <2>1, <3>1, <3>2 DEF Follows
  <2>5. CASE i > m + 2
    <3>1. t[i] = s[i - 1] /\ t[i - 1] = s[(i - 1) - 1] /\ i - 1 \in DOMAIN s /\ i # 1
      BY <1>1, <1>2, <2>1, <2>5, SMTT(30)
    <3>. QED  BY <1>5, <2>1, <3>1 DEF Follows
  <2>. QED  BY <1>1, <2>1, <2>2, <2>3, <2>4, <2>5
<1>. QED  BY <1>3, <1>4, <1>5

LEMMA DroppedStream ==
  ASSUME NEW s \in Seq(Part), NEW t \in Seq(Part), NEW m, Dropped(s, t, m),
         InOrder(s), NoGaps(s)
  PROVE  /\ InOrder(t) /\ NoGaps(t)
         /\ \A x, n : Follows(s, x, n) => Follows(t, x, n)
<1>1. /\ Len(s) \in Nat /\ DOMAIN s = 1 .. Len(s) /\ DOMAIN t = 1 .. Len(s) - 1
      /\ m \in 1 .. Len(s)
      /\ \A i \in 1 .. m - 1 : t[i] = s[i]
      /\ \A i \in m .. Len(s) - 1 : t[i] = s[i + 1] /\ i + 1 \in DOMAIN s
      /\ m + 1 \in DOMAIN s => s[m + 1].xid # s[m].xid
  BY PlaceOfStream DEF Dropped
<1>2. InOrder(t)
  <2>1. SUFFICES ASSUME NEW i \in DOMAIN t, NEW j \in DOMAIN t, i < j
                 PROVE  \/ t[i].xid < t[j].xid
                        \/ t[i].xid = t[j].xid /\ t[i].part < t[j].part
    BY DEF InOrder
  <2>2. CASE j < m
    <3>1. t[i] = s[i] /\ t[j] = s[j] /\ i \in DOMAIN s /\ j \in DOMAIN s
      BY <1>1, <2>1, <2>2
    <3>. QED  BY <2>1, <3>1 DEF InOrder
  <2>3. CASE i < m /\ j >= m
    <3>1. t[i] = s[i] /\ t[j] = s[j + 1] /\ i \in DOMAIN s /\ j + 1 \in DOMAIN s /\ i < j + 1
      BY <1>1, <2>1, <2>3
    <3>. QED  BY <3>1 DEF InOrder
  <2>4. CASE i >= m
    <3>1. /\ t[i] = s[i + 1] /\ t[j] = s[j + 1] /\ i + 1 \in DOMAIN s /\ j + 1 \in DOMAIN s
          /\ i + 1 < j + 1
      BY <1>1, <2>1, <2>4
    <3>. QED  BY <3>1 DEF InOrder
  <2>. QED  BY <1>1, <2>1, <2>2, <2>3, <2>4
<1>3. NoGaps(t)
  <2>1. SUFFICES ASSUME NEW i \in DOMAIN t, i # 1
                 PROVE  \/ t[i].part = 1
                        \/ t[i - 1].xid = t[i].xid /\ t[i].part = t[i - 1].part + 1
    BY DEF NoGaps
  <2>2. CASE i < m
    <3>1. t[i] = s[i] /\ t[i - 1] = s[i - 1] /\ i \in DOMAIN s
      BY <1>1, <2>1, <2>2
    <3>. QED  BY <2>1, <3>1 DEF NoGaps
  <2>3. CASE i = m
    <3>1. t[i] = s[m + 1] /\ m + 1 \in DOMAIN s /\ m + 1 # 1 /\ s[(m + 1) - 1].xid # s[m + 1].xid
      BY <1>1, <2>1, <2>3
    <3>. QED  BY <3>1 DEF NoGaps
  <2>4. CASE i > m
    <3>1. t[i] = s[i + 1] /\ t[i - 1] = s[(i + 1) - 1] /\ i + 1 \in DOMAIN s /\ i + 1 # 1
      BY <1>1, <2>1, <2>4
    <3>. QED  BY <3>1 DEF NoGaps
  <2>. QED  BY <1>1, <2>1, <2>2, <2>3, <2>4
<1>4. ASSUME NEW x, NEW n, Follows(s, x, n) PROVE Follows(t, x, n)
  <2>1. SUFFICES ASSUME NEW i \in DOMAIN t, t[i].xid = x, i = 1 \/ t[i - 1].xid # x
                 PROVE  t[i].part = n + 1
    BY DEF Follows
  <2>2. CASE i < m
    <3>1. t[i] = s[i] /\ i \in DOMAIN s /\ (i = 1 \/ t[i - 1] = s[i - 1])
      BY <1>1, <2>1, <2>2
    <3>. QED  BY <1>4, <2>1, <3>1 DEF Follows
  <2>3. CASE i = m
    <3>1. t[i] = s[m + 1] /\ m + 1 \in DOMAIN s /\ (m + 1) - 1 = m
      BY <1>1, <2>1, <2>3
    <3>2. s[(m + 1) - 1].xid # x
      BY <1>1, <2>1, <3>1
    <3>. QED  BY <1>4, <2>1, <3>1, <3>2 DEF Follows
  <2>4. CASE i > m
    <3>1. t[i] = s[i + 1] /\ t[i - 1] = s[(i + 1) - 1] /\ i + 1 \in DOMAIN s /\ i # 1
      BY <1>1, <2>1, <2>4
    <3>. QED  BY <1>4, <2>1, <3>1 DEF Follows
  <2>. QED  BY <1>1, <2>1, <2>2, <2>3, <2>4
<1>. QED  BY <1>2, <1>3, <1>4

LEMMA ShortenedStream ==
  ASSUME NEW s \in Seq(Part), NEW t \in Seq(Part), NEW m, Shortened(s, t, m),
         InOrder(s), NoGaps(s)
  PROVE  /\ InOrder(t) /\ NoGaps(t)
         /\ \A x, n : Follows(s, x, n) => Follows(t, x, n)
<1>1. /\ DOMAIN t = 1 .. m /\ m \in Nat /\ \A i \in DOMAIN t : i \in DOMAIN s /\ t[i] = s[i]
      /\ \A i \in DOMAIN t : i # 1 => t[i - 1] = s[i - 1]
  BY PlaceOfStream DEF Shortened
<1>2. InOrder(t)
  BY <1>1 DEF InOrder
<1>3. NoGaps(t)
  BY <1>1 DEF NoGaps
<1>4. ASSUME NEW x, NEW n, Follows(s, x, n) PROVE Follows(t, x, n)
  BY <1>1, <1>4 DEF Follows
<1>. QED  BY <1>2, <1>3, <1>4

\* The first reply of a stream is taken: the first part of another request
\* stays the first, and of the same request the next part comes next.
LEMMA TakenFirst ==
  ASSUME NEW s \in Seq(Part), s # <<>>, InOrder(s), NoGaps(s)
  PROVE  /\ Tail(s) \in Seq(Part) /\ InOrder(Tail(s)) /\ NoGaps(Tail(s))
         /\ \A x, n : Follows(s, x, n) /\ s[1].xid # x => Follows(Tail(s), x, n)
         /\ \A x : \A n \in Nat : Follows(s, x, n) /\ s[1].xid = x
               => s[1].part = n + 1 /\ Follows(Tail(s), x, n + 1)
<1> DEFINE t == Tail(s)
<1>1. /\ t \in Seq(Part) /\ Len(s) \in Nat /\ Len(s) >= 1 /\ DOMAIN s = 1 .. Len(s)
      /\ DOMAIN t = 1 .. Len(s) - 1
      /\ \A i \in DOMAIN t : t[i] = s[i + 1] /\ i + 1 \in DOMAIN s /\ i + 1 # 1
      /\ \A i \in DOMAIN t : i # 1 => t[i - 1] = s[(i + 1) - 1]
      /\ \A i \in 1 .. Len(s) : s[i].xid \in Nat /\ s[i].part \in Nat
  BY HeadTailProperties, PlaceOfStream
<1>. HIDE DEF t
<1>2. InOrder(t)
  <2>1. SUFFICES ASSUME NEW i \in DOMAIN t, NEW j \in DOMAIN t, i < j
                 PROVE  \/ t[i].xid < t[j].xid
                        \/ t[i].xid = t[j].xid /\ t[i].part < t[j].part
    BY DEF InOrder
  <2>2. t[i] = s[i + 1] /\ t[j] = s[j + 1] /\ i + 1 < j + 1
    BY <1>1, <2>1
  <2>. QED  BY <1>1, <2>2 DEF InOrder
<1>3. NoGaps(t)
  BY <1>1 DEF NoGaps
<1>4. ASSUME NEW x, NEW n, Follows(s, x, n), s[1].xid # x PROVE Follows(t, x, n)
  <2>1. SUFFICES ASSUME NEW i \in DOMAIN t, t[i].xid = x, i = 1 \/ t[i - 1].xid # x
                 PROVE  t[i].part = n + 1
    BY DEF Follows
  <2>2. s[(i + 1) - 1].xid # x
    BY <1>1, <1>4, <2>1
  <2>. QED  BY <1>1, <1>4, <2>1, <2>2 DEF Follows
<1>5. ASSUME NEW x, NEW n \in Nat, Follows(s, x, n), s[1].xid = x
      PROVE  s[1].part = n + 1 /\ Follows(t, x, n + 1)
  <2>1. 1 \in DOMAIN s
    BY <1>1
  <2>2. s[1].part = n + 1
    BY <1>5, <2>1 DEF Follows
  <2>3. ASSUME NEW i \in DOMAIN t, t[i].xid = x, i = 1 \/ t[i - 1].xid # x
        PROVE  t[i].part = (n + 1) + 1
    <3>1. CASE i = 1
      <4>1. t[1] = s[1 + 1] /\ 1 + 1 \in DOMAIN s /\ 1 + 1 = 2 /\ 2 - 1 = 1
        BY <1>1, <2>3, <3>1
      <4>2. t[1] = s[2] /\ 2 \in DOMAIN s /\ 2 # 1 /\ 1 < 2 /\ s[2].xid = x
        BY <2>3, <3>1, <4>1
      <4>3. s[1].part < s[2].part
        <5>1. \/ s[1].xid < s[2].xid
              \/ s[1].xid = s[2].xid /\ s[1].part < s[2].part
          BY <2>1, <4>2 DEF InOrder
        <5>2. s[1].xid = x /\ s[2].xid = x /\ x \in Nat
          BY <1>1, <1>5, <2>1, <4>2
        <5>. QED  BY <5>1, <5>2
      <4>4. \/ s[2].part = 1
            \/ s[2 - 1].xid = s[2].xid /\ s[2].part = s[2 - 1].part + 1
        BY <4>2 DEF NoGaps
      <4>5. s[1].part \in Nat /\ s[2].part \in Nat /\ s[1].part = n + 1
        BY <1>1, <2>1, <2>2, <4>2
      <4>. QED  BY <3>1, <4>1, <4>2, <4>3, <4>4, <4>5
    <3>2. CASE i # 1
      <4>1. /\ t[i] = s[i + 1] /\ t[i - 1] = s[i] /\ i \in DOMAIN s /\ i + 1 \in DOMAIN s
            /\ 1 < i /\ i < i + 1
        BY <1>1, <3>2
      <4>0. /\ s[1].xid < s[i].xid \/ s[1].xid = s[i].xid
            /\ s[i].xid < s[i + 1].xid \/ s[i].xid = s[i + 1].xid
        BY <2>1, <4>1 DEF InOrder
      <4>2. s[1].xid <= s[i].xid /\ s[i].xid <= s[i + 1].xid
        BY <1>1, <2>1, <4>1, <4>0
      <4>3. s[i].xid = x
        BY <1>1, <1>5, <2>3, <4>1, <4>2
      <4>. QED  BY <2>3, <3>2, <4>1, <4>3
    <3>. QED  BY <3>1, <3>2
  <2>. QED  BY <2>2, <2>3 DEF Follows
<1>. QED  BY <1>1, <1>2, <1>3, <1>4, <1>5 DEF t

\* A request that is newer than what was sent and asked before.
LEMMA LastAsked ==
  ASSUME NEW s \in Seq(Part), NEW q \in Part, q.part = 1,
         \A i \in DOMAIN s : s[i].xid < q.xid,
         InOrder(s), NoGaps(s)
  PROVE  /\ Append(s, q) \in Seq(Part) /\ InOrder(Append(s, q)) /\ NoGaps(Append(s, q))
         /\ \A x, n : Follows(s, x, n) /\ x # q.xid => Follows(Append(s, q), x, n)
         /\ Follows(Append(s, q), q.xid, 0)
<1> DEFINE t == Append(s, q)
<1>1. /\ t \in Seq(Part) /\ Len(s) \in Nat /\ DOMAIN s = 1 .. Len(s)
      /\ DOMAIN t = 1 .. Len(s) + 1 /\ \A i \in DOMAIN s : t[i] = s[i]
      /\ t[Len(s) + 1] = q
  BY AppendProperties, PlaceOfStream
<1>. HIDE DEF t
<1>0. q.xid \in Nat /\ \A i \in DOMAIN s : s[i].xid \in Nat /\ s[i].part \in Nat
  BY PlaceOfStream DEF Part
<1>2. InOrder(t)
  <2>1. SUFFICES ASSUME NEW i \in DOMAIN t, NEW j \in DOMAIN t, i < j
                 PROVE  \/ t[i].xid < t[j].xid
                        \/ t[i].xid = t[j].xid /\ t[i].part < t[j].part
    BY DEF InOrder
  <2>2. i \in DOMAIN s /\ t[i] = s[i]
    BY <1>1, <2>1
  <2>3. CASE j \in DOMAIN s
    BY <1>1, <2>1, <2>2, <2>3 DEF InOrder
  <2>4. CASE j = Len(s) + 1
    BY <1>1, <2>2, <2>4
  <2>. QED  BY <1>1, <2>3, <2>4
<1>3. NoGaps(t)
  <2>1. SUFFICES ASSUME NEW i \in DOMAIN t, i # 1
                 PROVE  \/ t[i].part = 1
                        \/ t[i - 1].xid = t[i].xid /\ t[i].part = t[i - 1].part + 1
    BY DEF NoGaps
  <2>2. CASE i \in DOMAIN s
    <3>1. t[i] = s[i] /\ t[i - 1] = s[i - 1]
      BY <1>1, <2>1, <2>2
    <3>. QED  BY <2>1, <2>2, <3>1 DEF NoGaps
  <2>3. CASE i = Len(s) + 1
    BY <1>1, <2>3
  <2>. QED  BY <1>1, <2>2, <2>3
<1>4. ASSUME NEW x, NEW n, Follows(s, x, n), x # q.xid PROVE Follows(t, x, n)
  <2>1. SUFFICES ASSUME NEW i \in DOMAIN t, t[i].xid = x, i = 1 \/ t[i - 1].xid # x
                 PROVE  t[i].part = n + 1
    BY DEF Follows
  <2>2. i \in DOMAIN s /\ t[i] = s[i] /\ (i = 1 \/ t[i - 1] = s[i - 1])
    BY <1>1, <1>4, <2>1
  <2>. QED  BY <1>4, <2>1, <2>2 DEF Follows
<1>5. Follows(t, q.xid, 0)
  <2>1. ASSUME NEW i \in DOMAIN t, t[i].xid = q.xid PROVE t[i].part = 0 + 1
    <3>1. i = Len(s) + 1
      <4>1. i \notin DOMAIN s
        BY <1>1, <1>0, <2>1
      <4>. QED  BY <1>1, <4>1
    <3>. QED  BY <1>1, <3>1
  <2>. QED  BY <2>1 DEF Follows
<1>. QED  BY <1>1, <1>2, <1>3, <1>4, <1>5 DEF t

\* What comes after a part that is sent, and after one that is not.
LEMMA JoinedStream ==
  ASSUME NEW p \in Seq(Part), NEW v \in Seq(Part)
  PROVE  /\ p \o v \in Seq(Part) /\ Len(p) \in Nat /\ Len(v) \in Nat
         /\ DOMAIN p = 1 .. Len(p) /\ DOMAIN v = 1 .. Len(v)
         /\ Len(p \o v) = Len(p) + Len(v) /\ DOMAIN (p \o v) = 1 .. Len(p) + Len(v)
         /\ \A i \in 1 .. Len(p) : (p \o v)[i] = p[i]
         /\ \A i \in Len(p) + 1 .. Len(p) + Len(v) :
               (p \o v)[i] = v[i - Len(p)] /\ i - Len(p) \in 1 .. Len(v)
<1>1. /\ Len(p) \in Nat /\ Len(v) \in Nat /\ DOMAIN p = 1 .. Len(p) /\ DOMAIN v = 1 .. Len(v)
  OBVIOUS
<1> DEFINE s == p \o v
<1>2. /\ s \in Seq(Part) /\ Len(s) = Len(p) + Len(v)
      /\ \A i \in 1 .. Len(p) + Len(v) : s[i] = IF i <= Len(p) THEN p[i] ELSE v[i - Len(p)]
  BY ConcatProperties
<1>. HIDE DEF s
<1>3. DOMAIN s = 1 .. Len(p) + Len(v)
  BY <1>2
<1>4. \A i \in 1 .. Len(p) : s[i] = p[i]
  BY <1>1, <1>2
<1>5. ASSUME NEW i \in Len(p) + 1 .. Len(p) + Len(v)
      PROVE  s[i] = v[i - Len(p)] /\ i - Len(p) \in 1 .. Len(v)
  BY <1>1, <1>2
<1>. QED  BY <1>1, <1>2, <1>3, <1>4, <1>5 DEF s

LEMMA SentLast ==
  ASSUME NEW w \in Seq(Part), NEW q \in Part, NEW v \in Seq(Part)
  PROVE  Append(w, q) \o v = w \o (<<q>> \o v)
<1>1. Append(w, q) = w \o <<q>> /\ <<q>> \in Seq(Part)
  BY AppendIsConcat
<1>. QED  BY <1>1, ConcatAssociative

LEMMA AskedLast ==
  ASSUME NEW w \in Seq(Part), NEW q \in Part, NEW v \in Seq(Part)
  PROVE  Append(w \o v, q) = w \o Append(v, q)
<1>1. Append(v, q) = v \o <<q>> /\ <<q>> \in Seq(Part) /\ w \o v \in Seq(Part)
  BY AppendIsConcat, ConcatProperties
<1>2. Append(w \o v, q) = (w \o v) \o <<q>>
  BY <1>1, AppendIsConcat
<1>. QED  BY <1>1, <1>2, ConcatAssociative

LEMMA SentPart ==
  ASSUME NEW w \in Seq(Part), NEW q \in Part, NEW n \in Part, NEW v \in Seq(Part),
         n.xid = q.xid, n.part = q.part + 1, \A i \in DOMAIN v : v[i].xid # q.xid
  PROVE  Inserted(w \o (<<q>> \o v), Append(w, q) \o (<<n>> \o v), Len(w) + 1)
<1> DEFINE p == Append(w, q)
           m == Len(w) + 1
           r == Append(p, n)
           s == p \o v
           t == r \o v
<1>1. /\ p \in Seq(Part) /\ Len(w) \in Nat /\ Len(p) = m /\ p[m] = q
  BY AppendProperties
<1>. HIDE DEF p, m
<1>2. /\ r \in Seq(Part) /\ Len(r) = m + 1 /\ r[m + 1] = n /\ \A i \in 1 .. m : r[i] = p[i]
  BY <1>1, AppendProperties
<1>. HIDE DEF r
<1>3. m \in Nat /\ m >= 1
  BY <1>1 DEF m
<1>4. /\ Len(s) = m + Len(v) /\ Len(v) \in Nat /\ \A i \in 1 .. m : s[i] = p[i]
      /\ \A i \in m + 1 .. m + Len(v) : s[i] = v[i - m] /\ i - m \in DOMAIN v
  <2>1. /\ Len(s) = Len(p) + Len(v) /\ Len(v) \in Nat /\ \A i \in 1 .. Len(p) : s[i] = p[i]
        /\ \A i \in Len(p) + 1 .. Len(p) + Len(v) : s[i] = v[i - Len(p)]
                                                    /\ i - Len(p) \in DOMAIN v
    BY <1>1, JoinedStream
  <2>. QED  BY <1>1, <2>1
<1>5. /\ Len(t) = (m + 1) + Len(v) /\ \A i \in 1 .. m + 1 : t[i] = r[i]
      /\ \A i \in (m + 1) + 1 .. (m + 1) + Len(v) : t[i] = v[i - (m + 1)]
  <2>1. /\ Len(t) = Len(r) + Len(v) /\ \A i \in 1 .. Len(r) : t[i] = r[i]
        /\ \A i \in Len(r) + 1 .. Len(r) + Len(v) : t[i] = v[i - Len(r)]
    BY <1>2, JoinedStream
  <2>. QED  BY <1>2, <2>1
<1>. HIDE DEF s, t
<1>6. /\ \A i \in 1 .. m : t[i] = s[i]
      /\ t[m + 1] = n /\ s[m] = q
      /\ \A j \in m + 1 .. Len(s) : s[j].xid # q.xid
  <2>1. \A i \in 1 .. m : i \in 1 .. m + 1
    BY <1>3
  <2>2. \A i \in 1 .. m : t[i] = s[i]
    BY <1>2, <1>4, <1>5, <2>1
  <2>3. m + 1 \in 1 .. m + 1 /\ m \in 1 .. m
    BY <1>3
  <2>4. t[m + 1] = n /\ s[m] = q
    BY <1>1, <1>2, <1>4, <1>5, <2>3
  <2>5. \A j \in m + 1 .. Len(s) : s[j].xid # q.xid
    BY <1>4
  <2>. QED  BY <2>2, <2>4, <2>5
<1>7. ASSUME NEW i \in m + 2 .. Len(s) + 1 PROVE t[i] = s[i - 1]
  <2>1. /\ i \in (m + 1) + 1 .. (m + 1) + Len(v) /\ i - 1 \in m + 1 .. m + Len(v)
        /\ (i - 1) - m = i - (m + 1)
    BY <1>3, <1>4
  <2>. QED  BY <1>4, <1>5, <2>1
<1>8. Inserted(s, t, m)
  BY <1>3, <1>4, <1>5, <1>6, <1>7 DEF Inserted
<1>9. s = w \o (<<q>> \o v) /\ t = p \o (<<n>> \o v)
  BY <1>1, SentLast DEF s, t, p, r
<1>. QED  BY <1>8, <1>9 DEF p, m

LEMMA NotSent ==
  ASSUME NEW w \in Seq(Part), NEW q \in Part, NEW v \in Seq(Part),
         \A i \in DOMAIN v : v[i].xid # q.xid
  PROVE  Dropped(w \o (<<q>> \o v), w \o v, Len(w) + 1)
<1> DEFINE p == Append(w, q)
           m == Len(w) + 1
           s == p \o v
           t == w \o v
<1>1. /\ p \in Seq(Part) /\ Len(w) \in Nat /\ Len(p) = m /\ p[m] = q
      /\ \A i \in 1 .. Len(w) : p[i] = w[i]
  BY AppendProperties
<1>. HIDE DEF p
<1>4. /\ Len(s) = m + Len(v) /\ Len(v) \in Nat /\ \A i \in 1 .. m : s[i] = p[i]
      /\ \A i \in m + 1 .. m + Len(v) : s[i] = v[i - m] /\ i - m \in DOMAIN v
  <2>1. /\ Len(s) = Len(p) + Len(v) /\ Len(v) \in Nat /\ \A i \in 1 .. Len(p) : s[i] = p[i]
        /\ \A i \in Len(p) + 1 .. Len(p) + Len(v) : s[i] = v[i - Len(p)]
                                                    /\ i - Len(p) \in DOMAIN v
    BY <1>1, JoinedStream
  <2>. QED  BY <1>1, <2>1
<1>5. /\ Len(t) = Len(w) + Len(v) /\ \A i \in 1 .. Len(w) : t[i] = w[i]
      /\ \A i \in Len(w) + 1 .. Len(w) + Len(v) : t[i] = v[i - Len(w)]
  BY JoinedStream
<1>. HIDE DEF s, t
<1>6. /\ \A i \in 1 .. m - 1 : t[i] = s[i]
      /\ s[m] = q /\ Len(t) = Len(s) - 1 /\ m \in 1 .. Len(s)
      /\ \A j \in m + 1 .. Len(s) : s[j].xid # q.xid
  <2>1. \A i \in 1 .. m - 1 : i \in 1 .. m /\ i \in 1 .. Len(w)
    BY <1>1
  <2>2. \A i \in 1 .. m - 1 : t[i] = s[i]
    BY <1>1, <1>4, <1>5, <2>1
  <2>3. m \in 1 .. m /\ Len(t) = Len(s) - 1 /\ m \in 1 .. Len(s)
    BY <1>1, <1>4, <1>5
  <2>4. s[m] = q
    BY <1>1, <1>4, <2>3
  <2>5. \A j \in m + 1 .. Len(s) : s[j].xid # q.xid
    BY <1>4
  <2>. QED  BY <2>2, <2>3, <2>4, <2>5
<1>7. ASSUME NEW i \in m .. Len(s) - 1 PROVE t[i] = s[i + 1]
  <2>1. /\ i \in Len(w) + 1 .. Len(w) + Len(v) /\ i + 1 \in m + 1 .. m + Len(v)
        /\ (i + 1) - m = i - Len(w)
    BY <1>1, <1>4
  <2>. QED  BY <1>4, <1>5, <2>1
<1>8. Dropped(s, t, m)
  BY <1>6, <1>7 DEF Dropped
<1>9. s = w \o (<<q>> \o v) /\ t = w \o v
  BY SentLast DEF s, t, p
<1>. QED  BY <1>8, <1>9

\* The requests of a stream stay requests.
LEMMA SameRequests ==
  ASSUME NEW s \in Seq(Part), NEW t \in Seq(Part), NEW m,
         Inserted(s, t, m) \/ Dropped(s, t, m) \/ Shortened(s, t, m)
  PROVE  \A i \in DOMAIN t : \E j \in DOMAIN s : t[i].xid = s[j].xid
<1>1. SUFFICES ASSUME NEW i \in DOMAIN t PROVE \E j \in DOMAIN s : t[i].xid = s[j].xid
  OBVIOUS
<1>2. i \in 1 .. Len(t) /\ DOMAIN s = 1 .. Len(s) /\ Len(t) \in Nat /\ Len(s) \in Nat
  OBVIOUS
<1>3. CASE Inserted(s, t, m)
  <2>1. m \in 1 .. Len(s) /\ i \in 1 .. Len(s) + 1
    BY <1>2, <1>3 DEF Inserted
  <2>2. CASE i <= m
    BY <1>2, <1>3, <2>1, <2>2 DEF Inserted
  <2>3. CASE i = m + 1
    BY <1>2, <1>3, <2>1, <2>3 DEF Inserted
  <2>4. CASE i > m + 1
    <3>1. i - 1 \in DOMAIN s /\ t[i] = s[i - 1]
      BY <1>2, <1>3, <2>1, <2>4 DEF Inserted
    <3>. QED  BY <3>1
  <2>. QED  BY <1>2, <2>1, <2>2, <2>3, <2>4
<1>4. CASE Dropped(s, t, m)
  <2>1. m \in 1 .. Len(s) /\ i \in 1 .. Len(s) - 1
    BY <1>2, <1>4 DEF Dropped
  <2>2. CASE i < m
    BY <1>2, <1>4, <2>1, <2>2 DEF Dropped
  <2>3. CASE i >= m
    <3>1. i + 1 \in DOMAIN s /\ t[i] = s[i + 1]
      BY <1>2, <1>4, <2>1, <2>3 DEF Dropped
    <3>. QED  BY <3>1
  <2>. QED  BY <1>2, <2>1, <2>2, <2>3
<1>5. CASE Shortened(s, t, m)
  BY <1>2, <1>5 DEF Shortened
<1>. QED  BY <1>1, <1>3, <1>4, <1>5

-------------------------------------------------------------------------------
(* The streams of the collector.                                           *)

\* The places of two sequences that are joined.
LEMMA WithinSum ==
  ASSUME NEW a \in Nat, NEW b \in Nat
  PROVE  /\ \A n \in 0 .. a : n \in 0 .. a + b
         /\ \A n \in 1 .. a + b : n > a => n \in a + 1 .. a + b
OBVIOUS

LEMMA StreamType ==
  ASSUME TypeOK, NEW k \in Kinds
  PROVE  Stream(k) \in Seq(Part) /\ wire[k] \in Seq(Part) /\ asked[k] \in Seq(Part)
BY JoinedStream DEF Stream, TypeOK

\* The requests in a stream were made.
LEMMA StreamXids ==
  ASSUME TypeOK, ItemsOnce, NEW k \in Kinds
  PROVE  \A i \in DOMAIN Stream(k) : Stream(k)[i].xid < nextXid
<1>1. AskedIsUnseen(k) /\ wire[k] \in Seq(Part) /\ asked[k] \in Seq(Part)
  BY StreamType DEF ItemsOnce, PlacesOnce
<1>2. ASSUME NEW i \in DOMAIN wire[k] PROVE wire[k][i].xid < nextXid
  <2>1. ItemOf(wire[k][i]) \in Seen(k) /\ ItemOf(wire[k][i]).xid = wire[k][i].xid
    BY DEF Seen, OnWire, Items, ItemOf
  <2>. QED  BY <1>1, <2>1 DEF AskedIsUnseen
<1>3. SUFFICES ASSUME NEW i \in DOMAIN Stream(k) PROVE Stream(k)[i].xid < nextXid
  OBVIOUS
<1>4. CASE i <= Len(wire[k])
  <2>1. i \in DOMAIN wire[k] /\ Stream(k)[i] = wire[k][i]
    BY <1>1, <1>4, JoinedStream DEF Stream
  <2>. QED  BY <1>2, <2>1
<1>5. CASE i > Len(wire[k])
  <2>0. /\ DOMAIN Stream(k) = 1 .. Len(wire[k]) + Len(asked[k])
        /\ Len(wire[k]) \in Nat /\ Len(asked[k]) \in Nat
    BY <1>1, JoinedStream DEF Stream
  <2>1. i \in Len(wire[k]) + 1 .. Len(wire[k]) + Len(asked[k])
    BY <1>5, <2>0, WithinSum
  <2>2. Stream(k)[i] = asked[k][i - Len(wire[k])] /\ i - Len(wire[k]) \in DOMAIN asked[k]
    BY <1>1, <2>1, JoinedStream DEF Stream
  <2>. QED  BY <1>1, <2>2 DEF AskedIsUnseen
<1>6. i \in Nat /\ Len(wire[k]) \in Nat
  BY <1>1, JoinedStream DEF Stream
<1>. QED  BY <1>4, <1>5, <1>6

\* A stream that changes in one of these ways stays in order.
LEMMA StreamKept ==
  ASSUME TypeOK, TypeOK', NEW k \in Kinds, StreamInOrder(k), NEW m,
         \/ Stream(k)' = Stream(k)
         \/ Inserted(Stream(k), Stream(k)', m)
         \/ Dropped(Stream(k), Stream(k)', m)
         \/ Shortened(Stream(k), Stream(k)', m)
  PROVE  /\ StreamInOrder(k)'
         /\ \A x, n : Follows(Stream(k), x, n) => Follows(Stream(k)', x, n)
<1> DEFINE s == Stream(k)
           t == Stream(k)'
<1>1. s \in Seq(Part) /\ t \in Seq(Part)
  <2>1. wire'[k] \in Seq(Part) /\ asked'[k] \in Seq(Part)
    BY DEF TypeOK
  <2>. QED  BY <2>1, StreamType, JoinedStream DEF Stream
<1>2. InOrder(s) /\ NoGaps(s) /\ \A i \in DOMAIN s : s[i].xid # 0
  BY DEF StreamInOrder
<1>3. CASE t = s
  BY <1>3 DEF StreamInOrder
<1>4. CASE Inserted(s, t, m) \/ Dropped(s, t, m) \/ Shortened(s, t, m)
  <2>. HIDE DEF s, t
  <2>1. InOrder(t) /\ NoGaps(t) /\ \A x, n : Follows(s, x, n) => Follows(t, x, n)
    BY <1>1, <1>2, <1>4, InsertedStream, DroppedStream, ShortenedStream
  <2>2. \A i \in DOMAIN t : t[i].xid # 0
    <3>1. \A i \in DOMAIN t : \E j \in DOMAIN s : t[i].xid = s[j].xid
      BY <1>1, <1>4, SameRequests
    <3>. QED  BY <1>2, <3>1
  <2>3. InOrder(Stream(k)') /\ NoGaps(Stream(k)')
        /\ \A i \in DOMAIN Stream(k)' : Stream(k)'[i].xid # 0
    BY <2>1, <2>2 DEF t
  <2>4. StreamInOrder(k)'
    BY <2>3 DEF StreamInOrder
  <2>. QED  BY <2>1, <2>4 DEF s, t
<1>. QED  BY <1>3, <1>4

\* What a switch that sends or gives up does to the streams.
LEMMA SwitchStream ==
  ASSUME TypeOK, TypeOK', ItemsOnce, NEW kind \in Kinds,
         SwitchSendsPart(kind) \/ SwitchGivesUp(kind),
         NEW k \in Kinds, StreamInOrder(k)
  PROVE  /\ StreamInOrder(k)'
         /\ \A x, n : Follows(Stream(k), x, n) => Follows(Stream(k)', x, n)
<1>1. CASE k # kind
  <2>1. Stream(k)' = Stream(k)
    BY <1>1 DEF SwitchSendsPart, SwitchGivesUp, Stream, TypeOK
  <2>. QED  BY <2>1, StreamKept
<1>2. CASE k = kind
  <2> DEFINE a == asked[k]
             w == wire[k]
             q == Head(a)
             v == Tail(a)
             n == [q EXCEPT !.part = @ + 1]
  <2>1. asked[k] # <<>> /\ asked[k] \in Seq(Part) /\ wire[k] \in Seq(Part)
    BY <1>2 DEF SwitchSendsPart, SwitchGivesUp, TypeOK
  <2>2. q \in Part /\ v \in Seq(Part) /\ a = <<q>> \o v
    BY <2>1, HeadTailProperties
  <2>3. \A i \in DOMAIN v : v[i].xid # q.xid
    <3>1. ASSUME NEW i \in DOMAIN v PROVE v[i].xid # q.xid
      <4>1. /\ i + 1 \in DOMAIN a /\ 1 \in DOMAIN a /\ i + 1 # 1
            /\ v[i] = a[i + 1] /\ q = a[1]
        BY <2>1, HeadTailProperties
      <4>. QED  BY <4>1 DEF ItemsOnce, PlacesOnce, AskedIsUnseen
    <3>. QED  BY <3>1
  <2>4. Stream(k) = w \o (<<q>> \o v)
    BY <2>2 DEF Stream
  <2>5. CASE SwitchGivesUp(kind)
    <3>1. Stream(k)' = w \o v
      BY <1>2, <2>5 DEF SwitchGivesUp, Stream, TypeOK
    <3>2. Dropped(Stream(k), Stream(k)', Len(w) + 1)
      <4>. HIDE DEF q, v, w
      <4>1. w \in Seq(Part)
        BY <2>1 DEF w
      <4>. QED  BY <2>2, <2>3, <2>4, <3>1, <4>1, NotSent
    <3>. QED  BY <3>2, StreamKept
  <2>6. CASE SwitchSendsPart(kind)
    <3>1. Stream(k)' = Append(w, q) \o (IF q.part < Parts THEN <<n>> \o v ELSE v)
      BY <1>2, <2>6 DEF SwitchSendsPart, Stream, TypeOK
    <3>2. q.part < Parts => n \in Part /\ n.xid = q.xid /\ n.part = q.part + 1
      BY <2>2, NextPart
    <3>3. w \in Seq(Part)
      BY <2>1
    <3>. HIDE DEF q, v, w, n
    <3>4. CASE q.part < Parts
      <4>1. Inserted(Stream(k), Stream(k)', Len(w) + 1)
        BY <2>2, <2>3, <2>4, <3>1, <3>2, <3>3, <3>4, SentPart
      <4>. QED  BY <4>1, StreamKept
    <3>5. CASE ~(q.part < Parts)
      <4>1. Stream(k)' = Stream(k)
        BY <2>2, <2>4, <3>1, <3>3, <3>5, SentLast
      <4>. QED  BY <4>1, StreamKept
    <3>. QED  BY <3>4, <3>5
  <2>. QED  BY <2>5, <2>6
<1>. QED  BY <1>1, <1>2

\* A request is appended to the stream of its kind, unless the switch is gone.
LEMMA AskStream ==
  ASSUME TypeOK, TypeOK', ItemsOnce, NEW r \in Requesters, NEW kind \in Kinds,
         Ask(r, kind), wire' = wire, 1 <= nextXid,
         NEW k \in Kinds, StreamInOrder(k)
  PROVE  /\ StreamInOrder(k)'
         /\ \A x, n : Follows(Stream(k), x, n) /\ x # nextXid => Follows(Stream(k)', x, n)
         /\ Follows(Stream(k)', nextXid, 0)
<1> DEFINE s == Stream(k)
           t == Stream(k)'
           q == [kind |-> k, xid |-> nextXid, part |-> 1]
<1>1. /\ s \in Seq(Part) /\ wire[k] \in Seq(Part) /\ asked[k] \in Seq(Part) /\ nextXid \in Nat
      /\ \A i \in DOMAIN s : s[i].xid < nextXid
  BY StreamType, StreamXids DEF TypeOK
<1>2. q \in Part /\ q.part = 1 /\ q.xid = nextXid
  BY <1>1, StatsAssumption DEF Part
<1>3. t = s \/ t = Append(s, q)
  <2>1. CASE asked'[k] = asked[k]
    BY <2>1 DEF Stream
  <2>2. CASE asked'[k] # asked[k]
    <3>1. asked'[k] = Append(asked[k], q)
      BY <2>2 DEF Ask, TypeOK
    <3>. HIDE DEF q
    <3>2. t = wire[k] \o Append(asked[k], q)
      BY <3>1 DEF Stream
    <3>3. Append(wire[k] \o asked[k], q) = wire[k] \o Append(asked[k], q)
      BY <1>1, <1>2, AskedLast
    <3>. QED  BY <3>2, <3>3 DEF Stream
  <2>. QED  BY <2>1, <2>2
<1>4. InOrder(s) /\ NoGaps(s) /\ \A i \in DOMAIN s : s[i].xid # 0
  BY DEF StreamInOrder
<1>5. CASE t = s
  <2>1. \A i \in DOMAIN s : s[i].xid # nextXid
    BY <1>1, PlaceOfStream
  <2>2. Follows(s, nextXid, 0)
    BY <2>1 DEF Follows
  <2>. QED  BY <1>5, <2>2 DEF StreamInOrder
<1>6. CASE t = Append(s, q)
  <2>. HIDE DEF s, t, q
  <2>1. /\ t \in Seq(Part) /\ InOrder(t) /\ NoGaps(t)
        /\ \A x, n : Follows(s, x, n) /\ x # nextXid => Follows(t, x, n)
        /\ Follows(t, nextXid, 0)
    BY <1>1, <1>2, <1>4, <1>6, LastAsked
  <2>2. \A i \in DOMAIN t : t[i].xid # 0
    <3>1. /\ DOMAIN t = 1 .. Len(s) + 1 /\ DOMAIN s = 1 .. Len(s) /\ Len(s) \in Nat
          /\ \A i \in DOMAIN s : t[i] = s[i]
          /\ t[Len(s) + 1] = q
      BY <1>1, <1>2, <1>6, AppendProperties
    <3>. QED  BY <1>1, <1>2, <1>4, <3>1
  <2>3. StreamInOrder(k)'
    BY <2>1, <2>2 DEF StreamInOrder, t
  <2>. QED  BY <2>1, <2>3 DEF s, t
<1>. QED  BY <1>3, <1>5, <1>6

\* The loop takes the first reply of a kind.
LEMMA TakeStream ==
  ASSUME TypeOK, TypeOK', NEW k \in Kinds, HandleReply(k, 1), 1 \in DOMAIN wire[k],
         StreamInOrder(k)
  PROVE  /\ StreamInOrder(k)'
         /\ Stream(k) # <<>> /\ Stream(k)[1] = wire[k][1]
         /\ \A x, n : Follows(Stream(k), x, n) /\ wire[k][1].xid # x
               => Follows(Stream(k)', x, n)
         /\ \A x : \A n \in Nat : Follows(Stream(k), x, n) /\ wire[k][1].xid = x
               => wire[k][1].part = n + 1 /\ Follows(Stream(k)', x, n + 1)
<1> DEFINE s == Stream(k)
           t == Stream(k)'
           w == wire[k]
           a == asked[k]
<1>1. /\ s \in Seq(Part) /\ w \in Seq(Part) /\ a \in Seq(Part) /\ w # <<>>
      /\ Len(w) \in Nat /\ Len(w) >= 1
  BY StreamType
<1>2. wire'[k] = Tail(w) /\ asked' = asked
  <2>1. wire'[k] = RemoveAt(w, 1) /\ asked' = asked
    BY DEF HandleReply, TypeOK
  <2>2. RemoveAt(w, 1) = SubSeq(w, 1, 0) \o SubSeq(w, 2, Len(w))
    BY DEF RemoveAt
  <2>3. SubSeq(w, 1, 0) = <<>> /\ SubSeq(w, 2, Len(w)) = Tail(w)
    BY <1>1, SubSeqEmpty, TailIsSubSeq
  <2>4. Tail(w) \in Seq(Part)
    BY <1>1
  <2>. QED  BY <2>1, <2>2, <2>3, <2>4, ConcatEmptySeq
<1>3. t = Tail(w) \o a /\ s = w \o a
  BY <1>2 DEF Stream
<1>. HIDE DEF s, t, w, a
<1>4. t = Tail(s) /\ s # <<>> /\ s[1] = w[1]
  <2>1. /\ s = w \o a /\ Len(s) = Len(w) + Len(a) /\ Len(a) \in Nat
        /\ \A i \in 1 .. Len(w) : s[i] = w[i]
        /\ \A i \in Len(w) + 1 .. Len(w) + Len(a) : s[i] = a[i - Len(w)]
    BY <1>1, <1>3, JoinedStream
  <2>2. s # <<>> /\ s[1] = w[1]
    BY <1>1, <2>1
  <2>3. /\ Tail(w) \in Seq(Part) /\ Len(Tail(w)) = Len(w) - 1
        /\ \A i \in 1 .. Len(w) - 1 : Tail(w)[i] = w[i + 1]
        /\ Tail(s) \in Seq(Part) /\ Len(Tail(s)) = Len(s) - 1
        /\ \A i \in 1 .. Len(s) - 1 : Tail(s)[i] = s[i + 1]
    BY <1>1, <2>2, HeadTailProperties
  <2>4. /\ t \in Seq(Part) /\ Len(t) = (Len(w) - 1) + Len(a)
        /\ \A i \in 1 .. Len(w) - 1 : t[i] = Tail(w)[i]
        /\ \A i \in (Len(w) - 1) + 1 .. (Len(w) - 1) + Len(a) : t[i] = a[i - (Len(w) - 1)]
    BY <1>1, <1>3, <2>3, JoinedStream
  <2>5. ASSUME NEW i \in 1 .. Len(t) PROVE t[i] = Tail(s)[i]
    <3>1. CASE i <= Len(w) - 1
      <4>1. i \in 1 .. Len(w) - 1 /\ i + 1 \in 1 .. Len(w) /\ i \in 1 .. Len(s) - 1
        BY <1>1, <2>1, <2>4, <3>1
      <4>. QED  BY <2>1, <2>3, <2>4, <4>1
    <3>2. CASE i > Len(w) - 1
      <4>1. /\ i \in (Len(w) - 1) + 1 .. (Len(w) - 1) + Len(a)
            /\ i + 1 \in Len(w) + 1 .. Len(w) + Len(a) /\ i \in 1 .. Len(s) - 1
            /\ (i + 1) - Len(w) = i - (Len(w) - 1)
        BY <1>1, <2>1, <2>4, <3>2
      <4>. QED  BY <2>1, <2>3, <2>4, <4>1
    <3>3. i <= Len(w) - 1 \/ i > Len(w) - 1
      BY <1>1, <2>1, <2>4
    <3>. QED  BY <3>1, <3>2, <3>3
  <2>6. Len(t) = Len(Tail(s))
    BY <1>1, <2>1, <2>3, <2>4
  <2>7. t = Tail(s)
    BY <2>3, <2>4, <2>5, <2>6, SeqEqual
  <2>. QED  BY <2>2, <2>7
<1>5. InOrder(s) /\ NoGaps(s) /\ \A i \in DOMAIN s : s[i].xid # 0
  BY DEF StreamInOrder, s
<1>6. /\ InOrder(t) /\ NoGaps(t)
      /\ \A x, n : Follows(s, x, n) /\ w[1].xid # x => Follows(t, x, n)
      /\ \A x : \A n \in Nat : Follows(s, x, n) /\ w[1].xid = x
            => w[1].part = n + 1 /\ Follows(t, x, n + 1)
  BY <1>1, <1>4, <1>5, TakenFirst
<1>7. \A i \in DOMAIN t : t[i].xid # 0
  <2>1. \A i \in DOMAIN t : i + 1 \in DOMAIN s /\ t[i] = s[i + 1]
    BY <1>1, <1>4, HeadTailProperties
  <2>. QED  BY <1>5, <2>1
<1>8. StreamInOrder(k)'
  BY <1>6, <1>7 DEF StreamInOrder, t
<1>. QED  BY <1>4, <1>6, <1>8 DEF s, t, w

\* The connection is lost: the streams are cut.
LEMMA LostStream ==
  ASSUME TypeOK, TypeOK', ConnectionLost, NEW k \in Kinds, StreamInOrder(k)
  PROVE  /\ StreamInOrder(k)'
         /\ \A x, n : Follows(Stream(k), x, n) => Follows(Stream(k)', x, n)
<1>1. PICK n \in Cuts : wire' = [j \in Kinds |-> SubSeq(wire[j], 1, n[j])]
  BY DEF ConnectionLost
<1>2. n[k] \in 0 .. Len(wire[k])
  BY CutAt
<1>3. wire'[k] = SubSeq(wire[k], 1, n[k]) /\ asked'[k] = <<>>
  BY <1>1 DEF ConnectionLost, NoLists
<1>4. /\ wire[k] \in Seq(Part) /\ asked[k] \in Seq(Part) /\ Len(wire[k]) \in Nat
      /\ wire'[k] \in Seq(Part)
  BY StreamType DEF TypeOK
<1>5. /\ Len(wire'[k]) = n[k] /\ \A i \in 1 .. n[k] : wire'[k][i] = wire[k][i]
  BY <1>2, <1>3, <1>4, SubSeqProperties
<1>6. Stream(k)' = wire'[k]
  BY <1>3, <1>4, ConcatEmptySeq DEF Stream
<1>7. Len(Stream(k)) = Len(wire[k]) + Len(asked[k]) /\ Len(asked[k]) \in Nat
      /\ \A i \in 1 .. Len(wire[k]) : Stream(k)[i] = wire[k][i]
  BY <1>4, JoinedStream DEF Stream
<1>8. Shortened(Stream(k), Stream(k)', n[k])
  <2>1. \A i \in 1 .. n[k] : i \in 1 .. Len(wire[k])
    BY <1>2, <1>4
  <2>2. \A i \in 1 .. n[k] : Stream(k)'[i] = Stream(k)[i]
    BY <1>5, <1>6, <1>7, <2>1
  <2>3. n[k] \in 0 .. Len(Stream(k))
    BY <1>2, <1>4, <1>7, WithinSum
  <2>. QED  BY <1>5, <1>6, <2>2, <2>3 DEF Shortened
<1>. QED  BY <1>8, StreamKept

-------------------------------------------------------------------------------
(* Handlers in sequence: who runs, and who does not.                       *)

\* The thread that takes a step has its turn: no other does anything.
LEMMA RequesterTurn ==
  ASSUME Sequential, TypeOK, NEW r \in Requesters, Requester(r)
  PROVE  /\ loop = Idle /\ loop' = Idle /\ link # "bound" /\ link' = link
         /\ UNCHANGED <<wire, published, flows>>
         /\ \A s \in Requesters : s # r => /\ step[s] = "idle" /\ step'[s] = "idle"
                                           /\ mine'[s] = mine[s]
         /\ Asking <=> step[r] \in {"flows", "ports", "register"}
         /\ Asking' <=> step'[r] \in {"flows", "ports", "register"}
<1>. USE DEF reqVars, linkVars
<1>1. Turn(r) /\ link' = link /\ loop' = loop /\ UNCHANGED <<wire, published, flows>>
  BY DEF Requester, SkipRound, StartRound, RequestFlows, RequestPorts, RegisterXids,
     RequestTables, UpdateXids
<1>2. loop = Idle /\ link # "bound" /\ \A s \in Requesters : s # r => step[s] = "idle"
  BY <1>1 DEF Turn, Sequential
<1>3. ASSUME NEW s \in Requesters, s # r PROVE step'[s] = step[s] /\ mine'[s] = mine[s]
  BY <1>3 DEF Requester, SkipRound, StartRound, RequestFlows, RequestPorts, RegisterXids,
     RequestTables, UpdateXids, Ask, TypeOK
<1>. QED  BY <1>1, <1>2, <1>3 DEF Asking

\* When the loop or the connection takes a step, no thread is at work.
LEMMA AllIdle ==
  ASSUME Sequential, TypeOK, OneAtATime,
         Loop \/ Reset \/ ConnectionLost \/ Reconnect \/ HandshakeResets
  PROVE  /\ \A r \in Requesters : step[r] = "idle"
         /\ UNCHANGED <<step, mine, nextXid>>
         /\ ~Asking /\ ~Asking'
<1>. USE DEF reqVars, linkVars
<1>1. \A r \in Requesters : step[r] = "idle"
  BY DEF Sequential, OneAtATime, Loop, HandleReply, Extend, ExtendRaises, Collect, TakeFlows,
     Delete, Publish, FinishRaises, LoopTurn, Reset, ConnectionLost, Reconnect, HandshakeResets, Between
<1>2. UNCHANGED <<step, mine, nextXid>>
  BY DEF Loop, HandleReply, Extend, ExtendRaises, Collect, TakeFlows, Delete, Publish,
     FinishRaises, Reset, ConnectionLost, Reconnect, HandshakeResets
<1>. QED  BY <1>1, <1>2 DEF Asking

LEMMA OneAtATimeKept ==
  ASSUME Sequential, TypeOK, OneAtATime, Next
  PROVE  OneAtATime'
<1>. USE DEF reqVars, linkVars
<1>1. ASSUME NEW r \in Requesters, Requester(r) PROVE OneAtATime'
  BY <1>1, RequesterTurn DEF OneAtATime
<1>2. ASSUME NEW k \in Kinds, SwitchSendsPart(k) \/ SwitchGivesUp(k) PROVE OneAtATime'
  BY <1>2 DEF OneAtATime, SwitchSendsPart, SwitchGivesUp
<1>3. CASE Loop
  <2>1. link # "bound" /\ link' = link
    BY <1>3 DEF Sequential, Loop, HandleReply, Extend, ExtendRaises, Collect, TakeFlows,
       Delete, Publish, FinishRaises, LoopTurn
  <2>. QED  BY <1>3, <2>1, AllIdle DEF OneAtATime
<1>4. CASE Reset \/ ConnectionLost \/ Reconnect \/ HandshakeResets
  <2>1. loop = Idle /\ loop' = loop
    BY <1>4 DEF Sequential, OneAtATime, Reset, ConnectionLost, Reconnect, HandshakeResets,
       Between
  <2>. QED  BY <1>4, <2>1, AllIdle DEF OneAtATime
<1>. QED  BY <1>1, <1>2, <1>3, <1>4 DEF Next

-------------------------------------------------------------------------------
(* The invariant.                                                          *)

\* The state that the steps of the invariant start from.
Assembly == TypeOK /\ TypeOK' /\ ItemsOnce /\ AssemblyInv

LEMMA AssemblingKept ==
  ASSUME NEW k \in Kinds, Assembling(k),
         xids'[k] = xids[k], acc'[k] = acc[k], Handled(k)' = Handled(k), Asking => Asking',
         Follows(Stream(k), xids[k], Handled(k)) => Follows(Stream(k)', xids[k], Handled(k))
  PROVE  Assembling(k)'
BY DEF Assembling

\* Nothing is assembled of what is not pending.
LEMMA AssemblingNothing ==
  ASSUME NEW k \in Kinds, xids'[k] = 0, acc'[k] = <<>>
  PROVE  Assembling(k)'
BY DEF Assembling

LEMMA HandledIdle ==
  ASSUME NEW k \in Kinds
  PROVE  /\ loop = Idle => Handled(k) = Len(acc[k])
         /\ loop' = Idle => Handled(k)' = Len(acc'[k])
BY DEF Handled, Idle

LEMMA EmptyParts ==
  ASSUME NEW x
  PROVE  <<>> = FirstParts(x, 0) /\ Len(<<>>) = 0
BY DEF FirstParts

\* Threads that have nothing of their own.
LEMMA NothingMine ==
  ASSUME NEW r \in Requesters, mine[r] = NoneMine, NEW k \in Kinds
  PROVE  mine[r][k] = 0
BY DEF NoneMine

\* Requests that were made stay so.
LEMMA Earlier ==
  ASSUME NEW m \in Nat, NEW n \in Nat, n >= m
  PROVE  \A x \in 1 .. m - 1 : x \in 1 .. n - 1
OBVIOUS

\* What was whole and older than the next request stays so.
LEMMA OutWholeKept ==
  ASSUME TypeOK, TypeOK', OutWhole, published' = published, flows' = flows,
         nextXid' >= nextXid, \A k \in Kinds : xids'[k] < nextXid'
  PROVE  OutWhole'
<1>1. nextXid \in Nat /\ nextXid' \in Nat
  BY DEF TypeOK
<1>2. \A x \in 1 .. nextXid - 1 : x \in 1 .. nextXid' - 1
  BY <1>1, Earlier
<1>. QED  BY <1>2 DEF OutWhole

LEMMA SkipAssembly ==
  ASSUME Sequential, Assembly, NEW r \in Requesters, SkipRound(r)
  PROVE  AssemblyInv'
<1>. USE DEF reqVars, linkVars
<1>1. /\ TypeOK /\ TypeOK' /\ OneAtATime /\ FreshStart /\ MineAreNew /\ OutWhole
      /\ \A k \in Kinds : StreamInOrder(k) /\ Assembling(k)
  BY DEF Assembly, AssemblyInv
<1>2. Requester(r)
  BY DEF Requester
<1>3. OneAtATime'
  BY <1>1, <1>2, OneAtATimeKept DEF Next
<1>4. /\ UNCHANGED <<acc, flows, published, step, mine, nextXid, rounds, loop, asked, wire>>
      /\ xids' = [xids EXCEPT !.skipped = @ + 1] /\ step[r] = "idle"
  BY DEF SkipRound
<1>5. loop = Idle /\ loop' = Idle /\ ~Asking /\ ~Asking'
      /\ \A s \in Requesters : step[s] = "idle"
  BY <1>1, <1>2, <1>4, RequesterTurn
<1>6. xids'.present = xids.present /\ \A k \in Kinds : xids'[k] = xids[k]
  BY <1>1, <1>4 DEF TypeOK, Kinds
<1>7. AtHand'
  BY <1>5 DEF AtHand
<1>8. FreshStart'
  BY <1>1, <1>4, <1>5, <1>6 DEF FreshStart, Pending
<1>9. MineAreNew'
  BY <1>1, <1>4, <1>5, NothingMine DEF MineAreNew
<1>10. OutWhole'
  <2>1. \A k \in Kinds : xids'[k] < nextXid' /\ nextXid' >= nextXid
    <3>1. nextXid \in Nat /\ \A k \in Kinds : xids[k] < nextXid
      BY <1>1 DEF OutWhole, TypeOK
    <3>. QED  BY <1>4, <1>6, <3>1
  <2>. QED  BY <1>1, <1>4, <2>1, OutWholeKept DEF Kinds
<1>11. ASSUME NEW k \in Kinds PROVE StreamInOrder(k)' /\ Assembling(k)'
  <2>1. Stream(k)' = Stream(k) /\ Handled(k)' = Handled(k)
    BY <1>4 DEF Stream, Handled
  <2>. QED  BY <1>1, <1>4, <1>5, <1>6, <2>1, AssemblingKept DEF StreamInOrder
<1>. QED  BY <1>3, <1>7, <1>8, <1>9, <1>10, <1>11 DEF AssemblyInv

LEMMA StartAssembly ==
  ASSUME Sequential, Assembly, NEW r \in Requesters, StartRound(r)
  PROVE  AssemblyInv'
<1>. USE DEF reqVars, linkVars
<1>1. /\ TypeOK /\ TypeOK' /\ OneAtATime /\ FreshStart /\ MineAreNew /\ OutWhole
      /\ \A k \in Kinds : StreamInOrder(k) /\ Assembling(k)
  BY DEF Assembly, AssemblyInv
<1>2. Requester(r)
  BY DEF Requester
<1>3. OneAtATime'
  BY <1>1, <1>2, OneAtATimeKept DEF Next
<1>4. /\ UNCHANGED <<xids, flows, published, mine, nextXid, loop, asked, wire>>
      /\ acc' = NoLists /\ step[r] = "idle" /\ step'[r] = "flows"
      /\ Pending => xids.skipped >= StatsReqSkip
  BY <1>1 DEF StartRound, TypeOK
<1>5. /\ loop = Idle /\ loop' = Idle /\ ~Asking /\ Asking'
      /\ \A s \in Requesters : step[s] = "idle" /\ step'[s] \in {"idle", "flows"}
  BY <1>1, <1>2, <1>4, RequesterTurn
<1>7. AtHand'
  BY <1>5 DEF AtHand
<1>8. FreshStart'
  BY <1>1, <1>4, <1>5 DEF FreshStart, Pending
<1>9. MineAreNew'
  BY <1>1, <1>4, <1>5, NothingMine DEF MineAreNew
<1>10. OutWhole'
  <2>1. \A k \in Kinds : xids'[k] < nextXid' /\ nextXid' >= nextXid
    BY <1>1, <1>4 DEF OutWhole, TypeOK
  <2>. QED  BY <1>1, <1>4, <2>1, OutWholeKept DEF Kinds
<1>11. ASSUME NEW k \in Kinds PROVE StreamInOrder(k)' /\ Assembling(k)'
  <2>1. Stream(k)' = Stream(k) /\ acc'[k] = <<>>
    BY <1>4 DEF Stream, NoLists
  <2>. QED  BY <1>1, <1>5, <2>1 DEF StreamInOrder, Assembling
<1>. QED  BY <1>3, <1>7, <1>8, <1>9, <1>10, <1>11 DEF AssemblyInv

\* A thread has made its requests, or the loop or the connection is at work:
\* no thread has any that are not recorded.
LEMMA NoneAreMine ==
  ASSUME \A r \in Requesters : mine'[r] = NoneMine
  PROVE  MineAreNew'
<1>1. \A r \in Requesters : \A k \in Kinds : mine'[r][k] = 0
  BY DEF NoneMine
<1>. QED  BY <1>1 DEF MineAreNew

\* The xids of published lists do not change with the xid of the next request.
LEMMA PublishedXids ==
  ASSUME TypeOK, TypeOK', OutWhole, nextXid' >= nextXid, NEW k \in Kinds
  PROVE  \A i \in DOMAIN published[k] :
            /\ XidOf(published[k][i]) \in 1 .. nextXid - 1
            /\ published[k][i] = FirstParts(XidOf(published[k][i]), Parts)
            /\ published'[k][i] = published[k][i]
                  => XidOf(published[k][i])' = XidOf(published[k][i])
<1>1. SUFFICES ASSUME NEW i \in DOMAIN published[k]
      PROVE  /\ XidOf(published[k][i]) \in 1 .. nextXid - 1
             /\ published[k][i] = FirstParts(XidOf(published[k][i]), Parts)
             /\ published'[k][i] = published[k][i]
                   => XidOf(published[k][i])' = XidOf(published[k][i])
  OBVIOUS
<1>2. PICK x \in 1 .. nextXid - 1 : published[k][i] = FirstParts(x, Parts)
  BY DEF OutWhole
<1>3. nextXid \in Nat /\ nextXid' \in Nat /\ 1 \in 1 .. Parts
  BY StatsAssumption DEF TypeOK
<1>4. x \in 1 .. nextXid /\ x \in 1 .. nextXid'
  BY <1>3
<1>5. Head(published[k][i]).xid = x
  <2>1. FirstParts(x, Parts)[1] = [xid |-> x, part |-> 1]
    BY <1>3 DEF FirstParts
  <2>. QED  BY <1>2, <2>1
<1>6. XidOf(published[k][i]) = x
  BY <1>2, <1>4, <1>5 DEF XidOf, Whole, FirstParts
<1>7. ASSUME published'[k][i] = published[k][i] PROVE XidOf(published[k][i])' = x
  BY <1>2, <1>4, <1>5, <1>7 DEF XidOf, Whole, FirstParts
<1>. QED  BY <1>2, <1>6, <1>7

LEMMA AskAssembly ==
  ASSUME Sequential, Assembly, NEW r \in Requesters, NEW kind \in Kinds,
         Requester(r), Ask(r, kind), UNCHANGED <<xids, acc>>,
         Asking' <=> Asking, step'[r] \notin {"idle", "flows"},
         step'[r] \in {"tables", "update"} => step[r] \in {"tables", "update"}
  PROVE  AssemblyInv'
<1>1. /\ TypeOK /\ TypeOK' /\ ItemsOnce
      /\ OneAtATime /\ FreshStart /\ MineAreNew /\ OutWhole
      /\ \A k \in Kinds : StreamInOrder(k) /\ Assembling(k)
  BY DEF Assembly, AssemblyInv
<1>2. OneAtATime'
  BY <1>1, OneAtATimeKept DEF Next
<1>3. /\ loop = Idle /\ loop' = Idle /\ UNCHANGED <<wire, published, flows>>
      /\ \A s \in Requesters : s # r => step'[s] = "idle" /\ mine'[s] = mine[s]
                                        /\ step[s] = "idle"
  BY <1>1, RequesterTurn
<1>4. /\ nextXid \in Nat /\ nextXid' = nextXid + 1 /\ mine \in [Requesters -> [Kinds -> Nat]]
      /\ mine'[r] = [mine[r] EXCEPT ![kind] = nextXid]
      /\ \A k \in Kinds : xids[k] \in Nat /\ xids[k] < nextXid
  <2>1. \A k \in Kinds : xids[k] \in Nat
    BY <1>1, XidsOfKinds
  <2>. QED  BY <1>1, <2>1 DEF Ask, TypeOK, OutWhole
<1>5. 1 <= nextXid
  BY <1>4 DEF Kinds
<1>6. ASSUME NEW k \in Kinds
      PROVE  /\ StreamInOrder(k)'
             /\ \A x, n : Follows(Stream(k), x, n) /\ x # nextXid => Follows(Stream(k)', x, n)
             /\ Follows(Stream(k)', nextXid, 0)
  BY <1>1, <1>3, <1>5, AskStream
<1>7. AtHand'
  BY <1>3 DEF AtHand
<1>8. FreshStart'
  <2>1. (\E s \in Requesters : step'[s] \in {"tables", "update"})
           => \E s \in Requesters : step[s] \in {"tables", "update"}
    BY <1>3
  <2>. QED  BY <1>1, <2>1 DEF FreshStart, Pending
<1>9. MineAreNew'
  <2>1. ASSUME NEW s \in Requesters, NEW k \in Kinds, mine'[s][k] # 0
        PROVE  /\ mine'[s][k] < nextXid' /\ mine'[s][k] > xids'[k]
               /\ \A i \in DOMAIN published'[k] : XidOf(published[k][i])' < mine'[s][k]
               /\ Follows(Stream(k)', mine'[s][k], 0)
    <3>1. ASSUME NEW i \in DOMAIN published[k]
          PROVE  /\ XidOf(published[k][i])' = XidOf(published[k][i])
                 /\ XidOf(published[k][i]) \in 1 .. nextXid - 1
      BY <1>1, <1>3, <1>4, PublishedXids
    <3>2. CASE s = r /\ k = kind
      <4>1. mine'[s][k] = nextXid
        BY <1>4, <3>2
      <4>. QED  BY <1>3, <1>4, <1>6, <3>1, <4>1
    <3>3. CASE ~(s = r /\ k = kind)
      <4>1. mine'[s][k] = mine[s][k] /\ mine[s][k] \in Nat
        BY <1>3, <1>4, <3>3
      <4>2. /\ mine[s][k] < nextXid /\ mine[s][k] > xids[k]
            /\ \A i \in DOMAIN published[k] : XidOf(published[k][i]) < mine[s][k]
            /\ Follows(Stream(k), mine[s][k], 0)
        BY <1>1, <2>1, <4>1 DEF MineAreNew
      <4>3. mine[s][k] < nextXid' /\ mine[s][k] # nextXid
        BY <1>4, <4>1, <4>2
      <4>4. Follows(Stream(k)', mine[s][k], 0)
        BY <1>6, <4>2, <4>3
      <4>. QED  BY <1>3, <3>1, <4>1, <4>2, <4>3, <4>4
    <3>. QED  BY <3>2, <3>3
  <2>2. ASSUME NEW s \in Requesters, step'[s] \in {"idle", "flows"} PROVE mine'[s] = NoneMine
    BY <1>1, <1>3, <2>2 DEF MineAreNew
  <2>. QED  BY <2>1, <2>2 DEF MineAreNew
<1>10. OutWhole'
  <2>1. \A k \in Kinds : xids'[k] < nextXid'
    BY <1>4
  <2>2. nextXid' >= nextXid
    BY <1>4
  <2>. QED  BY <1>1, <1>3, <2>1, <2>2, OutWholeKept
<1>11. ASSUME NEW k \in Kinds PROVE Assembling(k)'
  <2>1. Handled(k)' = Handled(k)
    BY <1>3, HandledIdle
  <2>2. xids[k] # nextXid
    BY <1>4
  <2>. QED  BY <1>1, <1>6, <2>1, <2>2, AssemblingKept
<1>. QED  BY <1>2, <1>6, <1>7, <1>8, <1>9, <1>10, <1>11 DEF AssemblyInv

LEMMA RegisterAssembly ==
  ASSUME Sequential, Assembly, NEW r \in Requesters, RegisterXids(r)
  PROVE  AssemblyInv'
<1>. USE DEF reqVars, linkVars
<1>1. /\ TypeOK /\ TypeOK' /\ OneAtATime /\ FreshStart /\ MineAreNew /\ OutWhole
      /\ \A k \in Kinds : StreamInOrder(k)
  BY DEF Assembly, AssemblyInv
<1>2. Requester(r)
  BY DEF Requester
<1>3. OneAtATime'
  BY <1>1, <1>2, OneAtATimeKept DEF Next
<1>4. /\ UNCHANGED <<acc, flows, published, nextXid, loop, asked, wire>>
      /\ step[r] = "register" /\ step'[r] \in {"tables", "idle"} /\ mine'[r] = NoneMine
      /\ xids' = [present |-> TRUE, skipped |-> 0, flows |-> mine[r].flows,
                  ports |-> mine[r].ports, tables |-> 0]
  BY <1>1 DEF RegisterXids, TypeOK
<1>5. /\ loop = Idle /\ loop' = Idle /\ Asking /\ ~Asking'
      /\ \A s \in Requesters : s # r => step[s] = "idle" /\ step'[s] = "idle"
                                        /\ mine'[s] = mine[s]
  BY <1>1, <1>2, <1>4, RequesterTurn
<1>6. /\ xids'.present /\ xids'.tables = 0 /\ xids'["tables"] = 0
      /\ \A k \in Kinds : xids'[k] = 0 \/ xids'[k] = mine[r][k]
  BY <1>4 DEF Kinds
<1>7. AtHand'
  BY <1>5 DEF AtHand
<1>8. FreshStart'
  BY <1>5, <1>6 DEF FreshStart
<1>9. MineAreNew'
  BY <1>1, <1>4, <1>5, NoneAreMine DEF MineAreNew
<1>10. OutWhole'
  <2>1. ASSUME NEW k \in Kinds PROVE xids'[k] < nextXid
    <3>1. xids[k] \in Nat /\ xids[k] < nextXid /\ nextXid \in Nat
      BY <1>1, XidsOfKinds DEF OutWhole, TypeOK
    <3>2. mine[r][k] # 0 => mine[r][k] < nextXid
      BY <1>1 DEF MineAreNew
    <3>. QED  BY <1>6, <3>1, <3>2
  <2>2. nextXid' >= nextXid
    BY <1>1, <1>4 DEF TypeOK
  <2>. QED  BY <1>1, <1>4, <2>1, <2>2, OutWholeKept
<1>11. ASSUME NEW k \in Kinds PROVE StreamInOrder(k)' /\ Assembling(k)'
  <2>1. Stream(k)' = Stream(k) /\ acc'[k] = <<>> /\ Handled(k)' = 0
    <3>1. acc'[k] = <<>>
      BY <1>1, <1>4, <1>5 DEF FreshStart, NoLists
    <3>. QED  BY <1>4, <1>5, <3>1, HandledIdle, EmptyParts DEF Stream
  <2>2. xids'[k] # 0 => Follows(Stream(k), xids'[k], 0)
    BY <1>1, <1>6 DEF MineAreNew
  <2>. QED  BY <1>1, <2>1, <2>2, EmptyParts DEF StreamInOrder, Assembling
<1>. QED  BY <1>3, <1>7, <1>8, <1>9, <1>10, <1>11 DEF AssemblyInv

LEMMA UpdateAssembly ==
  ASSUME Sequential, Assembly, NEW r \in Requesters, UpdateXids(r)
  PROVE  AssemblyInv'
<1>. USE DEF reqVars, linkVars
<1>1. /\ TypeOK /\ TypeOK' /\ OneAtATime /\ FreshStart /\ MineAreNew /\ OutWhole
      /\ \A k \in Kinds : StreamInOrder(k) /\ Assembling(k)
  BY DEF Assembly, AssemblyInv
<1>2. Requester(r)
  BY DEF Requester
<1>3. OneAtATime'
  BY <1>1, <1>2, OneAtATimeKept DEF Next
<1>4. /\ UNCHANGED <<acc, flows, published, nextXid, loop, asked, wire>>
      /\ step[r] = "update" /\ step'[r] = "idle" /\ mine'[r] = NoneMine
      /\ xids' = IF xids.present THEN [xids EXCEPT !.tables = mine[r].tables] ELSE xids
  BY <1>1 DEF UpdateXids, TypeOK
<1>5. /\ loop = Idle /\ loop' = Idle /\ ~Asking /\ ~Asking'
      /\ \A s \in Requesters : s # r => step[s] = "idle" /\ step'[s] = "idle"
                                        /\ mine'[s] = mine[s]
  BY <1>1, <1>2, <1>4, RequesterTurn
<1>6. /\ xids'.present = xids.present /\ xids["tables"] = 0
      /\ \A k \in Kinds : xids'[k] # xids[k] => /\ k = "tables" /\ xids.present
                                                /\ xids'[k] = mine[r][k]
  BY <1>1, <1>4 DEF FreshStart, Kinds, TypeOK
<1>7. AtHand'
  BY <1>5 DEF AtHand
<1>8. FreshStart'
  <2>1. Pending' => xids.present
    BY <1>1, <1>6 DEF FreshStart, Pending
  <2>. QED  BY <1>4, <1>5, <1>6, <2>1 DEF FreshStart
<1>9. MineAreNew'
  BY <1>1, <1>4, <1>5, NoneAreMine DEF MineAreNew
<1>10. OutWhole'
  <2>1. ASSUME NEW k \in Kinds PROVE xids'[k] < nextXid
    <3>1. xids[k] \in Nat /\ xids[k] < nextXid /\ nextXid \in Nat
      BY <1>1, XidsOfKinds DEF OutWhole, TypeOK
    <3>2. mine[r][k] # 0 => mine[r][k] < nextXid
      BY <1>1 DEF MineAreNew
    <3>. QED  BY <1>6, <3>1, <3>2
  <2>2. nextXid' >= nextXid
    BY <1>1, <1>4 DEF TypeOK
  <2>. QED  BY <1>1, <1>4, <2>1, <2>2, OutWholeKept
<1>11. ASSUME NEW k \in Kinds PROVE StreamInOrder(k)' /\ Assembling(k)'
  <2>1. Stream(k)' = Stream(k) /\ Handled(k)' = Handled(k)
    BY <1>4 DEF Stream, Handled
  <2>2. CASE xids'[k] = xids[k]
    BY <1>1, <1>4, <1>5, <2>1, <2>2, AssemblingKept DEF StreamInOrder
  <2>3. CASE xids'[k] # xids[k]
    <3>1. acc'[k] = <<>> /\ Handled(k)' = 0
      BY <1>1, <1>4, <1>5, <1>6, <2>3, HandledIdle, EmptyParts DEF Assembling
    <3>2. xids'[k] # 0 => Follows(Stream(k), xids'[k], 0)
      BY <1>1, <1>6, <2>3 DEF MineAreNew
    <3>. QED  BY <1>1, <2>1, <3>1, <3>2, EmptyParts DEF StreamInOrder, Assembling
  <2>. QED  BY <2>2, <2>3
<1>. QED  BY <1>3, <1>7, <1>8, <1>9, <1>10, <1>11 DEF AssemblyInv

LEMMA RequesterAssembly ==
  ASSUME Sequential, Assembly, NEW r \in Requesters, Requester(r)
  PROVE  AssemblyInv'
<1>1. /\ Asking <=> step[r] \in {"flows", "ports", "register"}
      /\ Asking' <=> step'[r] \in {"flows", "ports", "register"}
      /\ step \in [Requesters -> {"idle", "flows", "ports", "register", "tables", "update"}]
  BY RequesterTurn DEF Assembly, TypeOK
<1>2. CASE RequestFlows(r)
  <2>1. /\ Ask(r, "flows") /\ UNCHANGED <<xids, acc>>
        /\ step[r] = "flows" /\ step'[r] = "ports" /\ "flows" \in Kinds
    BY <1>1, <1>2 DEF RequestFlows, Kinds
  <2>. QED  BY <1>1, <2>1, AskAssembly
<1>3. CASE RequestPorts(r)
  <2>1. /\ Ask(r, "ports") /\ UNCHANGED <<xids, acc>>
        /\ step[r] = "ports" /\ step'[r] = "register" /\ "ports" \in Kinds
    BY <1>1, <1>3 DEF RequestPorts, Kinds
  <2>. QED  BY <1>1, <2>1, AskAssembly
<1>4. CASE RequestTables(r)
  <2>1. /\ Ask(r, "tables") /\ UNCHANGED <<xids, acc>>
        /\ step[r] = "tables" /\ step'[r] = "update" /\ "tables" \in Kinds
    BY <1>1, <1>4 DEF RequestTables, Kinds
  <2>. QED  BY <1>1, <2>1, AskAssembly
<1>. QED  BY <1>2, <1>3, <1>4, SkipAssembly, StartAssembly, RegisterAssembly, UpdateAssembly
          DEF Requester

LEMMA SwitchAssembly ==
  ASSUME Sequential, Assembly, NEW kind \in Kinds,
         SwitchSendsPart(kind) \/ SwitchGivesUp(kind)
  PROVE  AssemblyInv'
<1>. USE DEF reqVars, linkVars
<1>1. /\ TypeOK /\ TypeOK' /\ ItemsOnce
      /\ OneAtATime /\ AtHand /\ FreshStart /\ MineAreNew /\ OutWhole
      /\ \A k \in Kinds : StreamInOrder(k) /\ Assembling(k)
  BY DEF Assembly, AssemblyInv
<1>2. UNCHANGED <<xids, acc, flows, published, step, mine, loop, nextXid, link>>
  BY DEF SwitchSendsPart, SwitchGivesUp
<1>3. ASSUME NEW k \in Kinds
      PROVE  /\ StreamInOrder(k)'
             /\ \A x, n : Follows(Stream(k), x, n) => Follows(Stream(k)', x, n)
  BY <1>1, SwitchStream
<1>4. OneAtATime' /\ AtHand' /\ FreshStart'
  BY <1>1, <1>2 DEF OneAtATime, AtHand, FreshStart, Asking, Pending
<1>5. nextXid' >= nextXid
  BY <1>1, <1>2 DEF TypeOK
<1>6. OutWhole'
  BY <1>1, <1>2, <1>5, OutWholeKept DEF OutWhole
<1>7. MineAreNew'
  <2>1. ASSUME NEW r \in Requesters, NEW k \in Kinds, mine[r][k] # 0
        PROVE  /\ mine[r][k] < nextXid /\ mine[r][k] > xids[k]
               /\ \A i \in DOMAIN published[k] : XidOf(published[k][i])' < mine[r][k]
               /\ Follows(Stream(k)', mine[r][k], 0)
    <3>1. /\ mine[r][k] < nextXid /\ mine[r][k] > xids[k]
          /\ \A i \in DOMAIN published[k] : XidOf(published[k][i]) < mine[r][k]
          /\ Follows(Stream(k), mine[r][k], 0)
      BY <1>1, <2>1 DEF MineAreNew
    <3>2. \A i \in DOMAIN published[k] : XidOf(published[k][i])' = XidOf(published[k][i])
      BY <1>1, <1>2, <1>5, PublishedXids
    <3>. QED  BY <1>3, <3>1, <3>2
  <2>. QED  BY <1>1, <1>2, <2>1 DEF MineAreNew
<1>8. ASSUME NEW k \in Kinds PROVE Assembling(k)'
  <2>1. Handled(k)' = Handled(k) /\ Asking' = Asking
    BY <1>2 DEF Handled, Asking
  <2>. QED  BY <1>1, <1>2, <1>3, <2>1, AssemblingKept
<1>. QED  BY <1>3, <1>4, <1>6, <1>7, <1>8 DEF AssemblyInv

\* What the loop does with the lists of one kind leaves the others as they are.
LEMMA OtherKind ==
  ASSUME Assembly, ~Asking, ~Asking', NEW k \in Kinds,
         xids'[k] = xids[k], acc'[k] = acc[k], Stream(k)' = Stream(k),
         loop = Idle \/ loop.reply.kind # k, loop' = Idle \/ loop'.reply.kind # k
  PROVE  StreamInOrder(k)' /\ Assembling(k)'
<1>1. StreamInOrder(k) /\ Assembling(k)
  BY DEF Assembly, AssemblyInv
<1>2. Handled(k) = Len(acc[k]) /\ Handled(k)' = Len(acc'[k])
  BY DEF Handled, Idle
<1>. QED  BY <1>1, <1>2, AssemblingKept DEF StreamInOrder

\* The loop and the connection leave the threads as they are.
LEMMA ThreadsIdle ==
  ASSUME Sequential, Assembly, Next,
         Loop \/ Reset \/ ConnectionLost \/ Reconnect \/ HandshakeResets,
         Pending' => xids'.present, flows' = flows, published' = published,
         \A k \in Kinds : xids'[k] = xids[k] \/ xids'[k] = 0
  PROVE  OneAtATime' /\ FreshStart' /\ MineAreNew' /\ OutWhole'
<1>1. TypeOK /\ TypeOK' /\ OneAtATime /\ MineAreNew /\ OutWhole
  BY DEF Assembly, AssemblyInv
<1>2. /\ \A r \in Requesters : step[r] = "idle"
      /\ UNCHANGED <<step, mine, nextXid>> /\ ~Asking /\ ~Asking'
  BY <1>1, AllIdle
<1>3. OneAtATime'
  BY <1>1, OneAtATimeKept
<1>4. FreshStart'
  BY <1>2 DEF FreshStart
<1>5. MineAreNew'
  BY <1>1, <1>2, NoneAreMine DEF MineAreNew
<1>6. nextXid' >= nextXid /\ \A k \in Kinds : xids'[k] < nextXid'
  <2>1. nextXid \in Nat /\ \A k \in Kinds : xids[k] \in Nat /\ xids[k] < nextXid
    BY <1>1, XidsOfKinds DEF TypeOK, OutWhole
  <2>2. \A k \in Kinds : 0 < nextXid /\ xids[k] < nextXid
    BY <2>1
  <2>. QED  BY <1>2, <2>1, <2>2
<1>7. OutWhole'
  BY <1>1, <1>6, OutWholeKept
<1>. QED  BY <1>3, <1>4, <1>5, <1>7

LEMMA HandleAssembly ==
  ASSUME Sequential, Assembly, NEW kind \in Kinds, NEW i \in DOMAIN wire[kind],
         HandleReply(kind, i)
  PROVE  AssemblyInv'
<1>. USE DEF reqVars, linkVars
<1>0. Loop /\ Next
  BY DEF Loop, Next
<1>1. /\ TypeOK /\ TypeOK' /\ ItemsOnce /\ OneAtATime /\ FreshStart /\ OutWhole
      /\ \A k \in Kinds : StreamInOrder(k) /\ Assembling(k)
  BY DEF Assembly, AssemblyInv
<1> DEFINE q == wire[kind][1]
<1>2. /\ i = 1 /\ loop = Idle /\ UNCHANGED <<xids, acc, flows, published, asked>>
      /\ loop' = IF Ours(q) THEN [at |-> "extend", reply |-> q, list |-> <<>>] ELSE Idle
  BY DEF HandleReply, Sequential
<1>3. ~Asking /\ ~Asking'
  BY <1>0, <1>1, AllIdle
<1>4. OneAtATime' /\ FreshStart' /\ MineAreNew' /\ OutWhole'
  BY <1>0, <1>1, <1>2, ThreadsIdle DEF FreshStart, Pending
<1>5. q \in Part /\ q.kind = kind
  <2>1. q \in Part
    BY <1>1, <1>2 DEF TypeOK
  <2>. QED  BY <1>1, <1>2, <2>1 DEF ItemsOnce, PlacesOnce, WireOnce, Replies
<1>6. q.xid # 0
  <2>1. Stream(kind) # <<>> /\ Stream(kind)[1] = q /\ Stream(kind) \in Seq(Part)
    BY <1>1, <1>2, TakeStream, StreamType
  <2>2. 1 \in DOMAIN Stream(kind)
    BY <2>1
  <2>. QED  BY <1>1, <2>1, <2>2 DEF StreamInOrder
<1>7. loop' # Idle => /\ Ours(q) /\ loop' = [at |-> "extend", reply |-> q, list |-> <<>>]
                      /\ xids[kind] = q.xid
  BY <1>2, <1>5 DEF Ours
<1>8. xids[kind] = q.xid => Ours(q)
  <2>1. xids[kind] # 0 => xids.present
    BY <1>1 DEF FreshStart, Pending
  <2>. QED  BY <1>5, <1>6, <2>1 DEF Ours
<1>. HIDE DEF q
<1>9. ASSUME NEW k \in Kinds, k # kind PROVE StreamInOrder(k)' /\ Assembling(k)'
  <2>1. wire'[k] = wire[k]
    BY <1>1, <1>9 DEF HandleReply, TypeOK
  <2>2. Stream(k)' = Stream(k)
    BY <1>2, <2>1 DEF Stream
  <2>3. loop' = Idle \/ loop'.reply.kind # k
    BY <1>5, <1>7, <1>9
  <2>. QED  BY <1>2, <1>3, <2>2, <2>3, OtherKind
<1>10. /\ StreamInOrder(kind)'
       /\ \A x, n : Follows(Stream(kind), x, n) /\ q.xid # x => Follows(Stream(kind)', x, n)
       /\ \A x : \A n \in Nat : Follows(Stream(kind), x, n) /\ q.xid = x
             => q.part = n + 1 /\ Follows(Stream(kind)', x, n + 1)
  BY <1>1, <1>2, TakeStream DEF q
<1>11. /\ Handled(kind) = Len(acc[kind]) /\ Len(acc[kind]) \in Nat
       /\ xids[kind] # 0 => Follows(Stream(kind), xids[kind], Len(acc[kind]))
  <2>1. Handled(kind) = Len(acc[kind]) /\ Len(acc[kind]) \in Nat
    BY <1>1, <1>2, HandledIdle DEF TypeOK
  <2>. QED  BY <1>1, <1>3, <2>1 DEF Assembling
<1>12. CASE xids[kind] = q.xid
  <2>1. /\ q.part = Len(acc[kind]) + 1
        /\ Follows(Stream(kind)', xids[kind], Len(acc[kind]) + 1)
    BY <1>6, <1>10, <1>11, <1>12
  <2>2. loop' = [at |-> "extend", reply |-> q, list |-> <<>>]
    BY <1>2, <1>8, <1>12 DEF q
  <2>3. Handled(kind)' = Len(acc[kind]) + 1
    BY <1>2, <1>5, <2>2 DEF Handled
  <2>4. AtHand'
    BY <1>2, <1>5, <1>6, <1>12, <2>1, <2>2 DEF AtHand
  <2>5. Assembling(kind)'
    BY <1>1, <1>2, <1>3, <1>6, <1>12, <2>1, <2>3 DEF Assembling
  <2>. QED  BY <1>4, <1>9, <1>10, <2>4, <2>5 DEF AssemblyInv
<1>13. CASE xids[kind] # q.xid
  <2>1. loop' = Idle
    BY <1>7, <1>13
  <2>2. AtHand'
    BY <2>1 DEF AtHand
  <2>3. Handled(kind)' = Handled(kind)
    BY <1>2, <2>1, HandledIdle
  <2>4. Assembling(kind)'
    BY <1>1, <1>2, <1>3, <1>10, <1>13, <2>3, AssemblingKept
  <2>. QED  BY <1>4, <1>9, <1>10, <2>2, <2>4 DEF AssemblyInv
<1>. QED  BY <1>12, <1>13

\* The parts of an answer, one more of them.
LEMMA OneMorePart ==
  ASSUME NEW x, NEW n \in Nat
  PROVE  /\ Append(FirstParts(x, n), [xid |-> x, part |-> n + 1]) = FirstParts(x, n + 1)
         /\ Len(FirstParts(x, n)) = n
<1> DEFINE s == FirstParts(x, n)
           e == [xid |-> x, part |-> n + 1]
<1>1. s \in Seq({[xid |-> x, part |-> i] : i \in 1 .. n}) /\ Len(s) = n
  BY DEF FirstParts
<1>2. Append(s, e) = [i \in 1 .. n + 1 |-> IF i = n + 1 THEN e ELSE s[i]]
  BY <1>1
<1>3. ASSUME NEW i \in 1 .. n + 1
      PROVE  (IF i = n + 1 THEN e ELSE s[i]) = [xid |-> x, part |-> i]
  <2>1. CASE i = n + 1
    BY <2>1
  <2>2. CASE i # n + 1
    <3>1. i \in 1 .. n
      BY <2>2
    <3>. QED  BY <2>2, <3>1 DEF FirstParts
  <2>. QED  BY <2>1, <2>2
<1>. QED  BY <1>1, <1>2, <1>3 DEF FirstParts

LEMMA ExtendAssembly ==
  ASSUME Sequential, Assembly, Extend, NEW q \in Part, NEW kind \in Kinds,
         q = loop.reply, kind = q.kind
  PROVE  AssemblyInv'
<1>. USE DEF reqVars, linkVars
<1>0. Loop /\ Next
  BY DEF Loop, Next
<1>1. /\ TypeOK /\ TypeOK' /\ OneAtATime /\ AtHand /\ FreshStart /\ OutWhole
      /\ \A k \in Kinds : StreamInOrder(k) /\ Assembling(k)
  BY DEF Assembly, AssemblyInv
<1> DEFINE n == Len(acc[kind])
<1>2. /\ loop.at = "extend" /\ loop # Idle
      /\ UNCHANGED <<xids, flows, published, asked, wire>>
      /\ loop' = IF q.part < Parts THEN Idle ELSE [loop EXCEPT !.at = "collect"]
      /\ acc' = [acc EXCEPT ![kind] = Append(@, [xid |-> q.xid, part |-> q.part])]
  BY DEF Extend, Idle
<1>3. ~Asking /\ ~Asking'
  BY <1>0, <1>1, AllIdle
<1>4. OneAtATime' /\ FreshStart' /\ MineAreNew' /\ OutWhole'
  BY <1>0, <1>1, <1>2, ThreadsIdle DEF FreshStart, Pending
<1>5. /\ q.part \in 1 .. Parts /\ Parts \in Nat /\ n \in Nat /\ acc \in [Kinds -> Seq(Item)]
  <2>1. q.part \in 1 .. Parts
    BY DEF Part
  <2>2. Parts \in Nat
    BY StatsAssumption
  <2>3. acc \in [Kinds -> Seq(Item)]
    BY <1>1 DEF TypeOK
  <2>4. n \in Nat
    BY <2>3
  <2>. QED  BY <2>1, <2>2, <2>3, <2>4
<1>6. xids[kind] = q.xid /\ q.xid # 0 /\ q.part = n + 1
  BY <1>1, <1>2 DEF AtHand
<1>7. acc[kind] = FirstParts(q.xid, n) /\ Follows(Stream(kind), q.xid, Handled(kind))
  BY <1>1, <1>2, <1>3, <1>6 DEF Assembling
<1>8. Handled(kind) = n + 1
  BY <1>2 DEF Handled
<1>9. acc'[kind] = FirstParts(q.xid, n + 1) /\ Len(acc'[kind]) = n + 1
  <2>1. acc'[kind] = Append(acc[kind], [xid |-> q.xid, part |-> n + 1])
    BY <1>2, <1>5, <1>6
  <2>. HIDE DEF n
  <2>2. n + 1 \in Nat
    BY <1>5
  <2>3. acc[kind] = FirstParts(q.xid, n)
    BY <1>7
  <2>4. Append(FirstParts(q.xid, n), [xid |-> q.xid, part |-> n + 1]) = FirstParts(q.xid, n + 1)
    BY <1>5, OneMorePart
  <2>5. Len(FirstParts(q.xid, n + 1)) = n + 1
    BY <2>2, OneMorePart
  <2>. QED  BY <2>1, <2>3, <2>4, <2>5
<1>10. loop' = Idle \/ (loop'.at = "collect" /\ loop'.reply = q)
  BY <1>1, <1>2 DEF TypeOK
<1>11. Handled(kind)' = n + 1
  BY <1>9, <1>10 DEF Handled, Idle
<1>12. StreamInOrder(kind)' /\ Assembling(kind)'
  <2>1. Stream(kind)' = Stream(kind)
    BY <1>2 DEF Stream
  <2>. QED  BY <1>1, <1>2, <1>6, <1>7, <1>8, <1>9, <1>11, <2>1 DEF StreamInOrder, Assembling
<1>13. ASSUME NEW k \in Kinds, k # kind PROVE StreamInOrder(k)' /\ Assembling(k)'
  <2>1. Stream(k)' = Stream(k) /\ acc'[k] = acc[k]
    BY <1>2, <1>5, <1>13 DEF Stream
  <2>. QED  BY <1>2, <1>3, <1>10, <1>13, <2>1, OtherKind
<1>14. AtHand'
  <2>1. loop' # Idle => n + 1 = Parts
    BY <1>2, <1>5, <1>6
  <2>. QED  BY <1>2, <1>6, <1>9, <1>10, <2>1 DEF AtHand
<1>. QED  BY <1>4, <1>12, <1>13, <1>14 DEF AssemblyInv

\* The list that is complete is read: the reply at hand is its last part.
LEMMA CollectAssembly ==
  ASSUME Sequential, Assembly, Collect \/ TakeFlows, NEW q \in Part, NEW kind \in Kinds,
         q = loop.reply, kind = q.kind
  PROVE  AssemblyInv'
<1>. USE DEF reqVars, linkVars
<1>0. Loop /\ Next
  BY DEF Loop, Next
<1>1. /\ TypeOK /\ TypeOK' /\ OneAtATime /\ AtHand /\ FreshStart /\ MineAreNew /\ OutWhole
      /\ \A k \in Kinds : StreamInOrder(k) /\ Assembling(k)
  BY DEF Assembly, AssemblyInv
<1>2. /\ loop.at \in {"collect", "take"} /\ loop # Idle
      /\ UNCHANGED <<xids, acc, published, asked, wire, step, mine, nextXid>>
      /\ flows' = flows \/ (flows' = acc["flows"] /\ loop.at = "take")
  BY DEF Collect, TakeFlows, Idle
<1>3. ~Asking /\ ~Asking' /\ \A r \in Requesters : step[r] = "idle"
  BY <1>0, <1>1, AllIdle
<1>4. xids[kind] = q.xid /\ q.xid # 0 /\ Len(acc[kind]) = Parts
  BY <1>1, <1>2 DEF AtHand
<1>5. /\ loop'.at \in {"take", "delete"} /\ loop'.reply = q /\ loop'.list = acc[kind]
      /\ loop' # Idle /\ (loop'.at = "take" => kind = "flows")
  <2>1. loop.at = "take" => loop.list = acc[kind]
    BY <1>1, <1>2 DEF AtHand
  <2>. QED  BY <1>1, <2>1 DEF Collect, TakeFlows, TypeOK, Idle
<1>6. Handled(kind) = Parts /\ Handled(kind)' = Parts
  BY <1>2, <1>4, <1>5 DEF Handled
<1>7. acc[kind] = FirstParts(q.xid, Parts)
  BY <1>1, <1>3, <1>4 DEF Assembling
<1>8. ASSUME NEW k \in Kinds PROVE StreamInOrder(k)' /\ Assembling(k)'
  <2>1. Stream(k)' = Stream(k) /\ acc'[k] = acc[k]
    BY <1>2 DEF Stream
  <2>2. CASE k = kind
    BY <1>1, <1>2, <1>3, <1>6, <2>1, <2>2 DEF StreamInOrder, Assembling
  <2>3. CASE k # kind
    BY <1>2, <1>3, <1>5, <2>1, <2>3, OtherKind
  <2>. QED  BY <2>2, <2>3
<1>9. AtHand'
  BY <1>2, <1>4, <1>5 DEF AtHand
<1>10. OneAtATime'
  BY <1>0, <1>1, OneAtATimeKept
<1>11. FreshStart'
  BY <1>1, <1>2, <1>3 DEF FreshStart, Pending
<1>12. MineAreNew'
  BY <1>1, <1>2, <1>3, NoneAreMine DEF MineAreNew
<1>13. OutWhole'
  <2>1. q.xid \in 1 .. nextXid - 1
    <3>1. xids[kind] \in Nat /\ nextXid \in Nat /\ xids[kind] < nextXid
      BY <1>1, <1>2, XidsOfKinds DEF TypeOK, OutWhole
    <3>. QED  BY <1>4, <3>1
  <2>2. flows' = flows \/ flows' = FirstParts(q.xid, Parts)
    BY <1>1, <1>2, <1>7 DEF AtHand
  <2>. QED  BY <1>1, <1>2, <2>1, <2>2 DEF OutWhole
<1>. QED  BY <1>8, <1>9, <1>10, <1>11, <1>12, <1>13 DEF AssemblyInv

\* The list is deleted, and in hand.
LEMMA DeleteAssembly ==
  ASSUME Sequential, Assembly, Delete, NEW q \in Part, NEW kind \in Kinds,
         q = loop.reply, kind = q.kind
  PROVE  AssemblyInv'
<1>. USE DEF reqVars, linkVars
<1>0. Loop /\ Next
  BY DEF Loop, Next
<1>1. /\ TypeOK /\ TypeOK' /\ OneAtATime /\ AtHand /\ FreshStart /\ MineAreNew /\ OutWhole
      /\ \A k \in Kinds : StreamInOrder(k) /\ Assembling(k)
  BY DEF Assembly, AssemblyInv
<1>2. /\ loop.at = "delete" /\ loop # Idle
      /\ UNCHANGED <<xids, flows, published, asked, wire, step, mine, nextXid>>
      /\ loop' = [loop EXCEPT !.at = "finish"]
      /\ acc' = [acc EXCEPT ![kind] = <<>>]
  BY DEF Delete, Idle
<1>3. ~Asking /\ ~Asking' /\ \A r \in Requesters : step[r] = "idle"
  BY <1>0, <1>1, AllIdle
<1>4. /\ xids[kind] = q.xid /\ q.xid # 0 /\ Len(acc[kind]) = Parts
      /\ loop.list = acc[kind]
  BY <1>1, <1>2 DEF AtHand
<1>5. acc[kind] = FirstParts(q.xid, Parts) /\ Follows(Stream(kind), q.xid, Parts)
  <2>1. Handled(kind) = Parts
    BY <1>2, <1>4 DEF Handled
  <2>. QED  BY <1>1, <1>2, <1>3, <1>4, <2>1 DEF Assembling
<1>6. /\ loop'.at = "finish" /\ loop'.reply = q /\ loop'.list = FirstParts(q.xid, Parts)
      /\ acc'[kind] = <<>>
  BY <1>1, <1>2, <1>4, <1>5 DEF TypeOK
<1>7. Handled(kind)' = Parts
  BY <1>4, <1>5, <1>6 DEF Handled
<1>8. StreamInOrder(kind)' /\ Assembling(kind)'
  <2>1. Stream(kind)' = Stream(kind)
    BY <1>2 DEF Stream
  <2>. QED  BY <1>1, <1>2, <1>4, <1>5, <1>6, <1>7, <2>1, EmptyParts DEF StreamInOrder, Assembling
<1>9. ASSUME NEW k \in Kinds, k # kind PROVE StreamInOrder(k)' /\ Assembling(k)'
  <2>1. Stream(k)' = Stream(k) /\ acc'[k] = acc[k]
    BY <1>1, <1>2, <1>9 DEF Stream, TypeOK
  <2>. QED  BY <1>2, <1>3, <1>6, <1>9, <2>1, OtherKind
<1>10. AtHand'
  BY <1>2, <1>4, <1>6 DEF AtHand
<1>11. OneAtATime'
  BY <1>0, <1>1, OneAtATimeKept
<1>12. FreshStart'
  BY <1>1, <1>2, <1>3 DEF FreshStart, Pending
<1>13. MineAreNew'
  BY <1>1, <1>2, <1>3, NoneAreMine DEF MineAreNew
<1>14. OutWhole'
  BY <1>1, <1>2 DEF OutWhole
<1>. QED  BY <1>8, <1>9, <1>10, <1>11, <1>12, <1>13, <1>14 DEF AssemblyInv

LEMMA PublishAssembly ==
  ASSUME Sequential, Assembly, Publish, NEW q \in Part, NEW kind \in Kinds,
         q = loop.reply, kind = q.kind
  PROVE  AssemblyInv'
<1>. USE DEF reqVars, linkVars
<1>0. Loop /\ Next
  BY DEF Loop, Next
<1>1. /\ TypeOK /\ TypeOK' /\ OneAtATime /\ AtHand /\ FreshStart /\ MineAreNew /\ OutWhole
      /\ \A k \in Kinds : StreamInOrder(k) /\ Assembling(k)
  BY DEF Assembly, AssemblyInv
<1>2. /\ loop.at = "finish" /\ loop # Idle
      /\ UNCHANGED <<acc, flows, asked, wire, step, mine, nextXid>>
      /\ loop' = Idle /\ xids' = [xids EXCEPT ![kind] = 0]
      /\ published' = [published EXCEPT ![kind] = Append(@, loop.list)]
  BY DEF Publish, Idle
<1>3. ~Asking /\ ~Asking' /\ \A r \in Requesters : step[r] = "idle"
  BY <1>0, <1>1, AllIdle
<1>4. /\ xids[kind] = q.xid /\ q.xid # 0 /\ acc[kind] = <<>>
      /\ loop.list = FirstParts(q.xid, Parts)
  BY <1>1, <1>2 DEF AtHand
<1>5. /\ xids'[kind] = 0 /\ xids'.present = xids.present
      /\ \A k \in Kinds : k # kind => xids'[k] = xids[k]
  BY <1>1, <1>2 DEF TypeOK, Kinds
<1>6. OneAtATime'
  BY <1>0, <1>1, OneAtATimeKept
<1>7. AtHand'
  BY <1>2 DEF AtHand
<1>8. FreshStart'
  <2>1. Pending' => Pending
    BY <1>5 DEF Pending
  <2>. QED  BY <1>1, <1>2, <1>3, <1>5, <2>1 DEF FreshStart
<1>9. MineAreNew'
  BY <1>1, <1>2, <1>3, NoneAreMine DEF MineAreNew
<1>10. nextXid \in Nat /\ q.xid \in 1 .. nextXid - 1
       /\ \A k \in Kinds : xids'[k] < nextXid'
  <2>1. \A k \in Kinds : xids[k] \in Nat /\ nextXid \in Nat /\ xids[k] < nextXid
    BY <1>1, XidsOfKinds DEF TypeOK, OutWhole
  <2>2. 0 < nextXid
    BY <2>1, <1>2
  <2>. QED  BY <1>2, <1>4, <1>5, <2>1, <2>2
<1>11. OutWhole'
  <2>1. ASSUME NEW k \in Kinds, NEW i \in DOMAIN published'[k]
        PROVE  \E x \in 1 .. nextXid - 1 : published'[k][i] = FirstParts(x, Parts)
    <3>1. \/ i \in DOMAIN published[k] /\ published'[k][i] = published[k][i]
          \/ published'[k][i] = loop.list
      <4>1. published[k] \in Seq(Seq(Item)) /\ loop.list \in Seq(Item)
        BY <1>1 DEF TypeOK
      <4>2. CASE k = kind
        <5>1. published'[k] = Append(published[k], loop.list)
          BY <1>1, <1>2, <4>2 DEF TypeOK
        <5>. QED  BY <4>1, <5>1, AppendProperties
      <4>3. CASE k # kind
        BY <1>1, <1>2, <4>3 DEF TypeOK
      <4>. QED  BY <4>2, <4>3
    <3>. QED  BY <1>1, <1>4, <1>10, <3>1 DEF OutWhole
  <2>. QED  BY <1>1, <1>2, <1>10, <2>1 DEF OutWhole
<1>12. StreamInOrder(kind)' /\ Assembling(kind)'
  <2>1. Stream(kind)' = Stream(kind) /\ acc'[kind] = <<>>
    BY <1>2, <1>4 DEF Stream
  <2>. QED  BY <1>1, <1>2, <1>5, <2>1, AssemblingNothing DEF StreamInOrder
<1>13. ASSUME NEW k \in Kinds, k # kind PROVE StreamInOrder(k)' /\ Assembling(k)'
  <2>1. Stream(k)' = Stream(k) /\ acc'[k] = acc[k]
    BY <1>2 DEF Stream
  <2>. QED  BY <1>2, <1>3, <1>5, <1>13, <2>1, OtherKind
<1>. QED  BY <1>6, <1>7, <1>8, <1>9, <1>11, <1>12, <1>13 DEF AssemblyInv

\* Handlers in sequence never find the list or the request of a reply at hand gone.
LEMMA NothingRaises ==
  ASSUME Sequential, Assembly
  PROVE  ~ExtendRaises /\ ~FinishRaises
<1>1. ~ExtendRaises
  BY DEF ExtendRaises, Sequential
<1>2. ASSUME FinishRaises PROVE FALSE
  <2>1. /\ loop # Idle
        /\ \/ loop.at = "delete" /\ Len(acc[loop.reply.kind]) = 0
           \/ loop.at = "finish" /\ xids[loop.reply.kind] = 0
    BY <1>2 DEF FinishRaises, Missing, Idle
  <2>2. Parts \in Nat \ {0}
    BY StatsAssumption
  <2>. QED  BY <2>1, <2>2 DEF Assembly, AssemblyInv, AtHand
<1>. QED  BY <1>1, <1>2

LEMMA ConnectionAssembly ==
  ASSUME Sequential, Assembly, Reset \/ ConnectionLost \/ Reconnect \/ HandshakeResets
  PROVE  AssemblyInv'
<1>. USE DEF reqVars, linkVars
<1>0. Next
  BY DEF Next
<1>1. /\ TypeOK /\ TypeOK' /\ OneAtATime /\ FreshStart /\ OutWhole
      /\ \A k \in Kinds : StreamInOrder(k) /\ Assembling(k)
  BY DEF Assembly, AssemblyInv
<1>2. /\ loop = Idle /\ loop' = Idle /\ UNCHANGED <<flows, published>>
      /\ \/ UNCHANGED <<xids, acc>>
         \/ xids' = NoXids /\ acc' = NoLists
  BY <1>1 DEF Sequential, OneAtATime, Between, Reset, ConnectionLost, Reconnect,
     HandshakeResets, PopMultipartReplies
<1>3. ~Asking /\ ~Asking'
  BY <1>1, AllIdle
<1>4. \A k \in Kinds : NoXids[k] = 0 /\ NoLists[k] = <<>>
  BY DEF Kinds, NoXids, NoLists
<1>5. Pending' => xids'.present
  BY <1>1, <1>2, <1>4 DEF FreshStart, Pending
<1>6. \A k \in Kinds : xids'[k] = xids[k] \/ xids'[k] = 0
  BY <1>2, <1>4
<1>7. OneAtATime' /\ FreshStart' /\ MineAreNew' /\ OutWhole'
  BY <1>0, <1>2, <1>5, <1>6, ThreadsIdle
<1>8. AtHand'
  BY <1>2 DEF AtHand
<1>9. ASSUME NEW k \in Kinds PROVE StreamInOrder(k)' /\ Assembling(k)'
  <2>1. /\ StreamInOrder(k)'
        /\ \A x, n : Follows(Stream(k), x, n) => Follows(Stream(k)', x, n)
    <3>1. CASE ConnectionLost
      BY <1>1, <3>1, LostStream
    <3>2. CASE Reset \/ Reconnect \/ HandshakeResets
      <4>1. Stream(k)' = Stream(k)
        BY <3>2 DEF Reset, Reconnect, HandshakeResets, Stream
      <4>. QED  BY <1>1, <4>1 DEF StreamInOrder
    <3>. QED  BY <3>1, <3>2
  <2>2. CASE UNCHANGED <<xids, acc>>
    <3>1. Handled(k)' = Handled(k)
      BY <1>2, <2>2, HandledIdle
    <3>. QED  BY <1>1, <1>3, <2>1, <2>2, <3>1, AssemblingKept
  <2>3. CASE xids' = NoXids /\ acc' = NoLists
    BY <1>4, <2>1, <2>3, AssemblingNothing
  <2>. QED  BY <1>2, <2>2, <2>3
<1>. QED  BY <1>7, <1>8, <1>9 DEF AssemblyInv

LEMMA NextAssembly ==
  ASSUME Sequential
  PROVE  TypeOK /\ TypeOK' /\ ItemsOnce /\ AssemblyInv /\ [Next]_vars => AssemblyInv'
<1>1. SUFFICES ASSUME Assembly, [Next]_vars PROVE AssemblyInv'
  BY DEF Assembly
<1>2. CASE Loop
  <2>1. CASE Extend \/ Collect \/ TakeFlows \/ Delete \/ Publish
    <3>1. loop.at # "idle"
      BY <2>1 DEF Extend, Collect, TakeFlows, Delete, Publish
    <3>2. loop.reply \in Part /\ loop.reply.kind \in Kinds
      BY <1>1, <3>1, AtWork DEF Assembly
    <3>. QED  BY <1>1, <2>1, <3>2, ExtendAssembly, CollectAssembly, DeleteAssembly,
           PublishAssembly
  <2>. QED  BY <1>1, <1>2, <2>1, HandleAssembly, NothingRaises DEF Loop
<1>3. CASE UNCHANGED vars
  <2>1. AssemblyInv
    BY <1>1 DEF Assembly
  <2>2. /\ Asking' = Asking /\ Pending' = Pending
        /\ \A k \in Kinds : Stream(k)' = Stream(k) /\ Handled(k)' = Handled(k)
    BY <1>3 DEF vars, reqVars, linkVars, Asking, Pending, Stream, Handled
  <2>3. OneAtATime' /\ AtHand' /\ FreshStart' /\ OutWhole'
    BY <1>3, <2>1, <2>2 DEF vars, AssemblyInv, OneAtATime, AtHand, FreshStart, OutWhole
  <2>4. MineAreNew'
    <3>1. \A k \in Kinds : \A i \in DOMAIN published[k] :
              XidOf(published[k][i])' = XidOf(published[k][i])
      BY <1>3 DEF vars, XidOf, Whole
    <3>. QED  BY <1>3, <2>1, <2>2, <3>1 DEF vars, AssemblyInv, MineAreNew
  <2>5. \A k \in Kinds : StreamInOrder(k)' /\ Assembling(k)'
    BY <1>3, <2>1, <2>2 DEF vars, AssemblyInv, StreamInOrder, Assembling
  <2>. QED  BY <2>3, <2>4, <2>5 DEF AssemblyInv
<1>. QED  BY <1>1, <1>2, <1>3, RequesterAssembly, SwitchAssembly, ConnectionAssembly DEF Next

LEMMA InitAssembly == Init => AssemblyInv
<1>1. SUFFICES ASSUME Init PROVE AssemblyInv
  OBVIOUS
<1>2. ~Asking /\ ~Pending /\ xids.present = FALSE /\ \A k \in Kinds : xids[k] = 0
  BY <1>1 DEF Init, Asking, Pending, Kinds, NoXids
<1>3. OneAtATime /\ AtHand
  BY <1>1 DEF Init, OneAtATime, AtHand
<1>4. FreshStart
  BY <1>1, <1>2 DEF Init, FreshStart
<1>5. MineAreNew
  BY <1>1 DEF Init, MineAreNew, NoneMine
<1>6. OutWhole
  BY <1>1, <1>2 DEF Init, OutWhole, NoLists
<1>7. ASSUME NEW k \in Kinds PROVE StreamInOrder(k) /\ Assembling(k)
  <2>1. Stream(k) = <<>> /\ acc[k] = <<>>
    BY <1>1 DEF Init, Stream, NoLists
  <2>. QED  BY <1>2, <2>1 DEF StreamInOrder, InOrder, NoGaps, Assembling
<1>. QED  BY <1>3, <1>4, <1>5, <1>6, <1>7 DEF AssemblyInv

-------------------------------------------------------------------------------
(* Theorems.                                                               *)

\* What is assembled are always the first parts of the answer to the request
\* that is pending.
THEOREM AssemblyInvariant ==
  ASSUME Sequential
  PROVE  Spec => []AssemblyInv
<1>1. TypeOK /\ TypeOK' /\ ItemsOnce /\ AssemblyInv /\ [Next]_vars => AssemblyInv'
  BY NextAssembly
<1>2. Init => AssemblyInv
  BY InitAssembly
<1>3. Spec => []TypeOK /\ []ItemsOnce
  BY TypeCorrect, ItemsInvariant
<1>. QED  BY <1>1, <1>2, <1>3, PTL DEF Spec

\* Every published list is the whole answer to one request, whatever was
\* skipped, given up, reset or lost with a connection before.
THEOREM PublishedListsAreComplete ==
  ASSUME Sequential
  PROVE  Spec => []CompleteLists
<1>1. TypeOK /\ AssemblyInv => CompleteLists
  <2>1. SUFFICES ASSUME TypeOK, AssemblyInv, NEW k \in Kinds, NEW i \in DOMAIN published[k]
        PROVE  Whole(published[k][i])
    BY DEF CompleteLists
  <2>2. PICK x \in 1 .. nextXid - 1 : published[k][i] = FirstParts(x, Parts)
    BY <2>1 DEF AssemblyInv, OutWhole
  <2>3. nextXid \in Nat
    BY <2>1 DEF TypeOK
  <2>4. x \in 1 .. nextXid
    BY <2>3
  <2>. QED  BY <2>2, <2>4 DEF Whole, FirstParts
<1>. QED  BY <1>1, TypeCorrect, AssemblyInvariant, PTL

-------------------------------------------------------------------------------
(* The collector implements StatsRounds.                                   *)

\* The state of StatsRounds.
PendingXids == [k \in Kinds |-> xids[k]]
Answers == [k \in Kinds |-> [i \in DOMAIN published[k] |-> XidOf(published[k][i])]]

LEMMA InitRounds == Init => Rounds!Init
<1>1. SUFFICES ASSUME Init PROVE Rounds!Init
  OBVIOUS
<1>2. /\ PendingXids = [k \in Kinds |-> 0] /\ nextXid - 1 = 0
      /\ \A k \in Kinds : published[k] = <<>>
  BY <1>1 DEF Init, PendingXids, NoXids, NoLists, Kinds
<1>3. ASSUME NEW k \in Kinds
      PROVE  [i \in DOMAIN published[k] |-> XidOf(published[k][i])] = <<>>
  <2>1. DOMAIN published[k] = {}
    BY <1>2
  <2>. QED  BY <2>1
<1>4. Answers = [k \in Kinds |-> <<>>]
  BY <1>3 DEF Answers
<1>. QED  BY <1>2, <1>4 DEF Rounds!Init, PendingXids, Answers

LEMMA AnswersKept ==
  ASSUME TypeOK, TypeOK', OutWhole, nextXid' >= nextXid, published' = published
  PROVE  Answers' = Answers
<1>1. ASSUME NEW k \in Kinds
      PROVE  [i \in DOMAIN published[k] |-> XidOf(published[k][i])]'
                = [i \in DOMAIN published[k] |-> XidOf(published[k][i])]
  <2>1. \A i \in DOMAIN published[k] : XidOf(published[k][i])' = XidOf(published[k][i])
    BY PublishedXids
  <2>. QED  BY <2>1
<1>. QED  BY <1>1 DEF Answers

\* Steps that no request is made, recorded, answered or given up in.
LEMMA RoundsStutter ==
  ASSUME TypeOK, TypeOK', OutWhole, UNCHANGED <<published, nextXid>>,
         \A k \in Kinds : xids'[k] = xids[k]
  PROVE  UNCHANGED Rounds!vars
<1>1. nextXid' >= nextXid
  BY DEF TypeOK
<1>2. Answers' = Answers /\ PendingXids' = PendingXids
  BY <1>1, AnswersKept DEF PendingXids
<1>. QED  BY <1>2 DEF Rounds!vars, Answers, PendingXids

\* A thread makes a request.
LEMMA AskRounds ==
  ASSUME TypeOK, TypeOK', OutWhole, NEW r \in Requesters, NEW kind \in Kinds, Ask(r, kind),
         UNCHANGED <<xids, published>>
  PROVE  Rounds!NewXid
<1>1. nextXid \in Nat /\ nextXid' = nextXid + 1
  BY DEF Ask, TypeOK
<1>2. Answers' = Answers /\ PendingXids' = PendingXids
  BY <1>1, AnswersKept DEF PendingXids
<1>3. nextXid' - 1 = (nextXid - 1) + 1
  BY <1>1
<1>. QED  BY <1>2, <1>3 DEF Rounds!NewXid, Answers, PendingXids

\* Newer requests are recorded, or what is pending is given up.
LEMMA RecordRounds ==
  ASSUME TypeOK, TypeOK', OutWhole, MineAreNew, UNCHANGED <<published, nextXid>>,
         \A k \in Kinds : \/ xids'[k] \in {0, xids[k]}
                          \/ \E r \in Requesters : xids'[k] = mine[r][k]
  PROVE  Rounds!Record
<1>1. nextXid \in Nat /\ nextXid' >= nextXid
  BY DEF TypeOK
<1>2. Answers' = Answers
  BY <1>1, AnswersKept
<1>3. ASSUME NEW k \in Kinds
      PROVE  /\ xids'[k] \in 0 .. nextXid - 1
             /\ \/ xids'[k] \in {0, xids[k]}
                \/ /\ xids'[k] \in 1 .. nextXid - 1 /\ xids'[k] > xids[k]
                   /\ \A i \in DOMAIN published[k] : xids'[k] > XidOf(published[k][i])
  <2>1. xids[k] \in Nat /\ xids[k] < nextXid
    BY XidsOfKinds DEF TypeOK, OutWhole
  <2>2. CASE xids'[k] \in {0, xids[k]}
    BY <1>1, <2>1, <2>2
  <2>3. ASSUME NEW r \in Requesters, xids'[k] = mine[r][k], mine[r][k] # 0
        PROVE  /\ xids'[k] \in 1 .. nextXid - 1 /\ xids'[k] > xids[k]
               /\ \A i \in DOMAIN published[k] : xids'[k] > XidOf(published[k][i])
    <3>1. mine[r][k] \in Nat
      BY DEF TypeOK
    <3>2. /\ mine[r][k] < nextXid /\ mine[r][k] > xids[k]
          /\ \A i \in DOMAIN published[k] : XidOf(published[k][i]) < mine[r][k]
      BY <2>3 DEF MineAreNew
    <3>3. \A i \in DOMAIN published[k] : XidOf(published[k][i]) \in Nat
      BY <1>1, PublishedXids
    <3>4. \A i \in DOMAIN published[k] : mine[r][k] > XidOf(published[k][i])
      BY <3>1, <3>2, <3>3
    <3>. QED  BY <1>1, <2>3, <3>1, <3>2, <3>4
  <2>4. CASE xids'[k] \notin {0, xids[k]}
    <3>1. PICK r \in Requesters : xids'[k] = mine[r][k] /\ mine[r][k] # 0
      BY <2>4
    <3>2. nextXid - 1 \in Nat /\ \A x \in 1 .. nextXid - 1 : x \in 0 .. nextXid - 1
      BY <1>1, <2>1
    <3>. QED  BY <2>3, <3>1, <3>2
  <2>. QED  BY <2>2, <2>4
<1>4. /\ PendingXids' \in [Kinds -> 0 .. nextXid - 1]
      /\ \A k \in Kinds :
            PendingXids'[k] \in {0, PendingXids[k]} \union
               {x \in 1 .. nextXid - 1 : /\ x > PendingXids[k]
                                         /\ \A i \in DOMAIN Answers[k] : x > Answers[k][i]}
  BY <1>3 DEF PendingXids, Answers
<1>. QED  BY <1>2, <1>4 DEF Rounds!Record, Rounds!Newer, PendingXids, Answers

\* The answer to the pending request is published.
LEMMA PublishRounds ==
  ASSUME Assembly, Publish
  PROVE  \E k \in Kinds : Rounds!Answer(k)
<1>. USE DEF reqVars, linkVars
<1>1. TypeOK /\ TypeOK' /\ OutWhole /\ AtHand
  BY DEF Assembly, AssemblyInv
<1>2. PICK kind \in Kinds, x \in Nat, list \in Seq(Item) :
         kind = loop.reply.kind /\ x = loop.reply.xid /\ list = loop.list
  <2>1. loop.at # "idle"
    BY DEF Publish
  <2>. QED  BY <1>1, <2>1, AtWork DEF Part
<1>3. /\ xids' = [xids EXCEPT ![kind] = 0] /\ nextXid' = nextXid
      /\ published' = [published EXCEPT ![kind] = Append(@, list)]
      /\ xids[kind] = x /\ x # 0 /\ list = FirstParts(x, Parts)
  BY <1>1, <1>2 DEF Publish, AtHand, Idle
<1>4. nextXid \in Nat /\ nextXid' >= nextXid /\ x \in 1 .. nextXid'
  <2>1. nextXid \in Nat /\ xids[kind] < nextXid
    BY <1>1 DEF TypeOK, OutWhole
  <2>. QED  BY <1>3, <2>1
<1>5. PendingXids' = [PendingXids EXCEPT ![kind] = 0] /\ PendingXids[kind] = x
  BY <1>1, <1>3 DEF PendingXids, TypeOK, Kinds
<1>6. XidOf(list)' = x
  <2>1. list = [i \in 1 .. Parts |-> [xid |-> x, part |-> i]] /\ 1 \in 1 .. Parts
    BY <1>3, StatsAssumption DEF FirstParts
  <2>2. Head(list).xid = x
    BY <2>1
  <2>3. Whole(list)'
    BY <1>4, <2>1 DEF Whole
  <2>. QED  BY <2>2, <2>3 DEF XidOf
<1> DEFINE A(k) == [i \in DOMAIN published[k] |-> XidOf(published[k][i])]
<1>7. ASSUME NEW k \in Kinds
      PROVE  A(k)' = IF k = kind THEN Append(A(k), x) ELSE A(k)
  <2>1. \A i \in DOMAIN published[k] :
           published'[k][i] = published[k][i] => XidOf(published[k][i])' = XidOf(published[k][i])
    BY <1>1, <1>4, PublishedXids
  <2>2. published \in [Kinds -> Seq(Seq(Item))]
    BY <1>1 DEF TypeOK
  <2>3. CASE k # kind
    <3>1. published'[k] = published[k]
      BY <1>3, <2>2, <2>3
    <3>. QED  BY <2>1, <2>3, <3>1
  <2>4. CASE k = kind
    <3> DEFINE n == Len(published[k])
    <3>1. published'[k] = Append(published[k], list) /\ published[k] \in Seq(Seq(Item))
      BY <1>3, <2>2, <2>4
    <3>2. /\ n \in Nat /\ DOMAIN published[k] = 1 .. n /\ DOMAIN published'[k] = 1 .. n + 1
          /\ \A i \in 1 .. n : published'[k][i] = published[k][i]
          /\ published'[k][n + 1] = list
      BY <3>1, AppendProperties
    <3>3. A(k)' = [i \in 1 .. n + 1 |-> IF i = n + 1 THEN x ELSE XidOf(published[k][i])]
      <4>1. ASSUME NEW i \in 1 .. n + 1
            PROVE  XidOf(published[k][i])' = IF i = n + 1 THEN x ELSE XidOf(published[k][i])
        <5>1. CASE i = n + 1
          BY <1>6, <3>2, <5>1 DEF XidOf, Whole
        <5>2. CASE i # n + 1
          <6>1. i \in 1 .. n
            BY <3>2, <5>2
          <6>. QED  BY <2>1, <3>2, <5>2, <6>1
        <5>. QED  BY <5>1, <5>2
      <4>. QED  BY <3>2, <4>1
    <3>4. \A i \in 1 .. n : XidOf(published[k][i]) \in Nat
      BY <1>1, <1>4, <3>2, PublishedXids
    <3>5. A(k) \in Seq(Nat) /\ Len(A(k)) = n
      BY <3>2, <3>4
    <3>6. Append(A(k), x) = [i \in 1 .. n + 1 |-> IF i = n + 1 THEN x ELSE A(k)[i]]
      BY <3>5
    <3>7. ASSUME NEW i \in 1 .. n + 1
          PROVE  (IF i = n + 1 THEN x ELSE A(k)[i])
                    = IF i = n + 1 THEN x ELSE XidOf(published[k][i])
      <4>1. i # n + 1 => i \in 1 .. n
        BY <3>2
      <4>. QED  BY <3>2, <4>1
    <3>. QED  BY <2>4, <3>3, <3>6, <3>7
  <2>. QED  BY <2>3, <2>4
<1>8. Answers' = [Answers EXCEPT ![kind] = Append(@, x)]
  <2>1. Answers' = [k \in Kinds |-> A(k)'] /\ Answers = [k \in Kinds |-> A(k)]
    BY DEF Answers
  <2>. HIDE DEF A
  <2>. QED  BY <1>7, <2>1
<1>. QED  BY <1>3, <1>5, <1>8 DEF Rounds!Answer, PendingXids, Answers

LEMMA NextRounds ==
  ASSUME Sequential, Assembly, Next
  PROVE  Rounds!Next \/ UNCHANGED Rounds!vars
<1>. USE DEF reqVars, linkVars
<1>1. TypeOK /\ TypeOK' /\ OutWhole /\ MineAreNew
  BY DEF Assembly, AssemblyInv
<1>2. ASSUME NEW r \in Requesters, Requester(r) PROVE Rounds!Next \/ UNCHANGED Rounds!vars
  <2>1. CASE SkipRound(r)
    <3>1. \A k \in Kinds : xids'[k] = xids[k]
      BY <1>1, <2>1 DEF SkipRound, TypeOK, Kinds
    <3>. QED  BY <1>1, <2>1, <3>1, RoundsStutter DEF SkipRound
  <2>2. CASE StartRound(r)
    BY <1>1, <2>2, RoundsStutter DEF StartRound
  <2>3. CASE RequestFlows(r) \/ RequestPorts(r) \/ RequestTables(r)
    <3>1. \E kind \in Kinds : Ask(r, kind) /\ UNCHANGED <<xids, published>>
      BY <2>3 DEF RequestFlows, RequestPorts, RequestTables, Kinds
    <3>. QED  BY <1>1, <3>1, AskRounds DEF Rounds!Next
  <2>4. CASE RegisterXids(r) \/ UpdateXids(r)
    <3>1. ASSUME NEW k \in Kinds PROVE xids'[k] \in {0, xids[k], mine[r][k]}
      <4>1. CASE RegisterXids(r)
        BY <4>1 DEF RegisterXids, Kinds
      <4>2. CASE UpdateXids(r)
        BY <1>1, <4>2 DEF UpdateXids, Kinds, TypeOK
      <4>. QED  BY <2>4, <4>1, <4>2
    <3>2. UNCHANGED <<published, nextXid>>
      BY <2>4 DEF RegisterXids, UpdateXids
    <3>. QED  BY <1>1, <3>1, <3>2, RecordRounds DEF Rounds!Next
  <2>. QED  BY <1>2, <2>1, <2>2, <2>3, <2>4 DEF Requester
<1>3. ASSUME NEW k \in Kinds, SwitchSendsPart(k) \/ SwitchGivesUp(k)
      PROVE  UNCHANGED Rounds!vars
  BY <1>1, <1>3, RoundsStutter DEF SwitchSendsPart, SwitchGivesUp
<1>4. CASE Loop
  <2>1. CASE Publish
    BY <2>1, PublishRounds DEF Rounds!Next
  <2>2. CASE ~Publish
    <3>1. UNCHANGED <<xids, published, nextXid>>
      BY <1>4, <2>2, NothingRaises
         DEF Loop, HandleReply, Extend, Collect, TakeFlows, Delete
    <3>. QED  BY <1>1, <3>1, RoundsStutter
  <2>. QED  BY <2>1, <2>2
<1>5. CASE Reset \/ HandshakeResets
  <2>1. xids' = NoXids /\ UNCHANGED <<published, nextXid>>
    BY <1>5 DEF Reset, HandshakeResets, PopMultipartReplies
  <2>2. \A k \in Kinds : xids'[k] = 0
    BY <2>1 DEF NoXids, Kinds
  <2>. QED  BY <1>1, <2>1, <2>2, RecordRounds DEF Rounds!Next
<1>6. CASE ConnectionLost \/ Reconnect
  BY <1>1, <1>6, RoundsStutter DEF ConnectionLost, Reconnect
<1>. QED  BY <1>2, <1>3, <1>4, <1>5, <1>6 DEF Next

\* The collector implements StatsRounds: what it publishes of each kind are the
\* whole answers to requests that are pending then, each once and in the order
\* of the requests, and what was given up, reset, or lost with a connection is
\* never answered after that.
THEOREM CollectorImplementsRounds ==
  ASSUME Sequential
  PROVE  Spec => ImplementsRounds
<1>1. /\ TypeOK /\ TypeOK' /\ ItemsOnce /\ AssemblyInv /\ [Next]_vars
            => [Rounds!Next]_(Rounds!vars)
  <2>1. SUFFICES ASSUME Assembly, [Next]_vars PROVE Rounds!Next \/ UNCHANGED Rounds!vars
    BY DEF Assembly
  <2>2. CASE Next
    BY <2>1, <2>2, NextRounds
  <2>3. CASE UNCHANGED vars
    BY <2>1, <2>3, RoundsStutter DEF vars, Assembly, AssemblyInv
  <2>. QED  BY <2>1, <2>2, <2>3
<1>. QED  BY <1>1, InitRounds, TypeCorrect, ItemsInvariant, AssemblyInvariant, PTL
          DEF Spec, ImplementsRounds, Rounds!Spec
===============================================================================
