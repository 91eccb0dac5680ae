------------------------------- MODULE OfSlicer --------------------------------
(***************************************************************************)
(* The byte stream of a connection: of_slicer cuts what was read into      *)
(* packets, on_raw_in hands them over, gathers multipart replies until the *)
(* end of the batch or, during the setup, defers packets by writing them   *)
(* back in front of the bytes that are yet to be cut.                      *)
(*                                                                         *)
(* The step of a batch says behind which of its packets the setup ended,   *)
(* if it did, and whether a handler raised.  When packets are handed over, *)
(* and in which order, is in Handshake.  The hello has been used up.       *)
(***************************************************************************)
EXTENDS Naturals, SequencesExt, SequenceParts

CONSTANTS
    ALL_OPENFLOW_VERSIONS, \* settings.ALL_OPENFLOW_VERSIONS
    Units,                 \* the runs of bytes that streams are made of
    MaxUnits               \* bound on the number of units of a stream

ASSUME SlicerAssumption ==
    /\ ALL_OPENFLOW_VERSIONS \subseteq 0 .. 255
    /\ Units \subseteq Seq(0 .. 255)
    /\ MaxUnits \in Nat

VARIABLES
    stream,    \* the bytes that the switch sends
    position,  \* how many of them were read
    remaining, \* Connection.remaining_data
    setup,     \* the connection is during its setup
    closed,    \* a packet could not be unpacked
    handed,    \* the packets that were handed over
    gathered,  \* the multipart replies that batches gathered and did not hand over yet
    lost       \* the packets that a batch lost because a handler raised

vars == <<stream, position, remaining, setup, closed, handed, gathered, lost>>

-------------------------------------------------------------------------------
LengthAt(data, p) == 256 * data[p + 2] + data[p + 3]
Garbage(data, p) == data[p] \notin ALL_OPENFLOW_VERSIONS \/ LengthAt(data, p) = 0
\* Mutant of Complete: one byte more is waited for.
CompleteLate(data) == LengthAt(data, 1) < Len(data)

Complete(data) == LengthAt(data, 1) <= Len(data)

From(data, p) == SubSeq(data, p, Len(data))

\* A turn of the loop of of_slicer; there is none once the loop has ended.
Cut(s) ==
    IF Len(s.rest) <= 3 THEN s
    ELSE IF Garbage(s.rest, 1) THEN [pkts |-> s.pkts, rest |-> From(s.rest, 5)]
    ELSE IF Complete(s.rest)
    THEN [pkts |-> Append(s.pkts, SubSeq(s.rest, 1, LengthAt(s.rest, 1))),
          rest |-> From(s.rest, LengthAt(s.rest, 1) + 1)]
    ELSE s

\* of_slicer: the packets of the data and the bytes that are left.  A turn takes
\* a byte at least: there are no more turns than bytes.
Slice(data) ==
    LET cut[i \in 0 .. Len(data)] == IF i = 0 THEN [pkts |-> <<>>, rest |-> data]
                                     ELSE Cut(cut[i - 1])
    IN  cut[Len(data)]

Bytes == Seq(0 .. 255)

\* unpack needs the type and the length at least; a real header has 8 bytes.
Unpackable(p) == Len(p) >= 4
FeaturesReply(p) == p[2] = 6
MultipartReply(p) == p[2] = 19
\* update_links and update_port_status may raise.
MayRaise(p) == p[2] \in {10, 12}
\* Mutant of Deferred: the setup never ends.
DeferredForEver(p, duringSetup) == ~FeaturesReply(p)

Deferred(p, duringSetup) == duringSetup /\ ~FeaturesReply(p)

\* The packets up to the first that cannot be unpacked.
Readable(pkts) ==
    LET refused == {i \in DOMAIN pkts : ~Unpackable(pkts[i])}
    IN  IF refused = {} THEN pkts ELSE SubSeq(pkts, 1, Min(refused) - 1)

\* The packets that are written back and the others, the first k of them during the
\* setup.
Kept(pkts, k) ==
    Only(SubSeq(pkts, 1, k), {p \in Bytes : Deferred(p, TRUE)}) \o
    Only(SubSeq(pkts, k + 1, Len(pkts)), {p \in Bytes : Deferred(p, FALSE)})
Open(pkts, k) ==
    Only(SubSeq(pkts, 1, k), {p \in Bytes : ~Deferred(p, TRUE)}) \o
    Only(SubSeq(pkts, k + 1, Len(pkts)), {p \in Bytes : ~Deferred(p, FALSE)})

\* A thread may end the setup once a features reply was handed over: between two
\* packets of the batch, too.
SetupEndsAfter(pkts, k) ==
    IF setup
    THEN k < Len(pkts) =>
            \E p \in Range(handed) \cup Range(SubSeq(pkts, 1, k)) : FeaturesReply(p)
    ELSE k = 0

\* What is handed over packet by packet, and what is gathered.
Multiparts == {p \in Bytes : MultipartReply(p)}
Direct(pkts, k)   == Only(Open(pkts, k), Bytes \ Multiparts)
Gathered(pkts, k) == Only(Open(pkts, k), Multiparts)

\* of_slicer on what was left, with the next n bytes.
Sliced(n) == Slice(remaining \o SubSeq(stream, position + 1, position + n))

-------------------------------------------------------------------------------
Init ==
    /\ stream \in {Joined(s) : s \in BoundedSeq(Units, MaxUnits)}
    /\ position = 0
    /\ remaining = <<>>
    /\ setup = TRUE
    /\ closed = FALSE
    /\ handed = <<>>
    /\ gathered = <<>>
    /\ lost = <<>>

\* Mutant of OnRawIn: the length of the joined bytes is taken for that of the read.
OnRawInJoinedLength(n, k) ==
    /\ ~closed
    /\ n \in 1 .. Len(stream) - position
    /\ k = IF setup THEN Len(Sliced(n).pkts) ELSE 0
    /\ position' = position + Len(remaining) + n
    /\ handed' = handed \o Direct(Sliced(n).pkts, k)
    /\ gathered' = gathered \o Gathered(Sliced(n).pkts, k)
    /\ remaining' = Joined(Kept(Sliced(n).pkts, k)) \o Sliced(n).rest
    /\ UNCHANGED <<stream, setup, closed, lost>>

\* on_raw_in with the next n bytes, the first k packets during the setup.
OnRawIn(n, k) ==
    /\ ~closed
    /\ n \in 1 .. Len(stream) - position
    /\ LET sliced  == Sliced(n)
           pkts    == Readable(sliced.pkts)
           refused == pkts # sliced.pkts
       IN  /\ k \in 0 .. Len(pkts)
           /\ SetupEndsAfter(pkts, k)
           /\ setup' = (setup /\ k = Len(pkts))
           /\ closed' = refused
           /\ handed' = handed \o Direct(pkts, k)
           /\ gathered' = IF refused THEN gathered ELSE gathered \o Gathered(pkts, k)
           /\ remaining' = IF refused THEN sliced.rest
                           ELSE Joined(Kept(pkts, k)) \o sliced.rest
    /\ position' = position + n
    /\ UNCHANGED <<stream, lost>>

\* The same, and the handler of the packet i raises: it was handed over, and with the
\* rest of the batch what was deferred and gathered before it is lost.
RouteRaises(n, k, i) ==
    /\ ~closed
    /\ n \in 1 .. Len(stream) - position
    /\ LET pkts == Sliced(n).pkts
           done == SubSeq(pkts, 1, i)
       IN  /\ i \in DOMAIN Readable(pkts)
           /\ k \in 0 .. i - 1
           /\ MayRaise(pkts[i])
           /\ SetupEndsAfter(done, k)
           /\ handed' = handed \o Direct(done, k)
           /\ lost' = lost \o Gathered(done, k) \o Kept(done, k)
                           \o SubSeq(pkts, i + 1, Len(pkts))
           /\ remaining' = Sliced(n).rest
    /\ setup' = FALSE
    /\ position' = position + n
    /\ UNCHANGED <<stream, closed, gathered>>

\* process_multipart_messages, behind the lock of the batch: of several requests or
\* batches in any order.
HandleMultipart(i) ==
    /\ ~closed
    /\ handed' = Append(handed, gathered[i])
    /\ gathered' = RemoveAt(gathered, i)
    /\ UNCHANGED <<stream, position, remaining, setup, closed, lost>>

\* _handle_multipart_reply raises: the reply, and one by one those behind it, are lost.
ProcessRaises(i) ==
    /\ ~closed
    /\ lost' = Append(lost, gathered[i])
    /\ gathered' = RemoveAt(gathered, i)
    /\ UNCHANGED <<stream, position, remaining, setup, closed, handed>>

\* The thread of the features reply ends the setup.
Establish ==
    /\ setup
    /\ ~closed
    /\ \E i \in DOMAIN handed : FeaturesReply(handed[i])
    /\ setup' = FALSE
    /\ UNCHANGED <<stream, position, remaining, closed, handed, gathered, lost>>

Next ==
    \/ \E n \in 1 .. Len(stream) - position : \E k \in 0 .. Len(Sliced(n).pkts) :
          \/ OnRawIn(n, k)
          \/ \E i \in DOMAIN Sliced(n).pkts : RouteRaises(n, k, i)
    \/ \E i \in DOMAIN gathered : HandleMultipart(i) \/ ProcessRaises(i)
    \/ Establish

Spec == Init /\ [][Next]_vars

-------------------------------------------------------------------------------
(* Properties.                                                             *)

TypeOK ==
    /\ stream \in Bytes
    /\ position \in 0 .. Len(stream)
    /\ remaining \in Bytes
    /\ setup \in BOOLEAN /\ closed \in BOOLEAN
    /\ \A p \in Range(handed) \cup Range(gathered) \cup Range(lost) : p \in Bytes

\* The packets of a stream, byte by byte: a header is looked for at the start,
\* after each packet, and four bytes after a place that has none.
Scan(data, p, s) ==
    IF p # s.next \/ p + 3 > Len(data) THEN s
    ELSE IF Garbage(data, p) THEN [next |-> p + 4, pkts |-> s.pkts]
    ELSE IF p + LengthAt(data, p) <= Len(data) + 1
    THEN [next |-> p + LengthAt(data, p),
          pkts |-> Append(s.pkts, SubSeq(data, p, p + LengthAt(data, p) - 1))]
    ELSE s

PacketsOf(data) ==
    LET scan[p \in 0 .. Len(data)] == IF p = 0 THEN [next |-> 1, pkts |-> <<>>]
                                      ELSE Scan(data, p, scan[p - 1])
    IN  scan[Len(data)].pkts

Arrived == PacketsOf(SubSeq(stream, 1, position))

\* However the stream is cut into reads, and whatever is deferred and written
\* back in front of the next bytes, every packet of the stream that was read is
\* handed over once, or waits once, or was lost once to an exception: writing packets
\* back never changes where the next one begins, also around bytes that are no packet,
\* and also when the setup ends in the middle of a batch.
EachPacketOnce ==
    ~closed => LET here == handed \o gathered \o lost \o Slice(remaining).pkts
               IN  /\ Len(here) = Len(Arrived)
                   /\ \A p \in Range(Arrived) :
                         Len(Only(here, {p})) = Len(Only(Arrived, {p}))

\* Nothing but deferred packets waits longer than it must: once a read was made
\* after the setup, no complete packet is left among the remaining bytes.
NoPacketLeftBehind ==
    [][(position' # position /\ ~setup /\ ~closed') => Slice(remaining').pkts = <<>>]_vars
===============================================================================
