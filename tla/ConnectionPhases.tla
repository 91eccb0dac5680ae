--------------------------- MODULE ConnectionPhases ---------------------------
(***************************************************************************)
(* What of_core promises about one connection of a switch, without saying  *)
(* how it is done: a session goes through its phases in order, the network *)
(* applications see nothing of it but features replies before it is        *)
(* established, every packet at most once, and one completed handshake is  *)
(* announced at most once, after the session has been established.         *)
(* Handshake implements this specification.                                *)
(***************************************************************************)
EXTENDS Naturals, Sequences

VARIABLES
    phase,       \* "new", "setup", "established" or "closed"
    handshaken,  \* the protocol handshake has come to its end
    delivered,   \* the packets handed to the applications, in that order
    announced    \* how many times handshake.completed has been published

vars == <<phase, handshaken, delivered, announced>>

Init == /\ phase = "new"
        /\ handshaken = FALSE
        /\ delivered = <<>>
        /\ announced = 0

Setup == /\ phase = "new"
         /\ phase' = "setup"
         /\ UNCHANGED <<handshaken, delivered, announced>>

\* The end of the handshake: from here on the session may be established.
Conclude == /\ phase \in {"setup", "closed"}
            /\ ~handshaken
            /\ handshaken' = TRUE
            /\ UNCHANGED <<phase, delivered, announced>>

Establish == /\ phase = "setup"
             /\ handshaken
             /\ phase' = "established"
             /\ UNCHANGED <<handshaken, delivered, announced>>

Close == /\ phase # "closed"
         /\ phase' = "closed"
         /\ UNCHANGED <<handshaken, delivered, announced>>

\* A packet is handed over once; before the session is established, only a
\* features reply is.
Deliver == /\ phase \in {"setup", "established"}
           /\ DOMAIN delivered' = 1 .. (Len(delivered) + 1)
           /\ \A i \in DOMAIN delivered :
                 /\ delivered'[i] = delivered[i]
                 /\ delivered[i].id # delivered'[Len(delivered) + 1].id
           /\ phase = "setup" => delivered'[Len(delivered) + 1].kind = "features_reply"
           /\ UNCHANGED <<phase, handshaken, announced>>

\* The announcement may come after the session is lost, never before its end.
Announce == /\ phase \in {"established", "closed"}
            /\ handshaken
            /\ announced = 0
            /\ announced' = 1
            /\ UNCHANGED <<phase, handshaken, delivered>>

Next == Setup \/ Conclude \/ Establish \/ Close \/ Deliver \/ Announce

Spec == Init /\ [][Next]_vars
===============================================================================
