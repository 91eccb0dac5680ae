----------------------------- MODULE MCHandshake ------------------------------
(* Model checking of Handshake: the configurations give the bounds.        *)
EXTENDS HandshakeInvariants
===============================================================================
