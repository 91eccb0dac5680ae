---------------------------- MODULE MCPortUpdates -----------------------------
(* Model checking of PortUpdates: the configurations give the bounds.      *)
EXTENDS PortInvariants

CONSTANTS p1, p2

OnePort  == {p1}
TwoPorts == {p1, p2}

\* One of two ports has an interface that an earlier connection left; a single
\* port may have one.
LocalKnown   == {{p2}}
NoneOrKnown  == {{}, {p1}}
===============================================================================
