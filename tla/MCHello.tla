-------------------------------- MODULE MCHello --------------------------------
(* Hellos of switches that speak any of the versions 1 to 6.  The elements that *)
(* may follow the bitmap have no value, a value of four bytes or of twelve, or  *)
(* a length of zero, on which a loop that trusted it would not advance.         *)
EXTENDS Hello

ASSUME NoVersion16

AllVersions      == 1 .. 6
Supported        == {4}
SeveralSupported == {1, 4}
Elements         == {<<0, 2, 0, 4>>, <<0, 2, 0, 8, 0, 0, 0, 1>>, <<0, 2, 0, 0>>,
                     <<0, 2, 0, 16, 0, 0, 0, 0, 0, 0, 0, 0, 0, 0, 0, 0>>}
===============================================================================
