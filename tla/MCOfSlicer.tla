------------------------------ MODULE MCOfSlicer -------------------------------
(* Streams of a port status, a features reply and a multipart reply, of packets  *)
(* of two lengths, a header of length zero, a packet shorter than a header, and  *)
(* one byte that belongs to no packet.                                           *)
EXTENDS OfSlicer

AllVersions == 1 .. 6
SmallUnits  == {<<4, 19, 0, 4>>, <<4, 12, 0, 6, 0, 4>>, <<4, 6, 0, 4>>, <<4, 0, 0, 0>>,
                <<4, 0, 0, 2>>, <<9>>}
===============================================================================
