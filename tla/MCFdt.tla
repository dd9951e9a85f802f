------------------------------- MODULE MCFdt -------------------------------
(* Two node names, one of them with a unit address; two property names,    *)
(* one the tail of the other; values of a whole word and of less; buffers  *)
(* with room for a few tags.                                               *)
EXTENDS FdtBlob

MCNames == {<<97>>, <<97, 64, 49>>}
MCProps == {Phandle, LinuxPhandle}
MCVals == {Cell(1), <<2>>}
MCBufSizes == {60, 100, 112}
MCRooms == {-1, 20, 150}
=============================================================================
