-------------------------------- MODULE MCVm --------------------------------
(* Six virtual pages in two regions of three, the last two pages for the   *)
(* kernel.  A block of one page, writable or without PROT_V, and one of    *)
(* two pages that lies across the regions, writable or not; two pages of a *)
(* device that overlap the larger block, and four that fill a region and   *)
(* reach into the next.                                                    *)
EXTENDS VmCalls, TLC

Order2Pgnum == [o \in 0..2 |-> 2^o]
R  == {"V", "R"}
RW == {"V", "R", "W"}
Mmaps == {<<0, 0, {"R"}>>, <<0, 0, RW>>, <<2, 1, R>>, <<2, 1, RW>>}
Iomaps == {<<1, 2, RW>>, <<0, 4, RW>>}
Symmetry == Permutations(CPUS) \cup Permutations(USERS)
=============================================================================
