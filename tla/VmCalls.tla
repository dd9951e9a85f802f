------------------------------ MODULE VmCalls ------------------------------
(***************************************************************************)
(* Vm with callers that stay inside the page table.  vm_mmap and vm_iomap  *)
(* do not look at the size of an address (vm.c 208-223 and 237-254), and   *)
(* two that differ by VPNS pages have the same entry; nothing in the       *)
(* source passes one beyond the 2^39 bytes of an SV39 page table.          *)
(***************************************************************************)
EXTENDS Vm

(* Every range asked for is inside the page table, so none goes round the  *)
(* end of the 64-bit addresses either.                                     *)
ASSUME AddressAssumption ==
    /\ \A v \in MMAPS : v[1] >= 0 /\ v[1] + ORDER2PGNUM[v[2]] <= VPNS
    /\ \A v \in IOMAPS : v[1] >= 0 /\ v[1] + v[2] <= VPNS
=============================================================================
