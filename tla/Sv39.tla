-------------------------------- MODULE Sv39 --------------------------------
(***************************************************************************)
(* The entries and indices of an SV39 page table (asm/vm.h), with page     *)
(* numbers for addresses and PTE_NUMS entries to a table.                  *)
(***************************************************************************)
EXTENDS Integers

CONSTANT PTE_NUMS    \* entries of a table

ASSUME PteNumsAssumption == PTE_NUMS \in Nat /\ PTE_NUMS > 1

VAS == 0..(PTE_NUMS * PTE_NUMS * PTE_NUMS - 1)

(* The indices of a table.                                                 *)
Slots == 0..(PTE_NUMS - 1)

(* An entry: VM_PROT_V, the set of the other permissions, the page number. *)
VM_PROTS == {"R", "W", "X", "U", "G", "A", "D"}
Ptes == [v : BOOLEAN, prot : SUBSET VM_PROTS, ppn : Nat]

ZeroPte == [v |-> FALSE, prot |-> {}, ppn |-> 0]
SV39_Pa2PTE(pa, prot) == [v |-> TRUE, prot |-> prot, ppn |-> pa]
PTE_NEXTPGT(pte) == pte.v /\ pte.prot \cap {"R", "W", "X"} = {}

SV39_INDEX_PAGES(index) ==
    CASE index = 0 -> PTE_NUMS * PTE_NUMS [] index = 1 -> PTE_NUMS [] index = 2 -> 1
SV39_Index2Id(va, index) == (va \div SV39_INDEX_PAGES(index)) % PTE_NUMS

ZeroTable == [i \in Slots |-> ZeroPte]

(* What the hardware sees in tables m from table root on: the walk of the  *)
(* privileged specification, a leaf entry or ZeroPte.                      *)
Walk(m, root, va) ==
    LET p0 == m[root][SV39_Index2Id(va, 0)]
        p1 == m[p0.ppn][SV39_Index2Id(va, 1)]
    IN  IF ~p0.v THEN ZeroPte ELSE IF ~p1.v THEN ZeroPte
        ELSE m[p1.ppn][SV39_Index2Id(va, 2)]
=============================================================================
