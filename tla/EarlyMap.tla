------------------------------ MODULE EarlyMap ------------------------------
(***************************************************************************)
(* The first page table (arch/riscv/mm/early_vm.c), built by one hart      *)
(* before address translation is on: setup_earlyvm maps everything from    *)
(* the start of the kernel to the end of memory at KERNEL_OFFSET, page by  *)
(* page, and takes the pages for its tables from the memory behind the     *)
(* kernel with freemem_alloc_pa, which does not clear them: the board's    *)
(* memory is zero when it starts.  Addresses are page numbers.             *)
(*                                                                         *)
(* The state of a walk down the tables is declared here and shared with    *)
(* PageTable: the functions of both are recursive over the three levels,   *)
(* and a step is one iteration of the loop of the innermost call.  lvl is  *)
(* its level; for every level up to lvl, tab holds the table, idx the      *)
(* entry and cur the pages that were left when the call below was made.    *)
(***************************************************************************)
EXTENDS Sv39

CONSTANT KERNEL_OFFSET   \* virtual page of the start of the kernel

VARIABLES
    lay,         \* [start, line, end, top]: pages of the start of the kernel, of
                 \* its separate line, of its end and of the end of memory
    root,        \* the root table
    mem,         \* [page -> [0..PTE_NUMS-1 -> pte]]  the tables
    avail,       \* pages that can be allocated
    pa_st_free,  \* the next page of freemem_alloc_pa
    pc,          \* "early", "idle", or the walk in progress
    req,         \* the arguments of the call
    cnt, left,   \* pages of the walk, and those still to do (*pages)
    lvl, tab, idx, cur,
    fresh,       \* the table of level lvl was allocated for this page
    panic        \* an ASSERT has failed

walk == <<lvl, tab, idx, cur>>

(* The virtual and the physical page the walk has come to: the code keeps  *)
(* them as va and pa and adds what the calls below have done.              *)
AtVa == req.va + (cnt - left)
AtPa == req.pa + (cnt - left)

Pte == mem[tab[lvl]][idx[lvl]]

(* The recursive call for table t, and the return to the level above,      *)
(* which goes on with its next entry.                                      *)
Enter(t, i) ==
    /\ lvl' = lvl + 1
    /\ tab' = [tab EXCEPT ![lvl + 1] = t]
    /\ idx' = [idx EXCEPT ![lvl + 1] = i]
    /\ cur' = [cur EXCEPT ![lvl] = left]

Leave ==
    /\ lvl' = lvl - 1
    /\ idx' = [idx EXCEPT ![lvl - 1] = @ + 1]
    /\ UNCHANGED <<tab, cur>>

(* Entry idx of the table becomes e.                                       *)
SetPte(e) == mem' = [mem EXCEPT ![tab[lvl]] = [@ EXCEPT ![idx[lvl]] = e]]

-----------------------------------------------------------------------------
TEXT == {"R", "X"}
DATA == {"R", "W"}

(* kernel_map_init: what follows the kernel is free.  vm_mmap takes the    *)
(* root the first time.  The two calls of setup_earlyvm, for the kernel up *)
(* to the separate line and for the rest of memory, follow each other      *)
(* page by page and are one walk over the whole.                           *)
EarlyInit(l) ==
    /\ lay = l
    /\ mem = [p \in 0..l.top |-> ZeroTable]
    /\ root = l.end
    /\ pa_st_free = l.end + 1
    /\ avail = (l.end + 1)..(l.top - 1)
    /\ pc = "early"
    /\ req = [op |-> "none", va |-> KERNEL_OFFSET, n |-> 0, pa |-> l.start, prot |-> {}]
    /\ cnt = l.top - l.start
    /\ left = cnt
    /\ lvl = 0
    /\ tab = [i \in 0..2 |-> root]
    /\ idx = [i \in 0..2 |-> SV39_Index2Id(KERNEL_OFFSET, 0)]
    /\ cur = [i \in 0..2 |-> 0]
    /\ fresh = FALSE
    /\ panic = FALSE

(* Seeded fault: the second part starts one page too far.                  *)
EarlySkipsLine(pa) == SV39_Pa2PTE(IF pa < lay.line THEN pa ELSE pa + 1,
                                  IF pa < lay.line THEN TEXT ELSE DATA)

(* The kernel up to the separate line can be read and executed, the rest   *)
(* of memory read and written.                                             *)
EarlyPte(pa) == SV39_Pa2PTE(pa, IF pa < lay.line THEN TEXT ELSE DATA)

(* vm_mmap goes on with the next page at the root.                         *)
EarlyNext ==
    /\ left' = left - 1
    /\ pc' = IF left = 1 THEN "idle" ELSE "early"
    /\ lvl' = 0
    /\ idx' = [idx EXCEPT ![0] = SV39_Index2Id(AtVa + 1, 0)]
    /\ fresh' = FALSE
    /\ UNCHANGED <<tab, cur, panic>>

(* A level returns an error: an ASSERT of setup_earlyvm fails, but a table *)
(* just allocated does not look at the result of the level below.          *)
EarlyError ==
    IF fresh THEN EarlyNext
    ELSE panic' = TRUE /\ UNCHANGED <<pc, left, fresh, walk>>

(* The next page of the memory behind the kernel, if there is one.         *)
freemem_alloc_pa ==
    /\ pa_st_free < lay.top
    /\ avail' = avail \ {pa_st_free}
    /\ pa_st_free' = pa_st_free + 1

(* vm_walkthrough above the last level: the table the entry points to...   *)
EarlyEnter ==
    /\ lvl < 2
    /\ Pte.v
    /\ IF PTE_NEXTPGT(Pte)
       THEN /\ Enter(Pte.ppn, SV39_Index2Id(AtVa, lvl + 1))
            /\ fresh' = FALSE
            /\ UNCHANGED <<pc, left, panic>>
       ELSE EarlyError
    /\ UNCHANGED <<mem, avail, pa_st_free>>

(* ... or the next page of freemem_alloc_pa, unless nothing is left.       *)
EarlyGrow ==
    /\ lvl < 2
    /\ ~Pte.v
    /\ IF pa_st_free < lay.top
       THEN /\ SetPte(SV39_Pa2PTE(pa_st_free, {}))
            /\ freemem_alloc_pa
            /\ Enter(pa_st_free, SV39_Index2Id(AtVa, lvl + 1))
            /\ fresh' = TRUE
            /\ UNCHANGED <<pc, left, panic>>
       ELSE EarlyError /\ UNCHANGED <<mem, avail, pa_st_free>>

(* vm_walkthrough at the last level.                                       *)
EarlyPage ==
    /\ lvl = 2
    /\ IF Pte.v THEN EarlyError /\ UNCHANGED mem
       ELSE SetPte(EarlyPte(AtPa)) /\ EarlyNext
    /\ UNCHANGED <<avail, pa_st_free>>

setup_earlyvm ==
    /\ pc = "early"
    /\ EarlyEnter \/ EarlyGrow \/ EarlyPage
    /\ UNCHANGED <<lay, root, req, cnt>>
=============================================================================
