------------------------------ MODULE PageTable ------------------------------
(***************************************************************************)
(* The SV39 page tables of ACO-OS (arch/riscv/mm/vm.c): a tree of three    *)
(* levels of tables with PTE_NUMS entries each, in pages taken from the    *)
(* page allocator one at a time and given back when hw_unmap has removed   *)
(* everything a table can hold, or by hw_unmap_all.                        *)
(*                                                                         *)
(* Addresses are page numbers.  A step is one iteration of a loop of       *)
(* vm_walkthrough, riscv_unmap or riscv_free_pgtable, so that the tables   *)
(* are seen as the hardware of another hart sees them while a call runs.   *)
(* vm.c calls these functions with the writer's lock of the address space  *)
(* held: there is one call at a time.                                      *)
(***************************************************************************)
EXTENDS EarlyMap

CONSTANTS LAYOUTS,    \* values of lay
          LEFT,       \* bounds: numbers of pages left for the tables of a user space
          RANGES,     \* bound: <<va, n>> of the calls
          OFFSETS,    \* distances from a virtual to its physical page
          PROTS,      \* permissions asked for, besides VM_PROT_V
          None

(* Tables setup_earlyvm needs to map the pages from va to end.             *)
EarlyTables(va, end) ==
    1 + (end \div (PTE_NUMS * PTE_NUMS) - va \div (PTE_NUMS * PTE_NUMS) + 1)
      + (end \div PTE_NUMS - va \div PTE_NUMS + 1)

(* The board: the parts of the kernel follow each other, all of memory     *)
(* fits into the address space above KERNEL_OFFSET, and the memory behind  *)
(* the kernel has room for the tables that map it.                         *)
ASSUME LayoutAssumption ==
    /\ KERNEL_OFFSET \in Nat
    /\ \A l \in LAYOUTS :
         /\ {l.start, l.line, l.end, l.top} \subseteq Nat
         /\ l.start < l.line /\ l.line < l.end /\ l.end < l.top
         /\ KERNEL_OFFSET + (l.top - l.start) - 1 \in VAS
         /\ EarlyTables(KERNEL_OFFSET, KERNEL_OFFSET + (l.top - l.start) - 1) <= l.top - l.end

(* Calls are for at least a page (a call for none returns at once), inside *)
(* the address space, and ask for valid entries: vm.c checks neither, and  *)
(* what it does without is in Vm, where prot says whether PROT_V is set.   *)
ASSUME CallAssumption ==
    /\ LEFT \subseteq Nat
    /\ OFFSETS \subseteq Nat
    /\ PROTS \subseteq SUBSET VM_PROTS
    /\ None \notin Nat
    /\ \A r \in RANGES : /\ r[1] \in VAS /\ r[2] \in Nat \ {0}
                         /\ r[1] + r[2] - 1 \in VAS

VARIABLES kern,    \* the table is the kernel's
          frames,  \* pages that hold tables or are with the page allocator
          ret,     \* the result of the walk that is being undone
          call     \* the last call and its result

vars == <<lay, root, mem, avail, pa_st_free, pc, req, cnt, left, lvl, tab, idx, cur,
          fresh, panic, kern, frames, ret, call>>

fixed == <<lay, root, pa_st_free, fresh, kern, frames>>

-----------------------------------------------------------------------------
(* A call starts: the loop of the root.                                    *)
Start(op, va, n, pa, prot) ==
    /\ pc = "idle"
    /\ pc' = op
    /\ req' = [op |-> op, va |-> va, n |-> n, pa |-> pa, prot |-> prot]
    /\ cnt' = n
    /\ left' = n
    /\ lvl' = 0
    /\ idx' = [idx EXCEPT ![0] = SV39_Index2Id(va, 0)]
    /\ ret' = "OK"
    /\ UNCHANGED <<mem, avail, tab, cur, panic, call>>

(* A call returns r.                                                       *)
Return(r) ==
    /\ pc' = "idle"
    /\ call' = [op |-> req.op, va |-> req.va, n |-> req.n, ret |-> r]

-----------------------------------------------------------------------------
(* __arch_hw_mmap *)

(* Seeded fault: a failed walk leaves what it has mapped.                  *)
MapFailNoUndo(r) ==
    /\ Return(r)
    /\ UNCHANGED <<ret, cnt, left, lvl, idx>>

(* A walk fails with r: __arch_hw_mmap unmaps what it has mapped and       *)
(* returns r; the tables it has added stay.                                *)
MapFail(r) ==
    IF left = cnt
    THEN Return(r) /\ UNCHANGED <<ret, cnt, left, lvl, idx>>
    ELSE /\ pc' = "undo"
         /\ ret' = r
         /\ cnt' = cnt - left
         /\ left' = cnt - left
         /\ lvl' = 0
         /\ idx' = [idx EXCEPT ![0] = SV39_Index2Id(req.va, 0)]
         /\ UNCHANGED call

(* vm_walkthrough at the last level: an entry is written...                *)
MapPage ==
    /\ lvl = 2 /\ idx[2] < PTE_NUMS
    /\ ~Pte.v
    /\ SetPte(SV39_Pa2PTE(AtPa, req.prot))
    /\ left' = left - 1
    /\ idx' = [idx EXCEPT ![2] = @ + 1]
    /\ IF left = 1 THEN Return("OK") ELSE UNCHANGED <<pc, call>>
    /\ UNCHANGED <<avail, ret, cnt, lvl, tab, cur, panic>>

(* ... or found.                                                           *)
MapExists ==
    /\ lvl = 2 /\ idx[2] < PTE_NUMS
    /\ Pte.v
    /\ MapFail("EEXIST")
    /\ UNCHANGED <<mem, avail, tab, cur, panic>>

(* Above the last level: the walk goes on in the next table...             *)
MapEnter ==
    /\ lvl < 2 /\ idx[lvl] < PTE_NUMS
    /\ Pte.v
    /\ IF PTE_NEXTPGT(Pte)
       THEN /\ Enter(Pte.ppn, SV39_Index2Id(AtVa, lvl + 1))
            /\ UNCHANGED <<pc, call, ret, cnt, left>>
       ELSE MapFail("EFAULT") /\ UNCHANGED <<tab, cur>>
    /\ UNCHANGED <<mem, avail, panic>>

(* ... or in some page of bk_alloc_zero(0), cleared...                     *)
MapGrow(f) ==
    /\ lvl < 2 /\ idx[lvl] < PTE_NUMS
    /\ ~Pte.v
    /\ avail' = avail \ {f}
    /\ mem' = [mem EXCEPT ![f] = ZeroTable,
                          ![tab[lvl]] = [@ EXCEPT ![idx[lvl]] = SV39_Pa2PTE(f, {})]]
    /\ Enter(f, SV39_Index2Id(AtVa, lvl + 1))
    /\ UNCHANGED <<pc, call, ret, cnt, left, panic>>

(* ... unless there is none.                                               *)
MapNoMem ==
    /\ lvl < 2 /\ idx[lvl] < PTE_NUMS
    /\ ~Pte.v
    /\ avail = {}
    /\ MapFail("ENOMEM")
    /\ UNCHANGED <<mem, avail, tab, cur, panic>>

(* The table ends before the range: 0 is returned.                         *)
MapLeave ==
    /\ idx[lvl] = PTE_NUMS
    /\ IF lvl = 0 THEN Return("OK") /\ UNCHANGED walk
       ELSE Leave /\ UNCHANGED <<pc, call>>
    /\ UNCHANGED <<mem, avail, ret, cnt, left, panic>>

vm_walkthrough ==
    /\ pc = "mmap"
    /\ \/ MapPage \/ MapExists \/ MapEnter \/ MapNoMem \/ MapLeave
       \/ \E f \in avail : MapGrow(f)
    /\ UNCHANGED <<fixed, req>>

-----------------------------------------------------------------------------
(* __arch_hw_unmap *)

(* Seeded fault: the entry keeps pointing to the page given back.          *)
GiveBackKeepsEntry ==
    /\ avail' = avail \cup {tab[lvl]}
    /\ UNCHANGED mem

(* Seeded fault: tables are never given back.                              *)
GiveBackNever == UNCHANGED <<mem, avail>>

(* The table of level lvl goes to the allocator.  Nobody reads it there;   *)
(* what it holds is forgotten at once.                                     *)
GiveBack ==
    /\ avail' = avail \cup {tab[lvl]}
    /\ mem' = [mem EXCEPT ![tab[lvl]] = ZeroTable,
                          ![tab[lvl - 1]] = [@ EXCEPT ![idx[lvl - 1]] = ZeroPte]]

(* riscv_unmap at the last level.                                          *)
UnmapPage ==
    /\ lvl = 2 /\ idx[2] < PTE_NUMS /\ left > 0
    /\ SetPte(ZeroPte)
    /\ left' = left - 1
    /\ idx' = [idx EXCEPT ![2] = @ + 1]
    /\ UNCHANGED <<avail, lvl, tab, cur, pc, call, panic>>

(* Above the last level: an entry without a table is skipped at its full   *)
(* width.                                                                  *)
UnmapEnter ==
    /\ lvl < 2 /\ idx[lvl] < PTE_NUMS /\ left > 0
    /\ IF PTE_NEXTPGT(Pte)
       THEN Enter(Pte.ppn, SV39_Index2Id(AtVa, lvl + 1)) /\ UNCHANGED left
       ELSE /\ left' = IF left > SV39_INDEX_PAGES(lvl) THEN left - SV39_INDEX_PAGES(lvl) ELSE 0
            /\ idx' = [idx EXCEPT ![lvl] = @ + 1]
            /\ UNCHANGED <<lvl, tab, cur>>
    /\ UNCHANGED <<mem, avail, pc, call, panic>>

(* A table that ends, or the range does: the level above gives the table   *)
(* back when the call has removed as many pages as it can hold.            *)
UnmapLeave ==
    /\ lvl > 0
    /\ idx[lvl] = PTE_NUMS \/ left = 0
    /\ IF cur[lvl - 1] - left = SV39_INDEX_PAGES(lvl - 1)
       THEN GiveBack ELSE UNCHANGED <<mem, avail>>
    /\ Leave
    /\ UNCHANGED <<left, pc, call, panic>>

(* The ASSERT that the whole range was walked.  The undo of a mapping      *)
(* returns the error of its walk.                                          *)
UnmapEnd ==
    /\ lvl = 0
    /\ idx[0] = PTE_NUMS \/ left = 0
    /\ Return(ret)
    /\ panic' = (left # 0)
    /\ UNCHANGED <<mem, avail, left, walk>>

riscv_unmap ==
    /\ pc \in {"unmap", "undo"}
    /\ UnmapPage \/ UnmapEnter \/ UnmapLeave \/ UnmapEnd
    /\ UNCHANGED <<fixed, req, ret, cnt>>

-----------------------------------------------------------------------------
(* __arch_hw_unmap_all: every table below the root goes back, and all      *)
(* entries are cleared.                                                    *)
FreePage ==
    /\ lvl = 2 /\ idx[2] < PTE_NUMS
    /\ SetPte(ZeroPte)
    /\ idx' = [idx EXCEPT ![2] = @ + 1]
    /\ UNCHANGED <<avail, lvl, tab, cur, pc, call, panic>>

FreeEnter ==
    /\ lvl < 2 /\ idx[lvl] < PTE_NUMS
    /\ PTE_NEXTPGT(Pte)
    /\ Enter(Pte.ppn, 0)
    /\ UNCHANGED <<mem, avail, pc, call, panic>>

(* The ASSERT that only the last level holds leaves.                       *)
FreeSkip ==
    /\ lvl < 2 /\ idx[lvl] < PTE_NUMS
    /\ ~PTE_NEXTPGT(Pte)
    /\ panic' = Pte.v
    /\ idx' = [idx EXCEPT ![lvl] = @ + 1]
    /\ UNCHANGED <<mem, avail, lvl, tab, cur, pc, call>>

FreeLeave ==
    /\ lvl > 0
    /\ idx[lvl] = PTE_NUMS
    /\ GiveBack
    /\ Leave
    /\ UNCHANGED <<pc, call, panic>>

FreeEnd ==
    /\ lvl = 0
    /\ idx[0] = PTE_NUMS
    /\ Return("OK")
    /\ UNCHANGED <<mem, avail, walk, panic>>

riscv_free_pgtable ==
    /\ pc = "unmap_all"
    /\ FreePage \/ FreeEnter \/ FreeSkip \/ FreeLeave \/ FreeEnd
    /\ UNCHANGED <<fixed, req, ret, cnt, left>>

-----------------------------------------------------------------------------
(* The table of the kernel, which setup_earlyvm builds; or that of a new   *)
(* space, an empty page.                                                   *)
Init ==
    /\ call = [op |-> "none", va |-> 0, n |-> 0, ret |-> "OK"]
    /\ ret = "OK"
    /\ \E l \in LAYOUTS :
         \/ /\ EarlyInit(l)
            /\ kern = TRUE
            /\ frames = l.end..(l.top - 1)
         \/ \E k \in LEFT :
            /\ kern = FALSE
            /\ lay = l
            /\ root = l.end
            /\ pa_st_free = l.end + 1
            /\ frames = l.end..(l.end + k)
            /\ avail = frames \ {root}
            /\ mem = [p \in frames |-> ZeroTable]
            /\ pc = "idle"
            /\ req = [op |-> "none", va |-> 0, n |-> 0, pa |-> 0, prot |-> {}]
            /\ cnt = 0
            /\ left = 0
            /\ lvl = 0
            /\ tab = [i \in 0..2 |-> root]
            /\ idx = [i \in 0..2 |-> 0]
            /\ cur = [i \in 0..2 |-> 0]
            /\ fresh = FALSE
            /\ panic = FALSE

(* What the hardware sees.                                                 *)
Translate(va) ==
    LET pte == Walk(mem, root, va) IN IF pte.v THEN pte.ppn ELSE None

(* The virtual pages setup_earlyvm has mapped.                             *)
KernelVas == KERNEL_OFFSET..(IF pc = "early" THEN AtVa - 1
                             ELSE KERNEL_OFFSET + (lay.top - lay.start) - 1)

Mmap(va, n, pa) ==
    /\ \E prot \in PROTS : Start("mmap", va, n, pa, prot)
    /\ UNCHANGED fixed

(* vm.c unmaps what it has mapped.                                         *)
Unmap(va, n) ==
    /\ \A v \in va..(va + n - 1) : Walk(mem, root, v).v /\ ~(kern /\ v \in KernelVas)
    /\ Start("unmap", va, n, 0, {})
    /\ UNCHANGED fixed

(* vma_free is refused for the kernel.                                     *)
UnmapAll ==
    /\ ~kern
    /\ Start("unmap_all", 0, 0, 0, {})
    /\ UNCHANGED fixed

Next ==
    /\ ~panic
    /\ \/ setup_earlyvm /\ UNCHANGED <<kern, frames, ret, call>>
       \/ \E r \in RANGES, off \in OFFSETS : Mmap(r[1], r[2], r[1] + off)
       \/ \E r \in RANGES : Unmap(r[1], r[2])
       \/ UnmapAll
       \/ vm_walkthrough
       \/ riscv_unmap
       \/ riscv_free_pgtable

Spec == Init /\ [][Next]_vars

-----------------------------------------------------------------------------
(* The mapping as a caller knows it: pages of a mapping in progress do not *)
(* count yet, pages that are being unmapped no longer do, and the kernel   *)
(* is mapped when it first looks.                                          *)
MapSeen(va) ==
    CASE pc = "early" ->
           IF va \in req.va..(req.va + cnt - 1) THEN req.pa + (va - req.va) ELSE None
      [] pc = "mmap" /\ va \in req.va..(AtVa - 1) -> None
      [] pc \in {"undo", "unmap"} /\ va \in req.va..(req.va + cnt - 1) -> None
      [] pc = "unmap_all" -> None
      [] OTHER -> Translate(va)

CallSeen ==
    IF pc \in {"unmap", "unmap_all"}
    THEN [op |-> pc, va |-> req.va, n |-> req.n, ret |-> "OK"] ELSE call

(* The physical pages a mapping may start at.                              *)
PAS == {va + off : va \in VAS, off \in OFFSETS}

Abstract == INSTANCE HwMap WITH map <- [va \in VAS |-> MapSeen(va)], call <- CallSeen

-----------------------------------------------------------------------------
(* Properties                                                              *)

(* The tables a table points to.                                           *)
Below(f) == {mem[f][i].ppn : i \in {j \in Slots : PTE_NEXTPGT(mem[f][j])}}

Level1 == Below(root)
Level2 == UNION {Below(f) : f \in Level1}

(* The tables form a tree in the pages taken from the allocator: at every  *)
(* step of a mapping, its undo, a partial unmap or a free, each page that  *)
(* is not with the allocator is a table pointed to by exactly one entry,   *)
(* so no table is freed while in use, freed twice, or lost.  Nor does an   *)
(* ASSERT fail: those of setup_earlyvm on its results, of __arch_hw_unmap  *)
(* that the whole range was walked, and of riscv_free_pgtable that only    *)
(* the last level holds leaves.                                            *)
TablesAreATree ==
    LET pointers == {p \in ({root} \cup Level1) \X Slots : PTE_NEXTPGT(mem[p[1]][p[2]])}
    IN  /\ ~panic
        /\ Level1 \cup Level2 = frames \ (avail \cup {root})
        /\ \A p, q \in pointers : mem[p[1]][p[2]].ppn = mem[q[1]][q[2]].ppn => p = q
        /\ Level1 \cap Level2 = {}

(* When hw_unmap returns, the table of each level that can map nothing     *)
(* outside its range has been given back, wherever the range begins and    *)
(* also when it was mapped by several calls, so that page tables do not    *)
(* pile up behind large areas (line 107 of vm.c).                          *)
FullRangeFreed ==
    [][ (pc = "unmap" /\ pc' = "idle") =>
          \A base \in VAS :
            LET p0     == mem'[root][SV39_Index2Id(base, 0)]
                In(n)  == base % n = 0 /\ req.va <= base /\ base + n <= req.va + req.n
            IN  /\ In(PTE_NUMS) => ~p0.v \/ ~mem'[p0.ppn][SV39_Index2Id(base, 1)].v
                /\ In(PTE_NUMS * PTE_NUMS) => ~p0.v ]_vars

(* The detailed tables implement the abstract mapping: what the hardware   *)
(* translates between the calls changes as a whole or not at all, -EEXIST  *)
(* and -ENOMEM leave every translation as it was, an unmap removes its     *)
(* range only; and while a call runs every other page is translated as     *)
(* before.                                                                 *)
ImplementsHwMap == Abstract!Spec

(* Whatever is mapped and unmapped around it, and whichever calls fail,    *)
(* the table of the kernel translates every page of memory from the start  *)
(* of the kernel on to itself at every step, executable below the separate *)
(* line, writable above it and never both: the walks of the early and of   *)
(* the later code agree on where entries are.                              *)
KernelMapStays ==
    kern =>
        \A va \in KernelVas :
            LET pa == va - KERNEL_OFFSET + lay.start
            IN  Walk(mem, root, va) = SV39_Pa2PTE(pa, IF pa < lay.line THEN TEXT ELSE DATA)
=============================================================================
