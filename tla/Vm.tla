--------------------------------- MODULE Vm ---------------------------------
(***************************************************************************)
(* Address spaces (module/mm/vm): a vma_t holds areas in a list and in a   *)
(* tree, a hardware page table and a readers-writer lock.  CPUs map,       *)
(* unmap, duplicate and free address spaces concurrently; they compete     *)
(* for page frames and for the objects of the two caches.                  *)
(*                                                                         *)
(* A step is the code from one lock to the next.  The allocators are what  *)
(* Buddy and Slab show them to be, the page table is that of HwMap with    *)
(* one table for each REGION pages.  Addresses are page numbers.  The      *)
(* areas have the address the caller asks for, whatever it is; the page    *)
(* table has VPNS pages and looks at an address modulo VPNS.               *)
(***************************************************************************)
EXTENDS Integers, Sequences, FiniteSets

CONSTANTS CPUS, KVMA, USERS,   \* CPUs; kern_vma; the other objects of vma_cache
          AREA_NUM,            \* objects of vma_area_cache
          FRAME_NUM,           \* pages of the buddy allocator
          HEADS,               \* page frames that may head a block
          VPNS, REGION,        \* pages of a page table (2^27), and of one of its tables
          KERNEL_VA,           \* the two pages of the kernel: text and data
          IOPAGES,             \* physical pages of devices
          ORDER2PGNUM,         \* pages of a block of each order
          MMAPS, IOMAPS,       \* bounds: <<va, order, prot>> and <<va, pages, prot>> of the calls
          None

ORDERS == DOMAIN ORDER2PGNUM

ASSUME VmAssumption ==
    /\ KVMA \notin USERS /\ IsFiniteSet(USERS) /\ IsFiniteSet(CPUS) /\ IsFiniteSet(HEADS)
    /\ REGION \in Nat \ {0} /\ VPNS \in Nat \ {0} /\ AREA_NUM \in Nat
    /\ KERNEL_VA \in 0..(VPNS - 2)
    /\ FRAME_NUM \in Nat /\ Cardinality(HEADS) >= FRAME_NUM
    /\ (IOPAGES \cup {KERNEL_VA, KERNEL_VA + 1}) \cap HEADS = {}
    /\ \A o \in ORDERS : ORDER2PGNUM[o] \in Nat \ {0}
    /\ \A v \in MMAPS : v[1] \in Int /\ v[2] \in ORDERS
    /\ \A v \in IOMAPS : v[1] \in Int /\ v[2] \in Nat \ {0}
    /\ None \notin CPUS \cup HEADS

VARIABLES
    free,     \* pages of the buddy allocator that are free
    pf,       \* [HEADS -> record]  pgtype, ref_count and buddy_order of a block
    areas,    \* objects of vma_area_cache in use
    st,       \* [space -> {"free", "new", "live"}]  "new": private to one call
    root,     \* [space -> BOOLEAN]  hw_pgtable and kernel_vma are set
    list,     \* [space -> sequence of areas]  l_list
    tree,     \* [space -> set of areas]       a_root
    tabs, hw, \* regions with a table; [mapped page -> entry], for each space
    writer, readers, \* who is inside the lock rwlk of each space
    pc, l,    \* where each CPU is, and the variables of its call
    panic     \* an ASSERT has failed

spaceVars == <<st, root>>
areaVars == <<list, tree>>
hwVars   == <<tabs, hw>>
lockVars == <<writer, readers>>
vars     == <<free, pf, areas, spaceVars, areaVars, hwVars, lockVars, pc, l, panic>>

SPACES == {KVMA} \cup USERS
Pages(va, n) == va..(va + n - 1)

(* SV39_Index2Id keeps the low bits of an address; vm_walkthrough and      *)
(* riscv_unmap stop at the end of the root table.                          *)
Vpn(va)     == va % VPNS
Vpns(va, n) == Pages(Vpn(va), n) \cap 0..(VPNS - 1)

Frame(typ, ref, order) == [typ |-> typ, ref |-> ref, order |-> order]
NoFrame == Frame("BUDDY", 0, 0)

Listed(s) == {s[i] : i \in 1..Len(s)}

-----------------------------------------------------------------------------
(* The page allocator: pages are counted; only the frames at the head of a *)
(* block of a memory area have an identity.                                *)
BkpAlloc(order) ==
    LET heads == {h \in HEADS : pf[h].typ = "BUDDY"}
    IN  IF free < ORDER2PGNUM[order] \/ heads = {} THEN None ELSE CHOOSE h \in heads : TRUE

(* The entry of a block that becomes a memory area's (lines 246-253).      *)
AllocBlock(f, order) == [pf EXCEPT ![f] = Frame("VMA_AREA", 0, order)]

(* The entry of a block that goes back.                                    *)
BkpFree(p, f) == [p EXCEPT ![f] = NoFrame]

(* PGNUM2ORDER                                                             *)
Pgnum2Order(n) == CHOOSE o \in ORDERS : ORDER2PGNUM[o] = n

-----------------------------------------------------------------------------
(* Areas                                                                   *)
Area(typ, va, n, pa, prot, pgfm) ==
    [typ |-> typ, va |-> va, n |-> n, pa |-> pa, prot |-> prot, pgfm |-> pgfm]

(* Seeded fault: the area always goes to the head of the list.             *)
HangAtHead(s, a) ==
    tree' = [tree EXCEPT ![s] = @ \cup {a}] /\ list' = [list EXCEPT ![s] = <<a>> \o @]

(* Where the area goes in the list: behind its predecessor in the tree.    *)
Place(q, t, a) ==
    LET bef == {b \in t : b.va < a.va}
        prev == CHOOSE b \in bef : \A x \in bef : x.va <= b.va
    IN  IF bef = {} THEN 1 ELSE 1 + CHOOSE i \in 1..Len(q) : q[i] = prev

ListAdd(q, at, a) ==
    [i \in 1..(Len(q) + 1) |-> IF i < at THEN q[i] ELSE IF i = at THEN a ELSE q[i - 1]]

(* vma_area_hang of an area the tree has not refused.                      *)
vma_area_hang(s, a) ==
    /\ tree' = [tree EXCEPT ![s] = @ \cup {a}]
    /\ list' = [list EXCEPT ![s] = ListAdd(@, Place(@, tree[s], a), a)]

(* list_del of an area on the list.                                        *)
ListDel(q, a) ==
    LET at == CHOOSE i \in 1..Len(q) : q[i] = a
    IN  [i \in 1..(Len(q) - 1) |-> IF i < at THEN q[i] ELSE q[i + 1]]

vma_area_unhang(s, a) ==
    /\ tree' = [tree EXCEPT ![s] = @ \ {a}]
    /\ list' = [list EXCEPT ![s] = ListDel(@, a)]

(* insert_compare_vmarea gives 0.                                          *)
Overlap(x, y) == x.va < y.va + y.n /\ y.va < x.va + x.n

(* The frame table entry a memory area must find (lines 37 and 117).       *)
FrameOK(p, a) == p[a.pa].typ = "VMA_AREA" /\ ORDER2PGNUM[p[a.pa].order] = a.n

-----------------------------------------------------------------------------
(* The entry of page v of the page table, and the pages an area has valid  *)
(* entries for: a permission without PROT_V leaves invalid ones.           *)
Pte(a, v) == [pa |-> a.pa, off |-> v - Vpn(a.va), prot |-> a.prot]
Valid(a)   == "V" \in a.prot
Entries(a) == IF Valid(a) THEN Vpns(a.va, a.n) ELSE {}

(* Mapping an area with n free pages.  The page table adds tables for the  *)
(* regions that have none, in order, as far as there are pages, and goes   *)
(* no further than the first valid entry or missing table.  A call that    *)
(* fails unmaps what it has mapped; with it go the tables of which that is *)
(* everything, and the others stay.                                        *)
Need(s, a) == {v \div REGION : v \in Vpns(a.va, a.n)} \ tabs[s]
Get(s, a, n) == {r \in Need(s, a) : Cardinality({q \in Need(s, a) : q < r}) < n}
Reached(s, a, n) == {v \in Vpns(a.va, a.n) : \A r \in Need(s, a) \ Get(s, a, n) : v \div REGION < r}

HwMmap(s, a, n) ==
    IF Reached(s, a, n) \cap DOMAIN hw[s] # {} THEN "EEXIST"
    ELSE IF Get(s, a, n) # Need(s, a) THEN "ENOMEM" ELSE "OK"

(* The tables of which a call on these pages removes everything.           *)
Whole(ts, ps) == {r \in ts : Pages(r * REGION, REGION) \subseteq ps}

(* What __vm_mmap returns, and the tables the space has after it (-EEXIST  *)
(* of the page table ends in an ASSERT: what it leaves does not matter).   *)
Refused(s, a) == \E b \in tree[s] : Overlap(a, b)
MmapRet(s, a, n) == IF Refused(s, a) THEN "EEXIST" ELSE HwMmap(s, a, n)
MmapTabs(s, a, n) ==
    LET lack == Need(s, a) \ Get(s, a, n)
        has  == tabs[s] \cup Get(s, a, n)
    IN  IF MmapRet(s, a, n) = "EEXIST" THEN tabs[s]
        ELSE IF lack = {} THEN has ELSE has \ Whole(has, Reached(s, a, n))

(* The ASSERTs of the callbacks, with the frame table p.                   *)
MmapOK(s, a, n, p) ==
    ~Refused(s, a) => /\ HwMmap(s, a, n) # "EEXIST"
                      /\ HwMmap(s, a, n) = "OK" /\ a.typ = "MEMORY" => FrameOK(p, a)

(* The callback of a type of area counts the reference of a memory area,   *)
(* and notes its frame.                                                    *)
Referred(p, a) ==
    IF a.typ # "MEMORY" THEN p
    ELSE [p EXCEPT ![a.pa] = Frame(@.typ, @.ref + 1, @.order)]
Mapped(a) == IF a.typ # "MEMORY" THEN a ELSE Area(a.typ, a.va, a.n, a.pa, a.prot, a.pa)

(* __vm_mmap from w_lock_br to w_unlock_br (lines 65-83): hang the area    *)
(* and map it.                                                             *)
__vm_mmap(s, a, n) ==
    /\ tabs' = [tabs EXCEPT ![s] = MmapTabs(s, a, n)]
    /\ IF MmapRet(s, a, n) = "OK"
       THEN /\ hw' = [hw EXCEPT ![s] = [v \in DOMAIN hw[s] \cup Entries(a) |->
                                          IF v \in Entries(a) THEN Pte(a, v) ELSE hw[s][v]]]
            /\ vma_area_hang(s, Mapped(a))
       ELSE UNCHANGED <<hw, areaVars>>

(* The free pages after it.                                                *)
MmapFree(s, a, n) == n + Cardinality(tabs[s]) - Cardinality(MmapTabs(s, a, n))

(* Seeded fault: the area object of a failed mapping is not given back.    *)
ObjectsKept(n, ret) == n

(* When the mapping fails the object goes back; n are in use during it.    *)
ObjectsAfter(n, ret) == IF ret = "OK" THEN n ELSE n - 1

-----------------------------------------------------------------------------
(* Unmapping                                                               *)

(* Seeded fault: the frame is freed whoever else uses it.                  *)
UnmapMemoryAlwaysFrees(a) == pf' = BkpFree(pf, a.pa) /\ free' = free + a.n

(* unmmap_memory_cb up to line 129: the last reference frees the block,    *)
(* which is still mapped.                                                  *)
unmmap_memory_cb(a) ==
    LET ref == pf[a.pa].ref - 1
    IN  IF ref = 0
        THEN pf' = BkpFree(pf, a.pa) /\ free' = free + a.n
        ELSE pf' = [pf EXCEPT ![a.pa] = Frame(@.typ, ref, @.order)] /\ free' = free

(* The ASSERTs of the unmap callbacks.                                     *)
UnmapOK(a) == a.typ = "MEMORY" => a.pgfm # None /\ FrameOK(pf, a)

(* An area leaves space s; a memory area loses its reference.              *)
UnmapArea(s, a) ==
    /\ vma_area_unhang(s, a)
    /\ IF a.typ = "MEMORY" THEN unmmap_memory_cb(a) ELSE UNCHANGED <<free, pf>>

HwUnmap(s, x) ==
    /\ hw' = [hw EXCEPT ![s] = [v \in DOMAIN hw[s] \ Vpns(x.va, x.n) |-> hw[s][v]]]
    /\ tabs' = [tabs EXCEPT ![s] = @ \ Whole(@, Vpns(x.va, x.n))]
    /\ free' = free + Cardinality(Whole(tabs[s], Vpns(x.va, x.n)))

(* Its ASSERT: the walk has come to the end of the range.                  *)
HwUnmapOK(x) == Vpn(x.va) + x.n <= VPNS

HwUnmapAll(s) ==
    /\ hw' = [hw EXCEPT ![s] = <<>>]
    /\ tabs' = [tabs EXCEPT ![s] = {}]
    /\ free' = free + Cardinality(tabs[s])

-----------------------------------------------------------------------------
(* vm_module_init on success: the kernel's space with its two areas, in    *)
(* the page table that is on.                                              *)
TEXT == Area("KERNEL", KERNEL_VA, 1, KERNEL_VA, {"V", "R", "X"}, None)
DATA == Area("KERNEL", KERNEL_VA + 1, 1, KERNEL_VA + 1, {"V", "R", "W"}, None)

Init ==
    /\ free = FRAME_NUM /\ pf = [h \in HEADS |-> NoFrame]
    /\ areas = 2
    /\ st = [s \in SPACES |-> IF s = KVMA THEN "live" ELSE "free"]
    /\ root = [s \in SPACES |-> s = KVMA]
    /\ list = [s \in SPACES |-> IF s = KVMA THEN <<TEXT, DATA>> ELSE <<>>]
    /\ tree = [s \in SPACES |-> IF s = KVMA THEN {TEXT, DATA} ELSE {}]
    /\ tabs = [s \in SPACES |-> IF s = KVMA THEN {v \div REGION : v \in Pages(KERNEL_VA, 2)} ELSE {}]
    /\ hw = [s \in SPACES |->
               IF s = KVMA THEN [v \in Pages(KERNEL_VA, 2) |-> Pte(IF v = KERNEL_VA THEN TEXT ELSE DATA, v)]
               ELSE <<>>]
    /\ writer = [s \in SPACES |-> None] /\ readers = [s \in SPACES |-> {}]
    /\ pc = [c \in CPUS |-> "idle"]
    /\ l = [c \in CPUS |-> None]
    /\ panic = FALSE

Live == {s \in SPACES : st[s] = "live"}
WFree(s) == writer[s] = None /\ readers[s] = {}

(* CPU c goes on at p with locals x; ok says whether the ASSERTs held.     *)
Goto(c, p, x, ok) ==
    /\ pc' = [pc EXCEPT ![c] = p]
    /\ l' = [l EXCEPT ![c] = x]
    /\ panic' = ~ok

(* The space, the source and position of a copy, the block and the area.   *)
Local(s, src, i, blk, x) == [s |-> s, src |-> src, i |-> i, blk |-> blk, x |-> x]

(* vm_mmap: returns -ENOMEM, and changes nothing, when there is no block.  *)
VmMmap(c) ==
    /\ pc[c] = "idle"
    /\ \E s \in Live, v \in MMAPS :
         LET f == BkpAlloc(v[2])
             n == ORDER2PGNUM[v[2]]
         IN  /\ f # None
             /\ pf' = AllocBlock(f, v[2]) /\ free' = free - n
             /\ Goto(c, "area", Local(s, None, 0, f, Area("MEMORY", v[1], n, f, v[3], None)),
                     pf[f].typ = "BUDDY")
    /\ UNCHANGED <<areas, spaceVars, areaVars, hwVars, lockVars>>

(* vm_iomap: pages of devices at addresses outside the kernel's.           *)
VmIomap(c) ==
    /\ pc[c] = "idle"
    /\ \E s \in Live, v \in IOMAPS, pa \in IOPAGES :
         /\ Pages(v[1], v[2]) \cap Pages(KERNEL_VA, 2) = {}
         /\ Goto(c, "area", Local(s, None, 0, None, Area("IO", v[1], v[2], pa, v[3], None)), TRUE)
    /\ UNCHANGED <<free, pf, areas, spaceVars, areaVars, hwVars, lockVars>>

(* __vm_mmap: the area object, before the lock.  -ENOBUFS without one.     *)
VmMmapArea(c) ==
    /\ pc[c] = "area"
    /\ IF areas # AREA_NUM
       THEN areas' = areas + 1 /\ Goto(c, "hang", l[c], TRUE)
       ELSE /\ UNCHANGED areas
            /\ IF l[c].blk = None THEN Goto(c, "idle", None, TRUE) ELSE Goto(c, "undo", l[c], TRUE)
    /\ UNCHANGED <<free, pf, spaceVars, areaVars, hwVars, lockVars>>

(* Under the writer's lock.                                                *)
VmMmapHang(c) ==
    LET s   == l[c].s
        a   == l[c].x
        ret == MmapRet(s, a, free)
        ok  == MmapOK(s, a, free, pf)
    IN  /\ pc[c] = "hang" /\ WFree(s)
        /\ __vm_mmap(s, a, free)
        /\ free' = MmapFree(s, a, free)
        /\ pf' = IF ret = "OK" THEN Referred(pf, a) ELSE pf
        /\ areas' = ObjectsAfter(areas, ret)
        /\ IF ret # "OK" /\ l[c].blk # None THEN Goto(c, "undo", l[c], ok)
           ELSE Goto(c, "idle", None, ok)
        /\ UNCHANGED <<spaceVars, lockVars>>

(* vm_mmap gives the block of a failed mapping back (lines 257-261).       *)
VmMmapUndo(c) ==
    LET f == l[c].blk
    IN  /\ pc[c] = "undo"
        /\ pf' = BkpFree(pf, f) /\ free' = free + ORDER2PGNUM[pf[f].order]
        /\ Goto(c, "idle", None, TRUE)
        /\ UNCHANGED <<areas, spaceVars, areaVars, hwVars, lockVars>>

(* Seeded fault: the lock is dropped before the hardware mapping is gone.  *)
VmUnmapNoLock(c) ==
    /\ pc[c] = "idle"
    /\ \E s \in Live : \E a \in {b \in tree[s] : b.typ # "KERNEL"} :
         /\ WFree(s)
         /\ UnmapArea(s, a)
         /\ Goto(c, "unmap", Local(s, None, 0, None, a), UnmapOK(a))
    /\ UNCHANGED <<areas, spaceVars, hwVars, lockVars>>

(* vm_unmap and vm_iounmap: the area with exactly these bounds and of this *)
(* type leaves the list; the writer's lock stays taken.                    *)
VmUnmap(c) ==
    /\ pc[c] = "idle"
    /\ \E s \in Live, typ \in {"MEMORY", "IO"} :
         /\ WFree(s)
         /\ \E a \in {b \in tree[s] : b.typ = typ} :
              /\ UnmapArea(s, a)
              /\ writer' = [writer EXCEPT ![s] = c]
              /\ Goto(c, "unmap", Local(s, None, 0, None, a), UnmapOK(a))
    /\ UNCHANGED <<areas, spaceVars, hwVars, readers>>

(* The hardware mapping goes, then the object (lines 130, 169).            *)
UnmapHw(c) ==
    LET s  == l[c].s
        ok == HwUnmapOK(l[c].x)
    IN  /\ pc[c] = "unmap"
        /\ HwUnmap(s, l[c].x)
        /\ areas' = areas - 1
        /\ IF s \in Live
           THEN writer' = [writer EXCEPT ![s] = None] /\ Goto(c, "idle", None, ok)
           ELSE UNCHANGED writer /\ Goto(c, "free", Local(s, None, 0, None, None), ok)
        /\ UNCHANGED <<pf, spaceVars, areaVars, readers>>

(* vma_dup: an object of vma_cache; its ASSERT finds it cleared.           *)
VmaDup(c) ==
    /\ pc[c] = "idle"
    /\ \E src \in Live, s \in {u \in USERS : st[u] = "free"} :
         /\ st' = [st EXCEPT ![s] = "new"]
         /\ Goto(c, "root", Local(s, src, 1, None, None), ~root[s])
    /\ UNCHANGED <<free, pf, areas, root, areaVars, hwVars, lockVars>>

(* Seeded fault: the source is read without its lock.                      *)
VmaDupRootNoLock(c) ==
    /\ pc[c] = "root" /\ free > 0
    /\ free' = free - 1 /\ root' = [root EXCEPT ![l[c].s] = TRUE]
    /\ Goto(c, "dup", l[c], TRUE)
    /\ UNCHANGED <<pf, areas, st, areaVars, hwVars, lockVars>>

(* Its root table, and the reader's lock of the source.                    *)
VmaDupRoot(c) ==
    LET s   == l[c].s
        src == l[c].src
    IN  /\ pc[c] = "root"
        /\ IF free = 0
           THEN /\ st' = [st EXCEPT ![s] = "free"] /\ Goto(c, "idle", None, TRUE)
                /\ UNCHANGED <<free, root, readers>>
           ELSE /\ writer[src] = None
                /\ free' = free - 1 /\ root' = [root EXCEPT ![s] = TRUE]
                /\ readers' = [readers EXCEPT ![src] = @ \cup {c}]
                /\ Goto(c, "dup", l[c], TRUE)
                /\ UNCHANGED st
        /\ UNCHANGED <<pf, areas, areaVars, hwVars, writer>>

(* Seeded fault: writable memory is shared with the copy as well.          *)
SharesAll(x) == FALSE

(* Writable memory gets new blocks in the copy.                            *)
Copied(x) == x.typ = "MEMORY" /\ "W" \in x.prot

(* One area of the source: IO and kernel areas and read-only memory are    *)
(* mapped again, writable memory gets a new, cleared block.  Any failure   *)
(* leaves the loop and frees what was copied.                              *)
VmaDupArea(c) ==
    LET s     == l[c].s
        src   == l[c].src
        x     == list[src][l[c].i]
        order == Pgnum2Order(x.n)
        f     == IF Copied(x) THEN BkpAlloc(order) ELSE x.pa
        n     == IF Copied(x) THEN x.n ELSE 0
        p     == IF Copied(x) THEN AllocBlock(f, order) ELSE pf
        a     == Area(x.typ, x.va, x.n, f, x.prot, None)
        ret   == IF f = None \/ areas = AREA_NUM THEN "ENOBUFS" ELSE MmapRet(s, a, free - n)
        left  == IF ret = "ENOBUFS" THEN free - n ELSE MmapFree(s, a, free - n)
        ok    == ret = "ENOBUFS" \/ MmapOK(s, a, free - n, p)
    IN  /\ pc[c] = "dup" /\ l[c].i <= Len(list[src])
        /\ IF ret = "ENOBUFS" THEN UNCHANGED <<areas, areaVars, hwVars>>
           ELSE areas' = ObjectsAfter(areas + 1, ret) /\ __vm_mmap(s, a, free - n)
        /\ IF ret = "OK"
           THEN /\ pf' = Referred(p, a) /\ free' = left
                /\ Goto(c, "dup", Local(s, src, l[c].i + 1, None, None), ok)
                /\ UNCHANGED lockVars
           ELSE /\ pf' = IF Copied(x) /\ f # None THEN BkpFree(p, f) ELSE pf
                /\ free' = left + n
                /\ readers' = [readers EXCEPT ![src] = @ \ {c}]
                /\ writer' = [writer EXCEPT ![s] = c]
                /\ Goto(c, "free", Local(s, None, 0, None, None), ok)
        /\ UNCHANGED spaceVars

VmaDupReturn(c) ==
    LET src == l[c].src
    IN  /\ pc[c] = "dup" /\ l[c].i > Len(list[src])
        /\ st' = [st EXCEPT ![l[c].s] = "live"]
        /\ readers' = [readers EXCEPT ![src] = @ \ {c}]
        /\ Goto(c, "idle", None, TRUE)
        /\ UNCHANGED <<free, pf, areas, root, areaVars, hwVars, writer>>

(* vma_free: by the last user of the space; not for the kernel's.          *)
Unused(s) == \A c \in CPUS : pc[c] # "idle" => s \notin {l[c].s, l[c].src}

VmaFree(c) ==
    /\ pc[c] = "idle"
    /\ \E s \in Live \ {KVMA} :
         /\ Unused(s) /\ WFree(s)
         /\ st' = [st EXCEPT ![s] = "new"]
         /\ writer' = [writer EXCEPT ![s] = c]
         /\ Goto(c, "free", Local(s, None, 0, None, None), TRUE)
    /\ UNCHANGED <<free, pf, areas, root, areaVars, hwVars, readers>>

VmaFreeArea(c) ==
    LET s == l[c].s
        a == Head(list[s])
    IN  /\ pc[c] = "free" /\ list[s] # <<>>
        /\ UnmapArea(s, a)
        /\ Goto(c, "unmap", Local(s, None, 0, None, a), UnmapOK(a))
        /\ UNCHANGED <<areas, spaceVars, hwVars, lockVars>>

(* The tables below the root go back, the root itself does not; the object *)
(* is cleared (lines 201-204).                                             *)
VmaFreeEnd(c) ==
    LET s == l[c].s
    IN  /\ pc[c] = "free" /\ list[s] = <<>>
        /\ HwUnmapAll(s)
        /\ st' = [st EXCEPT ![s] = "free"] /\ root' = [root EXCEPT ![s] = FALSE]
        /\ writer' = [writer EXCEPT ![s] = None]
        /\ Goto(c, "idle", None, TRUE)
        /\ UNCHANGED <<pf, areas, areaVars, readers>>

Step(c) ==
    \/ VmMmapArea(c) \/ VmMmapHang(c) \/ VmMmapUndo(c) \/ UnmapHw(c)
    \/ VmaDupRoot(c) \/ VmaDupArea(c) \/ VmaDupReturn(c) \/ VmaFreeArea(c) \/ VmaFreeEnd(c)

Next ==
    /\ ~panic
    /\ \E c \in CPUS : VmMmap(c) \/ VmIomap(c) \/ VmUnmap(c) \/ VmaDup(c) \/ VmaFree(c) \/ Step(c)

Spec == Init /\ [][Next]_vars

(* vm_check: the list is sorted, its areas do not overlap, and the tree    *)
(* finds each of them.                                                     *)
vm_check(s) ==
    /\ root[s]
    /\ \A i \in 1..Len(list[s]) :
         LET x == list[s][i] IN
         /\ x.typ \in {"IO", "KERNEL"} => x.pgfm = None
         /\ Valid(x)
         /\ i > 1 => x.va >= list[s][i - 1].va + list[s][i - 1].n
         /\ {b \in tree[s] : b.va = x.va /\ b.n = x.n} = {x}

-----------------------------------------------------------------------------
(* Properties                                                              *)

Pairs(F) == UNION {{x} \X F[x] : x \in DOMAIN F}

(* The areas of all spaces; those that use the block at frame f; the       *)
(* blocks in the hands of a vm_mmap.                                       *)
AllAreas == Pairs(tree)
Sharers(f) == {x \in AllAreas : x[2].typ = "MEMORY" /\ x[2].pa = f}
InHand(c) == pc[c] \in {"area", "hang", "undo"} /\ l[c].blk # None
InFlight == {l[c].blk : c \in {d \in CPUS : InHand(d)}}

(* A frame of type VMA_AREA has as many references as areas use it, in all *)
(* address spaces together; without any it is in the hands of a vm_mmap.   *)
(* The objects of the area cache in use are those in the spaces and those  *)
(* in the hands of a call.                                                 *)
RefCountExact ==
    /\ \A f \in HEADS :
         IF pf[f].typ = "VMA_AREA"
         THEN pf[f].ref = Cardinality(Sharers(f)) /\ (pf[f].ref = 0 => f \in InFlight)
         ELSE Sharers(f) = {}
    /\ areas = Cardinality(AllAreas) + Cardinality({c \in CPUS : pc[c] \in {"hang", "unmap"}})

(* What the page table of a space maps is what its areas with PROT_V say,  *)
(* page for page, except under the writer's lock: there an unmap has freed *)
(* the block while it is still mapped, and no other hart may look (lines   *)
(* 121-130).  As VmCheckPasses, it is about callers that stay inside the   *)
(* page table (VmCalls): an address beyond it has the entry of another.    *)
HwMatchesAreas ==
    \A s \in SPACES : writer[s] = None =>
        LET shown == {a \in tree[s] : Valid(a)}
        IN  hw[s] = [v \in UNION {Pages(a.va, a.n) : a \in shown} |->
                       Pte(CHOOSE a \in shown : v \in Pages(a.va, a.n), v)]

(* Memory one space may write is mapped in no other: vma_dup copies the    *)
(* areas that can be written, and a freed block that is still mapped is    *)
(* behind the writer's lock.                                               *)
WritableNotShared ==
    \A s, t \in SPACES : s # t /\ writer[s] = None /\ writer[t] = None =>
        \A u \in DOMAIN hw[s], v \in DOMAIN hw[t] :
            hw[s][u].pa \in HEADS /\ "W" \in hw[s][u].prot => hw[s][u].pa # hw[t][v].pa

(* The pages that have a use: free, tables, blocks of memory areas.        *)
BlockPages == [f \in HEADS |-> IF pf[f].typ = "BUDDY" THEN {} ELSE 1..ORDER2PGNUM[pf[f].order]]
Blocks == Pairs(BlockPages)
Roots  == {s \in USERS : root[s]}
Tables == Pairs(tabs)
Accounted == free + Cardinality(Blocks) + Cardinality(Roots) + Cardinality(Tables)

(* No step loses or doubles a page but the end of vma_free, which loses    *)
(* the root table of the space it frees: failed mappings and half-made     *)
(* copies give everything else back.                                       *)
FramesConserved ==
    [][Accounted' = Accounted - Cardinality({s \in USERS : root[s] /\ ~root'[s]})]_vars

(* On a space in use that no writer is changing vm_check finds nothing but *)
(* an area mapped without PROT_V (440), which the caller must set          *)
(* (vm.h:244); its early returns (415, 418), which would keep the reader's *)
(* lock, are never taken.  Nor does an ASSERT fail: hw_mmap never finds a  *)
(* page of a new area mapped (16, 32), hw_unmap comes to the end of its    *)
(* range, the frame of a memory area has its type and order whenever it is *)
(* mapped and unmapped (37, 117, 247), and an object of vma_cache comes    *)
(* back cleared (290).  It holds for callers whose addresses are inside    *)
(* the page table (VmCalls).  Without that two areas that do not overlap   *)
(* in the tree may have the same entries, and the first two ASSERTs fail.  *)
VmCheckPasses ==
    /\ ~panic
    /\ \A s \in Live : writer[s] = None => (vm_check(s) <=> \A a \in tree[s] : Valid(a))

Shape(s) == [i \in 1..Len(list[s]) |->
    LET x == list[s][i] IN <<x.typ, x.va, x.n, x.prot>>]

(* When vma_dup returns a copy, its areas are those the source has then,   *)
(* although the source was read one area at a time.                        *)
DupComplete ==
    [][\A c \in CPUS : pc[c] = "dup" /\ pc'[c] = "idle" =>
          \A s, src \in SPACES : s = l[c].s /\ src = l[c].src => Shape(s)' = Shape(src)']_vars

(* vm.h says of vma_free that it frees what is mapped, and vm.c:201 that   *)
(* all pages of the page table are freed: no frame is without a use.       *)
NoFrameLost == Accounted = FRAME_NUM + Cardinality({v \div REGION : v \in Pages(KERNEL_VA, 2)})
=============================================================================
