-------------------------------- MODULE Buddy --------------------------------
(***************************************************************************)
(* The buddy allocator of ACO-OS (module/mm/buddy/buddy_allocator.c) on    *)
(* several CPUs, from the first bkp_free of buddy_module_init on.          *)
(*                                                                         *)
(* One step is the code from one lock acquisition to the next: what a CPU  *)
(* does under a lock is visible to the others when it unlocks, so the      *)
(* unlocks are part of the step before them.  A lock that is taken and     *)
(* given back within a step is only tested for being free.                 *)
(*                                                                         *)
(* Two things differ from the textbook allocator.  A block need not start  *)
(* at a multiple of its size: bkp_free merges with the free block of the   *)
(* same order right before it or, failing that, right after it.  And       *)
(* bkp_alloc gives the part of a larger block that it does not need back   *)
(* with bkp_free, piece by piece, holding no lock in between.              *)
(*                                                                         *)
(* A failed ASSERT stops its CPU for good, locks held: pc = "panic".       *)
(***************************************************************************)
EXTENDS PageFrame

CONSTANTS
    CPUS,           \* cpu ids
    NoCpu,          \* the owner of a free lock
    BootCpu,        \* cpu_boot: the CPU that runs buddy_module_init
    CLIENT_TYPES    \* the page types the allocator's callers give to blocks

ASSUME CpusAssumption ==
    NoCpu \notin CPUS /\ BootCpu \in CPUS /\ CLIENT_TYPES \subseteq PGTYPES \ {"BUDDY"}

VARIABLES
    pool,      \* [ORDERS -> Seq(PGS)]   order_pools[o]._list
    rest,      \* [ORDERS -> Int]        order_pools[o].rest_block_num
    poolLk,    \* [ORDERS -> CPUS \cup {NoCpu}]  owner of order_pools[o].lk
    pageLk,    \* [PGS -> CPUS \cup {NoCpu}]     owner of PAGES[p].lk
    pc,        \* [CPUS -> PCS]
    pg,        \* bkp_alloc: page_ptr up to the split; bkp_free: pgfm
    ord,       \* the local variable order of both functions
    req,       \* bkp_alloc: order_orig
    ret,       \* bkp_alloc: page_ptr from the split on; NoPage in a plain free
    rst,       \* bkp_alloc: rest_pgst
    rstn,      \* bkp_alloc: rest_pgnum
    own,       \* heads of the blocks handed out (history)
    boot       \* index of the second loop of buddy_module_init

sharedVars == <<pgtype, flags, order, pool, rest>>
lockVars   == <<poolLk, pageLk>>
localVars  == <<pc, pg, ord, req, ret, rst, rstn>>
vars == <<sharedVars, lockVars, localVars, own, boot>>

NoPage == -1

PCS == {"idle",
        "alloc_pool", "alloc_page", "split",                   \* bkp_alloc
        "free_entry",                                          \* bkp_free
        "merge_pool", "merge_page", "merge_bef", "merge_aft",  \*   its loop
        "insert_pool", "insert_page",                          \*   its end
        "panic"}

FreePcs == {"free_entry", "merge_pool", "merge_page", "merge_bef", "merge_aft",
            "insert_pool", "insert_page"}

Init ==
    /\ PgfmInit
    /\ pool = [o \in ORDERS |-> <<>>] /\ rest = [o \in ORDERS |-> 0]
    /\ poolLk = [o \in ORDERS |-> NoCpu] /\ pageLk = [p \in PGS |-> NoCpu]
    /\ pc = [c \in CPUS |-> "idle"]
    /\ pg = [c \in CPUS |-> NoPage] /\ ret = [c \in CPUS |-> NoPage]
    /\ ord = [c \in CPUS |-> 0] /\ req = [c \in CPUS |-> 0]
    /\ rst = [c \in CPUS |-> 0] /\ rstn = [c \in CPUS |-> 0]
    /\ own = {} /\ boot = 0

-----------------------------------------------------------------------------
(* Helpers.                                                                *)

Goto(c, label) == pc' = [pc EXCEPT ![c] = label]

Panic(c) == Goto(c, "panic") /\ UNCHANGED <<sharedVars, lockVars, pg, ord, req, ret, rst, rstn, own>>

Listed(s) == {s[i] : i \in 1..Len(s)}

(* list_del of the node of page p.                                         *)
ListDel(s, p) ==
    LET at == CHOOSE i \in 1..Len(s) : s[i] = p
    IN  IF p \in Listed(s) THEN [i \in 1..(Len(s) - 1) |-> IF i < at THEN s[i] ELSE s[i + 1]]
                           ELSE s

(* The largest i with bit i set in n, which the loop of bkp_alloc finds.   *)
HighBit(n) == CHOOSE i \in ORDERS : ORDER2PGNUM[i] <= n /\ n < ORDER2PGNUM[i + 1]

(* A head of order o in a free list, as bkp_free tests its neighbours.     *)
Mergeable(p, o) ==
    /\ pgtype[p] = "BUDDY" /\ order[p] = o
    /\ {"HEAD", "FREE"} \subseteq flags[p] /\ "BODY" \notin flags[p]

(* Where bkp_free goes with a block of order o: the loop or the end.       *)
AfterOrder(o) == IF o < MAX_ORDER - 1 THEN "merge_pool" ELSE "insert_pool"

-----------------------------------------------------------------------------
(* bkp_alloc                                                               *)

Alloc(c, o) ==
    /\ pc[c] = "idle" /\ boot = NPAGES
    /\ req' = [req EXCEPT ![c] = o]
    /\ ord' = [ord EXCEPT ![c] = o]
    /\ Goto(c, "alloc_pool")
    /\ UNCHANGED <<sharedVars, lockVars, pg, ret, rst, rstn, own, boot>>

(* Seeded fault: the loop tries the same empty pool again.                 *)
AllocPoolEmptyNoStep(c) ==
    /\ pc[c] = "alloc_pool"
    /\ poolLk[ord[c]] = NoCpu
    /\ rest[ord[c]] = 0
    /\ UNCHANGED vars

(* Nothing of this order: try the next one, or return NULL.                *)
AllocPoolEmpty(c) ==
    /\ pc[c] = "alloc_pool"
    /\ poolLk[ord[c]] = NoCpu
    /\ rest[ord[c]] = 0
    /\ IF ord[c] + 1 < MAX_ORDER
       THEN ord' = [ord EXCEPT ![c] = @ + 1] /\ UNCHANGED <<pc, req>>
       ELSE /\ Goto(c, "idle")
            /\ ord' = [ord EXCEPT ![c] = 0]
            /\ req' = [req EXCEPT ![c] = 0]
    /\ UNCHANGED <<sharedVars, lockVars, pg, ret, rst, rstn, own, boot>>

(* Reserve the first block of the list; the pool stays locked.             *)
AllocPool(c) ==
    /\ pc[c] = "alloc_pool"
    /\ poolLk[ord[c]] = NoCpu
    /\ rest[ord[c]] # 0
    /\ IF pool[ord[c]] = <<>>      \* list_first_entry would be no page at all
       THEN Panic(c)
       ELSE /\ rest' = [rest EXCEPT ![ord[c]] = @ - 1]
            /\ poolLk' = [poolLk EXCEPT ![ord[c]] = c]
            /\ pg' = [pg EXCEPT ![c] = Head(pool[ord[c]])]
            /\ Goto(c, "alloc_page")
            /\ UNCHANGED <<pgfmVars, pool, pageLk, ord, req, ret, rst, rstn, own>>
    /\ UNCHANGED boot

(* Seeded fault: one page of the remainder is forgotten.                   *)
AllocPageLosesPage(c) ==
    LET p == pg[c]
        o == ord[c]
    IN  /\ pc[c] = "alloc_page"
        /\ pageLk[p] = NoCpu
        /\ pool' = [pool EXCEPT ![o] = ListDel(@, p)]
        /\ flags' = [flags EXCEPT ![p] = {"HEAD"}]
        /\ order' = [order EXCEPT ![p] = req[c]]
        /\ poolLk' = [poolLk EXCEPT ![o] = NoCpu]
        /\ ret' = [ret EXCEPT ![c] = p]
        /\ rst' = [rst EXCEPT ![c] = p + ORDER2PGNUM[req[c]]]
        /\ rstn' = [rstn EXCEPT ![c] = IF o = req[c] THEN 0
                                       ELSE ORDER2PGNUM[o] - ORDER2PGNUM[req[c]] - 1]
        /\ pg' = [pg EXCEPT ![c] = NoPage]
        /\ ord' = [ord EXCEPT ![c] = 0]
        /\ req' = [req EXCEPT ![c] = 0]
        /\ Goto(c, "split")
        /\ UNCHANGED <<pgtype, rest, pageLk, own, boot>>

(* Seeded fault: the head keeps the order of the block it was cut from.    *)
AllocPageKeepsOrder(c) ==
    LET p == pg[c]
        o == ord[c]
    IN  /\ pc[c] = "alloc_page"
        /\ pageLk[p] = NoCpu
        /\ pool' = [pool EXCEPT ![o] = ListDel(@, p)]
        /\ flags' = [flags EXCEPT ![p] = {"HEAD"}]
        /\ poolLk' = [poolLk EXCEPT ![o] = NoCpu]
        /\ ret' = [ret EXCEPT ![c] = p]
        /\ rst' = [rst EXCEPT ![c] = p + ORDER2PGNUM[req[c]]]
        /\ rstn' = [rstn EXCEPT ![c] = ORDER2PGNUM[o] - ORDER2PGNUM[req[c]]]
        /\ pg' = [pg EXCEPT ![c] = NoPage]
        /\ ord' = [ord EXCEPT ![c] = 0]
        /\ req' = [req EXCEPT ![c] = 0]
        /\ Goto(c, "split")
        /\ UNCHANGED <<pgtype, order, rest, pageLk, own, boot>>

(* Take it off the list, cut it to the order asked for, unlock both.       *)
AllocPage(c) ==
    LET p == pg[c]
        o == ord[c]
    IN  /\ pc[c] = "alloc_page"
        /\ pageLk[p] = NoCpu
        /\ IF flags[p] = {"HEAD", "FREE"} /\ order[p] = o
           THEN /\ pool' = [pool EXCEPT ![o] = ListDel(@, p)]
                /\ flags' = [flags EXCEPT ![p] = {"HEAD"}]
                /\ order' = [order EXCEPT ![p] = req[c]]
                /\ poolLk' = [poolLk EXCEPT ![o] = NoCpu]
                /\ ret' = [ret EXCEPT ![c] = p]
                /\ rst' = [rst EXCEPT ![c] = p + ORDER2PGNUM[req[c]]]
                /\ rstn' = [rstn EXCEPT ![c] = ORDER2PGNUM[o] - ORDER2PGNUM[req[c]]]
                /\ pg' = [pg EXCEPT ![c] = NoPage]
                /\ ord' = [ord EXCEPT ![c] = 0]
                /\ req' = [req EXCEPT ![c] = 0]
                /\ Goto(c, "split")
                /\ UNCHANGED <<pgtype, rest, pageLk, own>>
           ELSE Panic(c)
        /\ UNCHANGED boot

(* The largest piece of what is left becomes a block and is freed.         *)
Split(c) ==
    LET p == rst[c]
        i == HighBit(rstn[c])
    IN  /\ pc[c] = "split" /\ rstn[c] # 0
        /\ pageLk[p] = NoCpu
        /\ IF flags[p] = {"BODY"} /\ order[p] = MAX_ORDER
           THEN /\ flags' = [flags EXCEPT ![p] = {"HEAD"}]
                /\ order' = [order EXCEPT ![p] = i]
                /\ pg' = [pg EXCEPT ![c] = p]
                /\ rst' = [rst EXCEPT ![c] = p + ORDER2PGNUM[i]]
                /\ rstn' = [rstn EXCEPT ![c] = @ - ORDER2PGNUM[i]]
                /\ Goto(c, "free_entry")
                /\ UNCHANGED <<pgtype, pool, rest, lockVars, ord, req, ret, own>>
           ELSE Panic(c)
        /\ UNCHANGED boot

(* return page_ptr                                                         *)
AllocReturn(c) ==
    /\ pc[c] = "split" /\ rstn[c] = 0
    /\ own' = own \cup {ret[c]}
    /\ ret' = [ret EXCEPT ![c] = NoPage]
    /\ rst' = [rst EXCEPT ![c] = 0]
    /\ Goto(c, "idle")
    /\ UNCHANGED <<sharedVars, lockVars, pg, ord, req, rstn, boot>>

-----------------------------------------------------------------------------
(* bkp_free                                                                *)

Free(c, p) ==
    /\ pc[c] = "idle" /\ boot = NPAGES
    /\ p \in own /\ pgtype[p] = "BUDDY"
    /\ own' = own \ {p}
    /\ pg' = [pg EXCEPT ![c] = p]
    /\ Goto(c, "free_entry")
    /\ UNCHANGED <<sharedVars, lockVars, ord, req, ret, rst, rstn, boot>>

(* buddy_module_init frees every page that pgfm_module_init made a head.   *)
BootFree(c) ==
    /\ c = BootCpu /\ pc[c] = "idle" /\ boot < NPAGES
    /\ boot' = boot + 1
    /\ IF flags[boot] = {"HEAD"}
       THEN pg' = [pg EXCEPT ![c] = boot] /\ Goto(c, "free_entry")
       ELSE UNCHANGED <<pg, pc>>
    /\ UNCHANGED <<sharedVars, lockVars, ord, req, ret, rst, rstn, own>>

(* Seeded fault: the page stays locked on the way into the loop.           *)
FreeEntryKeepsLock(c) ==
    /\ pc[c] = "free_entry"
    /\ pageLk[pg[c]] = NoCpu
    /\ pageLk' = [pageLk EXCEPT ![pg[c]] = c]
    /\ ord' = [ord EXCEPT ![c] = order[pg[c]]]
    /\ Goto(c, AfterOrder(order[pg[c]]))
    /\ UNCHANGED <<sharedVars, poolLk, pg, req, ret, rst, rstn, own, boot>>

(* Read the order under the page lock, and let the lock go again.          *)
FreeEntry(c) ==
    /\ pc[c] = "free_entry"
    /\ pageLk[pg[c]] = NoCpu
    /\ IF pgtype[pg[c]] = "BUDDY" /\ flags[pg[c]] = {"HEAD"} /\ order[pg[c]] < MAX_ORDER
       THEN /\ ord' = [ord EXCEPT ![c] = order[pg[c]]]
            /\ Goto(c, AfterOrder(order[pg[c]]))
            /\ UNCHANGED <<sharedVars, lockVars, pg, req, ret, rst, rstn, own>>
       ELSE Panic(c)
    /\ UNCHANGED boot

MergePool(c) ==
    /\ pc[c] = "merge_pool"
    /\ poolLk[ord[c]] = NoCpu
    /\ poolLk' = [poolLk EXCEPT ![ord[c]] = c]
    /\ Goto(c, "merge_page")
    /\ UNCHANGED <<sharedVars, pageLk, pg, ord, req, ret, rst, rstn, own, boot>>

MergePage(c) ==
    /\ pc[c] = "merge_page"
    /\ pageLk[pg[c]] = NoCpu
    /\ IF pgtype[pg[c]] = "BUDDY" /\ order[pg[c]] = ord[c] /\ flags[pg[c]] = {"HEAD"}
       THEN /\ pageLk' = [pageLk EXCEPT ![pg[c]] = c]
            /\ Goto(c, "merge_bef")
            /\ UNCHANGED <<sharedVars, poolLk, pg, ord, req, ret, rst, rstn, own>>
       ELSE Panic(c)
    /\ UNCHANGED boot

(* Unlock the page and the pool at the end of a round.                     *)
Unlock(c) ==
    /\ pageLk' = [pageLk EXCEPT ![pg[c]] = NoCpu]
    /\ poolLk' = [poolLk EXCEPT ![ord[c]] = NoCpu]

(* Seeded fault: pgfm is not moved to the page before it.                  *)
MergeKeepsPage(c, q, low, high) ==
    /\ pool' = [pool EXCEPT ![ord[c]] = ListDel(@, q)]
    /\ rest' = [rest EXCEPT ![ord[c]] = @ - 1]
    /\ flags' = [flags EXCEPT ![low] = {"HEAD"}, ![high] = {"BODY"}]
    /\ order' = [order EXCEPT ![low] = ord[c] + 1, ![high] = MAX_ORDER]
    /\ Unlock(c)
    /\ ord' = [ord EXCEPT ![c] = @ + 1]
    /\ Goto(c, AfterOrder(ord[c] + 1))
    /\ UNCHANGED <<pgtype, pg, req, ret, rst, rstn, own>>

(* Seeded fault: the count of the pool is not lowered.                     *)
MergeKeepsCount(c, q, low, high) ==
    /\ pool' = [pool EXCEPT ![ord[c]] = ListDel(@, q)]
    /\ flags' = [flags EXCEPT ![low] = {"HEAD"}, ![high] = {"BODY"}]
    /\ order' = [order EXCEPT ![low] = ord[c] + 1, ![high] = MAX_ORDER]
    /\ Unlock(c)
    /\ pg' = [pg EXCEPT ![c] = low]
    /\ ord' = [ord EXCEPT ![c] = @ + 1]
    /\ Goto(c, AfterOrder(ord[c] + 1))
    /\ UNCHANGED <<pgtype, rest, req, ret, rst, rstn, own>>

(* Seeded fault: the page that becomes a body page keeps its order.        *)
MergeKeepsOrder(c, q, low, high) ==
    /\ pool' = [pool EXCEPT ![ord[c]] = ListDel(@, q)]
    /\ rest' = [rest EXCEPT ![ord[c]] = @ - 1]
    /\ flags' = [flags EXCEPT ![low] = {"HEAD"}, ![high] = {"BODY"}]
    /\ order' = [order EXCEPT ![low] = ord[c] + 1]
    /\ Unlock(c)
    /\ pg' = [pg EXCEPT ![c] = low]
    /\ ord' = [ord EXCEPT ![c] = @ + 1]
    /\ Goto(c, AfterOrder(ord[c] + 1))
    /\ UNCHANGED <<pgtype, req, ret, rst, rstn, own>>

(* Take free block q off its list and join low and high into one block of  *)
(* the next order, which goes round the loop.                              *)
Merge(c, q, low, high) ==
    /\ pool' = [pool EXCEPT ![ord[c]] = ListDel(@, q)]
    /\ rest' = [rest EXCEPT ![ord[c]] = @ - 1]
    /\ flags' = [flags EXCEPT ![low] = {"HEAD"}, ![high] = {"BODY"}]
    /\ order' = [order EXCEPT ![low] = ord[c] + 1, ![high] = MAX_ORDER]
    /\ Unlock(c)
    /\ pg' = [pg EXCEPT ![c] = low]
    /\ ord' = [ord EXCEPT ![c] = @ + 1]
    /\ Goto(c, AfterOrder(ord[c] + 1))
    /\ UNCHANGED <<pgtype, req, ret, rst, rstn, own>>

(* The block before: its lock is waited for with the pool and pgfm locked. *)
MergeBef(c) ==
    LET bef == pg[c] - ORDER2PGNUM[ord[c]]
    IN  /\ pc[c] = "merge_bef"
        /\ bef \in PGS => pageLk[bef] = NoCpu
        /\ IF bef \in PGS /\ Mergeable(bef, ord[c])
           THEN Merge(c, bef, bef, pg[c])
           ELSE /\ Goto(c, "merge_aft")
                /\ UNCHANGED <<sharedVars, lockVars, pg, ord, req, ret, rst, rstn, own>>
        /\ UNCHANGED boot

(* The block after; with no neighbour to merge the loop ends.              *)
MergeAft(c) ==
    LET aft == pg[c] + ORDER2PGNUM[ord[c]]
    IN  /\ pc[c] = "merge_aft"
        /\ aft \in PGS => pageLk[aft] = NoCpu
        /\ IF aft \in PGS /\ Mergeable(aft, ord[c])
           THEN Merge(c, aft, pg[c], aft)
           ELSE /\ Unlock(c)
                /\ Goto(c, "insert_pool")
                /\ UNCHANGED <<sharedVars, pg, ord, req, ret, rst, rstn, own>>
        /\ UNCHANGED boot

InsertPool(c) ==
    /\ pc[c] = "insert_pool"
    /\ poolLk[ord[c]] = NoCpu
    /\ poolLk' = [poolLk EXCEPT ![ord[c]] = c]
    /\ Goto(c, "insert_page")
    /\ UNCHANGED <<sharedVars, pageLk, pg, ord, req, ret, rst, rstn, own, boot>>

(* Seeded fault: FREE is assigned to the flags instead of added to them.   *)
InsertPageFlagsLost(c) ==
    LET p == pg[c]
        o == ord[c]
        new == {"FREE"}
    IN  /\ pc[c] = "insert_page"
        /\ pageLk[p] = NoCpu
        /\ IF pgtype[p] = "BUDDY" /\ "HEAD" \in new
           THEN /\ flags' = [flags EXCEPT ![p] = new]
                /\ pool' = [pool EXCEPT ![o] = Append(@, p)]
                /\ UNCHANGED <<pgtype, order, rest, lockVars, localVars, own>>
           ELSE Panic(c)
        /\ UNCHANGED boot

(* Into the list of its order; back to bkp_alloc if that was the caller.   *)
InsertPage(c) ==
    LET p == pg[c]
        o == ord[c]
        new == flags[p] \cup {"FREE"}
    IN  /\ pc[c] = "insert_page"
        /\ pageLk[p] = NoCpu
        /\ IF pgtype[p] = "BUDDY" /\ "HEAD" \in new /\ "BODY" \notin new /\ "STATIC" \notin new
           THEN /\ flags' = [flags EXCEPT ![p] = new]
                /\ pool' = [pool EXCEPT ![o] = Append(@, p)]
                /\ rest' = [rest EXCEPT ![o] = @ + 1]
                /\ poolLk' = [poolLk EXCEPT ![o] = NoCpu]
                /\ pg' = [pg EXCEPT ![c] = NoPage]
                /\ ord' = [ord EXCEPT ![c] = 0]
                /\ Goto(c, IF ret[c] = NoPage THEN "idle" ELSE "split")
                /\ UNCHANGED <<pgtype, order, pageLk, req, ret, rst, rstn, own>>
           ELSE Panic(c)
        /\ UNCHANGED boot

-----------------------------------------------------------------------------
(* The callers: a block may be given another page type while it is owned   *)
(* (set_pgfm_aslab, vm_mmap) and must be given back as a buddy block.      *)
SetType(c, p, t) ==
    /\ pc[c] = "idle"
    /\ p \in own /\ pageLk[p] = NoCpu
    /\ (pgtype[p] = "BUDDY") # (t = "BUDDY")
    /\ pgtype' = [pgtype EXCEPT ![p] = t]
    /\ UNCHANGED <<flags, order, pool, rest, lockVars, localVars, own, boot>>

Step(c) ==
    \/ AllocPoolEmpty(c) \/ AllocPool(c) \/ AllocPage(c) \/ Split(c) \/ AllocReturn(c)
    \/ FreeEntry(c) \/ MergePool(c) \/ MergePage(c) \/ MergeBef(c) \/ MergeAft(c)
    \/ InsertPool(c) \/ InsertPage(c)

Call(c) ==
    \/ \E o \in ORDERS : Alloc(c, o)
    \/ \E p \in own : Free(c, p)
    \/ \E p \in own, t \in CLIENT_TYPES \cup {"BUDDY"} : SetType(c, p, t)

Next == \E c \in CPUS : Step(c) \/ BootFree(c) \/ Call(c)

(* A CPU inside bkp_alloc or bkp_free keeps executing; a spinlock promises *)
(* a CPU that spins for it nothing but weak fairness.                      *)
Fairness == \A c \in CPUS : WF_vars(Step(c))

Spec == Init /\ [][Next]_vars /\ Fairness

-----------------------------------------------------------------------------
TypeOK ==
    /\ PgfmTypeOK
    /\ pool \in [ORDERS -> Seq(PGS)] /\ rest \in [ORDERS -> Int]
    /\ poolLk \in [ORDERS -> CPUS \cup {NoCpu}] /\ pageLk \in [PGS -> CPUS \cup {NoCpu}]
    /\ pc \in [CPUS -> PCS]
    /\ pg \in [CPUS -> PGS \cup {NoPage}] /\ ret \in [CPUS -> PGS \cup {NoPage}]
    /\ ord \in [CPUS -> ORDERS] /\ req \in [CPUS -> ORDERS]
    /\ rst \in [CPUS -> 0..NPAGES] /\ rstn \in [CPUS -> 0..NPAGES]
    /\ own \subseteq PGS /\ boot \in 0..NPAGES

(* No ASSERT of bkp_alloc and bkp_free fails, whatever other CPUs do       *)
(* between the places where the page lock is dropped and taken again ("here *)
(* is dangerous", buddy_allocator.c:78), and no empty list is read.        *)
NoPanic == \A c \in CPUS : pc[c] # "panic"

(* The body pages a bkp_alloc in progress has yet to give back.            *)
Remnant(c) == rst[c]..(rst[c] + rstn[c] - 1)

InFreeRange(p, n) == FREE_START <= p /\ p + n <= FREE_END

Apart(p, m, q, n) == p + m <= q \/ q + n <= p

Size(h) == ORDER2PGNUM[order[h]]

BlocksApart ==
    \A h \in PGS : IsHead(h) =>
        /\ order[h] \in ORDERS /\ InFreeRange(h, Size(h))
        /\ \A k \in PGS : IsHead(k) /\ k # h => Apart(h, Size(h), k, Size(k))
        /\ \A c \in CPUS : rstn[c] # 0 => Apart(h, Size(h), rst[c], rstn[c])

RemnantsApart ==
    \A c \in CPUS : rstn[c] # 0 =>
        /\ InFreeRange(rst[c], rstn[c])
        /\ \A d \in CPUS : rstn[d] # 0 /\ d # c => Apart(rst[c], rstn[c], rst[d], rstn[d])

Covered(p) ==
    \/ \E h \in PGS : IsHead(h) /\ p \in Block(h, order[h])
    \/ \E c \in CPUS : p \in Remnant(c)

(* Every page of the free range belongs to one block, or to what one       *)
(* allocation is still splitting off, and static pages belong to none.     *)
Tiling == BlocksApart /\ RemnantsApart /\ \A p \in FREE_START..(FREE_END - 1) : Covered(p)

Frees(c, h)   == pc[c] \in FreePcs /\ pg[c] = h
Returns(c, h) == ret[c] = h
Owned(h)      == h \in own
BootsLater(h) == IsHead(h) /\ h >= boot

(* The parties that may be responsible for a block are a CPU freeing it, a *)
(* CPU about to return it, the caller it was handed to and the boot loop   *)
(* that has yet to come to it.                                             *)
OneClaim(h) ==
    /\ (flags[h] = {"HEAD"}) <=>
         (Owned(h) \/ BootsLater(h) \/ \E c \in CPUS : Frees(c, h) \/ Returns(c, h))
    /\ ~(Owned(h) /\ BootsLater(h))
    /\ \A c \in CPUS : Frees(c, h) \/ Returns(c, h) =>
         /\ ~Owned(h) /\ ~BootsLater(h)
         /\ ~(Frees(c, h) /\ Returns(c, h))
         /\ \A d \in CPUS : Frees(d, h) \/ Returns(d, h) => d = c

(* A block in use has exactly one responsible party, a free block and a    *)
(* body page have none: nothing is lost and nothing is freed twice.        *)
OneClaimPerBlock == \A h \in PGS : OneClaim(h)

(* buddy_slfcheck for one pool, run under its lock.                        *)
BuddySlfcheck(o) ==
    rest[o] = Len(pool[o]) /\ \A i \in 1..Len(pool[o]) : order[pool[o][i]] = o

(* A pool's list holds exactly the free heads of its order, each once, and *)
(* whenever the pool is unlocked its count agrees (buddy_slfcheck).        *)
PoolsExact ==
    \A o \in ORDERS :
        /\ Listed(pool[o]) = {p \in PGS : "FREE" \in flags[p] /\ order[p] = o}
        /\ \A i, j \in 1..Len(pool[o]) : pool[o][i] = pool[o][j] => i = j
        /\ poolLk[o] = NoCpu => BuddySlfcheck(o)

Quiescent == boot = NPAGES /\ \A c \in CPUS : pc[c] = "idle"

(* start_kernel asserts pages_slfcheck() == 0 once every CPU has booted:   *)
(* it holds whenever no call is in progress, as long as no user address    *)
(* space has pages.                                                        *)
SlfcheckPasses ==
    Quiescent /\ (\A p \in PGS : pgtype[p] # "VMA") => PagesSlfcheck

(* The CPUs that hold the lock that CPU c spins for.                       *)
WaitsFor(c) ==
    LET o == ord[c]
        holder == CASE pc[c] \in {"alloc_pool", "merge_pool", "insert_pool"} -> poolLk[o]
                    [] pc[c] \in {"alloc_page", "free_entry", "merge_page", "insert_page"} -> pageLk[pg[c]]
                    [] pc[c] = "split" /\ rstn[c] # 0 -> pageLk[rst[c]]
                    [] pc[c] = "merge_bef" /\ pg[c] - ORDER2PGNUM[o] \in PGS -> pageLk[pg[c] - ORDER2PGNUM[o]]
                    [] pc[c] = "merge_aft" /\ pg[c] + ORDER2PGNUM[o] \in PGS -> pageLk[pg[c] + ORDER2PGNUM[o]]
                    [] OTHER -> NoCpu
    IN  {holder} \ {NoCpu}

(* "priority lock sequence to prevent deadlock" (buddy_allocator.c:81): no *)
(* set of CPUs waits for locks held within the set, although bkp_free      *)
(* locks a neighbour in either direction while it holds its own page.      *)
NoWaitCycle ==
    \A S \in SUBSET CPUS : S # {} => \E c \in S : WaitsFor(c) \cap S = {}

(* A caller's block is its own: bkp_alloc and bkp_free implement the       *)
(* abstract page allocator.                                                *)
Abstract == INSTANCE PageAlloc WITH blocks <- {<<p, order[p]>> : p \in own}
ImplementsPageAlloc == Abstract!Spec

(* Not all CPUs stay inside the allocator for ever: some call returns.     *)
SomeCallReturns ==
    (\A c \in CPUS : pc[c] # "idle") ~> (\E c \in CPUS : pc[c] = "idle")
=============================================================================
