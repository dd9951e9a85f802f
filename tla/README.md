# A TLA+ verification of ACO-OS

ACO-OS is a small multi-hart kernel for RISC-V (qemu-virt, four harts). It has
a boot protocol, locks, a page allocator, object caches and address spaces; it
has no scheduler, no user processes and no interrupt handlers yet. What makes it
hard is that all of it runs on every hart at once, from the first instruction of
`start_kernel` on, and that the allocators drop and retake fine-grained locks in
the middle of an operation. The repository also carries the device tree tools
its boards are described with: libfdt, dtc and fdtoverlay. They are sequential,
but their data structures are edited in place, fail for want of room at any
point, and refer to each other by offsets and phandles that move.

This directory models the kernel's core and the device tree tools in TLA+,
model-checks them with TLC on small instances, and proves the most important
properties of the locks, the page allocator, the object caches, the address
spaces and the boot protocol with TLAPS for every value of the constants.

`PROJECT.json` maps each definition to the source lines it translates, and
lists the runs, the seeded faults, the hazards and the theorems.

## 1. Inventory

| Component | State | Operations | Interacts with |
|---|---|---|---|
| Boot protocol (`arch/riscv/boot/entry.S`, `boot_hart.c`, `kernel/entry.c`, `include/aco/init.h`) | `cpu_boot`, `module_inited`, `bootdone_cpus`, one `*_init_done` flag per module | start harts, run the init functions in priority order, wait for each other, final page check | every module's init function |
| CPU critical zone (`kernel/cpu_critical.c`) | per-hart nesting count and saved interrupt state | `cpu_critical_in`, `cpu_critical_out` | called by both locks |
| Spinlock (`include/aco/spinlock.h`) | one word, 1 = free | `lock`, `unlock`, nested, released in any order | all allocators, logging |
| Readers-writer lock (`include/aco/rwlock.h`) | inner spinlock, count of readers, count of writers | `r_lock`, `w_lock`, `w_lock_br` and their unlocks | address spaces |
| Page frame table (`module/mm/pageframe`) | per page: lock, type, flags, order | `pgfm_module_init`, `pages_slfcheck` | its metadata is owned by whoever owns the block |
| Buddy allocator (`module/mm/buddy`) | per order: lock, list, count | `buddy_module_init`, `bkp_alloc`, `bkp_free`, `buddy_slfcheck` | page frame table; called by slab, address spaces, page tables |
| Object caches (`module/mm/kmem_cache`) | per cache: lock, three lists of slabs, counts; per slab: free list in an index array | `kmem_cache_init`, `kmem_cache_deinit`, `kmem_obj_alloc`, `kmem_obj_free` | takes blocks from the buddy allocator, sets their type |
| Address spaces (`module/mm/vm`) | per space: rwlock, tree and list of areas, root table; per page a reference count | `vm_mmap`, `vm_unmap`, `vm_iomap`, `vma_dup`, `vma_free`, `vm_check` | caches, buddy allocator, page tables |
| SV39 page tables (`arch/riscv/mm/vm.c`) | three-level tables | map, unmap, free | buddy allocator |
| Early mapping (`early_vm.c`, `kernel_map.c`) | the first page table | built once, by one hart | boot |
| Memblock (`module/mm/allocators`) | list of equal blocks, count | init, alloc, free, self check | none in the kernel |
| Lists and trees (`include/aco/list.h`, `lib/dstructer`) | next and prev pointers; child and parent pointers, heights, colours, augmented values | add, delete, move, splice, cut; insert, erase, replace, clear, search, traverse | page lists, slabs, areas |
| libfdt (`scripts/dtc/libfdt`) | one blob: header, reserved ranges, structure, strings | write sequentially, open, edit in place, pack, look up, check, apply an overlay | dtc, fdtoverlay, the kernel's `lib/fdt` |
| dtc, fdtoverlay (`scripts/dtc`) | the live tree, the status of each check, the phandle and fragment counters; two blobs and a buffer | read statements, check and resolve references, generate symbols and fixups, write and read blobs, apply with retries | libfdt |
| Logging (`module/log`) | level, lock callback, one static buffer | `log_log` and setters | spinlock |
| Libraries (`lib/string`, `lib/math`) | none | strings, formatting | everywhere |
| Run-time tests (`module/rttest`) | counters | run by the last init function, on the first hart and then on the others | everything |

The hard behaviours:

* **Interleaving inside an operation.** `bkp_free` checks a page under the
  page's lock, drops it, and takes the pool's lock and the page's lock again
  (the source comments "here is dangerous"). `bkp_alloc` gives back what it does
  not need of a block without holding any lock. The rwlock's unlock functions
  change the counts that a lock function reads under the inner lock.
* **Lock order.** `bkp_free` locks the page before and the page after its own
  while holding its own, so the order of page locks is not a fixed one.
* **Once-only initialisation.** Each init function tests a done flag and sets
  it at the end, in two operations; only the boot protocol makes this safe.
* **Partial failure.** A cache that gets only some of its blocks; a mapping or
  a copy of an address space that fails half way.
* **Limits.** The largest order, an empty pool, a cache at its limit, a slab
  with one object; a page table that fills exactly, a blob whose buffer is one
  byte short.
* **Order of effects under a lock.** `vm_unmap` frees a page before it removes
  its hardware mapping; `vma_dup` shares and copies blocks while other spaces
  unmap theirs.
* **Things that move.** Every insertion into a blob moves the blocks behind it;
  every path inserted into a value moves the markers behind it; an overlay
  renumbers phandles that other fragments refer to.
* **Progress.** A writer that waits for readers to leave; spinning harts; the
  barrier at the end of boot.

What makes each component correct: the locks exclude, count exactly, restore the
interrupt state and let waiting writers in; the page allocator never hands out a
page twice, loses none, never trips its own assertions and never deadlocks; a
cache never hands out an object twice and conserves its blocks; boot initialises
everything once and in order, and ends. An address space maps in hardware what
its areas say and shares no memory that can be written; its pages are counted
exactly and come back. A page table changes as a whole or not at all. A blob
holds what was written, wherever room ran out, and applying a plugin means what
compiling it with its base would mean.

## 2. Modules

| Module | Models | Extends |
|---|---|---|
| `CpuCritical` | the critical zone: two calls on per-hart state, each one step | |
| `Spinlock` | any number of locks, nested, released in any order | `CpuCritical` |
| `SpinlockProofs` | proofs about `Spinlock` | `Spinlock` |
| `RwLock` | one readers-writer lock, one step per atomic access | `CpuCritical` |
| `RwLockProofs` | proofs about `RwLock` | `RwLock` |
| `PageFrame` | the table, its initial contents, `pages_slfcheck` | |
| `PageAlloc` | abstract specification: blocks handed out never overlap, and come back as they left | |
| `Buddy` | `buddy_module_init`, `bkp_alloc`, `bkp_free` on several CPUs | `PageFrame`, instantiates `PageAlloc` |
| `BuddyProofs` | proofs about `Buddy` | `Buddy` |
| `BuddyWaitProofs` | proof that its locks do not deadlock | `BuddyProofs` |
| `Slab` | object caches over the abstract page allocator | |
| `SlabProofs` | proofs about `Slab` | `Slab` |
| `Boot` | the harts from `_start` to the end of `start_kernel` | |
| `BootProofs` | proofs about `Boot` | `Boot` |
| `Sv39` | entries and indexes of a page table, and the hardware's walk | |
| `EarlyMap` | `kernel_map_init`, the allocator behind the kernel, `setup_earlyvm`; the state of a walk | `Sv39` |
| `HwMap` | abstract specification: a mapping of pages that changes as a whole | |
| `PageTable` | `__arch_hw_mmap`, `__arch_hw_unmap`, `__arch_hw_unmap_all` on the table `EarlyMap` built | `EarlyMap`, instantiates `HwMap` |
| `PageTableProofs` | proofs about `PageTable` and `EarlyMap` | `PageTable` |
| `Vm` | address spaces on several harts, whatever addresses their callers pass | |
| `VmCalls` | callers whose ranges are inside the page table | `Vm` |
| `VmProofs` | proofs about `Vm` with such callers | `VmCalls` |
| `Bst`, `AvlTree`, `RbTree` | what the two trees share; each tree at the level of its pointers | `Bst` |
| `ListHead` | `list.h` at the level of its pointers | |
| `Containers` | any sequence of operations on the trees, the lists and memblock | instantiates the four above |
| `Fdt` | libfdt's checks and lookups | |
| `FdtWrite` | libfdt's sequential writing and its edits | `Fdt` |
| `FdtBlob` | a client that builds or receives a blob and edits it | `FdtWrite` |
| `LiveTree` | dtc's tree: merge, delete, references, phandles, symbols, fixups | |
| `DtcMain` | one run of dtc: the grammar's tree building, the checks, `main` | `LiveTree` |
| `FlatTree` | dtc's blob writer and reader, five versions | `LiveTree`, instantiates `Fdt` |
| `FdtOverlay` | `fdt_overlay_apply` | `LiveTree` |
| `DtsOverlay` | base and plugin compiled, `fdtoverlay` with its retries | `DtcMain`, `FdtOverlay`, `FlatTree` |
| `MCBuddy`, `MCSlab`, `MCPageTable`, `MCVm`, `MCFdt`, `MCDts` | constant values for the runs | |

**How steps correspond to code.** In `RwLock` and `Spinlock` every atomic
operation on shared memory is a step, because the unlock functions are not
protected by a lock. `pc[c]` names the position in the function. In `Buddy` a
step is the code from one lock acquisition to the next: everything done under a
lock becomes visible to others only when it is released, and the releases are at
the end of the step. A lock held over a step boundary is in `poolLk` or
`pageLk`; one taken and given back inside a step is only tested for being free.
The locks are the ones of `Spinlock`, whose exclusion the `spinlock` run checks.
Callers of `Buddy` are any sequence of `bkp_alloc` for any order, `bkp_free` of a
block the callers have, and changes of the type of a block they have (what
`slab.c` and `vm.c` do with `pgtype`); a caller that frees something it does not
have is outside the contract. `SetType` gives the block back its buddy type
before `Free`, as both callers do.

In `Slab` a call is one step, since it holds the cache's lock throughout and the
page lock it nests is never held while waiting for a cache; growing the cache is
a step of its own, and `kmem_cache_init`, which runs without the lock, takes one
block per step. A `kmem_obj_alloc` that returns NULL changes nothing and is a
stuttering step. The final `memset` of `kmem_cache_deinit` clears `sizeof` a
pointer, so only the lock word and `obj_num`; that is what the model does.

In `Boot` the body of an init function is one label, because what matters is
which harts are inside and which flags are set. The firmware may enter any hart,
and the BSS holds anything until it is cleared. `cpu_boot` is stored before the
BSS that contains it is cleared, so it always ends up 0 and hart 0 initialises
the modules, whichever hart the firmware entered. This works, and the model and
the proofs cover it. `boot_harts` ignores the result of `sbi_hart_start`; in the
model the firmware starts every hart it is asked to.

In `EarlyMap` and `PageTable` a step is one iteration of a loop of the innermost
call of `vm_walkthrough`, `riscv_unmap` or `riscv_free_pgtable`, so that the
tables are seen as hardware that walks them meanwhile sees them. The functions
call themselves once for each of the three levels; `lvl` is the level of the
innermost call, and `tab`, `idx` and `cur` hold the table, the entry and the pages
left for each level above. The caller holds the writer's lock of the space, so there is one
call at a time. The two calls of `setup_earlyvm` follow each other page by page and
are one walk. A level that fails makes all levels above it return, which is one step
(`MapFail`); what is mapped by then is removed by the same walk as an unmap, with `pc`
`"undo"`. Clearing an entry and giving its table back is one step: nobody else reads
either in between. The page allocator is a set of pages that may be empty at
any allocation. `Translate` is the hardware's walk. Callers of `HwMap` see it
between the calls; while one runs, `MapSeen` leaves out the pages that are mapped
so far or still to be unmapped, so that a mapping takes effect when it returns, and an
unmap when it starts. Callers ask for ranges inside the address space and for valid
entries (`CallAssumption`); what `vm.c` makes of others is in `Vm`.

In `Vm` a step is the code from one lock to the next. The page allocator counts
pages, as `PageAlloc` allows; a page table is a map plus the set of regions that
have a table, as `HwMap` and `TablesAreATree` allow; the caches are counts. A
mapping that runs out of pages takes back what it has mapped, with the tables it
empties by that, and leaves the other tables in place.

Nothing in `vm.c` looks at the size of an address. The areas of `Vm` have the page
number the caller passes, any integer; the page table has `VPNS` pages (2^27 in
the code) and knows an address only modulo that (`Vpn`, after `SV39_Index2Id`), and
a range that comes to the end of the root table stops there (`Vpns`). Two areas that
do not overlap can therefore mean the same entries. `VmCalls.AddressAssumption`
excludes this: every range asked for is inside the page table. It is the contract
the code relies on without writing it down, and all callers in the repository keep
it; the runs and the proofs about `Vm` say so by extending `VmCalls`.
Nor does anything enforce `PROT_V`: an area
mapped without it has invalid entries (`Entries`), and `vm_check` says -EFAULT of
it (440). `vm.h:244` leaves setting it to the caller, so callers in `Vm` may or may not.

The readers-writer lock is the one of `RwLock`: a writer alone or any number of
readers. Freeing the block (125) and removing the mapping (130) are two steps,
because the allocator's locks are released in between. `kern_vma` and its two
areas are the initial state `vm_module_init` leaves. A space is freed only when
no other hart uses it, which `vma_free` leaves to its caller.

In `Containers` an operation is one step, and pointers are what is modelled:
functions from nodes to nodes. Left and right cases that mirror each other are
one definition with the side as a parameter.

In `Fdt` and `FdtWrite` a blob keeps its header fields apart from where its
blocks really are, so that a wrong offset is visible; the structure block is a
sequence of tags with their true sizes, the strings block a sequence of bytes,
because sharing of tails depends on them. `FdtBlob` keeps the tree the client
believes it has written. In `LiveTree` nothing is ever unlinked, as in
`livetree.c`; names are atoms, and the items of a value are cells and strings, so
marker offsets count items. `FlatTree` spells names and values as bytes.
`DtsOverlay` keeps two other descriptions of the source: the run of dtc on base
and plugin as one source, and the tree the statements denote. A path that a plugin
inserts is that of its own node below the fragment, and stays so in the merged
value; the comparison takes it for the node it names (`Home`). `FdtOverlay` finds
a child by its whole name, where `fdt_subnode_offset` also accepts the name without the
unit address: the sources of the model give a node the same name everywhere. Of
its error codes the ones that nothing tells apart are one.

The blocks of a blob are moved as whole values. What `memmove` and `memcpy` do to
bytes that overlap, and the order of the moves in `fdt_open_into` and
`fdt_packblocks_`, are not modelled; offsets and sizes after the moves are.

A failed `ASSERT` is an explicit state (`panic`, `halted`): the hart stops with
its locks held.

**Seeded faults.** Some definitions are preceded by a variant marked "Seeded
fault": the same operation with a plausible mistake. They are not part of any
specification. Each shows that a property can fail: with the definition replaced
by its variant, TLC reports the property violated.

## 3. Runs

| Run | Instance | States | Checks |
|---|---|---|---|
| `spinlock` | 2 harts, 3 locks | 3 424 | exclusion; the nesting count is the number of locks held in every order of release; interrupts off inside and restored outside |
| `rwlock` | 3 harts | 573 160 | exclusion; exact counts; interrupts; no reader passes a draining writer; the draining writer gets in; the lock loops do not livelock |
| `buddy` | 2 CPUs, 5 free pages of 7, orders 0-2 | 340 659 | no assertion fails; every page in one block; one responsible party per block; lists and counts exact; the kernel's own self check passes when nothing is in progress; implements `PageAlloc`; some call returns |
| `buddy_locks` | 3 CPUs, 4 pages | 463 359 | no wait cycle among the pool and page locks |
| `slab` | 3 caches (3, 1 and 0 objects per slab), 3 blocks | 13 614 | free lists, slab lists and counts exact, so that no assertion fails; blocks conserved |
| `boot` | 4 harts, 6 modules, the real machine | 14 023 | each module initialised once and in order; the final check runs alone; every hart gets through |
| `pagetable` | 3 entries to a table, 27 virtual pages, 3 or 4 pages for tables | 1 003 123 | at every step the tables are a tree and none is lost, no assertion fails, and the kernel stays mapped with its rights; an unmap that covers all of a table, of the last or the middle level, gives it back; implements `HwMap` |
| `vm` | 2 harts, 2 spaces and the kernel's, a page table of 6 pages in 2 regions, 7 frames, 7 area objects, ranges inside the table, with and without `PROT_V` | 933 513 | reference counts exact; hardware maps what the areas say; writable memory in one space only; `vm_check` fails only for want of `PROT_V` and no assertion fails; no frame lost or doubled except the root tables; a copy is complete |
| `containers` | 10 keys, 4 list nodes, 1 or 4 blocks | 21 877 | AVL and red-black balance and the augmented values; contents and both directions of travel |
| `fdt` | 2 node names, 2 property names, 3 buffer sizes, 3 calls on a finished blob | 28 481 | layout and contents of the blob; every lookup; a failed call changes nothing |
| `dts` | up to 3 of 7 statements in the base, 3 of 5 in the plugin | 7 437 | the live tree says what the source says; applying the plugin gives what compiling both gives; every version of the blob reads back |
| `vm_leak` | as `vm` | expected violation | a page is lost with each address space freed |

**Bounds.** The exclusion of a lock involves two or three parties: two
contenders and one inside. Three harts give a reader inside, a writer draining
and a newcomer. For the buddy allocator the interesting cases need a block in
the middle with a neighbour on either side, a split that leaves more than one
piece (order 0 from order 2), a merge chain of two steps, a static page at each
end and an odd page that cannot be paired: 5 free pages and 3 orders have them
all. Wait cycles of length two and three need three CPUs. Blocks are not aligned
to their size in this allocator, so the pages are few but every offset occurs.
The three caches of `slab` cover a slab that passes through all three lists, one
that goes from free to full at once, and an object size that fits no slab; three
blocks for a total demand of four make `kmem_cache_init` and growth fail.

A page table of three entries has first, middle and last entries at each level;
the ranges of `MCPageTable` start and end at, before and behind the ends of
tables, fill a table and a subtree, and run into the kernel; three or four spare
pages make allocation fail at every level, and one unmap frees a table of the middle
level. In `vm` a block lies across two
regions, so that a mapping can fail with one of its two tables allocated; one
I/O range overlaps it, and another fills a region and reaches into the next, so that
undoing it, or unmapping it, gives a table back; one block is also mapped without
`PROT_V`; two spaces besides the kernel's are a source and its copy;
seven frames are a few less than two harts can ask for. Ten keys reach AVL trees
of height four, where an erasure needs two rotations at different levels, and
every case of red-black erasure. The values of `fdt` are one word and one byte, the
property names share a tail, one node name is another with a unit address, and
the buffers end within, at and behind what the tree needs; received blobs have
either version libfdt reads and either order of the blocks. The statements of
`dts` are listed in `MCDts`; three of each kind are enough for a deletion between
two definitions, a path before a reference in one value of either source (so
that the fixups are generated from moved markers), a phandle set by hand that
collides with a generated one, two fragments that label or refer to each other's
nodes, and several retries.

`CHECK_DEADLOCK FALSE` is used where a system really stops: harts park for good
after boot, and the runs on blobs and sources end when the bound on calls is
reached or the result is written.

**Fairness.** Weak fairness of each hart's own steps, and nothing else: a hart
inside a call executes on (there is no preemption, and the locks disable
interrupts), and a spinning hart is promised only that it may go on when the
lock stays free. Strong fairness, which would promise every spinner its turn, is
not assumed, so the liveness properties are the ones weak fairness supports: a
draining writer gets in, *some* caller gets in, *some* allocator call returns,
every hart boots. Callers need not call.

**What the runs show about the code.** One property fails.

* `NoFrameLost` (`vm_leak`): `vma_free` gives the tables below the root back and
  clears the object that holds the only pointer to the root table, which
  `vma_dup` allocated at line 291. Each address space that is freed, and each
  `vma_dup` that fails after that line, loses one page. `FramesConserved` shows that
  nothing else is lost: it allows exactly the root tables.

Reading and modelling the code showed more that is worth knowing; no property
says it must be otherwise.

* Nothing bounds the addresses of `vm_mmap` and `vm_iomap`. A block at `va` and one at
  `va` + 2^39 do not overlap in the tree, which compares whole addresses, but share
  their entries in the page table, so `hw_mmap` returns -EEXIST for the second and the
  `ASSERT` of `vm.c:32` fails. No caller in the repository passes such an address, and
  `VmCalls` excludes them. With calls at page 0 and at page `VPNS` and without the
  assumption, TLC finds `VmCheckPasses` violated.
* Two overlapping `bkp_free` calls of neighbouring blocks may both insert their
  block unmerged: each finds the other not yet free, and nobody looks again until
  one of them is allocated and freed. Nothing is lost; memory is more fragmented
  than a sequential run would leave it.
* Deadlock freedom of `bkp_free` does not come from an order on the page locks,
  as the comment at line 81 suggests, but from the pool lock: a hart that waits
  for a neighbour's page lock holds the lock of the pool of its order, so the
  harts that hold page locks while waiting all have different orders, and hops of
  different powers of two never add up to a closed cycle.
* `vma_dup` gives the copy of a writable area a cleared block; the contents of
  the source are not copied. Areas added to the kernel's space later do not
  appear in spaces that exist. `vm_iounmap` with size 0 meets `ASSERT(size > 0)`.
  When `vm_module_init` fails it calls `vma_free(kern_vma)`, which refuses the
  kernel's space (`vm_init.c:84`, `vm.c:183`).
* An unmap whose range starts inside a table that is absent skips the width of a
  whole table and leaves the pages behind it mapped (`arch/riscv/mm/vm.c`
  115-129). The address-space layer unmaps only what it has mapped, and so does
  the client of `PageTable`.
* The walk of `early_vm.c` ignores the result of the walk one level down (line
  69); the pages of the early allocator are not cleared but come from memory that
  is zero at boot.
* dtc: a body that deletes and defines one name in a node that is new leaves the
  deleted entry first in the list, so that a later merge revives it beside the
  other. `check_duplicate_node_names` also counts siblings deleted later.
  `omit_unused_nodes` deletes the children of an unreferenced node even when one of
  them is referenced. After the first error the remaining checks do not run, so
  output forced with `-f` may hold unresolved references.
  `interrupts_property` passes its prerequisite as data (`checks.c:1754`). A reserved range
  of size 0 ends the list when it is read back.
* Overlays: two fragments that label the same node, new in both, lose the
  references to the first label's phandle, since
  `overlay_prevent_phandle_overwrite` looks at the nodes of the base only. A
  plugin cannot express deletions or paths of nodes of the base, and a path of a
  node of its own stays the path below the fragment when it is merged. The sources of
  `DtsOverlay` keep to what can be expressed.

## 4. Proofs

All proofs are checked by TLAPS from the definitions the runs use. The
assumptions are the `ASSUME`s of the modules: the set of CPUs is finite
(`RwLock`, `Spinlock`), and so is the set of locks, which are numbered in the order
they nest (`Spinlock`); the free range is within the table, `ORDER2PGNUM` doubles
with each order, and the CPU ids are distinct from "no owner" (`Buddy`); the
geometry of a cache is natural numbers, the limit of its slabs is not zero and not
below the number taken at the start (`Slab`, whose objects to a slab may be zero);
the sets of CPUs, spaces and frames are finite, blocks and ranges are not empty, and
the physical pages of the kernel and of devices are not the page allocator's (`Vm`);
the ranges asked for are inside the page table (`VmCalls`);
there is at least one hart and one module (`Boot`); a table has at least two entries, the
calls are for at least one page, inside the address space and with valid entries, and the parts of the kernel
follow each other in a memory that fits above `KERNEL_OFFSET` and leaves room
for the tables that map it (`Sv39`, `PageTable`).

**`SpinlockProofs`** (any finite set of CPUs and locks). `LocksExact`: exclusion,
the zone's count, and interrupts. The invariant adds that inside a zone the saved
interrupt state is the one the caller had before the outermost lock, and that a
CPU never spins for a lock it holds, so that the count grows with the set.

**`RwLockProofs`** (any finite set of CPUs). `RwExclusion`, `CountsExact`,
`ReadersBlocked`, `InterruptsFollowZone`, `TypeOK`. Exclusion is not inductive:
a reader enters on the strength of a count it read earlier. The invariant adds
that the inner lock has at most one holder (`InnerLockInv`), that what a caller
between its test and its increment has read is still true, because only
decrements can happen meanwhile (`ReadsInv`), and that a counted writer which is
not draining is alone among the counted (`WriterInv`). With `CountsExact` these
four imply exclusion. The interrupt theorem has its own invariant, that the
nesting count is that of the position and the saved state is the caller's.

**`BuddyProofs`** (any number of CPUs, pages, orders; any free range).
`NoPanic`, `Tiling`, `OneClaimPerBlock`, `PoolsExact`, `TypeOK`, and
`ImplementsPageAlloc`. The inductive invariant `IInv` is the conjunction of

* `PagesInv`: the four shapes a page's flags and order can have;
* `LocalInv`: what each CPU's local variables promise at each label;
* `PoolLockInv`: a CPU at a label between acquisition and release holds its
  pool's lock, and the block `bkp_alloc` is about to unlink is still the head
  of the list;
* `ListsInv`, `CountsInv`: each list is the set of free heads of its order
  without repetition, and the count differs from its length only while the one
  CPU inside `bkp_alloc` has decremented it;
* `Tiling`, `OneClaimPerBlock`.

The last two are the core: the claim is what makes the window of line 78 safe
(nobody else is responsible for the block, so nobody changes it), and tiling
is what makes a neighbour found at distance 2^order the right one to merge
with. The page locks are not needed for safety; the invariant holds through the
pool locks and the claims. Refinement follows: `own` changes only when
a call returns or begins, a returned block is a claimed head, and tiling makes
it disjoint from the others.

`SlfcheckPasses` needs one more invariant, that the pages outside the free
range keep what `pgfm_module_init` wrote. `pages_slfcheck` is a recursive function
that jumps over whole blocks; the proof does not induct over the table but takes
the closed form of what the scan must return at each page (true where no block
straddles), shows that it satisfies the recursive equation, and that two functions
that do are equal by the least page at which they differ.

**`BuddyWaitProofs`** (any number of CPUs). `NoWaitCycle`: no set of CPUs waits in a
circle for pool and page locks. The invariant `HoldersInv` says which locks a CPU
at each label holds. The members of a circle turn out to be calls of `bkp_free` that
try to merge: each holds its page and the lock of its order's pool, and waits for
the page at distance 2^order, up or down. So in a circle every hop is a different power of two, and a sum of different powers of two
with signs is not zero: with the least of them, 2^m, all others are multiples of
2^(m+1) (`NoRoundTrip`).

**`SlabProofs`** (any set of caches, any finite or infinite set of blocks, any
number of objects to a slab). `FreeListExact`, `ListsExact` (with `~panic`),
`BlocksConserved`. The invariant `IInv` is

* `LiveInv`: an object in use is on a slab of the cache it was taken from;
* `BlocksInv`: a block is available or in one cache, and typed accordingly;
* for each cache, `ObjectsInv`: for each slab there is a chain, a bijection from
  `0..obj_free-1` onto the objects not in use, that starts at `head`, ends at `tail`
  and follows `idx`. The chain is the witness the free list needs: head, tail and
  indexes alone do not exclude a second, detached cycle of free objects;
* `ListInv`: the lists have no repetitions, are disjoint, and each slab fits its
  list;
* `CountInv`: `pg_orhas` is the number of slabs and `obj_num` the number of free
  objects of all of them, as a cardinality; a cache between its growth and the
  allocation that caused it has a free slab.

Two facts about the code come out of the proof: the search in `kmem_obj_free` by
address range cannot meet a slab it does not expect (`SearchPasses`), and the
`list_first_entry` on the list of free slabs is never taken of an empty list,
because `obj_num` counts exactly.

**`VmProofs`** (any number of CPUs, spaces, frames and areas, any page table, any ranges
inside it, with or without `PROT_V`, any block sizes). The four invariants `RefCountExact`, `HwMatchesAreas`,
`WritableNotShared` and `VmCheckPasses` (with `~panic`: no ASSERT of the callbacks
fails, and `vm_check` fails exactly when an area was mapped without `PROT_V`), and the action properties `FramesConserved` and `DupComplete`. None of the six
is inductive. The invariant `IInv` is

* for each space, `ListInv`: the list is the tree in the order of the addresses,
  and the areas do not overlap; `HwInv`: the page table maps exactly the areas of
  the tree and the one that is being unmapped, whose block may already be
  somebody else's; `SpaceInv`: an object of the cache that is not in use is clear;
* `CallInv`: what each CPU relies on at each label. The block in hand has the type
  and order `vm_mmap` gave it and no reference; the area being unmapped overlaps
  none that is left; a half-made copy is a prefix of the source, area by area;
* `LockInv`, `OwnerInv`: the lock of a space says who is inside; a space that is
  being made, freed or changed belongs to one CPU, and so does a block in hand;
* `FrameInv`, `ShareInv`: the reference count of a block is the number of areas
  that use it, in all spaces together; a writable area is the only one of its block;
* `CountInv`, `FiniteInv`: the area objects in use are counted.

`WritableNotShared` rests on the pair of `HwInv` and `ShareInv`: entries come from
areas, except under the writer's lock, and areas share only what nobody writes.
`DupComplete` rests on the prefix and on `LockInv`: no writer is inside while the
source is read, so the prefix stays one. Each step lemma also proves that pages are
conserved, which is `FramesConserved`; the failing paths are the hard part, a copy
that runs out of pages between its block and its tables above all. Which tables a
partial mapping has made does not matter, only that their number leaves the free
pages (`MmapTabsFacts`). `AddressAssumption` is used where a new area enters:
an area the tree takes is then one whose entries no other area has. Without it
`VmCheckPasses` is false.

**`PageTableProofs`** (any number of entries to a table, any layout of the board, any
ranges). `TablesAreATree`, `KernelMapStays`, `FullRangeFreed`, and `ImplementsHwMap`,
a refinement. None of them is inductive: whether a page may be given back depends on
where the walk is and on what it has done since it entered the table. The
invariant `IInv` is

* `TreeInv`: the tables are a tree in the pages that are not with the allocator, and
  no entry above the last level is a leaf. Lemmas about the tree say what the three
  kinds of writes do to it and to the translation of every address: an entry
  of the last level changes one address, and adding an empty table or taking one out
  none, the latter because everything in it is invalid;
* `PathInv`, `RangeInv`: the tables of the walk hang on the entries it has come
  through, and the indices of its levels are those of the page it stands at. The
  levels of the code each advance `va` by themselves; this says that they agree;
* `EarlyInv`: `setup_earlyvm` has mapped what is behind it and nothing else, with the
  pages of the early allocator all zero, and has used no more of them than one for the root
  and one for each region it has come to (`EarlyBound`), so that it does not run out;
* `MapInv`, `UndoInv`: what a mapping has behind it is what it was asked for, was
  not the kernel's, and is what an undo removes; the page that stopped it is still mapped;
* `UnmapInv`: everything behind an unmap is invalid and everything ahead valid, so
  that no table is missing and the shortcut for absent tables is never taken inside
  the range; the pages removed since a table was entered are a run that ends
  here, so that a count of `SV39_INDEX_PAGES` means the whole table, and
  conversely no table of the last level whose whole range lies behind is still linked;
* `RootInv`: the same one level up, the entries of the root whose whole range lies
  behind an unmap are zero. With the above this is `FullRangeFreed`, for tables of
  either level. It is proved apart, on top of `IInv`;
* `FreeInv`: the entries behind a free are clear;
* `ReqInv` and `KernelMapStays`: the ranges are inside the address space; the kernel's
  translations.

The indices are quotients and remainders of page numbers; `Addr` is the inverse, and
the lemmas of the first section reduce what the walks need of them to products.
For the refinement each step is shown to change nothing that callers see
(`Unseen`) or to be the step of `HwMap` that the call promises: `-EEXIST` only with
a page of the range mapped, and success only onto pages that were not.

**`BootProofs`** (any number of harts and modules). `InitOnce`, `InitInOrder`,
`SlfcheckAlone`, `TypeOK`. The invariant says that hart 0 is the only one
that can be in an init function's body before `module_inited` is published, that
the flags set are those below its position, that the loop of `boot_harts` never
touches a running hart, and that `bootdone_cpus` is the number of harts
that have arrived, so that CPUS of them means all.

**Only model-checked.** Liveness (`DrainEnds`, `SomeoneEnters`,
`SomeCallReturns`, `AllBoot`) is out of this prover's reach. The properties of
`Containers`, `FdtBlob` and `DtsOverlay` are checked on the instances above and not
proved: the trees and the device tree modules are built from recursive operators, and
what they compute follows by induction over data; both are out of this prover's reach.
`NoFrameLost` is false.

## 5. Not modelled

Listed with reasons in `PROJECT.json`. In short:

* Logging, console, strings and formatting carry no state that the properties
  are about. The kernel configuration tools are vendored build tools.
* The contents of pages and objects, cache colouring, and loading `satp`;
  `__arch_hw_reset_prot` and `vma_dup_cow` are empty functions. Lazy allocation
  of memory areas (`pa` of -1) has no caller.
* memblock's `for_each` and the merge of two allocators.
* libfdt: address and size cells (`fdt_addresses.c`), error strings, blobs older
  than version 16. A path with a component that names several siblings up to their
  unit addresses is left open, as libfdt leaves it.
* dtc: the lexer and expressions, labels inside values, the checks that warn
  about bindings and formats, check options and `-f`, sorting, and input and output
  other than source and blob.

Memory ordering is taken to be sequentially consistent, which the full-barrier
`__sync`-style atomics around every shared access in the modelled code justify
for data accessed under locks.

## 6. Plan

Done: locks, page allocator, object caches, boot, page tables, address spaces,
containers, and the device tree tools, with their runs; the proofs of section 4.
What is left, in this order:

1. Compositions: `Vm` over `HwMap` and `Slab` over `PageAlloc` by instance.
2. The logging module's lock callback, which is installed while the boot hart
   already logs.
3. Blobs with address and size cells, and the warnings about them.
