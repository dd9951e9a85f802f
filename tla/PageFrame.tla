------------------------------ MODULE PageFrame ------------------------------
(***************************************************************************)
(* The page frame table of ACO-OS (include/mm/pageframe.h,                 *)
(* module/mm/pageframe): one descriptor per page of the managed range,     *)
(* indexed by page id, with the metadata of the buddy allocator in it, and *)
(* the kernel's own check of that table.                                   *)
(***************************************************************************)
EXTENDS Integers, Sequences, FiniteSets

CONSTANTS
    NPAGES,        \* PGFRAME_PAGE_NUMS
    FREE_START,    \* first page of the free range left after the table itself
    FREE_END,      \* first page after the free range
    MAX_ORDER,     \* CONFIG_BUDDYSYSTEM_MAX_ORDER
    ORDER2PGNUM    \* [0..MAX_ORDER -> Nat], 1 << order

ASSUME PagesAssumption ==
    /\ NPAGES \in Nat /\ FREE_START \in Nat /\ FREE_END \in Nat
    /\ FREE_START < FREE_END /\ FREE_END <= NPAGES

ASSUME OrderAssumption ==
    /\ MAX_ORDER \in Nat \ {0}
    /\ ORDER2PGNUM \in [0..MAX_ORDER -> Nat]
    /\ ORDER2PGNUM[0] = 1
    /\ \A o \in 0..(MAX_ORDER - 1) : ORDER2PGNUM[o + 1] = 2 * ORDER2PGNUM[o]

PGS    == 0..(NPAGES - 1)
ORDERS == 0..(MAX_ORDER - 1)

(* enum pgfm_type: the allocator the head of a block belongs to.           *)
PGTYPES == {"BUDDY", "SLAB", "VMA"}
FLAGS   == {"FREE", "HEAD", "BODY", "STATIC"}

VARIABLES
    pgtype,   \* [PGS -> PGTYPES]
    flags,    \* [PGS -> SUBSET FLAGS]   meta.buddy_flags
    order     \* [PGS -> 0..MAX_ORDER]   meta.buddy_order

pgfmVars == <<pgtype, flags, order>>

(* pgfm_module_init: every page a block of its own, usable in the free     *)
(* range and static outside it (the kernel image and the table).           *)
PgfmInit ==
    /\ pgtype = [p \in PGS |-> "BUDDY"]
    /\ flags  = [p \in PGS |-> IF p \in FREE_START..(FREE_END - 1) THEN {"HEAD"} ELSE {"STATIC"}]
    /\ order  = [p \in PGS |-> 0]

(* The pages of the block with head h, if it has order o.                  *)
Block(h, o) == h..(h + ORDER2PGNUM[o] - 1)

IsHead(p) == "HEAD" \in flags[p]

-----------------------------------------------------------------------------
(* pages_slfcheck: walk the table with the number of body pages the last   *)
(* head still promises; NoHead before the first one.                       *)
NoHead == -233333

PageCheck(p, left) ==
    /\ pgtype[p] # "VMA"
    /\ "STATIC" \in flags[p] => flags[p] = {"STATIC"}
    /\ "HEAD" \in flags[p] => "BODY" \notin flags[p] /\ left \in {NoHead, 0}
    /\ "BODY" \in flags[p] => flags[p] = {"BODY"} /\ order[p] = MAX_ORDER

PagesSlfcheck ==
    LET scan[i \in 0..NPAGES] ==
          IF i = 0 THEN [ok |-> TRUE, left |-> NoHead]
          ELSE LET p == i - 1
                   bef == scan[i - 1]
               IN  [ok   |-> bef.ok /\ PageCheck(p, bef.left),
                    left |-> IF "HEAD" \in flags[p] THEN ORDER2PGNUM[order[p]] - 1
                             ELSE IF "BODY" \in flags[p] THEN bef.left - 1
                             ELSE bef.left]
    IN  scan[NPAGES].ok

PgfmTypeOK ==
    /\ pgtype \in [PGS -> PGTYPES]
    /\ flags \in [PGS -> SUBSET FLAGS]
    /\ order \in [PGS -> 0..MAX_ORDER]
=============================================================================
