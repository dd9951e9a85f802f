-------------------------------- MODULE Slab --------------------------------
(***************************************************************************)
(* The object caches of ACO-OS (module/mm/kmem_cache/slab.c).  A cache     *)
(* keeps its slabs, one block of the page allocator each, on three lists;  *)
(* a slab keeps its free objects on a list threaded through an array of    *)
(* indices, whose last element points to itself and whose entry for an     *)
(* object in use is -1.                                                    *)
(*                                                                         *)
(* kmem_obj_alloc and kmem_obj_free hold the lock of the cache from their  *)
(* first to their last access, and the page lock they nest in it is never  *)
(* held while waiting for the cache, so a call is one step; kmem_obj_alloc *)
(* has two when it grows the cache, with the lock held in between.         *)
(* kmem_cache_init runs without the lock, on a cache nobody else has yet,  *)
(* one block at a time, while the other caches compete for blocks.         *)
(*                                                                         *)
(* The page allocator is the abstract one: a call returns some block that  *)
(* is not in use, or NULL (other parts of the kernel use it too).          *)
(***************************************************************************)
EXTENDS Integers, Sequences, FiniteSets

CONSTANTS
    CACHES,       \* kmem_cache_t
    BLOCKS,       \* blocks of pages, by the head that stands for them
    OBJ_ALL,      \* [CACHES -> Nat]  objects per slab, 0 if none fits
    PG_ORLIMIT,   \* [CACHES -> Nat]  pgor_limit
    INIT_ALLOC    \* [CACHES -> Nat]  init_pgor_alloc

ASSUME SlabAssumption ==
    /\ OBJ_ALL \in [CACHES -> Nat]
    /\ PG_ORLIMIT \in [CACHES -> Nat \ {0}]
    /\ INIT_ALLOC \in [CACHES -> Nat]
    /\ \A k \in CACHES : INIT_ALLOC[k] <= PG_ORLIMIT[k]

VARIABLES
    state,    \* [CACHES -> {"down", "init", "up", "grown"}]; "grown": lock held
    obj_num,  \* [CACHES -> Nat]  free objects, as kmem_cache_t counts them
    pg_orhas, \* [CACHES -> Nat]  slabs, as kmem_cache_t counts them
    list,     \* [CACHES -> [LISTS -> Seq(BLOCKS)]]  the lists of slabs
    slab,     \* [BLOCKS -> record]  slab_t at the start of the block
    pgtype,   \* [BLOCKS -> {"BUDDY", "SLAB"}]
    avail,    \* blocks the page allocator could hand out
    live,     \* objects handed out, <<cache, block, index>> (history)
    panic     \* an ASSERT has failed

cacheVars == <<obj_num, pg_orhas, list>>
vars == <<state, cacheVars, slab, pgtype, avail, live, panic>>

LISTS == {"free", "full", "partial"}

NoSlab == [obj_all |-> 0, obj_free |-> 0, head |-> -1, tail |-> -1, idx |-> <<>>]

NoLists == [l \in LISTS |-> <<>>]

Init ==
    /\ state = [k \in CACHES |-> "down"]
    /\ obj_num = [k \in CACHES |-> 0] /\ pg_orhas = [k \in CACHES |-> 0]
    /\ list = [k \in CACHES |-> NoLists]
    /\ slab = [b \in BLOCKS |-> NoSlab]
    /\ pgtype = [b \in BLOCKS |-> "BUDDY"]
    /\ avail = BLOCKS /\ live = {} /\ panic = FALSE

-----------------------------------------------------------------------------
(* The lists of list.h.                                                    *)

Listed(s) == {s[i] : i \in 1..Len(s)}

(* list_del of a block on the list.                                        *)
ListDel(s, b) ==
    LET at == CHOOSE i \in 1..Len(s) : s[i] = b
    IN  [i \in 1..(Len(s) - 1) |-> IF i < at THEN s[i] ELSE s[i + 1]]

-----------------------------------------------------------------------------
(* slab_t                                                                  *)

(* init_slab_xip: every object on the free list, in index order.  The      *)
(* array is indexed from 0.                                                *)
NewSlab(n) ==
    [obj_all |-> n, obj_free |-> n, head |-> 0, tail |-> n - 1,
     idx |-> [i \in 0..(n - 1) |-> IF i # n - 1 THEN i + 1 ELSE i]]

(* slab_alloc: the object is the old head.                                 *)
SlabAlloc(s) ==
    [s EXCEPT !.obj_free = @ - 1,
              !.idx[s.head] = -1,
              !.head = IF s.obj_free = 1 THEN -1 ELSE s.idx[s.head],
              !.tail = IF s.obj_free = 1 THEN -1 ELSE @]

(* Seeded fault: the object is linked from the old tail but does not       *)
(* become the tail.                                                        *)
SlabFreeKeepsTail(s, i) ==
    IF s.obj_free = 0
    THEN [s EXCEPT !.obj_free = 1, !.head = i, !.tail = i, !.idx[i] = i]
    ELSE [s EXCEPT !.obj_free = @ + 1, !.idx = [@ EXCEPT ![s.tail] = i, ![i] = i]]

(* slab_free: object i joins the list at its tail.                         *)
SlabFree(s, i) ==
    IF s.obj_free = 0
    THEN [s EXCEPT !.obj_free = 1, !.head = i, !.tail = i, !.idx[i] = i]
    ELSE [s EXCEPT !.obj_free = @ + 1, !.tail = i,
                   !.idx = [@ EXCEPT ![s.tail] = i, ![i] = i]]

(* The ASSERTs of slab_alloc and slab_free.                                *)
SlabAllocAsserts(s) == s.obj_free # 0 /\ s.head # -1

SlabFreeAsserts(s, i) ==
    /\ i \in 0..(s.obj_all - 1) /\ s.idx[i] = -1
    /\ IF s.obj_free = 0 THEN s.head = -1 /\ s.tail = -1 ELSE s.head # -1 /\ s.tail # -1

-----------------------------------------------------------------------------
(* kmem_cache_init and kmem_cache_deinit                                   *)

(* A block of the page allocator becomes a slab, on the free list.         *)
AddSlab(k, b) ==
    /\ b \in avail
    /\ avail' = avail \ {b}
    /\ pgtype' = [pgtype EXCEPT ![b] = "SLAB"]
    /\ slab' = [slab EXCEPT ![b] = NewSlab(OBJ_ALL[k])]
    /\ obj_num' = [obj_num EXCEPT ![k] = @ + OBJ_ALL[k]]
    /\ pg_orhas' = [pg_orhas EXCEPT ![k] = @ + 1]
    /\ list' = [list EXCEPT ![k]["free"] = Append(@, b)]
    /\ UNCHANGED <<live, panic>>

(* kmem_cache_init up to its loop.                                         *)
CacheInit(k) ==
    /\ state[k] = "down"
    /\ state' = [state EXCEPT ![k] = IF INIT_ALLOC[k] = 0 THEN "up" ELSE "init"]
    /\ obj_num' = [obj_num EXCEPT ![k] = 0]
    /\ pg_orhas' = [pg_orhas EXCEPT ![k] = 0]
    /\ list' = [list EXCEPT ![k] = NoLists]
    /\ UNCHANGED <<slab, pgtype, avail, live, panic>>

(* One round of the loop, with a block that can hold objects.              *)
CacheInitBlock(k, b) ==
    /\ state[k] = "init" /\ OBJ_ALL[k] > 0
    /\ AddSlab(k, b)
    /\ state' = [state EXCEPT ![k] = IF pg_orhas[k] + 1 = INIT_ALLOC[k] THEN "up" ELSE @]

(* Blocks on the free list of a cache go back to the page allocator.       *)
GiveBack(k) ==
    LET blocks == Listed(list[k]["free"])
    IN  /\ avail' = avail \cup blocks
        /\ pgtype' = [b \in BLOCKS |-> IF b \in blocks THEN "BUDDY" ELSE pgtype[b]]
        /\ slab' = [b \in BLOCKS |-> IF b \in blocks THEN NoSlab ELSE slab[b]]
        /\ list' = [list EXCEPT ![k]["free"] = <<>>]

(* Seeded fault: the blocks taken so far are not given back.               *)
CacheInitFailLeaks(k) ==
    /\ state[k] = "init"
    /\ list' = [list EXCEPT ![k]["free"] = <<>>]
    /\ state' = [state EXCEPT ![k] = "down"]
    /\ UNCHANGED <<obj_num, pg_orhas, slab, pgtype, avail, live, panic>>

(* free_kmm_cache: no block, or one too small for an object.  The counts   *)
(* keep what they had reached; the caller is told and drops the cache.     *)
CacheInitFail(k) ==
    /\ state[k] = "init"
    /\ GiveBack(k)
    /\ state' = [state EXCEPT ![k] = "down"]
    /\ UNCHANGED <<obj_num, pg_orhas, live, panic>>

(* kmem_cache_deinit, called when every object has come back.  The final   *)
(* memset clears the first eight bytes, the lock word and obj_num.         *)
CacheDeinit(k) ==
    /\ state[k] = "up"
    /\ \A o \in live : o[1] # k
    /\ IF list[k]["full"] = <<>> /\ list[k]["partial"] = <<>>
       THEN /\ GiveBack(k)
            /\ obj_num' = [obj_num EXCEPT ![k] = 0]
            /\ state' = [state EXCEPT ![k] = "down"]
            /\ UNCHANGED <<pg_orhas, panic>>
       ELSE panic' = TRUE /\ UNCHANGED <<state, cacheVars, slab, pgtype, avail>>
    /\ UNCHANGED live

-----------------------------------------------------------------------------
(* kmem_obj_alloc                                                          *)

(* A call that finds the cache empty and may not, or cannot, grow it       *)
(* returns NULL; a block too small for an object is given back at once, so *)
(* that nothing stays changed.  Such a call is a stuttering step.          *)

(* Seeded fault: the limit is not looked at.                               *)
ObjGrowUnlimited(k, b) ==
    /\ state[k] = "up"
    /\ obj_num[k] = 0 /\ OBJ_ALL[k] > 0
    /\ AddSlab(k, b)
    /\ state' = [state EXCEPT ![k] = "grown"]

(* The cache is empty and grows by one slab; its lock stays held.          *)
ObjGrow(k, b) ==
    /\ state[k] = "up"
    /\ obj_num[k] = 0 /\ OBJ_ALL[k] > 0
    /\ pg_orhas[k] < PG_ORLIMIT[k]
    /\ AddSlab(k, b)
    /\ state' = [state EXCEPT ![k] = "grown"]

(* Block b leaves one list for the tail of another.                        *)
Move(k, b, from, to) ==
    IF from = to THEN UNCHANGED list
    ELSE list' = [list EXCEPT ![k][from] = ListDel(@, b), ![k][to] = Append(@, b)]

(* An object from the first partial slab, or else from the first free one; *)
(* the slab moves to the list that fits what it has left.  With both lists *)
(* empty the list head would be taken for a page frame.                    *)
ObjTake(k) ==
    LET from == IF list[k]["partial"] # <<>> THEN "partial" ELSE "free"
        b    == Head(list[k][from])
        s    == SlabAlloc(slab[b])
    IN  /\ \/ state[k] = "up" /\ obj_num[k] # 0
           \/ state[k] = "grown"
        /\ state' = [state EXCEPT ![k] = "up"]
        /\ IF list[k][from] # <<>> /\ SlabAllocAsserts(slab[b])
           THEN /\ slab' = [slab EXCEPT ![b] = s]
                /\ live' = live \cup {<<k, b, slab[b].head>>}
                /\ obj_num' = [obj_num EXCEPT ![k] = @ - 1]
                /\ Move(k, b, from, IF s.obj_free = 0 THEN "full" ELSE "partial")
                /\ UNCHANGED <<pg_orhas, panic>>
           ELSE panic' = TRUE /\ UNCHANGED <<slab, live, cacheVars>>
        /\ UNCHANGED <<pgtype, avail>>

-----------------------------------------------------------------------------
(* kmem_obj_free                                                           *)

(* The blocks the search looks at before, and including, block b.          *)
Visited(s, b) ==
    {s[i] : i \in {j \in 1..Len(s) : \A h \in 1..(j - 1) : s[h] # b}}

(* The ASSERTs the search makes on each slab of the two lists.             *)
SearchAsserts(k, b) ==
    LET onPartial == Visited(list[k]["partial"], b)
        onFull    == IF b \in onPartial THEN {} ELSE Visited(list[k]["full"], b)
    IN  /\ \A q \in onPartial : pgtype[q] = "SLAB" /\ slab[q].obj_all > slab[q].obj_free
        /\ \A q \in onFull : pgtype[q] = "SLAB" /\ slab[q].obj_free = 0

(* Where a slab belongs after an object has come back to it.               *)
NewList(s) == IF s.obj_free = s.obj_all THEN "free" ELSE "partial"

(* The slab is looked for on the partial and then on the full list; an     *)
(* address in neither is ignored.                                          *)
ObjFree(k, b, i) ==
    LET from == IF b \in Listed(list[k]["partial"]) THEN "partial" ELSE "full"
        s    == SlabFree(slab[b], i)
    IN  /\ state[k] = "up"
        /\ <<k, b, i>> \in live
        /\ live' = live \ {<<k, b, i>>}
        /\ IF ~SearchAsserts(k, b) \/ (b \in Listed(list[k][from]) /\ ~SlabFreeAsserts(slab[b], i))
           THEN panic' = TRUE /\ UNCHANGED <<cacheVars, slab>>
           ELSE IF b \notin Listed(list[k][from]) THEN UNCHANGED <<cacheVars, slab, panic>>
           ELSE /\ slab' = [slab EXCEPT ![b] = s]
                /\ obj_num' = [obj_num EXCEPT ![k] = @ + 1]
                /\ Move(k, b, from, NewList(s))
                /\ UNCHANGED <<pg_orhas, panic>>
        /\ UNCHANGED <<state, pgtype, avail>>

Next ==
    \E k \in CACHES :
        \/ CacheInit(k) \/ CacheInitFail(k) \/ CacheDeinit(k) \/ ObjTake(k)
        \/ \E b \in BLOCKS : CacheInitBlock(k, b) \/ ObjGrow(k, b)
        \/ \E o \in live : o[1] = k /\ ObjFree(k, o[2], o[3])

Spec == Init /\ [][Next]_vars

-----------------------------------------------------------------------------
(* Properties                                                              *)

(* The blocks of a cache, and those of its objects that nobody has.        *)
Slabs(k) == UNION {Listed(list[k][l]) : l \in LISTS}

FreeObjects(k) == {o \in Slabs(k) \X (0..(OBJ_ALL[k] - 1)) : <<k, o[1], o[2]>> \notin live}

(* The free list threaded through the index array reaches exactly the      *)
(* objects that are not in use, each once, from its head to the            *)
(* self-pointing tail, so that slab_alloc hands out no object twice and    *)
(* loses none, in whatever order objects come back.                        *)
FreeListExact ==
    \A k \in CACHES : \A b \in Slabs(k) :
        LET s       == slab[b]
            inUse   == {i \in 0..(s.obj_all - 1) : <<k, b, i>> \in live}
            walk[j \in 0..s.obj_free] == IF j = 0 THEN s.head ELSE s.idx[walk[j - 1]]
        IN  /\ inUse = {i \in 0..(s.obj_all - 1) : s.idx[i] = -1}
            /\ s.obj_free = s.obj_all - Cardinality(inUse)
            /\ s.obj_free = 0 => s.head = -1 /\ s.tail = -1
            /\ s.obj_free > 0 =>
                 /\ {walk[j] : j \in 0..(s.obj_free - 1)} = (0..(s.obj_all - 1)) \ inUse
                 /\ walk[s.obj_free - 1] = s.tail /\ s.idx[s.tail] = s.tail

(* Outside a call the three lists of a cache sort its slabs by what they   *)
(* have left, with no slab on two lists or twice on one, and obj_num and   *)
(* pg_orhas, from which kmem_obj_alloc decides whether to grow, are the    *)
(* free objects and the slabs the lists really hold, within the limit.     *)
(* So no ASSERT of slab.c fails while callers free only what they were     *)
(* given: a cache that counts an object has a slab to take it from, and    *)
(* one whose objects are all back has only free slabs.                     *)
ListsExact ==
  /\ ~panic
  /\ \A k \in CACHES : state[k] # "down" =>
        /\ \A l \in LISTS : Cardinality(Listed(list[k][l])) = Len(list[k][l])
        /\ pg_orhas[k] = Len(list[k]["free"]) + Len(list[k]["full"]) + Len(list[k]["partial"])
        /\ pg_orhas[k] = Cardinality(Slabs(k)) /\ pg_orhas[k] <= PG_ORLIMIT[k]
        /\ obj_num[k] = Cardinality(FreeObjects(k))
        /\ \A b \in Listed(list[k]["free"]) : slab[b].obj_free = slab[b].obj_all
        /\ \A b \in Listed(list[k]["full"]) : slab[b].obj_free = 0
        /\ \A b \in Listed(list[k]["partial"]) : slab[b].obj_free \in 1..(slab[b].obj_all - 1)

(* Blocks of pages are conserved: each is with the page allocator or in    *)
(* exactly one cache, and is marked SLAB_ALLOCATOR exactly while a cache   *)
(* has it; a failed kmem_cache_init and kmem_cache_deinit leak none.       *)
BlocksConserved ==
    \A b \in BLOCKS :
        LET owners == {k \in CACHES : b \in Slabs(k)} IN
        /\ (b \in avail) <=> (owners = {})
        /\ Cardinality(owners) <= 1
        /\ (pgtype[b] = "SLAB") <=> (owners # {})
=============================================================================
