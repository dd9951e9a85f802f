-------------------------- MODULE BuddyWaitProofs --------------------------
(***************************************************************************)
(* Buddy has no deadlock, for any number of CPUs, pages and orders.        *)
(*                                                                         *)
(* bkp_free waits for the page lock of a neighbour, on either side, with   *)
(* its own page locked, so no order of the page locks rules out a cycle.   *)
(* What does is that every such CPU also holds the pool of its order: the  *)
(* CPUs that could wait for each other all have different orders, each     *)
(* waits for the page 1 << order before or after its own, and going round  *)
(* a cycle would make a sum of different powers of two, each with a plus   *)
(* or a minus sign, zero.                                                  *)
(***************************************************************************)
EXTENDS BuddyProofs

-----------------------------------------------------------------------------
(* The distances at which CPUs wait.                                       *)

Multiples(d) == {k * d : k \in Int}

LEMMA MultiplesFacts ==
    ASSUME NEW d \in Nat, d >= 1
    PROVE  /\ 0 \in Multiples(d)
           /\ \A a, b \in Multiples(d) : a + b \in Multiples(d) /\ a - b \in Multiples(d)
           /\ d \notin Multiples(2 * d) /\ 0 - d \notin Multiples(2 * d)
<1>1. 0 = 0 * d /\ 0 \in Int
  OBVIOUS
<1>2. ASSUME NEW a \in Multiples(d), NEW b \in Multiples(d)
      PROVE  a + b \in Multiples(d) /\ a - b \in Multiples(d)
  <2>1. PICK i \in Int : a = i * d
    BY DEF Multiples
  <2>2. PICK j \in Int : b = j * d
    BY DEF Multiples
  <2>3. a + b = (i + j) * d /\ a - b = (i - j) * d
    BY <2>1, <2>2
  <2>4. i + j \in Int /\ i - j \in Int
    OBVIOUS
  <2> QED
    BY <2>3, <2>4 DEF Multiples
<1>3. ASSUME NEW k \in Int PROVE k * (2 * d) # d /\ k * (2 * d) # 0 - d
  <2>1. CASE k >= 1
    <3>1. k * (2 * d) >= 2 * d
      BY <2>1
    <3> QED
      BY <3>1
  <2>2. CASE k = 0
    BY <2>2
  <2>3. CASE k <= 0 - 1
    <3>1. k * (2 * d) <= 0 - (2 * d)
      BY <2>3
    <3> QED
      BY <3>1
  <2> QED
    BY <2>1, <2>2, <2>3
<1> QED
  BY <1>1, <1>2, <1>3 DEF Multiples

(* The sizes of all larger blocks are multiples of the size of a block.    *)
LEMMA SizesAreMultiples ==
    ASSUME NEW m \in 0..MAX_ORDER, NEW o \in 0..MAX_ORDER, m <= o
    PROVE  ORDER2PGNUM[o] \in Multiples(ORDER2PGNUM[m])
<1> DEFINE Bad == {n \in Nat : m <= n /\ n <= MAX_ORDER
                               /\ ORDER2PGNUM[n] \notin Multiples(ORDER2PGNUM[m])}
<1>0. ORDER2PGNUM[m] \in Nat /\ ORDER2PGNUM[m] >= 1
  BY ShiftFacts
<1>1. ASSUME Bad # {} PROVE FALSE
  <2>1. Bad \subseteq Nat
    OBVIOUS
  <2>2. PICK x \in Bad : \A y \in Bad : ~(y < x)
    BY <1>1, <2>1, LeastNatural
  <2>3. x # m
    <3>1. ORDER2PGNUM[m] = 1 * ORDER2PGNUM[m]
      BY <1>0
    <3>2. ORDER2PGNUM[m] \in Multiples(ORDER2PGNUM[m])
      BY <3>1 DEF Multiples
    <3> QED
      BY <3>2
  <2>4. x - 1 \in Nat /\ m <= x - 1 /\ x - 1 \notin Bad /\ x <= MAX_ORDER
    BY <2>2, <2>3, OrderAssumption
  <2>5. ORDER2PGNUM[x - 1] \in Multiples(ORDER2PGNUM[m])
    BY <2>4, OrderAssumption
  <2>6. x - 1 \in 0..(MAX_ORDER - 1) /\ x - 1 \in 0..MAX_ORDER
    BY <2>4, OrderAssumption
  <2>7. ORDER2PGNUM[x] = 2 * ORDER2PGNUM[x - 1] /\ ORDER2PGNUM[x - 1] \in Nat
    BY <2>6, OrderAssumption
  <2>8. ORDER2PGNUM[x] = ORDER2PGNUM[x - 1] + ORDER2PGNUM[x - 1]
    BY <2>7
  <2>9. ORDER2PGNUM[x] \in Multiples(ORDER2PGNUM[m])
    BY <1>0, <2>5, <2>8, MultiplesFacts
  <2> QED
    BY <2>9
<1>2. o \in Nat
  BY OrderAssumption
<1> QED
  BY <1>1, <1>2

(* Nobody can go round: if every member of T stands on a page, has an      *)
(* order that no other member has, and points to the member that stands    *)
(* one block before or after it, then T is empty.                          *)
LEMMA NoRoundTrip ==
    ASSUME NEW T, NEW page \in [T -> Int], NEW o \in [T -> ORDERS], NEW next \in [T -> T],
           \A x, y \in T : o[x] = o[y] => x = y,
           \A x \in T : \/ page[next[x]] = page[x] - ORDER2PGNUM[o[x]]
                        \/ page[next[x]] = page[x] + ORDER2PGNUM[o[x]]
    PROVE  T = {}
<1> DEFINE Closed(U) == U # {} /\ \A x \in U : next[x] \in U
           Above(m) == \E U \in SUBSET T : Closed(U) /\ \A x \in U : o[x] >= m
           Bad == {m \in Nat : m <= MAX_ORDER /\ ~Above(m)}
<1> SUFFICES ASSUME T # {} PROVE FALSE
  OBVIOUS
<1>0. \A x \in T : o[x] \in Int /\ 0 <= o[x] /\ o[x] < MAX_ORDER
  <2>1. \A x \in T : o[x] \in 0..(MAX_ORDER - 1)
    BY DEF ORDERS
  <2> QED
    BY <2>1, OrderAssumption
<1>1. ASSUME NEW m \in Nat, m < MAX_ORDER, Above(m) PROVE Above(m + 1)
  <2>1. PICK U \in SUBSET T : Closed(U) /\ \A x \in U : o[x] >= m
    BY <1>1
  <2>2. CASE \A x \in U : o[x] # m
    <3>1. \A x \in U : o[x] >= m + 1
      BY <1>0, <2>1, <2>2
    <3> QED
      BY <2>1, <3>1
  <2>3. ASSUME NEW z \in U, o[z] = m PROVE Above(m + 1)
    <3> DEFINE d == ORDER2PGNUM[m]
               dd == ORDER2PGNUM[m + 1]
               V == {x \in U : page[x] - page[next[z]] \in Multiples(dd)}
    <3>1. d \in Nat /\ d >= 1 /\ dd = 2 * d /\ dd \in Nat /\ dd >= 1
      <4>1. m \in 0..MAX_ORDER /\ m \in 0..(MAX_ORDER - 1) /\ m + 1 \in 0..MAX_ORDER
        BY <1>1, OrderAssumption
      <4> QED
        BY <4>1, ShiftFacts, OrderAssumption
    <3>2. next[z] \in U /\ page[next[z]] \in Int /\ page[z] \in Int
      BY <2>1, <2>3
    <3> HIDE DEF d, dd
    <3>3. next[z] \in V
      <4>1. page[next[z]] - page[next[z]] = 0
        BY <3>2
      <4> QED
        BY <3>1, <3>2, <4>1, MultiplesFacts
    <3>4. z \notin V
      <4>1. page[z] - page[next[z]] = d \/ page[z] - page[next[z]] = 0 - d
        BY <2>3, <3>1, <3>2 DEF d
      <4> QED
        BY <3>1, <4>1, MultiplesFacts
    <3>5. ASSUME NEW x \in V PROVE next[x] \in V /\ o[x] >= m + 1
      <4>1. x \in U /\ x # z
        BY <3>4
      <4>2. o[x] # m /\ o[x] \in ORDERS
        BY <2>1, <2>3, <4>1
      <4>3. o[x] >= m + 1 /\ o[x] \in 0..MAX_ORDER /\ m + 1 \in 0..MAX_ORDER
        <5>1. o[x] >= m
          BY <2>1, <4>1
        <5>2. o[x] \in 0..(MAX_ORDER - 1)
          BY <4>2 DEF ORDERS
        <5>3. o[x] \in Int /\ o[x] # m /\ m + 1 <= MAX_ORDER
          <6>1. x \in T
            BY <2>1, <4>1
          <6>2. m + 1 <= MAX_ORDER
            BY <1>1, OrderAssumption
          <6> QED
            BY <1>0, <4>2, <6>1, <6>2
        <5>4. o[x] >= m + 1
          BY <5>1, <5>3
        <5>5. m + 1 \in 0..MAX_ORDER
          BY <1>1, <5>3, OrderAssumption
        <5>6. 0..(MAX_ORDER - 1) \subseteq 0..MAX_ORDER
          BY OrderAssumption
        <5> QED
          BY <5>2, <5>4, <5>5, <5>6, Zenon
      <4>4. ORDER2PGNUM[o[x]] \in Multiples(dd) /\ ORDER2PGNUM[o[x]] \in Nat
        BY <4>3, SizesAreMultiples, OrderAssumption DEF dd
      <4>5. page[x] \in Int /\ next[x] \in U /\ page[next[x]] \in Int
        BY <2>1, <4>1
      <4>6. page[x] - page[next[z]] \in Multiples(dd)
        OBVIOUS
      <4>7. CASE page[next[x]] = page[x] - ORDER2PGNUM[o[x]]
        <5>1. page[next[x]] - page[next[z]] = (page[x] - page[next[z]]) - ORDER2PGNUM[o[x]]
          BY <3>2, <4>4, <4>5, <4>7
        <5>2. page[next[x]] - page[next[z]] \in Multiples(dd)
          BY <3>1, <4>4, <4>6, <5>1, MultiplesFacts
        <5> QED
          BY <4>3, <4>5, <5>2
      <4>8. CASE page[next[x]] = page[x] + ORDER2PGNUM[o[x]]
        <5>1. page[next[x]] - page[next[z]] = (page[x] - page[next[z]]) + ORDER2PGNUM[o[x]]
          BY <3>2, <4>4, <4>5, <4>8
        <5>2. page[next[x]] - page[next[z]] \in Multiples(dd)
          BY <3>1, <4>4, <4>6, <5>1, MultiplesFacts
        <5> QED
          BY <4>3, <4>5, <5>2
      <4> QED
        BY <2>1, <4>1, <4>7, <4>8
    <3>6. V \in SUBSET T
      BY <2>1
    <3> HIDE DEF V
    <3> QED
      BY <3>3, <3>5, <3>6, Zenon
  <2> QED
    BY <2>2, <2>3
<1>2. Above(0)
  <2>1. \A x \in T : o[x] >= 0
    BY OrderAssumption DEF ORDERS
  <2> QED
    BY <2>1
<1> HIDE DEF Above
<1>3. ASSUME Bad # {} PROVE FALSE
  <2>1. Bad \subseteq Nat
    OBVIOUS
  <2>2. PICK x \in Bad : \A y \in Bad : ~(y < x)
    BY <1>3, <2>1, LeastNatural
  <2>3. x # 0
    BY <1>2
  <2>4. x - 1 \in Nat /\ x - 1 < MAX_ORDER /\ x - 1 \notin Bad
    BY <2>2, <2>3, OrderAssumption
  <2>5. Above(x - 1)
    BY <2>4, OrderAssumption
  <2>6. Above((x - 1) + 1)
    BY <1>1, <2>4, <2>5
  <2> QED
    BY <2>6
<1>4. Above(MAX_ORDER)
  <2>1. MAX_ORDER \in Nat /\ MAX_ORDER <= MAX_ORDER
    BY OrderAssumption
  <2>2. MAX_ORDER \notin Bad
    BY <1>3
  <2> QED
    BY <2>1, <2>2, Zenon
<1>5. PICK U \in SUBSET T : Closed(U) /\ \A x \in U : o[x] >= MAX_ORDER
  BY <1>4 DEF Above
<1>6. PICK x \in U : x \in T
  BY <1>5
<1> QED
  BY <1>0, <1>5, <1>6, OrderAssumption

-----------------------------------------------------------------------------
(* Who holds which lock.                                                   *)

PageHeld == {"merge_bef", "merge_aft"}

(* Between two steps a page is locked only by the bkp_free that looks for  *)
(* neighbours of it, and a pool only by a call that works on its list.     *)
HoldersInv ==
    \A c \in CPUS :
        /\ \A p \in PGS : pageLk[p] = c <=> pc[c] \in PageHeld /\ pg[c] = p
        /\ \A o \in ORDERS : poolLk[o] = c <=> pc[c] \in PoolHeld /\ ord[c] = o

(* The other CPUs stay where they are.                                     *)
OthersStay(c) ==
    \A d \in CPUS : d # c => pc'[d] = pc[d] /\ pg'[d] = pg[d] /\ ord'[d] = ord[d]

(* A step outside all locks.                                               *)
LEMMA HoldersFree ==
    ASSUME TypeOK, HoldersInv, NEW c \in CPUS, OthersStay(c), UNCHANGED lockVars,
           pc[c] \notin PoolHeld, pc'[c] \notin PoolHeld
    PROVE  HoldersInv'
BY DEF TypeOK, HoldersInv, OthersStay, lockVars, PoolHeld, PageHeld

(* A step that locks a pool.                                               *)
LEMMA HoldersLockPool ==
    ASSUME TypeOK, HoldersInv, NEW c \in CPUS, OthersStay(c), poolLk[ord[c]] = NoCpu, UNCHANGED <<pageLk, ord>>,
           poolLk' = [poolLk EXCEPT ![ord[c]] = c],
           pc[c] \notin PoolHeld, pc'[c] \in PoolHeld \ PageHeld
    PROVE  HoldersInv'
<1>1. \A d \in CPUS, p \in PGS : pageLk'[p] = d <=> pc'[d] \in PageHeld /\ pg'[d] = p
  BY DEF HoldersInv, OthersStay, PoolHeld, PageHeld
<1>2. ASSUME NEW d \in CPUS, NEW o \in ORDERS
      PROVE  poolLk'[o] = d <=> pc'[d] \in PoolHeld /\ ord'[d] = o
  <2>1. poolLk[o] = d <=> pc[d] \in PoolHeld /\ ord[d] = o
    BY DEF HoldersInv
  <2>2. poolLk'[o] = IF o = ord[c] THEN c ELSE poolLk[o]
    BY DEF TypeOK
  <2>3. CASE d = c
    BY <2>1, <2>2, <2>3
  <2>4. CASE d # c
    BY <2>1, <2>2, <2>4, CpusAssumption DEF OthersStay
  <2> QED
    BY <2>3, <2>4
<1> QED
  BY <1>1, <1>2 DEF HoldersInv

(* A step that unlocks the pool, and the page if it was locked.            *)
LEMMA HoldersUnlock ==
    ASSUME TypeOK, HoldersInv, NEW c \in CPUS, OthersStay(c), pc[c] \in PoolHeld,
           poolLk[ord[c]] = c, poolLk' = [poolLk EXCEPT ![ord[c]] = NoCpu],
           IF pc[c] \in PageHeld THEN pageLk' = [pageLk EXCEPT ![pg[c]] = NoCpu]
                                 ELSE UNCHANGED pageLk,
           pc'[c] \notin PoolHeld
    PROVE  HoldersInv'
<1>0. NoCpu # c /\ \A d \in CPUS : d # NoCpu
  BY CpusAssumption
<1>1. ASSUME NEW d \in CPUS, NEW p \in PGS
      PROVE  pageLk'[p] = d <=> pc'[d] \in PageHeld /\ pg'[d] = p
  <2>1. /\ pageLk[p] = d <=> pc[d] \in PageHeld /\ pg[d] = p
        /\ pageLk[p] = c <=> pc[c] \in PageHeld /\ pg[c] = p
    BY DEF HoldersInv
  <2>2. pageLk'[p] = IF pc[c] \in PageHeld /\ p = pg[c] THEN NoCpu ELSE pageLk[p]
    BY DEF TypeOK
  <2>3. CASE d = c
    BY <1>0, <2>1, <2>2, <2>3 DEF PageHeld, PoolHeld
  <2>4. CASE d # c
    BY <1>0, <2>1, <2>2, <2>4 DEF OthersStay
  <2> QED
    BY <2>3, <2>4
<1>2. ASSUME NEW d \in CPUS, NEW o \in ORDERS
      PROVE  poolLk'[o] = d <=> pc'[d] \in PoolHeld /\ ord'[d] = o
  <2>1. poolLk[o] = d <=> pc[d] \in PoolHeld /\ ord[d] = o
    BY DEF HoldersInv
  <2>2. poolLk'[o] = IF o = ord[c] THEN NoCpu ELSE poolLk[o]
    BY DEF TypeOK
  <2>3. CASE d = c
    BY <1>0, <2>1, <2>2, <2>3
  <2>4. CASE d # c
    BY <1>0, <2>1, <2>2, <2>4 DEF OthersStay
  <2> QED
    BY <2>3, <2>4
<1> QED
  BY <1>1, <1>2 DEF HoldersInv

LEMMA HoldersInit == ASSUME Init PROVE HoldersInv
BY CpusAssumption DEF Init, HoldersInv, PageHeld, PoolHeld

LEMMA HoldersStep == ASSUME IInv, HoldersInv, [Next]_vars PROVE HoldersInv'
<1>0. TypeOK /\ TypeOK' /\ \A c \in CPUS : pc'[c] # "panic"
  BY NextIInv DEF IInv, LocalInv
<1>1. ASSUME NEW c \in CPUS, Panic(c) PROVE FALSE
  BY <1>0, <1>1 DEF Panic, Goto, TypeOK
<1>2. ASSUME NEW c \in CPUS, AllocPoolEmpty(c) \/ AllocReturn(c) \/ FreeEntry(c) \/ Split(c)
      PROVE  HoldersInv'
  <2>1. /\ UNCHANGED lockVars /\ pc[c] \in {"alloc_pool", "split", "free_entry"}
        /\ pc'[c] \in {"alloc_pool", "idle", "free_entry", "merge_pool", "insert_pool"}
        /\ OthersStay(c)
    <3>1. CASE AllocPoolEmpty(c)
      BY <1>0, <3>1 DEF AllocPoolEmpty, Goto, OthersStay, TypeOK
    <3>2. CASE AllocReturn(c)
      BY <1>0, <3>2 DEF AllocReturn, Goto, OthersStay, TypeOK
    <3>3. CASE FreeEntry(c)
      BY <1>0, <1>1, <3>3 DEF FreeEntry, AfterOrder, Goto, OthersStay, TypeOK
    <3>4. CASE Split(c)
      BY <1>0, <1>1, <3>4 DEF Split, Goto, OthersStay, TypeOK
    <3> QED
      BY <1>2, <3>1, <3>2, <3>3, <3>4
  <2> QED
    BY <1>0, <2>1, HoldersFree DEF PoolHeld
<1>3. ASSUME NEW c \in CPUS, BootFree(c) \/ Call(c) PROVE HoldersInv'
  <2>1. /\ UNCHANGED lockVars /\ pc[c] = "idle" /\ OthersStay(c)
        /\ pc'[c] \in {"idle", "free_entry", "alloc_pool"}
    <3>1. CASE BootFree(c)
      BY <1>0, <3>1 DEF BootFree, Goto, OthersStay, TypeOK
    <3>2. ASSUME NEW o \in ORDERS, Alloc(c, o)
          PROVE  /\ UNCHANGED lockVars /\ pc[c] = "idle" /\ OthersStay(c)
                 /\ pc'[c] \in {"idle", "free_entry", "alloc_pool"}
      BY <1>0, <3>2 DEF Alloc, Goto, OthersStay, TypeOK
    <3>3. ASSUME NEW p \in own, Free(c, p)
          PROVE  /\ UNCHANGED lockVars /\ pc[c] = "idle" /\ OthersStay(c)
                 /\ pc'[c] \in {"idle", "free_entry", "alloc_pool"}
      BY <1>0, <3>3 DEF Free, Goto, OthersStay, TypeOK
    <3>4. ASSUME NEW p \in own, NEW t \in CLIENT_TYPES \cup {"BUDDY"}, SetType(c, p, t)
          PROVE  /\ UNCHANGED lockVars /\ pc[c] = "idle" /\ OthersStay(c)
                 /\ pc'[c] \in {"idle", "free_entry", "alloc_pool"}
      BY <1>0, <3>4 DEF SetType, localVars, OthersStay
    <3> QED
      BY <1>3, <3>1, <3>2, <3>3, <3>4, Zenon DEF Call
  <2> QED
    BY <1>0, <2>1, HoldersFree DEF PoolHeld
<1>4. ASSUME NEW c \in CPUS, AllocPool(c) \/ MergePool(c) \/ InsertPool(c) PROVE HoldersInv'
  <2>1. /\ pc[c] \in {"alloc_pool", "merge_pool", "insert_pool"} /\ poolLk[ord[c]] = NoCpu
        /\ pc'[c] \in {"alloc_page", "merge_page", "insert_page"}
        /\ OthersStay(c) /\ UNCHANGED <<pageLk, ord>>
        /\ poolLk' = [poolLk EXCEPT ![ord[c]] = c]
    <3>1. CASE AllocPool(c)
      BY <1>0, <1>1, <3>1 DEF AllocPool, Goto, OthersStay, TypeOK
    <3>2. CASE MergePool(c) \/ InsertPool(c)
      BY <1>0, <3>2 DEF MergePool, InsertPool, Goto, OthersStay, TypeOK
    <3> QED
      BY <1>4, <3>1, <3>2
  <2> QED
    BY <1>0, <2>1, HoldersLockPool DEF PoolHeld, PageHeld
<1>5. ASSUME NEW c \in CPUS, MergePage(c) PROVE HoldersInv'
  <2>1. /\ pc[c] = "merge_page" /\ pc'[c] = "merge_bef" /\ OthersStay(c)
        /\ UNCHANGED <<poolLk, pg, ord>> /\ pageLk' = [pageLk EXCEPT ![pg[c]] = c]
        /\ pageLk[pg[c]] = NoCpu
    BY <1>0, <1>1, <1>5 DEF MergePage, Goto, OthersStay, TypeOK
  <2>2. ASSUME NEW d \in CPUS, NEW p \in PGS
        PROVE  pageLk'[p] = d <=> pc'[d] \in PageHeld /\ pg'[d] = p
    <3>1. pageLk[p] = d <=> pc[d] \in PageHeld /\ pg[d] = p
      BY DEF HoldersInv
    <3>2. pageLk'[p] = IF p = pg[c] THEN c ELSE pageLk[p]
      BY <1>0, <2>1 DEF TypeOK
    <3>3. CASE d = c
      BY <2>1, <3>1, <3>2, <3>3 DEF PageHeld
    <3>4. CASE d # c
      BY <2>1, <3>1, <3>2, <3>4, CpusAssumption DEF OthersStay
    <3> QED
      BY <3>3, <3>4
  <2>3. \A d \in CPUS : pc'[d] \in PoolHeld <=> pc[d] \in PoolHeld
    BY <2>1 DEF OthersStay, PoolHeld
  <2> QED
    BY <2>1, <2>2, <2>3 DEF HoldersInv
<1>6. ASSUME NEW c \in CPUS, NEW q, NEW low, NEW high, pc[c] \in PageHeld, Merge(c, q, low, high)
      PROVE  HoldersInv'
  <2>1. /\ OthersStay(c) /\ pc'[c] \in {"merge_pool", "insert_pool"}
        /\ poolLk' = [poolLk EXCEPT ![ord[c]] = NoCpu]
        /\ pageLk' = [pageLk EXCEPT ![pg[c]] = NoCpu]
    BY <1>0, <1>6 DEF Merge, Unlock, Goto, AfterOrder, OthersStay, TypeOK
  <2>2. pc[c] \in PoolHeld /\ poolLk[ord[c]] = c /\ pc'[c] \notin PoolHeld
    BY <1>6, <2>1 DEF IInv, PoolLockInv, PoolHeld, PageHeld
  <2> QED
    BY <1>0, <1>6, <2>1, <2>2, HoldersUnlock
<1>7. ASSUME NEW c \in CPUS, MergeBef(c) PROVE HoldersInv'
  <2>1. pc[c] = "merge_bef" /\ pc[c] \in PageHeld
    BY <1>7 DEF MergeBef, PageHeld
  <2>2. CASE Goto(c, "merge_aft") /\ UNCHANGED <<lockVars, pg, ord>>
    <3>1. \A d \in CPUS : /\ pc'[d] \in PoolHeld <=> pc[d] \in PoolHeld
                          /\ pc'[d] \in PageHeld <=> pc[d] \in PageHeld
      BY <1>0, <2>1, <2>2 DEF Goto, TypeOK, PoolHeld, PageHeld
    <3> QED
      BY <2>2, <3>1 DEF HoldersInv, lockVars
  <2> QED
    BY <1>6, <1>7, <2>1, <2>2, Zenon DEF MergeBef
<1>8. ASSUME NEW c \in CPUS, MergeAft(c) PROVE HoldersInv'
  <2>1. pc[c] = "merge_aft" /\ pc[c] \in PageHeld
    BY <1>8 DEF MergeAft, PageHeld
  <2>2. CASE Unlock(c) /\ Goto(c, "insert_pool") /\ UNCHANGED <<pg, ord>>
    <3>1. /\ OthersStay(c) /\ pc'[c] = "insert_pool"
          /\ poolLk' = [poolLk EXCEPT ![ord[c]] = NoCpu]
          /\ pageLk' = [pageLk EXCEPT ![pg[c]] = NoCpu]
      BY <1>0, <2>2 DEF Unlock, Goto, OthersStay, TypeOK
    <3>2. pc[c] \in PoolHeld /\ poolLk[ord[c]] = c /\ pc'[c] \notin PoolHeld
      BY <2>1, <3>1 DEF IInv, PoolLockInv, PoolHeld
    <3> QED
      BY <1>0, <2>1, <3>1, <3>2, HoldersUnlock
  <2> QED
    BY <1>6, <1>8, <2>1, <2>2, Zenon DEF MergeAft
<1>9. ASSUME NEW c \in CPUS, AllocPage(c) \/ InsertPage(c) PROVE HoldersInv'
  <2>1. /\ pc[c] \in {"alloc_page", "insert_page"} /\ pc'[c] \in {"split", "idle"}
        /\ OthersStay(c) /\ UNCHANGED pageLk /\ poolLk' = [poolLk EXCEPT ![ord[c]] = NoCpu]
    <3>1. CASE AllocPage(c)
      BY <1>0, <1>1, <3>1 DEF AllocPage, Goto, OthersStay, TypeOK
    <3>2. CASE InsertPage(c)
      BY <1>0, <1>1, <3>2 DEF InsertPage, Goto, OthersStay, TypeOK
    <3> QED
      BY <1>9, <3>1, <3>2
  <2>2. /\ pc[c] \in PoolHeld /\ pc[c] \notin PageHeld
        /\ poolLk[ord[c]] = c /\ pc'[c] \notin PoolHeld
    BY <2>1 DEF IInv, PoolLockInv, PoolHeld, PageHeld
  <2> QED
    BY <1>0, <2>1, <2>2, HoldersUnlock
<1>10. CASE UNCHANGED vars
  BY <1>10 DEF vars, lockVars, localVars, HoldersInv
<1> QED
  BY <1>2, <1>3, <1>4, <1>5, <1>7, <1>8, <1>9, <1>10, Zenon DEF Next, Step
-----------------------------------------------------------------------------
(* Whom a waiting CPU waits for.                                           *)

PoolWaits == {"alloc_pool", "merge_pool", "insert_pool"}

LEMMA WaitFacts ==
    ASSUME IInv, HoldersInv, NEW c \in CPUS, NEW h \in CPUS, h \in WaitsFor(c)
    PROVE  /\ pc[c] \in PoolWaits => pc[h] \in PoolHeld
           /\ pc[c] \notin PoolWaits => pc[h] \in PageHeld
           /\ pc[c] = "merge_bef" => pg[h] = pg[c] - ORDER2PGNUM[ord[c]]
           /\ pc[c] = "merge_aft" => pg[h] = pg[c] + ORDER2PGNUM[ord[c]]
<1>0. /\ \A p \in PGS : pageLk[p] = h => pc[h] \in PageHeld /\ pg[h] = p
      /\ \A o \in ORDERS : poolLk[o] = h => pc[h] \in PoolHeld
  BY DEF HoldersInv
<1>1. h # NoCpu
  BY CpusAssumption
<1>2. CASE pc[c] \in PoolWaits
  <2>1. h = poolLk[ord[c]]
    BY <1>2 DEF WaitsFor, PoolWaits
  <2>2. ord[c] \in ORDERS
    BY DEF IInv, TypeOK
  <2> QED
    BY <1>0, <1>2, <2>1, <2>2 DEF PoolWaits
<1>3. CASE pc[c] \in {"alloc_page", "free_entry", "merge_page", "insert_page"}
  <2>1. h = pageLk[pg[c]]
    BY <1>3 DEF WaitsFor
  <2>2. pg[c] \in PGS
    BY <1>3, AllocPageAsserts DEF IInv, LocalInv, FreePcs
  <2> QED
    BY <1>0, <1>3, <2>1, <2>2 DEF PoolWaits
<1>4. CASE pc[c] = "split"
  <2>1. h = pageLk[rst[c]] /\ rstn[c] # 0
    BY <1>1, <1>4 DEF WaitsFor
  <2>2. rst[c] \in PGS
    BY <1>4, <2>1, SplitAsserts
  <2> QED
    BY <1>0, <1>4, <2>1, <2>2 DEF PoolWaits
<1>5. CASE pc[c] = "merge_bef"
  <2>1. /\ h = pageLk[pg[c] - ORDER2PGNUM[ord[c]]]
        /\ pg[c] - ORDER2PGNUM[ord[c]] \in PGS
    BY <1>1, <1>5 DEF WaitsFor
  <2> QED
    BY <1>0, <1>5, <2>1 DEF PoolWaits
<1>6. CASE pc[c] = "merge_aft"
  <2>1. /\ h = pageLk[pg[c] + ORDER2PGNUM[ord[c]]]
        /\ pg[c] + ORDER2PGNUM[ord[c]] \in PGS
    BY <1>1, <1>6 DEF WaitsFor
  <2> QED
    BY <1>0, <1>6, <2>1 DEF PoolWaits
<1>7. CASE pc[c] \in {"idle", "panic"}
  BY <1>1, <1>7 DEF WaitsFor
<1>8. pc[c] \in PCS
  BY DEF IInv, TypeOK
<1> QED
  BY <1>2, <1>3, <1>4, <1>5, <1>6, <1>7, <1>8 DEF PCS, PoolWaits

LEMMA WaitsEnd == IInv /\ HoldersInv => NoWaitCycle
<1> SUFFICES ASSUME IInv, HoldersInv, NEW S \in SUBSET CPUS, S # {},
                    \A c \in S : WaitsFor(c) \cap S # {}
             PROVE  FALSE
  BY Zenon DEF NoWaitCycle
<1> DEFINE T == {c \in S : pc[c] \in PageHeld}
           next == [c \in T |-> CHOOSE h \in S : h \in WaitsFor(c)]
<1>1. ASSUME NEW c \in S PROVE \E h \in S : h \in WaitsFor(c)
  OBVIOUS
<1>2. T # {}
  <2>1. ASSUME NEW c \in S, pc[c] \notin PoolWaits PROVE T # {}
    <3>1. PICK h \in S : h \in WaitsFor(c)
      BY <1>1
    <3>2. pc[h] \in PageHeld
      BY <2>1, <3>1, WaitFacts
    <3> QED
      BY <3>2
  <2>2. ASSUME NEW c \in S, pc[c] \in PoolWaits PROVE T # {}
    <3>1. PICK h \in S : h \in WaitsFor(c)
      BY <1>1
    <3>2. pc[h] \in PoolHeld
      BY <2>2, <3>1, WaitFacts
    <3>3. pc[h] \notin PoolWaits
      BY <3>2 DEF PoolHeld, PoolWaits
    <3> QED
      BY <2>1, <3>3
  <2> QED
    BY <2>1, <2>2
<1>3. ASSUME NEW x \in T
      PROVE  /\ pg[x] \in Int /\ ord[x] \in ORDERS /\ next[x] \in T
             /\ \/ pg[next[x]] = pg[x] - ORDER2PGNUM[ord[x]]
                \/ pg[next[x]] = pg[x] + ORDER2PGNUM[ord[x]]
  <2>1. x \in S /\ x \in CPUS /\ pc[x] \in PageHeld
    OBVIOUS
  <2>2. next[x] \in S /\ next[x] \in WaitsFor(x)
    BY <1>1, <2>1
  <2>3. pc[next[x]] \in PageHeld
    BY <2>1, <2>2, WaitFacts DEF PageHeld, PoolWaits
  <2>4. pg[next[x]] = pg[x] - ORDER2PGNUM[ord[x]] \/ pg[next[x]] = pg[x] + ORDER2PGNUM[ord[x]]
    BY <2>1, <2>2, WaitFacts DEF PageHeld
  <2>5. pg[x] \in PGS /\ ord[x] \in ORDERS
    BY <2>1 DEF IInv, LocalInv, TypeOK, PageHeld, FreePcs
  <2>6. pg[x] \in Int
    BY <2>5, PagesAssumption DEF PGS
  <2> QED
    BY <2>2, <2>3, <2>4, <2>5, <2>6
<1>4. ASSUME NEW x \in T, NEW y \in T, ord[x] = ord[y] PROVE x = y
  <2>1. poolLk[ord[x]] = x /\ poolLk[ord[y]] = y
    BY DEF IInv, PoolLockInv, PageHeld, PoolHeld
  <2> QED
    BY <1>4, <2>1
<1> HIDE DEF T, next
<1> DEFINE page == [x \in T |-> pg[x]]
           o == [x \in T |-> ord[x]]
<1>5. page \in [T -> Int] /\ o \in [T -> ORDERS] /\ next \in [T -> T]
  <2>1. next = [x \in T |-> next[x]]
    BY DEF next
  <2> QED
    BY <1>3, <2>1
<1>6. /\ \A x, y \in T : o[x] = o[y] => x = y
      /\ \A x \in T : \/ page[next[x]] = page[x] - ORDER2PGNUM[o[x]]
                     \/ page[next[x]] = page[x] + ORDER2PGNUM[o[x]]
  BY <1>3, <1>4
<1> HIDE DEF page, o
<1>7. T = {}
  BY <1>5, <1>6, NoRoundTrip
<1> QED
  BY <1>2, <1>7

(* "priority lock sequence to prevent deadlock" (buddy_allocator.c): in    *)
(* bkp_alloc and bkp_free, on any number of CPUs, no set of CPUs ever      *)
(* waits for locks held within the set, so some lock wait always ends.     *)
THEOREM NoDeadlock == Spec => []NoWaitCycle
<1>1. Init => HoldersInv
  BY HoldersInit
<1>2. IInv /\ HoldersInv /\ [Next]_vars => HoldersInv'
  BY HoldersStep
<1>3. IInv /\ HoldersInv => NoWaitCycle
  BY WaitsEnd
<1> QED
  BY <1>1, <1>2, <1>3, Invariant, PTL DEF Spec
=============================================================================
