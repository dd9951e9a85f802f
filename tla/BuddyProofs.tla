---------------------------- MODULE BuddyProofs ----------------------------
(***************************************************************************)
(* Proofs about Buddy, for any number of CPUs, pages and orders.           *)
(***************************************************************************)
EXTENDS Buddy, WellFoundedInduction, SequenceTheorems, TLAPS

-----------------------------------------------------------------------------
(* Every nonempty set of naturals has a least element.                     *)
LEMMA LeastNatural ==
    ASSUME NEW T, T \subseteq Nat, T # {}
    PROVE  \E x \in T : \A y \in T : ~(y < x)
<1> DEFINE R == {ss \in Nat \X Nat : ss[1] < ss[2]}
<1>1. IsWellFoundedOn(R, Nat)
  BY NatLessThanWellFounded, Zenon DEF OpToRel
<1> HIDE DEF R
<1>2. PICK x \in T : \A y \in T : ~(<<y, x>> \in R)
  BY <1>1, WFMin
<1>3. \A y \in T : ~(y < x)
  BY <1>2 DEF R
<1> QED
  BY <1>3

(* 1 << order grows with the order.                                        *)
LEMMA ShiftFacts ==
    /\ \A o \in 0..MAX_ORDER : ORDER2PGNUM[o] \in Nat /\ ORDER2PGNUM[o] >= 1
    /\ \A a, b \in 0..MAX_ORDER : a <= b => ORDER2PGNUM[a] <= ORDER2PGNUM[b]
<1> DEFINE Grows(n) == /\ ORDER2PGNUM[n] >= 1
                       /\ \A a \in 0..n : ORDER2PGNUM[a] <= ORDER2PGNUM[n]
           Bad == {n \in Nat : n <= MAX_ORDER /\ ~Grows(n)}
<1>1. ASSUME Bad # {} PROVE FALSE
  <2>1. Bad \subseteq Nat
    OBVIOUS
  <2>2. PICK x \in Bad : \A y \in Bad : ~(y < x)
    BY <1>1, <2>1, LeastNatural
  <2>3. x # 0
    BY OrderAssumption
  <2>4. x - 1 \in Nat /\ x - 1 \notin Bad
    BY <2>2, <2>3
  <2>5. /\ ORDER2PGNUM[x - 1] >= 1
        /\ \A a \in 0..(x - 1) : ORDER2PGNUM[a] <= ORDER2PGNUM[x - 1]
    BY <2>4, OrderAssumption
  <2>6. ORDER2PGNUM[x] = 2 * ORDER2PGNUM[x - 1]
    BY <2>4, OrderAssumption
  <2>7. x \in 0..MAX_ORDER /\ x - 1 \in 0..MAX_ORDER
    BY <2>4, OrderAssumption
  <2>8. ORDER2PGNUM[x - 1] \in Nat /\ \A a \in 0..x : ORDER2PGNUM[a] \in Nat
    BY <2>7, OrderAssumption
  <2>9. \A a \in 0..x : a = x \/ a \in 0..(x - 1)
    BY <2>4
  <2>10. ORDER2PGNUM[x] >= 1 /\ \A a \in 0..x : ORDER2PGNUM[a] <= ORDER2PGNUM[x]
    BY <2>5, <2>6, <2>8, <2>9
  <2> QED
    BY <2>10
<1> HIDE DEF Grows
<1>2. \A n \in 0..MAX_ORDER : Grows(n)
  BY <1>1, OrderAssumption
<1> HIDE DEF Bad
<1> USE DEF Grows
<1>3. \A a, b \in 0..MAX_ORDER : a <= b => a \in 0..b
  BY OrderAssumption
<1> QED
  BY <1>2, <1>3, OrderAssumption

(* The loop of bkp_alloc finds a set bit in what is left to give back.     *)
LEMMA HighBitFacts ==
    ASSUME NEW n \in Nat, n # 0, n < ORDER2PGNUM[MAX_ORDER]
    PROVE  /\ HighBit(n) \in ORDERS
           /\ ORDER2PGNUM[HighBit(n)] <= n
<1> DEFINE Above == {i \in Nat : i <= MAX_ORDER /\ n < ORDER2PGNUM[i]}
<1>1. Above \subseteq Nat /\ MAX_ORDER \in Above
  BY OrderAssumption
<1>2. PICK x \in Above : \A y \in Above : ~(y < x)
  BY <1>1, LeastNatural
<1>3. x # 0
  BY OrderAssumption
<1>4. x - 1 \in ORDERS /\ x - 1 \notin Above
  BY <1>2, <1>3, OrderAssumption DEF ORDERS
<1>5. ORDER2PGNUM[x - 1] <= n /\ n < ORDER2PGNUM[(x - 1) + 1]
  BY <1>4, OrderAssumption DEF ORDERS
<1> QED
  BY <1>4, <1>5 DEF HighBit

NoRepeats(s) == \A i, j \in 1..Len(s) : s[i] = s[j] => i = j

(* list_del takes one page off a list and keeps the others in order.       *)
LEMMA ListDelFacts ==
    ASSUME NEW s \in Seq(PGS), NoRepeats(s), NEW p \in Listed(s)
    PROVE  /\ ListDel(s, p) \in Seq(PGS)
           /\ Len(ListDel(s, p)) = Len(s) - 1
           /\ Listed(ListDel(s, p)) = Listed(s) \ {p}
           /\ NoRepeats(ListDel(s, p))
<1> DEFINE at == CHOOSE i \in 1..Len(s) : s[i] = p
           t == [i \in 1..(Len(s) - 1) |-> IF i < at THEN s[i] ELSE s[i + 1]]
<1>1. at \in 1..Len(s) /\ s[at] = p
  BY DEF Listed
<1>2. ListDel(s, p) = t
  BY DEF ListDel
<1> HIDE DEF at
<1>3. Len(s) - 1 \in Nat
  BY <1>1
<1>4. t \in Seq(PGS) /\ Len(t) = Len(s) - 1
  BY <1>1, <1>3
<1>5. \A i \in 1..(Len(s) - 1) : t[i] = IF i < at THEN s[i] ELSE s[i + 1]
  OBVIOUS
<1> HIDE DEF t
<1>6. NoRepeats(t)
  <2> SUFFICES ASSUME NEW i \in 1..Len(t), NEW j \in 1..Len(t), t[i] = t[j] PROVE i = j
    BY DEF NoRepeats
  <2>1. /\ i \in 1..Len(s) /\ i + 1 \in 1..Len(s)
        /\ j \in 1..Len(s) /\ j + 1 \in 1..Len(s)
    BY <1>3, <1>4
  <2>2. \A h, k \in 1..Len(s) : s[h] = s[k] => h = k
    BY DEF NoRepeats
  <2>3. t[i] = (IF i < at THEN s[i] ELSE s[i + 1]) /\ t[j] = (IF j < at THEN s[j] ELSE s[j + 1])
    BY <1>4, <1>5
  <2>4. CASE i < at /\ j < at
    BY <2>1, <2>2, <2>3, <2>4
  <2>5. CASE ~(i < at) /\ ~(j < at)
    <3>1. i + 1 = j + 1
      BY <2>1, <2>2, <2>3, <2>5
    <3> QED
      BY <3>1
  <2>6. CASE i < at /\ ~(j < at)
    <3>1. i = j + 1
      BY <2>1, <2>2, <2>3, <2>6
    <3> QED
      BY <1>1, <3>1, <2>6
  <2>7. CASE ~(i < at) /\ j < at
    <3>1. i + 1 = j
      BY <2>1, <2>2, <2>3, <2>7
    <3> QED
      BY <1>1, <3>1, <2>7
  <2> QED
    BY <2>4, <2>5, <2>6, <2>7
<1>7. ASSUME NEW i \in 1..(Len(s) - 1) PROVE t[i] \in Listed(s) \ {p}
  <2>1. i \in 1..Len(s) /\ i + 1 \in 1..Len(s)
    BY <1>3
  <2>2. \A k \in 1..Len(s) : s[k] \in Listed(s) /\ (s[k] = p => k = at)
    BY <1>1 DEF NoRepeats, Listed
  <2>3. CASE i < at
    BY <1>1, <1>5, <2>1, <2>2, <2>3
  <2>4. CASE ~(i < at)
    <3>1. i + 1 # at
      BY <1>1, <2>1, <2>4
    <3> QED
      BY <1>5, <2>1, <2>2, <2>4, <3>1
  <2> QED
    BY <2>3, <2>4
<1>8. ASSUME NEW x \in Listed(s) \ {p} PROVE x \in Listed(t)
  <2>1. PICK i \in 1..Len(s) : s[i] = x
    BY DEF Listed
  <2>2. i # at
    BY <1>1, <2>1
  <2>3. CASE i < at
    BY <1>1, <1>4, <1>5, <2>1, <2>3 DEF Listed
  <2>4. CASE i > at
    <3>1. i - 1 \in 1..(Len(s) - 1) /\ t[i - 1] = x
      BY <1>1, <1>5, <2>1, <2>4
    <3> QED
      BY <1>4, <3>1 DEF Listed
  <2> QED
    BY <1>1, <2>2, <2>3, <2>4
<1>9. Listed(t) = Listed(s) \ {p}
  BY <1>4, <1>7, <1>8 DEF Listed
<1> QED
  BY <1>2, <1>4, <1>6, <1>9

(* list_add_tail of a page that is not on the list.                        *)
LEMMA AppendFacts ==
    ASSUME NEW s \in Seq(PGS), NoRepeats(s), NEW p \in PGS, p \notin Listed(s)
    PROVE  /\ Append(s, p) \in Seq(PGS)
           /\ Len(Append(s, p)) = Len(s) + 1
           /\ Listed(Append(s, p)) = Listed(s) \cup {p}
           /\ NoRepeats(Append(s, p))
           /\ s # <<>> => Append(s, p) # <<>> /\ Head(Append(s, p)) = Head(s)
<1>1. /\ Append(s, p) \in Seq(PGS)
      /\ Len(Append(s, p)) = Len(s) + 1
      /\ \A i \in 1..Len(s) : Append(s, p)[i] = s[i]
      /\ Append(s, p)[Len(s) + 1] = p
  OBVIOUS
<1>2. Listed(Append(s, p)) = Listed(s) \cup {p}
  <2>1. \A x \in Listed(s) \cup {p} : x \in Listed(Append(s, p))
    BY <1>1 DEF Listed
  <2>2. \A x \in Listed(Append(s, p)) : x \in Listed(s) \cup {p}
    BY <1>1 DEF Listed
  <2> QED
    BY <2>1, <2>2
<1>3. NoRepeats(Append(s, p))
  BY <1>1 DEF NoRepeats, Listed
<1>4. s # <<>> => Append(s, p) # <<>> /\ Head(Append(s, p)) = Head(s)
  OBVIOUS
<1> QED
  BY <1>1, <1>2, <1>3, <1>4

-----------------------------------------------------------------------------
(* The inductive invariant.                                                *)

PoolHeld == {"alloc_page", "merge_page", "merge_bef", "merge_aft", "insert_page"}
MergePcs == {"merge_pool", "merge_page", "merge_bef", "merge_aft"}

(* What the flags of a page can be.  A page the boot loop has not reached  *)
(* is as pgfm_module_init left it, and only an owned block has a type.     *)
PagesInv ==
    \A p \in PGS :
        /\ flags[p] \in {{"HEAD"}, {"HEAD", "FREE"}, {"BODY"}, {"STATIC"}}
        /\ flags[p] = {"BODY"} => order[p] = MAX_ORDER
        /\ p >= boot => flags[p] \in {{"HEAD"}, {"STATIC"}}
        /\ flags[p] = {"STATIC"} => ~(FREE_START <= p /\ p < FREE_END)
        /\ pgtype[p] # "BUDDY" => p \in own

(* What the local variables of a CPU mean at each point of its call.       *)
LocalInv ==
    \A c \in CPUS :
        /\ pc[c] # "panic"
        /\ pc[c] \in {"alloc_pool", "alloc_page"} => req[c] <= ord[c]
        /\ pc[c] \in {"idle", "alloc_pool", "alloc_page"} => ret[c] = NoPage
        /\ pc[c] = "split" => ret[c] # NoPage
        /\ ret[c] = NoPage => rstn[c] = 0
        /\ rstn[c] < ORDER2PGNUM[MAX_ORDER]
        /\ pc[c] \in FreePcs => pg[c] \in PGS
        /\ pc[c] \in FreePcs \ {"free_entry"} => order[pg[c]] = ord[c]
        /\ pc[c] \in MergePcs => ord[c] < MAX_ORDER - 1

(* A CPU that works on a list holds the lock of its pool, so that the      *)
(* block bkp_alloc has reserved stays at the head of it.                   *)
PoolLockInv ==
    \A c \in CPUS :
        /\ pc[c] \in PoolHeld => poolLk[ord[c]] = c
        /\ pc[c] = "alloc_page" => pool[ord[c]] # <<>> /\ pg[c] = Head(pool[ord[c]])

(* A list holds the free heads of its order, each once.                    *)
ListsInv ==
    \A o \in ORDERS :
        /\ Listed(pool[o]) = {p \in PGS : "FREE" \in flags[p] /\ order[p] = o}
        /\ NoRepeats(pool[o])

(* rest_block_num is the length of the list, or one less between its       *)
(* decrement and the list_del of bkp_alloc.                                *)
CountsInv ==
    \A o \in ORDERS :
        /\ (\A c \in CPUS : ~(pc[c] = "alloc_page" /\ ord[c] = o)) => rest[o] = Len(pool[o])
        /\ \A c \in CPUS : pc[c] = "alloc_page" /\ ord[c] = o => rest[o] = Len(pool[o]) - 1

IInv ==
    /\ TypeOK /\ PagesInv /\ LocalInv /\ PoolLockInv /\ ListsInv /\ CountsInv
    /\ Tiling /\ OneClaimPerBlock

-----------------------------------------------------------------------------
(* The invariant makes every ASSERT hold at the point where it is made.    *)

(* What the flags of a page say of it.                                     *)
LEMMA FlagFacts ==
    ASSUME PagesInv, NEW p \in PGS
    PROVE  /\ IsHead(p) <=> flags[p] \in {{"HEAD"}, {"HEAD", "FREE"}}
           /\ "FREE" \in flags[p] <=> flags[p] = {"HEAD", "FREE"}
           /\ "BODY" \in flags[p] <=> flags[p] = {"BODY"}
           /\ "STATIC" \in flags[p] <=> flags[p] = {"STATIC"}
           /\ {"HEAD"} # {"HEAD", "FREE"}
<1>1. flags[p] \in {{"HEAD"}, {"HEAD", "FREE"}, {"BODY"}, {"STATIC"}}
  BY DEF PagesInv
<1> QED
  BY <1>1 DEF IsHead

(* The list bkp_alloc takes a block from is not empty.                     *)
LEMMA AllocPoolAsserts ==
    ASSUME IInv, NEW c \in CPUS, AllocPool(c)
    PROVE  /\ pool[ord[c]] # <<>>
           /\ rest[ord[c]] = Len(pool[ord[c]])
           /\ \A d \in CPUS : ~(pc[d] \in PoolHeld /\ ord[d] = ord[c])
           /\ Head(pool[ord[c]]) \in PGS
<1> USE DEF IInv
<1>1. \A d \in CPUS : ~(pc[d] \in PoolHeld /\ ord[d] = ord[c])
  BY CpusAssumption DEF AllocPool, PoolLockInv
<1>2. ord[c] \in ORDERS
  BY DEF TypeOK
<1>3. rest[ord[c]] = Len(pool[ord[c]])
  BY <1>1, <1>2 DEF CountsInv, PoolHeld
<1>4. rest[ord[c]] # 0
  BY DEF AllocPool
<1>5. pool[ord[c]] \in Seq(PGS)
  BY <1>2 DEF TypeOK
<1>6. pool[ord[c]] # <<>>
  BY <1>3, <1>4
<1> QED
  BY <1>1, <1>3, <1>5, <1>6

(* The block bkp_alloc has reserved is a free head of the order it wants.  *)
LEMMA AllocPageAsserts ==
    ASSUME IInv, NEW c \in CPUS, pc[c] = "alloc_page"
    PROVE  /\ pg[c] \in PGS /\ ord[c] \in ORDERS /\ req[c] \in ORDERS
           /\ flags[pg[c]] = {"HEAD", "FREE"} /\ order[pg[c]] = ord[c]
           /\ pg[c] \in Listed(pool[ord[c]])
           /\ pool[ord[c]] \in Seq(PGS) /\ NoRepeats(pool[ord[c]])
           /\ poolLk[ord[c]] = c
<1> USE DEF IInv
<1>1. ord[c] \in ORDERS /\ req[c] \in ORDERS /\ pool[ord[c]] \in Seq(PGS)
  BY DEF TypeOK
<1>2. pool[ord[c]] # <<>> /\ pg[c] = Head(pool[ord[c]]) /\ poolLk[ord[c]] = c
  BY DEF PoolLockInv, PoolHeld
<1>3. pg[c] \in PGS /\ pg[c] \in Listed(pool[ord[c]])
  BY <1>1, <1>2 DEF Listed
<1>4. "FREE" \in flags[pg[c]] /\ order[pg[c]] = ord[c]
  BY <1>1, <1>3 DEF ListsInv
<1>5. flags[pg[c]] = {"HEAD", "FREE"}
  BY <1>3, <1>4, FlagFacts
<1> QED
  BY <1>1, <1>2, <1>3, <1>4, <1>5 DEF ListsInv

(* The next piece to split off starts at a body page.                      *)
LEMMA SplitAsserts ==
    ASSUME IInv, NEW c \in CPUS, pc[c] = "split", rstn[c] # 0
    PROVE  /\ rst[c] \in PGS /\ flags[rst[c]] = {"BODY"} /\ order[rst[c]] = MAX_ORDER
           /\ rstn[c] \in Nat /\ HighBit(rstn[c]) \in ORDERS
           /\ ORDER2PGNUM[HighBit(rstn[c])] <= rstn[c]
           /\ ORDER2PGNUM[HighBit(rstn[c])] \in Nat /\ ORDER2PGNUM[HighBit(rstn[c])] >= 1
           /\ InFreeRange(rst[c], rstn[c])
<1> USE DEF IInv
<1>1. rst[c] \in Nat /\ rstn[c] \in Nat
  BY PagesAssumption DEF TypeOK
<1>2. InFreeRange(rst[c], rstn[c])
  BY DEF Tiling, RemnantsApart
<1>3. rst[c] \in PGS /\ FREE_START <= rst[c] /\ rst[c] < FREE_END
  BY <1>1, <1>2, PagesAssumption DEF InFreeRange, PGS
<1>4. ~IsHead(rst[c])
  <2>1. SUFFICES ASSUME IsHead(rst[c]) PROVE FALSE
    OBVIOUS
  <2>2. order[rst[c]] \in ORDERS /\ Apart(rst[c], Size(rst[c]), rst[c], rstn[c])
    BY <1>3, <2>1 DEF Tiling, BlocksApart
  <2>3. Size(rst[c]) \in Nat /\ Size(rst[c]) >= 1
    BY <2>2, ShiftFacts, OrderAssumption DEF Size, ORDERS
  <2> QED
    BY <1>1, <2>2, <2>3 DEF Apart
<1>5. flags[rst[c]] # {"STATIC"}
  BY <1>3 DEF PagesInv
<1>6. flags[rst[c]] = {"BODY"} /\ order[rst[c]] = MAX_ORDER
  BY <1>3, <1>4, <1>5, FlagFacts DEF PagesInv
<1>7. rstn[c] < ORDER2PGNUM[MAX_ORDER]
  BY DEF LocalInv
<1>8. HighBit(rstn[c]) \in ORDERS /\ ORDER2PGNUM[HighBit(rstn[c])] <= rstn[c]
  BY <1>1, <1>7, HighBitFacts
<1>9. ORDER2PGNUM[HighBit(rstn[c])] \in Nat /\ ORDER2PGNUM[HighBit(rstn[c])] >= 1
  BY <1>8, ShiftFacts, OrderAssumption DEF ORDERS
<1> QED
  BY <1>1, <1>2, <1>3, <1>6, <1>8, <1>9

(* A block bkp_free works on stays the head it was when it was passed in.  *)
LEMMA FreeAsserts ==
    ASSUME IInv, NEW c \in CPUS, pc[c] \in FreePcs
    PROVE  /\ pg[c] \in PGS /\ pgtype[pg[c]] = "BUDDY" /\ flags[pg[c]] = {"HEAD"}
           /\ order[pg[c]] \in ORDERS
           /\ pc[c] # "free_entry" => order[pg[c]] = ord[c]
           /\ ord[c] \in ORDERS
<1> USE DEF IInv
<1>1. pg[c] \in PGS
  BY DEF LocalInv
<1>2. Frees(c, pg[c])
  BY DEF Frees
<1>3. flags[pg[c]] = {"HEAD"} /\ ~Owned(pg[c])
  BY <1>1, <1>2 DEF OneClaimPerBlock, OneClaim
<1>4. pgtype[pg[c]] = "BUDDY"
  BY <1>1, <1>3 DEF PagesInv, Owned
<1>5. order[pg[c]] \in ORDERS
  BY <1>1, <1>3 DEF Tiling, BlocksApart, IsHead
<1>6. pc[c] # "free_entry" => order[pg[c]] = ord[c]
  BY DEF LocalInv
<1> QED
  BY <1>1, <1>3, <1>4, <1>5, <1>6 DEF TypeOK

-----------------------------------------------------------------------------
(* Parts of the invariant that a step leaves alone with its variables.     *)

LEMMA TilingUnchanged ==
    ASSUME Tiling, TypeOK, TypeOK', UNCHANGED <<flags, order, rstn>>,
           \A c \in CPUS : rstn[c] # 0 => rst'[c] = rst[c]
    PROVE  Tiling'
<1>1. \A h : IsHead(h)' = IsHead(h) /\ Size(h)' = Size(h) /\ Block(h, order[h])' = Block(h, order[h])
  BY DEF IsHead, Size, Block
<1>2. \A c \in CPUS : Remnant(c)' = Remnant(c)
  <2> SUFFICES ASSUME NEW c \in CPUS PROVE Remnant(c)' = Remnant(c)
    OBVIOUS
  <2>1. CASE rstn[c] # 0
    BY <2>1 DEF Remnant
  <2>2. CASE rstn[c] = 0
    <3>1. rst[c] \in Nat /\ rst'[c] \in Nat /\ rstn'[c] = 0
      BY <2>2, PagesAssumption DEF TypeOK
    <3>2. Remnant(c) = {} /\ Remnant(c)' = {}
      BY <2>2, <3>1 DEF Remnant
    <3> QED
      BY <3>2
  <2> QED
    BY <2>1, <2>2
<1> QED
  BY <1>1, <1>2, Zenon DEF Tiling, BlocksApart, RemnantsApart, Covered, InFreeRange, Apart

LEMMA ClaimsUnchanged ==
    ASSUME OneClaimPerBlock, UNCHANGED <<flags, ret, own, boot>>,
           \A d \in CPUS : \A h \in PGS : Frees(d, h)' = Frees(d, h)
    PROVE  OneClaimPerBlock'
<1>1. \A h : IsHead(h)' = IsHead(h) /\ BootsLater(h)' = BootsLater(h) /\ Owned(h)' = Owned(h)
  BY DEF IsHead, BootsLater, Owned
<1>2. \A d, h : Returns(d, h)' = Returns(d, h)
  BY DEF Returns
<1> QED
  BY <1>1, <1>2, Zenon DEF OneClaimPerBlock, OneClaim

LEMMA ListsUnchanged ==
    ASSUME ListsInv, UNCHANGED <<pool, flags, order>>
    PROVE  ListsInv'
  BY DEF ListsInv

LEMMA CountsUnchanged ==
    ASSUME CountsInv, UNCHANGED <<pool, rest>>,
           \A d \in CPUS : \A o \in ORDERS :
               (pc'[d] = "alloc_page" /\ ord'[d] = o) <=> (pc[d] = "alloc_page" /\ ord[d] = o)
    PROVE  CountsInv'
  BY DEF CountsInv

(* A step that moves a CPU on within its call, and changes neither pages   *)
(* nor lists, keeps the invariant if it keeps the parts about that CPU.    *)
LEMMA QuietStep ==
    ASSUME IInv, NEW c \in CPUS,
           UNCHANGED <<sharedVars, pg, ret, rst, rstn, own, boot>>,
           \A d \in CPUS : d # c => pc'[d] = pc[d] /\ ord'[d] = ord[d],
           pc[c] \in FreePcs <=> pc'[c] \in FreePcs,
           pc[c] # "alloc_page" /\ pc'[c] # "alloc_page",
           TypeOK', LocalInv', PoolLockInv'
    PROVE  IInv'
<1> USE DEF IInv
<1>1. PagesInv'
  BY DEF PagesInv, sharedVars
<1>2. ListsInv'
  BY ListsUnchanged DEF sharedVars
<1>3. CountsInv'
  <2>1. \A d \in CPUS : \A o \in ORDERS :
          (pc'[d] = "alloc_page" /\ ord'[d] = o) <=> (pc[d] = "alloc_page" /\ ord[d] = o)
    OBVIOUS
  <2> QED
    BY <2>1, CountsUnchanged DEF sharedVars
<1>4. Tiling'
  BY TilingUnchanged DEF sharedVars
<1>5. OneClaimPerBlock'
  <2>1. \A d \in CPUS : \A h \in PGS : Frees(d, h)' = Frees(d, h)
    BY DEF Frees
  <2> QED
    BY <2>1, ClaimsUnchanged DEF sharedVars
<1> QED
  BY <1>1, <1>2, <1>3, <1>4, <1>5

-----------------------------------------------------------------------------
(* One lemma per step.  First the steps within a call that touch neither   *)
(* pages nor lists.                                                        *)

LEMMA AllocInv == ASSUME IInv, NEW c \in CPUS, NEW o \in ORDERS, Alloc(c, o) PROVE IInv'
<1> USE DEF IInv, Alloc, Goto, sharedVars, lockVars
<1>1. TypeOK'
  BY DEF TypeOK, PgfmTypeOK, PCS
<1>2. LocalInv'
  BY SMTT(20) DEF TypeOK, LocalInv, FreePcs, MergePcs, ORDERS
<1>3. PoolLockInv'
  BY DEF TypeOK, PoolLockInv, PoolHeld
<1> QED
  BY <1>1, <1>2, <1>3, QuietStep DEF TypeOK, FreePcs

LEMMA AllocPoolEmptyInv == ASSUME IInv, NEW c \in CPUS, AllocPoolEmpty(c) PROVE IInv'
<1> USE DEF IInv
<1>0. /\ ord[c] \in ORDERS /\ 0 \in ORDERS
      /\ ord[c] + 1 < MAX_ORDER => ord[c] + 1 \in ORDERS /\ (req[c] <= ord[c] => req[c] <= ord[c] + 1)
  <2>1. ord[c] \in ORDERS /\ req[c] \in ORDERS
    BY DEF TypeOK
  <2> QED
    BY <2>1, OrderAssumption, SMTT(20) DEF ORDERS
<1>1. pc[c] = "alloc_pool" /\ UNCHANGED <<sharedVars, lockVars, pg, ret, rst, rstn, own, boot>>
  BY DEF AllocPoolEmpty
<1>2. \/ /\ ord[c] + 1 < MAX_ORDER
         /\ ord' = [ord EXCEPT ![c] = ord[c] + 1] /\ UNCHANGED <<pc, req>>
      \/ /\ pc' = [pc EXCEPT ![c] = "idle"]
         /\ ord' = [ord EXCEPT ![c] = 0] /\ req' = [req EXCEPT ![c] = 0]
  BY DEF AllocPoolEmpty, Goto
<1> USE DEF sharedVars, lockVars
<1>3. CASE ord[c] + 1 < MAX_ORDER /\ ord' = [ord EXCEPT ![c] = ord[c] + 1] /\ UNCHANGED <<pc, req>>
  <2>1. TypeOK'
    BY <1>0, <1>1, <1>3 DEF TypeOK, PgfmTypeOK
  <2>2. LocalInv'
    BY <1>0, <1>1, <1>3 DEF TypeOK, LocalInv, FreePcs, MergePcs
  <2>3. PoolLockInv'
    BY <1>0, <1>1, <1>3 DEF TypeOK, PoolLockInv, PoolHeld
  <2> QED
    BY <1>1, <1>3, <2>1, <2>2, <2>3, QuietStep DEF TypeOK
<1>4. CASE /\ pc' = [pc EXCEPT ![c] = "idle"]
           /\ ord' = [ord EXCEPT ![c] = 0] /\ req' = [req EXCEPT ![c] = 0]
  <2>1. TypeOK'
    BY <1>0, <1>1, <1>4 DEF TypeOK, PgfmTypeOK, PCS
  <2>2. LocalInv'
    BY <1>0, <1>1, <1>4 DEF TypeOK, LocalInv, FreePcs, MergePcs
  <2>3. PoolLockInv'
    BY <1>0, <1>1, <1>4 DEF TypeOK, PoolLockInv, PoolHeld
  <2> QED
    BY <1>1, <1>4, <2>1, <2>2, <2>3, QuietStep DEF TypeOK, FreePcs
<1> QED
  BY <1>2, <1>3, <1>4

LEMMA FreeEntryInv == ASSUME IInv, NEW c \in CPUS, FreeEntry(c) PROVE IInv'
<1> USE DEF IInv
<1>0. pc[c] = "free_entry" /\ pc[c] \in FreePcs
  BY DEF FreeEntry, FreePcs
<1>1. /\ pg[c] \in PGS /\ pgtype[pg[c]] = "BUDDY" /\ flags[pg[c]] = {"HEAD"}
      /\ order[pg[c]] \in ORDERS /\ order[pg[c]] < MAX_ORDER
  <2>1. /\ pg[c] \in PGS /\ pgtype[pg[c]] = "BUDDY" /\ flags[pg[c]] = {"HEAD"}
        /\ order[pg[c]] \in ORDERS
    BY <1>0, FreeAsserts
  <2>2. \A o \in ORDERS : o < MAX_ORDER
    BY OrderAssumption DEF ORDERS
  <2> QED
    BY <2>1, <2>2
<1>2. /\ ord' = [ord EXCEPT ![c] = order[pg[c]]]
      /\ pc' = [pc EXCEPT ![c] = AfterOrder(order[pg[c]])]
      /\ UNCHANGED <<sharedVars, lockVars, pg, req, ret, rst, rstn, own, boot>>
  BY <1>1 DEF FreeEntry, Goto
<1>3. /\ AfterOrder(order[pg[c]]) \in {"merge_pool", "insert_pool"}
      /\ AfterOrder(order[pg[c]]) = "merge_pool" => order[pg[c]] < MAX_ORDER - 1
  BY DEF AfterOrder
<1> USE DEF sharedVars, lockVars
<1>4. TypeOK'
  BY <1>1, <1>2, <1>3 DEF TypeOK, PgfmTypeOK, PCS
<1>5. LocalInv'
  BY <1>0, <1>1, <1>2, <1>3 DEF TypeOK, LocalInv, FreePcs, MergePcs
<1>6. PoolLockInv'
  BY <1>0, <1>2, <1>3 DEF TypeOK, PoolLockInv, PoolHeld
<1> QED
  BY <1>0, <1>2, <1>3, <1>4, <1>5, <1>6, QuietStep DEF TypeOK, FreePcs

LEMMA LockPoolInv == ASSUME IInv, NEW c \in CPUS, MergePool(c) \/ InsertPool(c) PROVE IInv'
<1> USE DEF IInv
<1>1. /\ pc[c] \in {"merge_pool", "insert_pool"}
      /\ poolLk[ord[c]] = NoCpu
      /\ poolLk' = [poolLk EXCEPT ![ord[c]] = c]
      /\ pc' = [pc EXCEPT ![c] = IF pc[c] = "merge_pool" THEN "merge_page" ELSE "insert_page"]
      /\ UNCHANGED <<sharedVars, pageLk, pg, ord, req, ret, rst, rstn, own, boot>>
  BY DEF MergePool, InsertPool, Goto
<1> USE DEF sharedVars
<1>2. TypeOK'
  BY <1>1 DEF TypeOK, PgfmTypeOK, PCS
<1>3. LocalInv'
  BY <1>1 DEF TypeOK, LocalInv, FreePcs, MergePcs
<1>4. PoolLockInv'
  BY <1>1, CpusAssumption DEF TypeOK, PoolLockInv, PoolHeld
<1> QED
  BY <1>1, <1>2, <1>3, <1>4, QuietStep DEF TypeOK, FreePcs

LEMMA MergePageInv == ASSUME IInv, NEW c \in CPUS, MergePage(c) PROVE IInv'
<1> USE DEF IInv
<1>0. pc[c] = "merge_page" /\ pc[c] \in FreePcs
  BY DEF MergePage, FreePcs
<1>1. pg[c] \in PGS /\ pgtype[pg[c]] = "BUDDY" /\ order[pg[c]] = ord[c] /\ flags[pg[c]] = {"HEAD"}
  BY <1>0, FreeAsserts
<1>2. /\ pageLk' = [pageLk EXCEPT ![pg[c]] = c]
      /\ pc' = [pc EXCEPT ![c] = "merge_bef"]
      /\ UNCHANGED <<sharedVars, poolLk, pg, ord, req, ret, rst, rstn, own, boot>>
  BY <1>1 DEF MergePage, Goto
<1> USE DEF sharedVars
<1>3. TypeOK'
  BY <1>1, <1>2 DEF TypeOK, PgfmTypeOK, PCS
<1>4. LocalInv'
  BY <1>0, <1>2 DEF TypeOK, LocalInv, FreePcs, MergePcs
<1>5. PoolLockInv'
  BY <1>0, <1>2 DEF TypeOK, PoolLockInv, PoolHeld
<1> QED
  BY <1>0, <1>2, <1>3, <1>4, <1>5, QuietStep DEF TypeOK, FreePcs

(* A round of the merge loop that finds no neighbour to merge.             *)
LEMMA NoMergeInv ==
    ASSUME IInv, NEW c \in CPUS,
           \/ /\ pc[c] = "merge_bef"
              /\ Goto(c, "merge_aft")
              /\ UNCHANGED <<sharedVars, lockVars, pg, ord, req, ret, rst, rstn, own, boot>>
           \/ /\ pc[c] = "merge_aft"
              /\ Unlock(c)
              /\ Goto(c, "insert_pool")
              /\ UNCHANGED <<sharedVars, pg, ord, req, ret, rst, rstn, own, boot>>
    PROVE  IInv'
<1> USE DEF IInv, Goto, Unlock, sharedVars, lockVars
<1>1. TypeOK'
  BY DEF TypeOK, PgfmTypeOK, PCS
<1>2. LocalInv'
  BY DEF TypeOK, LocalInv, FreePcs, MergePcs
<1>3. PoolLockInv'
  <2>1. \A d \in CPUS : d # c /\ pc[d] \in PoolHeld => ord[d] # ord[c]
    BY DEF PoolLockInv, PoolHeld
  <2>2. \A d \in CPUS : d # c /\ pc[d] \in PoolHeld => pc'[d] = pc[d] /\ poolLk'[ord[d]] = poolLk[ord[d]]
    BY <2>1 DEF TypeOK
  <2>3. pc'[c] \in PoolHeld => poolLk'[ord[c]] = poolLk[ord[c]] /\ pc[c] \in PoolHeld
    BY DEF TypeOK, PoolHeld
  <2>4. pc'[c] # "alloc_page"
    BY DEF TypeOK
  <2>5. \A d \in CPUS : pc'[d] \in PoolHeld => pc[d] \in PoolHeld
    BY <2>3 DEF TypeOK
  <2>6. ord' = ord /\ pool' = pool /\ pg' = pg
    OBVIOUS
  <2>7. \A d \in CPUS : d # c => pc'[d] = pc[d]
    BY DEF TypeOK
  <2> QED
    BY <2>2, <2>3, <2>4, <2>5, <2>6, <2>7, Zenon DEF PoolLockInv
<1> QED
  BY <1>1, <1>2, <1>3, QuietStep DEF TypeOK, FreePcs

-----------------------------------------------------------------------------
(* Then the steps that pass a block from one party to another.             *)

LEMMA AllocReturnInv == ASSUME IInv, NEW c \in CPUS, AllocReturn(c) PROVE IInv'
<1> USE DEF IInv
<1>1. /\ pc[c] = "split" /\ rstn[c] = 0 /\ own' = own \cup {ret[c]}
      /\ ret' = [ret EXCEPT ![c] = NoPage] /\ rst' = [rst EXCEPT ![c] = 0]
      /\ pc' = [pc EXCEPT ![c] = "idle"]
      /\ UNCHANGED <<pgtype, flags, order, pool, rest, poolLk, pageLk, pg, ord, req, rstn, boot>>
  BY DEF AllocReturn, Goto, sharedVars, lockVars
<1>2. ret[c] \in PGS
  BY <1>1 DEF LocalInv, TypeOK
<1>3. TypeOK'
  BY <1>1, <1>2, PagesAssumption DEF TypeOK, PgfmTypeOK, PCS
<1>4. PagesInv'
  BY <1>1 DEF PagesInv
<1>5. LocalInv'
  BY <1>1 DEF TypeOK, LocalInv, FreePcs, MergePcs
<1>6. PoolLockInv'
  BY <1>1 DEF TypeOK, PoolLockInv, PoolHeld
<1>7. ListsInv'
  BY <1>1, ListsUnchanged
<1>8. CountsInv'
  <2>1. \A d \in CPUS : (pc'[d] = "alloc_page") <=> (pc[d] = "alloc_page")
    BY <1>1 DEF TypeOK
  <2> QED
    BY <1>1, <2>1 DEF CountsInv
<1>9. Tiling'
  <2>1. \A d \in CPUS : rstn[d] # 0 => rst'[d] = rst[d]
    BY <1>1 DEF TypeOK
  <2> QED
    BY <1>1, <1>3, <2>1, TilingUnchanged
<1>10. OneClaimPerBlock'
  <2>1. \A h \in PGS : /\ BootsLater(h)' <=> BootsLater(h)
                       /\ Owned(h)' <=> Owned(h) \/ Returns(c, h)
    BY <1>1 DEF BootsLater, IsHead, Owned, Returns
  <2>2. \A d \in CPUS, h \in PGS :
          /\ Frees(d, h)' <=> Frees(d, h)
          /\ Returns(d, h)' <=> Returns(d, h) /\ d # c
    <3>1. NoPage \notin PGS
      BY DEF NoPage, PGS
    <3> QED
      BY <1>1, <3>1 DEF Frees, Returns, FreePcs, TypeOK
  <2>3. flags' = flags
    BY <1>1
  <2>4. Returns(c, ret[c])
    BY DEF Returns
  <2>5. \A h \in PGS : h # ret[c] => ~Returns(c, h)
    BY DEF Returns
  <2> SUFFICES ASSUME NEW h \in PGS PROVE OneClaim(h)'
    BY DEF OneClaimPerBlock
  <2>6. OneClaim(h)
    BY DEF OneClaimPerBlock
  <2>7. CASE h = ret[c]
    BY <2>1, <2>2, <2>3, <2>4, <2>6, <2>7, Zenon DEF OneClaim
  <2>8. CASE h # ret[c]
    BY <2>1, <2>2, <2>3, <2>5, <2>6, <2>8, Zenon DEF OneClaim
  <2> QED
    BY <2>7, <2>8
<1> QED
  BY <1>3, <1>4, <1>5, <1>6, <1>7, <1>8, <1>9, <1>10

LEMMA FreeInv == ASSUME IInv, NEW c \in CPUS, NEW p \in own, Free(c, p) PROVE IInv'
<1> USE DEF IInv
<1>1. /\ pc[c] = "idle" /\ pgtype[p] = "BUDDY" /\ own' = own \ {p}
      /\ pg' = [pg EXCEPT ![c] = p] /\ pc' = [pc EXCEPT ![c] = "free_entry"]
      /\ UNCHANGED <<pgtype, flags, order, pool, rest, poolLk, pageLk, ord, req, ret, rst, rstn, boot>>
  BY DEF Free, Goto, sharedVars, lockVars
<1>2. p \in PGS
  BY DEF TypeOK
<1>3. TypeOK'
  BY <1>1, <1>2 DEF TypeOK, PgfmTypeOK, PCS
<1>4. PagesInv'
  BY <1>1 DEF PagesInv
<1>5. LocalInv'
  BY <1>1, <1>2 DEF TypeOK, LocalInv, FreePcs, MergePcs
<1>6. PoolLockInv'
  BY <1>1 DEF TypeOK, PoolLockInv, PoolHeld
<1>7. ListsInv'
  BY <1>1, ListsUnchanged
<1>8. CountsInv'
  <2>1. \A d \in CPUS : (pc'[d] = "alloc_page") <=> (pc[d] = "alloc_page")
    BY <1>1 DEF TypeOK
  <2> QED
    BY <1>1, <2>1 DEF CountsInv
<1>9. Tiling'
  BY <1>1, <1>3, TilingUnchanged
<1>10. OneClaimPerBlock'
  <2>1. \A h \in PGS : /\ BootsLater(h)' <=> BootsLater(h)
                       /\ Owned(h)' <=> Owned(h) /\ h # p
    BY <1>1 DEF BootsLater, IsHead, Owned
  <2>2. \A d \in CPUS, h \in PGS :
          /\ Frees(d, h)' <=> Frees(d, h) \/ (d = c /\ h = p)
          /\ Returns(d, h)' <=> Returns(d, h)
    BY <1>1 DEF Frees, Returns, FreePcs, TypeOK
  <2>3. flags' = flags /\ Owned(p)
    BY <1>1 DEF Owned
  <2> SUFFICES ASSUME NEW h \in PGS PROVE OneClaim(h)'
    BY DEF OneClaimPerBlock
  <2>4. OneClaim(h)
    BY DEF OneClaimPerBlock
  <2>5. CASE h = p
    BY <2>1, <2>2, <2>3, <2>4, <2>5, Zenon DEF OneClaim
  <2>6. CASE h # p
    BY <2>1, <2>2, <2>3, <2>4, <2>6, Zenon DEF OneClaim
  <2> QED
    BY <2>5, <2>6
<1> QED
  BY <1>3, <1>4, <1>5, <1>6, <1>7, <1>8, <1>9, <1>10

LEMMA BootFreeInv == ASSUME IInv, NEW c \in CPUS, BootFree(c) PROVE IInv'
<1> USE DEF IInv
<1>1. /\ pc[c] = "idle" /\ boot < NPAGES /\ boot' = boot + 1
      /\ UNCHANGED <<pgtype, flags, order, pool, rest, poolLk, pageLk, ord, req, ret, rst, rstn, own>>
  BY DEF BootFree, sharedVars, lockVars
<1>2. \/ /\ flags[boot] = {"HEAD"}
         /\ pg' = [pg EXCEPT ![c] = boot] /\ pc' = [pc EXCEPT ![c] = "free_entry"]
      \/ flags[boot] # {"HEAD"} /\ UNCHANGED <<pg, pc>>
  BY DEF BootFree, Goto
<1>3. boot \in PGS /\ boot + 1 \in 0..NPAGES /\ \A p \in PGS : p >= boot + 1 <=> p >= boot /\ p # boot
  BY <1>1, PagesAssumption DEF TypeOK, PGS
<1>4. TypeOK'
  <2>1. pg' \in [CPUS -> PGS \cup {NoPage}] /\ pc' \in [CPUS -> PCS]
    BY <1>2, <1>3 DEF TypeOK, PCS
  <2>2. boot' \in 0..NPAGES
    BY <1>1, <1>3
  <2> QED
    BY <1>1, <2>1, <2>2 DEF TypeOK, PgfmTypeOK
<1>5. PagesInv'
  BY <1>1, <1>3 DEF PagesInv
<1>6. LocalInv'
  BY <1>1, <1>2, <1>3 DEF TypeOK, LocalInv, FreePcs, MergePcs
<1>7. PoolLockInv'
  BY <1>1, <1>2 DEF TypeOK, PoolLockInv, PoolHeld
<1>8. ListsInv'
  BY <1>1, ListsUnchanged
<1>9. CountsInv'
  <2>1. \A d \in CPUS : (pc'[d] = "alloc_page") <=> (pc[d] = "alloc_page")
    BY <1>1, <1>2 DEF TypeOK
  <2> QED
    BY <1>1, <2>1 DEF CountsInv
<1>10. Tiling'
  BY <1>1, <1>4, TilingUnchanged
<1>11. OneClaimPerBlock'
  <2>1. \A h \in PGS : /\ BootsLater(h)' <=> BootsLater(h) /\ h # boot
                       /\ Owned(h)' <=> Owned(h)
    BY <1>1, <1>3 DEF BootsLater, IsHead, Owned
  <2>2. \A d \in CPUS, h \in PGS : Returns(d, h)' <=> Returns(d, h)
    BY <1>1 DEF Returns
  <2>3. flags' = flags
    BY <1>1
  <2>4. BootsLater(boot) <=> flags[boot] = {"HEAD"}
    <3>1. flags[boot] \in {{"HEAD"}, {"STATIC"}} /\ boot >= boot
      BY <1>3 DEF PagesInv, PGS
    <3> QED
      BY <3>1 DEF BootsLater, IsHead
  <2>5. \A d \in CPUS, h \in PGS :
           Frees(d, h)' <=> Frees(d, h) \/ (d = c /\ h = boot /\ flags[boot] = {"HEAD"})
    BY <1>1, <1>2 DEF Frees, FreePcs, TypeOK
  <2> SUFFICES ASSUME NEW h \in PGS PROVE OneClaim(h)'
    BY DEF OneClaimPerBlock
  <2>6. OneClaim(h)
    BY DEF OneClaimPerBlock
  <2>7. CASE h = boot
    BY <2>1, <2>2, <2>3, <2>4, <2>5, <2>6, <2>7, Zenon DEF OneClaim
  <2>8. CASE h # boot
    BY <2>1, <2>2, <2>3, <2>5, <2>6, <2>8, Zenon DEF OneClaim
  <2> QED
    BY <2>7, <2>8
<1> QED
  BY <1>4, <1>5, <1>6, <1>7, <1>8, <1>9, <1>10, <1>11

LEMMA SetTypeInv ==
    ASSUME IInv, NEW c \in CPUS, NEW p \in own, NEW t \in CLIENT_TYPES \cup {"BUDDY"}, SetType(c, p, t)
    PROVE  IInv'
<1> USE DEF IInv
<1>1. /\ pgtype' = [pgtype EXCEPT ![p] = t]
      /\ UNCHANGED <<flags, order, pool, rest, poolLk, pageLk, pc, pg, ord, req, ret, rst, rstn, own, boot>>
  BY DEF SetType, lockVars, localVars
<1>2. p \in PGS /\ t \in PGTYPES
  BY CpusAssumption DEF TypeOK, PGTYPES
<1>3. TypeOK'
  BY <1>1, <1>2 DEF TypeOK, PgfmTypeOK
<1>4. PagesInv'
  BY <1>1, <1>2 DEF PagesInv, TypeOK, PgfmTypeOK
<1>5. LocalInv' /\ PoolLockInv'
  BY <1>1 DEF LocalInv, PoolLockInv
<1>6. ListsInv' /\ CountsInv'
  BY <1>1, ListsUnchanged, CountsUnchanged
<1>7. Tiling'
  BY <1>1, <1>3, TilingUnchanged
<1>8. OneClaimPerBlock'
  BY <1>1, ClaimsUnchanged DEF Frees
<1> QED
  BY <1>3, <1>4, <1>5, <1>6, <1>7, <1>8

-----------------------------------------------------------------------------
(* Last the steps that change pages and lists.                             *)

LEMMA AllocPoolInv == ASSUME IInv, NEW c \in CPUS, AllocPool(c) PROVE IInv'
<1> DEFINE o == ord[c]
<1> USE DEF IInv
<1>1. /\ pool[o] # <<>> /\ rest[o] = Len(pool[o]) /\ Head(pool[o]) \in PGS
      /\ \A d \in CPUS : ~(pc[d] \in PoolHeld /\ ord[d] = o)
  BY AllocPoolAsserts
<1>2. /\ pc[c] = "alloc_pool" /\ poolLk[o] = NoCpu
      /\ rest' = [rest EXCEPT ![o] = rest[o] - 1]
      /\ poolLk' = [poolLk EXCEPT ![o] = c]
      /\ pg' = [pg EXCEPT ![c] = Head(pool[o])]
      /\ pc' = [pc EXCEPT ![c] = "alloc_page"]
      /\ UNCHANGED <<pgtype, flags, order, pool, pageLk, ord, req, ret, rst, rstn, own, boot>>
  BY <1>1 DEF AllocPool, Goto, pgfmVars
<1>3. o \in ORDERS /\ rest[o] \in Int
  BY DEF TypeOK
<1> HIDE DEF o
<1>4. TypeOK'
  BY <1>1, <1>2, <1>3, SMTT(20) DEF TypeOK, PgfmTypeOK, PCS
<1>5. PagesInv'
  BY <1>2 DEF PagesInv
<1>6. LocalInv'
  BY <1>2 DEF TypeOK, LocalInv, FreePcs, MergePcs
<1>7. PoolLockInv'
  BY <1>1, <1>2, <1>3 DEF TypeOK, PoolLockInv, PoolHeld, o
<1>8. ListsInv'
  BY <1>2, ListsUnchanged
<1>9. CountsInv'
  <2> SUFFICES ASSUME NEW n \in ORDERS
               PROVE  /\ (\A d \in CPUS : ~(pc'[d] = "alloc_page" /\ ord[d] = n)) => rest'[n] = Len(pool[n])
                      /\ \A d \in CPUS : pc'[d] = "alloc_page" /\ ord[d] = n => rest'[n] = Len(pool[n]) - 1
    BY <1>2 DEF CountsInv
  <2>1. CASE n = o
    BY <1>1, <1>2, <1>3, <2>1 DEF TypeOK, PoolHeld, o
  <2>2. CASE n # o
    <3>1. \A d \in CPUS : (pc'[d] = "alloc_page" /\ ord[d] = n) <=> (pc[d] = "alloc_page" /\ ord[d] = n)
      BY <1>2, <2>2 DEF TypeOK, o
    <3>2. rest'[n] = rest[n]
      BY <1>2, <2>2 DEF TypeOK
    <3> QED
      BY <3>1, <3>2 DEF CountsInv
  <2> QED
    BY <2>1, <2>2
<1>10. Tiling'
  BY <1>2, <1>4, TilingUnchanged
<1>11. OneClaimPerBlock'
  <2>1. \A d \in CPUS : \A h \in PGS : Frees(d, h)' = Frees(d, h)
    BY <1>2 DEF Frees, FreePcs, TypeOK
  <2> QED
    BY <1>2, <2>1, ClaimsUnchanged
<1> QED
  BY <1>4, <1>5, <1>6, <1>7, <1>8, <1>9, <1>10, <1>11

(* The page of a head that is not claimed has no CPU working on it.        *)
LEMMA NotWorkedOn ==
    ASSUME IInv, NEW p \in PGS, flags[p] # {"HEAD"}, NEW d \in CPUS
    PROVE  /\ pc[d] \in FreePcs => pg[d] # p
           /\ ret[d] # p /\ p \notin own /\ ~BootsLater(p)
<1>1. OneClaim(p)
  BY DEF IInv, OneClaimPerBlock
<1>2. ~Owned(p) /\ ~BootsLater(p) /\ ~Frees(d, p) /\ ~Returns(d, p)
  BY <1>1, Zenon DEF OneClaim
<1> QED
  BY <1>2 DEF Owned, Frees, Returns

(* The sizes and places the invariant gives for blocks and remnants.       *)
LEMMA SizeFacts ==
    ASSUME IInv
    PROVE  /\ \A h \in PGS : IsHead(h) => Size(h) \in Nat /\ Size(h) >= 1
           /\ \A d \in CPUS : rst[d] \in Nat /\ rstn[d] \in Nat
           /\ \A h \in PGS : h \in Nat
<1>1. ASSUME NEW h \in PGS, IsHead(h) PROVE Size(h) \in Nat /\ Size(h) >= 1
  <2>1. order[h] \in 0..MAX_ORDER
    BY <1>1, OrderAssumption DEF IInv, Tiling, BlocksApart, ORDERS
  <2> QED
    BY <2>1, ShiftFacts DEF Size
<1>2. \A d \in CPUS : rst[d] \in Nat /\ rstn[d] \in Nat
  BY PagesAssumption DEF IInv, TypeOK
<1> QED
  BY <1>1, <1>2, PagesAssumption DEF PGS

(* Pages p to p + m - 1, which no other block and no other remnant shares, *)
(* become a block at p and a remnant of CPU c after it.                    *)
LEMMA TilingCarve ==
    ASSUME IInv, NEW c \in CPUS, NEW p \in PGS, NEW m \in Nat, NEW r \in ORDERS,
           ORDER2PGNUM[r] <= m, InFreeRange(p, m),
           \A k \in PGS : IsHead(k) /\ k # p => Apart(k, Size(k), p, m),
           \A d \in CPUS : rstn[d] # 0 /\ d # c => Apart(p, m, rst[d], rstn[d]),
           IsHead(p) => Block(p, order[p]) \subseteq p..(p + m - 1),
           Remnant(c) \subseteq p..(p + m - 1),
           \A h \in PGS : IsHead(h)' <=> IsHead(h) \/ h = p,
           order' = [order EXCEPT ![p] = r],
           rst' = [rst EXCEPT ![c] = p + ORDER2PGNUM[r]],
           rstn' = [rstn EXCEPT ![c] = m - ORDER2PGNUM[r]]
    PROVE  Tiling'
<1> DEFINE n == ORDER2PGNUM[r]
<1>1. n \in Nat /\ n >= 1 /\ n <= m
  BY ShiftFacts, OrderAssumption DEF ORDERS
<1>2. Size(p)' = n /\ \A h \in PGS : h # p => Size(h)' = Size(h) /\ order'[h] = order[h]
  BY DEF Size, IInv, TypeOK, PgfmTypeOK
<1>3. /\ rst'[c] = p + n /\ rstn'[c] = m - n /\ order'[p] = r
      /\ \A d \in CPUS : d # c => rst'[d] = rst[d] /\ rstn'[d] = rstn[d]
  BY DEF IInv, TypeOK, PgfmTypeOK
<1>4. /\ \A h \in PGS : h \in Nat /\ (IsHead(h) => Size(h) \in Nat /\ Size(h) >= 1)
      /\ \A d \in CPUS : rst[d] \in Nat /\ rstn[d] \in Nat
  BY SizeFacts
<1>5. BlocksApart /\ RemnantsApart
  BY DEF IInv, Tiling
<1> HIDE DEF n
<1>6. FREE_START \in Nat /\ FREE_END \in Nat
  BY PagesAssumption
<1>7. BlocksApart'
  <2> SUFFICES ASSUME NEW h \in PGS, IsHead(h)'
               PROVE  /\ order'[h] \in ORDERS /\ InFreeRange(h, Size(h)')
                      /\ \A k \in PGS : IsHead(k)' /\ k # h => Apart(h, Size(h)', k, Size(k)')
                      /\ \A d \in CPUS : rstn'[d] # 0 => Apart(h, Size(h)', rst'[d], rstn'[d])
    BY DEF BlocksApart, InFreeRange, Apart
  <2>1. order'[h] \in ORDERS /\ InFreeRange(h, Size(h)')
    <3>1. CASE h = p
      BY <1>1, <1>2, <1>3, <1>4, <1>6, <3>1 DEF InFreeRange
    <3>2. CASE h # p
      BY <1>2, <1>5, <3>2 DEF BlocksApart
    <3> QED
      BY <3>1, <3>2
  <2>2. ASSUME NEW k \in PGS, IsHead(k)', k # h PROVE Apart(h, Size(h)', k, Size(k)')
    <3>1. CASE h = p
      BY <1>1, <1>2, <1>4, <2>2, <3>1 DEF Apart
    <3>2. CASE k = p
      BY <1>1, <1>2, <1>4, <2>2, <3>2 DEF Apart
    <3>3. CASE h # p /\ k # p
      BY <1>2, <1>5, <2>2, <3>3 DEF BlocksApart
    <3> QED
      BY <3>1, <3>2, <3>3
  <2>3. ASSUME NEW d \in CPUS, rstn'[d] # 0 PROVE Apart(h, Size(h)', rst'[d], rstn'[d])
    <3>1. CASE d = c /\ h = p
      BY <1>1, <1>2, <1>3, <1>4, <3>1 DEF Apart
    <3>2. CASE d = c /\ h # p
      <4>1. IsHead(h) /\ Apart(h, Size(h), p, m)
        BY <3>2
      <4> QED
        BY <1>1, <1>2, <1>3, <1>4, <3>2, <4>1 DEF Apart
    <3>3. CASE d # c /\ h = p
      <4>1. Apart(p, m, rst[d], rstn[d])
        BY <1>3, <2>3, <3>3
      <4> QED
        BY <1>1, <1>2, <1>3, <1>4, <3>3, <4>1 DEF Apart
    <3>4. CASE d # c /\ h # p
      BY <1>2, <1>3, <1>5, <2>3, <3>4 DEF BlocksApart
    <3> QED
      BY <3>1, <3>2, <3>3, <3>4
  <2> QED
    BY <2>1, <2>2, <2>3
<1>8. RemnantsApart'
  <2> SUFFICES ASSUME NEW d \in CPUS, rstn'[d] # 0
               PROVE  /\ InFreeRange(rst'[d], rstn'[d])
                      /\ \A e \in CPUS : rstn'[e] # 0 /\ e # d => Apart(rst'[d], rstn'[d], rst'[e], rstn'[e])
    BY DEF RemnantsApart, InFreeRange, Apart
  <2>1. InFreeRange(rst'[d], rstn'[d])
    <3>1. CASE d = c
      BY <1>1, <1>3, <1>4, <1>6, <3>1 DEF InFreeRange
    <3>2. CASE d # c
      BY <1>3, <1>5, <3>2 DEF RemnantsApart
    <3> QED
      BY <3>1, <3>2
  <2>2. ASSUME NEW e \in CPUS, rstn'[e] # 0, e # d PROVE Apart(rst'[d], rstn'[d], rst'[e], rstn'[e])
    <3>1. CASE d = c
      <4>1. Apart(p, m, rst[e], rstn[e])
        BY <1>3, <2>2, <3>1
      <4> QED
        BY <1>1, <1>3, <1>4, <2>2, <3>1, <4>1 DEF Apart
    <3>2. CASE e = c
      <4>1. Apart(p, m, rst[d], rstn[d])
        BY <1>3, <2>2, <3>2
      <4> QED
        BY <1>1, <1>3, <1>4, <2>2, <3>2, <4>1 DEF Apart
    <3>3. CASE d # c /\ e # c
      BY <1>3, <1>5, <2>2, <3>3 DEF RemnantsApart
    <3> QED
      BY <3>1, <3>2, <3>3
  <2> QED
    BY <2>1, <2>2
<1>9. ASSUME NEW q \in FREE_START..(FREE_END - 1) PROVE Covered(q)'
  <2>0. q \in Nat
    BY <1>6
  <2>1. Covered(q)
    BY DEF IInv, Tiling
  <2>2. ASSUME q \in p..(p + m - 1) PROVE Covered(q)'
    <3>1. CASE q < p + n
      <4>1. IsHead(p)' /\ q \in Block(p, order[p])'
        BY <1>1, <1>2, <1>4, <2>0, <2>2, <3>1 DEF Block, Size
      <4> QED
        BY <4>1 DEF Covered
    <3>2. CASE ~(q < p + n)
      <4>1. q \in Remnant(c)'
        BY <1>1, <1>3, <1>4, <2>0, <2>2, <3>2 DEF Remnant
      <4> QED
        BY <4>1 DEF Covered
    <3> QED
      BY <3>1, <3>2
  <2>3. ASSUME NEW h \in PGS, IsHead(h), q \in Block(h, order[h]) PROVE Covered(q)'
    <3>1. CASE h = p
      BY <2>2, <2>3, <3>1
    <3>2. CASE h # p
      <4>1. IsHead(h)' /\ Block(h, order[h])' = Block(h, order[h])
        BY <1>2, <2>3, <3>2 DEF Block
      <4> QED
        BY <2>3, <4>1 DEF Covered
    <3> QED
      BY <3>1, <3>2
  <2>4. ASSUME NEW d \in CPUS, q \in Remnant(d) PROVE Covered(q)'
    <3>1. CASE d = c
      BY <2>2, <2>4, <3>1
    <3>2. CASE d # c
      <4>1. Remnant(d)' = Remnant(d)
        BY <1>3, <3>2 DEF Remnant
      <4> QED
        BY <2>4, <4>1 DEF Covered
    <3> QED
      BY <3>1, <3>2
  <2> QED
    BY <2>1, <2>3, <2>4 DEF Covered
<1> QED
  BY <1>7, <1>8, <1>9 DEF Tiling

(* Cutting a block to a smaller order leaves the rest as a remnant.        *)
LEMMA TilingCut ==
    ASSUME IInv, NEW c \in CPUS, NEW p \in PGS, NEW r \in ORDERS,
           IsHead(p), ORDER2PGNUM[r] <= Size(p), rstn[c] = 0,
           \A h \in PGS : IsHead(h)' <=> IsHead(h),
           order' = [order EXCEPT ![p] = r],
           rst' = [rst EXCEPT ![c] = p + ORDER2PGNUM[r]],
           rstn' = [rstn EXCEPT ![c] = Size(p) - ORDER2PGNUM[r]]
    PROVE  Tiling'
<1>1. Size(p) \in Nat
  BY SizeFacts
<1>2. /\ InFreeRange(p, Size(p))
      /\ \A k \in PGS : IsHead(k) /\ k # p => Apart(k, Size(k), p, Size(p))
      /\ \A d \in CPUS : rstn[d] # 0 => Apart(p, Size(p), rst[d], rstn[d])
  BY DEF IInv, Tiling, BlocksApart
<1>3. Block(p, order[p]) \subseteq p..(p + Size(p) - 1)
  BY DEF Block, Size
<1>4. Remnant(c) \subseteq p..(p + Size(p) - 1)
  BY SizeFacts DEF Remnant
<1>5. \A h \in PGS : IsHead(h)' <=> IsHead(h) \/ h = p
  OBVIOUS
<1> QED
  BY <1>1, <1>2, <1>3, <1>4, <1>5, TilingCarve

(* Splitting a piece off the front of a remnant makes it a block.          *)
LEMMA TilingSplit ==
    ASSUME IInv, NEW c \in CPUS, NEW p \in PGS, NEW i \in ORDERS,
           p = rst[c], rstn[c] # 0, ORDER2PGNUM[i] <= rstn[c], ~IsHead(p),
           \A h \in PGS : IsHead(h)' <=> IsHead(h) \/ h = p,
           order' = [order EXCEPT ![p] = i],
           rst' = [rst EXCEPT ![c] = p + ORDER2PGNUM[i]],
           rstn' = [rstn EXCEPT ![c] = rstn[c] - ORDER2PGNUM[i]]
    PROVE  Tiling'
<1>1. rstn[c] \in Nat
  BY SizeFacts
<1>2. /\ InFreeRange(p, rstn[c])
      /\ \A k \in PGS : IsHead(k) => Apart(k, Size(k), p, rstn[c])
      /\ \A d \in CPUS : rstn[d] # 0 /\ d # c => Apart(p, rstn[c], rst[d], rstn[d])
  BY DEF IInv, Tiling, BlocksApart, RemnantsApart
<1>3. Remnant(c) \subseteq p..(p + rstn[c] - 1)
  BY DEF Remnant
<1> QED
  BY <1>1, <1>2, <1>3, TilingCarve

(* Two neighbouring blocks of one order become one of the next.            *)
LEMMA TilingMerge ==
    ASSUME IInv, NEW low \in PGS, NEW high \in PGS, NEW o \in ORDERS,
           o + 1 \in ORDERS, high = low + ORDER2PGNUM[o],
           IsHead(low), IsHead(high), order[low] = o, order[high] = o,
           \A h \in PGS : IsHead(h)' <=> IsHead(h) /\ h # high,
           order' = [order EXCEPT ![low] = o + 1, ![high] = MAX_ORDER],
           UNCHANGED <<rst, rstn>>
    PROVE  Tiling'
<1> DEFINE n == ORDER2PGNUM[o]
<1>1. n \in Nat /\ n >= 1 /\ ORDER2PGNUM[o + 1] = 2 * n
  BY ShiftFacts, OrderAssumption DEF ORDERS
<1>2. Size(low) = n /\ Size(high) = n
  BY DEF Size
<1>3. /\ \A h \in PGS : h \in Nat /\ (IsHead(h) => Size(h) \in Nat /\ Size(h) >= 1)
      /\ \A d \in CPUS : rst[d] \in Nat /\ rstn[d] \in Nat
  BY SizeFacts
<1>4. low # high
  BY <1>1, <1>3
<1>5. /\ Size(low)' = 2 * n /\ order'[low] = o + 1
      /\ \A h \in PGS : h # low /\ h # high => Size(h)' = Size(h) /\ order'[h] = order[h]
  BY <1>1, <1>4 DEF Size, IInv, TypeOK, PgfmTypeOK
<1>6. high = low + n
  OBVIOUS
<1> HIDE DEF n
<1>7. BlocksApart /\ RemnantsApart
  BY DEF IInv, Tiling
<1>8. /\ InFreeRange(low, n) /\ InFreeRange(high, n)
      /\ \A k \in PGS : IsHead(k) /\ k # low => Apart(low, n, k, Size(k))
      /\ \A k \in PGS : IsHead(k) /\ k # high => Apart(high, n, k, Size(k))
      /\ \A d \in CPUS : rstn[d] # 0 => Apart(low, n, rst[d], rstn[d]) /\ Apart(high, n, rst[d], rstn[d])
  BY <1>2, <1>7 DEF BlocksApart
<1>9. FREE_START \in Nat /\ FREE_END \in Nat
  BY PagesAssumption
<1>10. BlocksApart'
  <2> SUFFICES ASSUME NEW h \in PGS, IsHead(h)'
               PROVE  /\ order'[h] \in ORDERS /\ InFreeRange(h, Size(h)')
                      /\ \A k \in PGS : IsHead(k)' /\ k # h => Apart(h, Size(h)', k, Size(k)')
                      /\ \A d \in CPUS : rstn'[d] # 0 => Apart(h, Size(h)', rst'[d], rstn'[d])
    BY DEF BlocksApart, InFreeRange, Apart
  <2>1. order'[h] \in ORDERS /\ InFreeRange(h, Size(h)')
    <3>1. CASE h = low
      BY <1>1, <1>3, <1>5, <1>6, <1>8, <1>9, <3>1 DEF InFreeRange
    <3>2. CASE h # low
      BY <1>5, <1>7, <3>2 DEF BlocksApart
    <3> QED
      BY <3>1, <3>2
  <2>2. ASSUME NEW k \in PGS, IsHead(k), k # low, k # high
        PROVE  Apart(low, 2 * n, k, Size(k)) /\ Apart(k, Size(k), low, 2 * n)
    <3>1. Apart(low, n, k, Size(k)) /\ Apart(high, n, k, Size(k))
      BY <1>8, <2>2
    <3>2. k \in Nat /\ Size(k) \in Nat /\ Size(k) >= 1 /\ low \in Nat
      BY <1>3, <2>2
    <3> QED
      BY <1>1, <1>6, <3>1, <3>2 DEF Apart
  <2>3. ASSUME NEW k \in PGS, IsHead(k)', k # h PROVE Apart(h, Size(h)', k, Size(k)')
    <3>1. CASE h = low
      BY <1>5, <2>2, <2>3, <3>1
    <3>2. CASE k = low
      BY <1>5, <2>2, <2>3, <3>2
    <3>3. CASE h # low /\ k # low
      BY <1>5, <1>7, <2>3, <3>3 DEF BlocksApart
    <3> QED
      BY <3>1, <3>2, <3>3
  <2>4. ASSUME NEW d \in CPUS, rstn'[d] # 0 PROVE Apart(h, Size(h)', rst'[d], rstn'[d])
    <3>1. CASE h = low
      <4>1. Apart(low, n, rst[d], rstn[d]) /\ Apart(high, n, rst[d], rstn[d])
        BY <1>8, <2>4
      <4>2. rst[d] \in Nat /\ rstn[d] \in Nat /\ rstn[d] # 0 /\ low \in Nat
        BY <1>3, <2>4
      <4>3. Apart(low, 2 * n, rst[d], rstn[d])
        BY <1>1, <1>6, <4>1, <4>2 DEF Apart
      <4> QED
        BY <1>5, <3>1, <4>3
    <3>2. CASE h # low
      BY <1>5, <1>7, <2>4, <3>2 DEF BlocksApart
    <3> QED
      BY <3>1, <3>2
  <2> QED
    BY <2>1, <2>3, <2>4
<1>11. RemnantsApart'
  BY <1>7 DEF RemnantsApart, InFreeRange, Apart
<1>12. ASSUME NEW q \in FREE_START..(FREE_END - 1) PROVE Covered(q)'
  <2>0. q \in Nat
    BY <1>9
  <2>1. Covered(q)
    BY DEF IInv, Tiling
  <2>2. ASSUME NEW h \in PGS, IsHead(h), q \in Block(h, order[h]) PROVE Covered(q)'
    <3>1. CASE h # low /\ h # high
      <4>1. IsHead(h)' /\ Block(h, order[h])' = Block(h, order[h])
        BY <1>5, <2>2, <3>1 DEF Block
      <4> QED
        BY <2>2, <4>1 DEF Covered
    <3>2. CASE h = low \/ h = high
      <4>1. h <= q /\ q < h + n
        BY <1>1, <1>2, <1>3, <2>0, <2>2, <3>2 DEF Block, Size
      <4>2. low <= q /\ q < low + 2 * n
        BY <1>1, <1>3, <1>6, <2>0, <3>2, <4>1
      <4>3. IsHead(low)' /\ q \in Block(low, order[low])'
        BY <1>1, <1>3, <1>4, <1>5, <2>0, <4>2 DEF Block, Size
      <4> QED
        BY <4>3 DEF Covered
    <3> QED
      BY <3>1, <3>2
  <2>3. ASSUME NEW d \in CPUS, q \in Remnant(d) PROVE Covered(q)'
    BY <2>3 DEF Covered, Remnant
  <2> QED
    BY <2>1, <2>2, <2>3 DEF Covered
<1> QED
  BY <1>10, <1>11, <1>12 DEF Tiling

LEMMA AllocPageInv == ASSUME IInv, NEW c \in CPUS, AllocPage(c) PROVE IInv'
<1> DEFINE p == pg[c]
           o == ord[c]
           r == req[c]
<1>0. pc[c] = "alloc_page"
  BY DEF AllocPage
<1>1. /\ p \in PGS /\ o \in ORDERS /\ r \in ORDERS
      /\ flags[p] = {"HEAD", "FREE"} /\ order[p] = o /\ p \in Listed(pool[o])
      /\ pool[o] \in Seq(PGS) /\ NoRepeats(pool[o]) /\ poolLk[o] = c
  BY <1>0, AllocPageAsserts
<1>2. /\ pool' = [pool EXCEPT ![o] = ListDel(pool[o], p)]
      /\ flags' = [flags EXCEPT ![p] = {"HEAD"}]
      /\ order' = [order EXCEPT ![p] = r]
      /\ poolLk' = [poolLk EXCEPT ![o] = NoCpu]
      /\ ret' = [ret EXCEPT ![c] = p]
      /\ rst' = [rst EXCEPT ![c] = p + ORDER2PGNUM[r]]
      /\ rstn' = [rstn EXCEPT ![c] = ORDER2PGNUM[o] - ORDER2PGNUM[r]]
      /\ pg' = [pg EXCEPT ![c] = NoPage]
      /\ ord' = [ord EXCEPT ![c] = 0]
      /\ req' = [req EXCEPT ![c] = 0]
      /\ pc' = [pc EXCEPT ![c] = "split"]
      /\ UNCHANGED <<pgtype, rest, pageLk, own, boot>>
  BY <1>1 DEF AllocPage, Goto
<1>3. /\ ListDel(pool[o], p) \in Seq(PGS) /\ Len(ListDel(pool[o], p)) = Len(pool[o]) - 1
      /\ Listed(ListDel(pool[o], p)) = Listed(pool[o]) \ {p} /\ NoRepeats(ListDel(pool[o], p))
  BY <1>1, ListDelFacts
<1>4. /\ r <= o /\ rstn[c] = 0
      /\ rest[o] = Len(pool[o]) - 1
  BY <1>0, <1>1 DEF IInv, LocalInv, CountsInv
<1> HIDE DEF p, o, r
<1>5. /\ ORDER2PGNUM[r] \in Nat /\ ORDER2PGNUM[r] >= 1 /\ ORDER2PGNUM[o] \in Nat
      /\ ORDER2PGNUM[r] <= ORDER2PGNUM[o] /\ ORDER2PGNUM[o] <= ORDER2PGNUM[MAX_ORDER]
      /\ ORDER2PGNUM[MAX_ORDER] \in Nat /\ 0 \in ORDERS
  BY <1>1, <1>4, ShiftFacts, OrderAssumption, SMTT(20) DEF ORDERS
<1>6. IsHead(p) /\ Size(p) = ORDER2PGNUM[o]
  BY <1>1 DEF IsHead, Size
<1>7. InFreeRange(p, ORDER2PGNUM[o]) /\ p \in Nat
  BY <1>1, <1>6, PagesAssumption DEF IInv, Tiling, BlocksApart, PGS
<1>8. \A d \in CPUS : /\ pc[d] \in FreePcs => pg[d] # p
                      /\ ret[d] # p /\ p \notin own /\ ~BootsLater(p)
  <2>1. flags[p] # {"HEAD"}
    BY <1>1
  <2> QED
    BY <1>1, <2>1, NotWorkedOn
<1>9. \A d \in CPUS : d # c /\ pc[d] \in PoolHeld => ord[d] # o
  BY <1>1 DEF IInv, PoolLockInv
<1> USE DEF IInv
<1>10. TypeOK'
  <2>1. p + ORDER2PGNUM[r] \in 0..NPAGES /\ ORDER2PGNUM[o] - ORDER2PGNUM[r] \in 0..NPAGES
    BY <1>5, <1>7, PagesAssumption DEF InFreeRange
  <2>2. PgfmTypeOK'
    <3>1. {"HEAD"} \in SUBSET FLAGS /\ r \in 0..MAX_ORDER
      BY <1>1, OrderAssumption DEF FLAGS, ORDERS
    <3>2. flags' \in [PGS -> SUBSET FLAGS] /\ order' \in [PGS -> 0..MAX_ORDER]
      BY <1>2, <3>1 DEF TypeOK, PgfmTypeOK
    <3> QED
      BY <1>2, <3>2 DEF TypeOK, PgfmTypeOK
  <2>3. pool' \in [ORDERS -> Seq(PGS)]
    BY <1>2, <1>3 DEF TypeOK
  <2>4. rst' \in [CPUS -> 0..NPAGES] /\ rstn' \in [CPUS -> 0..NPAGES]
    BY <1>2, <2>1 DEF TypeOK
  <2>5. pc' \in [CPUS -> PCS] /\ ord' \in [CPUS -> ORDERS] /\ req' \in [CPUS -> ORDERS]
    BY <1>2, <1>5 DEF TypeOK, PCS
  <2>6. /\ pg' \in [CPUS -> PGS \cup {NoPage}] /\ ret' \in [CPUS -> PGS \cup {NoPage}]
        /\ poolLk' \in [ORDERS -> CPUS \cup {NoCpu}]
    BY <1>1, <1>2 DEF TypeOK
  <2> QED
    BY <1>2, <2>2, <2>3, <2>4, <2>5, <2>6 DEF TypeOK
<1>11. PagesInv'
  BY <1>1, <1>2 DEF PagesInv, TypeOK, PgfmTypeOK
<1>12. LocalInv'
  <2> SUFFICES ASSUME NEW d \in CPUS
               PROVE  /\ pc'[d] # "panic"
                      /\ pc'[d] \in {"alloc_pool", "alloc_page"} => req'[d] <= ord'[d]
                      /\ pc'[d] \in {"idle", "alloc_pool", "alloc_page"} => ret'[d] = NoPage
                      /\ pc'[d] = "split" => ret'[d] # NoPage
                      /\ ret'[d] = NoPage => rstn'[d] = 0
                      /\ rstn'[d] < ORDER2PGNUM[MAX_ORDER]
                      /\ pc'[d] \in FreePcs => pg'[d] \in PGS
                      /\ pc'[d] \in FreePcs \ {"free_entry"} => order'[pg'[d]] = ord'[d]
                      /\ pc'[d] \in MergePcs => ord'[d] < MAX_ORDER - 1
    BY DEF LocalInv
  <2>1. CASE d = c
    <3>1. /\ pc'[d] = "split" /\ ret'[d] = p /\ rstn'[d] = ORDER2PGNUM[o] - ORDER2PGNUM[r]
      BY <1>2, <2>1 DEF TypeOK
    <3>2. p # NoPage
      BY <1>7 DEF NoPage
    <3> QED
      BY <1>5, <3>1, <3>2 DEF FreePcs, MergePcs
  <2>2. CASE d # c
    <3>1. /\ pc'[d] = pc[d] /\ ret'[d] = ret[d] /\ rstn'[d] = rstn[d] /\ pg'[d] = pg[d]
          /\ ord'[d] = ord[d] /\ req'[d] = req[d]
      BY <1>2, <2>2 DEF TypeOK
    <3>2. pc[d] \in FreePcs => order'[pg[d]] = order[pg[d]]
      BY <1>2, <1>8 DEF LocalInv, TypeOK, PgfmTypeOK
    <3> QED
      BY <3>1, <3>2 DEF LocalInv
  <2> QED
    BY <2>1, <2>2
<1>13. PoolLockInv'
  <2>1. \A d \in CPUS : d # c =>
          pc'[d] = pc[d] /\ ord'[d] = ord[d] /\ pg'[d] = pg[d] /\ ord[d] \in ORDERS
    BY <1>2 DEF TypeOK
  <2>2. \A n \in ORDERS : n # o => pool'[n] = pool[n] /\ poolLk'[n] = poolLk[n]
    BY <1>2 DEF TypeOK
  <2>3. pc'[c] = "split"
    BY <1>2 DEF TypeOK
  <2> QED
    BY <1>9, <2>1, <2>2, <2>3 DEF PoolLockInv, PoolHeld
<1>14. /\ pool'[o] = ListDel(pool[o], p) /\ \A n \in ORDERS : n # o => pool'[n] = pool[n]
       /\ flags'[p] = {"HEAD"} /\ \A h \in PGS : h # p => flags'[h] = flags[h] /\ order'[h] = order[h]
  BY <1>1, <1>2 DEF TypeOK, PgfmTypeOK
<1>15. ListsInv'
  <2> SUFFICES ASSUME NEW n \in ORDERS
               PROVE  /\ Listed(pool'[n]) = {h \in PGS : "FREE" \in flags'[h] /\ order'[h] = n}
                      /\ NoRepeats(pool'[n])
    BY DEF ListsInv, Listed, NoRepeats
  <2>1. Listed(pool[n]) = {h \in PGS : "FREE" \in flags[h] /\ order[h] = n} /\ NoRepeats(pool[n])
    BY DEF ListsInv
  <2>2. "FREE" \notin flags'[p]
    BY <1>14
  <2>3. CASE n = o
    BY <1>3, <1>14, <2>1, <2>2, <2>3
  <2>4. CASE n # o
    BY <1>1, <1>14, <2>1, <2>2, <2>4
  <2> QED
    BY <2>3, <2>4
<1>16. CountsInv'
  <2>1. \A d \in CPUS : pc'[d] = "alloc_page" => d # c /\ pc[d] = "alloc_page" /\ ord'[d] = ord[d]
    BY <1>2 DEF TypeOK
  <2>2. \A d \in CPUS : d # c /\ pc[d] = "alloc_page" => pc'[d] = "alloc_page" /\ ord'[d] = ord[d] /\ ord[d] # o
    BY <1>2, <1>9 DEF TypeOK, PoolHeld
  <2>3. rest' = rest /\ rest[o] = Len(pool'[o])
    BY <1>2, <1>3, <1>4, <1>14
  <2> SUFFICES ASSUME NEW n \in ORDERS
               PROVE  /\ (\A d \in CPUS : ~(pc'[d] = "alloc_page" /\ ord'[d] = n)) => rest[n] = Len(pool'[n])
                      /\ \A d \in CPUS : pc'[d] = "alloc_page" /\ ord'[d] = n => rest[n] = Len(pool'[n]) - 1
    BY <2>3 DEF CountsInv
  <2>4. CASE n = o
    BY <2>1, <2>2, <2>3, <2>4
  <2>5. CASE n # o
    <3>1. pool'[n] = pool[n]
      BY <1>14, <2>5
    <3>2. \A d \in CPUS : (pc'[d] = "alloc_page" /\ ord'[d] = n) <=> (pc[d] = "alloc_page" /\ ord[d] = n)
      BY <2>1, <2>2, <2>5 DEF o
    <3> QED
      BY <3>1, <3>2 DEF CountsInv
  <2> QED
    BY <2>4, <2>5
<1>17. \A h \in PGS : IsHead(h)' <=> IsHead(h)
  BY <1>6, <1>14 DEF IsHead
<1>18. Tiling'
  BY <1>1, <1>2, <1>4, <1>5, <1>6, <1>17, TilingCut
<1>19. OneClaimPerBlock'
  <2>1. \A h \in PGS : (BootsLater(h)' <=> BootsLater(h)) /\ (Owned(h)' <=> Owned(h))
    BY <1>2, <1>17 DEF BootsLater, Owned
  <2>2. \A d \in CPUS, h \in PGS :
          /\ Frees(d, h)' <=> Frees(d, h)
          /\ Returns(d, h)' <=> Returns(d, h) \/ (d = c /\ h = p)
    <3>1. ret[c] = NoPage /\ NoPage \notin PGS
      BY <1>0 DEF LocalInv, NoPage, PGS
    <3> QED
      BY <1>0, <1>2, <3>1 DEF Frees, Returns, FreePcs, TypeOK
  <2>3. ~Owned(p) /\ ~BootsLater(p) /\ \A d \in CPUS : ~Frees(d, p) /\ ~Returns(d, p)
    BY <1>8 DEF Owned, Frees, Returns
  <2> SUFFICES ASSUME NEW h \in PGS PROVE OneClaim(h)'
    BY DEF OneClaimPerBlock
  <2>4. CASE h = p
    BY <1>14, <2>1, <2>2, <2>3, <2>4, Zenon DEF OneClaim
  <2>5. CASE h # p
    <3>1. flags'[h] = flags[h] /\ OneClaim(h)
      BY <1>14, <2>5 DEF OneClaimPerBlock
    <3> QED
      BY <2>1, <2>2, <2>5, <3>1, Zenon DEF OneClaim
  <2> QED
    BY <2>4, <2>5
<1> QED
  BY <1>10, <1>11, <1>12, <1>13, <1>15, <1>16, <1>18, <1>19

LEMMA SplitInv == ASSUME IInv, NEW c \in CPUS, Split(c) PROVE IInv'
<1> DEFINE p == rst[c]
           i == HighBit(rstn[c])
           n == ORDER2PGNUM[i]
<1>0. pc[c] = "split" /\ rstn[c] # 0
  BY DEF Split
<1>1. /\ p \in PGS /\ flags[p] = {"BODY"} /\ order[p] = MAX_ORDER
      /\ rstn[c] \in Nat /\ i \in ORDERS /\ n <= rstn[c]
      /\ n \in Nat /\ n >= 1 /\ InFreeRange(p, rstn[c])
  BY <1>0, SplitAsserts
<1>2. /\ flags' = [flags EXCEPT ![p] = {"HEAD"}]
      /\ order' = [order EXCEPT ![p] = i]
      /\ pg' = [pg EXCEPT ![c] = p]
      /\ rst' = [rst EXCEPT ![c] = p + n]
      /\ rstn' = [rstn EXCEPT ![c] = rstn[c] - n]
      /\ pc' = [pc EXCEPT ![c] = "free_entry"]
      /\ UNCHANGED <<pgtype, pool, rest, poolLk, pageLk, ord, req, ret, own, boot>>
  BY <1>1 DEF Split, Goto, lockVars
<1>3. rst[c] = p /\ n = ORDER2PGNUM[i]
  OBVIOUS
<1> HIDE DEF p, i, n
<1>4. \A d \in CPUS : /\ pc[d] \in FreePcs => pg[d] # p
                      /\ ret[d] # p /\ p \notin own /\ ~BootsLater(p)
  <2>1. flags[p] # {"HEAD"}
    BY <1>1
  <2> QED
    BY <1>1, <2>1, NotWorkedOn
<1> USE DEF IInv
<1>5. ~(p >= boot)
  BY <1>1 DEF PagesInv
<1>6. p \in Nat
  BY <1>1, PagesAssumption DEF PGS
<1>7. TypeOK'
  <2>1. p + n \in 0..NPAGES /\ rstn[c] - n \in 0..NPAGES
    BY <1>1, <1>6, PagesAssumption DEF InFreeRange
  <2>2. {"HEAD"} \in SUBSET FLAGS /\ i \in 0..MAX_ORDER
    BY <1>1, OrderAssumption DEF FLAGS, ORDERS
  <2>3. flags' \in [PGS -> SUBSET FLAGS] /\ order' \in [PGS -> 0..MAX_ORDER]
    BY <1>2, <2>2 DEF TypeOK, PgfmTypeOK
  <2>4. rst' \in [CPUS -> 0..NPAGES] /\ rstn' \in [CPUS -> 0..NPAGES]
    BY <1>2, <2>1 DEF TypeOK
  <2>5. pc' \in [CPUS -> PCS] /\ pg' \in [CPUS -> PGS \cup {NoPage}]
    BY <1>1, <1>2 DEF TypeOK, PCS
  <2> QED
    BY <1>2, <2>3, <2>4, <2>5 DEF TypeOK, PgfmTypeOK
<1>8. /\ flags'[p] = {"HEAD"} /\ order'[p] = i
      /\ \A h \in PGS : h # p => flags'[h] = flags[h] /\ order'[h] = order[h]
  BY <1>1, <1>2 DEF TypeOK, PgfmTypeOK
<1>9. PagesInv'
  <2>1. pgtype' = pgtype /\ own' = own /\ boot' = boot
    BY <1>2
  <2> QED
    BY <1>5, <1>8, <2>1 DEF PagesInv
<1>10. /\ pc'[c] = "free_entry" /\ pg'[c] = p /\ rstn'[c] = rstn[c] - n
       /\ \A d \in CPUS : d # c => pc'[d] = pc[d] /\ pg'[d] = pg[d] /\ rstn'[d] = rstn[d]
       /\ UNCHANGED <<ord, req, ret, pool, poolLk, rest>>
  BY <1>2 DEF TypeOK
<1>11. LocalInv'
  <2> SUFFICES ASSUME NEW d \in CPUS
               PROVE  /\ pc'[d] # "panic"
                      /\ pc'[d] \in {"alloc_pool", "alloc_page"} => req[d] <= ord[d]
                      /\ pc'[d] \in {"idle", "alloc_pool", "alloc_page"} => ret[d] = NoPage
                      /\ pc'[d] = "split" => ret[d] # NoPage
                      /\ ret[d] = NoPage => rstn'[d] = 0
                      /\ rstn'[d] < ORDER2PGNUM[MAX_ORDER]
                      /\ pc'[d] \in FreePcs => pg'[d] \in PGS
                      /\ pc'[d] \in FreePcs \ {"free_entry"} => order'[pg'[d]] = ord[d]
                      /\ pc'[d] \in MergePcs => ord[d] < MAX_ORDER - 1
    BY <1>10 DEF LocalInv
  <2>1. CASE d = c
    <3>1. ret[c] # NoPage /\ rstn[c] < ORDER2PGNUM[MAX_ORDER]
      BY <1>0 DEF LocalInv
    <3>2. rstn[c] - n < ORDER2PGNUM[MAX_ORDER]
      <4>1. ORDER2PGNUM[MAX_ORDER] \in Nat
        BY ShiftFacts, OrderAssumption
      <4> QED
        BY <1>1, <3>1, <4>1
    <3> QED
      BY <1>1, <1>10, <2>1, <3>1, <3>2 DEF MergePcs
  <2>2. CASE d # c
    <3>1. pc[d] \in FreePcs => order'[pg[d]] = order[pg[d]]
      BY <1>4, <1>8 DEF LocalInv
    <3> QED
      BY <1>10, <2>2, <3>1 DEF LocalInv
  <2> QED
    BY <2>1, <2>2
<1>12. PoolLockInv'
  BY <1>10 DEF PoolLockInv, PoolHeld
<1>13. ListsInv'
  <2> SUFFICES ASSUME NEW m \in ORDERS
               PROVE  /\ Listed(pool[m]) = {h \in PGS : "FREE" \in flags'[h] /\ order'[h] = m}
                      /\ NoRepeats(pool[m])
    BY <1>10 DEF ListsInv
  <2>1. Listed(pool[m]) = {h \in PGS : "FREE" \in flags[h] /\ order[h] = m} /\ NoRepeats(pool[m])
    BY DEF ListsInv
  <2>2. "FREE" \notin flags'[p] /\ "FREE" \notin flags[p]
    BY <1>1, <1>8
  <2> QED
    BY <1>8, <2>1, <2>2
<1>14. CountsInv'
  <2>1. \A d \in CPUS : \A m \in ORDERS :
          (pc'[d] = "alloc_page" /\ ord'[d] = m) <=> (pc[d] = "alloc_page" /\ ord[d] = m)
    BY <1>0, <1>10
  <2> QED
    BY <1>10, <2>1, CountsUnchanged
<1>15. ~IsHead(p) /\ \A h \in PGS : IsHead(h)' <=> IsHead(h) \/ h = p
  BY <1>1, <1>8 DEF IsHead
<1>16. Tiling'
  BY <1>0, <1>1, <1>2, <1>3, <1>15, TilingSplit
<1>17. OneClaimPerBlock'
  <2>1. \A h \in PGS : (BootsLater(h)' <=> BootsLater(h)) /\ (Owned(h)' <=> Owned(h))
    BY <1>2, <1>5, <1>15 DEF BootsLater, Owned
  <2>2. \A d \in CPUS, h \in PGS :
          /\ Frees(d, h)' <=> Frees(d, h) \/ (d = c /\ h = p)
          /\ Returns(d, h)' <=> Returns(d, h)
    BY <1>0, <1>10 DEF Frees, Returns, FreePcs
  <2>3. ~Owned(p) /\ ~BootsLater(p) /\ \A d \in CPUS : ~Frees(d, p) /\ ~Returns(d, p)
    BY <1>4 DEF Owned, Frees, Returns
  <2> SUFFICES ASSUME NEW h \in PGS PROVE OneClaim(h)'
    BY DEF OneClaimPerBlock
  <2>4. CASE h = p
    BY <1>8, <2>1, <2>2, <2>3, <2>4, Zenon DEF OneClaim
  <2>5. CASE h # p
    <3>1. flags'[h] = flags[h] /\ OneClaim(h)
      BY <1>8, <2>5 DEF OneClaimPerBlock
    <3> QED
      BY <2>1, <2>2, <2>5, <3>1, Zenon DEF OneClaim
  <2> QED
    BY <2>4, <2>5
<1> QED
  BY <1>7, <1>9, <1>11, <1>12, <1>13, <1>14, <1>16, <1>17

(* Making a used head free, or the other way round, keeps the tiling.      *)
LEMMA TilingSameHeads ==
    ASSUME Tiling, UNCHANGED <<order, rst, rstn>>, \A h \in PGS : IsHead(h)' <=> IsHead(h)
    PROVE  Tiling'
<1>1. \A h : Size(h)' = Size(h) /\ Block(h, order[h])' = Block(h, order[h])
  BY DEF Size, Block
<1>2. \A d : Remnant(d)' = Remnant(d)
  BY DEF Remnant
<1> QED
  BY <1>1, <1>2, Zenon DEF Tiling, BlocksApart, RemnantsApart, Covered, InFreeRange, Apart

(* A block being freed has no other claim, and the boot loop is past it.   *)
LEMMA FreedAlone ==
    ASSUME IInv, NEW c \in CPUS, pc[c] \in FreePcs
    PROVE  /\ pg[c] \in PGS /\ ~(pg[c] >= boot) /\ pg[c] \notin own
           /\ \A d \in CPUS : ret[d] # pg[c] /\ (d # c /\ pc[d] \in FreePcs => pg[d] # pg[c])
<1>1. pg[c] \in PGS /\ flags[pg[c]] = {"HEAD"}
  BY FreeAsserts
<1>2. OneClaim(pg[c]) /\ Frees(c, pg[c]) /\ IsHead(pg[c])
  BY <1>1 DEF IInv, OneClaimPerBlock, Frees, IsHead
<1>3. /\ ~Owned(pg[c]) /\ ~BootsLater(pg[c]) /\ ~Returns(c, pg[c])
      /\ \A d \in CPUS : Frees(d, pg[c]) \/ Returns(d, pg[c]) => d = c
  BY <1>2, Zenon DEF OneClaim
<1>4. \A d \in CPUS : ret[d] # pg[c]
  BY <1>3 DEF Returns
<1> QED
  BY <1>1, <1>2, <1>3, <1>4 DEF Owned, BootsLater, Frees

LEMMA InsertPageInv == ASSUME IInv, NEW c \in CPUS, InsertPage(c) PROVE IInv'
<1> DEFINE p == pg[c]
           o == ord[c]
           next == IF ret[c] = NoPage THEN "idle" ELSE "split"
<1>0. pc[c] = "insert_page" /\ pc[c] \in FreePcs
  BY DEF InsertPage, FreePcs
<1>1. /\ p \in PGS /\ pgtype[p] = "BUDDY" /\ flags[p] = {"HEAD"} /\ order[p] = o /\ o \in ORDERS
  BY <1>0, FreeAsserts
<1>2. flags[p] \cup {"FREE"} = {"HEAD", "FREE"}
  BY <1>1
<1>3. /\ flags' = [flags EXCEPT ![p] = {"HEAD", "FREE"}]
      /\ pool' = [pool EXCEPT ![o] = Append(pool[o], p)]
      /\ rest' = [rest EXCEPT ![o] = rest[o] + 1]
      /\ poolLk' = [poolLk EXCEPT ![o] = NoCpu]
      /\ pg' = [pg EXCEPT ![c] = NoPage]
      /\ ord' = [ord EXCEPT ![c] = 0]
      /\ pc' = [pc EXCEPT ![c] = next]
      /\ UNCHANGED <<pgtype, order, pageLk, req, ret, rst, rstn, own, boot>>
  BY <1>1, <1>2 DEF InsertPage, Goto
<1>4. /\ ~(p >= boot) /\ p \notin own
      /\ \A d \in CPUS : ret[d] # p /\ (d # c /\ pc[d] \in FreePcs => pg[d] # p)
  BY <1>0, FreedAlone
<1>5. pg[c] = p /\ ord[c] = o
  OBVIOUS
<1>6. next \in {"idle", "split"} /\ (next = "idle" <=> ret[c] = NoPage)
  OBVIOUS
<1> HIDE DEF p, o, next
<1> USE DEF IInv
<1>7. poolLk[o] = c /\ \A d \in CPUS : d # c /\ pc[d] \in PoolHeld => ord[d] # o
  BY <1>0, <1>5 DEF PoolLockInv, PoolHeld
<1>8. pool[o] \in Seq(PGS) /\ NoRepeats(pool[o]) /\ p \notin Listed(pool[o])
  BY <1>1 DEF TypeOK, ListsInv
<1>9. /\ Append(pool[o], p) \in Seq(PGS) /\ Len(Append(pool[o], p)) = Len(pool[o]) + 1
      /\ Listed(Append(pool[o], p)) = Listed(pool[o]) \cup {p} /\ NoRepeats(Append(pool[o], p))
  BY <1>1, <1>8, AppendFacts
<1>10. rest[o] = Len(pool[o]) /\ rest[o] \in Int
  BY <1>0, <1>1, <1>7 DEF CountsInv, PoolHeld, TypeOK
<1>11. TypeOK'
  <2>1. {"HEAD", "FREE"} \in SUBSET FLAGS /\ 0 \in ORDERS
    BY OrderAssumption DEF FLAGS, ORDERS
  <2>2. flags' \in [PGS -> SUBSET FLAGS]
    BY <1>3, <2>1 DEF TypeOK, PgfmTypeOK
  <2>3. pool' \in [ORDERS -> Seq(PGS)] /\ rest' \in [ORDERS -> Int]
    <3>1. pool' \in [ORDERS -> Seq(PGS)]
      BY <1>3, <1>9 DEF TypeOK
    <3>2. rest[o] + 1 \in Int
      BY <1>10
    <3>3. rest' \in [ORDERS -> Int]
      BY <1>3, <3>2 DEF TypeOK
    <3> QED
      BY <3>1, <3>3
  <2>4. pc' \in [CPUS -> PCS]
    BY <1>3, <1>6 DEF TypeOK, PCS
  <2>5. /\ pg' \in [CPUS -> PGS \cup {NoPage}] /\ ord' \in [CPUS -> ORDERS]
        /\ poolLk' \in [ORDERS -> CPUS \cup {NoCpu}]
    BY <1>3, <2>1 DEF TypeOK
  <2> QED
    BY <1>3, <2>2, <2>3, <2>4, <2>5 DEF TypeOK, PgfmTypeOK
<1>12. /\ flags'[p] = {"HEAD", "FREE"} /\ \A h \in PGS : h # p => flags'[h] = flags[h]
       /\ pool'[o] = Append(pool[o], p) /\ rest'[o] = rest[o] + 1
       /\ \A n \in ORDERS : n # o => pool'[n] = pool[n] /\ rest'[n] = rest[n] /\ poolLk'[n] = poolLk[n]
  BY <1>1, <1>3 DEF TypeOK, PgfmTypeOK
<1>13. /\ pc'[c] = next /\ \A d \in CPUS : d # c => pc'[d] = pc[d] /\ pg'[d] = pg[d] /\ ord'[d] = ord[d]
       /\ \A d \in CPUS : ord[d] \in ORDERS
  BY <1>3 DEF TypeOK
<1>14. PagesInv'
  <2>1. UNCHANGED <<pgtype, order, own, boot>>
    BY <1>3
  <2>2. {"HEAD", "FREE"} # {"BODY"} /\ {"HEAD", "FREE"} # {"STATIC"}
    OBVIOUS
  <2> QED
    BY <1>4, <1>12, <2>1, <2>2 DEF PagesInv
<1>15. LocalInv'
  <2>1. UNCHANGED <<order, req, ret, rst, rstn>>
    BY <1>3
  <2>2. next \notin FreePcs /\ next \notin MergePcs /\ next # "panic"
        /\ next \notin {"alloc_pool", "alloc_page"}
    BY <1>6 DEF FreePcs, MergePcs
  <2> QED
    BY <1>6, <1>13, <2>1, <2>2 DEF LocalInv
<1>16. PoolLockInv'
  <2>1. next \notin PoolHeld /\ next # "alloc_page"
    BY <1>6 DEF PoolHeld
  <2> QED
    BY <1>7, <1>12, <1>13, <2>1 DEF PoolLockInv, PoolHeld
<1>17. ListsInv'
  <2> SUFFICES ASSUME NEW n \in ORDERS
               PROVE  /\ Listed(pool'[n]) = {h \in PGS : "FREE" \in flags'[h] /\ order[h] = n}
                      /\ NoRepeats(pool'[n])
    BY <1>3 DEF ListsInv, Listed, NoRepeats
  <2>1. Listed(pool[n]) = {h \in PGS : "FREE" \in flags[h] /\ order[h] = n} /\ NoRepeats(pool[n])
    BY DEF ListsInv
  <2>2. "FREE" \in flags'[p]
    BY <1>12
  <2>3. CASE n = o
    <3>1. Listed(pool'[n]) = Listed(pool[n]) \cup {p} /\ NoRepeats(pool'[n])
      BY <1>9, <1>12, <2>3
    <3>2. \A h \in PGS : "FREE" \in flags'[h] /\ order[h] = n <=> ("FREE" \in flags[h] /\ order[h] = n) \/ h = p
      BY <1>1, <1>12, <2>2, <2>3
    <3> QED
      BY <1>1, <2>1, <3>1, <3>2
  <2>4. CASE n # o
    BY <1>1, <1>12, <2>1, <2>2, <2>4
  <2> QED
    BY <2>3, <2>4
<1>18. CountsInv'
  <2>1. \A d \in CPUS : d # c /\ pc[d] = "alloc_page" => ord[d] # o
    BY <1>7 DEF PoolHeld
  <2>2. pc'[c] # "alloc_page" /\ pc[c] # "alloc_page"
    BY <1>0, <1>6, <1>13
  <2> SUFFICES ASSUME NEW n \in ORDERS
               PROVE  /\ (\A d \in CPUS : ~(pc'[d] = "alloc_page" /\ ord'[d] = n)) => rest'[n] = Len(pool'[n])
                      /\ \A d \in CPUS : pc'[d] = "alloc_page" /\ ord'[d] = n => rest'[n] = Len(pool'[n]) - 1
    BY DEF CountsInv
  <2>3. CASE n = o
    BY <1>9, <1>10, <1>12, <1>13, <2>1, <2>2, <2>3
  <2>4. CASE n # o
    <3>1. \A d \in CPUS : (pc'[d] = "alloc_page" /\ ord'[d] = n) <=> (pc[d] = "alloc_page" /\ ord[d] = n)
      BY <1>13, <2>2
    <3> QED
      BY <1>12, <2>4, <3>1 DEF CountsInv
  <2> QED
    BY <2>3, <2>4
<1>19. \A h \in PGS : IsHead(h)' <=> IsHead(h)
  BY <1>1, <1>12 DEF IsHead
<1>20. Tiling'
  BY <1>3, <1>19, TilingSameHeads
<1>21. OneClaimPerBlock'
  <2>1. \A h \in PGS : (BootsLater(h)' <=> BootsLater(h)) /\ (Owned(h)' <=> Owned(h))
    BY <1>3, <1>19 DEF BootsLater, Owned
  <2>2. \A d \in CPUS, h \in PGS :
          /\ Frees(d, h)' <=> Frees(d, h) /\ d # c
          /\ Returns(d, h)' <=> Returns(d, h)
    BY <1>3, <1>6, <1>13 DEF Frees, Returns, FreePcs
  <2>3. \A h \in PGS : h # p => ~Frees(c, h)
    BY <1>5 DEF Frees
  <2>4. ~Owned(p) /\ ~BootsLater(p) /\ \A d \in CPUS : ~Returns(d, p) /\ (d # c => ~Frees(d, p))
    BY <1>4 DEF Owned, Frees, Returns, BootsLater
  <2>5. flags'[p] # {"HEAD"}
    BY <1>12
  <2> SUFFICES ASSUME NEW h \in PGS PROVE OneClaim(h)'
    BY DEF OneClaimPerBlock
  <2>6. CASE h = p
    BY <2>1, <2>2, <2>4, <2>5, <2>6, Zenon DEF OneClaim
  <2>7. CASE h # p
    <3>1. flags'[h] = flags[h] /\ OneClaim(h)
      BY <1>12, <2>7 DEF OneClaimPerBlock
    <3> QED
      BY <2>1, <2>2, <2>3, <2>7, <3>1, Zenon DEF OneClaim
  <2> QED
    BY <2>6, <2>7
<1> QED
  BY <1>11, <1>14, <1>15, <1>16, <1>17, <1>18, <1>20, <1>21

(* Joining the block being freed with the free neighbour q of its order.   *)
LEMMA MergeInv ==
    ASSUME IInv, NEW c \in CPUS, pc[c] \in {"merge_bef", "merge_aft"},
           NEW q \in PGS, NEW low \in PGS, NEW high \in PGS,
           \/ low = q /\ high = pg[c]
           \/ low = pg[c] /\ high = q,
           high = low + ORDER2PGNUM[ord[c]],
           Mergeable(q, ord[c]), Merge(c, q, low, high), UNCHANGED boot
    PROVE  IInv'
<1> DEFINE p == pg[c]
           o == ord[c]
           next == AfterOrder(o + 1)
<1>0. pc[c] \in FreePcs /\ pc[c] \in MergePcs /\ pc[c] \in PoolHeld /\ pc[c] # "alloc_page"
  BY DEF FreePcs, MergePcs, PoolHeld
<1>1. /\ p \in PGS /\ flags[p] = {"HEAD"} /\ order[p] = o /\ o \in ORDERS
  BY <1>0, FreeAsserts
<1>2. /\ order[q] = o /\ "FREE" \in flags[q] /\ flags[q] = {"HEAD", "FREE"}
  BY FlagFacts DEF Mergeable, IInv
<1>3. /\ pool' = [pool EXCEPT ![o] = ListDel(pool[o], q)]
      /\ rest' = [rest EXCEPT ![o] = rest[o] - 1]
      /\ flags' = [flags EXCEPT ![low] = {"HEAD"}, ![high] = {"BODY"}]
      /\ order' = [order EXCEPT ![low] = o + 1, ![high] = MAX_ORDER]
      /\ pageLk' = [pageLk EXCEPT ![p] = NoCpu]
      /\ poolLk' = [poolLk EXCEPT ![o] = NoCpu]
      /\ pg' = [pg EXCEPT ![c] = low]
      /\ ord' = [ord EXCEPT ![c] = o + 1]
      /\ pc' = [pc EXCEPT ![c] = next]
      /\ UNCHANGED <<pgtype, req, ret, rst, rstn, own, boot>>
  BY DEF Merge, Unlock, Goto
<1>4. /\ ~(p >= boot) /\ p \notin own
      /\ \A d \in CPUS : ret[d] # p /\ (d # c /\ pc[d] \in FreePcs => pg[d] # p)
  BY <1>0, FreedAlone
<1>5. /\ \A d \in CPUS : /\ pc[d] \in FreePcs => pg[d] # q
                         /\ ret[d] # q /\ q \notin own /\ ~BootsLater(q)
  <2>1. flags[q] # {"HEAD"}
    BY <1>2
  <2> QED
    BY <2>1, NotWorkedOn
<1>6. /\ pg[c] = p /\ ord[c] = o /\ ((low = q /\ high = p) \/ (low = p /\ high = q))
      /\ high = low + ORDER2PGNUM[o]
  OBVIOUS
<1>7. o + 1 \in ORDERS /\ o + 1 \in 0..MAX_ORDER /\ MAX_ORDER \in 0..MAX_ORDER
  <2>1. o < MAX_ORDER - 1
    BY <1>0 DEF IInv, LocalInv
  <2>2. MAX_ORDER \in Nat /\ o \in 0..(MAX_ORDER - 1)
    BY <1>1, OrderAssumption DEF ORDERS
  <2> HIDE DEF o
  <2> QED
    BY <2>1, <2>2 DEF ORDERS
<1>8. /\ next \in {"merge_pool", "insert_pool"} /\ (next = "merge_pool" => o + 1 < MAX_ORDER - 1)
  BY DEF AfterOrder
<1> HIDE DEF p, o, next
<1> USE DEF IInv
<1>9. p # q /\ low # high
  BY <1>1, <1>2, <1>6
<1>10. ~(q >= boot)
  BY <1>2 DEF PagesInv
<1>11. poolLk[o] = c /\ \A d \in CPUS : d # c /\ pc[d] \in PoolHeld => ord[d] # o
  BY <1>0, <1>6 DEF PoolLockInv
<1>12. pool[o] \in Seq(PGS) /\ NoRepeats(pool[o]) /\ q \in Listed(pool[o])
  <2>1. pool[o] \in Seq(PGS)
    BY <1>1 DEF TypeOK
  <2>2. NoRepeats(pool[o]) /\ Listed(pool[o]) = {h \in PGS : "FREE" \in flags[h] /\ order[h] = o}
    BY <1>1 DEF ListsInv
  <2> QED
    BY <1>2, <2>1, <2>2
<1>13. /\ ListDel(pool[o], q) \in Seq(PGS) /\ Len(ListDel(pool[o], q)) = Len(pool[o]) - 1
       /\ Listed(ListDel(pool[o], q)) = Listed(pool[o]) \ {q} /\ NoRepeats(ListDel(pool[o], q))
  BY <1>12, ListDelFacts
<1>14. rest[o] = Len(pool[o]) /\ rest[o] \in Int /\ \A d \in CPUS : ~(pc[d] = "alloc_page" /\ ord[d] = o)
  <2>1. \A d \in CPUS : ~(pc[d] = "alloc_page" /\ ord[d] = o)
    BY <1>0, <1>11 DEF PoolHeld
  <2> QED
    BY <1>1, <2>1 DEF CountsInv, TypeOK
<1>15. TypeOK'
  <2>1. {"HEAD"} \in SUBSET FLAGS /\ {"BODY"} \in SUBSET FLAGS
    BY DEF FLAGS
  <2>2. flags' \in [PGS -> SUBSET FLAGS]
    BY <1>3, <2>1 DEF TypeOK, PgfmTypeOK
  <2>3. order' \in [PGS -> 0..MAX_ORDER]
    BY <1>3, <1>7 DEF TypeOK, PgfmTypeOK
  <2>4. pool' \in [ORDERS -> Seq(PGS)]
    BY <1>3, <1>13 DEF TypeOK
  <2>5. rest' \in [ORDERS -> Int]
    <3>1. rest[o] - 1 \in Int
      BY <1>14
    <3> QED
      BY <1>3, <3>1 DEF TypeOK
  <2>6. pc' \in [CPUS -> PCS]
    BY <1>3, <1>8 DEF TypeOK, PCS
  <2>7. pg' \in [CPUS -> PGS \cup {NoPage}] /\ ord' \in [CPUS -> ORDERS]
    BY <1>3, <1>7 DEF TypeOK
  <2>8. poolLk' \in [ORDERS -> CPUS \cup {NoCpu}] /\ pageLk' \in [PGS -> CPUS \cup {NoCpu}]
    BY <1>3 DEF TypeOK
  <2> QED
    BY <1>3, <2>2, <2>3, <2>4, <2>5, <2>6, <2>7, <2>8 DEF TypeOK, PgfmTypeOK
<1>16. /\ flags'[low] = {"HEAD"} /\ order'[low] = o + 1
       /\ flags'[high] = {"BODY"} /\ order'[high] = MAX_ORDER
       /\ \A h \in PGS : h # low /\ h # high => flags'[h] = flags[h] /\ order'[h] = order[h]
  BY <1>3, <1>9 DEF TypeOK, PgfmTypeOK
<1>17. /\ pool'[o] = ListDel(pool[o], q) /\ rest'[o] = rest[o] - 1
       /\ \A n \in ORDERS : n # o => pool'[n] = pool[n] /\ rest'[n] = rest[n] /\ poolLk'[n] = poolLk[n]
  BY <1>1, <1>3 DEF TypeOK
<1>18. /\ pc'[c] = next /\ pg'[c] = low /\ ord'[c] = o + 1
       /\ \A d \in CPUS : d # c => pc'[d] = pc[d] /\ pg'[d] = pg[d] /\ ord'[d] = ord[d]
       /\ \A d \in CPUS : ord[d] \in ORDERS
       /\ UNCHANGED <<pgtype, req, ret, rst, rstn, own, boot>>
  BY <1>3 DEF TypeOK
<1>19. PagesInv'
  <2>1. ~(low >= boot) /\ ~(high >= boot)
    BY <1>4, <1>6, <1>10
  <2>2. {"HEAD"} # {"BODY"} /\ {"HEAD"} # {"STATIC"} /\ {"BODY"} # {"STATIC"}
    OBVIOUS
  <2> SUFFICES ASSUME NEW h \in PGS
               PROVE  /\ flags'[h] \in {{"HEAD"}, {"HEAD", "FREE"}, {"BODY"}, {"STATIC"}}
                      /\ flags'[h] = {"BODY"} => order'[h] = MAX_ORDER
                      /\ h >= boot => flags'[h] \in {{"HEAD"}, {"STATIC"}}
                      /\ flags'[h] = {"STATIC"} => ~(FREE_START <= h /\ h < FREE_END)
                      /\ pgtype[h] # "BUDDY" => h \in own
    BY <1>18 DEF PagesInv
  <2>3. CASE h = low \/ h = high
    BY <1>16, <2>1, <2>2, <2>3 DEF PagesInv
  <2>4. CASE h # low /\ h # high
    BY <1>16, <2>4 DEF PagesInv
  <2> QED
    BY <2>3, <2>4
<1>20. LocalInv'
  <2> SUFFICES ASSUME NEW d \in CPUS
               PROVE  /\ pc'[d] # "panic"
                      /\ pc'[d] \in {"alloc_pool", "alloc_page"} => req[d] <= ord'[d]
                      /\ pc'[d] \in {"idle", "alloc_pool", "alloc_page"} => ret[d] = NoPage
                      /\ pc'[d] = "split" => ret[d] # NoPage
                      /\ ret[d] = NoPage => rstn[d] = 0
                      /\ rstn[d] < ORDER2PGNUM[MAX_ORDER]
                      /\ pc'[d] \in FreePcs => pg'[d] \in PGS
                      /\ pc'[d] \in FreePcs \ {"free_entry"} => order'[pg'[d]] = ord'[d]
                      /\ pc'[d] \in MergePcs => ord'[d] < MAX_ORDER - 1
    BY <1>18 DEF LocalInv
  <2>1. CASE d = c
    <3>1. (ret[d] = NoPage => rstn[d] = 0) /\ rstn[d] < ORDER2PGNUM[MAX_ORDER]
      BY DEF LocalInv
    <3> QED
      BY <1>8, <1>16, <1>18, <2>1, <3>1 DEF MergePcs
  <2>2. CASE d # c
    <3>1. pc[d] \in FreePcs => order'[pg[d]] = order[pg[d]]
      <4>1. ASSUME pc[d] \in FreePcs PROVE pg[d] \in PGS /\ pg[d] # p /\ pg[d] # q
        BY <1>4, <1>5, <2>2, <4>1 DEF LocalInv
      <4> QED
        BY <1>6, <1>16, <4>1
    <3> QED
      BY <1>18, <2>2, <3>1 DEF LocalInv
  <2> QED
    BY <2>1, <2>2
<1>21. PoolLockInv'
  <2>1. next \notin PoolHeld /\ next # "alloc_page"
    BY <1>8 DEF PoolHeld
  <2> QED
    BY <1>11, <1>17, <1>18, <2>1 DEF PoolLockInv, PoolHeld
<1>22. ListsInv'
  <2> SUFFICES ASSUME NEW n \in ORDERS
               PROVE  /\ Listed(pool'[n]) = {h \in PGS : "FREE" \in flags'[h] /\ order'[h] = n}
                      /\ NoRepeats(pool'[n])
    BY DEF ListsInv, Listed, NoRepeats
  <2>1. Listed(pool[n]) = {h \in PGS : "FREE" \in flags[h] /\ order[h] = n} /\ NoRepeats(pool[n])
    BY DEF ListsInv
  <2>2. "FREE" \notin flags'[low] /\ "FREE" \notin flags'[high] /\ "FREE" \notin flags[p]
    BY <1>1, <1>16
  <2>3. \A h \in PGS : "FREE" \in flags'[h] /\ order'[h] = n <=> "FREE" \in flags[h] /\ order[h] = n /\ h # q
    BY <1>6, <1>16, <2>2
  <2>4. CASE n = o
    BY <1>13, <1>17, <2>1, <2>3, <2>4
  <2>5. CASE n # o
    <3>1. \A h \in PGS : "FREE" \in flags'[h] /\ order'[h] = n <=> "FREE" \in flags[h] /\ order[h] = n
      BY <1>2, <2>3, <2>5
    <3> QED
      BY <1>17, <2>1, <2>5, <3>1
  <2> QED
    BY <2>4, <2>5
<1>23. CountsInv'
  <2>1. pc'[c] # "alloc_page"
    BY <1>8, <1>18
  <2> SUFFICES ASSUME NEW n \in ORDERS
               PROVE  /\ (\A d \in CPUS : ~(pc'[d] = "alloc_page" /\ ord'[d] = n)) => rest'[n] = Len(pool'[n])
                      /\ \A d \in CPUS : pc'[d] = "alloc_page" /\ ord'[d] = n => rest'[n] = Len(pool'[n]) - 1
    BY DEF CountsInv
  <2>2. \A d \in CPUS : (pc'[d] = "alloc_page" /\ ord'[d] = n) <=> (pc[d] = "alloc_page" /\ ord[d] = n)
    BY <1>0, <1>18, <2>1
  <2>3. CASE n = o
    BY <1>13, <1>14, <1>17, <2>2, <2>3
  <2>4. CASE n # o
    BY <1>17, <2>2, <2>4 DEF CountsInv
  <2> QED
    BY <2>3, <2>4
<1>24. IsHead(low) /\ IsHead(high) /\ \A h \in PGS : IsHead(h)' <=> IsHead(h) /\ h # high
  BY <1>1, <1>2, <1>6, <1>16 DEF IsHead
<1>25. Tiling'
  <2>1. order[low] = o /\ order[high] = o
    BY <1>1, <1>2, <1>6
  <2> QED
    BY <1>1, <1>3, <1>6, <1>7, <1>24, <2>1, TilingMerge
<1>26. OneClaimPerBlock'
  <2>1. \A h \in PGS : (BootsLater(h)' <=> BootsLater(h)) /\ (Owned(h)' <=> Owned(h))
    BY <1>4, <1>6, <1>10, <1>18, <1>24 DEF BootsLater, Owned
  <2>2. \A d \in CPUS, h \in PGS :
          /\ Frees(d, h)' <=> (IF d = c THEN h = low ELSE Frees(d, h))
          /\ Returns(d, h)' <=> Returns(d, h)
    BY <1>8, <1>18 DEF Frees, Returns, FreePcs
  <2>3. \A h \in PGS : Frees(c, h) <=> h = p
    BY <1>0, <1>6 DEF Frees
  <2>4. /\ \A h \in {low, high} : ~Owned(h) /\ ~BootsLater(h)
        /\ \A h \in {low, high} : \A d \in CPUS : ~Returns(d, h) /\ (d # c => ~Frees(d, h))
    BY <1>4, <1>5, <1>6 DEF Owned, Frees, Returns, BootsLater
  <2> SUFFICES ASSUME NEW h \in PGS PROVE OneClaim(h)'
    BY DEF OneClaimPerBlock
  <2>5. CASE h = low
    BY <1>16, <2>1, <2>2, <2>4, <2>5 DEF OneClaim
  <2>6. CASE h = high
    <3>1. flags'[h] # {"HEAD"} /\ h # low
      BY <1>9, <1>16, <2>6
    <3> QED
      BY <2>1, <2>2, <2>4, <2>6, <3>1 DEF OneClaim
  <2>7. CASE h # low /\ h # high
    <3>1. flags'[h] = flags[h] /\ OneClaim(h) /\ h # p
      BY <1>6, <1>16, <2>7 DEF OneClaimPerBlock
    <3>2. \A d \in CPUS : (Frees(d, h)' <=> Frees(d, h)) /\ (Returns(d, h)' <=> Returns(d, h))
      BY <2>2, <2>3, <2>7, <3>1
    <3> QED
      BY <2>1, <3>1, <3>2, Zenon DEF OneClaim
  <2> QED
    BY <2>5, <2>6, <2>7
<1> QED
  BY <1>15, <1>19, <1>20, <1>21, <1>22, <1>23, <1>25, <1>26

LEMMA MergeBefInv == ASSUME IInv, NEW c \in CPUS, MergeBef(c) PROVE IInv'
<1> DEFINE bef == pg[c] - ORDER2PGNUM[ord[c]]
<1>0. pc[c] = "merge_bef" /\ UNCHANGED boot
  BY DEF MergeBef
<1>1. CASE bef \in PGS /\ Mergeable(bef, ord[c])
  <2>1. Merge(c, bef, bef, pg[c])
    BY <1>1 DEF MergeBef
  <2>2. pg[c] \in PGS /\ ord[c] \in ORDERS
    BY <1>0, FreeAsserts DEF FreePcs
  <2>3. pg[c] = bef + ORDER2PGNUM[ord[c]]
    <3>1. ord[c] \in 0..MAX_ORDER /\ pg[c] \in Int
      BY <2>2, PagesAssumption, OrderAssumption DEF PGS, ORDERS
    <3>2. ORDER2PGNUM[ord[c]] \in Nat
      BY <3>1, ShiftFacts
    <3> QED
      BY <3>1, <3>2
  <2> HIDE DEF bef
  <2> QED
    BY <1>0, <1>1, <2>1, <2>2, <2>3, MergeInv
<1>2. CASE ~(bef \in PGS /\ Mergeable(bef, ord[c]))
  <2>1. Goto(c, "merge_aft") /\ UNCHANGED <<sharedVars, lockVars, pg, ord, req, ret, rst, rstn, own>>
    BY <1>2 DEF MergeBef
  <2> QED
    BY <1>0, <2>1, NoMergeInv
<1> QED
  BY <1>1, <1>2

LEMMA MergeAftInv == ASSUME IInv, NEW c \in CPUS, MergeAft(c) PROVE IInv'
<1> DEFINE aft == pg[c] + ORDER2PGNUM[ord[c]]
<1>0. pc[c] = "merge_aft" /\ UNCHANGED boot
  BY DEF MergeAft
<1>1. CASE aft \in PGS /\ Mergeable(aft, ord[c])
  <2>1. Merge(c, aft, pg[c], aft)
    BY <1>1 DEF MergeAft
  <2>2. pg[c] \in PGS
    BY <1>0, FreeAsserts DEF FreePcs
  <2>3. aft = pg[c] + ORDER2PGNUM[ord[c]]
    OBVIOUS
  <2> HIDE DEF aft
  <2> QED
    BY <1>0, <1>1, <2>1, <2>2, <2>3, MergeInv
<1>2. CASE ~(aft \in PGS /\ Mergeable(aft, ord[c]))
  <2>1. Unlock(c) /\ Goto(c, "insert_pool") /\ UNCHANGED <<sharedVars, pg, ord, req, ret, rst, rstn, own>>
    BY <1>2 DEF MergeAft
  <2> QED
    BY <1>0, <2>1, NoMergeInv
<1> QED
  BY <1>1, <1>2

-----------------------------------------------------------------------------
(* The table pgfm_module_init leaves satisfies the invariant.              *)
LEMMA InitIInv == ASSUME Init PROVE IInv
<1> USE DEF Init, PgfmInit
<1>1. 0 \in ORDERS /\ 0 \in 0..MAX_ORDER /\ ORDER2PGNUM[0] = 1
  BY OrderAssumption DEF ORDERS
<1>2. \A p \in PGS : p \in Nat /\ p >= 0 /\ p # NoPage /\ (FREE_START <= p /\ p < FREE_END <=> p \in FREE_START..(FREE_END - 1))
  BY PagesAssumption DEF PGS, NoPage
<1>3. TypeOK
  <2>1. PgfmTypeOK
    BY <1>1 DEF PgfmTypeOK, PGTYPES, FLAGS
  <2>2. pool \in [ORDERS -> Seq(PGS)] /\ rest \in [ORDERS -> Int]
    OBVIOUS
  <2>3. 0 \in 0..NPAGES
    BY PagesAssumption
  <2> QED
    BY <1>1, <2>1, <2>2, <2>3 DEF TypeOK, PCS
<1>4. \A p \in PGS : /\ flags[p] = (IF FREE_START <= p /\ p < FREE_END THEN {"HEAD"} ELSE {"STATIC"})
                     /\ order[p] = 0 /\ pgtype[p] = "BUDDY"
  BY <1>2
<1>5. PagesInv
  BY <1>4 DEF PagesInv
<1>6. LocalInv
  <2>1. 0 < ORDER2PGNUM[MAX_ORDER]
    BY ShiftFacts, OrderAssumption
  <2> QED
    BY <2>1 DEF LocalInv, FreePcs, MergePcs
<1>7. PoolLockInv
  BY DEF PoolLockInv, PoolHeld
<1>8. ListsInv
  <2> SUFFICES ASSUME NEW o \in ORDERS
               PROVE  /\ Listed(pool[o]) = {p \in PGS : "FREE" \in flags[p] /\ order[p] = o}
                      /\ NoRepeats(pool[o])
    BY DEF ListsInv
  <2>1. pool[o] = <<>>
    OBVIOUS
  <2>2. \A p \in PGS : "FREE" \notin flags[p]
    BY <1>4
  <2>3. Listed(pool[o]) = {} /\ NoRepeats(pool[o])
    BY <2>1 DEF Listed, NoRepeats
  <2> QED
    BY <2>2, <2>3
<1>9. CountsInv
  BY DEF CountsInv
<1>10. \A h \in PGS : /\ IsHead(h) <=> FREE_START <= h /\ h < FREE_END
                      /\ flags[h] = {"HEAD"} <=> IsHead(h)
                      /\ Size(h) = 1
  BY <1>1, <1>4 DEF IsHead, Size
<1>11. Tiling
  <2>1. \A d \in CPUS : rstn[d] = 0
    OBVIOUS
  <2>2. BlocksApart
    BY <1>1, <1>2, <1>4, <1>10, <2>1, PagesAssumption DEF BlocksApart, InFreeRange, Apart
  <2>3. RemnantsApart
    BY <2>1 DEF RemnantsApart
  <2>4. ASSUME NEW p \in FREE_START..(FREE_END - 1) PROVE Covered(p)
    <3>1. p \in PGS /\ FREE_START <= p /\ p < FREE_END
      BY PagesAssumption DEF PGS
    <3>2. IsHead(p) /\ p \in Block(p, order[p])
      BY <1>1, <1>2, <1>4, <1>10, <3>1 DEF Block
    <3> QED
      BY <3>1, <3>2 DEF Covered
  <2> QED
    BY <2>2, <2>3, <2>4 DEF Tiling
<1>12. OneClaimPerBlock
  <2>1. \A h \in PGS : ~Owned(h) /\ (BootsLater(h) <=> flags[h] = {"HEAD"})
    BY <1>2, <1>10 DEF Owned, BootsLater
  <2>2. \A d \in CPUS, h \in PGS : ~Frees(d, h) /\ ~Returns(d, h)
    BY <1>2 DEF Frees, Returns, FreePcs
  <2> QED
    BY <2>1, <2>2, Zenon DEF OneClaimPerBlock, OneClaim
<1> QED
  BY <1>3, <1>5, <1>6, <1>7, <1>8, <1>9, <1>11, <1>12 DEF IInv

(* Every step of every CPU keeps the invariant.                            *)
LEMMA NextIInv == ASSUME IInv, [Next]_vars PROVE IInv'
<1>1. ASSUME NEW c \in CPUS, Step(c) PROVE IInv'
  <2>1. CASE AllocPoolEmpty(c)
    BY <2>1, AllocPoolEmptyInv
  <2>2. CASE AllocPool(c)
    BY <2>2, AllocPoolInv
  <2>3. CASE AllocPage(c)
    BY <2>3, AllocPageInv
  <2>4. CASE Split(c)
    BY <2>4, SplitInv
  <2>5. CASE AllocReturn(c)
    BY <2>5, AllocReturnInv
  <2>6. CASE FreeEntry(c)
    BY <2>6, FreeEntryInv
  <2>7. CASE MergePool(c) \/ InsertPool(c)
    BY <2>7, LockPoolInv
  <2>8. CASE MergePage(c)
    BY <2>8, MergePageInv
  <2>9. CASE MergeBef(c)
    BY <2>9, MergeBefInv
  <2>10. CASE MergeAft(c)
    BY <2>10, MergeAftInv
  <2>11. CASE InsertPage(c)
    BY <2>11, InsertPageInv
  <2> QED
    BY <1>1, <2>1, <2>2, <2>3, <2>4, <2>5, <2>6, <2>7, <2>8, <2>9, <2>10, <2>11, Zenon DEF Step
<1>2. ASSUME NEW c \in CPUS, BootFree(c) PROVE IInv'
  BY <1>2, BootFreeInv
<1>3. ASSUME NEW c \in CPUS, Call(c) PROVE IInv'
  <2>1. ASSUME NEW o \in ORDERS, Alloc(c, o) PROVE IInv'
    BY <2>1, AllocInv
  <2>2. ASSUME NEW p \in own, Free(c, p) PROVE IInv'
    BY <2>2, FreeInv
  <2>3. ASSUME NEW p \in own, NEW t \in CLIENT_TYPES \cup {"BUDDY"}, SetType(c, p, t) PROVE IInv'
    BY <2>3, SetTypeInv
  <2> QED
    BY <1>3, <2>1, <2>2, <2>3, Zenon DEF Call
<1>4. CASE UNCHANGED vars
  <2>1. /\ UNCHANGED <<pgtype, flags, order, pool, rest, poolLk, pageLk, pc, pg, ord, req, ret>>
        /\ UNCHANGED <<rst, rstn, own, boot>>
    BY <1>4 DEF vars, sharedVars, lockVars, localVars
  <2>2. TypeOK'
    BY <2>1 DEF IInv, TypeOK, PgfmTypeOK
  <2>3. PagesInv' /\ LocalInv' /\ PoolLockInv' /\ ListsInv' /\ CountsInv'
    BY <2>1 DEF IInv, PagesInv, LocalInv, PoolLockInv, ListsInv, CountsInv
  <2>4. Tiling'
    BY <2>1, <2>2, TilingUnchanged DEF IInv
  <2>5. OneClaimPerBlock'
    BY <2>1, ClaimsUnchanged DEF IInv, Frees
  <2> QED
    BY <2>2, <2>3, <2>4, <2>5 DEF IInv
<1> QED
  BY <1>1, <1>2, <1>3, <1>4, Zenon DEF Next

(* The invariant holds in every state of every run of the allocator.       *)
THEOREM Invariant == Spec => []IInv
<1>1. Init => IInv
  BY InitIInv
<1>2. IInv /\ [Next]_vars => IInv'
  BY NextIInv
<1> QED
  BY <1>1, <1>2, PTL DEF Spec

(* All variables of bkp_alloc, bkp_free, the table and the pools keep      *)
(* their types: no order reaches CONFIG_BUDDYSYSTEM_MAX_ORDER as an index  *)
(* of a pool and no page id leaves the table.                              *)
THEOREM TypeCorrect == Spec => []TypeOK
<1>1. IInv => TypeOK
  BY DEF IInv
<1> QED
  BY <1>1, Invariant, PTL

(* No ASSERT of bkp_alloc and bkp_free fails and no empty list is read, on *)
(* any number of CPUs that allocate and free at the same time.             *)
THEOREM AssertsHold == Spec => []NoPanic
<1>1. IInv => NoPanic
  BY DEF IInv, LocalInv, NoPanic
<1> QED
  BY <1>1, Invariant, PTL

(* Every page of the free range is always in exactly one block or in the   *)
(* rest of one block that a bkp_alloc is splitting: no page is lost and no *)
(* page is in two blocks.                                                  *)
THEOREM PagesTiled == Spec => []Tiling
<1>1. IInv => Tiling
  BY DEF IInv
<1> QED
  BY <1>1, Invariant, PTL

(* A used block always has exactly one responsible party, and a free block *)
(* or a body page none.                                                    *)
THEOREM ClaimsUnique == Spec => []OneClaimPerBlock
<1>1. IInv => OneClaimPerBlock
  BY DEF IInv
<1> QED
  BY <1>1, Invariant, PTL

(* The lists hold the free heads of their orders, each once, and the test  *)
(* of buddy_slfcheck passes for every pool that nobody has locked.         *)
THEOREM ListsAreExact == Spec => []PoolsExact
<1>1. ASSUME IInv, NEW o \in ORDERS, poolLk[o] = NoCpu PROVE BuddySlfcheck(o)
  <2>1. \A c \in CPUS : ~(pc[c] = "alloc_page" /\ ord[c] = o)
    BY <1>1, CpusAssumption DEF IInv, PoolLockInv, PoolHeld
  <2>2. rest[o] = Len(pool[o])
    BY <1>1, <2>1 DEF IInv, CountsInv
  <2>3. \A p \in Listed(pool[o]) : order[p] = o
    BY <1>1 DEF IInv, ListsInv
  <2> QED
    BY <2>2, <2>3 DEF BuddySlfcheck, Listed
<1>2. IInv => PoolsExact
  BY <1>1 DEF IInv, ListsInv, NoRepeats, PoolsExact
<1> QED
  BY <1>2, Invariant, PTL

-----------------------------------------------------------------------------
(* pages_slfcheck.                                                         *)

(* The kernel image and the page frame table stay static.                  *)
OutsideInv ==
    \A p \in PGS : ~(FREE_START <= p /\ p < FREE_END) => flags[p] = {"STATIC"}

(* Blocks lie in the free range.                                           *)
LEMMA HeadInRange ==
    ASSUME IInv, NEW h \in PGS, IsHead(h)
    PROVE  FREE_START <= h /\ h < FREE_END
<1>1. order[h] \in ORDERS /\ InFreeRange(h, Size(h))
  BY DEF IInv, Tiling, BlocksApart
<1>2. Size(h) \in Nat /\ Size(h) >= 1
  BY <1>1, ShiftFacts, OrderAssumption DEF Size, ORDERS
<1>3. h \in Int /\ FREE_END \in Int
  BY PagesAssumption DEF PGS
<1> QED
  BY <1>1, <1>2, <1>3 DEF InFreeRange

LEMMA OutsideStep == ASSUME IInv, OutsideInv, [Next]_vars PROVE OutsideInv'
<1> SUFFICES ASSUME NEW p \in PGS, ~(FREE_START <= p /\ p < FREE_END)
             PROVE  flags'[p] = flags[p]
  BY DEF OutsideInv
<1>0. flags \in [PGS -> SUBSET FLAGS]
  BY DEF IInv, TypeOK, PgfmTypeOK
<1>1. ASSUME NEW c \in CPUS, AllocPage(c) PROVE flags'[p] = flags[p]
  <2>1. pg[c] \in PGS /\ flags[pg[c]] = {"HEAD", "FREE"}
    BY <1>1, AllocPageAsserts DEF AllocPage
  <2>2. p # pg[c]
    BY <2>1, HeadInRange DEF IsHead
  <2> QED
    BY <1>0, <1>1, <2>2 DEF AllocPage, Panic, sharedVars
<1>2. ASSUME NEW c \in CPUS, Split(c) PROVE flags'[p] = flags[p]
  <2>1. pc[c] = "split" /\ rstn[c] # 0
    BY <1>2 DEF Split
  <2>2. rst[c] \in PGS /\ rstn[c] \in Nat /\ InFreeRange(rst[c], rstn[c])
    BY <2>1, SplitAsserts
  <2>3. p # rst[c]
    BY <2>1, <2>2, PagesAssumption DEF InFreeRange, PGS
  <2> QED
    BY <1>0, <1>2, <2>3 DEF Split, Panic, sharedVars
<1>3. ASSUME NEW c \in CPUS, NEW q \in PGS, pc[c] \in FreePcs, Mergeable(q, ord[c]),
             Merge(c, q, q, pg[c]) \/ Merge(c, q, pg[c], q)
      PROVE  flags'[p] = flags[p]
  <2>1. p # q
    BY <1>3, HeadInRange DEF Mergeable, IsHead
  <2>2. p # pg[c]
    BY <1>3, FreeAsserts, HeadInRange DEF IsHead
  <2> QED
    BY <1>0, <1>3, <2>1, <2>2 DEF Merge
<1>4. ASSUME NEW c \in CPUS, MergeBef(c) PROVE flags'[p] = flags[p]
  <2>1. pc[c] \in FreePcs
    BY <1>4 DEF MergeBef, FreePcs
  <2> QED
    BY <1>3, <1>4, <2>1, Zenon DEF MergeBef, sharedVars
<1>5. ASSUME NEW c \in CPUS, MergeAft(c) PROVE flags'[p] = flags[p]
  <2>1. pc[c] \in FreePcs
    BY <1>5 DEF MergeAft, FreePcs
  <2> QED
    BY <1>3, <1>5, <2>1, Zenon DEF MergeAft, sharedVars
<1>6. ASSUME NEW c \in CPUS, InsertPage(c) PROVE flags'[p] = flags[p]
  <2>1. pc[c] \in FreePcs
    BY <1>6 DEF InsertPage, FreePcs
  <2>2. p # pg[c]
    BY <2>1, FreeAsserts, HeadInRange DEF IsHead
  <2> QED
    BY <1>0, <1>6, <2>2 DEF InsertPage, Panic, sharedVars
<1>7. ASSUME NEW c \in CPUS, AllocPoolEmpty(c) \/ AllocPool(c) \/ AllocReturn(c) \/ FreeEntry(c) \/ MergePool(c)
      PROVE  flags' = flags
  BY <1>7, Zenon DEF AllocPoolEmpty, AllocPool, AllocReturn, FreeEntry, MergePool, Panic, sharedVars, pgfmVars
<1>8. ASSUME NEW c \in CPUS, MergePage(c) \/ InsertPool(c) \/ BootFree(c) \/ Call(c)
      PROVE  flags' = flags
  BY <1>8, Zenon DEF MergePage, InsertPool, BootFree, Call, Alloc, Free, SetType, Panic, sharedVars
<1>9. CASE UNCHANGED vars
  BY <1>9 DEF vars, sharedVars
<1> QED
  BY <1>1, <1>2, <1>4, <1>5, <1>6, <1>7, <1>8, <1>9, Zenon DEF Next, Step

(* What pages_slfcheck has left of the current block before page i: a      *)
(* block that goes on at page i has the pages up to its end left.          *)
Straddles(h, i) == h \in PGS /\ IsHead(h) /\ h < i /\ i < h + Size(h)

Left(i) ==
    IF \E h \in PGS : Straddles(h, i)
    THEN LET h == CHOOSE h \in PGS : Straddles(h, i) IN h + Size(h) - i
    ELSE IF \E h \in PGS : IsHead(h) /\ h < i THEN 0 ELSE NoHead

(* At most one block goes on at a page.                                    *)
LEMMA StraddlesOnce ==
    ASSUME IInv, NEW i \in Int, NEW h \in PGS, Straddles(h, i)
    PROVE  Left(i) = h + Size(h) - i
<1> DEFINE k == CHOOSE k \in PGS : Straddles(k, i)
<1>1. k \in PGS /\ Straddles(k, i)
  OBVIOUS
<1>2. k = h
  <2> SUFFICES ASSUME k # h PROVE FALSE
    OBVIOUS
  <2>1. order[h] \in ORDERS /\ order[k] \in ORDERS /\ Apart(h, Size(h), k, Size(k))
    BY <1>1 DEF IInv, Tiling, BlocksApart, Straddles
  <2>2. h \in Int /\ k \in Int /\ Size(h) \in Nat /\ Size(k) \in Nat
    BY <1>1, <2>1, ShiftFacts, OrderAssumption, PagesAssumption DEF Size, ORDERS, PGS
  <2> HIDE DEF k
  <2> QED
    BY <1>1, <2>1, <2>2 DEF Straddles, Apart
<1>3. Left(i) = k + Size(k) - i
  BY DEF Left
<1> QED
  BY <1>2, <1>3
LEMMA NotStraddled ==
    ASSUME NEW i, ~\E h \in PGS : Straddles(h, i)
    PROVE  /\ Left(i) \in {NoHead, 0}
           /\ Left(i) = IF \E h \in PGS : IsHead(h) /\ h < i THEN 0 ELSE NoHead
BY DEF Left

(* The sizes of blocks as the checks below use them.                       *)
LEMMA HeadFacts ==
    ASSUME IInv, NEW h \in PGS, IsHead(h)
    PROVE  /\ h \in Int /\ Size(h) \in Int /\ Size(h) >= 1
           /\ FREE_START <= h /\ h + Size(h) <= FREE_END
           /\ \A k \in PGS : IsHead(k) /\ k # h => h + Size(h) <= k \/ k + Size(k) <= h
<1>1. order[h] \in ORDERS /\ InFreeRange(h, Size(h))
  BY DEF IInv, Tiling, BlocksApart
<1>2. Size(h) \in Nat /\ Size(h) >= 1
  BY <1>1, ShiftFacts, OrderAssumption DEF Size, ORDERS
<1>3. \A k \in PGS : IsHead(k) /\ k # h => Apart(h, Size(h), k, Size(k))
  BY DEF IInv, Tiling, BlocksApart
<1> QED
  BY <1>1, <1>2, <1>3, PagesAssumption DEF InFreeRange, Apart, PGS

(* The step of the scan over a head: no earlier block reaches it.          *)
LEMMA ScanHead ==
    ASSUME IInv, NEW i \in PGS, IsHead(i)
    PROVE  Left(i) \in {NoHead, 0} /\ Left(i + 1) = ORDER2PGNUM[order[i]] - 1
<1>0. i \in Int
  BY PagesAssumption DEF PGS
<1>1. ~\E h \in PGS : Straddles(h, i)
  <2> SUFFICES ASSUME NEW h \in PGS, Straddles(h, i) PROVE FALSE
    OBVIOUS
  <2>1. IsHead(h) /\ h < i /\ i < h + Size(h)
    BY DEF Straddles
  <2> QED
    BY <1>0, <2>1, HeadFacts
<1>2. Left(i + 1) = Size(i) - 1
  <2>1. CASE Size(i) = 1
    <3>1. ASSUME NEW h \in PGS, Straddles(h, i + 1) PROVE FALSE
      <4>1. IsHead(h) /\ h < i + 1 /\ i + 1 < h + Size(h)
        BY <3>1 DEF Straddles
      <4>2. h \in Int /\ Size(h) \in Int
        BY <4>1, HeadFacts
      <4>3. h # i
        BY <1>0, <2>1, <4>1
      <4>4. Straddles(h, i)
        BY <1>0, <4>1, <4>2, <4>3 DEF Straddles
      <4> QED
        BY <1>1, <4>4
    <3>2. i < i + 1
      BY <1>0
    <3>3. Left(i + 1) = 0
      BY <3>1, <3>2, NotStraddled
    <3> QED
      BY <2>1, <3>3
  <2>2. CASE Size(i) # 1
    <3>1. Straddles(i, i + 1)
      BY <1>0, <2>2, HeadFacts DEF Straddles
    <3>2. Left(i + 1) = i + Size(i) - (i + 1)
      BY <1>0, <3>1, StraddlesOnce
    <3> QED
      BY <1>0, <3>2, HeadFacts
  <2> QED
    BY <2>1, <2>2
<1> QED
  BY <1>1, <1>2, NotStraddled DEF Size

(* The step over a body page, when no bkp_alloc holds body pages of no     *)
(* block: the block it is in goes on from the page before it.              *)
LEMMA ScanBody ==
    ASSUME IInv, OutsideInv, Quiescent, NEW i \in PGS, flags[i] = {"BODY"}
    PROVE  Left(i + 1) = Left(i) - 1
<1>0. i \in Int
  BY PagesAssumption DEF PGS
<1>1. i \in FREE_START..(FREE_END - 1)
  BY <1>0, PagesAssumption DEF OutsideInv
<1>2. ASSUME NEW c \in CPUS PROVE i \notin Remnant(c)
  <2>1. rstn[c] = 0 /\ rst[c] \in Int
    BY PagesAssumption DEF IInv, LocalInv, Quiescent, TypeOK
  <2> QED
    BY <1>0, <2>1 DEF Remnant
<1>3. PICK h \in PGS : IsHead(h) /\ i \in Block(h, order[h])
  BY <1>1, <1>2 DEF IInv, Tiling, Covered
<1>4. h # i
  BY <1>3 DEF IsHead
<1>5. h \in Int /\ Size(h) \in Int /\ h < i /\ i < h + Size(h)
  <2>1. h \in Int /\ Size(h) \in Int
    BY <1>3, HeadFacts
  <2>2. i \in h..(h + Size(h) - 1)
    BY <1>3 DEF Block, Size
  <2> QED
    BY <1>0, <1>4, <2>1, <2>2
<1>6. Left(i) = h + Size(h) - i
  BY <1>0, <1>3, <1>5, StraddlesOnce DEF Straddles
<1>7. CASE i + 1 < h + Size(h)
  <2>1. Left(i + 1) = h + Size(h) - (i + 1)
    BY <1>0, <1>3, <1>5, <1>7, StraddlesOnce DEF Straddles
  <2> QED
    BY <1>0, <1>5, <1>6, <2>1
<1>8. CASE ~(i + 1 < h + Size(h))
  <2>1. ASSUME NEW k \in PGS, Straddles(k, i + 1) PROVE FALSE
    <3>1. IsHead(k) /\ k < i + 1 /\ i + 1 < k + Size(k)
      BY <2>1 DEF Straddles
    <3>2. k # h
      BY <1>8, <3>1
    <3>3. k \in Int /\ Size(k) \in Int /\ (h + Size(h) <= k \/ k + Size(k) <= h)
      BY <1>3, <3>1, <3>2, HeadFacts
    <3> QED
      BY <1>0, <1>5, <3>1, <3>3
  <2>2. h < i + 1
    BY <1>0, <1>5
  <2>3. Left(i + 1) = 0
    BY <1>3, <2>1, <2>2, NotStraddled
  <2> QED
    BY <1>0, <1>5, <1>6, <1>8, <2>3
<1> QED
  BY <1>7, <1>8

(* The step over a static page: blocks stay in the free range.             *)
LEMMA ScanStatic ==
    ASSUME IInv, NEW i \in PGS, flags[i] = {"STATIC"}
    PROVE  Left(i + 1) = Left(i)
<1>0. i \in Int /\ ~IsHead(i)
  BY PagesAssumption DEF PGS, IsHead
<1>1. ~(FREE_START <= i /\ i < FREE_END)
  BY DEF IInv, PagesInv
<1>2. ASSUME NEW h \in PGS, IsHead(h) PROVE ~Straddles(h, i) /\ ~Straddles(h, i + 1) /\ (h < i <=> h < i + 1)
  <2>1. h # i /\ h \in Int /\ Size(h) \in Int /\ FREE_START <= h /\ h + Size(h) <= FREE_END
    BY <1>0, <1>2, HeadFacts
  <2> QED
    BY <1>0, <1>1, <2>1, PagesAssumption DEF Straddles
<1>3. (~\E h \in PGS : Straddles(h, i)) /\ (~\E h \in PGS : Straddles(h, i + 1))
  BY <1>2 DEF Straddles
<1>4. (\E h \in PGS : IsHead(h) /\ h < i) <=> (\E h \in PGS : IsHead(h) /\ h < i + 1)
  BY <1>2
<1> QED
  BY <1>3, <1>4, NotStraddled

(* pages_slfcheck when no call is in progress: its scan is in the state    *)
(* Left at every page.                                                     *)
LEMMA ScanPasses == IInv /\ OutsideInv => SlfcheckPasses
<1> SUFFICES ASSUME IInv, OutsideInv, Quiescent, \A p \in PGS : pgtype[p] # "VMA"
             PROVE  PagesSlfcheck
  BY DEF SlfcheckPasses
<1> DEFINE Scanned(i, bef) ==
             [ok   |-> bef.ok /\ PageCheck(i - 1, bef.left),
              left |-> IF "HEAD" \in flags[i - 1] THEN ORDER2PGNUM[order[i - 1]] - 1
                       ELSE IF "BODY" \in flags[i - 1] THEN bef.left - 1
                       ELSE bef.left]
           First == [ok |-> TRUE, left |-> NoHead]
           good == [i \in 0..NPAGES |-> [ok |-> TRUE, left |-> Left(i)]]
           scan[i \in 0..NPAGES] ==
             IF i = 0 THEN [ok |-> TRUE, left |-> NoHead]
             ELSE LET p == i - 1
                      bef == scan[i - 1]
                  IN  [ok   |-> bef.ok /\ PageCheck(p, bef.left),
                       left |-> IF "HEAD" \in flags[p] THEN ORDER2PGNUM[order[p]] - 1
                                ELSE IF "BODY" \in flags[p] THEN bef.left - 1
                                ELSE bef.left]
<1>1. PagesSlfcheck = scan[NPAGES].ok
  BY Zenon DEF PagesSlfcheck
<1>2. scan = CHOOSE s : s = [i \in 0..NPAGES |-> IF i = 0 THEN First ELSE Scanned(i, s[i - 1])]
  BY Zenon
<1>3. Left(0) = NoHead
  <2>1. \A h \in PGS : ~(h < 0)
    BY PagesAssumption DEF PGS
  <2> QED
    BY <2>1 DEF Left, Straddles
<1>4. ASSUME NEW i \in 0..NPAGES, i # 0
      PROVE  Scanned(i, [ok |-> TRUE, left |-> Left(i - 1)]) = [ok |-> TRUE, left |-> Left(i)]
  <2> DEFINE p == i - 1
  <2>1. p \in PGS /\ p + 1 = i
    BY <1>4, PagesAssumption DEF PGS
  <2> HIDE DEF p
  <2>2. flags[p] \in {{"HEAD"}, {"HEAD", "FREE"}, {"BODY"}, {"STATIC"}}
    BY <2>1 DEF IInv, PagesInv
  <2>3. pgtype[p] # "VMA" /\ (flags[p] = {"BODY"} => order[p] = MAX_ORDER)
    BY <2>1 DEF IInv, PagesInv
  <2>4. CASE flags[p] = {"HEAD"} \/ flags[p] = {"HEAD", "FREE"}
    <3>1. Left(p) \in {NoHead, 0} /\ Left(p + 1) = ORDER2PGNUM[order[p]] - 1
      BY <2>1, <2>4, ScanHead DEF IsHead
    <3>2. PageCheck(p, Left(p))
      BY <2>3, <2>4, <3>1 DEF PageCheck
    <3> QED
      BY <2>1, <2>4, <3>1, <3>2 DEF p
  <2>5. CASE flags[p] = {"BODY"}
    <3>1. Left(p + 1) = Left(p) - 1
      BY <2>1, <2>5, ScanBody
    <3>2. PageCheck(p, Left(p))
      BY <2>3, <2>5 DEF PageCheck
    <3> QED
      BY <2>1, <2>5, <3>1, <3>2 DEF p
  <2>6. CASE flags[p] = {"STATIC"}
    <3>1. Left(p + 1) = Left(p)
      BY <2>1, <2>6, ScanStatic
    <3>2. PageCheck(p, Left(p))
      BY <2>3, <2>6 DEF PageCheck
    <3> QED
      BY <2>1, <2>6, <3>1, <3>2 DEF p
  <2> QED
    BY <2>2, <2>4, <2>5, <2>6
<1> HIDE DEF Scanned, scan
<1>5. good = [i \in 0..NPAGES |-> IF i = 0 THEN First ELSE Scanned(i, good[i - 1])]
  <2>1. ASSUME NEW i \in 0..NPAGES
        PROVE  [ok |-> TRUE, left |-> Left(i)] = IF i = 0 THEN First ELSE Scanned(i, good[i - 1])
    <3>1. CASE i = 0
      BY <1>3, <3>1
    <3>2. CASE i # 0
      <4>1. i - 1 \in 0..NPAGES
        BY <3>2, PagesAssumption
      <4>2. good[i - 1] = [ok |-> TRUE, left |-> Left(i - 1)]
        BY <4>1
      <4> HIDE DEF good
      <4> QED
        BY <1>4, <3>2, <4>2, Zenon
    <3> QED
      BY <3>1, <3>2
  <2> QED
    BY <2>1
<1>6. scan = [i \in 0..NPAGES |-> IF i = 0 THEN First ELSE Scanned(i, scan[i - 1])]
  <2> HIDE DEF good, First
  <2> QED
    BY <1>2, <1>5, Zenon
<1> DEFINE Bad == {i \in Nat : i <= NPAGES /\ scan[i] # [ok |-> TRUE, left |-> Left(i)]}
<1>7. ASSUME Bad # {} PROVE FALSE
  <2>1. Bad \subseteq Nat
    OBVIOUS
  <2>2. PICK x \in Bad : \A y \in Bad : ~(y < x)
    BY <1>7, <2>1, LeastNatural
  <2>3. x \in Nat /\ x <= NPAGES /\ x \in 0..NPAGES
    BY PagesAssumption
  <2>4. x # 0
    BY <1>3, <1>6, <2>3
  <2>5. x - 1 \in Nat /\ x - 1 <= NPAGES /\ x - 1 < x
    BY <2>3, <2>4, PagesAssumption
  <2>6. scan[x - 1] = [ok |-> TRUE, left |-> Left(x - 1)]
    BY <2>2, <2>5
  <2>7. scan[x] = Scanned(x, scan[x - 1])
    BY <1>6, <2>3, <2>4
  <2>8. scan[x] = [ok |-> TRUE, left |-> Left(x)]
    BY <1>4, <2>3, <2>4, <2>6, <2>7, Zenon
  <2> QED
    BY <2>8
<1>8. scan[NPAGES] = [ok |-> TRUE, left |-> Left(NPAGES)]
  <2>1. NPAGES \in Nat /\ NPAGES <= NPAGES
    BY PagesAssumption
  <2>2. NPAGES \notin Bad
    BY <1>7
  <2> QED
    BY <2>1, <2>2, Zenon
<1> QED
  BY <1>1, <1>8

(* start_kernel's ASSERT(pages_slfcheck() == 0) holds whenever no call is  *)
(* in progress and no user address space has pages, whatever was allocated *)
(* and freed before, on any number of CPUs.                                *)
THEOREM SlfcheckAlwaysPasses == Spec => []SlfcheckPasses
<1>1. Init => OutsideInv
  BY PagesAssumption DEF Init, PgfmInit, OutsideInv, PGS
<1>2. IInv /\ OutsideInv /\ [Next]_vars => OutsideInv'
  BY OutsideStep
<1>3. IInv /\ OutsideInv => SlfcheckPasses
  BY ScanPasses
<1> QED
  BY <1>1, <1>2, <1>3, Invariant, PTL DEF Spec

-----------------------------------------------------------------------------
(* The allocator implements PageAlloc.                                     *)

(* A block in a caller's hands keeps its order.                            *)
LEMMA OwnedOrderKept ==
    ASSUME IInv, [Next]_vars, NEW p \in own
    PROVE  order'[p] = order[p]
<1> USE DEF IInv
<1>0. p \in PGS /\ flags[p] = {"HEAD"} /\ \A d \in CPUS : ~Frees(d, p)
  <2>1. p \in PGS /\ Owned(p)
    BY DEF TypeOK, Owned
  <2>2. OneClaim(p)
    BY <2>1 DEF OneClaimPerBlock
  <2> QED
    BY <2>1, <2>2, Zenon DEF OneClaim
<1>1. ASSUME NEW c \in CPUS, AllocPage(c) PROVE order'[p] = order[p]
  <2>1. pc[c] = "alloc_page"
    BY <1>1 DEF AllocPage
  <2>2. flags[pg[c]] = {"HEAD", "FREE"}
    BY <2>1, AllocPageAsserts
  <2>3. p # pg[c]
    BY <1>0, <2>2
  <2> QED
    BY <1>0, <1>1, <2>3 DEF AllocPage, Panic, sharedVars, TypeOK, PgfmTypeOK
<1>2. ASSUME NEW c \in CPUS, Split(c) PROVE order'[p] = order[p]
  <2>1. pc[c] = "split" /\ rstn[c] # 0
    BY <1>2 DEF Split
  <2>2. flags[rst[c]] = {"BODY"}
    BY <2>1, SplitAsserts
  <2>3. p # rst[c]
    BY <1>0, <2>2
  <2> QED
    BY <1>0, <1>2, <2>3 DEF Split, Panic, sharedVars, TypeOK, PgfmTypeOK
<1>3. ASSUME NEW c \in CPUS, NEW q \in PGS, pc[c] \in FreePcs, Mergeable(q, ord[c]),
             Merge(c, q, q, pg[c]) \/ Merge(c, q, pg[c], q)
      PROVE  order'[p] = order[p]
  <2>1. p # q
    BY <1>0, <1>3 DEF Mergeable
  <2>2. p # pg[c]
    BY <1>0, <1>3 DEF Frees
  <2> QED
    BY <1>0, <1>3, <2>1, <2>2 DEF Merge, TypeOK, PgfmTypeOK
<1>4. ASSUME NEW c \in CPUS, MergeBef(c) PROVE order'[p] = order[p]
  <2>1. pc[c] \in FreePcs
    BY <1>4 DEF MergeBef, FreePcs
  <2> QED
    BY <1>3, <1>4, <2>1, Zenon DEF MergeBef, sharedVars
<1>5. ASSUME NEW c \in CPUS, MergeAft(c) PROVE order'[p] = order[p]
  <2>1. pc[c] \in FreePcs
    BY <1>5 DEF MergeAft, FreePcs
  <2> QED
    BY <1>3, <1>5, <2>1, Zenon DEF MergeAft, sharedVars
<1>6. ASSUME NEW c \in CPUS, AllocPoolEmpty(c) \/ AllocPool(c) \/ AllocReturn(c) \/ FreeEntry(c) \/ MergePool(c)
      PROVE  order' = order
  BY <1>6, Zenon DEF AllocPoolEmpty, AllocPool, AllocReturn, FreeEntry, MergePool, Panic, sharedVars, pgfmVars
<1>7. ASSUME NEW c \in CPUS, MergePage(c) \/ InsertPool(c) \/ InsertPage(c) \/ BootFree(c) \/ Call(c)
      PROVE  order' = order
  BY <1>7, Zenon DEF MergePage, InsertPool, InsertPage, BootFree, Call, Alloc, Free, SetType, Panic, sharedVars
<1>8. CASE UNCHANGED vars
  BY <1>8 DEF vars, sharedVars
<1> QED
  BY <1>1, <1>2, <1>4, <1>5, <1>6, <1>7, <1>8, Zenon DEF Next, Step

(* Only a bkp_alloc that returns and a call of bkp_free change who owns    *)
(* what.                                                                   *)
LEMMA OwnChanges ==
    ASSUME [Next]_vars
    PROVE  \/ own' = own
           \/ \E c \in CPUS : AllocReturn(c)
           \/ \E c \in CPUS, p \in own : Free(c, p)
<1>1. ASSUME NEW c \in CPUS, AllocPoolEmpty(c) \/ AllocPool(c) \/ AllocPage(c) \/ Split(c) \/ FreeEntry(c) \/ MergePool(c)
      PROVE  own' = own
  BY <1>1, Zenon DEF AllocPoolEmpty, AllocPool, AllocPage, Split, FreeEntry, MergePool, Panic
<1>2. ASSUME NEW c \in CPUS, MergePage(c) \/ MergeBef(c) \/ MergeAft(c) \/ InsertPool(c) \/ InsertPage(c) \/ BootFree(c)
      PROVE  own' = own
  BY <1>2, Zenon DEF MergePage, MergeBef, MergeAft, Merge, InsertPool, InsertPage, BootFree, Panic
<1>3. ASSUME NEW c \in CPUS, Call(c) PROVE own' = own \/ \E p \in own : Free(c, p)
  BY <1>3, Zenon DEF Call, Alloc, SetType
<1>4. CASE UNCHANGED vars
  BY <1>4 DEF vars
<1> QED
  BY <1>1, <1>2, <1>3, <1>4, Zenon DEF Next, Step

(* A bkp_alloc hands out a block of free pages none of which is in another *)
(* block handed out before, and bkp_free takes back such a block whole.    *)
LEMMA NextAbstract ==
    ASSUME IInv, [Next]_vars
    PROVE  [Abstract!Next]_({<<p, order[p]>> : p \in own})
<1> DEFINE blocks == {<<p, order[p]>> : p \in own}
<1>1. \A p \in own : order'[p] = order[p]
  BY OwnedOrderKept
<1>2. CASE own' = own
  <2>1. blocks' = blocks
    BY <1>1, <1>2
  <2> QED
    BY <2>1
<1>3. ASSUME NEW c \in CPUS, AllocReturn(c) PROVE Abstract!Next
  <2> DEFINE h == ret[c]
             o == order[h]
  <2>1. own' = own \cup {h} /\ order' = order /\ h \in PGS
    BY <1>3 DEF AllocReturn, sharedVars, IInv, LocalInv, TypeOK
  <2>2. Returns(c, h) /\ OneClaim(h)
    BY <2>1 DEF Returns, IInv, OneClaimPerBlock
  <2>3. h \notin own /\ flags[h] = {"HEAD"}
    BY <2>2, Zenon DEF OneClaim, Owned
  <2>4. /\ IsHead(h) /\ o \in ORDERS /\ InFreeRange(h, Size(h))
        /\ \A k \in PGS : IsHead(k) /\ k # h => Apart(h, Size(h), k, Size(k))
    BY <2>1, <2>3 DEF IInv, Tiling, BlocksApart, IsHead
  <2>5. Size(h) \in Nat /\ Size(h) >= 1 /\ Size(h) = ORDER2PGNUM[o]
    BY <2>1, <2>4, SizeFacts DEF Size
  <2>6. h \in FREE_START..(FREE_END - 1) /\ h + ORDER2PGNUM[o] <= FREE_END /\ h \in Nat
    BY <2>1, <2>4, <2>5, PagesAssumption DEF InFreeRange, PGS
  <2>7. \A b \in blocks : Abstract!PagesOf(b) \cap Abstract!PagesOf(<<h, o>>) = {}
    <3> SUFFICES ASSUME NEW k \in own
                 PROVE  Abstract!PagesOf(<<k, order[k]>>) \cap Abstract!PagesOf(<<h, o>>) = {}
      OBVIOUS
    <3>1. k \in PGS /\ Owned(k)
      BY DEF IInv, TypeOK, Owned
    <3>2. flags[k] = {"HEAD"}
      <4>1. OneClaim(k)
        BY <3>1 DEF IInv, OneClaimPerBlock
      <4> QED
        BY <3>1, <4>1, Zenon DEF OneClaim
    <3>3. IsHead(k) /\ k # h
      BY <2>3, <3>2 DEF IsHead
    <3>4. Apart(h, Size(h), k, Size(k)) /\ Size(k) \in Nat /\ k \in Nat /\ Size(k) = ORDER2PGNUM[order[k]]
      BY <2>4, <3>1, <3>3, SizeFacts DEF Size
    <3>5. /\ Abstract!PagesOf(<<k, order[k]>>) = k..(k + Size(k) - 1)
          /\ Abstract!PagesOf(<<h, o>>) = h..(h + Size(h) - 1)
      BY <2>5, <3>4 DEF Abstract!PagesOf
    <3> HIDE DEF h, o
    <3> QED
      BY <2>5, <2>6, <3>4, <3>5, SMTT(20) DEF Apart
  <2>8. blocks' = blocks \cup {<<h, o>>}
    BY <2>1
  <2>9. o \in Abstract!ORDERS
    BY <2>4 DEF ORDERS, Abstract!ORDERS
  <2> HIDE DEF h, o
  <2> QED
    BY <2>6, <2>7, <2>8, <2>9, Zenon DEF Abstract!Next, Abstract!Alloc
<1>4. ASSUME NEW c \in CPUS, NEW p \in own, Free(c, p) PROVE Abstract!Next
  <2>1. own' = own \ {p} /\ order' = order
    BY <1>4 DEF Free, sharedVars
  <2>2. blocks' = blocks \ {<<p, order[p]>>} /\ <<p, order[p]>> \in blocks
    BY <2>1
  <2> QED
    BY <2>2, Zenon DEF Abstract!Next, Abstract!Free
<1> QED
  BY <1>2, <1>3, <1>4, OwnChanges

(* bkp_alloc and bkp_free on any number of CPUs implement the abstract     *)
(* page allocator: a caller's block is its own until it gives it back.     *)
THEOREM Refinement == Spec => ImplementsPageAlloc
<1>1. Init => Abstract!Init
  BY DEF Init, Abstract!Init
<1>2. IInv /\ [Next]_vars => [Abstract!Next]_({<<p, order[p]>> : p \in own})
  BY NextAbstract
<1> QED
  BY <1>1, <1>2, Invariant, PTL DEF Spec, ImplementsPageAlloc, Abstract!Spec
=============================================================================
