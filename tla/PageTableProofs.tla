--------------------------- MODULE PageTableProofs ---------------------------
(***************************************************************************)
(* Proofs about the page tables, for tables of any size, boards of any     *)
(* layout and calls on any ranges.                                         *)
(*                                                                         *)
(* The tables are a tree (Tree) in the pages taken from the allocator.     *)
(* Each step on them writes one entry, adds an empty table or gives one    *)
(* back; lemmas on the tree say which translations (Leaf, Walk) that can   *)
(* change: one, or none.  The rest of the invariant says where a walk      *)
(* stands in its range (RangeInv), which tables it has come through        *)
(* (PathInv), and what is mapped behind it and ahead of it (EarlyInv,      *)
(* MapInv, UnmapInv, FreeInv).  RootInv, about the tables an unmap leaves, *)
(* rests on all of these and is proved after them.                         *)
(***************************************************************************)
EXTENDS PageTable, TLAPS

USE PteNumsAssumption

-----------------------------------------------------------------------------
(* Division and the indices of a page.                                     *)

(* The virtual page of entry k of the table that entry j of the table that *)
(* entry i of the root points to points to.                                *)
Addr(i, j, k) == PTE_NUMS * (PTE_NUMS * i + j) + k

LEMMA DivideBy == ASSUME NEW x \in Nat, NEW d \in Nat, d > 0
                  PROVE  /\ x = d * (x \div d) + (x % d)
                         /\ x \div d \in Nat
                         /\ x % d \in 0..(d - 1)
  OBVIOUS

LEMMA Quotient == ASSUME NEW d \in Nat, d > 0, NEW q \in Nat, NEW r \in 0..(d - 1)
                  PROVE  (d * q + r) \div d = q /\ (d * q + r) % d = r
  OBVIOUS

LEMMA DivideTwice ==
    ASSUME NEW x \in Nat
    PROVE  x \div (PTE_NUMS * PTE_NUMS) = (x \div PTE_NUMS) \div PTE_NUMS
  <1> DEFINE q == x \div PTE_NUMS
             r == x % PTE_NUMS
             q2 == q \div PTE_NUMS
             r2 == q % PTE_NUMS
  <1>1. x = PTE_NUMS * q + r /\ q \in Nat /\ r \in 0..(PTE_NUMS - 1)
    BY DivideBy
  <1>2. q = PTE_NUMS * q2 + r2 /\ q2 \in Nat /\ r2 \in 0..(PTE_NUMS - 1)
    BY <1>1, DivideBy
  <1> HIDE DEF q, r, q2, r2
  <1>3. x = (PTE_NUMS * PTE_NUMS) * q2 + (PTE_NUMS * r2 + r)
    BY <1>1, <1>2
  <1>4. PTE_NUMS * r2 <= PTE_NUMS * (PTE_NUMS - 1) /\ PTE_NUMS * r2 \in Nat
    BY <1>2
  <1>5. PTE_NUMS * r2 + r \in 0..(PTE_NUMS * PTE_NUMS - 1)
    BY <1>1, <1>4
  <1>6. PTE_NUMS * PTE_NUMS \in Nat /\ PTE_NUMS * PTE_NUMS > 0
    OBVIOUS
  <1>7. x \div (PTE_NUMS * PTE_NUMS) = q2
    BY <1>2, <1>3, <1>5, <1>6, Quotient
  <1> QED
    BY <1>7 DEF q, q2

LEMMA DivideMonotone ==
    ASSUME NEW x \in Nat, NEW y \in Nat, x <= y
    PROVE  /\ x \div PTE_NUMS <= y \div PTE_NUMS
           /\ x \div (PTE_NUMS * PTE_NUMS) <= y \div (PTE_NUMS * PTE_NUMS)
  <1>1. ASSUME NEW d \in Nat, d > 0 PROVE x \div d <= y \div d
    <2>1. /\ x = d * (x \div d) + (x % d) /\ x \div d \in Nat /\ x % d \in 0..(d - 1)
          /\ y = d * (y \div d) + (y % d) /\ y \div d \in Nat /\ y % d \in 0..(d - 1)
      BY <1>1, DivideBy
    <2>2. ASSUME NEW a \in Nat, NEW b \in Nat, b < a PROVE d * b + d <= d * a
      BY <2>2, <1>1
    <2> QED
      BY <2>1, <2>2, <1>1
  <1> QED
    BY <1>1

(* An address is its three indices.                                        *)
LEMMA IndicesOfAddr ==
    ASSUME NEW i \in Slots, NEW j \in Slots, NEW k \in Slots
    PROVE  /\ Addr(i, j, k) \in VAS
           /\ SV39_Index2Id(Addr(i, j, k), 0) = i
           /\ SV39_Index2Id(Addr(i, j, k), 1) = j
           /\ SV39_Index2Id(Addr(i, j, k), 2) = k
  <1> DEFINE a == Addr(i, j, k)
             q == PTE_NUMS * i + j
  <1>1. i \in Nat /\ j \in Nat /\ k \in Nat /\ i < PTE_NUMS /\ j < PTE_NUMS /\ k < PTE_NUMS
    BY DEF Slots
  <1>2. q \in Nat /\ a \in Nat
    BY <1>1 DEF Addr
  <1>3. a \div PTE_NUMS = q /\ a % PTE_NUMS = k
    BY <1>1, <1>2, Quotient DEF Addr
  <1>4. q \div PTE_NUMS = i /\ q % PTE_NUMS = j
    BY <1>1, Quotient
  <1>5. a \div (PTE_NUMS * PTE_NUMS) = i
    BY <1>2, <1>3, <1>4, DivideTwice
  <1>6. i % PTE_NUMS = i /\ a \div 1 = a
    BY <1>1, <1>2
  <1>7. PTE_NUMS * i <= PTE_NUMS * (PTE_NUMS - 1) /\ PTE_NUMS * i \in Nat
    BY <1>1
  <1>8. q <= PTE_NUMS * PTE_NUMS - 1
    BY <1>1, <1>7
  <1>9. PTE_NUMS * q <= PTE_NUMS * (PTE_NUMS * PTE_NUMS - 1) /\ PTE_NUMS * q \in Nat
    BY <1>2, <1>8
  <1>10. a \in VAS
    <2> HIDE DEF q
    <2>1. a = PTE_NUMS * q + k
      BY DEF Addr, q
    <2>2. PTE_NUMS * (PTE_NUMS * PTE_NUMS - 1) = PTE_NUMS * PTE_NUMS * PTE_NUMS - PTE_NUMS
      OBVIOUS
    <2> QED
      BY <2>1, <2>2, <1>1, <1>9, <1>2 DEF VAS
  <1> HIDE DEF a
  <1>11. SV39_Index2Id(a, 0) = i
    BY <1>5, <1>6 DEF SV39_Index2Id, SV39_INDEX_PAGES
  <1>12. SV39_Index2Id(a, 1) = j
    BY <1>3, <1>4 DEF SV39_Index2Id, SV39_INDEX_PAGES
  <1>13. SV39_Index2Id(a, 2) = k
    BY <1>3, <1>6 DEF SV39_Index2Id, SV39_INDEX_PAGES
  <1> QED
    BY <1>10, <1>11, <1>12, <1>13 DEF a

LEMMA AddrOfIndices ==
    ASSUME NEW va \in VAS
    PROVE  /\ SV39_Index2Id(va, 0) \in Slots
           /\ SV39_Index2Id(va, 1) \in Slots
           /\ SV39_Index2Id(va, 2) \in Slots
           /\ va = Addr(SV39_Index2Id(va, 0), SV39_Index2Id(va, 1), SV39_Index2Id(va, 2))
           /\ va \div (PTE_NUMS * PTE_NUMS) = SV39_Index2Id(va, 0)
           /\ va \div PTE_NUMS = PTE_NUMS * SV39_Index2Id(va, 0) + SV39_Index2Id(va, 1)
           /\ va % PTE_NUMS = SV39_Index2Id(va, 2)
  <1> DEFINE q == va \div PTE_NUMS
             r == va % PTE_NUMS
             q2 == q \div PTE_NUMS
             r2 == q % PTE_NUMS
  <1>0. va \in Nat /\ va < PTE_NUMS * PTE_NUMS * PTE_NUMS
    BY DEF VAS
  <1>1. va = PTE_NUMS * q + r /\ q \in Nat /\ r \in 0..(PTE_NUMS - 1)
    BY <1>0, DivideBy
  <1>3. va \div (PTE_NUMS * PTE_NUMS) = q2
    BY <1>0, DivideTwice
  <1> HIDE DEF q, r
  <1>2. q = PTE_NUMS * q2 + r2 /\ q2 \in Nat /\ r2 \in 0..(PTE_NUMS - 1)
    BY <1>1, DivideBy
  <1>10. va \div 1 = va
    BY <1>0
  <1> HIDE DEF q2, r2
  <1>4. q2 < PTE_NUMS
    <2> SUFFICES ASSUME q2 >= PTE_NUMS PROVE FALSE
      BY <1>2
    <2>1. PTE_NUMS * q2 >= PTE_NUMS * PTE_NUMS
      BY <1>2
    <2>2. q >= PTE_NUMS * PTE_NUMS
      BY <2>1, <1>2
    <2>3. PTE_NUMS * q >= PTE_NUMS * (PTE_NUMS * PTE_NUMS)
      BY <2>2, <1>1
    <2> QED
      BY <2>3, <1>0, <1>1
  <1>5. q2 % PTE_NUMS = q2
    BY <1>2, <1>4
  <1>6. SV39_Index2Id(va, 0) = q2
    BY <1>3, <1>5 DEF SV39_Index2Id, SV39_INDEX_PAGES
  <1>7. SV39_Index2Id(va, 1) = r2
    BY DEF SV39_Index2Id, SV39_INDEX_PAGES, r2, q
  <1>8. SV39_Index2Id(va, 2) = r
    BY <1>10 DEF SV39_Index2Id, SV39_INDEX_PAGES, r
  <1>9. va = Addr(q2, r2, r)
    BY <1>1, <1>2 DEF Addr
  <1>11. q2 \in Slots /\ r2 \in Slots /\ r \in Slots
    BY <1>1, <1>2, <1>4 DEF Slots
  <1>12. va \div PTE_NUMS = PTE_NUMS * q2 + r2 /\ va % PTE_NUMS = r
    BY <1>2 DEF q, r
  <1> QED
    BY <1>3, <1>6, <1>7, <1>8, <1>9, <1>11, <1>12

(* A walk enters a table where its page is, and leaves it for the next.    *)
LEMMA EnterLevelOne ==
    ASSUME NEW va \in VAS, NEW i, va \div (PTE_NUMS * PTE_NUMS) = i
    PROVE  va \div PTE_NUMS = PTE_NUMS * i + SV39_Index2Id(va, 1)
  BY AddrOfIndices

LEMMA EnterLevelTwo ==
    ASSUME NEW va \in VAS, NEW i \in Slots, NEW j \in Slots,
           va \div PTE_NUMS = PTE_NUMS * i + j
    PROVE  /\ SV39_Index2Id(va, 0) = i
           /\ SV39_Index2Id(va, 1) = j
           /\ va = Addr(i, j, SV39_Index2Id(va, 2))
  <1>1. i \in Nat /\ j \in 0..(PTE_NUMS - 1)
    BY DEF Slots
  <1>2. (PTE_NUMS * i + j) \div PTE_NUMS = i /\ (PTE_NUMS * i + j) % PTE_NUMS = j
    BY <1>1, Quotient
  <1>3. va \in Nat
    BY DEF VAS
  <1>4. SV39_Index2Id(va, 0) = i
    BY <1>2, <1>3, DivideTwice, AddrOfIndices
  <1>5. SV39_Index2Id(va, 1) = j
    BY <1>2 DEF SV39_Index2Id, SV39_INDEX_PAGES
  <1> QED
    BY <1>4, <1>5, AddrOfIndices

LEMMA LeaveLevelTwo ==
    ASSUME NEW i \in Nat, NEW j \in Nat
    PROVE  /\ Addr(i, j, PTE_NUMS) \div PTE_NUMS = PTE_NUMS * i + (j + 1)
           /\ Addr(i, j, PTE_NUMS) % PTE_NUMS = 0
  <1>1. PTE_NUMS * i \in Nat
    OBVIOUS
  <1>2. Addr(i, j, PTE_NUMS) = PTE_NUMS * (PTE_NUMS * i + (j + 1)) + 0
    BY <1>1 DEF Addr
  <1> QED
    BY <1>1, <1>2, Quotient

LEMMA LeaveLevelOne ==
    ASSUME NEW va \in Nat, NEW i \in Nat, va \div PTE_NUMS = PTE_NUMS * i + PTE_NUMS
    PROVE  va \div (PTE_NUMS * PTE_NUMS) = i + 1
  <1>1. PTE_NUMS * i + PTE_NUMS = PTE_NUMS * (i + 1) + 0
    OBVIOUS
  <1>2. (PTE_NUMS * (i + 1) + 0) \div PTE_NUMS = i + 1
    BY Quotient
  <1> QED
    BY <1>1, <1>2, DivideTwice

-----------------------------------------------------------------------------
(* The tables the root points to.                                          *)
Subs(m, r) == {m[r][i].ppn : i \in {j \in Slots : m[r][j].v}}

(* Tables m of pages P.  Invalid entries are zero.                         *)
Tables(m, P) ==
    /\ m \in [P -> [Slots -> Ptes]]
    /\ \A f \in P, i \in Slots : ~m[f][i].v => m[f][i] = ZeroPte

(* From r on, with the tables L of the second level, m is a tree in the    *)
(* pages fr that are not in av.                                            *)
Tree(m, r, L, fr, av) ==
    /\ r \in fr \ av
    /\ L = Subs(m, r)
    /\ r \notin L
    /\ \A f \in L \cup {r}, i \in Slots :
         m[f][i].v => m[f][i].prot = {} /\ m[f][i].ppn \in fr \ av /\ m[f][i].ppn # r
    /\ \A f \in L, i \in Slots : m[f][i].v => m[f][i].ppn \notin L
    /\ \A f, g \in L \cup {r}, i, j \in Slots :
         m[f][i].v /\ m[g][j].v /\ m[f][i].ppn = m[g][j].ppn => f = g /\ i = j
    /\ \A h \in fr \ av : h # r => \E f \in L \cup {r}, i \in Slots : m[f][i].v /\ m[f][i].ppn = h

(* The entry at the end of the way i, j, k down the tables.                *)
Leaf(m, r, i, j, k) ==
    IF ~m[r][i].v THEN ZeroPte
    ELSE IF ~m[m[r][i].ppn][j].v THEN ZeroPte
    ELSE m[m[m[r][i].ppn][j].ppn][k]

LEMMA WalkIsLeaf ==
    ASSUME NEW m, NEW r, NEW va
    PROVE  Walk(m, r, va) =
             Leaf(m, r, SV39_Index2Id(va, 0), SV39_Index2Id(va, 1), SV39_Index2Id(va, 2))
  BY DEF Walk, Leaf

(* Entry i of table t becomes e, ...                                       *)
Written(m, m2, P, t, i, e) ==
    \A g \in P, k \in Slots : m2[g][k] = IF g = t /\ k = i THEN e ELSE m[g][k]

(* ... and page f is cleared.                                              *)
Cleared(m, m2, P, t, i, e, f) ==
    \A g \in P, k \in Slots :
        m2[g][k] = IF g = t /\ k = i THEN e ELSE IF g = f THEN ZeroPte ELSE m[g][k]

LEMMA ZeroPteIsPte == ZeroPte \in Ptes /\ ~ZeroPte.v
  BY DEF ZeroPte, Ptes

LEMMA LeafPteIsPte ==
    ASSUME NEW pa \in Nat, NEW prot \in SUBSET VM_PROTS
    PROVE  /\ SV39_Pa2PTE(pa, prot) \in Ptes
           /\ SV39_Pa2PTE(pa, prot).v
           /\ SV39_Pa2PTE(pa, prot).ppn = pa
           /\ SV39_Pa2PTE(pa, prot).prot = prot
  BY DEF SV39_Pa2PTE, Ptes

LEMMA SubsMember ==
    ASSUME NEW m, NEW r, NEW x
    PROVE  x \in Subs(m, r) <=> \E i \in Slots : m[r][i].v /\ m[r][i].ppn = x
  BY DEF Subs

LEMMA WriteEntry ==
    ASSUME NEW P, NEW m, Tables(m, P), NEW t \in P, NEW i \in Slots,
           NEW e \in Ptes, ~e.v => e = ZeroPte,
           NEW m2, m2 = [m EXCEPT ![t] = [@ EXCEPT ![i] = e]]
    PROVE  Tables(m2, P) /\ Written(m, m2, P, t, i, e)
  <1>1. m \in [P -> [Slots -> Ptes]] /\ \A f \in P, k \in Slots : ~m[f][k].v => m[f][k] = ZeroPte
    BY DEF Tables
  <1>2. m[t] \in [Slots -> Ptes]
    BY <1>1
  <1>3. [m[t] EXCEPT ![i] = e] \in [Slots -> Ptes]
    BY <1>2
  <1>4. m2 \in [P -> [Slots -> Ptes]]
    BY <1>1, <1>3
  <1>5. \A k \in Slots : m2[t][k] = IF k = i THEN e ELSE m[t][k]
    BY <1>1, <1>2
  <1>6. \A g \in P : g # t => m2[g] = m[g]
    BY <1>1
  <1>7. Written(m, m2, P, t, i, e)
    BY <1>5, <1>6 DEF Written
  <1>8. \A f \in P, k \in Slots : ~m2[f][k].v => m2[f][k] = ZeroPte
    BY <1>1, <1>5, <1>6
  <1> QED
    BY <1>4, <1>7, <1>8 DEF Tables

LEMMA WriteEntryAndClear ==
    ASSUME NEW P, NEW m, Tables(m, P), NEW t \in P, NEW i \in Slots,
           NEW e \in Ptes, ~e.v => e = ZeroPte, NEW f \in P, f # t,
           NEW m2, m2 = [m EXCEPT ![f] = ZeroTable, ![t] = [@ EXCEPT ![i] = e]]
    PROVE  Tables(m2, P) /\ Cleared(m, m2, P, t, i, e, f)
  <1>1. m \in [P -> [Slots -> Ptes]] /\ \A g \in P, k \in Slots : ~m[g][k].v => m[g][k] = ZeroPte
    BY DEF Tables
  <1>2. m[t] \in [Slots -> Ptes] /\ ZeroTable \in [Slots -> Ptes]
    BY <1>1, ZeroPteIsPte DEF ZeroTable
  <1> DEFINE m1 == [m EXCEPT ![f] = ZeroTable]
             new == [m[t] EXCEPT ![i] = e]
  <1>3. new \in [Slots -> Ptes] /\ \A k \in Slots : new[k] = IF k = i THEN e ELSE m[t][k]
    BY <1>2
  <1>4. m1 \in [P -> [Slots -> Ptes]] /\ m1[t] = m[t] /\ m1[f] = ZeroTable
    BY <1>1, <1>2
  <1>5. m2 = [m1 EXCEPT ![t] = new]
    BY <1>4
  <1> HIDE DEF m1, new
  <1>6. m2 \in [P -> [Slots -> Ptes]] /\ m2[t] = new /\ m2[f] = ZeroTable
    BY <1>3, <1>4, <1>5
  <1>7. \A g \in P : g # t /\ g # f => m2[g] = m[g]
    BY <1>1, <1>4, <1>5 DEF m1
  <1>8. \A k \in Slots : m2[f][k] = ZeroPte
    BY <1>6 DEF ZeroTable
  <1>9. Cleared(m, m2, P, t, i, e, f)
    BY <1>3, <1>6, <1>7, <1>8 DEF Cleared
  <1>10. \A g \in P, k \in Slots : ~m2[g][k].v => m2[g][k] = ZeroPte
    BY <1>1, <1>3, <1>6, <1>7, <1>8
  <1> QED
    BY <1>6, <1>9, <1>10 DEF Tables

LEMMA WriteLink ==
    ASSUME NEW P, NEW m, Tables(m, P), NEW t \in P, NEW i \in Slots, NEW f \in P, f # t, f \in Nat,
           NEW m2, m2 = [m EXCEPT ![f] = ZeroTable, ![t] = [@ EXCEPT ![i] = SV39_Pa2PTE(f, {})]]
    PROVE  Tables(m2, P) /\ Cleared(m, m2, P, t, i, SV39_Pa2PTE(f, {}), f)
  <1> DEFINE e == SV39_Pa2PTE(f, {})
  <1>1. e \in Ptes /\ (~e.v => e = ZeroPte)
    BY LeafPteIsPte
  <1>2. m2 = [m EXCEPT ![f] = ZeroTable, ![t] = [@ EXCEPT ![i] = e]]
    OBVIOUS
  <1> HIDE DEF e
  <1>3. Tables(m2, P) /\ Cleared(m, m2, P, t, i, e, f)
    BY <1>1, <1>2, WriteEntryAndClear
  <1> QED
    BY <1>3 DEF e

LEMMA TreePages ==
    ASSUME NEW m, NEW r, NEW fr, NEW av, Tree(m, r, Subs(m, r), fr, av)
    PROVE  /\ Subs(m, r) \subseteq fr \ av
           /\ r \in fr \ av
           /\ r \notin Subs(m, r)
  <1>1. \A x \in Subs(m, r) : x \in fr \ av
    BY SubsMember DEF Tree
  <1> QED
    BY <1>1 DEF Tree

(* A leaf is written into a table of the last level: the tree stays, and   *)
(* one translation changes.                                                *)
LEMMA WriteLeaf ==
    ASSUME NEW P, NEW m, NEW r, NEW fr, NEW av, fr \subseteq P,
           Tree(m, r, Subs(m, r), fr, av),
           NEW t \in fr, t \notin Subs(m, r), t # r, NEW k \in Slots, NEW e,
           NEW m2, Written(m, m2, P, t, k, e)
    PROVE  /\ Tree(m2, r, Subs(m2, r), fr, av)
           /\ Subs(m2, r) = Subs(m, r)
           /\ \A g \in Subs(m, r) \cup {r}, i \in Slots : m2[g][i] = m[g][i]
  <1> DEFINE L == Subs(m, r)
  <1>1. L \subseteq P /\ r \in P
    BY TreePages
  <1>2. \A g \in L \cup {r}, i \in Slots : m2[g][i] = m[g][i]
    BY <1>1 DEF Written
  <1>3. Subs(m2, r) = L
    <2>1. ASSUME NEW x PROVE x \in Subs(m2, r) <=> x \in L
      BY <1>2, SubsMember
    <2> QED
      BY <2>1
  <1> HIDE DEF L
  <1>4. Tree(m, r, L, fr, av)
    BY DEF L
  <1>5. Tree(m2, r, L, fr, av)
    BY <1>2, <1>3, <1>4 DEF Tree
  <1> QED
    BY <1>2, <1>3, <1>5 DEF L

(* No way down the tables leads elsewhere.                                 *)
SameLeaves(m, m2, r) ==
    \A a, b, c \in Slots : Leaf(m2, r, a, b, c) = Leaf(m, r, a, b, c)

(* From m to m2 one entry, at the end of one way, becomes e.               *)
OneLeaf(m, m2, r, i, j, k, e) ==
    \A a, b, c \in Slots : Leaf(m2, r, a, b, c) =
        IF a = i /\ b = j /\ c = k THEN e ELSE Leaf(m, r, a, b, c)

OneWalk(m, m2, r, at, e) ==
    \A va \in VAS : Walk(m2, r, va) = IF va = at THEN e ELSE Walk(m, r, va)

LEMMA WriteLeafWalk ==
    ASSUME NEW P, NEW m, NEW r, NEW fr, NEW av, fr \subseteq P,
           Tree(m, r, Subs(m, r), fr, av),
           NEW i \in Slots, NEW j \in Slots, NEW k \in Slots, NEW e,
           m[r][i].v, m[m[r][i].ppn][j].v,
           NEW m2, Written(m, m2, P, m[m[r][i].ppn][j].ppn, k, e)
    PROVE  OneLeaf(m, m2, r, i, j, k, e)
  <1> SUFFICES ASSUME NEW a \in Slots, NEW b \in Slots, NEW c \in Slots
               PROVE  Leaf(m2, r, a, b, c) =
                        IF a = i /\ b = j /\ c = k THEN e ELSE Leaf(m, r, a, b, c)
    BY DEF OneLeaf
  <1> DEFINE L == Subs(m, r)
             f == m[r][i].ppn
             t == m[f][j].ppn
             g == m[r][a].ppn
             h == m[g][b].ppn
  <1>1. f \in L
    BY SubsMember
  <1>2. Tree(m, r, L, fr, av)
    OBVIOUS
  <1>3. t \in fr /\ t \notin L /\ t # r
    BY <1>1, <1>2 DEF Tree
  <1>4. \A x \in L \cup {r}, y \in Slots : m2[x][y] = m[x][y]
    <2>1. L \subseteq P /\ r \in P
      BY TreePages
    <2> QED
      BY <1>3, <2>1 DEF Written
  <1>8. \A x, y \in L \cup {r}, p, q \in Slots :
          m[x][p].v /\ m[y][q].v /\ m[x][p].ppn = m[y][q].ppn => x = y /\ p = q
    BY <1>2 DEF Tree
  <1>5. m2[r][a] = m[r][a]
    BY <1>4
  <1>6. CASE ~m[r][a].v
    <2>1. ~(a = i)
      BY <1>6
    <2> QED
      BY <1>5, <1>6, <2>1 DEF Leaf
  <1>7. CASE m[r][a].v
    <2>1. g \in L
      BY <1>7, SubsMember
    <2>2. m2[g][b] = m[g][b]
      BY <2>1, <1>4
    <2>3. CASE ~m[g][b].v
      <3>1. ~(a = i /\ b = j)
        BY <2>3
      <3> QED
        BY <1>5, <1>7, <2>2, <2>3, <3>1 DEF Leaf
    <2>4. CASE m[g][b].v
      <3>1. h \in fr
        BY <2>1, <2>4, <1>2 DEF Tree
      <3>2. h = t <=> a = i /\ b = j
        <4>1. h = t => g = f /\ b = j
          <5> HIDE DEF L, f, g
          <5>1. m[f][j].v
            BY DEF f
          <5> QED
            BY <2>1, <2>4, <1>1, <1>8, <5>1
        <4>2. g = f => a = i
          BY <1>7, <1>2 DEF Tree
        <4> QED
          BY <4>1, <4>2
      <3>3. m2[h][c] = IF h = t /\ c = k THEN e ELSE m[h][c]
        BY <3>1 DEF Written
      <3>4. Leaf(m2, r, a, b, c) = m2[h][c]
        BY <1>5, <1>7, <2>2, <2>4 DEF Leaf
      <3>5. Leaf(m, r, a, b, c) = m[h][c]
        BY <1>7, <2>4 DEF Leaf
      <3> QED
        BY <3>2, <3>3, <3>4, <3>5
    <2> QED
      BY <2>3, <2>4
  <1> QED
    BY <1>6, <1>7

(* A cleared page is linked into the root: it joins the tree, and no       *)
(* translation changes.                                                    *)
LEMMA LinkAtRoot ==
    ASSUME NEW P, NEW m, NEW r, NEW fr, NEW av, fr \subseteq P, av \subseteq fr,
           Tree(m, r, Subs(m, r), fr, av),
           NEW i \in Slots, ~m[r][i].v, NEW f \in av,
           NEW m2, Cleared(m, m2, P, r, i, SV39_Pa2PTE(f, {}), f)
    PROVE  /\ Tree(m2, r, Subs(m2, r), fr, av \ {f})
           /\ SameLeaves(m, m2, r)
  <1> DEFINE e == SV39_Pa2PTE(f, {})
  <1>0. Cleared(m, m2, P, r, i, e, f) /\ e.v /\ e.ppn = f /\ e.prot = {}
    BY DEF SV39_Pa2PTE
  <1> HIDE DEF e
  <1> DEFINE L == Subs(m, r)
             L2 == L \cup {f}
  <1>1. L \subseteq P /\ r \in P /\ f \in P /\ f \notin L /\ f # r /\ r \notin L
    BY TreePages
  <1>2. /\ \A g \in L, k \in Slots : m2[g][k] = m[g][k]
        /\ \A k \in Slots : m2[f][k] = ZeroPte
        /\ \A k \in Slots : m2[r][k] = IF k = i THEN e ELSE m[r][k]
    BY <1>0, <1>1 DEF Cleared
  <1>3. Subs(m2, r) = L2
    <2>1. ASSUME NEW x PROVE x \in Subs(m2, r) <=> x \in L2
      BY <1>0, <1>2, SubsMember
    <2> QED
      BY <2>1
  <1>4. Tree(m, r, L, fr, av)
    OBVIOUS
  <1> HIDE DEF L
  <1>5. /\ r \in fr \ av
        /\ \A g \in L \cup {r}, k \in Slots :
             m[g][k].v => m[g][k].prot = {} /\ m[g][k].ppn \in fr \ av /\ m[g][k].ppn # r
        /\ \A g \in L, k \in Slots : m[g][k].v => m[g][k].ppn \notin L
        /\ \A g, h \in L \cup {r}, k, l \in Slots :
             m[g][k].v /\ m[h][l].v /\ m[g][k].ppn = m[h][l].ppn => g = h /\ k = l
        /\ \A h \in fr \ av : h # r =>
             \E g \in L \cup {r}, k \in Slots : m[g][k].v /\ m[g][k].ppn = h
    BY <1>4 DEF Tree
  <1>6. /\ r \in fr \ (av \ {f})
        /\ r \notin L2
        /\ \A g \in L2 \cup {r}, k \in Slots :
             m2[g][k].v => /\ m2[g][k].prot = {}
                           /\ m2[g][k].ppn \in fr \ (av \ {f})
                           /\ m2[g][k].ppn # r
    BY <1>0, <1>1, <1>2, <1>5, ZeroPteIsPte
  <1>7. \A g \in L2, k \in Slots : m2[g][k].v => m2[g][k].ppn \notin L2
    BY <1>0, <1>1, <1>2, <1>5, ZeroPteIsPte
  <1>8. ASSUME NEW g \in L2 \cup {r}, NEW h \in L2 \cup {r}, NEW k \in Slots, NEW l \in Slots,
               m2[g][k].v, m2[h][l].v, m2[g][k].ppn = m2[h][l].ppn
        PROVE  g = h /\ k = l
    <2>1. g # f /\ h # f
      BY <1>0, <1>2, <1>8, ZeroPteIsPte
    <2>2. CASE g = r /\ k = i
      BY <1>0, <1>1, <1>2, <1>5, <1>8, <2>1, <2>2
    <2>3. CASE h = r /\ l = i
      BY <1>0, <1>1, <1>2, <1>5, <1>8, <2>1, <2>3
    <2>4. CASE ~(g = r /\ k = i) /\ ~(h = r /\ l = i)
      <3>1. m2[g][k] = m[g][k] /\ m2[h][l] = m[h][l]
        BY <1>0, <1>2, <2>1, <2>4
      <3> QED
        BY <3>1, <1>5, <1>8, <2>1
    <2> QED
      BY <2>2, <2>3, <2>4
  <1>9. ASSUME NEW h \in fr \ (av \ {f}), h # r
        PROVE  \E g \in L2 \cup {r}, k \in Slots : m2[g][k].v /\ m2[g][k].ppn = h
    <2>1. CASE h = f
      BY <1>0, <1>2, <2>1
    <2>2. CASE h # f
      <3>1. PICK g \in L \cup {r}, k \in Slots : m[g][k].v /\ m[g][k].ppn = h
        BY <1>5, <1>9, <2>2
      <3>2. m2[g][k] = m[g][k]
        BY <1>0, <1>2, <3>1
      <3> QED
        BY <3>1, <3>2
    <2> QED
      BY <2>1, <2>2
  <1>10. Tree(m2, r, Subs(m2, r), fr, av \ {f})
    <2> HIDE DEF L2
    <2> QED
      BY <1>3, <1>6, <1>7, <1>8, <1>9 DEF Tree
  <1>11. ASSUME NEW a \in Slots, NEW b \in Slots, NEW c \in Slots
         PROVE  Leaf(m2, r, a, b, c) = Leaf(m, r, a, b, c)
    <2>1. CASE a = i
      BY <1>0, <1>2, <2>1, ZeroPteIsPte DEF Leaf
    <2>2. CASE a # i /\ ~m[r][a].v
      BY <1>0, <1>2, <2>2 DEF Leaf
    <2>3. CASE a # i /\ m[r][a].v
      <3> DEFINE g == m[r][a].ppn
                 h == m[g][b].ppn
      <3>1. m2[r][a] = m[r][a]
        BY <1>0, <1>2, <2>3
      <3>2. g \in L
        BY <2>3, SubsMember DEF L
      <3>3. m2[g][b] = m[g][b]
        BY <1>0, <1>2, <3>2
      <3>4. CASE ~m[g][b].v
        BY <2>3, <3>1, <3>3, <3>4 DEF Leaf
      <3>5. CASE m[g][b].v
        <4>1. h \in fr \ av /\ h # r
          BY <3>2, <3>5, <1>5
        <4>2. m2[h][c] = m[h][c]
          BY <1>0, <4>1 DEF Cleared
        <4> QED
          BY <2>3, <3>1, <3>3, <3>5, <4>2 DEF Leaf
      <3> QED
        BY <3>4, <3>5
    <2> QED
      BY <2>1, <2>2, <2>3
  <1> QED
    BY <1>3, <1>10, <1>11 DEF L, SameLeaves

(* The same for a table of the second level.                               *)
LEMMA LinkBelow ==
    ASSUME NEW P, NEW m, NEW r, NEW fr, NEW av, fr \subseteq P, av \subseteq fr,
           Tree(m, r, Subs(m, r), fr, av),
           NEW t \in Subs(m, r), NEW i \in Slots, ~m[t][i].v, NEW f \in av,
           NEW m2, Cleared(m, m2, P, t, i, SV39_Pa2PTE(f, {}), f)
    PROVE  /\ Tree(m2, r, Subs(m2, r), fr, av \ {f})
           /\ Subs(m2, r) = Subs(m, r)
           /\ SameLeaves(m, m2, r)
  <1> DEFINE e == SV39_Pa2PTE(f, {})
  <1>0. Cleared(m, m2, P, t, i, e, f) /\ e.v /\ e.ppn = f /\ e.prot = {}
    BY DEF SV39_Pa2PTE
  <1> HIDE DEF e
  <1> DEFINE L == Subs(m, r)
  <1>1. L \subseteq P /\ r \in P /\ f \in P /\ f \notin L /\ f # r /\ r \notin L /\ t \in L
    BY TreePages
  <1>2. /\ \A g \in L \cup {r}, k \in Slots : ~(g = t /\ k = i) => m2[g][k] = m[g][k]
        /\ \A k \in Slots : m2[f][k] = ZeroPte
        /\ m2[t][i] = e
        /\ \A k \in Slots : m2[r][k] = m[r][k]
    BY <1>0, <1>1 DEF Cleared
  <1>3. Subs(m2, r) = L
    <2>1. ASSUME NEW x PROVE x \in Subs(m2, r) <=> x \in L
      BY <1>0, <1>2, SubsMember
    <2> QED
      BY <2>1
  <1>4. Tree(m, r, L, fr, av)
    OBVIOUS
  <1> HIDE DEF L
  <1>5. /\ r \in fr \ av
        /\ \A g \in L \cup {r}, k \in Slots :
             m[g][k].v => m[g][k].prot = {} /\ m[g][k].ppn \in fr \ av /\ m[g][k].ppn # r
        /\ \A g \in L, k \in Slots : m[g][k].v => m[g][k].ppn \notin L
        /\ \A g, h \in L \cup {r}, k, l \in Slots :
             m[g][k].v /\ m[h][l].v /\ m[g][k].ppn = m[h][l].ppn => g = h /\ k = l
        /\ \A h \in fr \ av : h # r =>
             \E g \in L \cup {r}, k \in Slots : m[g][k].v /\ m[g][k].ppn = h
    BY <1>4 DEF Tree
  <1>6. /\ r \in fr \ (av \ {f})
        /\ r \notin L
        /\ \A g \in L \cup {r}, k \in Slots :
             m2[g][k].v => /\ m2[g][k].prot = {}
                           /\ m2[g][k].ppn \in fr \ (av \ {f})
                           /\ m2[g][k].ppn # r
    BY <1>0, <1>1, <1>2, <1>5
  <1>7. \A g \in L, k \in Slots : m2[g][k].v => m2[g][k].ppn \notin L
    BY <1>0, <1>1, <1>2, <1>5
  <1>8. ASSUME NEW g \in L \cup {r}, NEW h \in L \cup {r}, NEW k \in Slots, NEW l \in Slots,
               m2[g][k].v, m2[h][l].v, m2[g][k].ppn = m2[h][l].ppn
        PROVE  g = h /\ k = l
    <2>2. CASE g = t /\ k = i
      BY <1>0, <1>1, <1>2, <1>5, <1>8, <2>2
    <2>3. CASE h = t /\ l = i
      BY <1>0, <1>1, <1>2, <1>5, <1>8, <2>3
    <2>4. CASE ~(g = t /\ k = i) /\ ~(h = t /\ l = i)
      <3>1. m2[g][k] = m[g][k] /\ m2[h][l] = m[h][l]
        BY <1>0, <1>2, <2>4
      <3> QED
        BY <3>1, <1>5, <1>8
    <2> QED
      BY <2>2, <2>3, <2>4
  <1>9. ASSUME NEW h \in fr \ (av \ {f}), h # r
        PROVE  \E g \in L \cup {r}, k \in Slots : m2[g][k].v /\ m2[g][k].ppn = h
    <2>1. CASE h = f
      BY <1>0, <1>1, <1>2, <2>1
    <2>2. CASE h # f
      <3>1. PICK g \in L \cup {r}, k \in Slots : m[g][k].v /\ m[g][k].ppn = h
        BY <1>5, <1>9, <2>2
      <3>2. m2[g][k] = m[g][k]
        BY <1>0, <1>2, <3>1
      <3> QED
        BY <3>1, <3>2
    <2> QED
      BY <2>1, <2>2
  <1>10. Tree(m2, r, Subs(m2, r), fr, av \ {f})
    BY <1>3, <1>6, <1>7, <1>8, <1>9 DEF Tree
  <1>11. ASSUME NEW a \in Slots, NEW b \in Slots, NEW c \in Slots
         PROVE  Leaf(m2, r, a, b, c) = Leaf(m, r, a, b, c)
    <2>0. m2[r][a] = m[r][a]
      BY <1>0, <1>2
    <2>2. CASE ~m[r][a].v
      BY <2>0, <2>2 DEF Leaf
    <2>3. CASE m[r][a].v
      <3> DEFINE g == m[r][a].ppn
                 h == m[g][b].ppn
      <3>2. g \in L
        BY <2>3, SubsMember DEF L
      <3>3. CASE g = t /\ b = i
        <4>1. m2[g][b] = e
          BY <1>0, <1>2, <3>3
        <4>2. m2[e.ppn][c] = ZeroPte
          BY <1>0, <1>2
        <4>3. Leaf(m2, r, a, b, c) = ZeroPte
          BY <1>0, <2>0, <2>3, <4>1, <4>2 DEF Leaf
        <4>4. Leaf(m, r, a, b, c) = ZeroPte
          BY <2>3, <3>3 DEF Leaf
        <4> QED
          BY <4>3, <4>4
      <3>4. CASE ~(g = t /\ b = i) /\ ~m[g][b].v
        BY <1>0, <1>2, <2>0, <2>3, <3>2, <3>4 DEF Leaf
      <3>5. CASE ~(g = t /\ b = i) /\ m[g][b].v
        <4>1. h \in fr \ av /\ h \notin L
          BY <3>2, <3>5, <1>5
        <4>2. m2[h][c] = m[h][c]
          BY <1>0, <4>1, <1>1 DEF Cleared
        <4>3. m2[g][b] = m[g][b]
          BY <1>0, <1>2, <3>2, <3>5
        <4> QED
          BY <2>0, <2>3, <3>5, <4>2, <4>3 DEF Leaf
      <3> QED
        BY <3>3, <3>4, <3>5
    <2> QED
      BY <2>2, <2>3
  <1> QED
    BY <1>3, <1>10, <1>11 DEF L, SameLeaves

(* A table without valid entries is taken out of the root: the tree is     *)
(* left without it, and no translation changes.                            *)
LEMMA UnlinkAtRoot ==
    ASSUME NEW P, NEW m, NEW r, NEW fr, NEW av, fr \subseteq P, av \subseteq fr,
           Tree(m, r, Subs(m, r), fr, av),
           NEW i \in Slots, m[r][i].v, NEW f, f = m[r][i].ppn,
           \A k \in Slots : ~m[f][k].v,
           NEW m2, Cleared(m, m2, P, r, i, ZeroPte, f)
    PROVE  /\ Tree(m2, r, Subs(m2, r), fr, av \cup {f})
           /\ Subs(m2, r) = Subs(m, r) \ {f}
           /\ f \in fr
           /\ SameLeaves(m, m2, r)
  <1> DEFINE L == Subs(m, r)
             L2 == L \ {f}
  <1>0. f \in L
    BY SubsMember
  <1>1. L \subseteq P /\ r \in P /\ f \in P /\ f \in fr /\ f # r /\ r \notin L
    BY <1>0, TreePages
  <1>2. /\ \A g \in L, k \in Slots : m2[g][k] = IF g = f THEN ZeroPte ELSE m[g][k]
        /\ \A k \in Slots : m2[r][k] = IF k = i THEN ZeroPte ELSE m[r][k]
    BY <1>1 DEF Cleared
  <1>4. Tree(m, r, L, fr, av)
    OBVIOUS
  <1> HIDE DEF L
  <1>5. /\ r \in fr \ av
        /\ \A g \in L \cup {r}, k \in Slots :
             m[g][k].v => m[g][k].prot = {} /\ m[g][k].ppn \in fr \ av /\ m[g][k].ppn # r
        /\ \A g \in L, k \in Slots : m[g][k].v => m[g][k].ppn \notin L
        /\ \A g, h \in L \cup {r}, k, l \in Slots :
             m[g][k].v /\ m[h][l].v /\ m[g][k].ppn = m[h][l].ppn => g = h /\ k = l
        /\ \A h \in fr \ av : h # r =>
             \E g \in L \cup {r}, k \in Slots : m[g][k].v /\ m[g][k].ppn = h
    BY <1>4 DEF Tree
  <1>3. Subs(m2, r) = L2
    <2>1. ASSUME NEW x PROVE x \in Subs(m2, r) <=> x \in L2
      <3>1. x \in L <=> \E k \in Slots : m[r][k].v /\ m[r][k].ppn = x
        BY SubsMember DEF L
      <3>2. x \in Subs(m2, r) <=> \E k \in Slots : m2[r][k].v /\ m2[r][k].ppn = x
        BY SubsMember
      <3>3. \A k \in Slots : m[r][k].v /\ m[r][k].ppn = f => k = i
        BY <1>5
      <3> QED
        BY <1>2, <3>1, <3>2, <3>3, ZeroPteIsPte
    <2> QED
      BY <2>1
  <1>6. /\ r \in fr \ (av \cup {f})
        /\ r \notin L2
    BY <1>1, <1>5
  <1>12. ASSUME NEW g \in L2 \cup {r}, NEW k \in Slots, m2[g][k].v
         PROVE  m2[g][k] = m[g][k] /\ ~(g = r /\ k = i)
    BY <1>1, <1>2, <1>12, ZeroPteIsPte
  <1>13. ASSUME NEW g \in L2 \cup {r}, NEW k \in Slots, m2[g][k].v
         PROVE  /\ m2[g][k].prot = {}
                /\ m2[g][k].ppn \in fr \ (av \cup {f})
                /\ m2[g][k].ppn # r
    BY <1>5, <1>12, <1>13
  <1>7. \A g \in L2, k \in Slots : m2[g][k].v => m2[g][k].ppn \notin L2
    BY <1>5, <1>12
  <1>8. ASSUME NEW g \in L2 \cup {r}, NEW h \in L2 \cup {r}, NEW k \in Slots, NEW l \in Slots,
               m2[g][k].v, m2[h][l].v, m2[g][k].ppn = m2[h][l].ppn
        PROVE  g = h /\ k = l
    <2>1. m2[g][k] = m[g][k] /\ m2[h][l] = m[h][l]
      BY <1>8, <1>12
    <2> QED
      BY <2>1, <1>5, <1>8
  <1>9. ASSUME NEW h \in fr \ (av \cup {f}), h # r
        PROVE  \E g \in L2 \cup {r}, k \in Slots : m2[g][k].v /\ m2[g][k].ppn = h
    <2>1. PICK g \in L \cup {r}, k \in Slots : m[g][k].v /\ m[g][k].ppn = h
      BY <1>5, <1>9
    <2>2. g # f /\ ~(g = r /\ k = i)
      BY <2>1, <1>9
    <2>3. m2[g][k] = m[g][k]
      BY <1>2, <2>2
    <2> QED
      BY <2>1, <2>2, <2>3
  <1>10. Tree(m2, r, Subs(m2, r), fr, av \cup {f})
    <2> HIDE DEF L2
    <2> QED
      BY <1>3, <1>6, <1>13, <1>7, <1>8, <1>9 DEF Tree
  <1>11. ASSUME NEW a \in Slots, NEW b \in Slots, NEW c \in Slots
         PROVE  Leaf(m2, r, a, b, c) = Leaf(m, r, a, b, c)
    <2>1. CASE a = i
      BY <1>2, <2>1, ZeroPteIsPte DEF Leaf
    <2>2. CASE a # i /\ ~m[r][a].v
      BY <1>2, <2>2 DEF Leaf
    <2>3. CASE a # i /\ m[r][a].v
      <3> DEFINE g == m[r][a].ppn
                 h == m[g][b].ppn
      <3>1. m2[r][a] = m[r][a]
        BY <1>2, <2>3
      <3>2. g \in L /\ g # f
        BY <2>3, SubsMember, <1>5 DEF L
      <3>3. m2[g][b] = m[g][b]
        BY <1>2, <3>2
      <3>4. CASE ~m[g][b].v
        BY <2>3, <3>1, <3>3, <3>4 DEF Leaf
      <3>5. CASE m[g][b].v
        <4>1. h \in fr /\ h # r /\ h \notin L
          BY <3>2, <3>5, <1>5
        <4>2. m2[h][c] = m[h][c]
          BY <4>1, <1>0 DEF Cleared, L
        <4> QED
          BY <2>3, <3>1, <3>3, <3>5, <4>2 DEF Leaf
      <3> QED
        BY <3>4, <3>5
    <2> QED
      BY <2>1, <2>2, <2>3
  <1> QED
    BY <1>1, <1>3, <1>10, <1>11 DEF L, SameLeaves

(* The same for a table of the last level.                                 *)
LEMMA UnlinkBelow ==
    ASSUME NEW P, NEW m, NEW r, NEW fr, NEW av, fr \subseteq P, av \subseteq fr,
           Tree(m, r, Subs(m, r), fr, av),
           NEW t \in Subs(m, r), NEW i \in Slots, m[t][i].v, NEW f, f = m[t][i].ppn,
           \A k \in Slots : m[f][k] = ZeroPte,
           NEW m2, Cleared(m, m2, P, t, i, ZeroPte, f)
    PROVE  /\ Tree(m2, r, Subs(m2, r), fr, av \cup {f})
           /\ Subs(m2, r) = Subs(m, r)
           /\ f \in fr
           /\ SameLeaves(m, m2, r)
  <1> DEFINE L == Subs(m, r)
  <1>4. Tree(m, r, L, fr, av)
    OBVIOUS
  <1> HIDE DEF L
  <1>5. /\ r \in fr \ av
        /\ \A g \in L \cup {r}, k \in Slots :
             m[g][k].v => m[g][k].prot = {} /\ m[g][k].ppn \in fr \ av /\ m[g][k].ppn # r
        /\ \A g \in L, k \in Slots : m[g][k].v => m[g][k].ppn \notin L
        /\ \A g, h \in L \cup {r}, k, l \in Slots :
             m[g][k].v /\ m[h][l].v /\ m[g][k].ppn = m[h][l].ppn => g = h /\ k = l
        /\ \A h \in fr \ av : h # r =>
             \E g \in L \cup {r}, k \in Slots : m[g][k].v /\ m[g][k].ppn = h
    BY <1>4 DEF Tree
  <1>1. /\ L \subseteq P /\ r \in P /\ f \in P /\ f \in fr /\ f # r /\ r \notin L
        /\ f \notin L /\ t \in L
    BY <1>5, TreePages DEF L
  <1>2. /\ \A g \in L, k \in Slots : m2[g][k] = IF g = t /\ k = i THEN ZeroPte ELSE m[g][k]
        /\ \A k \in Slots : m2[r][k] = m[r][k]
    BY <1>1 DEF Cleared
  <1>3. Subs(m2, r) = L
    <2>1. ASSUME NEW x PROVE x \in Subs(m2, r) <=> x \in L
      BY <1>2, SubsMember DEF L
    <2> QED
      BY <2>1
  <1>12. ASSUME NEW g \in L \cup {r}, NEW k \in Slots, m2[g][k].v
         PROVE  m2[g][k] = m[g][k] /\ ~(g = t /\ k = i)
    BY <1>1, <1>2, <1>12, ZeroPteIsPte
  <1>13. ASSUME NEW g \in L \cup {r}, NEW k \in Slots, m2[g][k].v
         PROVE  /\ m2[g][k].prot = {}
                /\ m2[g][k].ppn \in fr \ (av \cup {f})
                /\ m2[g][k].ppn # r
    BY <1>1, <1>5, <1>12, <1>13
  <1>7. \A g \in L, k \in Slots : m2[g][k].v => m2[g][k].ppn \notin L
    BY <1>5, <1>12
  <1>8. ASSUME NEW g \in L \cup {r}, NEW h \in L \cup {r}, NEW k \in Slots, NEW l \in Slots,
               m2[g][k].v, m2[h][l].v, m2[g][k].ppn = m2[h][l].ppn
        PROVE  g = h /\ k = l
    <2>1. m2[g][k] = m[g][k] /\ m2[h][l] = m[h][l]
      BY <1>8, <1>12
    <2> QED
      BY <2>1, <1>5, <1>8
  <1>9. ASSUME NEW h \in fr \ (av \cup {f}), h # r
        PROVE  \E g \in L \cup {r}, k \in Slots : m2[g][k].v /\ m2[g][k].ppn = h
    <2>1. PICK g \in L \cup {r}, k \in Slots : m[g][k].v /\ m[g][k].ppn = h
      BY <1>5, <1>9
    <2>2. ~(g = t /\ k = i)
      BY <2>1, <1>9
    <2>3. m2[g][k] = m[g][k]
      BY <1>2, <2>2
    <2> QED
      BY <2>1, <2>2, <2>3
  <1>6. r \in fr \ (av \cup {f}) /\ r \notin L
    BY <1>1, <1>5
  <1>10. Tree(m2, r, Subs(m2, r), fr, av \cup {f})
    BY <1>3, <1>6, <1>13, <1>7, <1>8, <1>9 DEF Tree
  <1>11. ASSUME NEW a \in Slots, NEW b \in Slots, NEW c \in Slots
         PROVE  Leaf(m2, r, a, b, c) = Leaf(m, r, a, b, c)
    <2>0. m2[r][a] = m[r][a]
      BY <1>2
    <2>2. CASE ~m[r][a].v
      BY <2>0, <2>2 DEF Leaf
    <2>3. CASE m[r][a].v
      <3> DEFINE g == m[r][a].ppn
                 h == m[g][b].ppn
      <3>2. g \in L
        BY <2>3, SubsMember DEF L
      <3>3. CASE g = t /\ b = i
        <4>1. m2[g][b] = ZeroPte
          BY <1>2, <3>2, <3>3
        <4>2. Leaf(m2, r, a, b, c) = ZeroPte
          BY <2>0, <2>3, <4>1, ZeroPteIsPte DEF Leaf
        <4>3. Leaf(m, r, a, b, c) = ZeroPte
          BY <2>3, <3>3 DEF Leaf
        <4> QED
          BY <4>2, <4>3
      <3>4. CASE ~(g = t /\ b = i) /\ ~m[g][b].v
        BY <1>2, <2>0, <2>3, <3>2, <3>4 DEF Leaf
      <3>5. CASE ~(g = t /\ b = i) /\ m[g][b].v
        <4>1. h \in fr \ av /\ h \notin L /\ h # f
          BY <1>1, <3>2, <3>5, <1>5
        <4>2. m2[h][c] = m[h][c]
          BY <4>1, <1>1 DEF Cleared
        <4>3. m2[g][b] = m[g][b]
          BY <1>2, <3>2, <3>5
        <4> QED
          BY <2>0, <2>3, <3>5, <4>2, <4>3 DEF Leaf
      <3> QED
        BY <3>3, <3>4, <3>5
    <2> QED
      BY <2>2, <2>3
  <1> QED
    BY <1>1, <1>3, <1>10, <1>11 DEF L, SameLeaves

-----------------------------------------------------------------------------
(* The inductive invariant.                                                *)

Calls == {"mmap", "undo", "unmap"}    \* walks over a range

TypeOK ==
    /\ lay \in LAYOUTS
    /\ Tables(mem, DOMAIN mem)
    /\ frames \subseteq DOMAIN mem
    /\ frames \subseteq Nat
    /\ avail \subseteq frames
    /\ pa_st_free \in Nat
    /\ pc \in {"early", "idle", "unmap_all"} \cup Calls
    /\ req.va \in Nat /\ req.n \in Nat /\ req.pa \in Nat /\ req.prot \in SUBSET VM_PROTS
    /\ cnt \in Nat
    /\ left \in 0..cnt
    /\ lvl \in 0..2
    /\ tab \in [0..2 -> frames]
    /\ idx \in [0..2 -> 0..PTE_NUMS]
    /\ cur \in [0..2 -> Nat]
    /\ fresh \in BOOLEAN
    /\ panic = FALSE
    /\ kern \in BOOLEAN

TreeInv == Tree(mem, root, Subs(mem, root), frames, avail)

(* The tables of the walk hang on the entries it has come through.         *)
PathInv ==
    /\ tab[0] = root
    /\ lvl > 0 => /\ idx[0] < PTE_NUMS
                  /\ mem[root][idx[0]].v
                  /\ mem[root][idx[0]].ppn = tab[1]
    /\ lvl > 1 => /\ idx[1] < PTE_NUMS
                  /\ mem[tab[1]][idx[1]].v
                  /\ mem[tab[1]][idx[1]].ppn = tab[2]

Valid(va) == Walk(mem, root, va).v

(* The most pages of freemem_alloc_pa that setup_earlyvm has used when it  *)
(* is at level l for page va: one for the root, and one for each part of   *)
(* the address space of the size of a table that it has come to.           *)
EarlyBound(va, l) ==
    IF va = KERNEL_OFFSET THEN 1 + l
    ELSE 1 + ((IF l > 0 THEN va ELSE va - 1) \div (PTE_NUMS * PTE_NUMS)
                 - KERNEL_OFFSET \div (PTE_NUMS * PTE_NUMS) + 1)
           + ((IF l > 1 THEN va ELSE va - 1) \div PTE_NUMS
                 - KERNEL_OFFSET \div PTE_NUMS + 1)

(* setup_earlyvm.                                                          *)
EarlyInv ==
    pc = "early" =>
      /\ kern
      /\ left > 0
      /\ req.va = KERNEL_OFFSET
      /\ req.pa = lay.start
      /\ cnt = lay.top - lay.start
      /\ idx[0] = SV39_Index2Id(AtVa, 0)
      /\ lvl > 0 => idx[1] = SV39_Index2Id(AtVa, 1)
      /\ lvl > 1 => idx[2] = SV39_Index2Id(AtVa, 2)
      /\ \A va \in VAS : va \notin KernelVas => ~Valid(va)
      /\ avail = pa_st_free..(lay.top - 1)
      /\ \A p \in avail : mem[p] = ZeroTable
      /\ pa_st_free - lay.end <= EarlyBound(AtVa, lvl)

(* Where a walk over a range stands.                                       *)
RangeInv ==
    pc \in Calls =>
      /\ cnt > 0
      /\ req.va + cnt <= PTE_NUMS * PTE_NUMS * PTE_NUMS
      /\ lvl = 0 /\ left > 0 => AtVa \div (PTE_NUMS * PTE_NUMS) = idx[0]
      /\ lvl = 1 /\ left > 0 => AtVa \div PTE_NUMS = PTE_NUMS * idx[0] + idx[1]
      /\ lvl = 2 => AtVa = Addr(idx[0], idx[1], idx[2])

(* vm_walkthrough.                                                         *)
MapInv ==
    pc = "mmap" =>
      /\ left > 0
      /\ cnt = req.n
      /\ \A va \in req.va..(AtVa - 1) :
           /\ Walk(mem, root, va) = SV39_Pa2PTE(req.pa + (va - req.va), req.prot)
           /\ ~(kern /\ va \in KernelVas)

(* The entry of level one for block i, j of PTE_NUMS pages.                *)
Linked(i, j) == mem[root][i].v /\ mem[mem[root][i].ppn][j].v

(* riscv_unmap.                                                            *)
UnmapInv ==
    pc \in {"unmap", "undo"} =>
      /\ \A va \in req.va..(AtVa - 1) : ~Valid(va)
      /\ \A va \in AtVa..(req.va + cnt - 1) : Valid(va)
      /\ kern => \A va \in req.va..(req.va + cnt - 1) : va \notin KernelVas
      /\ lvl < 2 /\ left > 0 => left = cnt \/ AtVa % PTE_NUMS = 0
      /\ lvl > 0 => /\ cur[0] \in left..cnt
                    /\ AtVa - (cur[0] - left) >= Addr(idx[0], 0, 0)
                    /\ AtVa <= Addr(idx[0], PTE_NUMS, 0)
      /\ lvl > 1 => /\ cur[1] \in left..cnt
                    /\ cur[1] - left <= idx[2]
                    /\ cur[1] = cnt \/ cur[1] - left = idx[2]
      /\ \A i, j \in Slots :
           /\ req.va <= Addr(i, j, 0)
           /\ Addr(i, j, PTE_NUMS) <= IF lvl = 2 THEN AtVa - idx[2] ELSE AtVa
           => ~Linked(i, j)

(* The undo of a mapping.                                                  *)
UndoInv ==
    /\ pc = "unmap" => cnt = req.n /\ ret = "OK"
    /\ pc = "undo" => /\ cnt < req.n
                      /\ ret \in {"EEXIST", "ENOMEM"}
                      /\ ret = "EEXIST" => Valid(req.va + cnt)

(* riscv_free_pgtable.                                                     *)
FreeInv ==
    pc = "unmap_all" =>
      /\ ~kern
      /\ \A i \in Slots : i < idx[0] => ~mem[root][i].v
      /\ lvl > 0 => \A i \in Slots : i < idx[1] => ~mem[tab[1]][i].v
      /\ lvl > 1 => \A i \in Slots : i < idx[2] => ~mem[tab[2]][i].v

(* What the calls are asked for.                                           *)
ReqInv ==
    /\ pc \in Calls => /\ req.n > 0
                       /\ req.va + req.n <= PTE_NUMS * PTE_NUMS * PTE_NUMS
                       /\ req.op = IF pc = "unmap" THEN "unmap" ELSE "mmap"
    /\ pc \in {"mmap", "undo"} => req.pa \in PAS
    /\ pc = "unmap_all" => req.op = "unmap_all" /\ req.va = 0 /\ req.n = 0

IInv ==
    /\ TypeOK /\ TreeInv /\ PathInv /\ KernelMapStays
    /\ EarlyInv /\ RangeInv /\ MapInv /\ UnmapInv /\ UndoInv /\ FreeInv /\ ReqInv

-----------------------------------------------------------------------------
(* What the steps on the tables do to the tree and to the translation.     *)

LEMMA SameWalk ==
    ASSUME NEW m, NEW m2, NEW r,
           SameLeaves(m, m2, r)
    PROVE  \A va \in VAS : Walk(m2, r, va) = Walk(m, r, va)
  BY AddrOfIndices, WalkIsLeaf DEF SameLeaves

LEMMA OneLeafOneWalk ==
    ASSUME NEW m, NEW m2, NEW r, NEW i \in Slots, NEW j \in Slots, NEW k \in Slots, NEW e,
           OneLeaf(m, m2, r, i, j, k, e)
    PROVE  OneWalk(m, m2, r, Addr(i, j, k), e)
  <1> SUFFICES ASSUME NEW va \in VAS
               PROVE  Walk(m2, r, va) = IF va = Addr(i, j, k) THEN e ELSE Walk(m, r, va)
    BY DEF OneWalk
  <1> DEFINE a == SV39_Index2Id(va, 0)
             b == SV39_Index2Id(va, 1)
             c == SV39_Index2Id(va, 2)
  <1>1. a \in Slots /\ b \in Slots /\ c \in Slots /\ va = Addr(a, b, c)
    BY AddrOfIndices
  <1>2. va = Addr(i, j, k) <=> (a = i /\ b = j /\ c = k)
    BY <1>1, IndicesOfAddr
  <1>3. Walk(m2, r, va) = Leaf(m2, r, a, b, c) /\ Walk(m, r, va) = Leaf(m, r, a, b, c)
    BY WalkIsLeaf
  <1> HIDE DEF a, b, c
  <1> QED
    BY <1>1, <1>2, <1>3 DEF OneLeaf

(* The tables of the walk are in the tree.                                 *)
LEMMA PathInTree ==
    ASSUME TypeOK, TreeInv, PathInv
    PROVE  /\ root \in frames \ avail
           /\ tab[0] = root
           /\ lvl > 0 => tab[1] \in Subs(mem, root) /\ tab[1] \in frames \ avail /\ tab[1] # root
           /\ lvl > 1 => /\ tab[2] \in frames \ avail
                         /\ tab[2] # root /\ tab[2] \notin Subs(mem, root)
  <1>1. lvl \in 0..2 /\ idx \in [0..2 -> 0..PTE_NUMS]
    BY DEF TypeOK
  <1>2. Subs(mem, root) \subseteq frames \ avail /\ root \in frames \ avail /\ root \notin Subs(mem, root)
    BY TreePages DEF TreeInv
  <1>3. ASSUME lvl > 0 PROVE tab[1] \in Subs(mem, root)
    <2>1. idx[0] \in Slots /\ mem[root][idx[0]].v /\ mem[root][idx[0]].ppn = tab[1]
      BY <1>1, <1>3 DEF PathInv, Slots
    <2> QED
      BY <2>1, SubsMember
  <1>4. ASSUME lvl > 1
        PROVE  tab[2] \in frames \ avail /\ tab[2] # root /\ tab[2] \notin Subs(mem, root)
    <2>1. idx[1] \in Slots /\ mem[tab[1]][idx[1]].v /\ mem[tab[1]][idx[1]].ppn = tab[2]
      BY <1>1, <1>4 DEF PathInv, Slots
    <2>2. tab[1] \in Subs(mem, root)
      BY <1>1, <1>3, <1>4
    <2> QED
      BY <2>1, <2>2 DEF TreeInv, Tree
  <1> QED
    BY <1>2, <1>3, <1>4 DEF PathInv

(* SetPte at the last level.                                               *)
LEMMA SetLeaf ==
    ASSUME TypeOK, TreeInv, PathInv, lvl = 2, idx[2] < PTE_NUMS,
           NEW e \in Ptes, ~e.v => e = ZeroPte, SetPte(e), UNCHANGED <<root, frames, avail>>
    PROVE  /\ Tables(mem', DOMAIN mem') /\ frames \subseteq DOMAIN mem'
           /\ TreeInv'
           /\ idx[0] \in Slots /\ idx[1] \in Slots /\ idx[2] \in Slots
           /\ \A g \in Subs(mem, root) \cup {root}, i \in Slots : mem'[g][i] = mem[g][i]
           /\ \A i \in Slots : mem'[tab[2]][i] = IF i = idx[2] THEN e ELSE mem[tab[2]][i]
           /\ OneWalk(mem, mem', root, Addr(idx[0], idx[1], idx[2]), e)
           /\ Pte = Walk(mem, root, Addr(idx[0], idx[1], idx[2]))
  <1> DEFINE P == DOMAIN mem
  <1>1. /\ Tables(mem, P) /\ frames \subseteq P
        /\ idx \in [0..2 -> 0..PTE_NUMS]
    BY DEF TypeOK
  <1>2. /\ tab[2] \in frames /\ tab[2] # root /\ tab[2] \notin Subs(mem, root)
        /\ tab[1] \in Subs(mem, root)
    BY PathInTree
  <1>3. /\ idx[0] \in Slots /\ idx[1] \in Slots /\ idx[2] \in Slots
        /\ mem[root][idx[0]].v /\ mem[root][idx[0]].ppn = tab[1]
        /\ mem[tab[1]][idx[1]].v /\ mem[tab[1]][idx[1]].ppn = tab[2]
    BY <1>1 DEF PathInv, Slots
  <1>4. mem' = [mem EXCEPT ![tab[2]] = [@ EXCEPT ![idx[2]] = e]]
    BY DEF SetPte
  <1>5. tab[2] \in P
    BY <1>1, <1>2
  <1> HIDE DEF P
  <1>6. Tables(mem', P) /\ Written(mem, mem', P, tab[2], idx[2], e)
    BY <1>1, <1>3, <1>4, <1>5, WriteEntry
  <1>7. DOMAIN mem' = P
    BY <1>6 DEF Tables
  <1>8. Tree(mem, root, Subs(mem, root), frames, avail)
    BY DEF TreeInv
  <1>9. /\ Tree(mem', root, Subs(mem', root), frames, avail)
        /\ \A g \in Subs(mem, root) \cup {root}, i \in Slots : mem'[g][i] = mem[g][i]
    BY <1>1, <1>2, <1>3, <1>6, <1>8, WriteLeaf
  <1>10. OneLeaf(mem, mem', root, idx[0], idx[1], idx[2], e)
    <2>1. Written(mem, mem', P, mem[mem[root][idx[0]].ppn][idx[1]].ppn, idx[2], e)
      BY <1>3, <1>6
    <2>2. mem[mem[root][idx[0]].ppn][idx[1]].v
      BY <1>3
    <2> QED
      BY <1>1, <1>3, <1>8, <2>1, <2>2, WriteLeafWalk
  <1>11. OneWalk(mem, mem', root, Addr(idx[0], idx[1], idx[2]), e)
    BY <1>3, <1>10, OneLeafOneWalk
  <1>12. \A i \in Slots : mem'[tab[2]][i] = IF i = idx[2] THEN e ELSE mem[tab[2]][i]
    BY <1>5, <1>6 DEF Written
  <1>13. Pte = Walk(mem, root, Addr(idx[0], idx[1], idx[2]))
    BY <1>3, IndicesOfAddr, WalkIsLeaf DEF Leaf, Pte
  <1>14. TreeInv'
    BY <1>9 DEF TreeInv
  <1> QED
    BY <1>1, <1>3, <1>6, <1>7, <1>9, <1>11, <1>12, <1>13, <1>14

(* A table is linked into the table of the walk.                           *)
LEMMA LinkTable ==
    ASSUME TypeOK, TreeInv, PathInv, lvl < 2, idx[lvl] < PTE_NUMS, ~Pte.v,
           NEW f \in avail,
           mem' = [mem EXCEPT ![f] = ZeroTable,
                              ![tab[lvl]] = [@ EXCEPT ![idx[lvl]] = SV39_Pa2PTE(f, {})]],
           avail' = avail \ {f}, UNCHANGED <<root, frames>>
    PROVE  /\ Tables(mem', DOMAIN mem') /\ frames \subseteq DOMAIN mem'
           /\ TreeInv'
           /\ \A va \in VAS : Walk(mem', root, va) = Walk(mem, root, va)
           /\ mem'[tab[lvl]][idx[lvl]].v /\ mem'[tab[lvl]][idx[lvl]].ppn = f
           /\ lvl = 1 => mem'[root][idx[0]] = mem[root][idx[0]]
           /\ \A g \in DOMAIN mem : g # f /\ g # tab[lvl] => mem'[g] = mem[g]
  <1> DEFINE P == DOMAIN mem
  <1>1. /\ Tables(mem, P) /\ frames \subseteq P /\ avail \subseteq frames /\ frames \subseteq Nat
        /\ idx \in [0..2 -> 0..PTE_NUMS] /\ lvl \in 0..2
    BY DEF TypeOK
  <1>2. /\ root \in frames \ avail
        /\ tab[0] = root
        /\ lvl = 1 => tab[1] \in Subs(mem, root) /\ tab[1] \in frames \ avail /\ tab[1] # root
    BY PathInTree
  <1>3. idx[lvl] \in Slots /\ (lvl = 1 => idx[0] \in Slots)
    BY <1>1 DEF PathInv, Slots
  <1>4. lvl = 0 \/ lvl = 1
    BY <1>1
  <1>5. tab[lvl] \in P /\ f \in P /\ tab[lvl] # f
    BY <1>1, <1>2, <1>4
  <1>6. f \in Nat
    BY <1>1
  <1>7. \A g \in P : g # f /\ g # tab[lvl] => mem'[g] = mem[g]
    BY <1>1 DEF Tables
  <1> HIDE DEF P
  <1>9. Tables(mem', P) /\ Cleared(mem, mem', P, tab[lvl], idx[lvl], SV39_Pa2PTE(f, {}), f)
    BY <1>1, <1>3, <1>5, <1>6, WriteLink
  <1>10. DOMAIN mem' = P
    BY <1>9 DEF Tables
  <1>11. Tree(mem, root, Subs(mem, root), frames, avail)
    BY DEF TreeInv
  <1>12. /\ Tree(mem', root, Subs(mem', root), frames, avail \ {f})
         /\ SameLeaves(mem, mem', root)
    <2>1. CASE lvl = 0
      <3>1. Cleared(mem, mem', P, root, idx[0], SV39_Pa2PTE(f, {}), f) /\ ~mem[root][idx[0]].v /\ idx[0] \in Slots
        BY <1>2, <1>3, <1>9, <2>1 DEF Pte
      <3>2. frames \subseteq P /\ avail \subseteq frames
        BY <1>1
      <3> QED
        BY <1>11, <3>1, <3>2, LinkAtRoot, ZenonT(60)
    <2>2. CASE lvl = 1
      <3>1. /\ Cleared(mem, mem', P, tab[1], idx[1], SV39_Pa2PTE(f, {}), f) /\ ~mem[tab[1]][idx[1]].v
            /\ idx[1] \in Slots /\ tab[1] \in Subs(mem, root)
        BY <1>2, <1>3, <1>9, <2>2 DEF Pte
      <3> QED
        BY <1>1, <1>11, <3>1, LinkBelow, ZenonT(60)
    <2> QED
      BY <1>4, <2>1, <2>2
  <1>13. TreeInv'
    BY <1>12 DEF TreeInv
  <1>14. \A va \in VAS : Walk(mem', root, va) = Walk(mem, root, va)
    BY <1>12, SameWalk
  <1>15. mem'[tab[lvl]][idx[lvl]] = SV39_Pa2PTE(f, {})
    BY <1>3, <1>5, <1>9 DEF Cleared
  <1>16. ASSUME lvl = 1 PROVE mem'[root][idx[0]] = mem[root][idx[0]]
    <2>1. root \in P /\ root # f /\ root # tab[lvl] /\ idx[0] \in Slots
      BY <1>1, <1>2, <1>3, <1>16
    <2>2. Cleared(mem, mem', P, tab[lvl], idx[lvl], SV39_Pa2PTE(f, {}), f)
      BY <1>9
    <2>3. mem'[root][idx[0]] = IF root = tab[lvl] /\ idx[0] = idx[lvl] THEN SV39_Pa2PTE(f, {})
                               ELSE IF root = f THEN ZeroPte ELSE mem[root][idx[0]]
      BY <2>1, <2>2, Zenon DEF Cleared
    <2> QED
      BY <2>1, <2>3, Zenon
  <1>17. mem'[tab[lvl]][idx[lvl]].v /\ mem'[tab[lvl]][idx[lvl]].ppn = f
    BY <1>15 DEF SV39_Pa2PTE
  <1> QED
    BY <1>1, <1>7, <1>9, <1>10, <1>13, <1>14, <1>16, <1>17 DEF P

(* A table without valid entries is given back.                            *)
LEMMA UnlinkTable ==
    ASSUME TypeOK, TreeInv, PathInv, lvl > 0, \A k \in Slots : ~mem[tab[lvl]][k].v,
           GiveBack, UNCHANGED <<root, frames>>
    PROVE  /\ Tables(mem', DOMAIN mem') /\ frames \subseteq DOMAIN mem'
           /\ avail' \subseteq frames
           /\ TreeInv'
           /\ \A va \in VAS : Walk(mem', root, va) = Walk(mem, root, va)
           /\ idx[lvl - 1] \in Slots
           /\ \A i \in Slots : mem'[tab[lvl - 1]][i] =
                IF i = idx[lvl - 1] THEN ZeroPte ELSE mem[tab[lvl - 1]][i]
           /\ \A g \in DOMAIN mem, i \in Slots :
                mem'[g][i] = mem[g][i] \/ mem'[g][i] = ZeroPte
           /\ lvl = 2 => \A i \in Slots : mem'[root][i] = mem[root][i]
  <1> DEFINE P == DOMAIN mem
  <1>1. /\ Tables(mem, P) /\ frames \subseteq P /\ avail \subseteq frames
        /\ idx \in [0..2 -> 0..PTE_NUMS] /\ lvl \in 0..2
    BY DEF TypeOK
  <1>2. /\ root \in frames \ avail
        /\ tab[0] = root
        /\ tab[1] \in Subs(mem, root) /\ tab[1] \in frames \ avail /\ tab[1] # root
        /\ lvl = 2 => tab[2] \in frames /\ tab[2] # root /\ tab[2] # tab[1]
    BY PathInTree, <1>1
  <1>3. /\ idx[0] \in Slots /\ (lvl = 2 => idx[1] \in Slots)
        /\ mem[root][idx[0]].v /\ mem[root][idx[0]].ppn = tab[1]
        /\ lvl = 2 => mem[tab[1]][idx[1]].v /\ mem[tab[1]][idx[1]].ppn = tab[2]
    BY <1>1 DEF PathInv, Slots
  <1>4. lvl = 1 \/ lvl = 2
    BY <1>1
  <1>5. /\ tab[lvl] \in P /\ tab[lvl - 1] \in P /\ tab[lvl] # tab[lvl - 1]
        /\ idx[lvl - 1] \in Slots
    BY <1>1, <1>2, <1>3, <1>4
  <1>6. mem' = [mem EXCEPT ![tab[lvl]] = ZeroTable,
                           ![tab[lvl - 1]] = [@ EXCEPT ![idx[lvl - 1]] = ZeroPte]]
    BY DEF GiveBack
  <1>7. \A k \in Slots : mem[tab[lvl]][k] = ZeroPte
    BY <1>1, <1>5 DEF Tables
  <1> HIDE DEF P
  <1>8. Tables(mem', P) /\ Cleared(mem, mem', P, tab[lvl - 1], idx[lvl - 1], ZeroPte, tab[lvl])
    BY <1>1, <1>5, <1>6, ZeroPteIsPte, WriteEntryAndClear
  <1>9. DOMAIN mem' = P
    BY <1>8 DEF Tables
  <1>10. Tree(mem, root, Subs(mem, root), frames, avail)
    BY DEF TreeInv
  <1>11. /\ Tree(mem', root, Subs(mem', root), frames, avail \cup {tab[lvl]})
         /\ tab[lvl] \in frames
         /\ SameLeaves(mem, mem', root)
    <2>1. CASE lvl = 1
      <3>1. /\ Cleared(mem, mem', P, root, idx[0], ZeroPte, tab[1])
            /\ \A k \in Slots : ~mem[tab[1]][k].v
        BY <1>2, <1>8, <2>1
      <3> QED
        BY <1>1, <1>3, <1>10, <2>1, <3>1, UnlinkAtRoot, ZenonT(60)
    <2>2. CASE lvl = 2
      <3>1. /\ Cleared(mem, mem', P, tab[1], idx[1], ZeroPte, tab[2])
            /\ \A k \in Slots : mem[tab[2]][k] = ZeroPte
        BY <1>7, <1>8, <2>2
      <3> QED
        BY <1>1, <1>2, <1>3, <1>10, <2>2, <3>1, UnlinkBelow
    <2> QED
      BY <1>4, <2>1, <2>2
  <1>12. TreeInv'
    BY <1>11 DEF TreeInv, GiveBack
  <1>13. \A va \in VAS : Walk(mem', root, va) = Walk(mem, root, va)
    BY <1>11, SameWalk
  <1>14. \A i \in Slots : mem'[tab[lvl - 1]][i] =
           IF i = idx[lvl - 1] THEN ZeroPte ELSE mem[tab[lvl - 1]][i]
    BY <1>5, <1>8 DEF Cleared
  <1>15. \A g \in P, i \in Slots : mem'[g][i] = mem[g][i] \/ mem'[g][i] = ZeroPte
    BY <1>8 DEF Cleared
  <1>16. lvl = 2 => \A i \in Slots : mem'[root][i] = mem[root][i]
    BY <1>1, <1>2, <1>8 DEF Cleared
  <1>17. avail' \subseteq frames
    BY <1>1, <1>11 DEF GiveBack
  <1> QED
    BY <1>1, <1>5, <1>8, <1>9, <1>12, <1>13, <1>14, <1>15, <1>16, <1>17 DEF P

-----------------------------------------------------------------------------
(* Steps of a walk.                                                        *)

LEMMA EnterFacts ==
    ASSUME TypeOK, lvl < 2, NEW t \in frames, NEW i \in 0..PTE_NUMS, Enter(t, i),
           UNCHANGED <<frames, left, cnt>>
    PROVE  /\ lvl' = lvl + 1 /\ lvl' \in 0..2
           /\ tab' \in [0..2 -> frames'] /\ idx' \in [0..2 -> 0..PTE_NUMS] /\ cur' \in [0..2 -> Nat]
           /\ tab'[lvl + 1] = t /\ idx'[lvl + 1] = i /\ cur'[lvl] = left
           /\ \A k \in 0..2 : k # lvl + 1 => tab'[k] = tab[k] /\ idx'[k] = idx[k]
           /\ \A k \in 0..2 : k # lvl => cur'[k] = cur[k]
  <1>1. /\ lvl \in 0..1 /\ lvl + 1 \in 0..2 /\ lvl \in 0..2
        /\ left \in Nat /\ tab \in [0..2 -> frames]
        /\ idx \in [0..2 -> 0..PTE_NUMS] /\ cur \in [0..2 -> Nat]
    BY DEF TypeOK
  <1>2. lvl' = lvl + 1 /\ tab' = [tab EXCEPT ![lvl + 1] = t]
    BY DEF Enter
  <1>3. idx' = [idx EXCEPT ![lvl + 1] = i] /\ cur' = [cur EXCEPT ![lvl] = left]
    BY DEF Enter
  <1>4. tab' \in [0..2 -> frames'] /\ tab'[lvl + 1] = t /\ \A k \in 0..2 : k # lvl + 1 => tab'[k] = tab[k]
    BY <1>1, <1>2
  <1>5. /\ idx' \in [0..2 -> 0..PTE_NUMS] /\ idx'[lvl + 1] = i
        /\ \A k \in 0..2 : k # lvl + 1 => idx'[k] = idx[k]
    BY <1>1, <1>3
  <1>6. cur' \in [0..2 -> Nat] /\ cur'[lvl] = left /\ \A k \in 0..2 : k # lvl => cur'[k] = cur[k]
    BY <1>1, <1>3
  <1> QED
    BY <1>1, <1>2, <1>4, <1>5, <1>6

LEMMA EnterPath ==
    ASSUME TypeOK, PathInv, lvl < 2, idx[lvl] < PTE_NUMS,
           NEW t \in frames, NEW i \in 0..PTE_NUMS, Enter(t, i), UNCHANGED <<root, frames, left, cnt>>,
           mem'[tab[lvl]][idx[lvl]].v, mem'[tab[lvl]][idx[lvl]].ppn = t,
           lvl = 1 => mem'[root][idx[0]] = mem[root][idx[0]]
    PROVE  PathInv'
  <1>1. lvl = 0 \/ lvl = 1
    BY DEF TypeOK
  <1>2. tab[0] = root
    BY DEF PathInv
  <1>3. CASE lvl = 0
    <2>1. lvl' = 1 /\ tab'[1] = t /\ tab'[0] = root /\ idx'[0] = idx[0]
      BY <1>2, <1>3, EnterFacts
    <2> QED
      BY <1>2, <1>3, <2>1 DEF PathInv
  <1>4. CASE lvl = 1
    <2>1. /\ lvl' = 2 /\ tab'[2] = t /\ tab'[1] = tab[1] /\ tab'[0] = root
          /\ idx'[0] = idx[0] /\ idx'[1] = idx[1]
      BY <1>2, <1>4, EnterFacts
    <2> QED
      BY <1>2, <1>4, <2>1 DEF PathInv
  <1> QED
    BY <1>1, <1>3, <1>4

LEMMA LeaveFacts ==
    ASSUME TypeOK, lvl > 0, PathInv, Leave
    PROVE  /\ lvl' = lvl - 1 /\ lvl' \in 0..2
           /\ tab' = tab /\ cur' = cur /\ idx' \in [0..2 -> 0..PTE_NUMS]
           /\ idx[lvl - 1] < PTE_NUMS /\ idx'[lvl - 1] = idx[lvl - 1] + 1
           /\ \A k \in 0..2 : k # lvl - 1 => idx'[k] = idx[k]
  <1>1. lvl \in 1..2 /\ lvl - 1 \in 0..2 /\ idx \in [0..2 -> 0..PTE_NUMS]
    BY DEF TypeOK
  <1>2. idx[lvl - 1] < PTE_NUMS
    BY <1>1 DEF PathInv
  <1>3. idx[lvl - 1] + 1 \in 0..PTE_NUMS
    BY <1>1, <1>2
  <1>4. lvl' = lvl - 1 /\ tab' = tab /\ cur' = cur /\ idx' = [idx EXCEPT ![lvl - 1] = idx[lvl - 1] + 1]
    BY DEF Leave
  <1>5. /\ idx' \in [0..2 -> 0..PTE_NUMS] /\ idx'[lvl - 1] = idx[lvl - 1] + 1
        /\ \A k \in 0..2 : k # lvl - 1 => idx'[k] = idx[k]
    BY <1>1, <1>3, <1>4
  <1> QED
    BY <1>1, <1>2, <1>4, <1>5

LEMMA LeavePath ==
    ASSUME TypeOK, PathInv, lvl > 0, Leave, UNCHANGED <<root, frames>>,
           lvl = 2 => mem'[root][idx[0]] = mem[root][idx[0]]
    PROVE  PathInv'
  <1>1. lvl = 1 \/ lvl = 2
    BY DEF TypeOK
  <1>2. CASE lvl = 1
    BY <1>2, LeaveFacts DEF PathInv
  <1>3. CASE lvl = 2
    <2>1. lvl' = 1 /\ tab' = tab /\ idx'[0] = idx[0]
      BY <1>3, LeaveFacts
    <2> QED
      BY <1>3, <2>1 DEF PathInv
  <1> QED
    BY <1>1, <1>2, <1>3

(* Where the walk over a range is.                                         *)
LEMMA AtInVas ==
    ASSUME TypeOK, RangeInv, pc \in Calls, left > 0
    PROVE  AtVa \in VAS /\ req.va <= AtVa /\ AtVa < req.va + cnt /\ AtVa \in Nat
  <1>1. req.va \in Nat /\ cnt \in Nat /\ left \in 0..cnt
    BY DEF TypeOK
  <1>2. req.va + cnt <= PTE_NUMS * PTE_NUMS * PTE_NUMS
    BY DEF RangeInv
  <1>3. PTE_NUMS * PTE_NUMS * PTE_NUMS \in Nat
    OBVIOUS
  <1> QED
    BY <1>1, <1>2, <1>3 DEF VAS, AtVa

LEMMA RangeAtRoot ==
    ASSUME TypeOK, RangeInv, pc \in Calls, left > 0, lvl = 0
    PROVE  idx[0] \in Slots /\ idx[0] = SV39_Index2Id(AtVa, 0)
  <1>1. AtVa \in VAS /\ AtVa \div (PTE_NUMS * PTE_NUMS) = idx[0]
    BY AtInVas DEF RangeInv
  <1> QED
    BY <1>1, AddrOfIndices

LEMMA RangeBelow ==
    ASSUME TypeOK, PathInv, RangeInv, pc \in Calls, left > 0, lvl = 1, idx[1] < PTE_NUMS
    PROVE  /\ idx[0] \in Slots /\ idx[1] \in Slots
           /\ idx[0] = SV39_Index2Id(AtVa, 0) /\ idx[1] = SV39_Index2Id(AtVa, 1)
           /\ AtVa = Addr(idx[0], idx[1], SV39_Index2Id(AtVa, 2))
  <1>1. AtVa \in VAS /\ AtVa \div PTE_NUMS = PTE_NUMS * idx[0] + idx[1]
    BY AtInVas DEF RangeInv
  <1>2. idx[0] \in Slots /\ idx[1] \in Slots
    BY DEF PathInv, TypeOK, Slots
  <1> QED
    BY <1>1, <1>2, EnterLevelTwo

LEMMA EnterRange ==
    ASSUME TypeOK, PathInv, RangeInv, pc \in Calls, left > 0, lvl < 2, idx[lvl] < PTE_NUMS,
           NEW t \in frames, Enter(t, SV39_Index2Id(AtVa, lvl + 1)),
           UNCHANGED <<frames, pc, req, cnt, left>>
    PROVE  RangeInv' /\ AtVa' = AtVa /\ SV39_Index2Id(AtVa, lvl + 1) \in 0..PTE_NUMS
  <1>1. AtVa \in VAS
    BY AtInVas
  <1>2. lvl = 0 \/ lvl = 1
    BY DEF TypeOK
  <1>3. SV39_Index2Id(AtVa, lvl + 1) \in 0..PTE_NUMS
    BY <1>1, <1>2, AddrOfIndices DEF Slots
  <1>4. AtVa' = AtVa
    BY DEF AtVa
  <1>5. CASE lvl = 0
    <2>1. lvl' = 1 /\ idx'[0] = idx[0] /\ idx'[1] = SV39_Index2Id(AtVa, 1)
      BY <1>3, <1>5, EnterFacts
    <2>2. AtVa \div (PTE_NUMS * PTE_NUMS) = idx[0]
      BY <1>5 DEF RangeInv
    <2>3. AtVa \div PTE_NUMS = PTE_NUMS * idx'[0] + idx'[1]
      BY <1>1, <2>1, <2>2, EnterLevelOne
    <2> QED
      BY <1>3, <1>4, <2>1, <2>3 DEF RangeInv
  <1>6. CASE lvl = 1
    <2>1. lvl' = 2 /\ idx'[0] = idx[0] /\ idx'[1] = idx[1] /\ idx'[2] = SV39_Index2Id(AtVa, 2)
      BY <1>3, <1>6, EnterFacts
    <2>2. AtVa = Addr(idx'[0], idx'[1], idx'[2])
      BY <1>6, <2>1, RangeBelow
    <2> QED
      BY <1>3, <1>4, <2>1, <2>2 DEF RangeInv
  <1> QED
    BY <1>2, <1>5, <1>6

LEMMA LeaveRange ==
    ASSUME TypeOK, PathInv, RangeInv, pc \in Calls, lvl > 0, idx[lvl] = PTE_NUMS \/ left = 0,
           Leave, UNCHANGED <<pc, req, cnt, left>>
    PROVE  /\ RangeInv' /\ AtVa' = AtVa
           /\ lvl = 2 /\ left > 0 => AtVa % PTE_NUMS = 0
  <1>1. lvl = 1 \/ lvl = 2
    BY DEF TypeOK
  <1>2. AtVa' = AtVa
    BY DEF AtVa
  <1>3. left \in Nat /\ idx \in [0..2 -> 0..PTE_NUMS]
    BY DEF TypeOK
  <1>4. CASE lvl = 1
    <2>1. lvl' = 0 /\ idx'[0] = idx[0] + 1
      BY <1>4, LeaveFacts
    <2>2. ASSUME left > 0 PROVE AtVa \div (PTE_NUMS * PTE_NUMS) = idx'[0]
      <3>1. idx[1] = PTE_NUMS /\ AtVa \div PTE_NUMS = PTE_NUMS * idx[0] + idx[1]
        BY <1>3, <1>4, <2>2 DEF RangeInv
      <3>2. AtVa \in Nat /\ idx[0] \in Nat
        BY <1>3, <2>2, AtInVas
      <3> QED
        BY <2>1, <3>1, <3>2, LeaveLevelOne
    <2> QED
      BY <1>2, <1>4, <2>1, <2>2 DEF RangeInv
  <1>5. CASE lvl = 2
    <2>1. lvl' = 1 /\ idx'[0] = idx[0] /\ idx'[1] = idx[1] + 1
      BY <1>5, LeaveFacts
    <2>2. ASSUME left > 0
          PROVE  AtVa \div PTE_NUMS = PTE_NUMS * idx'[0] + idx'[1] /\ AtVa % PTE_NUMS = 0
      <3>1. idx[2] = PTE_NUMS /\ AtVa = Addr(idx[0], idx[1], PTE_NUMS)
        BY <1>3, <1>5, <2>2 DEF RangeInv
      <3>2. idx[0] \in Nat /\ idx[1] \in Nat
        BY <1>3
      <3> QED
        BY <2>1, <3>1, <3>2, LeaveLevelTwo
    <2> QED
      BY <1>2, <1>5, <2>1, <2>2 DEF RangeInv
  <1> QED
    BY <1>1, <1>4, <1>5

-----------------------------------------------------------------------------
(* The kernel's map, and how the invariant is put together.                *)

LEMMA KernelInVas ==
    ASSUME TypeOK, pc # "early"
    PROVE  KernelVas \subseteq VAS
  <1>1. lay \in LAYOUTS
    BY DEF TypeOK
  <1>2. KERNEL_OFFSET \in Nat /\ KERNEL_OFFSET + (lay.top - lay.start) - 1 \in VAS
    BY <1>1, LayoutAssumption
  <1> QED
    BY <1>2 DEF KernelVas, VAS

LEMMA KernelKept ==
    ASSUME TypeOK, KernelMapStays, pc # "early", pc' # "early", UNCHANGED fixed,
           \A va \in VAS : (kern /\ va \in KernelVas) => Walk(mem', root, va) = Walk(mem, root, va)
    PROVE  KernelMapStays' /\ KernelVas' = KernelVas
  <1>1. KernelVas' = KernelVas
    BY DEF KernelVas, fixed
  <1>2. KernelVas \subseteq VAS
    BY KernelInVas
  <1>3. UNCHANGED <<kern, lay, root>>
    BY DEF fixed
  <1> HIDE DEF KernelVas
  <1>4. ASSUME kern, NEW va \in KernelVas
        PROVE  Walk(mem', root', va) =
                 SV39_Pa2PTE(va - KERNEL_OFFSET + lay.start,
                   IF va - KERNEL_OFFSET + lay.start < lay.line THEN TEXT ELSE DATA)
    BY <1>2, <1>3, <1>4 DEF KernelMapStays
  <1> QED
    BY <1>1, <1>3, <1>4 DEF KernelMapStays

(* A valid page of the kernel.                                             *)
LEMMA KernelValid ==
    ASSUME KernelMapStays, kern, NEW va \in KernelVas
    PROVE  Valid(va)
  BY DEF KernelMapStays, Valid, SV39_Pa2PTE

LEMMA IInvIdle ==
    ASSUME (TypeOK /\ TreeInv /\ PathInv /\ KernelMapStays)', pc' = "idle"
    PROVE  IInv'
  BY DEF IInv, EarlyInv, RangeInv, MapInv, UnmapInv, UndoInv, FreeInv, ReqInv, Calls

LEMMA IInvMap ==
    ASSUME (TypeOK /\ TreeInv /\ PathInv /\ KernelMapStays /\ RangeInv /\ MapInv /\ ReqInv)',
           pc' = "mmap"
    PROVE  IInv'
  BY DEF IInv, EarlyInv, UnmapInv, UndoInv, FreeInv

LEMMA IInvUnmap ==
    ASSUME (TypeOK /\ TreeInv /\ PathInv /\ KernelMapStays /\ RangeInv /\ UnmapInv /\ UndoInv /\ ReqInv)',
           pc' \in {"unmap", "undo"}
    PROVE  IInv'
  BY DEF IInv, EarlyInv, MapInv, FreeInv

LEMMA IInvFree ==
    ASSUME (TypeOK /\ TreeInv /\ PathInv /\ KernelMapStays /\ FreeInv /\ ReqInv)',
           pc' = "unmap_all"
    PROVE  IInv'
  BY DEF IInv, EarlyInv, RangeInv, MapInv, UnmapInv, UndoInv, Calls

(* Entries above the last level point to tables.                           *)
LEMMA PteIsTable ==
    ASSUME TypeOK, TreeInv, PathInv, lvl < 2, idx[lvl] < PTE_NUMS, Pte.v
    PROVE  PTE_NEXTPGT(Pte) /\ Pte.ppn \in frames /\ Pte.ppn \notin avail
  <1>1. lvl \in 0..1 /\ idx[lvl] \in Slots
    BY DEF TypeOK, Slots
  <1>2. tab[lvl] \in Subs(mem, root) \cup {root}
    BY <1>1, PathInTree
  <1>3. Pte.prot = {} /\ Pte.ppn \in frames \ avail
    BY <1>1, <1>2 DEF TreeInv, Tree, Pte
  <1> QED
    BY <1>3 DEF PTE_NEXTPGT

(* A valid page has entries on all levels.                                 *)
LEMMA ValidPath ==
    ASSUME NEW va \in VAS, Valid(va)
    PROVE  /\ mem[root][SV39_Index2Id(va, 0)].v
           /\ mem[mem[root][SV39_Index2Id(va, 0)].ppn][SV39_Index2Id(va, 1)].v
  BY WalkIsLeaf, ZeroPteIsPte DEF Valid, Leaf

-----------------------------------------------------------------------------
(* riscv_free_pgtable.                                                     *)

(* The next entry of the table.                                            *)
LEMMA NextEntry ==
    ASSUME TypeOK, NEW l \in 0..2, idx[l] < PTE_NUMS, idx' = [idx EXCEPT ![l] = @ + 1]
    PROVE  /\ idx' \in [0..2 -> 0..PTE_NUMS]
           /\ idx'[l] = idx[l] + 1
           /\ \A k \in 0..2 : k # l => idx'[k] = idx[k]
  <1>1. idx \in [0..2 -> 0..PTE_NUMS]
    BY DEF TypeOK
  <1>2. idx[l] \in 0..PTE_NUMS /\ idx[l] + 1 \in 0..PTE_NUMS
    BY <1>1
  <1> QED
    BY <1>1, <1>2

(* A step at the last level stays on the path.                             *)
LEMMA LeafPath ==
    ASSUME TypeOK, TreeInv, PathInv, lvl = 2,
           \A g \in Subs(mem, root) \cup {root}, i \in Slots : mem'[g][i] = mem[g][i],
           idx'[0] = idx[0], idx'[1] = idx[1], UNCHANGED <<root, tab>>, lvl' = lvl
    PROVE  PathInv'
  <1>1. tab[1] \in Subs(mem, root) /\ tab[0] = root
    BY PathInTree
  <1>2. idx[0] \in Slots /\ idx[1] \in Slots
    BY DEF PathInv, TypeOK, Slots
  <1>3. mem'[root][idx[0]] = mem[root][idx[0]] /\ mem'[tab[1]][idx[1]] = mem[tab[1]][idx[1]]
    BY <1>1, <1>2
  <1> QED
    BY <1>3 DEF PathInv

LEMMA FreePageInv ==
    ASSUME IInv, pc = "unmap_all", FreePage, UNCHANGED <<fixed, req, ret, cnt, left>>
    PROVE  IInv'
  <1> USE DEF FreePage
  <1>1. TypeOK /\ TreeInv /\ PathInv /\ FreeInv /\ ReqInv
    BY DEF IInv
  <1>2. UNCHANGED <<lay, root, pa_st_free, fresh, kern, frames>>
    BY DEF fixed
  <1>3. ZeroPte \in Ptes /\ (~ZeroPte.v => ZeroPte = ZeroPte) /\ ~ZeroPte.v
    BY ZeroPteIsPte
  <1>4. /\ Tables(mem', DOMAIN mem') /\ frames \subseteq DOMAIN mem'
        /\ TreeInv'
        /\ \A g \in Subs(mem, root) \cup {root}, i \in Slots : mem'[g][i] = mem[g][i]
        /\ \A i \in Slots : mem'[tab[2]][i] = IF i = idx[2] THEN ZeroPte ELSE mem[tab[2]][i]
    BY <1>1, <1>2, <1>3, SetLeaf
  <1>5. /\ idx' \in [0..2 -> 0..PTE_NUMS]
        /\ idx'[2] = idx[2] + 1 /\ idx'[0] = idx[0] /\ idx'[1] = idx[1]
    BY <1>1, NextEntry
  <1>6. TypeOK'
    BY <1>1, <1>2, <1>4, <1>5 DEF TypeOK
  <1>7. PathInv'
    BY <1>1, <1>2, <1>4, <1>5, LeafPath
  <1>8. KernelMapStays' /\ ~kern
    BY <1>1, <1>2 DEF KernelMapStays, FreeInv
  <1>9. FreeInv'
    <2>1. tab[1] \in Subs(mem, root)
      BY <1>1, PathInTree
    <2>2. \A i \in Slots : i < idx[2] + 1 => ~mem'[tab[2]][i].v
      <3>1. idx[2] \in Nat /\ Slots \subseteq Nat
        BY <1>1 DEF TypeOK, Slots
      <3>2. \A i \in Slots : i < idx[2] => ~mem[tab[2]][i].v
        BY <1>1 DEF FreeInv
      <3> QED
        BY <1>3, <1>4, <3>1, <3>2
    <2>3. \A i \in Slots : i < idx[0] => ~mem'[root][i].v
      BY <1>1, <1>4 DEF FreeInv
    <2>4. \A i \in Slots : i < idx[1] => ~mem'[tab[1]][i].v
      BY <1>1, <1>4, <2>1 DEF FreeInv
    <2> QED
      BY <1>2, <1>5, <1>8, <2>2, <2>3, <2>4 DEF FreeInv
  <1>10. ReqInv'
    BY <1>1 DEF ReqInv
  <1> QED
    BY <1>4, <1>6, <1>7, <1>8, <1>9, <1>10, IInvFree

LEMMA FreeEnterInv ==
    ASSUME IInv, pc = "unmap_all", FreeEnter, UNCHANGED <<fixed, req, ret, cnt, left>>
    PROVE  IInv'
  <1> USE DEF FreeEnter
  <1>1. TypeOK /\ TreeInv /\ PathInv /\ FreeInv /\ ReqInv
    BY DEF IInv
  <1>2. UNCHANGED <<lay, root, pa_st_free, fresh, kern, frames>>
    BY DEF fixed
  <1>3. Pte.v /\ Pte.ppn \in frames
    BY <1>1, PteIsTable DEF PTE_NEXTPGT
  <1>4. 0 \in 0..PTE_NUMS
    OBVIOUS
  <1>5. /\ lvl' = lvl + 1 /\ lvl' \in 0..2
        /\ tab' \in [0..2 -> frames'] /\ idx' \in [0..2 -> 0..PTE_NUMS] /\ cur' \in [0..2 -> Nat]
        /\ tab'[lvl + 1] = Pte.ppn /\ idx'[lvl + 1] = 0
        /\ \A k \in 0..2 : k # lvl + 1 => tab'[k] = tab[k] /\ idx'[k] = idx[k]
    BY <1>1, <1>2, <1>3, <1>4, EnterFacts
  <1>6. TypeOK'
    BY <1>1, <1>2, <1>5 DEF TypeOK
  <1>7. mem'[tab[lvl]][idx[lvl]].v /\ mem'[tab[lvl]][idx[lvl]].ppn = Pte.ppn
    BY <1>3 DEF Pte
  <1>8. PathInv'
    BY <1>1, <1>2, <1>3, <1>4, <1>7, EnterPath
  <1>9. TreeInv' /\ KernelMapStays' /\ ~kern
    BY <1>1, <1>2 DEF TreeInv, KernelMapStays, FreeInv
  <1>10. FreeInv'
    <2>1. Slots \subseteq Nat
      BY DEF Slots
    <2>2. lvl = 0 \/ lvl = 1
      BY <1>1 DEF TypeOK
    <2> QED
      BY <1>1, <1>2, <1>5, <2>1, <2>2 DEF FreeInv
  <1>11. ReqInv'
    BY <1>1 DEF ReqInv
  <1> QED
    BY <1>6, <1>8, <1>9, <1>10, <1>11, IInvFree

LEMMA FreeSkipInv ==
    ASSUME IInv, pc = "unmap_all", FreeSkip, UNCHANGED <<fixed, req, ret, cnt, left>>
    PROVE  IInv'
  <1> USE DEF FreeSkip
  <1>1. TypeOK /\ TreeInv /\ PathInv /\ FreeInv /\ ReqInv
    BY DEF IInv
  <1>2. UNCHANGED <<lay, root, pa_st_free, fresh, kern, frames>>
    BY DEF fixed
  <1>3. ~Pte.v
    BY <1>1, PteIsTable
  <1>4. lvl \in 0..2 /\ (lvl = 0 \/ lvl = 1) /\ tab[0] = root
    BY <1>1 DEF TypeOK, PathInv
  <1>5. /\ idx' \in [0..2 -> 0..PTE_NUMS]
        /\ idx'[lvl] = idx[lvl] + 1
        /\ \A k \in 0..2 : k # lvl => idx'[k] = idx[k]
    BY <1>1, <1>4, NextEntry
  <1>13. panic' = FALSE
    <2>1. tab[lvl] \in DOMAIN mem /\ idx[lvl] \in Slots
      BY <1>1, <1>4 DEF TypeOK, Slots
    <2>2. Pte \in Ptes
      BY <1>1, <2>1 DEF TypeOK, Tables, Pte
    <2>3. Pte.v = FALSE
      BY <1>3, <2>2 DEF Ptes
    <2> QED
      BY <2>3
  <1>6. TypeOK'
    BY <1>1, <1>2, <1>5, <1>13 DEF TypeOK
  <1>8. PathInv'
    BY <1>1, <1>2, <1>4, <1>5 DEF PathInv
  <1>9. TreeInv' /\ KernelMapStays' /\ ~kern
    BY <1>1, <1>2 DEF TreeInv, KernelMapStays, FreeInv
  <1>10. FreeInv'
    <2>1. Slots \subseteq Nat /\ idx[lvl] \in Nat
      BY <1>1, <1>4 DEF Slots, TypeOK
    <2>2. \A i \in Slots : i < idx[lvl] + 1 => i < idx[lvl] \/ i = idx[lvl]
      BY <2>1
    <2>3. CASE lvl = 0
      <3>1. \A i \in Slots : i < idx'[0] => ~mem[root][i].v
        BY <1>1, <1>3, <1>4, <1>5, <2>2, <2>3 DEF FreeInv, Pte
      <3> QED
        BY <1>1, <1>2, <2>3, <3>1 DEF FreeInv
    <2>4. CASE lvl = 1
      <3>1. \A i \in Slots : i < idx'[1] => ~mem[tab[1]][i].v
        BY <1>1, <1>3, <1>4, <1>5, <2>2, <2>4 DEF FreeInv, Pte
      <3> QED
        BY <1>1, <1>2, <1>5, <2>4, <3>1 DEF FreeInv
    <2> QED
      BY <1>4, <2>3, <2>4
  <1>11. ReqInv'
    BY <1>1 DEF ReqInv
  <1> QED
    BY <1>6, <1>8, <1>9, <1>10, <1>11, IInvFree

LEMMA FreeLeaveInv ==
    ASSUME IInv, pc = "unmap_all", FreeLeave, UNCHANGED <<fixed, req, ret, cnt, left>>
    PROVE  IInv'
  <1> USE DEF FreeLeave
  <1>1. TypeOK /\ TreeInv /\ PathInv /\ FreeInv /\ ReqInv
    BY DEF IInv
  <1>2. UNCHANGED <<lay, root, pa_st_free, fresh, kern, frames>>
    BY DEF fixed
  <1>3. lvl = 1 \/ lvl = 2
    BY <1>1 DEF TypeOK
  <1>4. \A k \in Slots : ~mem[tab[lvl]][k].v
    <2>1. \A k \in Slots : k < PTE_NUMS
      BY DEF Slots
    <2> QED
      BY <1>1, <1>3, <2>1 DEF FreeInv
  <1>5. /\ Tables(mem', DOMAIN mem') /\ frames \subseteq DOMAIN mem'
        /\ avail' \subseteq frames
        /\ TreeInv'
        /\ \A i \in Slots : mem'[tab[lvl - 1]][i] =
             IF i = idx[lvl - 1] THEN ZeroPte ELSE mem[tab[lvl - 1]][i]
        /\ lvl = 2 => \A i \in Slots : mem'[root][i] = mem[root][i]
    BY <1>1, <1>2, <1>4, UnlinkTable
  <1>6. /\ lvl' = lvl - 1 /\ lvl' \in 0..2
        /\ tab' = tab /\ cur' = cur /\ idx' \in [0..2 -> 0..PTE_NUMS]
        /\ idx[lvl - 1] < PTE_NUMS /\ idx'[lvl - 1] = idx[lvl - 1] + 1
        /\ \A k \in 0..2 : k # lvl - 1 => idx'[k] = idx[k]
    BY <1>1, LeaveFacts
  <1>7. TypeOK'
    BY <1>1, <1>2, <1>5, <1>6 DEF TypeOK
  <1>8. PathInv'
    <2>1. lvl = 2 => mem'[root][idx[0]] = mem[root][idx[0]]
      BY <1>1, <1>5 DEF PathInv, TypeOK, Slots
    <2> QED
      BY <1>1, <1>2, <2>1, LeavePath
  <1>9. KernelMapStays' /\ ~kern
    BY <1>1, <1>2 DEF KernelMapStays, FreeInv
  <1>10. FreeInv'
    <2>1. Slots \subseteq Nat /\ idx[lvl - 1] \in Nat /\ tab[0] = root
      BY <1>1, <1>3 DEF Slots, TypeOK, PathInv
    <2>2. \A i \in Slots : i < idx[lvl - 1] + 1 => i < idx[lvl - 1] \/ i = idx[lvl - 1]
      BY <2>1
    <2>3. CASE lvl = 1
      <3>1. \A i \in Slots : i < idx'[0] => ~mem'[root][i].v
        BY <1>1, <1>5, <1>6, <2>1, <2>2, <2>3, ZeroPteIsPte DEF FreeInv
      <3> QED
        BY <1>2, <1>6, <1>9, <2>3, <3>1 DEF FreeInv
    <2>4. CASE lvl = 2
      <3>1. \A i \in Slots : i < idx'[1] => ~mem'[tab[1]][i].v
        BY <1>1, <1>5, <1>6, <2>1, <2>2, <2>4, ZeroPteIsPte DEF FreeInv
      <3>2. \A i \in Slots : i < idx'[0] => ~mem'[root][i].v
        BY <1>1, <1>5, <1>6, <2>4 DEF FreeInv
      <3> QED
        BY <1>2, <1>6, <1>9, <2>4, <3>1, <3>2 DEF FreeInv
    <2> QED
      BY <1>3, <2>3, <2>4
  <1>11. ReqInv'
    BY <1>1 DEF ReqInv
  <1> QED
    BY <1>5, <1>7, <1>8, <1>9, <1>10, <1>11, IInvFree

LEMMA FreeEndInv ==
    ASSUME IInv, pc = "unmap_all", FreeEnd, UNCHANGED <<fixed, req, ret, cnt, left>>
    PROVE  IInv'
  <1>1. TypeOK /\ TreeInv /\ PathInv /\ FreeInv
    BY DEF IInv
  <1>2. UNCHANGED <<lay, root, pa_st_free, fresh, kern, frames, mem, avail, lvl, tab, idx, cur, panic>>
        /\ pc' = "idle"
    BY DEF fixed, FreeEnd, walk, Return
  <1>3. TypeOK'
    BY <1>1, <1>2 DEF TypeOK
  <1>4. TreeInv' /\ PathInv' /\ KernelMapStays'
    BY <1>1, <1>2 DEF TreeInv, PathInv, KernelMapStays, FreeInv
  <1> QED
    BY <1>2, <1>3, <1>4, IInvIdle

-----------------------------------------------------------------------------
(* The calls start.                                                        *)

LEMMA StartFacts ==
    ASSUME IInv, pc = "idle", NEW op \in {"mmap", "unmap", "unmap_all"},
           NEW va \in VAS, NEW n \in Nat, NEW pa \in Nat, NEW prot \in SUBSET VM_PROTS,
           Start(op, va, n, pa, prot), UNCHANGED fixed
    PROVE  /\ TypeOK' /\ TreeInv' /\ PathInv' /\ KernelMapStays'
           /\ AtVa' = va
           /\ KernelVas' = KernelVas
           /\ n > 0 /\ va + n - 1 \in VAS /\ op \in Calls => RangeInv'
  <1> USE DEF Start
  <1>1. TypeOK /\ TreeInv /\ PathInv /\ KernelMapStays
    BY DEF IInv
  <1>2. UNCHANGED <<lay, root, pa_st_free, fresh, kern, frames, mem, avail, tab, cur, panic>>
        /\ pc' = op /\ lvl' = 0 /\ cnt' = n /\ left' = n
    BY DEF fixed
  <1>3. req'.va = va /\ req'.n = n /\ req'.pa = pa /\ req'.prot = prot /\ req'.op = op
    OBVIOUS
  <1>4. va \in Nat /\ SV39_Index2Id(va, 0) \in Slots /\ va \div (PTE_NUMS * PTE_NUMS) = SV39_Index2Id(va, 0)
    BY AddrOfIndices DEF VAS
  <1>5. idx' \in [0..2 -> 0..PTE_NUMS] /\ idx'[0] = SV39_Index2Id(va, 0)
    <2>1. idx \in [0..2 -> 0..PTE_NUMS] /\ SV39_Index2Id(va, 0) \in 0..PTE_NUMS
      BY <1>1, <1>4 DEF TypeOK, Slots
    <2>2. idx' = [idx EXCEPT ![0] = SV39_Index2Id(va, 0)]
      OBVIOUS
    <2> QED
      BY <2>1, <2>2
  <1>6. TypeOK'
    BY <1>1, <1>2, <1>3, <1>4, <1>5 DEF TypeOK, Calls
  <1>7. TreeInv' /\ PathInv'
    BY <1>1, <1>2 DEF TreeInv, PathInv
  <1>8. KernelVas' = KernelVas
    BY <1>2 DEF KernelVas
  <1>9. KernelMapStays'
    <2> HIDE DEF KernelVas
    <2> QED
      BY <1>1, <1>2, <1>8 DEF KernelMapStays
  <1>10. AtVa' = va
    BY <1>2, <1>3, <1>4 DEF AtVa
  <1>11. ASSUME n > 0, va + n - 1 \in VAS, op \in Calls PROVE RangeInv'
    <2>1. va + n <= PTE_NUMS * PTE_NUMS * PTE_NUMS
      BY <1>4, <1>11 DEF VAS
    <2> QED
      BY <1>2, <1>3, <1>4, <1>5, <1>10, <1>11, <2>1 DEF RangeInv
  <1> QED
    BY <1>6, <1>7, <1>8, <1>9, <1>10, <1>11

LEMMA MmapInv ==
    ASSUME IInv, NEW r \in RANGES, NEW off \in OFFSETS, Mmap(r[1], r[2], r[1] + off)
    PROVE  IInv'
  <1> DEFINE va == r[1]
             n == r[2]
             pa == r[1] + off
  <1>1. va \in VAS /\ n \in Nat /\ n > 0 /\ va + n - 1 \in VAS /\ off \in Nat /\ PROTS \subseteq SUBSET VM_PROTS
    BY CallAssumption
  <1>2. va \in Nat /\ pa \in Nat
    BY <1>1 DEF VAS
  <1>3. PICK prot \in PROTS : Start("mmap", va, n, pa, prot)
    BY DEF Mmap
  <1>4. UNCHANGED fixed /\ pc = "idle" /\ prot \in SUBSET VM_PROTS
    BY <1>1, <1>3 DEF Mmap, Start
  <1>5. pa \in PAS
    BY <1>1 DEF PAS
  <1> HIDE DEF va, n, pa
  <1>6. /\ TypeOK' /\ TreeInv' /\ PathInv' /\ KernelMapStays'
        /\ AtVa' = va
        /\ KernelVas' = KernelVas
        /\ n > 0 /\ va + n - 1 \in VAS /\ "mmap" \in Calls => RangeInv'
    BY <1>1, <1>2, <1>3, <1>4, StartFacts
  <1>7. pc' = "mmap" /\ req'.op = "mmap" /\ req'.va = va /\ req'.n = n /\ req'.pa = pa /\ cnt' = n /\ left' = n
    BY <1>3 DEF Start
  <1>8. RangeInv'
    BY <1>1, <1>6 DEF Calls
  <1>9. MapInv'
    <2>1. req'.va..(AtVa' - 1) = {}
      BY <1>2, <1>6, <1>7
    <2> QED
      BY <1>1, <1>7, <2>1 DEF MapInv
  <1>10. ReqInv'
    <2>1. va + n <= PTE_NUMS * PTE_NUMS * PTE_NUMS
      BY <1>1, <1>2 DEF VAS
    <2> QED
      BY <1>1, <1>5, <1>7, <2>1 DEF ReqInv
  <1> QED
    BY <1>6, <1>7, <1>8, <1>9, <1>10, IInvMap

LEMMA UnmapInvStart ==
    ASSUME IInv, NEW r \in RANGES, Unmap(r[1], r[2])
    PROVE  IInv'
  <1> DEFINE va == r[1]
             n == r[2]
  <1>1. va \in VAS /\ n \in Nat /\ n > 0 /\ va + n - 1 \in VAS
    BY CallAssumption
  <1>2. va \in Nat /\ 0 \in Nat /\ {} \in SUBSET VM_PROTS
    BY <1>1 DEF VAS
  <1>3. /\ \A v \in va..(va + n - 1) : Walk(mem, root, v).v /\ ~(kern /\ v \in KernelVas)
        /\ Start("unmap", va, n, 0, {}) /\ UNCHANGED fixed /\ pc = "idle"
    BY DEF Unmap, Start
  <1> HIDE DEF va, n
  <1>6. /\ TypeOK' /\ TreeInv' /\ PathInv' /\ KernelMapStays'
        /\ AtVa' = va
        /\ KernelVas' = KernelVas
        /\ n > 0 /\ va + n - 1 \in VAS /\ "unmap" \in Calls => RangeInv'
    BY <1>1, <1>2, <1>3, StartFacts
  <1>7. /\ pc' = "unmap" /\ req'.op = "unmap" /\ req'.va = va /\ req'.n = n
        /\ cnt' = n /\ left' = n /\ ret' = "OK" /\ lvl' = 0
        /\ UNCHANGED <<mem, root, kern>>
    BY <1>3 DEF Start, fixed
  <1>8. RangeInv'
    BY <1>1, <1>6 DEF Calls
  <1>9. UnmapInv'
    <2>1. req'.va..(AtVa' - 1) = {}
      BY <1>2, <1>6, <1>7
    <2>2. \A v \in AtVa'..(req'.va + cnt' - 1) : Valid(v)'
      BY <1>3, <1>6, <1>7 DEF Valid
    <2>3. kern' => \A v \in req'.va..(req'.va + cnt' - 1) : v \notin KernelVas'
      BY <1>3, <1>6, <1>7
    <2>4. ASSUME NEW i \in Slots, NEW j \in Slots, va <= Addr(i, j, 0) PROVE ~(Addr(i, j, PTE_NUMS) <= va)
      <3>1. Addr(i, j, PTE_NUMS) = Addr(i, j, 0) + PTE_NUMS
        BY DEF Addr, Slots
      <3>2. Addr(i, j, 0) \in Nat
        BY DEF Addr, Slots
      <3> QED
        BY <1>2, <2>4, <3>1, <3>2
    <2> QED
      BY <1>6, <1>7, <2>1, <2>2, <2>3, <2>4 DEF UnmapInv
  <1>10. ReqInv'
    <2>1. va + n <= PTE_NUMS * PTE_NUMS * PTE_NUMS
      BY <1>1, <1>2 DEF VAS
    <2> QED
      BY <1>1, <1>7, <2>1 DEF ReqInv
  <1>11. UndoInv'
    BY <1>7 DEF UndoInv
  <1> QED
    BY <1>6, <1>7, <1>8, <1>9, <1>10, <1>11, IInvUnmap

LEMMA UnmapAllInv ==
    ASSUME IInv, UnmapAll
    PROVE  IInv'
  <1>1. 0 \in VAS /\ 0 \in Nat /\ {} \in SUBSET VM_PROTS
    <2>1. 0 \in Slots
      BY DEF Slots
    <2>2. Addr(0, 0, 0) \in VAS
      BY <2>1, IndicesOfAddr
    <2> QED
      BY <2>2 DEF Addr
  <1>2. Start("unmap_all", 0, 0, 0, {}) /\ UNCHANGED fixed /\ pc = "idle" /\ ~kern
    BY DEF UnmapAll, Start
  <1>3. TypeOK' /\ TreeInv' /\ PathInv' /\ KernelMapStays'
    BY <1>1, <1>2, StartFacts
  <1>4. /\ pc' = "unmap_all" /\ req'.op = "unmap_all" /\ req'.va = 0 /\ req'.n = 0
        /\ lvl' = 0 /\ UNCHANGED kern /\ idx' = [idx EXCEPT ![0] = SV39_Index2Id(0, 0)]
    BY <1>2 DEF Start, fixed
  <1>5. idx'[0] = 0
    <2>1. SV39_Index2Id(Addr(0, 0, 0), 0) = 0 /\ Addr(0, 0, 0) = 0
      BY IndicesOfAddr DEF Slots, Addr
    <2>2. idx \in [0..2 -> 0..PTE_NUMS]
      BY DEF IInv, TypeOK
    <2> QED
      BY <1>4, <2>1, <2>2
  <1>6. FreeInv'
    BY <1>2, <1>4, <1>5 DEF FreeInv, Slots
  <1>7. ReqInv'
    BY <1>4 DEF ReqInv, Calls
  <1> QED
    BY <1>3, <1>4, <1>6, <1>7, IInvFree

-----------------------------------------------------------------------------
(* vm_walkthrough.                                                         *)

LEMMA MapPageInv ==
    ASSUME IInv, pc = "mmap", MapPage, UNCHANGED <<fixed, req>>
    PROVE  /\ IInv'
           /\ ~Valid(AtVa)
           /\ Walk(mem', root, AtVa) = SV39_Pa2PTE(req.pa + (AtVa - req.va), req.prot)
           /\ \A va \in VAS : va # AtVa => Walk(mem', root, va) = Walk(mem, root, va)
  <1> USE DEF MapPage
  <1> DEFINE e == SV39_Pa2PTE(AtPa, req.prot)
             at == Addr(idx[0], idx[1], idx[2])
  <1>1. TypeOK /\ TreeInv /\ PathInv /\ KernelMapStays /\ RangeInv /\ MapInv /\ ReqInv /\ pc \in Calls
    BY DEF IInv, Calls
  <1>2. UNCHANGED <<lay, root, pa_st_free, fresh, kern, frames, avail, lvl, tab, cur, panic, req, cnt>>
    BY DEF fixed
  <1>3. left > 0 /\ cnt = req.n
    BY <1>1 DEF MapInv
  <1>4. AtVa = at /\ AtVa \in VAS /\ AtVa \in Nat /\ req.va <= AtVa /\ AtVa < req.va + cnt
    BY <1>1, <1>3, AtInVas DEF RangeInv
  <1>5. req.va \in Nat /\ req.pa \in Nat /\ req.prot \in SUBSET VM_PROTS /\ cnt \in Nat /\ left \in 0..cnt
    BY <1>1 DEF TypeOK
  <1>6. e \in Ptes /\ e.v /\ (~e.v => e = ZeroPte)
    <2>1. AtPa \in Nat
      BY <1>5 DEF AtPa
    <2> QED
      BY <1>5, <2>1, LeafPteIsPte
  <1>7. AtPa = req.pa + (AtVa - req.va)
    BY <1>5 DEF AtPa, AtVa
  <1>8. SetPte(e)
    OBVIOUS
  <1> HIDE DEF e
  <1>9. /\ Tables(mem', DOMAIN mem') /\ frames \subseteq DOMAIN mem'
        /\ TreeInv'
        /\ \A g \in Subs(mem, root) \cup {root}, i \in Slots : mem'[g][i] = mem[g][i]
        /\ OneWalk(mem, mem', root, at, e)
        /\ Pte = Walk(mem, root, at)
    BY <1>1, <1>2, <1>6, <1>8, SetLeaf
  <1> HIDE DEF at
  <1>10. Walk(mem', root, AtVa) = e /\ \A va \in VAS : va # AtVa => Walk(mem', root, va) = Walk(mem, root, va)
    BY <1>4, <1>9 DEF OneWalk
  <1>11. ~Valid(AtVa)
    BY <1>4, <1>9 DEF Valid
  <1>12. ~(kern /\ AtVa \in KernelVas)
    BY <1>1, <1>11, KernelValid
  <1>13. pc' = "idle" \/ pc' = "mmap"
    BY DEF Return
  <1>14. KernelMapStays' /\ KernelVas' = KernelVas
    <2>1. pc # "early" /\ pc' # "early"
      BY <1>13
    <2> QED
      BY <1>1, <1>10, <1>12, <2>1, KernelKept
  <1>15. /\ idx' \in [0..2 -> 0..PTE_NUMS]
         /\ idx'[2] = idx[2] + 1 /\ idx'[0] = idx[0] /\ idx'[1] = idx[1]
    BY <1>1, NextEntry
  <1>16. left' \in 0..cnt
    BY <1>3, <1>5
  <1>17. TypeOK'
    BY <1>1, <1>2, <1>9, <1>13, <1>15, <1>16 DEF TypeOK, Calls
  <1>18. PathInv'
    BY <1>1, <1>2, <1>9, <1>15, LeafPath
  <1>19. ASSUME left = 1 PROVE IInv'
    BY <1>9, <1>14, <1>17, <1>18, <1>19, IInvIdle DEF Return
  <1>20. ASSUME left # 1 PROVE IInv'
    <2>1. pc' = pc /\ left' > 0 /\ left' = left - 1
      BY <1>3, <1>5, <1>20
    <2>2. AtVa' = AtVa + 1
      BY <1>2, <1>5, <2>1 DEF AtVa
    <2>3. RangeInv'
      <3>1. AtVa' = Addr(idx'[0], idx'[1], idx'[2])
        <4>1. idx[0] \in Nat /\ idx[1] \in Nat /\ idx[2] \in Nat
          BY <1>1 DEF TypeOK
        <4> QED
          BY <1>4, <1>15, <2>2, <4>1 DEF Addr, at
      <3> QED
        BY <1>1, <1>2, <3>1, <2>1 DEF RangeInv
    <2>4. MapInv'
      <3>1. ASSUME NEW va \in req.va..AtVa
            PROVE  /\ Walk(mem', root, va) = SV39_Pa2PTE(req.pa + (va - req.va), req.prot)
                   /\ ~(kern /\ va \in KernelVas)
        <4>1. CASE va = AtVa
          BY <1>7, <1>10, <1>12, <4>1 DEF e
        <4>2. CASE va # AtVa
          <5>1. va \in req.va..(AtVa - 1) /\ va \in VAS
            BY <1>4, <1>5, <4>2 DEF VAS
          <5> QED
            BY <1>1, <1>10, <4>2, <5>1 DEF MapInv
        <4> QED
          BY <4>1, <4>2
      <3>2. req.va..AtVa = req.va..(AtVa' - 1)
        BY <1>4, <2>2
      <3> QED
        BY <1>2, <1>3, <1>14, <2>1, <3>1, <3>2 DEF MapInv
    <2>5. ReqInv'
      BY <1>1, <1>2, <2>1 DEF ReqInv
    <2> QED
      BY <1>9, <1>14, <1>17, <1>18, <2>1, <2>3, <2>4, <2>5, IInvMap
  <1>21. IInv'
    BY <1>19, <1>20
  <1> QED
    BY <1>7, <1>10, <1>11, <1>21 DEF e

LEMMA MapFailInv ==
    ASSUME IInv, pc = "mmap", NEW r \in {"EEXIST", "ENOMEM"}, MapFail(r),
           r = "EEXIST" => Valid(AtVa), UNCHANGED <<fixed, req, mem, avail, tab, cur, panic>>
    PROVE  IInv'
  <1> USE DEF MapFail
  <1>1. TypeOK /\ TreeInv /\ PathInv /\ KernelMapStays /\ RangeInv /\ MapInv /\ ReqInv /\ pc \in Calls
    BY DEF IInv, Calls
  <1>2. UNCHANGED <<lay, root, pa_st_free, fresh, kern, frames, mem, avail, tab, cur, panic, req>>
    BY DEF fixed
  <1>3. pc' = "idle" \/ pc' = "undo"
    BY DEF Return
  <1>4. KernelMapStays' /\ KernelVas' = KernelVas
    <2>1. pc # "early" /\ pc' # "early"
      BY <1>3
    <2> QED
      BY <1>1, <1>2, <2>1, KernelKept
  <1>5. TreeInv'
    BY <1>1, <1>2 DEF TreeInv
  <1>6. CASE left = cnt
    <2>1. pc' = "idle" /\ UNCHANGED <<ret, cnt, left, lvl, idx>>
      BY <1>6 DEF Return
    <2>2. TypeOK' /\ PathInv'
      BY <1>1, <1>2, <2>1 DEF TypeOK, PathInv
    <2> QED
      BY <1>4, <1>5, <2>1, <2>2, IInvIdle
  <1>7. CASE left # cnt
    <2>1. /\ pc' = "undo" /\ ret' = r /\ cnt' = cnt - left /\ left' = cnt - left /\ lvl' = 0
          /\ idx' = [idx EXCEPT ![0] = SV39_Index2Id(req.va, 0)]
      BY <1>7
    <2>2. cnt \in Nat /\ left \in 0..cnt /\ left > 0 /\ cnt = req.n /\ req.va \in Nat
      BY <1>1 DEF TypeOK, MapInv
    <2>3. cnt - left \in Nat /\ cnt - left > 0
      BY <2>2, <1>7
    <2>4. req.va \in VAS /\ req.va + (cnt - left) <= PTE_NUMS * PTE_NUMS * PTE_NUMS
      <3>1. req.va + cnt <= PTE_NUMS * PTE_NUMS * PTE_NUMS
        BY <1>1 DEF RangeInv
      <3> QED
        BY <2>2, <3>1 DEF VAS
    <2>5. SV39_Index2Id(req.va, 0) \in Slots /\ req.va \div (PTE_NUMS * PTE_NUMS) = SV39_Index2Id(req.va, 0)
      BY <2>4, AddrOfIndices
    <2>6. idx' \in [0..2 -> 0..PTE_NUMS] /\ idx'[0] = SV39_Index2Id(req.va, 0)
      <3>1. idx \in [0..2 -> 0..PTE_NUMS] /\ SV39_Index2Id(req.va, 0) \in 0..PTE_NUMS
        BY <1>1, <2>5 DEF TypeOK, Slots
      <3> QED
        BY <2>1, <3>1
    <2>7. TypeOK'
      BY <1>1, <1>2, <2>1, <2>3, <2>6 DEF TypeOK, Calls
    <2>8. PathInv'
      BY <1>1, <1>2, <2>1 DEF PathInv
    <2>9. AtVa' = req.va
      BY <1>2, <2>1, <2>2, <2>3 DEF AtVa
    <2>10. RangeInv'
      BY <1>2, <2>1, <2>3, <2>4, <2>5, <2>6, <2>9 DEF RangeInv
    <2>11. UnmapInv'
      <3>1. req'.va..(AtVa' - 1) = {}
        BY <1>2, <2>2, <2>9
      <3>2. AtVa'..(req'.va + cnt' - 1) = req.va..(AtVa - 1)
        BY <1>2, <2>1, <2>2, <2>9 DEF AtVa
      <3>3. \A v \in req.va..(AtVa - 1) : Valid(v)'
        BY <1>1, <1>2 DEF MapInv, Valid, SV39_Pa2PTE
      <3>4. \A v \in req.va..(AtVa - 1) : ~(kern /\ v \in KernelVas)
        BY <1>1 DEF MapInv
      <3>5. kern' => \A v \in req'.va..(req'.va + cnt' - 1) : v \notin KernelVas'
        BY <1>2, <1>4, <2>9, <3>2, <3>4
      <3>6. ASSUME NEW i \in Slots, NEW j \in Slots, req.va <= Addr(i, j, 0)
            PROVE  ~(Addr(i, j, PTE_NUMS) <= req.va)
        <4>1. Addr(i, j, PTE_NUMS) = Addr(i, j, 0) + PTE_NUMS
          BY DEF Addr, Slots
        <4>2. Addr(i, j, 0) \in Nat
          BY DEF Addr, Slots
        <4> QED
          BY <2>2, <3>6, <4>1, <4>2
      <3>7. \A v \in AtVa'..(req'.va + cnt' - 1) : Valid(v)'
        BY <3>2, <3>3
      <3>8. \A i, j \in Slots : ~(req'.va <= Addr(i, j, 0) /\ Addr(i, j, PTE_NUMS) <= AtVa')
        BY <1>2, <2>9, <3>6
      <3> QED
        BY <2>1, <3>1, <3>5, <3>7, <3>8 DEF UnmapInv
    <2>12. UndoInv'
      <3>1. req.va + (cnt - left) = AtVa
        BY DEF AtVa
      <3>2. cnt' < req'.n /\ ret' = r /\ req'.va + cnt' = AtVa
        BY <1>2, <2>1, <2>2, <3>1
      <3>3. Valid(AtVa) => Walk(mem', root', req'.va + cnt').v
        BY <1>2, <3>2 DEF Valid
      <3> QED
        BY <2>1, <3>2, <3>3 DEF UndoInv, Valid
    <2>13. ReqInv'
      BY <1>1, <1>2, <2>1 DEF ReqInv, Calls
    <2> QED
      BY <1>4, <1>5, <2>1, <2>7, <2>8, <2>10, <2>11, <2>12, <2>13, IInvUnmap
  <1> QED
    BY <1>6, <1>7

LEMMA MapExistsInv ==
    ASSUME IInv, pc = "mmap", MapExists, UNCHANGED <<fixed, req>>
    PROVE  IInv' /\ Valid(AtVa) /\ left > 0
  <1>1. TypeOK /\ TreeInv /\ PathInv /\ RangeInv /\ MapInv /\ lvl = 2 /\ idx[2] < PTE_NUMS /\ Pte.v
    BY DEF IInv, MapExists
  <1>2. AtVa = Addr(idx[0], idx[1], idx[2]) /\ left > 0
    BY <1>1 DEF RangeInv, MapInv, Calls
  <1>3. idx[0] \in Slots /\ idx[1] \in Slots /\ idx[2] \in Slots
    BY <1>1 DEF TypeOK, PathInv, Slots
  <1>4. Pte = Leaf(mem, root, idx[0], idx[1], idx[2])
    BY <1>1 DEF Leaf, Pte, PathInv
  <1>5. Pte = Walk(mem, root, AtVa)
    BY <1>2, <1>3, <1>4, WalkIsLeaf, IndicesOfAddr
  <1>6. Valid(AtVa)
    BY <1>1, <1>5 DEF Valid
  <1>7. IInv'
    BY <1>6, MapFailInv DEF MapExists
  <1> QED
    BY <1>2, <1>6, <1>7

LEMMA MapNoMemInv ==
    ASSUME IInv, pc = "mmap", MapNoMem, UNCHANGED <<fixed, req>>
    PROVE  IInv'
  BY MapFailInv DEF MapNoMem

(* A step that leaves all translations and the place of the walk.          *)
LEMMA MapKept ==
    ASSUME TypeOK, RangeInv, MapInv, ReqInv, pc = "mmap", AtVa' = AtVa, KernelVas' = KernelVas,
           \A va \in VAS : Walk(mem', root, va) = Walk(mem, root, va),
           UNCHANGED <<root, kern, pc, req, cnt, left>>
    PROVE  MapInv' /\ ReqInv'
  <1>1. left > 0 /\ cnt = req.n
    BY DEF MapInv
  <1>2. AtVa \in VAS /\ req.va \in Nat
    BY <1>1, AtInVas DEF TypeOK, Calls
  <1>3. req.va..(AtVa - 1) \subseteq VAS
    BY <1>2 DEF VAS
  <1>4. ASSUME NEW va \in req.va..(AtVa - 1)
        PROVE  /\ Walk(mem', root, va) = SV39_Pa2PTE(req.pa + (va - req.va), req.prot)
               /\ ~(kern /\ va \in KernelVas)
    BY <1>3, <1>4 DEF MapInv
  <1>5. MapInv'
    BY <1>1, <1>4 DEF MapInv
  <1>6. ReqInv'
    BY DEF ReqInv
  <1> QED
    BY <1>5, <1>6

LEMMA MapEnterInv ==
    ASSUME IInv, pc = "mmap", MapEnter, UNCHANGED <<fixed, req>>
    PROVE  IInv' /\ pc' = "mmap" /\ AtVa' = AtVa /\ \A va \in VAS : Walk(mem', root, va) = Walk(mem, root, va)
  <1> USE DEF MapEnter
  <1>1. TypeOK /\ TreeInv /\ PathInv /\ KernelMapStays /\ RangeInv /\ MapInv /\ ReqInv /\ pc \in Calls
    BY DEF IInv, Calls
  <1>2. PTE_NEXTPGT(Pte) /\ Pte.ppn \in frames
    BY <1>1, PteIsTable
  <1>3. UNCHANGED <<lay, root, pa_st_free, fresh, kern, frames, pc, call, ret, cnt, left, mem, avail, panic, req>>
    BY <1>2 DEF fixed
  <1>4. Enter(Pte.ppn, SV39_Index2Id(AtVa, lvl + 1)) /\ left > 0
    BY <1>1, <1>2 DEF MapInv
  <1>5. RangeInv' /\ AtVa' = AtVa /\ SV39_Index2Id(AtVa, lvl + 1) \in 0..PTE_NUMS
    BY <1>1, <1>2, <1>3, <1>4, EnterRange
  <1>6. mem'[tab[lvl]][idx[lvl]].v /\ mem'[tab[lvl]][idx[lvl]].ppn = Pte.ppn
    BY <1>3 DEF Pte
  <1>7. PathInv'
    BY <1>1, <1>2, <1>3, <1>4, <1>5, <1>6, EnterPath
  <1>8. /\ lvl' \in 0..2
        /\ tab' \in [0..2 -> frames'] /\ idx' \in [0..2 -> 0..PTE_NUMS] /\ cur' \in [0..2 -> Nat]
    BY <1>1, <1>2, <1>3, <1>4, <1>5, EnterFacts
  <1>9. TypeOK' /\ TreeInv'
    BY <1>1, <1>3, <1>8 DEF TypeOK, TreeInv
  <1>10. KernelMapStays' /\ KernelVas' = KernelVas
    <2>1. pc # "early" /\ pc' # "early"
      BY <1>3
    <2> QED
      BY <1>1, <1>3, <2>1, KernelKept
  <1>11. \A va \in VAS : Walk(mem', root, va) = Walk(mem, root, va)
    BY <1>3
  <1>12. MapInv' /\ ReqInv'
    BY <1>1, <1>3, <1>5, <1>10, <1>11, MapKept
  <1> QED
    BY <1>3, <1>5, <1>7, <1>9, <1>10, <1>11, <1>12, IInvMap

LEMMA MapGrowInv ==
    ASSUME IInv, pc = "mmap", NEW f \in avail, MapGrow(f), UNCHANGED <<fixed, req>>
    PROVE  IInv' /\ pc' = "mmap" /\ AtVa' = AtVa /\ \A va \in VAS : Walk(mem', root, va) = Walk(mem, root, va)
  <1> USE DEF MapGrow
  <1>1. TypeOK /\ TreeInv /\ PathInv /\ KernelMapStays /\ RangeInv /\ MapInv /\ ReqInv /\ pc \in Calls
    BY DEF IInv, Calls
  <1>2. f \in frames
    BY <1>1 DEF TypeOK
  <1>3. UNCHANGED <<lay, root, pa_st_free, fresh, kern, frames, pc, call, ret, cnt, left, panic, req>>
    BY DEF fixed
  <1>4. Enter(f, SV39_Index2Id(AtVa, lvl + 1)) /\ left > 0
    BY <1>1, <1>2 DEF MapInv
  <1>5. RangeInv' /\ AtVa' = AtVa /\ SV39_Index2Id(AtVa, lvl + 1) \in 0..PTE_NUMS
    BY <1>1, <1>2, <1>3, <1>4, EnterRange
  <1>6. /\ Tables(mem', DOMAIN mem') /\ frames \subseteq DOMAIN mem'
        /\ TreeInv'
        /\ \A va \in VAS : Walk(mem', root, va) = Walk(mem, root, va)
        /\ mem'[tab[lvl]][idx[lvl]].v /\ mem'[tab[lvl]][idx[lvl]].ppn = f
        /\ lvl = 1 => mem'[root][idx[0]] = mem[root][idx[0]]
    BY <1>1, <1>3, LinkTable
  <1>7. PathInv'
    BY <1>1, <1>2, <1>3, <1>4, <1>5, <1>6, EnterPath
  <1>8. /\ lvl' \in 0..2
        /\ tab' \in [0..2 -> frames'] /\ idx' \in [0..2 -> 0..PTE_NUMS] /\ cur' \in [0..2 -> Nat]
    BY <1>1, <1>2, <1>3, <1>4, <1>5, EnterFacts
  <1>13. avail' \subseteq frames
    BY <1>1 DEF TypeOK
  <1>9. TypeOK'
    BY <1>1, <1>3, <1>6, <1>8, <1>13 DEF TypeOK
  <1>10. KernelMapStays' /\ KernelVas' = KernelVas
    <2>1. pc # "early" /\ pc' # "early"
      BY <1>3
    <2> QED
      BY <1>1, <1>6, <2>1, KernelKept
  <1>12. MapInv' /\ ReqInv'
    BY <1>1, <1>3, <1>5, <1>6, <1>10, MapKept
  <1> QED
    BY <1>3, <1>5, <1>6, <1>7, <1>9, <1>10, <1>12, IInvMap

LEMMA MapLeaveInv ==
    ASSUME IInv, pc = "mmap", MapLeave, UNCHANGED <<fixed, req>>
    PROVE  IInv' /\ pc' = "mmap" /\ AtVa' = AtVa /\ \A va \in VAS : Walk(mem', root, va) = Walk(mem, root, va)
  <1> USE DEF MapLeave
  <1>1. TypeOK /\ TreeInv /\ PathInv /\ KernelMapStays /\ RangeInv /\ MapInv /\ ReqInv /\ pc \in Calls
    BY DEF IInv, Calls
  <1>2. left > 0
    BY <1>1 DEF MapInv
  <1>3. lvl > 0
    <2>1. ASSUME lvl = 0 PROVE FALSE
      BY <1>1, <1>2, <2>1, RangeAtRoot DEF Slots
    <2> QED
      BY <1>1, <2>1 DEF TypeOK
  <1>4. Leave /\ UNCHANGED <<lay, root, pa_st_free, fresh, kern, frames, pc, call, ret, cnt, left, mem, avail, panic, req>>
    BY <1>3 DEF fixed
  <1>5. RangeInv' /\ AtVa' = AtVa
    BY <1>1, <1>3, <1>4, LeaveRange
  <1>7. PathInv'
    BY <1>1, <1>3, <1>4, LeavePath
  <1>8. lvl' \in 0..2 /\ tab' = tab /\ cur' = cur /\ idx' \in [0..2 -> 0..PTE_NUMS]
    BY <1>1, <1>3, <1>4, LeaveFacts
  <1>9. TypeOK' /\ TreeInv'
    BY <1>1, <1>4, <1>8 DEF TypeOK, TreeInv
  <1>10. KernelMapStays' /\ KernelVas' = KernelVas
    <2>1. pc # "early" /\ pc' # "early"
      BY <1>4
    <2> QED
      BY <1>1, <1>4, <2>1, KernelKept
  <1>11. \A va \in VAS : Walk(mem', root, va) = Walk(mem, root, va)
    BY <1>4
  <1>12. MapInv' /\ ReqInv'
    BY <1>1, <1>4, <1>5, <1>10, <1>11, MapKept
  <1> QED
    BY <1>4, <1>5, <1>7, <1>9, <1>10, <1>11, <1>12, IInvMap

-----------------------------------------------------------------------------
(* riscv_unmap.                                                            *)

(* Where blocks of pages lie.                                              *)
LEMMA AddrSums ==
    ASSUME NEW i \in Nat, NEW j \in Nat, NEW k \in Nat
    PROVE  /\ Addr(i, j, 0) \in Nat
           /\ Addr(i, j, k) = Addr(i, j, 0) + k
           /\ Addr(i, j, PTE_NUMS) = Addr(i, j, 0) + PTE_NUMS
           /\ Addr(i, j, 0) = Addr(i, 0, 0) + PTE_NUMS * j
           /\ Addr(i, 0, 0) \in Nat
           /\ Addr(i, PTE_NUMS, 0) = Addr(i, 0, 0) + PTE_NUMS * PTE_NUMS
  <1>1. PTE_NUMS * i \in Nat
    OBVIOUS
  <1>2. ASSUME NEW q \in Nat, NEW x \in Nat
        PROVE  PTE_NUMS * (q + x) \in Nat /\ PTE_NUMS * (q + x) = PTE_NUMS * q + PTE_NUMS * x
    OBVIOUS
  <1>3. PTE_NUMS * 0 = 0
    OBVIOUS
  <1> QED
    BY <1>1, <1>2, <1>3 DEF Addr

LEMMA AddrPlus ==
    ASSUME NEW i \in Nat, NEW j \in Nat, NEW k \in Nat
    PROVE  Addr(i, j, k) = Addr(i, j, 0) + k /\ Addr(i, j, 0) \in Nat
  BY AddrSums

LEMMA AddrTable ==
    ASSUME NEW i \in Nat
    PROVE  Addr(i, PTE_NUMS, 0) = Addr(i, 0, 0) + PTE_NUMS * PTE_NUMS /\ Addr(i, 0, 0) \in Nat
  <1>1. 0 \in Nat
    OBVIOUS
  <1> QED
    BY <1>1, AddrSums

LEMMA AddrInTable ==
    ASSUME NEW i \in Nat, NEW j \in Slots, NEW k \in 0..PTE_NUMS
    PROVE  /\ Addr(i, 0, 0) <= Addr(i, j, 0)
           /\ Addr(i, j, k) <= Addr(i, PTE_NUMS, 0)
  <1>1. j \in Nat /\ j <= PTE_NUMS - 1 /\ k \in Nat /\ k <= PTE_NUMS
    BY DEF Slots
  <1>2. PTE_NUMS * j \in Nat /\ PTE_NUMS * j <= PTE_NUMS * (PTE_NUMS - 1)
    BY <1>1
  <1>3. PTE_NUMS * (PTE_NUMS - 1) = PTE_NUMS * PTE_NUMS - PTE_NUMS /\ PTE_NUMS * PTE_NUMS \in Nat
    OBVIOUS
  <1>4. /\ Addr(i, j, k) = Addr(i, j, 0) + k /\ Addr(i, 0, 0) \in Nat
        /\ Addr(i, j, 0) = Addr(i, 0, 0) + PTE_NUMS * j
        /\ Addr(i, PTE_NUMS, 0) = Addr(i, 0, 0) + PTE_NUMS * PTE_NUMS
    BY <1>1, AddrSums
  <1>5. ASSUME NEW x \in Nat, NEW y \in Nat, NEW z \in Nat, y <= z - PTE_NUMS
        PROVE  x <= x + y /\ x + y + k <= x + z
    BY <1>1, <1>5
  <1> QED
    BY <1>2, <1>3, <1>4, <1>5

(* A block that ends in another is that one.                               *)
LEMMA AddrBlock ==
    ASSUME NEW i \in Slots, NEW j \in Slots, NEW a \in Slots, NEW b \in Slots,
           NEW k \in 0..PTE_NUMS,
           Addr(a, b, 0) < Addr(i, j, PTE_NUMS), Addr(i, j, PTE_NUMS) <= Addr(a, b, k)
    PROVE  i = a /\ j = b /\ k = PTE_NUMS
  <1> DEFINE p == PTE_NUMS * a + b
             q == PTE_NUMS * i + j
  <1>1. p \in Nat /\ q \in Nat /\ i \in Nat /\ a \in Nat /\ j \in 0..(PTE_NUMS - 1) /\ b \in 0..(PTE_NUMS - 1)
    BY DEF Slots
  <1>2. /\ (PTE_NUMS * a + b) \div PTE_NUMS = a /\ (PTE_NUMS * a + b) % PTE_NUMS = b
        /\ (PTE_NUMS * i + j) \div PTE_NUMS = i /\ (PTE_NUMS * i + j) % PTE_NUMS = j
    BY <1>1, Quotient
  <1>3. PTE_NUMS * p + 0 < PTE_NUMS * q + PTE_NUMS /\ PTE_NUMS * q + PTE_NUMS <= PTE_NUMS * p + k
    BY DEF Addr
  <1> HIDE DEF p, q
  <1>4. ASSUME NEW x \in Nat, NEW y \in Nat, x < y PROVE PTE_NUMS * x + PTE_NUMS <= PTE_NUMS * y
    BY <1>4
  <1>5. ~(q < p) /\ ~(p < q)
    <2>1. PTE_NUMS * p \in Nat /\ PTE_NUMS * q \in Nat
      BY <1>1
    <2>2. ~(q < p)
      BY <1>1, <1>3, <1>4, <2>1
    <2>3. ~(p < q)
      <3>1. ASSUME p < q PROVE FALSE
        <4>1. PTE_NUMS * p + PTE_NUMS <= PTE_NUMS * q
          BY <1>1, <1>4, <3>1
        <4> QED
          BY <1>3, <2>1, <4>1
      <3> QED
        BY <3>1
    <2> QED
      BY <2>2, <2>3
  <1>6. p = q
    BY <1>1, <1>5
  <1>7. k = PTE_NUMS
    <2>1. PTE_NUMS * p \in Nat
      BY <1>1
    <2> QED
      BY <1>3, <1>6, <2>1
  <1> QED
    BY <1>2, <1>6, <1>7 DEF p, q

(* Entries above the last level that stay.                                 *)
LEMMA LinkedSame ==
    ASSUME \A g \in Subs(mem, root) \cup {root}, i \in Slots : mem'[g][i] = mem[g][i],
           UNCHANGED root, NEW i \in Slots, NEW j \in Slots
    PROVE  Linked(i, j)' <=> Linked(i, j)
  <1>1. mem'[root][i] = mem[root][i]
    OBVIOUS
  <1>2. CASE mem[root][i].v
    <2>1. mem[root][i].ppn \in Subs(mem, root)
      BY <1>2, SubsMember
    <2> QED
      BY <1>1, <2>1 DEF Linked
  <1>3. CASE ~mem[root][i].v
    BY <1>1, <1>3 DEF Linked
  <1> QED
    BY <1>2, <1>3

LEMMA LinkedLess ==
    ASSUME TypeOK, TreeInv, UNCHANGED root,
           \A g \in DOMAIN mem, i \in Slots : mem'[g][i] = mem[g][i] \/ mem'[g][i] = ZeroPte,
           NEW i \in Slots, NEW j \in Slots, ~Linked(i, j)
    PROVE  ~Linked(i, j)'
  <1> SUFFICES ASSUME Linked(i, j)' PROVE Linked(i, j)
    OBVIOUS
  <1>1. root \in DOMAIN mem /\ Subs(mem, root) \subseteq DOMAIN mem
    BY TreePages DEF TreeInv, TypeOK
  <1>2. mem'[root][i].v /\ mem'[root][i] = mem[root][i]
    BY <1>1, ZeroPteIsPte DEF Linked
  <1>3. mem[root][i].ppn \in DOMAIN mem
    BY <1>1, <1>2, SubsMember
  <1>4. mem'[mem[root][i].ppn][j].v /\ mem'[mem[root][i].ppn][j] = mem[mem[root][i].ppn][j]
    BY <1>2, <1>3, ZeroPteIsPte DEF Linked
  <1> QED
    BY <1>2, <1>4 DEF Linked

LEMMA UndoKept ==
    ASSUME TypeOK, RangeInv, ReqInv, UndoInv, pc \in {"unmap", "undo"},
           UNCHANGED <<root, pc, req, ret, cnt>>,
           \A va \in VAS : va >= req.va + cnt => Walk(mem', root, va) = Walk(mem, root, va)
    PROVE  UndoInv' /\ ReqInv'
  <1>1. ReqInv'
    BY DEF ReqInv
  <1>2. CASE pc = "unmap"
    BY <1>1, <1>2 DEF UndoInv
  <1>3. CASE pc = "undo"
    <2>1. req.va \in Nat /\ cnt \in Nat /\ req.n \in Nat /\ cnt < req.n
          /\ req.va + req.n <= PTE_NUMS * PTE_NUMS * PTE_NUMS
      BY <1>3 DEF TypeOK, UndoInv, ReqInv, Calls
    <2>2. req.va + cnt \in VAS /\ req.va + cnt >= req.va + cnt
      BY <2>1 DEF VAS
    <2>3. Walk(mem', root, req.va + cnt) = Walk(mem, root, req.va + cnt)
      BY <2>2
    <2> QED
      BY <1>1, <1>3, <2>1, <2>3 DEF UndoInv, Valid
  <1> QED
    BY <1>2, <1>3

LEMMA UnmapPageInv ==
    ASSUME IInv, pc \in {"unmap", "undo"}, UnmapPage, UNCHANGED <<fixed, req, ret, cnt>>
    PROVE  /\ IInv' /\ pc' = pc
           /\ \A va \in VAS : va \notin req.va..(req.va + cnt - 1) => Walk(mem', root, va) = Walk(mem, root, va)
  <1> USE DEF UnmapPage
  <1> DEFINE at == Addr(idx[0], idx[1], idx[2])
  <1>1. /\ TypeOK /\ TreeInv /\ PathInv /\ KernelMapStays /\ RangeInv
        /\ UnmapInv /\ UndoInv /\ ReqInv /\ pc \in Calls
    BY DEF IInv, Calls
  <1>2. UNCHANGED <<lay, root, pa_st_free, fresh, kern, frames, avail, lvl, tab, cur, panic, pc, req, ret, cnt>>
    BY DEF fixed
  <1>3. lvl = 2 /\ left > 0 /\ idx[2] < PTE_NUMS /\ left' = left - 1
    OBVIOUS
  <1>4. AtVa = at /\ AtVa \in VAS /\ AtVa \in Nat /\ req.va <= AtVa /\ AtVa < req.va + cnt
    BY <1>1, <1>3, AtInVas DEF RangeInv
  <1>5. req.va \in Nat /\ cnt \in Nat /\ left \in 0..cnt /\ cur[0] \in Nat /\ cur[1] \in Nat
    BY <1>1 DEF TypeOK
  <1>6. ZeroPte \in Ptes /\ ~ZeroPte.v /\ (~ZeroPte.v => ZeroPte = ZeroPte)
    BY ZeroPteIsPte
  <1>9. /\ Tables(mem', DOMAIN mem') /\ frames \subseteq DOMAIN mem'
        /\ TreeInv'
        /\ idx[0] \in Slots /\ idx[1] \in Slots /\ idx[2] \in Slots
        /\ \A g \in Subs(mem, root) \cup {root}, i \in Slots : mem'[g][i] = mem[g][i]
        /\ OneWalk(mem, mem', root, at, ZeroPte)
    BY <1>1, <1>2, <1>6, SetLeaf
  <1> HIDE DEF at
  <1>10. /\ Walk(mem', root, AtVa) = ZeroPte
         /\ \A va \in VAS : va # AtVa => Walk(mem', root, va) = Walk(mem, root, va)
    BY <1>4, <1>9 DEF OneWalk
  <1>11. AtVa \in req.va..(req.va + cnt - 1)
    BY <1>4, <1>5
  <1>12. ~(kern /\ AtVa \in KernelVas)
    BY <1>1, <1>11 DEF UnmapInv
  <1>14. KernelMapStays' /\ KernelVas' = KernelVas
    <2>1. pc # "early" /\ pc' # "early"
      BY <1>2
    <2> QED
      BY <1>1, <1>10, <1>12, <2>1, KernelKept
  <1>15. /\ idx' \in [0..2 -> 0..PTE_NUMS]
         /\ idx'[2] = idx[2] + 1 /\ idx'[0] = idx[0] /\ idx'[1] = idx[1]
    BY <1>1, NextEntry
  <1>16. left' \in 0..cnt /\ left' >= 0
    BY <1>3, <1>5
  <1>17. TypeOK'
    BY <1>1, <1>2, <1>9, <1>15, <1>16 DEF TypeOK
  <1>18. PathInv'
    BY <1>1, <1>2, <1>3, <1>9, <1>15, LeafPath
  <1>19. AtVa' = AtVa + 1
    BY <1>2, <1>3, <1>5 DEF AtVa
  <1>20. idx[0] \in Nat /\ idx[1] \in Nat /\ idx[2] \in Nat
    BY <1>9 DEF Slots
  <1>21. RangeInv'
    <2>1. AtVa' = Addr(idx'[0], idx'[1], idx'[2])
      BY <1>4, <1>15, <1>19, <1>20 DEF Addr, at
    <2> QED
      BY <1>1, <1>2, <1>3, <2>1 DEF RangeInv
  <1>22. UnmapInv'
    <2>1. \A va \in req.va..AtVa : ~Walk(mem', root, va).v
      <3>1. ASSUME NEW va \in req.va..AtVa, va # AtVa PROVE ~Walk(mem', root, va).v
        <4>1. va \in req.va..(AtVa - 1) /\ va \in VAS
          BY <1>4, <1>5, <3>1 DEF VAS
        <4> QED
          BY <1>1, <1>10, <3>1, <4>1 DEF UnmapInv, Valid
      <3> QED
        BY <1>6, <1>10, <3>1
    <2>2. \A va \in (AtVa + 1)..(req.va + cnt - 1) : Walk(mem', root, va).v
      <3>1. ASSUME NEW va \in (AtVa + 1)..(req.va + cnt - 1) PROVE Walk(mem', root, va).v
        <4>1. va \in AtVa..(req.va + cnt - 1) /\ va # AtVa
          BY <1>4, <1>5
        <4>2. va \in VAS
          <5>1. req.va + cnt <= PTE_NUMS * PTE_NUMS * PTE_NUMS /\ PTE_NUMS * PTE_NUMS * PTE_NUMS \in Nat
            BY <1>1 DEF RangeInv
          <5> QED
            BY <1>4, <1>5, <5>1 DEF VAS
        <4> QED
          BY <1>1, <1>10, <4>1, <4>2 DEF UnmapInv, Valid
      <3> QED
        BY <3>1
    <2>3. req.va..AtVa = req'.va..(AtVa' - 1)
      BY <1>2, <1>4, <1>19
    <2>4. (AtVa + 1)..(req.va + cnt - 1) = AtVa'..(req'.va + cnt' - 1)
      BY <1>2, <1>19
    <2>5. kern' => \A va \in req'.va..(req'.va + cnt' - 1) : va \notin KernelVas'
      BY <1>1, <1>2, <1>14 DEF UnmapInv
    <2>6. /\ cur'[0] \in left'..cnt'
          /\ AtVa' - (cur'[0] - left') >= Addr(idx'[0], 0, 0)
          /\ AtVa' <= Addr(idx'[0], PTE_NUMS, 0)
      <3>1. /\ cur[0] \in left..cnt
            /\ AtVa - (cur[0] - left) >= Addr(idx[0], 0, 0)
        BY <1>1, <1>3 DEF UnmapInv
      <3>2. AtVa' - (cur[0] - left') = AtVa - (cur[0] - left)
        BY <1>3, <1>4, <1>5, <1>19
      <3>3. AtVa' <= Addr(idx[0], PTE_NUMS, 0)
        <4>1. idx[2] + 1 \in 0..PTE_NUMS
          BY <1>3, <1>20
        <4>2. AtVa' = Addr(idx[0], idx[1], idx[2] + 1)
          BY <1>4, <1>19, <1>20 DEF Addr, at
        <4> QED
          BY <1>9, <1>20, <4>1, <4>2, AddrInTable
      <3>4. cur[0] \in left'..cnt
        BY <1>3, <1>5, <3>1
      <3> QED
        BY <1>2, <1>15, <3>1, <3>2, <3>3, <3>4
    <2>7. /\ cur'[1] \in left'..cnt'
          /\ cur'[1] - left' <= idx'[2]
          /\ cur'[1] = cnt' \/ cur'[1] - left' = idx'[2]
      <3>1. /\ cur[1] \in left..cnt
            /\ cur[1] - left <= idx[2]
            /\ cur[1] = cnt \/ cur[1] - left = idx[2]
        BY <1>1, <1>3 DEF UnmapInv
      <3> QED
        BY <1>2, <1>3, <1>5, <1>15, <1>20, <3>1
    <2>8. ASSUME NEW i \in Slots, NEW j \in Slots,
                 req'.va <= Addr(i, j, 0), Addr(i, j, PTE_NUMS) <= AtVa' - idx'[2]
          PROVE  ~Linked(i, j)'
      <3>1. AtVa' - idx'[2] = AtVa - idx[2]
        BY <1>4, <1>15, <1>19, <1>20
      <3>2. ~Linked(i, j)
        BY <1>1, <1>2, <1>3, <2>8, <3>1 DEF UnmapInv
      <3> QED
        BY <1>2, <1>9, <3>2, LinkedSame
    <2>9. /\ \A va \in req'.va..(AtVa' - 1) : ~Valid(va)'
          /\ \A va \in AtVa'..(req'.va + cnt' - 1) : Valid(va)'
      BY <1>2, <2>1, <2>2, <2>3, <2>4 DEF Valid
    <2>10. lvl' = 2
      BY <1>2, <1>3
    <2> QED
      BY <2>5, <2>6, <2>7, <2>8, <2>9, <2>10 DEF UnmapInv
  <1>23. \A va \in VAS : va \notin req.va..(req.va + cnt - 1) => Walk(mem', root, va) = Walk(mem, root, va)
    BY <1>10, <1>11
  <1>24. UndoInv' /\ ReqInv'
    <2>1. \A va \in VAS : va >= req.va + cnt => va \notin req.va..(req.va + cnt - 1)
      BY <1>5 DEF VAS
    <2> QED
      BY <1>1, <1>2, <1>23, <2>1, UndoKept
  <1> QED
    BY <1>2, <1>9, <1>14, <1>17, <1>18, <1>21, <1>22, <1>23, <1>24, IInvUnmap

(* An unmap finds an entry wherever it comes to.                           *)
LEMMA UnmapEntry ==
    ASSUME IInv, pc \in {"unmap", "undo"}, UnmapEnter
    PROVE  Pte.v
  <1>1. /\ TypeOK /\ TreeInv /\ PathInv /\ RangeInv /\ UnmapInv /\ pc \in Calls
        /\ lvl < 2 /\ idx[lvl] < PTE_NUMS /\ left > 0
    BY DEF IInv, Calls, UnmapEnter
  <1>2. lvl = 0 \/ lvl = 1
    BY <1>1 DEF TypeOK
  <1>3. AtVa \in VAS /\ AtVa \in Nat /\ AtVa < req.va + cnt
    BY <1>1, AtInVas
  <1>4. Valid(AtVa)
    <2>1. AtVa \in AtVa..(req.va + cnt - 1)
      BY <1>1, <1>3 DEF TypeOK
    <2> QED
      BY <1>1, <2>1 DEF UnmapInv
  <1>5. CASE lvl = 0
    BY <1>1, <1>3, <1>4, <1>5, RangeAtRoot, ValidPath DEF Pte, PathInv
  <1>6. CASE lvl = 1
    <2>1. tab[1] = mem[root][idx[0]].ppn
      BY <1>1, <1>6 DEF PathInv
    <2>2. idx[0] = SV39_Index2Id(AtVa, 0) /\ idx[1] = SV39_Index2Id(AtVa, 1)
      BY <1>1, <1>6, RangeBelow
    <2> QED
      BY <1>3, <1>4, <1>6, <2>1, <2>2, ValidPath DEF Pte
  <1> QED
    BY <1>2, <1>5, <1>6

LEMMA UnmapEnterInv ==
    ASSUME IInv, pc \in {"unmap", "undo"}, UnmapEnter, UNCHANGED <<fixed, req, ret, cnt>>
    PROVE  IInv' /\ pc' = pc /\ \A va \in VAS : Walk(mem', root, va) = Walk(mem, root, va)
  <1> USE DEF UnmapEnter
  <1>1. /\ TypeOK /\ TreeInv /\ PathInv /\ KernelMapStays /\ RangeInv
        /\ UnmapInv /\ UndoInv /\ ReqInv /\ pc \in Calls
    BY DEF IInv, Calls
  <1>2. lvl < 2 /\ idx[lvl] < PTE_NUMS /\ left > 0 /\ (lvl = 0 \/ lvl = 1)
    BY <1>1 DEF TypeOK
  <1>3. AtVa \in VAS /\ AtVa \in Nat /\ req.va <= AtVa /\ AtVa < req.va + cnt
    BY <1>1, <1>2, AtInVas
  <1>4. req.va \in Nat /\ cnt \in Nat /\ left \in 0..cnt /\ cur[0] \in Nat /\ cur[1] \in Nat
        /\ idx[0] \in Nat /\ idx[1] \in Nat
    BY <1>1 DEF TypeOK
  <1>6. Pte.v
    BY UnmapEntry
  <1>7. PTE_NEXTPGT(Pte) /\ Pte.ppn \in frames
    BY <1>1, <1>2, <1>6, PteIsTable
  <1>8. UNCHANGED <<lay, root, pa_st_free, fresh, kern, frames, pc, call, ret, cnt, left, mem, avail, panic, req>>
    BY <1>7 DEF fixed
  <1>9. Enter(Pte.ppn, SV39_Index2Id(AtVa, lvl + 1))
    BY <1>7
  <1>10. RangeInv' /\ AtVa' = AtVa /\ SV39_Index2Id(AtVa, lvl + 1) \in 0..PTE_NUMS
    BY <1>1, <1>2, <1>7, <1>8, <1>9, EnterRange
  <1>11. mem'[tab[lvl]][idx[lvl]].v /\ mem'[tab[lvl]][idx[lvl]].ppn = Pte.ppn
    BY <1>6, <1>8 DEF Pte
  <1>12. PathInv'
    BY <1>1, <1>2, <1>7, <1>8, <1>9, <1>10, <1>11, EnterPath
  <1>13. /\ lvl' = lvl + 1 /\ lvl' \in 0..2
         /\ tab' \in [0..2 -> frames'] /\ idx' \in [0..2 -> 0..PTE_NUMS] /\ cur' \in [0..2 -> Nat]
         /\ idx'[lvl + 1] = SV39_Index2Id(AtVa, lvl + 1) /\ cur'[lvl] = left
         /\ \A k \in 0..2 : k # lvl + 1 => tab'[k] = tab[k] /\ idx'[k] = idx[k]
         /\ \A k \in 0..2 : k # lvl => cur'[k] = cur[k]
    BY <1>1, <1>2, <1>7, <1>8, <1>9, <1>10, EnterFacts
  <1>14. TypeOK' /\ TreeInv'
    BY <1>1, <1>8, <1>13 DEF TypeOK, TreeInv
  <1>15. KernelMapStays' /\ KernelVas' = KernelVas
    <2>1. pc # "early" /\ pc' # "early"
      BY <1>8
    <2> QED
      BY <1>1, <1>8, <2>1, KernelKept
  <1>16. \A va \in VAS : Walk(mem', root, va) = Walk(mem, root, va)
    BY <1>8
  <1>17. UnmapInv'
    <2>1. /\ \A va \in req'.va..(AtVa' - 1) : ~Valid(va)'
          /\ \A va \in AtVa'..(req'.va + cnt' - 1) : Valid(va)'
          /\ kern' => \A va \in req'.va..(req'.va + cnt' - 1) : va \notin KernelVas'
      BY <1>1, <1>8, <1>10, <1>15 DEF UnmapInv, Valid
    <2>2. left = cnt \/ AtVa % PTE_NUMS = 0
      BY <1>1, <1>2 DEF UnmapInv
    <2>3. ASSUME NEW i \in Slots, NEW j \in Slots, req.va <= Addr(i, j, 0), Addr(i, j, PTE_NUMS) <= AtVa
          PROVE  ~Linked(i, j)'
      <3>1. ~Linked(i, j)
        BY <1>1, <1>2, <2>3 DEF UnmapInv
      <3> QED
        BY <1>8, <3>1 DEF Linked
    <2>4. CASE lvl = 0
      <3>1. lvl' = 1 /\ idx'[0] = idx[0] /\ cur'[0] = left
        BY <1>13, <2>4
      <3>2. idx[0] \in Slots /\ AtVa = Addr(idx[0], SV39_Index2Id(AtVa, 1), SV39_Index2Id(AtVa, 2))
            /\ SV39_Index2Id(AtVa, 1) \in Slots /\ SV39_Index2Id(AtVa, 2) \in Slots
        BY <1>1, <1>2, <1>3, <2>4, RangeAtRoot, AddrOfIndices
      <3>3. Addr(idx[0], 0, 0) <= AtVa /\ AtVa <= Addr(idx[0], PTE_NUMS, 0)
        <4> DEFINE j == SV39_Index2Id(AtVa, 1)
                   k == SV39_Index2Id(AtVa, 2)
        <4>1. j \in Slots /\ k \in 0..PTE_NUMS /\ k \in Nat /\ j \in Nat /\ AtVa = Addr(idx[0], j, k)
          BY <3>2 DEF Slots
        <4> HIDE DEF j, k
        <4>2. Addr(idx[0], 0, 0) <= Addr(idx[0], j, 0) /\ Addr(idx[0], j, k) <= Addr(idx[0], PTE_NUMS, 0)
          BY <1>4, <4>1, AddrInTable
        <4>3. Addr(idx[0], j, k) = Addr(idx[0], j, 0) + k /\ Addr(idx[0], j, 0) \in Nat /\ Addr(idx[0], 0, 0) \in Nat
          <5>1. idx[0] \in Nat /\ j \in Nat /\ k \in Nat
            BY <1>4, <4>1
          <5> QED
            BY <5>1, AddrSums
        <4> QED
          BY <4>1, <4>2, <4>3
      <3>4. cur'[0] \in left'..cnt' /\ AtVa' - (cur'[0] - left') = AtVa
        BY <1>3, <1>4, <1>8, <1>10, <3>1
      <3>5. /\ AtVa' - (cur'[0] - left') >= Addr(idx'[0], 0, 0)
            /\ AtVa' <= Addr(idx'[0], PTE_NUMS, 0)
        <4>1. Addr(idx[0], 0, 0) \in Nat
          BY <1>4, AddrSums
        <4> QED
          BY <1>3, <1>10, <3>1, <3>3, <3>4, <4>1
      <3>6. left' = cnt' \/ AtVa' % PTE_NUMS = 0
        BY <1>8, <1>10, <2>2
      <3>7. \A i, j \in Slots : req'.va <= Addr(i, j, 0) /\ Addr(i, j, PTE_NUMS) <= AtVa' => ~Linked(i, j)'
        BY <1>8, <1>10, <2>3
      <3> QED
        BY <2>1, <3>1, <3>4, <3>5, <3>6, <3>7 DEF UnmapInv
    <2>5. CASE lvl = 1
      <3>1. lvl' = 2 /\ idx'[0] = idx[0] /\ cur'[0] = cur[0] /\ cur'[1] = left /\ idx'[2] = SV39_Index2Id(AtVa, 2)
        BY <1>13, <2>5
      <3>2. idx'[2] = AtVa % PTE_NUMS /\ idx'[2] \in Slots /\ idx'[2] \in Nat
        BY <1>3, <3>1, AddrOfIndices DEF Slots
      <3>3. /\ cur'[0] \in left'..cnt'
            /\ AtVa' - (cur'[0] - left') >= Addr(idx'[0], 0, 0)
            /\ AtVa' <= Addr(idx'[0], PTE_NUMS, 0)
        BY <1>1, <1>8, <1>10, <2>5, <3>1 DEF UnmapInv
      <3>4. /\ cur'[1] \in left'..cnt'
            /\ cur'[1] - left' <= idx'[2]
            /\ cur'[1] = cnt' \/ cur'[1] - left' = idx'[2]
        BY <1>4, <1>8, <2>2, <3>1, <3>2
      <3>5. \A i, j \in Slots : req'.va <= Addr(i, j, 0) /\ Addr(i, j, PTE_NUMS) <= AtVa' - idx'[2] => ~Linked(i, j)'
        <4>1. ASSUME NEW i \in Slots, NEW j \in Slots, Addr(i, j, PTE_NUMS) <= AtVa' - idx'[2]
              PROVE  Addr(i, j, PTE_NUMS) <= AtVa
          <5>1. Addr(i, j, PTE_NUMS) \in Int
            BY DEF Addr, Slots
          <5> QED
            BY <1>3, <1>10, <3>2, <4>1, <5>1
        <4> QED
          BY <1>8, <2>3, <4>1
      <3> QED
        BY <2>1, <3>1, <3>3, <3>4, <3>5 DEF UnmapInv
    <2> QED
      BY <1>2, <2>4, <2>5
  <1>18. UndoInv' /\ ReqInv'
    BY <1>1, <1>8, <1>16, UndoKept
  <1> QED
    BY <1>8, <1>10, <1>12, <1>14, <1>15, <1>16, <1>17, <1>18, IInvUnmap

(* A table of the last level goes when its PTE_NUMS pages are unmapped...  *)
LEMMA LeafTableEmpty ==
    ASSUME TypeOK, TreeInv, PathInv, RangeInv, UnmapInv, pc \in {"unmap", "undo"},
           lvl = 2, cur[1] - left = PTE_NUMS
    PROVE  \A k \in Slots : ~mem[tab[2]][k].v
  <1>1. pc \in Calls
    BY DEF Calls
  <1>2. AtVa = Addr(idx[0], idx[1], idx[2])
    BY <1>1 DEF RangeInv
  <1>3. req.va \in Nat /\ cnt \in Nat /\ left \in 0..cnt /\ cur[1] \in Nat /\ idx[2] \in 0..PTE_NUMS
    BY DEF TypeOK
  <1>4. idx[0] \in Slots /\ idx[1] \in Slots
    BY DEF TypeOK, PathInv, Slots
  <1>5. cur[1] \in left..cnt /\ cur[1] - left <= idx[2]
    BY DEF UnmapInv
  <1>6. idx[2] = PTE_NUMS
    BY <1>3, <1>5
  <1>7. idx[0] \in Nat /\ idx[1] \in Nat
    BY <1>4 DEF Slots
  <1>8. AtVa = Addr(idx[0], idx[1], 0) + PTE_NUMS /\ Addr(idx[0], idx[1], 0) \in Nat
    BY <1>2, <1>6, <1>7, AddrSums
  <1>9. req.va <= Addr(idx[0], idx[1], 0)
    BY <1>3, <1>5, <1>8 DEF AtVa
  <1>10. ASSUME NEW k \in Slots PROVE ~mem[tab[2]][k].v
    <2>1. k \in Nat /\ k < PTE_NUMS
      BY DEF Slots
    <2>2. Addr(idx[0], idx[1], k) = Addr(idx[0], idx[1], 0) + k
      BY <1>7, <2>1, AddrPlus
    <2>3. Addr(idx[0], idx[1], k) \in req.va..(AtVa - 1)
      BY <1>3, <1>8, <1>9, <2>1, <2>2
    <2>4. ~Walk(mem, root, Addr(idx[0], idx[1], k)).v
      BY <2>3 DEF UnmapInv, Valid
    <2>5. Walk(mem, root, Addr(idx[0], idx[1], k)) = Leaf(mem, root, idx[0], idx[1], k)
      BY <1>4, WalkIsLeaf, IndicesOfAddr
    <2>6. Leaf(mem, root, idx[0], idx[1], k) = mem[tab[2]][k]
      BY DEF Leaf, PathInv
    <2> QED
      BY <2>4, <2>5, <2>6
  <1> QED
    BY <1>10

(* ... and one of the second level when PTE_NUMS * PTE_NUMS are.           *)
LEMMA MidTableEmpty ==
    ASSUME TypeOK, PathInv, RangeInv, UnmapInv, pc \in {"unmap", "undo"},
           lvl = 1, cur[0] - left = PTE_NUMS * PTE_NUMS
    PROVE  \A j \in Slots : ~mem[tab[1]][j].v
  <1>1. req.va \in Nat /\ cnt \in Nat /\ left \in 0..cnt /\ cur[0] \in Nat
    BY DEF TypeOK
  <1>2. idx[0] \in Slots /\ mem[root][idx[0]].v /\ mem[root][idx[0]].ppn = tab[1]
    BY DEF TypeOK, PathInv, Slots
  <1>3. /\ cur[0] \in left..cnt
        /\ AtVa - (cur[0] - left) >= Addr(idx[0], 0, 0)
        /\ AtVa <= Addr(idx[0], PTE_NUMS, 0)
    BY DEF UnmapInv
  <1>4. idx[0] \in Nat
    BY <1>2 DEF Slots
  <1>5. Addr(idx[0], PTE_NUMS, 0) = Addr(idx[0], 0, 0) + PTE_NUMS * PTE_NUMS /\ Addr(idx[0], 0, 0) \in Nat
    BY <1>4, AddrTable
  <1>6. AtVa \in Int /\ PTE_NUMS * PTE_NUMS \in Nat
    BY <1>1 DEF AtVa
  <1>7. AtVa = Addr(idx[0], PTE_NUMS, 0) /\ AtVa - (cur[0] - left) = Addr(idx[0], 0, 0)
    BY <1>3, <1>5, <1>6
  <1>8. req.va <= Addr(idx[0], 0, 0)
    <2>1. AtVa - (cur[0] - left) = req.va + (cnt - cur[0])
      BY <1>1 DEF AtVa
    <2> QED
      BY <1>1, <1>3, <1>5, <1>7, <2>1
  <1>9. ASSUME NEW j \in Slots PROVE ~mem[tab[1]][j].v
    <2>1. Addr(idx[0], 0, 0) <= Addr(idx[0], j, 0) /\ Addr(idx[0], j, PTE_NUMS) <= Addr(idx[0], PTE_NUMS, 0)
      BY <1>4, AddrInTable
    <2>2. Addr(idx[0], j, 0) \in Int
      BY <1>4 DEF Addr, Slots
    <2>3. req.va <= Addr(idx[0], j, 0) /\ Addr(idx[0], j, PTE_NUMS) <= AtVa
      BY <1>1, <1>5, <1>7, <1>8, <2>1, <2>2
    <2>4. ~Linked(idx[0], j)
      BY <1>2, <2>3 DEF UnmapInv
    <2> QED
      BY <1>2, <2>4 DEF Linked
  <1> QED
    BY <1>9

LEMMA UnmapLeaveInv ==
    ASSUME IInv, pc \in {"unmap", "undo"}, UnmapLeave, UNCHANGED <<fixed, req, ret, cnt>>
    PROVE  IInv' /\ pc' = pc /\ \A va \in VAS : Walk(mem', root, va) = Walk(mem, root, va)
  <1> USE DEF UnmapLeave
  <1>1. /\ TypeOK /\ TreeInv /\ PathInv /\ KernelMapStays /\ RangeInv
        /\ UnmapInv /\ UndoInv /\ ReqInv /\ pc \in Calls
    BY DEF IInv, Calls
  <1>2. UNCHANGED <<lay, root, pa_st_free, fresh, kern, frames, pc, call, ret, cnt, left, panic, req>> /\ Leave
    BY DEF fixed
  <1>3. lvl > 0 /\ (lvl = 1 \/ lvl = 2) /\ (idx[lvl] = PTE_NUMS \/ left = 0)
    BY <1>1 DEF TypeOK
  <1> DEFINE full == cur[lvl - 1] - left = SV39_INDEX_PAGES(lvl - 1)
  <1>4. /\ full => GiveBack
        /\ ~full => UNCHANGED <<mem, avail>>
    OBVIOUS
  <1>5. full <=> cur[lvl - 1] - left = IF lvl = 2 THEN PTE_NUMS ELSE PTE_NUMS * PTE_NUMS
    BY <1>3 DEF SV39_INDEX_PAGES
  <1> HIDE DEF full
  <1>6. full => \A k \in Slots : ~mem[tab[lvl]][k].v
    <2>1. CASE lvl = 2
      BY <1>1, <1>5, <2>1, LeafTableEmpty
    <2>2. CASE lvl = 1
      BY <1>1, <1>5, <2>2, MidTableEmpty
    <2> QED
      BY <1>3, <2>1, <2>2
  <1>7. /\ Tables(mem', DOMAIN mem') /\ frames \subseteq DOMAIN mem'
        /\ avail' \subseteq frames
        /\ TreeInv'
        /\ \A va \in VAS : Walk(mem', root, va) = Walk(mem, root, va)
        /\ \A g \in DOMAIN mem, i \in Slots : mem'[g][i] = mem[g][i] \/ mem'[g][i] = ZeroPte
        /\ lvl = 2 => \A i \in Slots : mem'[root][i] = mem[root][i]
        /\ full => mem'[tab[lvl - 1]][idx[lvl - 1]] = ZeroPte
    <2>1. CASE full
      <3>1. GiveBack /\ UNCHANGED <<root, frames>> /\ \A k \in Slots : ~mem[tab[lvl]][k].v
        BY <1>2, <1>4, <1>6, <2>1
      <3> QED
        BY <1>1, <1>3, <3>1, UnlinkTable
    <2>2. CASE ~full
      <3>1. UNCHANGED <<mem, avail>>
        BY <1>4, <2>2
      <3>2. Tables(mem, DOMAIN mem) /\ frames \subseteq DOMAIN mem /\ avail \subseteq frames
        BY <1>1 DEF TypeOK
      <3> QED
        BY <1>1, <1>2, <2>2, <3>1, <3>2 DEF TreeInv
    <2> QED
      BY <2>1, <2>2
  <1>8. RangeInv' /\ AtVa' = AtVa /\ (lvl = 2 /\ left > 0 => AtVa % PTE_NUMS = 0)
    BY <1>1, <1>2, <1>3, LeaveRange
  <1>9. PathInv'
    <2>1. lvl = 2 => mem'[root][idx[0]] = mem[root][idx[0]]
      BY <1>1, <1>7 DEF PathInv, TypeOK, Slots
    <2> QED
      BY <1>1, <1>2, <1>3, <2>1, LeavePath
  <1>10. /\ lvl' = lvl - 1 /\ lvl' \in 0..2
         /\ tab' = tab /\ cur' = cur /\ idx' \in [0..2 -> 0..PTE_NUMS]
         /\ \A k \in 0..2 : k # lvl - 1 => idx'[k] = idx[k]
    BY <1>1, <1>2, <1>3, LeaveFacts
  <1>11. TypeOK'
    BY <1>1, <1>2, <1>7, <1>10 DEF TypeOK
  <1>12. KernelMapStays' /\ KernelVas' = KernelVas
    <2>1. pc # "early" /\ pc' # "early"
      BY <1>2
    <2> QED
      BY <1>1, <1>7, <2>1, KernelKept
  <1>13. req.va \in Nat /\ cnt \in Nat /\ left \in 0..cnt /\ cur[0] \in Nat /\ cur[1] \in Nat
         /\ idx[0] \in Nat /\ idx[1] \in Nat /\ idx[2] \in 0..PTE_NUMS
    BY <1>1 DEF TypeOK
  <1>14. req.va + cnt <= PTE_NUMS * PTE_NUMS * PTE_NUMS /\ PTE_NUMS * PTE_NUMS * PTE_NUMS \in Nat
    BY <1>1 DEF RangeInv
  <1>15. AtVa \in Nat /\ req.va <= AtVa /\ AtVa <= req.va + cnt
    BY <1>13 DEF AtVa
  <1>16. /\ \A va \in req'.va..(AtVa' - 1) : ~Valid(va)'
         /\ \A va \in AtVa'..(req'.va + cnt' - 1) : Valid(va)'
         /\ kern' => \A va \in req'.va..(req'.va + cnt' - 1) : va \notin KernelVas'
    <2>1. req.va..(AtVa - 1) \subseteq VAS /\ AtVa..(req.va + cnt - 1) \subseteq VAS
      BY <1>13, <1>14, <1>15 DEF VAS
    <2> QED
      BY <1>1, <1>2, <1>7, <1>8, <1>12, <2>1 DEF UnmapInv, Valid
  <1>17. CASE lvl = 1
    <2>1. lvl' = 0 /\ (left > 0 => left = cnt \/ AtVa % PTE_NUMS = 0)
      BY <1>1, <1>10, <1>17 DEF UnmapInv
    <2>2. ASSUME NEW i \in Slots, NEW j \in Slots, req'.va <= Addr(i, j, 0), Addr(i, j, PTE_NUMS) <= AtVa'
          PROVE  ~Linked(i, j)'
      <3>1. ~Linked(i, j)
        BY <1>1, <1>2, <1>8, <1>17, <2>2 DEF UnmapInv
      <3> QED
        BY <1>1, <1>2, <1>7, <3>1, LinkedLess
    <2>3. UnmapInv'
      BY <1>2, <1>8, <1>16, <2>1, <2>2 DEF UnmapInv
    <2> QED
      BY <1>1, <1>2, <1>7, <1>8, <1>9, <1>11, <1>12, <2>3, UndoKept, IInvUnmap
  <1>18. CASE lvl = 2
    <2>1. lvl' = 1 /\ idx'[0] = idx[0] /\ cur' = cur
      BY <1>10, <1>18
    <2>2. /\ cur'[0] \in left'..cnt'
          /\ AtVa' - (cur'[0] - left') >= Addr(idx'[0], 0, 0)
          /\ AtVa' <= Addr(idx'[0], PTE_NUMS, 0)
      BY <1>1, <1>2, <1>8, <1>18, <2>1 DEF UnmapInv
    <2>3. /\ cur[1] \in left..cnt
          /\ cur[1] - left <= idx[2]
          /\ cur[1] = cnt \/ cur[1] - left = idx[2]
      BY <1>1, <1>18 DEF UnmapInv
    <2>4. idx[0] \in Slots /\ idx[1] \in Slots /\ tab[1] = mem[root][idx[0]].ppn
      BY <1>1, <1>18 DEF TypeOK, PathInv, Slots
    <2>5. AtVa = Addr(idx[0], idx[1], idx[2])
      BY <1>1, <1>18 DEF RangeInv
    <2>6. ASSUME NEW i \in Slots, NEW j \in Slots, req'.va <= Addr(i, j, 0), Addr(i, j, PTE_NUMS) <= AtVa'
          PROVE  ~Linked(i, j)'
      <3>1. CASE Addr(i, j, PTE_NUMS) <= AtVa - idx[2]
        <4>1. ~Linked(i, j)
          BY <1>1, <1>2, <1>18, <2>6, <3>1 DEF UnmapInv
        <4> QED
          BY <1>1, <1>2, <1>7, <4>1, LinkedLess
      <3>2. CASE ~(Addr(i, j, PTE_NUMS) <= AtVa - idx[2])
        <4>1. Addr(idx[0], idx[1], idx[2]) = Addr(idx[0], idx[1], 0) + idx[2] /\ Addr(idx[0], idx[1], 0) \in Nat
          <5>1. idx[2] \in Nat
            BY <1>13
          <5> QED
            BY <1>13, <5>1, AddrPlus
        <4>2. Addr(i, j, PTE_NUMS) \in Int
          BY DEF Addr, Slots
        <4>3. Addr(idx[0], idx[1], 0) < Addr(i, j, PTE_NUMS)
          BY <1>13, <2>5, <3>2, <4>1, <4>2
        <4>4. Addr(i, j, PTE_NUMS) <= Addr(idx[0], idx[1], idx[2])
          BY <1>8, <2>5, <2>6
        <4>5. i = idx[0] /\ j = idx[1] /\ idx[2] = PTE_NUMS
          BY <1>13, <2>4, <4>3, <4>4, AddrBlock
        <4>6. full
          <5>1. req.va <= Addr(idx[0], idx[1], 0) /\ AtVa = Addr(idx[0], idx[1], 0) + PTE_NUMS
            BY <1>2, <2>5, <2>6, <4>1, <4>5
          <5>2. cur[1] - left = PTE_NUMS
            BY <1>13, <2>3, <4>1, <4>5, <5>1 DEF AtVa
          <5> QED
            BY <1>5, <1>18, <5>2
        <4>7. mem'[tab[1]][j] = ZeroPte
          BY <1>7, <1>18, <4>5, <4>6
        <4>8. mem'[root][i] = mem[root][i]
          BY <1>7, <1>18
        <4> QED
          BY <1>2, <2>4, <4>5, <4>7, <4>8, ZeroPteIsPte DEF Linked
      <3> QED
        BY <3>1, <3>2
    <2>7. left' > 0 => AtVa' % PTE_NUMS = 0
      BY <1>2, <1>8, <1>18
    <2>8. UnmapInv'
      BY <1>16, <2>1, <2>2, <2>6, <2>7 DEF UnmapInv
    <2> QED
      BY <1>1, <1>2, <1>7, <1>8, <1>9, <1>11, <1>12, <2>8, UndoKept, IInvUnmap
  <1> QED
    BY <1>3, <1>17, <1>18

(* The whole range has been walked when riscv_unmap returns.               *)
LEMMA UnmapEndInv ==
    ASSUME IInv, pc \in {"unmap", "undo"}, UnmapEnd, UNCHANGED <<fixed, req, ret, cnt>>
    PROVE  IInv' /\ left = 0 /\ UNCHANGED <<mem, root, kern>> /\ AtVa = req.va + cnt
  <1>1. TypeOK /\ TreeInv /\ PathInv /\ KernelMapStays /\ RangeInv /\ pc \in Calls
    BY DEF IInv, Calls
  <1>2. UNCHANGED <<lay, root, pa_st_free, fresh, kern, frames, mem, avail, lvl, tab, idx, cur, left, cnt, req>>
        /\ pc' = "idle"
    BY DEF fixed, UnmapEnd, walk, Return
  <1>3. left = 0
    <2>1. ASSUME left > 0 PROVE FALSE
      <3>1. idx[0] = PTE_NUMS /\ lvl = 0
        BY <2>1 DEF UnmapEnd
      <3> QED
        BY <1>1, <2>1, <3>1, RangeAtRoot DEF Slots
    <2> QED
      BY <1>1, <2>1 DEF TypeOK
  <1>4. panic' = FALSE
    BY <1>3 DEF UnmapEnd
  <1>5. TypeOK' /\ TreeInv' /\ PathInv'
    BY <1>1, <1>2, <1>4 DEF TypeOK, TreeInv, PathInv
  <1>6. KernelMapStays'
    <2>1. pc # "early" /\ pc' # "early" /\ UNCHANGED fixed
      BY <1>1, <1>2 DEF Calls
    <2> QED
      BY <1>1, <1>2, <2>1, KernelKept
  <1>7. AtVa = req.va + cnt
    BY <1>1, <1>3 DEF AtVa, TypeOK
  <1> QED
    BY <1>2, <1>3, <1>5, <1>6, <1>7, IInvIdle

-----------------------------------------------------------------------------
(* setup_earlyvm.                                                          *)

LEMMA BoundSteps ==
    ASSUME NEW va \in Nat, va >= KERNEL_OFFSET, KERNEL_OFFSET \in Nat
    PROVE  /\ EarlyBound(va, 0) <= EarlyBound(va, 1)
           /\ EarlyBound(va, 1) <= EarlyBound(va, 2)
           /\ EarlyBound(va, 2) <= EarlyBound(va + 1, 0)
           /\ \A l \in 0..2 : EarlyBound(va, l) \in Int
           /\ \/ va = KERNEL_OFFSET
              \/ (va - 1) \div (PTE_NUMS * PTE_NUMS) # va \div (PTE_NUMS * PTE_NUMS)
              => EarlyBound(va, 0) + 1 <= EarlyBound(va, 1)
           /\ \/ va = KERNEL_OFFSET
              \/ (va - 1) \div PTE_NUMS # va \div PTE_NUMS
              => EarlyBound(va, 1) + 1 <= EarlyBound(va, 2)
  <1> DEFINE A(x) == x \div (PTE_NUMS * PTE_NUMS)
             B(x) == x \div PTE_NUMS
  <1>1. ASSUME NEW x \in Nat PROVE A(x) \in Nat /\ B(x) \in Nat
    <2>1. PTE_NUMS * PTE_NUMS \in Nat /\ PTE_NUMS * PTE_NUMS > 0
      OBVIOUS
    <2> QED
      BY <2>1, DivideBy
  <1>2. A(KERNEL_OFFSET) \in Nat /\ B(KERNEL_OFFSET) \in Nat /\ A(va) \in Nat /\ B(va) \in Nat
    BY <1>1
  <1>3. ASSUME va # KERNEL_OFFSET
        PROVE  /\ A(va - 1) \in Nat /\ B(va - 1) \in Nat
               /\ A(va - 1) <= A(va) /\ B(va - 1) <= B(va)
    <2>1. va - 1 \in Nat /\ va - 1 <= va
      BY <1>3
    <2> QED
      BY <1>1, <2>1, DivideMonotone
  <1>4. ASSUME NEW l \in 0..2
        PROVE  EarlyBound(va, l) =
                 IF va = KERNEL_OFFSET THEN 1 + l
                 ELSE 1 + ((IF l > 0 THEN A(va) ELSE A(va - 1)) - A(KERNEL_OFFSET) + 1)
                        + ((IF l > 1 THEN B(va) ELSE B(va - 1)) - B(KERNEL_OFFSET) + 1)
    BY DEF EarlyBound
  <1>5. EarlyBound(va + 1, 0) = 1 + (A(va) - A(KERNEL_OFFSET) + 1) + (B(va) - B(KERNEL_OFFSET) + 1)
    <2>1. va + 1 # KERNEL_OFFSET /\ (va + 1) - 1 = va /\ ~(0 > 0) /\ ~(0 > 1)
      OBVIOUS
    <2> QED
      BY <2>1 DEF EarlyBound
  <1> HIDE DEF A, B
  <1>6. CASE va = KERNEL_OFFSET
    BY <1>2, <1>4, <1>5, <1>6
  <1>7. CASE va # KERNEL_OFFSET
    <2>1. /\ EarlyBound(va, 0) = 1 + (A(va - 1) - A(KERNEL_OFFSET) + 1) + (B(va - 1) - B(KERNEL_OFFSET) + 1)
          /\ EarlyBound(va, 1) = 1 + (A(va) - A(KERNEL_OFFSET) + 1) + (B(va - 1) - B(KERNEL_OFFSET) + 1)
          /\ EarlyBound(va, 2) = 1 + (A(va) - A(KERNEL_OFFSET) + 1) + (B(va) - B(KERNEL_OFFSET) + 1)
      BY <1>4, <1>7
    <2>2. /\ EarlyBound(va, 0) <= EarlyBound(va, 1)
          /\ EarlyBound(va, 1) <= EarlyBound(va, 2)
          /\ EarlyBound(va, 2) <= EarlyBound(va + 1, 0)
          /\ \A l \in 0..2 : EarlyBound(va, l) \in Int
      BY <1>2, <1>3, <1>5, <1>7, <2>1
    <2>3. A(va - 1) # A(va) => EarlyBound(va, 0) + 1 <= EarlyBound(va, 1)
      BY <1>2, <1>3, <1>7, <2>1
    <2>4. B(va - 1) # B(va) => EarlyBound(va, 1) + 1 <= EarlyBound(va, 2)
      BY <1>2, <1>3, <1>7, <2>1
    <2> QED
      BY <1>7, <2>2, <2>3, <2>4 DEF A, B
  <1> QED
    BY <1>6, <1>7

(* The tables fit into the memory behind the kernel.                       *)
LEMMA BoundMax ==
    ASSUME NEW va \in Nat, NEW end \in Nat, KERNEL_OFFSET \in Nat, va >= KERNEL_OFFSET, va <= end,
           NEW l \in 0..2
    PROVE  EarlyBound(va, l) <= EarlyTables(KERNEL_OFFSET, end) /\ EarlyBound(va, l) \in Int
           /\ EarlyTables(KERNEL_OFFSET, end) \in Int
  <1> DEFINE A(x) == x \div (PTE_NUMS * PTE_NUMS)
             B(x) == x \div PTE_NUMS
  <1>1. ASSUME NEW x \in Nat PROVE A(x) \in Nat /\ B(x) \in Nat
    <2>1. PTE_NUMS * PTE_NUMS \in Nat /\ PTE_NUMS * PTE_NUMS > 0
      OBVIOUS
    <2> QED
      BY <2>1, DivideBy
  <1>2. /\ A(KERNEL_OFFSET) \in Nat /\ B(KERNEL_OFFSET) \in Nat /\ A(va) \in Nat /\ B(va) \in Nat
        /\ A(end) \in Nat /\ B(end) \in Nat
    BY <1>1
  <1>3. A(va) <= A(end) /\ B(va) <= B(end)
    BY DivideMonotone
  <1>4. A(KERNEL_OFFSET) <= A(va) /\ B(KERNEL_OFFSET) <= B(va)
    BY DivideMonotone
  <1>5. EarlyBound(va, 2) <= EarlyTables(KERNEL_OFFSET, end)
    <2>1. EarlyBound(va, 2) = IF va = KERNEL_OFFSET THEN 3
            ELSE 1 + (A(va) - A(KERNEL_OFFSET) + 1) + (B(va) - B(KERNEL_OFFSET) + 1)
      BY DEF EarlyBound
    <2>2. EarlyTables(KERNEL_OFFSET, end) = 1 + (A(end) - A(KERNEL_OFFSET) + 1) + (B(end) - B(KERNEL_OFFSET) + 1)
      BY DEF EarlyTables
    <2> HIDE DEF A, B
    <2> QED
      BY <1>2, <1>3, <1>4, <2>1, <2>2
  <1>6. EarlyTables(KERNEL_OFFSET, end) \in Int
    BY <1>2 DEF EarlyTables
  <1>7. EarlyBound(va, l) <= EarlyBound(va, 2) /\ EarlyBound(va, l) \in Int /\ EarlyBound(va, 2) \in Int
    <2>1. l = 0 \/ l = 1 \/ l = 2
      OBVIOUS
    <2>2. /\ EarlyBound(va, 0) <= EarlyBound(va, 1)
          /\ EarlyBound(va, 1) <= EarlyBound(va, 2)
          /\ EarlyBound(va, 0) \in Int /\ EarlyBound(va, 1) \in Int /\ EarlyBound(va, 2) \in Int
      BY BoundSteps
    <2> QED
      BY <2>1, <2>2
  <1> QED
    BY <1>5, <1>6, <1>7

LEMMA IInvEarly ==
    ASSUME (TypeOK /\ TreeInv /\ PathInv /\ KernelMapStays /\ EarlyInv)', pc' = "early"
    PROVE  IInv'
  BY DEF IInv, RangeInv, MapInv, UnmapInv, UndoInv, FreeInv, ReqInv, Calls

(* Where setup_earlyvm is.                                                 *)
LEMMA EarlyAt ==
    ASSUME IInv, pc = "early"
    PROVE  /\ KERNEL_OFFSET \in Nat /\ lay.start \in Nat /\ lay.top \in Nat /\ lay.end \in Nat
           /\ AtVa \in VAS /\ AtVa \in Nat /\ KERNEL_OFFSET <= AtVa
           /\ AtVa <= KERNEL_OFFSET + (lay.top - lay.start) - 1
           /\ KernelVas = KERNEL_OFFSET..(AtVa - 1)
           /\ KernelVas \subseteq VAS
           /\ AtVa \notin KernelVas
           /\ ~Valid(AtVa)
           /\ AtVa = KERNEL_OFFSET + (cnt - left)
           /\ AtPa = lay.start + (AtVa - KERNEL_OFFSET)
           /\ idx[lvl] \in Slots /\ idx[lvl] < PTE_NUMS
           /\ KERNEL_OFFSET + (lay.top - lay.start) - 1 \in Nat
           /\ EarlyTables(KERNEL_OFFSET, KERNEL_OFFSET + (lay.top - lay.start) - 1) <= lay.top - lay.end
  <1>1. TypeOK /\ EarlyInv
    BY DEF IInv
  <1>2. lay \in LAYOUTS /\ cnt \in Nat /\ left \in 0..cnt /\ lvl \in 0..2
    BY <1>1 DEF TypeOK
  <1>3. /\ KERNEL_OFFSET \in Nat /\ lay.start \in Nat /\ lay.top \in Nat /\ lay.end \in Nat
        /\ KERNEL_OFFSET + (lay.top - lay.start) - 1 \in VAS
        /\ EarlyTables(KERNEL_OFFSET, KERNEL_OFFSET + (lay.top - lay.start) - 1) <= lay.top - lay.end
    BY <1>2, LayoutAssumption
  <1>4. left > 0 /\ req.va = KERNEL_OFFSET /\ req.pa = lay.start /\ cnt = lay.top - lay.start
    BY <1>1 DEF EarlyInv
  <1>5. /\ AtVa = KERNEL_OFFSET + (cnt - left)
        /\ AtPa = lay.start + (AtVa - KERNEL_OFFSET)
    BY <1>2, <1>3, <1>4 DEF AtVa, AtPa
  <1>6. /\ AtVa \in Nat /\ KERNEL_OFFSET <= AtVa
        /\ AtVa <= KERNEL_OFFSET + (lay.top - lay.start) - 1
    BY <1>2, <1>3, <1>4, <1>5
  <1>7. AtVa \in VAS /\ KERNEL_OFFSET + (lay.top - lay.start) - 1 \in Nat
    BY <1>3, <1>6 DEF VAS
  <1>8. KernelVas = KERNEL_OFFSET..(AtVa - 1)
    BY DEF KernelVas
  <1>9. KernelVas \subseteq VAS /\ AtVa \notin KernelVas
    BY <1>3, <1>6, <1>7, <1>8 DEF VAS
  <1>10. idx[lvl] \in Slots
    <2>1. lvl = 0 \/ lvl = 1 \/ lvl = 2
      BY <1>2
    <2>2. SV39_Index2Id(AtVa, 0) \in Slots /\ SV39_Index2Id(AtVa, 1) \in Slots /\ SV39_Index2Id(AtVa, 2) \in Slots
      BY <1>7, AddrOfIndices
    <2> QED
      BY <1>1, <2>1, <2>2 DEF EarlyInv
  <1>11. idx[lvl] < PTE_NUMS
    BY <1>10 DEF Slots
  <1>12. ~Valid(AtVa)
    BY <1>1, <1>7, <1>9 DEF EarlyInv
  <1> QED
    BY <1>3, <1>5, <1>6, <1>7, <1>8, <1>9, <1>10, <1>11, <1>12

(* A step that keeps the place and the translations.                       *)
LEMMA EarlyKept ==
    ASSUME IInv, pc = "early", AtVa' = AtVa, UNCHANGED <<pc, lay, root, kern>>,
           \A va \in VAS : Walk(mem', root, va) = Walk(mem, root, va)
    PROVE  KernelMapStays' /\ (\A va \in VAS : va \notin KernelVas => ~Valid(va))'
  <1>1. KernelVas' = KernelVas
    BY DEF KernelVas
  <1>2. KernelVas \subseteq VAS
    BY EarlyAt
  <1>3. KernelMapStays /\ \A va \in VAS : va \notin KernelVas => ~Valid(va)
    BY DEF IInv, EarlyInv
  <1> HIDE DEF KernelVas
  <1>4. ASSUME kern, NEW va \in KernelVas
        PROVE  Walk(mem', root', va) =
                 SV39_Pa2PTE(va - KERNEL_OFFSET + lay.start,
                   IF va - KERNEL_OFFSET + lay.start < lay.line THEN TEXT ELSE DATA)
    BY <1>2, <1>3, <1>4 DEF KernelMapStays
  <1>5. KernelMapStays'
    BY <1>1, <1>4 DEF KernelMapStays
  <1> QED
    BY <1>1, <1>3, <1>5 DEF Valid

LEMMA EarlyEnterInv ==
    ASSUME IInv, pc = "early", EarlyEnter, UNCHANGED <<lay, root, req, cnt, kern, frames>>
    PROVE  IInv' /\ pc' = "early"
  <1> USE DEF EarlyEnter
  <1>1. TypeOK /\ TreeInv /\ PathInv /\ KernelMapStays /\ EarlyInv
    BY DEF IInv
  <1>2. /\ AtVa \in VAS /\ AtVa \in Nat /\ KERNEL_OFFSET \in Nat /\ KERNEL_OFFSET <= AtVa
        /\ idx[lvl] < PTE_NUMS
    BY EarlyAt
  <1>3. lvl < 2 /\ Pte.v /\ (lvl = 0 \/ lvl = 1)
    BY <1>1 DEF TypeOK
  <1>4. PTE_NEXTPGT(Pte) /\ Pte.ppn \in frames
    BY <1>1, <1>2, <1>3, PteIsTable
  <1>5. Enter(Pte.ppn, SV39_Index2Id(AtVa, lvl + 1)) /\ fresh' = FALSE
        /\ UNCHANGED <<pc, left, panic, mem, avail, pa_st_free>>
    BY <1>4
  <1>6. SV39_Index2Id(AtVa, lvl + 1) \in 0..PTE_NUMS
    BY <1>2, <1>3, AddrOfIndices DEF Slots
  <1>7. mem'[tab[lvl]][idx[lvl]].v /\ mem'[tab[lvl]][idx[lvl]].ppn = Pte.ppn
    BY <1>3, <1>5 DEF Pte
  <1>8. PathInv'
    BY <1>1, <1>2, <1>3, <1>4, <1>5, <1>6, <1>7, EnterPath
  <1>9. /\ lvl' = lvl + 1 /\ lvl' \in 0..2
        /\ tab' \in [0..2 -> frames'] /\ idx' \in [0..2 -> 0..PTE_NUMS] /\ cur' \in [0..2 -> Nat]
        /\ idx'[lvl + 1] = SV39_Index2Id(AtVa, lvl + 1)
        /\ \A k \in 0..2 : k # lvl + 1 => idx'[k] = idx[k]
    BY <1>1, <1>3, <1>4, <1>5, <1>6, EnterFacts
  <1>10. TypeOK' /\ TreeInv'
    BY <1>1, <1>5, <1>9 DEF TypeOK, TreeInv
  <1>11. AtVa' = AtVa
    BY <1>5 DEF AtVa
  <1>12. KernelMapStays' /\ (\A va \in VAS : va \notin KernelVas => ~Valid(va))'
    BY <1>5, <1>11, EarlyKept
  <1>13. pa_st_free' - lay'.end <= EarlyBound(AtVa', lvl')
    <2>1. pa_st_free - lay.end <= EarlyBound(AtVa, lvl) /\ pa_st_free \in Nat /\ lay.end \in Nat
      BY <1>1, EarlyAt DEF EarlyInv, TypeOK
    <2>2. EarlyBound(AtVa, lvl) <= EarlyBound(AtVa, lvl + 1)
          /\ EarlyBound(AtVa, lvl) \in Int /\ EarlyBound(AtVa, lvl + 1) \in Int
      <3>1. /\ EarlyBound(AtVa, 0) <= EarlyBound(AtVa, 1)
            /\ EarlyBound(AtVa, 1) <= EarlyBound(AtVa, 2)
            /\ \A l \in 0..2 : EarlyBound(AtVa, l) \in Int
        BY <1>2, BoundSteps
      <3> QED
        BY <1>3, <3>1
    <2> QED
      BY <1>5, <1>9, <1>11, <2>1, <2>2
  <1>14. EarlyInv'
    <2>1. idx'[0] = SV39_Index2Id(AtVa, 0) /\ (lvl' > 0 => idx'[1] = SV39_Index2Id(AtVa, 1))
          /\ (lvl' > 1 => idx'[2] = SV39_Index2Id(AtVa, 2))
      BY <1>1, <1>3, <1>9 DEF EarlyInv
    <2>2. /\ kern' /\ left' > 0 /\ req'.va = KERNEL_OFFSET /\ req'.pa = lay'.start
          /\ cnt' = lay'.top - lay'.start
          /\ avail' = pa_st_free'..(lay'.top - 1)
          /\ \A p \in avail' : mem'[p] = ZeroTable
      BY <1>1, <1>5 DEF EarlyInv
    <2> QED
      BY <1>11, <1>12, <1>13, <2>1, <2>2 DEF EarlyInv
  <1> QED
    BY <1>5, <1>8, <1>10, <1>12, <1>14, IInvEarly

(* A new table means a part of the address space that the page before did  *)
(* not lie in.                                                             *)
LEMMA EarlyNewTable ==
    ASSUME IInv, pc = "early", lvl < 2, ~Pte.v
    PROVE  /\ EarlyBound(AtVa, lvl) + 1 <= EarlyBound(AtVa, lvl + 1)
           /\ EarlyBound(AtVa, lvl) \in Int /\ EarlyBound(AtVa, lvl + 1) \in Int
  <1>1. TypeOK /\ TreeInv /\ PathInv /\ KernelMapStays /\ EarlyInv
    BY DEF IInv
  <1>2. /\ AtVa \in VAS /\ AtVa \in Nat /\ KERNEL_OFFSET \in Nat /\ KERNEL_OFFSET <= AtVa
        /\ KernelVas = KERNEL_OFFSET..(AtVa - 1) /\ KernelVas \subseteq VAS
    BY EarlyAt
  <1>3. (lvl = 0 \/ lvl = 1) /\ kern
    BY <1>1 DEF TypeOK, EarlyInv
  <1>4. /\ \A l \in 0..2 : EarlyBound(AtVa, l) \in Int
        /\ \/ AtVa = KERNEL_OFFSET
           \/ (AtVa - 1) \div (PTE_NUMS * PTE_NUMS) # AtVa \div (PTE_NUMS * PTE_NUMS)
           => EarlyBound(AtVa, 0) + 1 <= EarlyBound(AtVa, 1)
        /\ \/ AtVa = KERNEL_OFFSET
           \/ (AtVa - 1) \div PTE_NUMS # AtVa \div PTE_NUMS
           => EarlyBound(AtVa, 1) + 1 <= EarlyBound(AtVa, 2)
    BY <1>2, BoundSteps
  <1>5. ASSUME AtVa # KERNEL_OFFSET PROVE AtVa - 1 \in VAS /\ Valid(AtVa - 1)
    <2>1. AtVa - 1 \in KernelVas
      BY <1>2, <1>5
    <2> QED
      BY <1>1, <1>2, <1>3, <2>1, KernelValid
  <1>6. CASE lvl = 0
    <2>1. Pte = mem[root][SV39_Index2Id(AtVa, 0)]
      BY <1>1, <1>6 DEF Pte, PathInv, EarlyInv
    <2>2. ASSUME AtVa # KERNEL_OFFSET,
                 (AtVa - 1) \div (PTE_NUMS * PTE_NUMS) = AtVa \div (PTE_NUMS * PTE_NUMS)
          PROVE  FALSE
      <3>1. SV39_Index2Id(AtVa - 1, 0) = SV39_Index2Id(AtVa, 0)
        BY <1>2, <1>5, <2>2, AddrOfIndices
      <3>2. mem[root][SV39_Index2Id(AtVa - 1, 0)].v
        BY <1>5, <2>2, ValidPath
      <3> QED
        BY <2>1, <3>1, <3>2
    <2>3. lvl + 1 = 1
      BY <1>6
    <2> QED
      BY <1>4, <1>6, <2>2, <2>3
  <1>7. CASE lvl = 1
    <2>1. /\ idx[0] = SV39_Index2Id(AtVa, 0) /\ idx[1] = SV39_Index2Id(AtVa, 1)
          /\ tab[1] = mem[root][idx[0]].ppn
      BY <1>1, <1>7 DEF PathInv, EarlyInv
    <2>2. ASSUME AtVa # KERNEL_OFFSET, (AtVa - 1) \div PTE_NUMS = AtVa \div PTE_NUMS
          PROVE  FALSE
      <3>1. /\ AtVa \div PTE_NUMS = PTE_NUMS * SV39_Index2Id(AtVa, 0) + SV39_Index2Id(AtVa, 1)
            /\ SV39_Index2Id(AtVa, 0) \in Slots /\ SV39_Index2Id(AtVa, 1) \in Slots
        BY <1>2, AddrOfIndices
      <3>2. /\ SV39_Index2Id(AtVa - 1, 0) = SV39_Index2Id(AtVa, 0)
            /\ SV39_Index2Id(AtVa - 1, 1) = SV39_Index2Id(AtVa, 1)
        BY <1>5, <2>2, <3>1, EnterLevelTwo
      <3>3. mem[mem[root][SV39_Index2Id(AtVa - 1, 0)].ppn][SV39_Index2Id(AtVa - 1, 1)].v
        BY <1>5, <2>2, ValidPath
      <3> QED
        BY <1>7, <2>1, <3>2, <3>3 DEF Pte
    <2>3. lvl + 1 = 2
      BY <1>7
    <2> QED
      BY <1>4, <1>7, <2>2, <2>3
  <1> QED
    BY <1>3, <1>6, <1>7

LEMMA EarlyGrowInv ==
    ASSUME IInv, pc = "early", EarlyGrow, UNCHANGED <<lay, root, req, cnt, kern, frames>>
    PROVE  IInv' /\ pc' = "early"
  <1> USE DEF EarlyGrow, freemem_alloc_pa
  <1>1. TypeOK /\ TreeInv /\ PathInv /\ KernelMapStays /\ EarlyInv
    BY DEF IInv
  <1>2. /\ AtVa \in VAS /\ AtVa \in Nat /\ KERNEL_OFFSET \in Nat /\ KERNEL_OFFSET <= AtVa
        /\ idx[lvl] < PTE_NUMS /\ idx[lvl] \in Slots /\ lay.top \in Nat /\ lay.end \in Nat
        /\ AtVa <= KERNEL_OFFSET + (lay.top - lay.start) - 1
        /\ KERNEL_OFFSET + (lay.top - lay.start) - 1 \in Nat
        /\ EarlyTables(KERNEL_OFFSET, KERNEL_OFFSET + (lay.top - lay.start) - 1) <= lay.top - lay.end
    BY EarlyAt
  <1>3. lvl < 2 /\ ~Pte.v /\ (lvl = 0 \/ lvl = 1) /\ lvl + 1 \in 0..2
    BY <1>1 DEF TypeOK
  <1>4. pa_st_free \in Nat /\ pa_st_free - lay.end <= EarlyBound(AtVa, lvl) /\ avail = pa_st_free..(lay.top - 1)
    BY <1>1 DEF TypeOK, EarlyInv
  <1>5. /\ EarlyBound(AtVa, lvl) + 1 <= EarlyBound(AtVa, lvl + 1)
        /\ EarlyBound(AtVa, lvl) \in Int /\ EarlyBound(AtVa, lvl + 1) \in Int
    BY <1>3, EarlyNewTable
  <1>6. pa_st_free + 1 - lay.end <= EarlyBound(AtVa, lvl + 1)
    BY <1>2, <1>4, <1>5
  <1>7. pa_st_free < lay.top
    <2> DEFINE T == EarlyTables(KERNEL_OFFSET, KERNEL_OFFSET + (lay.top - lay.start) - 1)
    <2>1. EarlyBound(AtVa, lvl + 1) <= T /\ T \in Int
      BY <1>2, <1>3, BoundMax
    <2> HIDE DEF T
    <2>2. T <= lay.top - lay.end
      BY <1>2 DEF T
    <2> QED
      BY <1>2, <1>4, <1>5, <1>6, <2>1, <2>2
  <1>8. PICK f : f = pa_st_free
    OBVIOUS
  <1>9. f \in avail /\ f \in frames /\ f \in DOMAIN mem /\ mem[f] = ZeroTable
    <2>1. f \in avail
      BY <1>2, <1>4, <1>7, <1>8
    <2> QED
      BY <1>1, <2>1 DEF TypeOK, EarlyInv
  <1>10. /\ mem' = [mem EXCEPT ![tab[lvl]] = [@ EXCEPT ![idx[lvl]] = SV39_Pa2PTE(f, {})]]
         /\ avail' = avail \ {f} /\ pa_st_free' = f + 1
         /\ Enter(f, SV39_Index2Id(AtVa, lvl + 1)) /\ fresh' = TRUE
         /\ UNCHANGED <<pc, left, panic>>
    BY <1>7, <1>8 DEF SetPte
  <1>11. tab[lvl] \in frames \ avail /\ tab[lvl] \in DOMAIN mem
    <2>1. tab[lvl] \in frames \ avail
      BY <1>1, <1>3, PathInTree
    <2> QED
      BY <1>1, <2>1 DEF TypeOK
  <1>12. mem' = [mem EXCEPT ![f] = ZeroTable,
                            ![tab[lvl]] = [@ EXCEPT ![idx[lvl]] = SV39_Pa2PTE(f, {})]]
    <2>1. mem = [p \in DOMAIN mem |-> mem[p]]
      BY <1>1 DEF TypeOK, Tables
    <2>2. [mem EXCEPT ![f] = ZeroTable] = mem
      BY <1>9, <2>1
    <2> QED
      BY <1>10, <2>2
  <1>13. /\ Tables(mem', DOMAIN mem') /\ frames \subseteq DOMAIN mem'
         /\ TreeInv'
         /\ \A va \in VAS : Walk(mem', root, va) = Walk(mem, root, va)
         /\ mem'[tab[lvl]][idx[lvl]].v /\ mem'[tab[lvl]][idx[lvl]].ppn = f
         /\ lvl = 1 => mem'[root][idx[0]] = mem[root][idx[0]]
         /\ \A g \in DOMAIN mem : g # f /\ g # tab[lvl] => mem'[g] = mem[g]
    <2>1. UNCHANGED <<root, frames>>
      OBVIOUS
    <2>2. avail' = avail \ {f} /\ lvl < 2 /\ idx[lvl] < PTE_NUMS /\ ~Pte.v
      BY <1>2, <1>3, <1>10
    <2> QED
      BY <1>1, <1>9, <1>12, <2>1, <2>2, LinkTable
  <1>14. SV39_Index2Id(AtVa, lvl + 1) \in 0..PTE_NUMS
    BY <1>2, <1>3, AddrOfIndices DEF Slots
  <1>15. PathInv'
    BY <1>1, <1>2, <1>3, <1>9, <1>10, <1>13, <1>14, EnterPath
  <1>16. /\ lvl' = lvl + 1 /\ lvl' \in 0..2
         /\ tab' \in [0..2 -> frames'] /\ idx' \in [0..2 -> 0..PTE_NUMS] /\ cur' \in [0..2 -> Nat]
         /\ idx'[lvl + 1] = SV39_Index2Id(AtVa, lvl + 1)
         /\ \A k \in 0..2 : k # lvl + 1 => idx'[k] = idx[k]
    BY <1>1, <1>3, <1>9, <1>10, <1>14, EnterFacts
  <1>17. TypeOK'
    <2>1. avail' \subseteq frames /\ pa_st_free' \in Nat
      BY <1>1, <1>4, <1>8, <1>10 DEF TypeOK
    <2> QED
      BY <1>1, <1>10, <1>13, <1>16, <2>1 DEF TypeOK
  <1>18. AtVa' = AtVa
    BY <1>10 DEF AtVa
  <1>19. KernelMapStays' /\ (\A va \in VAS : va \notin KernelVas => ~Valid(va))'
    BY <1>10, <1>13, <1>18, EarlyKept
  <1>20. EarlyInv'
    <2>1. idx'[0] = SV39_Index2Id(AtVa, 0) /\ (lvl' > 0 => idx'[1] = SV39_Index2Id(AtVa, 1))
          /\ (lvl' > 1 => idx'[2] = SV39_Index2Id(AtVa, 2))
      BY <1>1, <1>3, <1>16 DEF EarlyInv
    <2>2. /\ kern' /\ left' > 0 /\ req'.va = KERNEL_OFFSET /\ req'.pa = lay'.start
          /\ cnt' = lay'.top - lay'.start
      BY <1>1, <1>10 DEF EarlyInv
    <2>3. avail' = pa_st_free'..(lay'.top - 1)
      BY <1>2, <1>4, <1>8, <1>10
    <2>4. \A p \in avail' : mem'[p] = ZeroTable
      <3>1. avail \subseteq DOMAIN mem /\ \A p \in avail : mem[p] = ZeroTable
        BY <1>1 DEF TypeOK, EarlyInv
      <3> QED
        BY <1>10, <1>11, <1>13, <3>1
    <2>5. pa_st_free' - lay'.end <= EarlyBound(AtVa', lvl')
      <3>1. lay' = lay /\ pa_st_free' = pa_st_free + 1 /\ lvl' = lvl + 1
        BY <1>8, <1>10, <1>16
      <3>2. pa_st_free' - lay'.end = pa_st_free + 1 - lay.end
        BY <1>2, <1>4, <3>1
      <3> QED
        BY <1>6, <1>18, <3>1, <3>2
    <2> QED
      BY <1>18, <1>19, <2>1, <2>2, <2>3, <2>4, <2>5 DEF EarlyInv
  <1> QED
    BY <1>10, <1>13, <1>15, <1>17, <1>19, <1>20, IInvEarly

LEMMA EarlyPageInv ==
    ASSUME IInv, pc = "early", EarlyPage, UNCHANGED <<lay, root, req, cnt, kern, frames>>
    PROVE  /\ IInv'
           /\ pc' = "early" \/ (pc' = "idle" /\ left = 1 /\ \A va \in VAS : va \notin KernelVas' => ~Valid(va)')
           /\ KernelVas' = KERNEL_OFFSET..AtVa
  <1> USE DEF EarlyPage
  <1> DEFINE e == EarlyPte(AtPa)
             at == Addr(idx[0], idx[1], idx[2])
  <1>1. TypeOK /\ TreeInv /\ PathInv /\ KernelMapStays /\ EarlyInv
    BY DEF IInv
  <1>2. /\ AtVa \in VAS /\ AtVa \in Nat /\ KERNEL_OFFSET \in Nat /\ KERNEL_OFFSET <= AtVa
        /\ lay.start \in Nat /\ lay.top \in Nat /\ lay.end \in Nat /\ idx[lvl] < PTE_NUMS /\ ~Valid(AtVa)
        /\ KernelVas = KERNEL_OFFSET..(AtVa - 1) /\ KernelVas \subseteq VAS
        /\ AtVa = KERNEL_OFFSET + (cnt - left) /\ AtPa = lay.start + (AtVa - KERNEL_OFFSET)
    BY EarlyAt
  <1>3. lvl = 2 /\ idx[2] < PTE_NUMS
    BY <1>2
  <1>4. /\ kern /\ left > 0 /\ cnt = lay.top - lay.start /\ req.va = KERNEL_OFFSET /\ req.pa = lay.start
        /\ idx[0] = SV39_Index2Id(AtVa, 0) /\ idx[1] = SV39_Index2Id(AtVa, 1)
        /\ idx[2] = SV39_Index2Id(AtVa, 2)
        /\ avail = pa_st_free..(lay.top - 1)
        /\ pa_st_free - lay.end <= EarlyBound(AtVa, 2)
    BY <1>1, <1>3 DEF EarlyInv
  <1>5. AtVa = at
    BY <1>2, <1>4, AddrOfIndices
  <1>6. Pte = Walk(mem, root, AtVa)
    BY <1>1, <1>3, <1>4, WalkIsLeaf DEF Leaf, Pte, PathInv
  <1>7. SetPte(e) /\ EarlyNext
    BY <1>2, <1>6 DEF Valid
  <1>8. /\ UNCHANGED <<avail, pa_st_free, tab, cur, panic>> /\ left' = left - 1 /\ lvl' = 0 /\ fresh' = FALSE
        /\ pc' = (IF left = 1 THEN "idle" ELSE "early")
        /\ idx' = [idx EXCEPT ![0] = SV39_Index2Id(AtVa + 1, 0)]
    BY <1>7 DEF EarlyNext
  <1>9. e \in Ptes /\ (~e.v => e = ZeroPte) /\ e.v
    <2>1. AtPa \in Nat
      BY <1>2
    <2>2. TEXT \in SUBSET VM_PROTS /\ DATA \in SUBSET VM_PROTS
      BY DEF TEXT, DATA, VM_PROTS
    <2> QED
      BY <2>1, <2>2, LeafPteIsPte DEF EarlyPte
  <1> HIDE DEF e
  <1>10. /\ Tables(mem', DOMAIN mem') /\ frames \subseteq DOMAIN mem'
         /\ TreeInv'
         /\ OneWalk(mem, mem', root, at, e)
    BY <1>1, <1>3, <1>7, <1>8, <1>9, SetLeaf
  <1>11. Walk(mem', root, AtVa) = e /\ \A va \in VAS : va # AtVa => Walk(mem', root, va) = Walk(mem, root, va)
    BY <1>2, <1>5, <1>10 DEF OneWalk
  <1> HIDE DEF at
  <1>12. cnt \in Nat /\ left \in 0..cnt /\ left' \in 0..cnt
    BY <1>1, <1>4, <1>8 DEF TypeOK
  <1>13. AtVa' = AtVa + 1
    BY <1>2, <1>4, <1>8, <1>12 DEF AtVa
  <1>14. KernelVas' = KERNEL_OFFSET..AtVa
    <2>1. CASE left = 1
      <3>1. KernelVas' = KERNEL_OFFSET..(KERNEL_OFFSET + (lay.top - lay.start) - 1)
        BY <1>8, <2>1 DEF KernelVas
      <3>2. KERNEL_OFFSET + (lay.top - lay.start) - 1 = AtVa
        BY <1>2, <1>4, <2>1
      <3> QED
        BY <3>1, <3>2
    <2>2. CASE left # 1
      <3>1. KernelVas' = KERNEL_OFFSET..(AtVa' - 1)
        BY <1>8, <2>2 DEF KernelVas
      <3>2. AtVa' - 1 = AtVa
        BY <1>2, <1>13
      <3> QED
        BY <3>1, <3>2
    <2> QED
      BY <2>1, <2>2
  <1>15. SV39_Index2Id(AtVa + 1, 0) \in 0..PTE_NUMS
    <2>1. PTE_NUMS * PTE_NUMS \in Nat /\ PTE_NUMS * PTE_NUMS > 0 /\ AtVa + 1 \in Nat
      BY <1>2
    <2>2. (AtVa + 1) \div (PTE_NUMS * PTE_NUMS) \in Nat
      BY <2>1, DivideBy
    <2>3. ((AtVa + 1) \div (PTE_NUMS * PTE_NUMS)) % PTE_NUMS \in 0..(PTE_NUMS - 1)
      BY <2>2, DivideBy
    <2> QED
      BY <2>3 DEF SV39_Index2Id, SV39_INDEX_PAGES
  <1>16. idx' \in [0..2 -> 0..PTE_NUMS] /\ idx'[0] = SV39_Index2Id(AtVa + 1, 0)
    <2>1. idx \in [0..2 -> 0..PTE_NUMS]
      BY <1>1 DEF TypeOK
    <2> QED
      BY <1>8, <1>15, <2>1
  <1>17. TypeOK'
    <2>0. lvl' = 0 /\ fresh' = FALSE /\ UNCHANGED <<avail, pa_st_free, tab, cur, panic>>
      BY <1>7 DEF EarlyNext
    <2>1. lvl' \in 0..2
      BY <2>0
    <2>4. fresh' \in BOOLEAN
      BY <2>0
    <2>3. pc' = "early" \/ pc' = "idle"
      BY <1>8
    <2>2. left' \in 0..cnt' /\ frames' \subseteq DOMAIN mem'
      BY <1>10, <1>12
    <2> QED
      BY <1>1, <1>10, <1>16, <2>0, <2>1, <2>2, <2>3, <2>4 DEF TypeOK
  <1>18. PathInv'
    BY <1>1, <1>8 DEF PathInv
  <1>19. KernelMapStays'
    <2>1. ASSUME NEW va \in KERNEL_OFFSET..AtVa
          PROVE  Walk(mem', root', va) =
                 SV39_Pa2PTE(va - KERNEL_OFFSET + lay.start,
                   IF va - KERNEL_OFFSET + lay.start < lay.line THEN TEXT ELSE DATA)
      <3>1. CASE va = AtVa
        <4>1. AtPa = va - KERNEL_OFFSET + lay.start
          BY <1>2, <3>1
        <4> QED
          BY <1>11, <3>1, <4>1 DEF e, EarlyPte
      <3>2. CASE va # AtVa
        <4>1. va \in KernelVas /\ va \in VAS
          BY <1>2, <3>2
        <4>2. Walk(mem', root', va) = Walk(mem, root, va)
          BY <1>11, <3>2, <4>1
        <4> HIDE DEF KernelVas
        <4> QED
          BY <1>1, <1>4, <4>1, <4>2 DEF KernelMapStays
      <3> QED
        BY <3>1, <3>2
    <2>2. lay' = lay
      OBVIOUS
    <2> HIDE DEF KernelVas
    <2> QED
      BY <1>14, <2>1, <2>2 DEF KernelMapStays
  <1>20. \A va \in VAS : va \notin KernelVas' => ~Valid(va)'
    <2>1. ASSUME NEW va \in VAS, va \notin KERNEL_OFFSET..AtVa PROVE ~Walk(mem', root', va).v
      <3>1. va # AtVa /\ va \notin KernelVas
        BY <1>2, <2>1
      <3>2. ~Valid(va)
        BY <1>1, <3>1 DEF EarlyInv
      <3> QED
        BY <1>11, <3>1, <3>2 DEF Valid
    <2> QED
      BY <1>14, <2>1 DEF Valid
  <1>21. CASE left = 1
    BY <1>8, <1>10, <1>14, <1>17, <1>18, <1>19, <1>20, <1>21, IInvIdle
  <1>22. CASE left # 1
    <2>1. pc' = "early" /\ left' > 0
      BY <1>4, <1>8, <1>12, <1>22
    <2>2. \A p \in avail' : mem'[p] = ZeroTable
      <3>1. tab[2] \notin avail
        BY <1>1, <1>3, PathInTree
      <3>2. avail \subseteq DOMAIN mem /\ \A p \in avail : mem[p] = ZeroTable
        BY <1>1 DEF TypeOK, EarlyInv
      <3>3. mem \in [DOMAIN mem -> [Slots -> Ptes]]
        BY <1>1 DEF TypeOK, Tables
      <3>4. \A p \in DOMAIN mem : p # tab[2] => mem'[p] = mem[p]
        BY <1>3, <1>7, <3>3 DEF SetPte
      <3> QED
        BY <1>8, <3>1, <3>2, <3>4
    <2>3. pa_st_free' - lay'.end <= EarlyBound(AtVa', lvl')
      <3>1. EarlyBound(AtVa, 2) <= EarlyBound(AtVa + 1, 0)
            /\ \A l \in 0..2 : EarlyBound(AtVa, l) \in Int
        BY <1>2, BoundSteps
      <3>2. \A l \in 0..2 : EarlyBound(AtVa + 1, l) \in Int
        <4>1. AtVa + 1 \in Nat /\ AtVa + 1 >= KERNEL_OFFSET
          BY <1>2
        <4> QED
          BY <1>2, <4>1, BoundSteps
      <3>3. pa_st_free \in Nat /\ lay' = lay
        BY <1>1 DEF TypeOK
      <3>4. EarlyBound(AtVa, 2) \in Int /\ EarlyBound(AtVa + 1, 0) \in Int
        BY <3>1, <3>2
      <3>5. pa_st_free - lay.end <= EarlyBound(AtVa + 1, 0)
        <4>1. pa_st_free - lay.end \in Int
          BY <1>2, <3>3
        <4>2. pa_st_free - lay.end <= EarlyBound(AtVa, 2)
          BY <1>4
        <4>3. ASSUME NEW a \in Int, NEW b \in Int, NEW c \in Int, a <= b, b <= c PROVE a <= c
          BY <4>3
        <4> QED
          BY <3>1, <3>4, <4>1, <4>2, <4>3
      <3> QED
        BY <1>8, <1>13, <3>3, <3>5
    <2>4. EarlyInv'
      BY <1>4, <1>8, <1>13, <1>16, <1>20, <2>1, <2>2, <2>3 DEF EarlyInv
    <2> QED
      BY <1>10, <1>14, <1>17, <1>18, <1>19, <2>1, <2>4, IInvEarly
  <1> QED
    BY <1>21, <1>22

-----------------------------------------------------------------------------
(* The invariant.                                                          *)

LEMMA ZeroTree ==
    ASSUME NEW P, NEW m \in [P -> {ZeroTable}], NEW fr \in SUBSET P, NEW r \in fr,
           NEW av, av = fr \ {r}
    PROVE  /\ Tables(m, P) /\ DOMAIN m = P
           /\ Tree(m, r, Subs(m, r), fr, av)
           /\ \A va \in VAS : ~Walk(m, r, va).v
  <1>1. \A p \in P : m[p] = ZeroTable
    OBVIOUS
  <1>2. \A p \in P, i \in Slots : m[p][i] = ZeroPte
    BY <1>1 DEF ZeroTable
  <1>3. ZeroTable \in [Slots -> Ptes]
    BY ZeroPteIsPte DEF ZeroTable
  <1>4. Tables(m, P) /\ DOMAIN m = P
    BY <1>2, <1>3 DEF Tables
  <1>5. r \in P /\ \A i \in Slots : ~m[r][i].v
    BY <1>2, ZeroPteIsPte
  <1>6. Subs(m, r) = {}
    <2>1. ASSUME NEW x PROVE x \notin Subs(m, r)
      BY <1>5, SubsMember
    <2> QED
      BY <2>1
  <1>7. Tree(m, r, {}, fr, av)
    BY <1>5, <1>6 DEF Tree
  <1>8. ASSUME NEW va \in VAS PROVE ~Walk(m, r, va).v
    <2>1. SV39_Index2Id(va, 0) \in Slots
      BY AddrOfIndices
    <2> QED
      BY <1>5, <2>1, ZeroPteIsPte DEF Walk
  <1> QED
    BY <1>4, <1>6, <1>7, <1>8

LEMMA InitIInv == Init => IInv
  <1> SUFFICES ASSUME Init PROVE IInv
    OBVIOUS
  <1>1. PICK l \in LAYOUTS :
         \/ /\ EarlyInit(l)
            /\ kern = TRUE
            /\ frames = l.end..(l.top - 1)
         \/ \E k \in LEFT :
            /\ kern = FALSE
            /\ lay = l
            /\ root = l.end
            /\ pa_st_free = l.end + 1
            /\ frames = l.end..(l.end + k)
            /\ avail = frames \ {root}
            /\ mem = [p \in frames |-> ZeroTable]
            /\ pc = "idle"
            /\ req = [op |-> "none", va |-> 0, n |-> 0, pa |-> 0, prot |-> {}]
            /\ cnt = 0
            /\ left = 0
            /\ lvl = 0
            /\ tab = [i \in 0..2 |-> root]
            /\ idx = [i \in 0..2 |-> 0]
            /\ cur = [i \in 0..2 |-> 0]
            /\ fresh = FALSE
            /\ panic = FALSE
    BY DEF Init
  <1>2. /\ KERNEL_OFFSET \in Nat
        /\ l.start \in Nat /\ l.line \in Nat /\ l.end \in Nat /\ l.top \in Nat
        /\ l.start < l.line /\ l.line < l.end /\ l.end < l.top
        /\ KERNEL_OFFSET + (l.top - l.start) - 1 \in VAS
    BY LayoutAssumption
  <1>3. CASE /\ EarlyInit(l)
             /\ kern = TRUE
             /\ frames = l.end..(l.top - 1)
    <2>1. /\ lay = l /\ mem = [p \in 0..l.top |-> ZeroTable] /\ root = l.end /\ pa_st_free = l.end + 1
          /\ avail = (l.end + 1)..(l.top - 1) /\ pc = "early"
          /\ req.va = KERNEL_OFFSET /\ req.n = 0 /\ req.pa = l.start /\ req.prot = {}
          /\ cnt = l.top - l.start /\ left = cnt /\ lvl = 0
          /\ tab = [i \in 0..2 |-> root] /\ cur = [i \in 0..2 |-> 0]
          /\ idx = [i \in 0..2 |-> SV39_Index2Id(KERNEL_OFFSET, 0)]
          /\ panic = FALSE
      BY <1>3 DEF EarlyInit
    <2>2. fresh \in BOOLEAN /\ kern \in BOOLEAN /\ kern
      BY <1>3 DEF EarlyInit
    <2>3. frames \in SUBSET (0..l.top) /\ root \in frames /\ avail = frames \ {root} /\ frames \subseteq Nat
      <3>1. frames = l.end..(l.top - 1) /\ root = l.end /\ avail = (l.end + 1)..(l.top - 1)
        BY <1>3, <2>1
      <3> QED
        BY <1>2, <3>1
    <2>4. /\ Tables(mem, DOMAIN mem) /\ DOMAIN mem = 0..l.top
          /\ Tree(mem, root, Subs(mem, root), frames, avail)
          /\ \A va \in VAS : ~Walk(mem, root, va).v
      <3>1. PICK P : P = 0..l.top
        OBVIOUS
      <3>2. mem \in [P -> {ZeroTable}]
        BY <2>1, <3>1
      <3>3. frames \in SUBSET P /\ root \in frames /\ avail = frames \ {root}
        BY <2>3, <3>1
      <3>4. Tables(mem, P) /\ DOMAIN mem = P
            /\ Tree(mem, root, Subs(mem, root), frames, avail)
            /\ \A va \in VAS : ~Walk(mem, root, va).v
        BY <3>2, <3>3, ZeroTree
      <3> QED
        BY <3>1, <3>4
    <2>5. KERNEL_OFFSET \in VAS
      BY <1>2 DEF VAS
    <2>6. SV39_Index2Id(KERNEL_OFFSET, 0) \in Slots /\ SV39_Index2Id(KERNEL_OFFSET, 0) \in 0..PTE_NUMS
      BY <2>5, AddrOfIndices DEF Slots
    <2>7. cnt \in Nat /\ cnt > 0 /\ left \in 0..cnt /\ left > 0 /\ AtVa = KERNEL_OFFSET
      <3>1. cnt = l.top - l.start /\ left = cnt /\ req.va = KERNEL_OFFSET
        BY <2>1
      <3>2. cnt \in Nat /\ cnt > 0
        BY <1>2, <3>1
      <3> QED
        BY <1>2, <3>1, <3>2 DEF AtVa
    <2>8. TypeOK
      <3>1. tab \in [0..2 -> frames] /\ idx \in [0..2 -> 0..PTE_NUMS] /\ cur \in [0..2 -> Nat] /\ lvl \in 0..2
        BY <2>1, <2>3, <2>6
      <3>2. avail \subseteq frames /\ frames \subseteq DOMAIN mem
        BY <2>3, <2>4
      <3>3. pa_st_free \in Nat
        BY <1>2, <2>1
      <3> QED
        BY <1>2, <2>1, <2>2, <2>3, <2>4, <2>7, <3>1, <3>2, <3>3 DEF TypeOK
    <2>9. TreeInv /\ PathInv
      BY <2>1, <2>4 DEF TreeInv, PathInv
    <2>10. KernelVas = {}
      BY <1>2, <2>1, <2>7 DEF KernelVas
    <2>11. EarlyInv
      <3>1. idx[0] = SV39_Index2Id(AtVa, 0)
        BY <2>1, <2>7
      <3>2. pa_st_free - lay.end <= EarlyBound(AtVa, lvl)
        BY <1>2, <2>1, <2>7 DEF EarlyBound
      <3>3. \A p \in avail : mem[p] = ZeroTable
        BY <2>1, <2>3
      <3>4. \A va \in VAS : ~Valid(va)
        BY <2>4 DEF Valid
      <3>5. /\ req.va = KERNEL_OFFSET /\ req.pa = lay.start /\ cnt = lay.top - lay.start
            /\ avail = pa_st_free..(lay.top - 1) /\ ~(lvl > 0) /\ ~(lvl > 1)
        BY <2>1
      <3> QED
        BY <2>2, <2>7, <3>1, <3>2, <3>3, <3>4, <3>5 DEF EarlyInv
    <2>12. KernelMapStays
      BY <2>10 DEF KernelMapStays
    <2> QED
      BY <2>1, <2>8, <2>9, <2>11, <2>12
      DEF IInv, RangeInv, MapInv, UnmapInv, UndoInv, FreeInv, ReqInv, Calls
  <1>4. CASE \E k \in LEFT :
            /\ kern = FALSE
            /\ lay = l
            /\ root = l.end
            /\ pa_st_free = l.end + 1
            /\ frames = l.end..(l.end + k)
            /\ avail = frames \ {root}
            /\ mem = [p \in frames |-> ZeroTable]
            /\ pc = "idle"
            /\ req = [op |-> "none", va |-> 0, n |-> 0, pa |-> 0, prot |-> {}]
            /\ cnt = 0
            /\ left = 0
            /\ lvl = 0
            /\ tab = [i \in 0..2 |-> root]
            /\ idx = [i \in 0..2 |-> 0]
            /\ cur = [i \in 0..2 |-> 0]
            /\ fresh = FALSE
            /\ panic = FALSE
    <2>1. PICK k \in LEFT :
            /\ kern = FALSE
            /\ lay = l
            /\ root = l.end
            /\ pa_st_free = l.end + 1
            /\ frames = l.end..(l.end + k)
            /\ avail = frames \ {root}
            /\ mem = [p \in frames |-> ZeroTable]
            /\ pc = "idle"
            /\ req = [op |-> "none", va |-> 0, n |-> 0, pa |-> 0, prot |-> {}]
            /\ cnt = 0
            /\ left = 0
            /\ lvl = 0
            /\ tab = [i \in 0..2 |-> root]
            /\ idx = [i \in 0..2 |-> 0]
            /\ cur = [i \in 0..2 |-> 0]
            /\ fresh = FALSE
            /\ panic = FALSE
      BY <1>4
    <2>2. k \in Nat
      BY CallAssumption
    <2>3. root \in frames /\ frames \subseteq Nat
      BY <1>2, <2>1, <2>2
    <2>11. mem \in [frames -> {ZeroTable}]
      BY <2>1
    <2>4. /\ Tables(mem, frames) /\ DOMAIN mem = frames
          /\ Tree(mem, root, Subs(mem, root), frames, avail)
      BY <2>1, <2>3, <2>11, ZeroTree
    <2>5. tab \in [0..2 -> frames] /\ idx \in [0..2 -> 0..PTE_NUMS] /\ cur \in [0..2 -> Nat] /\ lvl \in 0..2
          /\ pa_st_free \in Nat /\ cnt \in Nat /\ left \in 0..cnt
      BY <1>2, <2>1, <2>3
    <2>6. req.va \in Nat /\ req.n \in Nat /\ req.pa \in Nat /\ req.prot \in SUBSET VM_PROTS
      BY <2>1
    <2>7. fresh \in BOOLEAN /\ kern \in BOOLEAN /\ ~kern
      BY <2>1
    <2>9. avail \subseteq frames /\ frames \subseteq DOMAIN mem /\ pc = "idle" /\ panic = FALSE /\ lay \in LAYOUTS
      BY <2>1, <2>4
    <2>8. TypeOK
      BY <2>3, <2>4, <2>5, <2>6, <2>7, <2>9 DEF TypeOK
    <2>10. TreeInv /\ PathInv /\ KernelMapStays
      BY <2>1, <2>4, <2>7 DEF TreeInv, PathInv, KernelMapStays
    <2> QED
      BY <2>8, <2>9, <2>10
      DEF IInv, EarlyInv, RangeInv, MapInv, UnmapInv, UndoInv, FreeInv, ReqInv, Calls
  <1> QED
    BY <1>1, <1>3, <1>4

LEMMA StutterIInv == IInv /\ UNCHANGED vars => IInv'
  <1> SUFFICES ASSUME IInv, UNCHANGED vars PROVE IInv'
    OBVIOUS
  <1>1. UNCHANGED <<lay, root, mem, avail, pa_st_free, pc, req, cnt, left, lvl, tab, idx, cur,
                    fresh, panic, kern, frames, ret, call>>
    BY DEF vars
  <1>2. TypeOK' /\ TreeInv' /\ PathInv'
    BY <1>1 DEF IInv, TypeOK, TreeInv, PathInv
  <1>3. AtVa' = AtVa /\ KernelVas' = KernelVas
    BY <1>1 DEF AtVa, KernelVas
  <1>4. KernelMapStays' /\ EarlyInv'
    BY <1>1, <1>3 DEF IInv, KernelMapStays, EarlyInv, Valid
  <1>5. RangeInv' /\ MapInv'
    BY <1>1, <1>3 DEF IInv, RangeInv, MapInv
  <1>6. UnmapInv'
    BY <1>1, <1>3 DEF IInv, UnmapInv, Valid, Linked
  <1>7. UndoInv' /\ FreeInv' /\ ReqInv'
    BY <1>1 DEF IInv, UndoInv, FreeInv, ReqInv, Valid
  <1> QED
    BY <1>2, <1>4, <1>5, <1>6, <1>7 DEF IInv

LEMMA NextIInv == IInv /\ [Next]_vars => IInv'
  <1> SUFFICES ASSUME IInv, [Next]_vars PROVE IInv'
    OBVIOUS
  <1>1. CASE setup_earlyvm /\ UNCHANGED <<kern, frames, ret, call>>
    <2>1. pc = "early" /\ UNCHANGED <<lay, root, req, cnt, kern, frames>>
      BY <1>1 DEF setup_earlyvm
    <2>2. EarlyEnter \/ EarlyGrow \/ EarlyPage
      BY <1>1 DEF setup_earlyvm
    <2> QED
      BY <2>1, <2>2, EarlyEnterInv, EarlyGrowInv, EarlyPageInv
  <1>2. CASE \E r \in RANGES, off \in OFFSETS : Mmap(r[1], r[2], r[1] + off)
    BY <1>2, MmapInv
  <1>3. CASE \E r \in RANGES : Unmap(r[1], r[2])
    BY <1>3, UnmapInvStart
  <1>4. CASE UnmapAll
    BY <1>4, UnmapAllInv
  <1>5. CASE vm_walkthrough
    <2>1. pc = "mmap" /\ UNCHANGED <<fixed, req>>
      BY <1>5 DEF vm_walkthrough
    <2>2. CASE \E f \in avail : MapGrow(f)
      BY <2>1, <2>2, MapGrowInv
    <2>3. CASE MapPage \/ MapExists \/ MapEnter \/ MapNoMem \/ MapLeave
      BY <2>1, <2>3, MapPageInv, MapExistsInv, MapEnterInv, MapNoMemInv, MapLeaveInv
    <2> QED
      BY <1>5, <2>2, <2>3 DEF vm_walkthrough
  <1>6. CASE riscv_unmap
    BY <1>6, UnmapPageInv, UnmapEnterInv, UnmapLeaveInv, UnmapEndInv DEF riscv_unmap
  <1>7. CASE riscv_free_pgtable
    BY <1>7, FreePageInv, FreeEnterInv, FreeSkipInv, FreeLeaveInv, FreeEndInv DEF riscv_free_pgtable
  <1>8. CASE UNCHANGED vars
    BY <1>8, StutterIInv
  <1> QED
    BY <1>1, <1>2, <1>3, <1>4, <1>5, <1>6, <1>7, <1>8 DEF Next

(* The inductive invariant of the page tables, for every number of entries *)
(* to a table, every layout of the board and every range of the calls: all *)
(* that the walks of early_vm.c and vm.c rely on between two iterations of *)
(* their loops.                                                            *)
THEOREM IInvHolds == Spec => []IInv
  <1>1. Init => IInv
    BY InitIInv
  <1>2. IInv /\ [Next]_vars => IInv'
    BY NextIInv
  <1> QED
    BY <1>1, <1>2, PTL DEF Spec

LEMMA TreeMeansTree == IInv => TablesAreATree
  <1> SUFFICES ASSUME IInv PROVE TablesAreATree
    OBVIOUS
  <1> DEFINE S == Subs(mem, root)
             pointers == {p \in ({root} \cup Level1) \X Slots : PTE_NEXTPGT(mem[p[1]][p[2]])}
  <1>1. panic = FALSE /\ Tree(mem, root, S, frames, avail)
    BY DEF IInv, TypeOK, TreeInv
  <1>2. S = {mem[root][i].ppn : i \in {j \in Slots : mem[root][j].v}}
    BY DEF Subs
  <1> HIDE DEF S
  <1>3. /\ root \in frames \ avail
        /\ root \notin S
        /\ \A f \in S \cup {root}, i \in Slots :
             mem[f][i].v => mem[f][i].prot = {} /\ mem[f][i].ppn \in frames \ avail /\ mem[f][i].ppn # root
        /\ \A f \in S, i \in Slots : mem[f][i].v => mem[f][i].ppn \notin S
        /\ \A f, g \in S \cup {root}, i, j \in Slots :
             mem[f][i].v /\ mem[g][j].v /\ mem[f][i].ppn = mem[g][j].ppn => f = g /\ i = j
        /\ \A h \in frames \ avail : h # root =>
             \E f \in S \cup {root}, i \in Slots : mem[f][i].v /\ mem[f][i].ppn = h
    BY <1>1 DEF Tree
  <1>4. \A f \in S \cup {root}, i \in Slots : PTE_NEXTPGT(mem[f][i]) <=> mem[f][i].v
    BY <1>3 DEF PTE_NEXTPGT
  <1>5. ASSUME NEW f \in S \cup {root}, NEW x
        PROVE  x \in Below(f) <=> \E i \in Slots : mem[f][i].v /\ mem[f][i].ppn = x
    BY <1>4 DEF Below
  <1>6. Level1 = S
    <2>1. ASSUME NEW x PROVE x \in Level1 <=> x \in S
      BY <1>2, <1>5 DEF Level1
    <2> QED
      BY <2>1
  <1>7. ASSUME NEW x
        PROVE  x \in Level2 <=> \E f \in S, i \in Slots : mem[f][i].v /\ mem[f][i].ppn = x
    <2>1. x \in Level2 <=> \E f \in S : x \in Below(f)
      BY <1>6 DEF Level2
    <2> QED
      BY <1>5, <2>1
  <1>8. ASSUME NEW x PROVE x \in S <=> \E i \in Slots : mem[root][i].v /\ mem[root][i].ppn = x
    BY <1>2
  <1>9. Level1 \cup Level2 = frames \ (avail \cup {root})
    <2>1. ASSUME NEW x, x \in S \/ x \in Level2 PROVE x \in frames \ (avail \cup {root})
      BY <1>3, <1>7, <1>8, <2>1
    <2>2. ASSUME NEW x, x \in frames \ (avail \cup {root}) PROVE x \in S \/ x \in Level2
      <3>1. PICK f \in S \cup {root}, i \in Slots : mem[f][i].v /\ mem[f][i].ppn = x
        BY <1>3, <2>2
      <3> QED
        BY <1>7, <1>8, <3>1
    <2>3. ASSUME NEW x PROVE x \in Level1 \cup Level2 <=> x \in frames \ (avail \cup {root})
      BY <1>6, <2>1, <2>2
    <2> QED
      BY <2>3
  <1>10. Level1 \cap Level2 = {}
    <2>1. ASSUME NEW x \in S PROVE x \notin Level2
      BY <1>3, <1>7
    <2> QED
      BY <1>6, <2>1
  <1>11. ASSUME NEW p \in pointers, NEW q \in pointers, mem[p[1]][p[2]].ppn = mem[q[1]][q[2]].ppn
         PROVE  p = q
    <2>1. /\ p \in ({root} \cup S) \X Slots /\ PTE_NEXTPGT(mem[p[1]][p[2]])
          /\ q \in ({root} \cup S) \X Slots /\ PTE_NEXTPGT(mem[q[1]][q[2]])
      BY <1>6
    <2>2. /\ p = <<p[1], p[2]>> /\ p[1] \in S \cup {root} /\ p[2] \in Slots
          /\ q = <<q[1], q[2]>> /\ q[1] \in S \cup {root} /\ q[2] \in Slots
      BY <2>1
    <2>3. mem[p[1]][p[2]].v /\ mem[q[1]][q[2]].v
      BY <1>4, <2>1, <2>2
    <2>4. p[1] = q[1] /\ p[2] = q[2]
      BY <1>3, <1>11, <2>2, <2>3
    <2> QED
      BY <2>2, <2>4
  <1> QED
    BY <1>1, <1>9, <1>10, <1>11 DEF TablesAreATree

(* At every step of a mapping, its undo, an unmap or a free, and of        *)
(* setup_earlyvm, the tables are a tree of all pages that are not with the *)
(* allocator, and no ASSERT of the walks fails: for tables of any size.    *)
THEOREM TablesAreATreeHolds == Spec => []TablesAreATree
  BY IInvHolds, TreeMeansTree, PTL

(* Nothing that is mapped or unmapped later, and no call that fails,       *)
(* changes a translation of the kernel's own memory at any step, once      *)
(* setup_earlyvm has made it.                                              *)
THEOREM KernelMapStaysHolds == Spec => []KernelMapStays
  <1>1. IInv => KernelMapStays
    BY DEF IInv
  <1> QED
    BY <1>1, IInvHolds, PTL

-----------------------------------------------------------------------------
(* The tables below the root that an unmap has to give back.  A walk comes *)
(* to an entry of the root at the first page of its table, unless it       *)
(* begins there; so a table whose whole range it has gone through was      *)
(* left with the full count, and its entry is clear.                       *)
RootInv ==
    pc \in {"unmap", "undo"} =>
      /\ lvl = 0 /\ left > 0 => left = cnt \/ AtVa = Addr(idx[0], 0, 0)
      /\ lvl > 0 => cur[0] = cnt \/ AtVa - (cur[0] - left) = Addr(idx[0], 0, 0)
      /\ \A i \in Slots :
           /\ lvl > 0 => i # idx[0]
           /\ req.va <= Addr(i, 0, 0)
           /\ Addr(i, PTE_NUMS, 0) <= AtVa
           => ~mem[root][i].v

(* A walk that begins.                                                     *)
LEMMA RootInvBegin ==
    ASSUME req'.va \in Nat, lvl' = 0, left' = cnt', AtVa' = req'.va
    PROVE  RootInv'
  <1>1. ASSUME NEW i \in Slots, req'.va <= Addr(i, 0, 0) PROVE ~(Addr(i, PTE_NUMS, 0) <= AtVa')
    <2>1. i \in Nat
      BY DEF Slots
    <2>2. /\ Addr(i, PTE_NUMS, 0) = Addr(i, 0, 0) + PTE_NUMS * PTE_NUMS /\ Addr(i, 0, 0) \in Nat
          /\ PTE_NUMS * PTE_NUMS > 0 /\ PTE_NUMS * PTE_NUMS \in Nat
      BY <2>1, AddrTable
    <2> QED
      BY <1>1, <2>2
  <1> QED
    BY <1>1 DEF RootInv

LEMMA UnmapRootInv ==
    ASSUME IInv, NEW r \in RANGES, Unmap(r[1], r[2])
    PROVE  RootInv'
  <1>1. r[1] \in VAS /\ r[2] \in Nat
    BY CallAssumption
  <1>2. lvl' = 0 /\ left' = r[2] /\ cnt' = r[2] /\ req'.va = r[1]
    BY DEF Unmap, Start
  <1>3. r[1] \in Nat /\ AtVa' = r[1]
    BY <1>1, <1>2 DEF VAS, AtVa
  <1> QED
    BY <1>2, <1>3, RootInvBegin

LEMMA MapFailRootInv ==
    ASSUME IInv, pc = "mmap", NEW r, MapFail(r), UNCHANGED req
    PROVE  RootInv'
  <1>1. TypeOK
    BY DEF IInv
  <1>2. CASE left = cnt
    BY <1>2 DEF MapFail, Return, RootInv
  <1>3. CASE left # cnt
    <2>1. lvl' = 0 /\ left' = cnt - left /\ cnt' = cnt - left /\ req' = req
      BY <1>3 DEF MapFail
    <2>2. req.va \in Nat /\ cnt - left \in Nat
      BY <1>1 DEF TypeOK
    <2>3. AtVa' = req.va
      BY <2>1, <2>2 DEF AtVa
    <2> QED
      BY <2>1, <2>2, <2>3, RootInvBegin
  <1> QED
    BY <1>2, <1>3

(* Blocks of a table of the root lie in the order of their entries.        *)
LEMMA AddrOrder ==
    ASSUME NEW i \in Nat, NEW j \in Nat, i < j
    PROVE  /\ Addr(i, PTE_NUMS, 0) <= Addr(j, 0, 0)
           /\ Addr(i, PTE_NUMS, 0) < Addr(j, PTE_NUMS, 0)
  <1>1. i + 1 <= j
    OBVIOUS
  <1>2. PTE_NUMS * (i + 1) <= PTE_NUMS * j /\ PTE_NUMS * (i + 1) = PTE_NUMS * i + PTE_NUMS
    BY <1>1
  <1>3. ASSUME NEW x \in Nat, NEW y \in Nat, x <= y PROVE PTE_NUMS * x <= PTE_NUMS * y
    BY <1>3
  <1>4. PTE_NUMS * i + PTE_NUMS \in Nat /\ PTE_NUMS * j \in Nat
    OBVIOUS
  <1>5. PTE_NUMS * (PTE_NUMS * i + PTE_NUMS) <= PTE_NUMS * (PTE_NUMS * j)
    BY <1>2, <1>3, <1>4
  <1>6. Addr(j, PTE_NUMS, 0) = Addr(j, 0, 0) + PTE_NUMS * PTE_NUMS
        /\ PTE_NUMS * PTE_NUMS \in Nat /\ PTE_NUMS * PTE_NUMS > 0 /\ Addr(j, 0, 0) \in Nat
    BY AddrTable
  <1>7. Addr(i, PTE_NUMS, 0) <= Addr(j, 0, 0) /\ Addr(i, PTE_NUMS, 0) \in Nat
    <2>1. PTE_NUMS * (PTE_NUMS * i + PTE_NUMS) \in Nat
      BY <1>4
    <2> QED
      BY <1>4, <1>5, <2>1 DEF Addr
  <1> QED
    BY <1>6, <1>7

(* A page more in the last table does not end another table.               *)
LEMMA UnmapPageRootInv ==
    ASSUME IInv, RootInv, pc \in {"unmap", "undo"}, UnmapPage, UNCHANGED <<fixed, req, ret, cnt>>
    PROVE  RootInv'
  <1>1. TypeOK /\ TreeInv /\ PathInv /\ RangeInv /\ pc \in Calls
    BY DEF IInv, Calls
  <1>2. UNCHANGED <<root, frames, avail, lvl, cur, pc, req, cnt>> /\ SetPte(ZeroPte)
        /\ lvl = 2 /\ left > 0 /\ left' = left - 1 /\ idx[2] < PTE_NUMS
        /\ idx' = [idx EXCEPT ![2] = @ + 1]
    BY DEF UnmapPage, fixed
  <1>3. req.va \in Nat /\ cnt \in Nat /\ left \in Nat /\ cur[0] \in Nat /\ idx \in [0..2 -> 0..PTE_NUMS]
    BY <1>1 DEF TypeOK
  <1>4. ZeroPte \in Ptes /\ (~ZeroPte.v => ZeroPte = ZeroPte)
    BY ZeroPteIsPte
  <1>5. /\ idx[0] \in Slots /\ idx[1] \in Slots /\ idx[2] \in Slots
        /\ \A g \in Subs(mem, root) \cup {root}, i \in Slots : mem'[g][i] = mem[g][i]
    BY <1>1, <1>2, <1>4, SetLeaf
  <1>6. idx'[0] = idx[0]
    BY <1>1, <1>2, NextEntry
  <1>7. AtVa' = AtVa + 1 /\ AtVa \in Int
    BY <1>2, <1>3 DEF AtVa
  <1>8. AtVa = Addr(idx[0], idx[1], idx[2])
    BY <1>1, <1>2 DEF RangeInv
  <1>9. lvl > 0 => cur[0] = cnt \/ AtVa - (cur[0] - left) = Addr(idx[0], 0, 0)
    BY <1>1 DEF RootInv
  <1>10. cur'[0] = cnt' \/ AtVa' - (cur'[0] - left') = Addr(idx'[0], 0, 0)
    <2>1. AtVa' - (cur'[0] - left') = AtVa - (cur[0] - left)
      BY <1>2, <1>3, <1>7
    <2> QED
      BY <1>2, <1>6, <1>9, <2>1
  <1>11. ASSUME NEW i \in Slots, i # idx[0], Addr(i, PTE_NUMS, 0) <= AtVa + 1
         PROVE  Addr(i, PTE_NUMS, 0) <= AtVa
    <2>1. i \in Nat /\ idx[0] \in Nat /\ idx[1] \in Nat /\ idx[2] \in Nat /\ idx[2] + 1 \in 0..PTE_NUMS
      BY <1>2, <1>5 DEF Slots
    <2>2. Addr(idx[0], idx[1], idx[2] + 1) <= Addr(idx[0], PTE_NUMS, 0)
      BY <1>5, <2>1, AddrInTable
    <2>3. Addr(idx[0], 0, 0) <= Addr(idx[0], idx[1], 0)
      BY <1>5, <2>1, AddrInTable
    <2>4. /\ Addr(idx[0], idx[1], idx[2]) = Addr(idx[0], idx[1], 0) + idx[2]
          /\ Addr(idx[0], idx[1], idx[2] + 1) = Addr(idx[0], idx[1], 0) + (idx[2] + 1)
          /\ Addr(idx[0], idx[1], 0) \in Nat /\ Addr(idx[0], 0, 0) \in Nat
      <3>1. idx[2] + 1 \in Nat
        BY <2>1
      <3>2. /\ \A k \in Nat : Addr(idx[0], idx[1], k) = Addr(idx[0], idx[1], 0) + k
            /\ Addr(idx[0], idx[1], 0) \in Nat
        BY <2>1, AddrPlus
      <3>3. Addr(idx[0], 0, 0) \in Nat
        BY <2>1, AddrTable
      <3> QED
        BY <2>1, <3>1, <3>2, <3>3
    <2>5. CASE i < idx[0]
      <3>1. Addr(i, PTE_NUMS, 0) <= Addr(idx[0], 0, 0)
        BY <2>1, <2>5, AddrOrder
      <3>2. Addr(i, PTE_NUMS, 0) \in Int
        BY <2>1 DEF Addr
      <3> QED
        BY <1>8, <2>1, <2>3, <2>4, <3>1, <3>2
    <2>6. CASE idx[0] < i
      <3>1. Addr(idx[0], PTE_NUMS, 0) < Addr(i, PTE_NUMS, 0)
        BY <2>1, <2>6, AddrOrder
      <3>2. Addr(i, PTE_NUMS, 0) \in Int /\ Addr(idx[0], PTE_NUMS, 0) \in Int
        BY <2>1 DEF Addr
      <3>3. Addr(idx[0], idx[1], idx[2] + 1) = AtVa + 1
        BY <1>8, <2>1, <2>4
      <3> QED
        BY <1>7, <1>11, <2>2, <3>1, <3>2, <3>3
    <2> QED
      BY <1>11, <2>1, <2>5, <2>6
  <1>12. ASSUME NEW i \in Slots, lvl' > 0 => i # idx'[0], req'.va <= Addr(i, 0, 0),
                Addr(i, PTE_NUMS, 0) <= AtVa'
         PROVE  ~mem'[root'][i].v
    <2>1. i # idx[0] /\ Addr(i, PTE_NUMS, 0) <= AtVa
      BY <1>2, <1>6, <1>7, <1>11, <1>12
    <2>2. ~mem[root][i].v
      BY <1>2, <1>12, <2>1 DEF RootInv
    <2> QED
      BY <1>2, <1>5, <2>2
  <1> QED
    BY <1>2, <1>10, <1>12 DEF RootInv

(* A walk that goes down from the root has come to the first page of the   *)
(* table, or begins there.                                                 *)
LEMMA UnmapEnterRootInv ==
    ASSUME IInv, RootInv, pc \in {"unmap", "undo"}, UnmapEnter, UNCHANGED <<fixed, req, ret, cnt>>
    PROVE  RootInv'
  <1>1. TypeOK /\ TreeInv /\ PathInv /\ RangeInv /\ pc \in Calls
    BY DEF IInv, Calls
  <1>2. UNCHANGED <<root, frames, mem, pc, req, cnt>> /\ lvl < 2 /\ idx[lvl] < PTE_NUMS /\ left > 0
        /\ (lvl = 0 \/ lvl = 1)
    BY <1>1 DEF UnmapEnter, fixed, TypeOK
  <1>3. Pte.v
    BY UnmapEntry
  <1>4. PTE_NEXTPGT(Pte) /\ Pte.ppn \in frames
    BY <1>1, <1>2, <1>3, PteIsTable
  <1>5. Enter(Pte.ppn, SV39_Index2Id(AtVa, lvl + 1)) /\ UNCHANGED left
    BY <1>4 DEF UnmapEnter
  <1>6. AtVa' = AtVa /\ SV39_Index2Id(AtVa, lvl + 1) \in 0..PTE_NUMS
    BY <1>1, <1>2, <1>4, <1>5, EnterRange
  <1>7. /\ lvl' = lvl + 1 /\ idx'[0] = idx[0] /\ cur'[lvl] = left
        /\ \A k \in 0..2 : k # lvl => cur'[k] = cur[k]
    BY <1>1, <1>2, <1>4, <1>5, <1>6, EnterFacts
  <1>8. cur'[0] = cnt' \/ AtVa' - (cur'[0] - left') = Addr(idx'[0], 0, 0)
    <2>1. CASE lvl = 0
      <3>1. left = cnt \/ AtVa = Addr(idx[0], 0, 0)
        BY <1>2, <2>1 DEF RootInv
      <3>2. AtVa \in Int /\ left \in Int
        BY <1>1 DEF AtVa, TypeOK
      <3>3. AtVa - (left - left) = AtVa
        BY <3>2
      <3> QED
        BY <1>2, <1>5, <1>6, <1>7, <2>1, <3>1, <3>3
    <2>2. CASE lvl = 1
      <3>1. cur[0] = cnt \/ AtVa - (cur[0] - left) = Addr(idx[0], 0, 0)
        BY <2>2 DEF RootInv
      <3> QED
        BY <1>2, <1>5, <1>6, <1>7, <2>2, <3>1
    <2> QED
      BY <1>2, <2>1, <2>2
  <1>9. ASSUME NEW i \in Slots, lvl' > 0 => i # idx'[0], req'.va <= Addr(i, 0, 0),
               Addr(i, PTE_NUMS, 0) <= AtVa'
        PROVE  ~mem'[root'][i].v
    <2>1. i # idx[0]
      BY <1>2, <1>7, <1>9
    <2> QED
      BY <1>2, <1>6, <1>9, <2>1 DEF RootInv
  <1> QED
    BY <1>2, <1>7, <1>8, <1>9 DEF RootInv

(* What giving a table back does to the root.                              *)
LEMMA UnmapLeaveRoot ==
    ASSUME IInv, pc \in {"unmap", "undo"}, UnmapLeave, UNCHANGED <<root, frames>>, NEW i \in Slots
    PROVE  /\ mem'[root][i] = mem[root][i] \/ mem'[root][i] = ZeroPte
           /\ lvl = 1 /\ cur[0] - left = PTE_NUMS * PTE_NUMS => mem'[root][idx[0]] = ZeroPte
  <1> USE DEF UnmapLeave
  <1>1. TypeOK /\ TreeInv /\ PathInv /\ RangeInv /\ UnmapInv /\ lvl > 0
    BY DEF IInv
  <1>2. lvl = 1 \/ lvl = 2
    BY <1>1 DEF TypeOK
  <1>3. tab[0] = root /\ root \in DOMAIN mem
    BY <1>1, PathInTree DEF TypeOK
  <1> DEFINE full == cur[lvl - 1] - left = SV39_INDEX_PAGES(lvl - 1)
  <1>4. full <=> cur[lvl - 1] - left = IF lvl = 2 THEN PTE_NUMS ELSE PTE_NUMS * PTE_NUMS
    BY <1>2 DEF SV39_INDEX_PAGES
  <1>5. (full => GiveBack) /\ (~full => UNCHANGED mem)
    OBVIOUS
  <1> HIDE DEF full
  <1>6. CASE full
    <2>1. \A k \in Slots : ~mem[tab[lvl]][k].v
      <3>1. CASE lvl = 2
        BY <1>1, <1>4, <1>6, <3>1, LeafTableEmpty
      <3>2. CASE lvl = 1
        BY <1>1, <1>4, <1>6, <3>2, MidTableEmpty
      <3> QED
        BY <1>2, <3>1, <3>2
    <2>2. GiveBack
      BY <1>5, <1>6
    <2>3. /\ idx[lvl - 1] \in Slots
          /\ \A k \in Slots : mem'[tab[lvl - 1]][k] =
               IF k = idx[lvl - 1] THEN ZeroPte ELSE mem[tab[lvl - 1]][k]
          /\ \A g \in DOMAIN mem, k \in Slots : mem'[g][k] = mem[g][k] \/ mem'[g][k] = ZeroPte
      BY <1>1, <2>1, <2>2, UnlinkTable
    <2> QED
      BY <1>3, <2>3
  <1>7. CASE ~full
    BY <1>2, <1>4, <1>5, <1>7
  <1> QED
    BY <1>6, <1>7

(* A table below the root that is left with its whole range behind it has  *)
(* been counted in full: its entry goes.                                   *)
LEMMA UnmapLeaveRootInv ==
    ASSUME IInv, RootInv, pc \in {"unmap", "undo"}, UnmapLeave, UNCHANGED <<fixed, req, ret, cnt>>
    PROVE  RootInv'
  <1>1. TypeOK /\ TreeInv /\ PathInv /\ RangeInv /\ UnmapInv /\ pc \in Calls
    BY DEF IInv, Calls
  <1>2. UNCHANGED <<root, frames, pc, req, cnt, left>> /\ Leave /\ lvl > 0
        /\ (idx[lvl] = PTE_NUMS \/ left = 0)
    BY DEF UnmapLeave, fixed
  <1>3. lvl = 1 \/ lvl = 2
    BY <1>1, <1>2 DEF TypeOK
  <1>4. RangeInv' /\ AtVa' = AtVa /\ (lvl = 2 /\ left > 0 => AtVa % PTE_NUMS = 0)
    BY <1>1, <1>2, LeaveRange
  <1>5. /\ lvl' = lvl - 1 /\ cur' = cur /\ idx'[lvl - 1] = idx[lvl - 1] + 1
        /\ lvl = 2 => idx'[0] = idx[0]
    BY <1>1, <1>2, <1>3, LeaveFacts
  <1>6. req.va \in Nat /\ cnt \in Nat /\ left \in 0..cnt /\ cur[0] \in Nat
        /\ idx \in [0..2 -> 0..PTE_NUMS] /\ AtVa \in Int
    BY <1>1 DEF TypeOK, AtVa
  <1>7. idx[0] \in Slots /\ idx[0] \in Nat
    BY <1>1, <1>2 DEF TypeOK, PathInv, Slots
  <1>8. cur[0] = cnt \/ AtVa - (cur[0] - left) = Addr(idx[0], 0, 0)
    BY <1>2 DEF RootInv
  <1>9. ASSUME NEW i \in Slots
        PROVE  /\ mem'[root][i] = mem[root][i] \/ mem'[root][i] = ZeroPte
               /\ lvl = 1 /\ cur[0] - left = PTE_NUMS * PTE_NUMS => mem'[root][idx[0]] = ZeroPte
    BY <1>1, <1>2, UnmapLeaveRoot
  <1>10. CASE lvl = 2
    <2>1. cur'[0] = cnt' \/ AtVa' - (cur'[0] - left') = Addr(idx'[0], 0, 0)
      BY <1>2, <1>4, <1>5, <1>8, <1>10
    <2>2. ASSUME NEW i \in Slots, i # idx'[0], req'.va <= Addr(i, 0, 0), Addr(i, PTE_NUMS, 0) <= AtVa'
          PROVE  ~mem'[root'][i].v
      <3>1. ~mem[root][i].v
        BY <1>2, <1>4, <1>5, <1>10, <2>2 DEF RootInv
      <3> QED
        BY <1>2, <1>9, <3>1, ZeroPteIsPte
    <2>3. lvl' = 1
      BY <1>5, <1>10
    <2> QED
      BY <2>1, <2>2, <2>3 DEF RootInv
  <1>11. CASE lvl = 1
    <2>1. lvl' = 0 /\ idx'[0] = idx[0] + 1
      BY <1>5, <1>11
    <2>2. ASSUME left > 0, left # cnt PROVE AtVa = Addr(idx[0] + 1, 0, 0)
      <3>1. idx[1] = PTE_NUMS /\ AtVa \div PTE_NUMS = PTE_NUMS * idx[0] + PTE_NUMS
        BY <1>1, <1>2, <1>6, <1>11, <2>2 DEF RangeInv
      <3>2. AtVa % PTE_NUMS = 0
        BY <1>1, <1>11, <2>2 DEF UnmapInv
      <3>3. AtVa \in Nat
        BY <1>6 DEF AtVa
      <3>4. AtVa = PTE_NUMS * (PTE_NUMS * idx[0] + PTE_NUMS) + 0
        BY <3>1, <3>2, <3>3, DivideBy
      <3>5. PTE_NUMS * idx[0] + PTE_NUMS = PTE_NUMS * (idx[0] + 1) + 0
        BY <1>7
      <3> QED
        BY <3>4, <3>5 DEF Addr
    <2>3. ASSUME req.va <= Addr(idx[0], 0, 0), Addr(idx[0], PTE_NUMS, 0) <= AtVa
          PROVE  cur[0] - left = PTE_NUMS * PTE_NUMS
      <3>1. /\ AtVa - (cur[0] - left) >= Addr(idx[0], 0, 0)
            /\ AtVa <= Addr(idx[0], PTE_NUMS, 0)
        BY <1>1, <1>11 DEF UnmapInv
      <3>2. Addr(idx[0], PTE_NUMS, 0) = Addr(idx[0], 0, 0) + PTE_NUMS * PTE_NUMS /\ Addr(idx[0], 0, 0) \in Nat
            /\ PTE_NUMS * PTE_NUMS \in Nat
        BY <1>7, AddrTable
      <3>3. AtVa = Addr(idx[0], 0, 0) + PTE_NUMS * PTE_NUMS
        BY <1>6, <2>3, <3>1, <3>2
      <3>4. CASE cur[0] = cnt
        <4>1. AtVa - (cur[0] - left) = req.va
          BY <1>6, <3>4 DEF AtVa
        <4>2. req.va = Addr(idx[0], 0, 0)
          BY <1>6, <2>3, <3>1, <3>2, <4>1
        <4>3. AtVa - (cur[0] - left) = Addr(idx[0], 0, 0)
          BY <4>1, <4>2
        <4> QED
          BY <1>6, <3>2, <3>3, <4>3
      <3>5. CASE AtVa - (cur[0] - left) = Addr(idx[0], 0, 0)
        BY <1>6, <3>2, <3>3, <3>5
      <3> QED
        BY <1>8, <3>4, <3>5
    <2>4. ASSUME NEW i \in Slots, req.va <= Addr(i, 0, 0), Addr(i, PTE_NUMS, 0) <= AtVa
          PROVE  ~mem'[root][i].v
      <3>1. CASE i = idx[0]
        BY <1>9, <1>11, <2>3, <2>4, <3>1, ZeroPteIsPte
      <3>2. CASE i # idx[0]
        <4>1. ~mem[root][i].v
          BY <2>4, <3>2 DEF RootInv
        <4> QED
          BY <1>9, <4>1, ZeroPteIsPte
      <3> QED
        BY <3>1, <3>2
    <2> QED
      BY <1>2, <1>4, <2>1, <2>2, <2>4 DEF RootInv
  <1> QED
    BY <1>3, <1>10, <1>11

LEMMA NextRootInv == IInv /\ RootInv /\ [Next]_vars => RootInv'
  <1> SUFFICES ASSUME IInv, RootInv, [Next]_vars PROVE RootInv'
    OBVIOUS
  <1>1. CASE UNCHANGED vars
    <2>1. UNCHANGED <<root, mem, pc, req, cnt, left, lvl, idx, cur>>
      BY <1>1 DEF vars
    <2>2. AtVa' = AtVa
      BY <2>1 DEF AtVa
    <2> QED
      BY <2>1, <2>2 DEF RootInv
  <1>2. CASE setup_earlyvm /\ UNCHANGED <<kern, frames, ret, call>>
    <2>1. pc' \notin {"unmap", "undo"}
      BY <1>2 DEF setup_earlyvm, EarlyEnter, EarlyGrow, EarlyPage, EarlyError, EarlyNext
    <2> QED
      BY <2>1 DEF RootInv
  <1>3. CASE \E r \in RANGES, off \in OFFSETS : Mmap(r[1], r[2], r[1] + off)
    <2>1. pc' = "mmap"
      BY <1>3 DEF Mmap, Start
    <2> QED
      BY <2>1 DEF RootInv
  <1>4. CASE \E r \in RANGES : Unmap(r[1], r[2])
    BY <1>4, UnmapRootInv
  <1>5. CASE UnmapAll
    <2>1. pc' = "unmap_all"
      BY <1>5 DEF UnmapAll, Start
    <2> QED
      BY <2>1 DEF RootInv
  <1>6. CASE vm_walkthrough
    <2>1. pc = "mmap" /\ UNCHANGED req
      BY <1>6 DEF vm_walkthrough
    <2>2. (\E r : MapFail(r)) \/ pc' \in {"mmap", "idle"}
      BY <1>6, <2>1 DEF vm_walkthrough, MapPage, MapExists, MapEnter, MapGrow, MapNoMem, MapLeave, Return
    <2>3. CASE \E r : MapFail(r)
      BY <2>1, <2>3, MapFailRootInv
    <2>4. CASE pc' \in {"mmap", "idle"}
      BY <2>4 DEF RootInv
    <2> QED
      BY <2>2, <2>3, <2>4
  <1>7. CASE riscv_unmap
    <2>1. pc \in {"unmap", "undo"} /\ UNCHANGED <<fixed, req, ret, cnt>>
      BY <1>7 DEF riscv_unmap
    <2>2. UnmapEnd => RootInv'
      BY DEF UnmapEnd, Return, RootInv
    <2> QED
      BY <1>7, <2>1, <2>2, UnmapPageRootInv, UnmapEnterRootInv, UnmapLeaveRootInv DEF riscv_unmap
  <1>8. CASE riscv_free_pgtable
    <2>1. pc' \in {"unmap_all", "idle"}
      BY <1>8 DEF riscv_free_pgtable, FreePage, FreeEnter, FreeSkip, FreeLeave, FreeEnd, Return
    <2> QED
      BY <2>1 DEF RootInv
  <1> QED
    BY <1>1, <1>2, <1>3, <1>4, <1>5, <1>6, <1>7, <1>8 DEF Next

(* The steps of hw_unmap that return.                                      *)
LEMMA UnmapReturns ==
    ASSUME IInv, Next, pc = "unmap", pc' = "idle"
    PROVE  UnmapEnd /\ UNCHANGED <<fixed, req, ret, cnt>>
  <1>2. ASSUME NEW op, NEW va, NEW n, NEW pa, NEW prot, Start(op, va, n, pa, prot) PROVE FALSE
    BY <1>2 DEF Start
  <1>3. riscv_unmap
    <2>1. ASSUME NEW r \in RANGES, NEW off \in OFFSETS, Mmap(r[1], r[2], r[1] + off) PROVE FALSE
      BY <1>2, <2>1 DEF Mmap
    <2>2. ASSUME NEW r \in RANGES, Unmap(r[1], r[2]) PROVE FALSE
      BY <1>2, <2>2 DEF Unmap
    <2>3. ~UnmapAll
      BY <1>2 DEF UnmapAll
    <2>4. ~setup_earlyvm /\ ~vm_walkthrough /\ ~riscv_free_pgtable
      BY DEF setup_earlyvm, vm_walkthrough, riscv_free_pgtable
    <2> QED
      BY <2>1, <2>2, <2>3, <2>4 DEF Next
  <1>4. (UnmapPage \/ UnmapEnter \/ UnmapLeave) => UNCHANGED pc
    BY DEF UnmapPage, UnmapEnter, UnmapLeave
  <1> QED
    BY <1>3, <1>4 DEF riscv_unmap

(* hw_unmap gives back every table, of either level below the root, whose  *)
(* whole range it has removed, however the range was mapped and wherever   *)
(* it begins.                                                              *)
THEOREM FullRangeFreedHolds == Spec => FullRangeFreed
  <1> DEFINE In(base, n) == base % n = 0 /\ req.va <= base /\ base + n <= req.va + req.n
             Goal(base) ==
               LET p0 == mem'[root][SV39_Index2Id(base, 0)]
               IN  /\ In(base, PTE_NUMS) => ~p0.v \/ ~mem'[p0.ppn][SV39_Index2Id(base, 1)].v
                   /\ In(base, PTE_NUMS * PTE_NUMS) => ~p0.v
             A == (pc = "unmap" /\ pc' = "idle") => \A base \in VAS : Goal(base)
  <1>1. ASSUME IInv, RootInv, Next, pc = "unmap", pc' = "idle", NEW base \in VAS
        PROVE  Goal(base)
    <2>1. UnmapEnd /\ UNCHANGED <<fixed, req, ret, cnt>>
      BY <1>1, UnmapReturns
    <2>2. mem' = mem /\ AtVa = req.va + cnt
      BY <1>1, <2>1, UnmapEndInv
    <2>3. /\ UnmapInv /\ cnt = req.n /\ req.va \in Nat /\ req.n \in Nat /\ lvl = 0
          /\ base \in Nat
      BY <1>1, <2>1 DEF IInv, UndoInv, TypeOK, UnmapEnd, VAS
    <2> DEFINE i == SV39_Index2Id(base, 0)
               j == SV39_Index2Id(base, 1)
               k == SV39_Index2Id(base, 2)
    <2>4. /\ i \in Slots /\ j \in Slots /\ base = Addr(i, j, k)
          /\ base % PTE_NUMS = k /\ base \div (PTE_NUMS * PTE_NUMS) = i
      BY AddrOfIndices
    <2>5. ASSUME In(base, PTE_NUMS) PROVE ~(mem[root][i].v /\ mem[mem[root][i].ppn][j].v)
      <3> HIDE DEF i, j, k
      <3>1. i \in Nat /\ j \in Nat /\ base = Addr(i, j, 0)
        BY <2>4, <2>5 DEF Slots
      <3>2. Addr(i, j, PTE_NUMS) = Addr(i, j, 0) + PTE_NUMS
        BY <3>1, AddrPlus
      <3>3. req.va <= Addr(i, j, 0) /\ Addr(i, j, PTE_NUMS) <= AtVa
        BY <2>2, <2>3, <2>5, <3>1, <3>2
      <3>4. ~Linked(i, j)
        BY <1>1, <2>3, <2>4, <3>3 DEF UnmapInv
      <3> QED
        BY <3>4 DEF Linked
    <2>6. ASSUME In(base, PTE_NUMS * PTE_NUMS) PROVE ~mem[root][i].v
      <3> HIDE DEF i, j, k
      <3>1. PTE_NUMS * PTE_NUMS \in Nat /\ PTE_NUMS * PTE_NUMS > 0 /\ i \in Nat
        BY <2>4 DEF Slots
      <3>2. base = (PTE_NUMS * PTE_NUMS) * i + 0
        <4>1. base = (PTE_NUMS * PTE_NUMS) * (base \div (PTE_NUMS * PTE_NUMS)) + (base % (PTE_NUMS * PTE_NUMS))
          BY <2>3, <3>1, DivideBy
        <4>2. base % (PTE_NUMS * PTE_NUMS) = 0
          BY <2>6
        <4> QED
          BY <2>4, <4>1, <4>2
      <3>3. base = Addr(i, 0, 0)
        BY <3>1, <3>2 DEF Addr
      <3>4. Addr(i, PTE_NUMS, 0) = Addr(i, 0, 0) + PTE_NUMS * PTE_NUMS
        BY <3>1, AddrTable
      <3>5. req.va <= Addr(i, 0, 0) /\ Addr(i, PTE_NUMS, 0) <= AtVa
        BY <2>2, <2>3, <2>6, <3>3, <3>4
      <3> QED
        BY <1>1, <2>3, <2>4, <3>5 DEF RootInv
    <2> QED
      BY <2>2, <2>5, <2>6
  <1>2. ASSUME IInv, RootInv, Next PROVE A
    BY <1>1, <1>2
  <1>3. ASSUME IInv, RootInv, [Next]_vars PROVE [A]_vars
    BY <1>2, <1>3
  <1>4. Init => RootInv
    BY DEF Init, EarlyInit, RootInv
  <1>5. IInv /\ RootInv /\ [Next]_vars => RootInv'
    BY NextRootInv
  <1> QED
    BY <1>3, <1>4, <1>5, IInvHolds, PTL DEF Spec, FullRangeFreed

-----------------------------------------------------------------------------
(* The tables implement the map that callers know.                         *)

LEMMA WalkPte ==
    ASSUME TypeOK, TreeInv, NEW va \in VAS
    PROVE  Walk(mem, root, va) \in Ptes
  <1>1. mem \in [DOMAIN mem -> [Slots -> Ptes]] /\ frames \subseteq DOMAIN mem
    BY DEF TypeOK, Tables
  <1>2. PICK i \in Slots, j \in Slots, k \in Slots : Walk(mem, root, va) = Leaf(mem, root, i, j, k)
    BY AddrOfIndices, WalkIsLeaf
  <1>3. root \in DOMAIN mem /\ Subs(mem, root) \subseteq DOMAIN mem
    BY <1>1, TreePages DEF TreeInv
  <1>4. CASE mem[root][i].v /\ mem[mem[root][i].ppn][j].v
    <2>1. mem[root][i].ppn \in Subs(mem, root)
      BY <1>4, SubsMember
    <2>2. mem[mem[root][i].ppn][j].ppn \in frames
      BY <1>4, <2>1 DEF TreeInv, Tree
    <2>3. mem[mem[mem[root][i].ppn][j].ppn][k] \in Ptes
      BY <1>1, <2>2
    <2> QED
      BY <1>2, <1>4, <2>3 DEF Leaf
  <1>5. CASE ~(mem[root][i].v /\ mem[mem[root][i].ppn][j].v)
    BY <1>2, <1>5, ZeroPteIsPte DEF Leaf
  <1> QED
    BY <1>4, <1>5

LEMMA TranslateValid ==
    ASSUME TypeOK, TreeInv, NEW va \in VAS, Valid(va)
    PROVE  Translate(va) # None
  <1>1. Walk(mem, root, va).ppn \in Nat
    BY WalkPte DEF Ptes
  <1> QED
    BY <1>1, CallAssumption DEF Translate, Valid

LEMMA TranslateNone ==
    ASSUME NEW va, ~Valid(va)
    PROVE  Translate(va) = None
  BY DEF Translate, Valid

LEMMA TranslateSame ==
    ASSUME NEW va, Walk(mem', root, va) = Walk(mem, root, va), UNCHANGED root
    PROVE  Translate(va)' = Translate(va)
  BY DEF Translate

LEMMA CubeNat == PTE_NUMS * PTE_NUMS * PTE_NUMS \in Nat
  BY PteNumsAssumption

(* What a caller sees in each state of a call.                             *)
LEMMA SeenIdle ==
    ASSUME NEW va
    PROVE  /\ pc = "idle" => MapSeen(va) = Translate(va)
           /\ pc' = "idle" => MapSeen(va)' = Translate(va)'
  BY DEF MapSeen

LEMMA SeenEarly ==
    ASSUME NEW va
    PROVE  /\ pc = "early" => MapSeen(va) =
                IF va \in req.va..(req.va + cnt - 1) THEN req.pa + (va - req.va) ELSE None
           /\ pc' = "early" => MapSeen(va)' =
                IF va \in req'.va..(req'.va + cnt' - 1) THEN req'.pa + (va - req'.va) ELSE None
  BY DEF MapSeen

LEMMA SeenMap ==
    ASSUME NEW va
    PROVE  /\ pc = "mmap" => MapSeen(va) = IF va \in req.va..(AtVa - 1) THEN None ELSE Translate(va)
           /\ pc' = "mmap" => MapSeen(va)' = IF va \in req'.va..(AtVa' - 1) THEN None ELSE Translate(va)'
  BY DEF MapSeen

LEMMA SeenUnmap ==
    ASSUME NEW va
    PROVE  /\ pc \in {"undo", "unmap"} => MapSeen(va) =
                IF va \in req.va..(req.va + cnt - 1) THEN None ELSE Translate(va)
           /\ pc' \in {"undo", "unmap"} => MapSeen(va)' =
                IF va \in req'.va..(req'.va + cnt' - 1) THEN None ELSE Translate(va)'
  BY DEF MapSeen

LEMMA SeenFree ==
    ASSUME NEW va
    PROVE  /\ pc = "unmap_all" => MapSeen(va) = None
           /\ pc' = "unmap_all" => MapSeen(va)' = None
  BY DEF MapSeen

(* A step that callers do not notice, ...                                  *)
Unseen == (\A va \in VAS : MapSeen(va)' = MapSeen(va)) /\ CallSeen' = CallSeen

LEMMA UnseenStutters ==
    ASSUME Unseen
    PROVE  UNCHANGED <<[va \in VAS |-> MapSeen(va)], CallSeen>>
  BY DEF Unseen

(* ... and those they do.                                                  *)
LEMMA SeenMmap ==
    ASSUME req.va \in VAS, req.n \in Nat, req.va + req.n - 1 \in VAS,
           req.pa \in PAS,
           CallSeen' = [op |-> "mmap", va |-> req.va, n |-> req.n, ret |-> "OK"],
           \A v \in req.va..(req.va + req.n - 1) : MapSeen(v) = None,
           \A v \in VAS : MapSeen(v)' =
             IF v \in req.va..(req.va + req.n - 1) THEN req.pa + (v - req.va) ELSE MapSeen(v)
    PROVE  Abstract!Next
  <1>0. PICK va \in VAS, n \in Nat, pa \in PAS :
           va = req.va /\ n = req.n /\ pa = req.pa
    OBVIOUS
  <1> DEFINE c == CallSeen'
             m == [v \in VAS |-> MapSeen(v)]
  <1>1. c.op = "mmap" /\ c.va = va /\ c.n = n /\ c.ret = "OK" /\ c \in Abstract!Calls
    BY <1>0 DEF Abstract!Calls
  <1>2. Abstract!Range(c.va, c.n) = va..(va + n - 1) /\ va..(va + n - 1) \subseteq VAS
    BY <1>0, <1>1 DEF Abstract!Range, VAS
  <1>3. \A v \in Abstract!Range(c.va, c.n) : m[v] = None
    BY <1>0, <1>2
  <1>4. [v \in VAS |-> MapSeen(v)'] = Abstract!MapRange(m, c.va, c.n, pa)
    BY <1>0, <1>1, <1>2 DEF Abstract!MapRange
  <1>5. c.op = "mmap" /\ c.ret = "OK" /\ Abstract!Range(c.va, c.n) \subseteq VAS
    BY <1>1, <1>2
  <1>6. Abstract!Mmap(c)
    <2> HIDE DEF c
    <2> QED
      BY <1>3, <1>4, <1>5 DEF Abstract!Mmap
  <1> QED
    BY <1>1, <1>6 DEF Abstract!Next

LEMMA SeenMmapFails ==
    ASSUME req.va \in VAS, req.n \in Nat, req.va + req.n - 1 \in VAS, NEW r \in {"EEXIST", "ENOMEM"},
           CallSeen' = [op |-> "mmap", va |-> req.va, n |-> req.n, ret |-> r],
           \A v \in VAS : MapSeen(v)' = MapSeen(v),
           r = "EEXIST" => \E v \in req.va..(req.va + req.n - 1) : MapSeen(v) # None
    PROVE  Abstract!Next
  <1>0. PICK va, n : va = req.va /\ n = req.n
    OBVIOUS
  <1> DEFINE c == CallSeen'
             m == [v \in VAS |-> MapSeen(v)]
  <1>1. c.op = "mmap" /\ c.va = va /\ c.n = n /\ c.ret = r /\ c \in Abstract!Calls
    BY <1>0 DEF Abstract!Calls
  <1>2. Abstract!Range(c.va, c.n) = va..(va + n - 1) /\ va..(va + n - 1) \subseteq VAS
    BY <1>0, <1>1 DEF Abstract!Range, VAS
  <1>3. [v \in VAS |-> MapSeen(v)'] = m
    OBVIOUS
  <1>4. r = "EEXIST" => \E v \in Abstract!Range(c.va, c.n) : m[v] # None
    BY <1>0, <1>2
  <1>5. c.op = "mmap" /\ c.ret \in {"EEXIST", "ENOMEM"} /\ Abstract!Range(c.va, c.n) \subseteq VAS
        /\ (c.ret = "EEXIST" => r = "EEXIST")
    BY <1>1, <1>2
  <1>6. Abstract!Mmap(c)
    <2> HIDE DEF c
    <2> QED
      BY <1>3, <1>4, <1>5 DEF Abstract!Mmap
  <1> QED
    BY <1>1, <1>6 DEF Abstract!Next

LEMMA SeenUnmapCall ==
    ASSUME NEW va \in VAS, NEW n \in Nat,
           CallSeen' = [op |-> "unmap", va |-> va, n |-> n, ret |-> "OK"],
           \A v \in VAS : MapSeen(v)' = IF v \in va..(va + n - 1) THEN None ELSE MapSeen(v)
    PROVE  Abstract!Next
  <1> DEFINE c == CallSeen'
             m == [v \in VAS |-> MapSeen(v)]
  <1>1. c.op = "unmap" /\ c.va = va /\ c.n = n /\ c.ret = "OK" /\ c \in Abstract!Calls
    BY DEF Abstract!Calls
  <1>2. [v \in VAS |-> MapSeen(v)'] = Abstract!UnmapRange(m, c.va, c.n)
    BY <1>1 DEF Abstract!UnmapRange, Abstract!Range
  <1> QED
    BY <1>1, <1>2 DEF Abstract!Next, Abstract!Unmap

LEMMA SeenUnmapAll ==
    ASSUME CallSeen' = [op |-> "unmap_all", va |-> 0, n |-> 0, ret |-> "OK"], 0 \in VAS,
           \A v \in VAS : MapSeen(v)' = None
    PROVE  Abstract!Next
  <1> DEFINE c == CallSeen'
  <1>1. c.op = "unmap_all" /\ c.ret = "OK" /\ c \in Abstract!Calls
    BY DEF Abstract!Calls
  <1>2. [v \in VAS |-> MapSeen(v)'] = [v \in VAS |-> None]
    OBVIOUS
  <1> QED
    BY <1>1, <1>2 DEF Abstract!Next, Abstract!UnmapAll

LEMMA SeenCall ==
    /\ pc \notin {"unmap", "unmap_all"} => CallSeen = call
    /\ pc' \notin {"unmap", "unmap_all"} => CallSeen' = call'
    /\ pc \in {"unmap", "unmap_all"} => CallSeen = [op |-> pc, va |-> req.va, n |-> req.n, ret |-> "OK"]
    /\ pc' \in {"unmap", "unmap_all"} =>
         CallSeen' = [op |-> pc', va |-> req'.va, n |-> req'.n, ret |-> "OK"]
  BY DEF CallSeen

(* The kernel is mapped from the start.                                    *)
LEMMA EarlySeen ==
    ASSUME IInv, pc = "early", EarlyEnter \/ EarlyGrow \/ EarlyPage,
           UNCHANGED <<lay, root, req, cnt, kern, frames, ret, call>>
    PROVE  Unseen
  <1>1. CASE pc' = "early"
    <2>1. CallSeen' = CallSeen
      BY <1>1, SeenCall
    <2>2. ASSUME NEW va \in VAS PROVE MapSeen(va)' = MapSeen(va)
      BY <1>1, SeenEarly
    <2> QED
      BY <2>1, <2>2 DEF Unseen
  <1>2. CASE pc' # "early"
    <2>1. EarlyPage
      BY <1>2, EarlyEnterInv, EarlyGrowInv
    <2>2. IInv' /\ pc' = "idle" /\ left = 1 /\ KernelVas' = KERNEL_OFFSET..AtVa
          /\ \A va \in VAS : va \notin KernelVas' => ~Valid(va)'
      BY <1>2, <2>1, EarlyPageInv
    <2>3. kern /\ req.va = KERNEL_OFFSET /\ req.pa = lay.start /\ cnt \in Nat /\ req.va \in Nat /\ req.pa \in Nat
      BY DEF IInv, EarlyInv, TypeOK
    <2>4. AtVa = req.va + cnt - 1
      BY <2>2, <2>3 DEF AtVa
    <2>5. CallSeen' = CallSeen
      BY <2>2, SeenCall
    <2>6. ASSUME NEW va \in VAS PROVE MapSeen(va)' = MapSeen(va)
      <3>1. MapSeen(va) = IF va \in req.va..(req.va + cnt - 1) THEN req.pa + (va - req.va) ELSE None
        BY SeenEarly
      <3>2. MapSeen(va)' = Translate(va)'
        BY <2>2, SeenIdle
      <3>3. va \in Nat
        BY DEF VAS
      <3>4. CASE va \in KernelVas'
        <4>1. va \in req.va..(req.va + cnt - 1)
          BY <2>2, <2>3, <2>4, <3>4
        <4>2. KernelMapStays' /\ kern'
          BY <2>2, <2>3 DEF IInv
        <4>3. Walk(mem', root', va).v /\ Walk(mem', root', va).ppn = va - KERNEL_OFFSET + lay'.start
          BY <3>4, <4>2 DEF KernelMapStays, SV39_Pa2PTE
        <4>4. Translate(va)' = va - KERNEL_OFFSET + lay.start
          BY <4>3 DEF Translate
        <4> QED
          BY <2>3, <3>1, <3>2, <3>3, <4>1, <4>4
      <3>5. CASE va \notin KernelVas'
        <4>1. va \notin req.va..(req.va + cnt - 1)
          BY <2>2, <2>3, <2>4, <3>5
        <4>2. Translate(va)' = None
          BY <2>2, <3>5 DEF Translate, Valid
        <4> QED
          BY <3>1, <3>2, <4>1, <4>2
      <3> QED
        BY <3>4, <3>5
    <2> QED
      BY <2>5, <2>6 DEF Unseen
  <1> QED
    BY <1>1, <1>2

(* A mapping starts: nothing is seen of it.                                *)
LEMMA MmapSeen ==
    ASSUME IInv, NEW r \in RANGES, NEW off \in OFFSETS, Mmap(r[1], r[2], r[1] + off)
    PROVE  Unseen
  <1>1. PICK prot \in PROTS : Start("mmap", r[1], r[2], r[1] + off, prot) /\ UNCHANGED fixed
    BY DEF Mmap
  <1>2. /\ pc = "idle" /\ pc' = "mmap" /\ UNCHANGED <<mem, root, call>>
        /\ req'.va = r[1] /\ cnt' = r[2] /\ left' = r[2]
    BY <1>1 DEF Start, fixed
  <1>3. r[1] \in Nat /\ r[2] \in Nat
    BY CallAssumption DEF VAS
  <1>4. AtVa' = r[1]
    BY <1>2, <1>3 DEF AtVa
  <1>5. CallSeen' = CallSeen
    BY <1>2, SeenCall
  <1>6. ASSUME NEW va \in VAS PROVE MapSeen(va)' = MapSeen(va)
    <2>1. MapSeen(va) = Translate(va)
      BY <1>2, SeenIdle
    <2>2. va \notin req'.va..(AtVa' - 1)
      BY <1>2, <1>3, <1>4
    <2>3. MapSeen(va)' = Translate(va)'
      BY <1>2, <2>2, SeenMap
    <2>4. Translate(va)' = Translate(va)
      BY <1>2, TranslateSame
    <2> QED
      BY <2>1, <2>3, <2>4
  <1> QED
    BY <1>5, <1>6 DEF Unseen

(* An unmap is seen when it starts.                                        *)
LEMMA UnmapSeen ==
    ASSUME IInv, NEW r \in RANGES, Unmap(r[1], r[2])
    PROVE  Abstract!Next
  <1>1. Start("unmap", r[1], r[2], 0, {}) /\ UNCHANGED fixed
    BY DEF Unmap
  <1>2. /\ pc = "idle" /\ pc' = "unmap" /\ UNCHANGED <<mem, root, call>>
        /\ req'.va = r[1] /\ req'.n = r[2] /\ cnt' = r[2]
    BY <1>1 DEF Start, fixed
  <1>3. r[1] \in VAS /\ r[2] \in Nat
    BY CallAssumption
  <1>4. CallSeen' = [op |-> "unmap", va |-> r[1], n |-> r[2], ret |-> "OK"]
    BY <1>2, SeenCall
  <1>5. ASSUME NEW va \in VAS
        PROVE  MapSeen(va)' = IF va \in r[1]..(r[1] + r[2] - 1) THEN None ELSE MapSeen(va)
    <2>1. MapSeen(va) = Translate(va)
      BY <1>2, SeenIdle
    <2>2. Translate(va)' = Translate(va)
      BY <1>2, TranslateSame
    <2>3. MapSeen(va)' = IF va \in r[1]..(r[1] + r[2] - 1) THEN None ELSE Translate(va)'
      BY <1>2, SeenUnmap
    <2> QED
      BY <2>1, <2>2, <2>3
  <1> QED
    BY <1>3, <1>4, <1>5, SeenUnmapCall

LEMMA UnmapAllSeen ==
    ASSUME IInv, UnmapAll
    PROVE  Abstract!Next
  <1>1. Start("unmap_all", 0, 0, 0, {}) /\ UNCHANGED fixed
    BY DEF UnmapAll
  <1>2. pc' = "unmap_all" /\ req'.va = 0 /\ req'.n = 0
    BY <1>1 DEF Start
  <1>3. CallSeen' = [op |-> "unmap_all", va |-> 0, n |-> 0, ret |-> "OK"]
    BY <1>2, SeenCall
  <1>4. \A v \in VAS : MapSeen(v)' = None
    BY <1>2, SeenFree
  <1>5. 0 \in VAS
    <2>1. 0 \in Slots
      BY DEF Slots
    <2>2. Addr(0, 0, 0) \in VAS
      BY <2>1, IndicesOfAddr
    <2> QED
      BY <2>2 DEF Addr
  <1> QED
    BY <1>3, <1>4, <1>5, SeenUnmapAll

(* Nothing is seen of a mapping between its pages, ...                     *)
LEMMA MapKeptSeen ==
    ASSUME pc = "mmap", pc' = "mmap", AtVa' = AtVa, UNCHANGED <<root, req, call>>,
           \A va \in VAS : Walk(mem', root, va) = Walk(mem, root, va)
    PROVE  Unseen
  <1>1. CallSeen' = CallSeen
    BY SeenCall
  <1>2. ASSUME NEW va \in VAS PROVE MapSeen(va)' = MapSeen(va)
    <2>1. Translate(va)' = Translate(va)
      BY TranslateSame
    <2> QED
      BY <2>1, SeenMap
  <1> QED
    BY <1>1, <1>2 DEF Unseen

(* ... and all of it when the last page is mapped.                         *)
LEMMA MapPageSeen ==
    ASSUME IInv, pc = "mmap", MapPage, UNCHANGED <<fixed, req>>
    PROVE  Unseen \/ Abstract!Next
  <1>1. /\ ~Valid(AtVa)
        /\ Walk(mem', root, AtVa) = SV39_Pa2PTE(req.pa + (AtVa - req.va), req.prot)
        /\ \A va \in VAS : va # AtVa => Walk(mem', root, va) = Walk(mem, root, va)
    BY MapPageInv
  <1>2. /\ root' = root /\ left' = left - 1 /\ cnt' = cnt
        /\ IF left = 1 THEN Return("OK") ELSE UNCHANGED <<pc, call>>
    BY DEF MapPage, fixed
  <1>3. /\ req.va \in Nat /\ req.n \in Nat /\ cnt \in Nat /\ left \in Nat /\ left <= cnt /\ left > 0 /\ cnt = req.n
        /\ req.pa \in Nat
        /\ \A va \in req.va..(AtVa - 1) : Walk(mem, root, va) = SV39_Pa2PTE(req.pa + (va - req.va), req.prot)
        /\ req.op = "mmap" /\ req.n > 0 /\ req.va + req.n <= PTE_NUMS * PTE_NUMS * PTE_NUMS
        /\ req.pa \in PAS
    BY DEF IInv, TypeOK, MapInv, ReqInv, Calls
  <1>4. AtVa \in Nat /\ AtVa' = AtVa + 1 /\ AtVa >= req.va /\ AtVa \in req.va..(req.va + req.n - 1)
    BY <1>2, <1>3 DEF AtVa
  <1>5. ASSUME NEW va \in VAS, va # AtVa PROVE Translate(va)' = Translate(va)
    BY <1>1, <1>2, <1>5, TranslateSame
  <1>6. Translate(AtVa) = None
    BY <1>1, TranslateNone
  <1>7. ASSUME NEW va \in VAS PROVE va \in Nat
    BY DEF VAS
  <1>8. CASE left # 1
    <2>1. pc' = "mmap" /\ call' = call
      BY <1>2, <1>8
    <2>2. CallSeen' = CallSeen
      BY <2>1, SeenCall
    <2>3. ASSUME NEW va \in VAS PROVE MapSeen(va)' = MapSeen(va)
      <3>1. MapSeen(va) = IF va \in req.va..(AtVa - 1) THEN None ELSE Translate(va)
        BY SeenMap
      <3>2. MapSeen(va)' = IF va \in req.va..AtVa THEN None ELSE Translate(va)'
        <4>1. req' = req /\ AtVa' - 1 = AtVa
          BY <1>4
        <4> QED
          BY <2>1, <4>1, SeenMap
      <3>3. CASE va = AtVa
        BY <1>4, <1>6, <3>1, <3>2, <3>3
      <3>4. CASE va # AtVa
        <4>1. va \in req.va..AtVa <=> va \in req.va..(AtVa - 1)
          BY <1>3, <1>4, <1>7, <3>4
        <4> QED
          BY <1>5, <3>1, <3>2, <3>4, <4>1
      <3> QED
        BY <3>3, <3>4
    <2> QED
      BY <2>2, <2>3 DEF Unseen
  <1>9. CASE left = 1
    <2>1. pc' = "idle" /\ call' = [op |-> "mmap", va |-> req.va, n |-> req.n, ret |-> "OK"]
      BY <1>2, <1>3, <1>9 DEF Return
    <2>2. CallSeen' = [op |-> "mmap", va |-> req.va, n |-> req.n, ret |-> "OK"]
      BY <2>1, SeenCall
    <2>3. AtVa = req.va + req.n - 1
      BY <1>3, <1>9 DEF AtVa
    <2>4. ASSUME NEW v \in VAS
          PROVE  /\ v \in req.va..(req.va + req.n - 1) => MapSeen(v) = None
                 /\ MapSeen(v)' = IF v \in req.va..(req.va + req.n - 1) THEN req.pa + (v - req.va) ELSE MapSeen(v)
      <3>1. MapSeen(v) = IF v \in req.va..(AtVa - 1) THEN None ELSE Translate(v)
        BY SeenMap
      <3>2. MapSeen(v)' = Translate(v)'
        BY <2>1, SeenIdle
      <3>3. CASE v = AtVa
        <4>1. Translate(v)' = req.pa + (v - req.va)
          BY <1>1, <1>2, <3>3 DEF Translate, SV39_Pa2PTE
        <4>2. v \in req.va..(req.va + req.n - 1) /\ v \notin req.va..(AtVa - 1)
          BY <1>3, <1>4, <3>3
        <4> QED
          BY <1>6, <3>1, <3>2, <3>3, <4>1, <4>2
      <3>4. CASE v # AtVa /\ v \in req.va..(req.va + req.n - 1)
        <4>1. v \in req.va..(AtVa - 1)
          BY <1>3, <1>4, <1>7, <2>3, <3>4
        <4>2. Translate(v) = req.pa + (v - req.va)
          BY <1>3, <4>1 DEF Translate, SV39_Pa2PTE
        <4> QED
          BY <1>5, <3>1, <3>2, <3>4, <4>1, <4>2
      <3>5. CASE v \notin req.va..(req.va + req.n - 1)
        <4>1. v # AtVa /\ v \notin req.va..(AtVa - 1)
          BY <1>3, <1>4, <1>7, <2>3, <3>5
        <4> QED
          BY <1>5, <3>1, <3>2, <3>5, <4>1
      <3> QED
        BY <3>3, <3>4, <3>5
    <2>5. req.va \in VAS /\ req.va + req.n - 1 \in VAS /\ req.va..(req.va + req.n - 1) \subseteq VAS
      BY <1>3, CubeNat DEF VAS
    <2>6. \A v \in req.va..(req.va + req.n - 1) : MapSeen(v) = None
      BY <2>4, <2>5
    <2>7. \A v \in VAS : MapSeen(v)' =
            IF v \in req.va..(req.va + req.n - 1) THEN req.pa + (v - req.va) ELSE MapSeen(v)
      BY <2>4
    <2>8. req.va \in VAS /\ req.n \in Nat /\ req.va + req.n - 1 \in VAS
          /\ req.pa \in PAS
      BY <1>3, <2>5
    <2> QED
      BY <2>2, <2>6, <2>7, <2>8, SeenMmap
  <1> QED
    BY <1>8, <1>9

(* A mapping that fails is seen to fail when nothing of it is left.        *)
LEMMA MapFailSeen ==
    ASSUME IInv, pc = "mmap", NEW r \in {"EEXIST", "ENOMEM"}, MapFail(r),
           r = "EEXIST" => Valid(AtVa), UNCHANGED <<fixed, req, mem, avail, tab, cur, panic>>
    PROVE  Unseen \/ Abstract!Next
  <1>1. /\ req.va \in Nat /\ req.n \in Nat /\ cnt \in Nat /\ left \in Nat /\ left <= cnt /\ left > 0 /\ cnt = req.n
        /\ req.op = "mmap" /\ req.n > 0 /\ req.va + req.n <= PTE_NUMS * PTE_NUMS * PTE_NUMS
    BY DEF IInv, TypeOK, MapInv, ReqInv, Calls
  <1>2. req.va \in VAS /\ req.n \in Nat /\ req.va + req.n - 1 \in VAS
    BY <1>1, CubeNat DEF VAS
  <1>3. mem' = mem /\ root' = root /\ req' = req
    BY DEF fixed
  <1>4. ASSUME NEW va \in VAS PROVE Translate(va)' = Translate(va)
    BY <1>3, TranslateSame
  <1>5. CASE left = cnt
    <2>1. pc' = "idle" /\ call' = [op |-> "mmap", va |-> req.va, n |-> req.n, ret |-> r]
      BY <1>1, <1>5 DEF MapFail, Return
    <2>2. CallSeen' = [op |-> "mmap", va |-> req.va, n |-> req.n, ret |-> r]
      BY <2>1, SeenCall
    <2>3. AtVa = req.va
      BY <1>1, <1>5 DEF AtVa
    <2>4. ASSUME NEW va \in VAS PROVE MapSeen(va) = Translate(va)
      <3>1. va \notin req.va..(AtVa - 1)
        BY <1>1, <2>3
      <3> QED
        BY <3>1, SeenMap
    <2>5. \A va \in VAS : MapSeen(va)' = MapSeen(va)
      BY <1>4, <2>1, <2>4, SeenIdle
    <2>6. r = "EEXIST" => \E v \in req.va..(req.va + req.n - 1) : MapSeen(v) # None
      <3> SUFFICES ASSUME r = "EEXIST" PROVE \E v \in req.va..(req.va + req.n - 1) : MapSeen(v) # None
        OBVIOUS
      <3>1. MapSeen(req.va) # None
        BY <1>2, <2>3, <2>4, TranslateValid DEF IInv
      <3>2. req.va \in req.va..(req.va + req.n - 1)
        BY <1>1
      <3> QED
        BY <3>1, <3>2
    <2> QED
      BY <1>2, <2>2, <2>5, <2>6, SeenMmapFails
  <1>6. CASE left # cnt
    <2>1. pc' = "undo" /\ call' = call /\ cnt' = cnt - left
      BY <1>6 DEF MapFail
    <2>2. CallSeen' = CallSeen
      BY <2>1, SeenCall
    <2>3. req'.va + cnt' - 1 = AtVa - 1
      BY <1>1, <1>3, <2>1 DEF AtVa
    <2>4. ASSUME NEW va \in VAS PROVE MapSeen(va)' = MapSeen(va)
      <3>1. MapSeen(va)' = IF va \in req'.va..(req'.va + cnt' - 1) THEN None ELSE Translate(va)'
        BY <2>1, SeenUnmap
      <3>2. MapSeen(va) = IF va \in req.va..(AtVa - 1) THEN None ELSE Translate(va)
        BY SeenMap
      <3> QED
        BY <1>3, <1>4, <2>3, <3>1, <3>2
    <2> QED
      BY <2>2, <2>4 DEF Unseen
  <1> QED
    BY <1>5, <1>6

LEMMA WalkSeen ==
    ASSUME IInv, vm_walkthrough
    PROVE  Unseen \/ Abstract!Next
  <1>1. pc = "mmap" /\ UNCHANGED <<fixed, req>>
    BY DEF vm_walkthrough
  <1>2. root' = root /\ req' = req
    BY <1>1 DEF fixed
  <1>3. CASE MapPage
    BY <1>1, <1>3, MapPageSeen
  <1>4. CASE MapExists
    <2>1. Valid(AtVa) /\ MapFail("EEXIST") /\ UNCHANGED <<fixed, req, mem, avail, tab, cur, panic>>
      BY <1>1, <1>4, MapExistsInv DEF MapExists
    <2> QED
      BY <1>1, <2>1, MapFailSeen
  <1>5. CASE MapNoMem
    <2>1. MapFail("ENOMEM") /\ UNCHANGED <<fixed, req, mem, avail, tab, cur, panic>>
      BY <1>1, <1>5 DEF MapNoMem
    <2> QED
      BY <1>1, <2>1, MapFailSeen
  <1>6. CASE MapEnter
    <2>1. /\ pc' = "mmap" /\ AtVa' = AtVa
          /\ \A va \in VAS : Walk(mem', root, va) = Walk(mem, root, va)
      BY <1>1, <1>6, MapEnterInv
    <2>2. call' = call
      BY <1>6, <2>1 DEF MapEnter, MapFail, Return
    <2> QED
      BY <1>1, <1>2, <2>1, <2>2, MapKeptSeen
  <1>7. CASE MapLeave
    <2>1. /\ pc' = "mmap" /\ AtVa' = AtVa
          /\ \A va \in VAS : Walk(mem', root, va) = Walk(mem, root, va)
      BY <1>1, <1>7, MapLeaveInv
    <2>2. call' = call
      BY <1>7, <2>1 DEF MapLeave, Return
    <2> QED
      BY <1>1, <1>2, <2>1, <2>2, MapKeptSeen
  <1>8. CASE \E f \in avail : MapGrow(f)
    <2>1. PICK f \in avail : MapGrow(f)
      BY <1>8
    <2>2. /\ pc' = "mmap" /\ AtVa' = AtVa
          /\ \A va \in VAS : Walk(mem', root, va) = Walk(mem, root, va)
      BY <1>1, <2>1, MapGrowInv
    <2>3. call' = call
      BY <2>1 DEF MapGrow
    <2> QED
      BY <1>1, <1>2, <2>2, <2>3, MapKeptSeen
  <1> QED
    BY <1>3, <1>4, <1>5, <1>6, <1>7, <1>8 DEF vm_walkthrough

(* Nothing is seen of an unmap or an undo that goes on, ...                *)
LEMMA UnmapKeptSeen ==
    ASSUME pc \in {"unmap", "undo"}, pc' = pc, UNCHANGED <<root, req, cnt, call>>,
           \A va \in VAS : va \notin req.va..(req.va + cnt - 1) => Walk(mem', root, va) = Walk(mem, root, va)
    PROVE  Unseen
  <1>1. CallSeen' = CallSeen
    BY DEF CallSeen
  <1>2. ASSUME NEW va \in VAS PROVE MapSeen(va)' = MapSeen(va)
    <2>1. va \notin req.va..(req.va + cnt - 1) => Translate(va)' = Translate(va)
      BY TranslateSame
    <2>2. /\ MapSeen(va) = IF va \in req.va..(req.va + cnt - 1) THEN None ELSE Translate(va)
          /\ MapSeen(va)' = IF va \in req'.va..(req'.va + cnt' - 1) THEN None ELSE Translate(va)'
      BY SeenUnmap
    <2> QED
      BY <2>1, <2>2
  <1> QED
    BY <1>1, <1>2 DEF Unseen

(* ... nor of the end of an unmap; the end of an undo is that of the       *)
(* mapping.                                                                *)
LEMMA UnmapEndSeen ==
    ASSUME IInv, pc \in {"unmap", "undo"}, UnmapEnd, UNCHANGED <<fixed, req, ret, cnt>>
    PROVE  Unseen \/ Abstract!Next
  <1>1. left = 0 /\ UNCHANGED <<mem, root, kern>> /\ AtVa = req.va + cnt
    BY UnmapEndInv
  <1>2. pc' = "idle" /\ call' = [op |-> req.op, va |-> req.va, n |-> req.n, ret |-> ret]
    BY DEF UnmapEnd, Return
  <1>3. CallSeen' = [op |-> req.op, va |-> req.va, n |-> req.n, ret |-> ret]
    BY <1>2, SeenCall
  <1>4. /\ req.va \in Nat /\ req.n \in Nat /\ cnt \in Nat
        /\ \A va \in req.va..(AtVa - 1) : ~Valid(va)
        /\ req.n > 0 /\ req.va + req.n <= PTE_NUMS * PTE_NUMS * PTE_NUMS
    BY DEF IInv, TypeOK, UnmapInv, ReqInv, Calls
  <1>5. ASSUME NEW va \in VAS
        PROVE  /\ MapSeen(va) = Translate(va)
               /\ MapSeen(va)' = MapSeen(va)
    <2>1. Translate(va)' = Translate(va)
      BY <1>1, TranslateSame
    <2>2. MapSeen(va)' = Translate(va)'
      BY <1>2, SeenIdle
    <2>3. va \in req.va..(req.va + cnt - 1) => Translate(va) = None
      BY <1>1, <1>4, TranslateNone
    <2>4. MapSeen(va) = IF va \in req.va..(req.va + cnt - 1) THEN None ELSE Translate(va)
      BY SeenUnmap
    <2> QED
      BY <2>1, <2>2, <2>3, <2>4
  <1>6. CASE pc = "unmap"
    <2>1. req.op = "unmap" /\ ret = "OK"
      BY <1>6 DEF IInv, UndoInv, ReqInv, Calls
    <2>2. CallSeen = [op |-> "unmap", va |-> req.va, n |-> req.n, ret |-> "OK"]
      BY <1>6, SeenCall
    <2> QED
      BY <1>3, <1>5, <2>1, <2>2 DEF Unseen
  <1>7. CASE pc = "undo"
    <2>1. req.op = "mmap" /\ ret \in {"EEXIST", "ENOMEM"} /\ cnt < req.n /\ (ret = "EEXIST" => Valid(req.va + cnt))
      BY <1>7 DEF IInv, UndoInv, ReqInv, Calls
    <2>2. req.va \in VAS /\ req.n \in Nat /\ req.va + req.n - 1 \in VAS /\ req.va + cnt \in VAS
      BY <1>4, <2>1, CubeNat DEF VAS
    <2>3. CallSeen' = [op |-> "mmap", va |-> req.va, n |-> req.n, ret |-> ret]
      BY <1>3, <2>1
    <2>4. \A va \in VAS : MapSeen(va)' = MapSeen(va)
      BY <1>5
    <2>5. ret = "EEXIST" => \E v \in req.va..(req.va + req.n - 1) : MapSeen(v) # None
      <3> SUFFICES ASSUME ret = "EEXIST" PROVE \E v \in req.va..(req.va + req.n - 1) : MapSeen(v) # None
        OBVIOUS
      <3>1. MapSeen(req.va + cnt) # None
        BY <1>5, <2>1, <2>2, TranslateValid DEF IInv
      <3>2. req.va + cnt \in req.va..(req.va + req.n - 1)
        BY <1>4, <2>1
      <3> QED
        BY <3>1, <3>2
    <2>6. PICK r \in {"EEXIST", "ENOMEM"} : r = ret
      BY <2>1
    <2> QED
      BY <2>2, <2>3, <2>4, <2>5, <2>6, SeenMmapFails
  <1> QED
    BY <1>6, <1>7

LEMMA UnmapStepSeen ==
    ASSUME IInv, riscv_unmap
    PROVE  Unseen \/ Abstract!Next
  <1>1. pc \in {"unmap", "undo"} /\ UNCHANGED <<fixed, req, ret, cnt>>
    BY DEF riscv_unmap
  <1>2. root' = root /\ req' = req /\ cnt' = cnt
    BY <1>1 DEF fixed
  <1>3. CASE UnmapPage \/ UnmapEnter \/ UnmapLeave
    <2>1. /\ pc' = pc
          /\ \A va \in VAS : va \notin req.va..(req.va + cnt - 1) => Walk(mem', root, va) = Walk(mem, root, va)
      BY <1>1, <1>3, UnmapPageInv, UnmapEnterInv, UnmapLeaveInv
    <2>2. call' = call
      BY <1>3 DEF UnmapPage, UnmapEnter, UnmapLeave
    <2> QED
      BY <1>1, <1>2, <2>1, <2>2, UnmapKeptSeen
  <1>4. CASE UnmapEnd
    BY <1>1, <1>4, UnmapEndSeen
  <1> QED
    BY <1>3, <1>4 DEF riscv_unmap

(* All is gone when hw_unmap_all starts.                                   *)
LEMMA FreeSeen ==
    ASSUME IInv, riscv_free_pgtable
    PROVE  Unseen
  <1>1. pc = "unmap_all" /\ UNCHANGED <<fixed, req, ret, cnt, left>>
    BY DEF riscv_free_pgtable
  <1>2. CASE FreePage \/ FreeEnter \/ FreeSkip \/ FreeLeave
    <2>1. pc' = pc /\ call' = call /\ req' = req
      BY <1>1, <1>2 DEF FreePage, FreeEnter, FreeSkip, FreeLeave
    <2>2. CallSeen' = CallSeen
      BY <1>1, <2>1, SeenCall
    <2>3. ASSUME NEW va \in VAS PROVE MapSeen(va)' = MapSeen(va)
      BY <1>1, <2>1, SeenFree
    <2> QED
      BY <2>2, <2>3 DEF Unseen
  <1>3. CASE FreeEnd
    <2>1. pc' = "idle" /\ call' = [op |-> "unmap_all", va |-> 0, n |-> 0, ret |-> "OK"]
          /\ idx[0] = PTE_NUMS /\ mem' = mem /\ root' = root
      BY <1>1, <1>3 DEF FreeEnd, Return, IInv, ReqInv, fixed
    <2>2. CallSeen' = CallSeen
      <3>1. CallSeen' = [op |-> "unmap_all", va |-> 0, n |-> 0, ret |-> "OK"]
        BY <2>1, SeenCall
      <3>2. req.va = 0 /\ req.n = 0
        BY <1>1 DEF IInv, ReqInv
      <3> QED
        BY <1>1, <3>1, <3>2, SeenCall
    <2>3. ASSUME NEW i \in Slots PROVE ~mem[root][i].v
      BY <1>1, <2>1, PteNumsAssumption DEF IInv, FreeInv, Slots
    <2>4. ASSUME NEW va \in VAS PROVE MapSeen(va)' = MapSeen(va)
      <3>1. MapSeen(va) = None
        BY <1>1, SeenFree
      <3>2. SV39_Index2Id(va, 0) \in Slots
        BY AddrOfIndices
      <3>3. ~Walk(mem, root, va).v
        BY <2>3, <3>2 DEF Walk, ZeroPte
      <3>4. Translate(va)' = None
        BY <2>1, <3>3 DEF Translate
      <3> QED
        BY <2>1, <3>1, <3>4, SeenIdle
    <2> QED
      BY <2>2, <2>4 DEF Unseen
  <1> QED
    BY <1>2, <1>3 DEF riscv_free_pgtable

(* The tables implement what vm.c is promised (HwMap): for tables of any   *)
(* size and any sequence of calls on any ranges, a mapping is seen as a    *)
(* whole when it returns 0, or not at all when a walk runs into a mapped   *)
(* page or out of pages half-way and is undone; an unmap removes its range *)
(* and no other translation; and no step of a walk disturbs one.           *)
THEOREM Refinement == Spec => ImplementsHwMap
  <1>1. Init => Abstract!Init
    <2> SUFFICES ASSUME Init PROVE Abstract!Init
      OBVIOUS
    <2>1. pc \in {"early", "idle"} /\ call = [op |-> "none", va |-> 0, n |-> 0, ret |-> "OK"]
      BY DEF Init, EarlyInit
    <2>2. CallSeen = call
      BY <2>1, SeenCall
    <2> QED
      BY <2>1, <2>2 DEF Abstract!Init
  <1>2. ASSUME IInv, [Next]_vars
        PROVE  [Abstract!Next]_<<[va \in VAS |-> MapSeen(va)], CallSeen>>
    <2>1. Unseen \/ Abstract!Next
      <3>1. CASE setup_earlyvm /\ UNCHANGED <<kern, frames, ret, call>>
        <4>1. pc = "early" /\ UNCHANGED <<lay, root, req, cnt, kern, frames, ret, call>>
              /\ (EarlyEnter \/ EarlyGrow \/ EarlyPage)
          BY <3>1 DEF setup_earlyvm
        <4> QED
          BY <1>2, <4>1, EarlySeen
      <3>2. CASE \E r \in RANGES, off \in OFFSETS : Mmap(r[1], r[2], r[1] + off)
        BY <1>2, <3>2, MmapSeen
      <3>3. CASE \E r \in RANGES : Unmap(r[1], r[2])
        BY <1>2, <3>3, UnmapSeen
      <3>4. CASE UnmapAll
        BY <1>2, <3>4, UnmapAllSeen
      <3>5. CASE vm_walkthrough
        BY <1>2, <3>5, WalkSeen
      <3>6. CASE riscv_unmap
        BY <1>2, <3>6, UnmapStepSeen
      <3>7. CASE riscv_free_pgtable
        BY <1>2, <3>7, FreeSeen
      <3>8. CASE UNCHANGED vars
        <4>1. UNCHANGED <<mem, root, pc, req, cnt, left, call>>
          BY <3>8 DEF vars
        <4> QED
          BY <4>1 DEF Unseen, MapSeen, CallSeen, Translate, AtVa
      <3> QED
        BY <1>2, <3>1, <3>2, <3>3, <3>4, <3>5, <3>6, <3>7, <3>8 DEF Next
    <2>2. Unseen => UNCHANGED <<[va \in VAS |-> MapSeen(va)], CallSeen>>
      BY UnseenStutters
    <2> QED
      BY <2>1, <2>2
  <1> QED
    BY <1>1, <1>2, IInvHolds, PTL DEF Spec, ImplementsHwMap, Abstract!Spec
=============================================================================
