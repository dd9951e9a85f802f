------------------------------ MODULE VmProofs ------------------------------
(***************************************************************************)
(* Proofs about Vm, for any number of CPUs, spaces, frames and areas, and  *)
(* any set of ranges the callers ask for inside the page table (VmCalls).  *)
(***************************************************************************)
EXTENDS VmCalls, FiniteSetTheorems, NaturalsInduction, WellFoundedInduction, TLAPS

PAS == HEADS \cup IOPAGES \cup {KERNEL_VA, KERNEL_VA + 1}
PROTS == {v[3] : v \in MMAPS} \cup {v[3] : v \in IOMAPS} \cup {TEXT.prot, DATA.prot}
AREAS == [typ : {"KERNEL", "IO", "MEMORY"}, va : Int, n : Nat \ {0}, pa : PAS,
          prot : PROTS, pgfm : HEADS \cup {None}]
FRAMES == [typ : {"BUDDY", "VMA_AREA"}, ref : Nat, order : ORDERS \cup {0}]
PCS == {"idle", "area", "hang", "undo", "unmap", "root", "dup", "free"}

TypeOK ==
    /\ free \in Nat /\ areas \in Int /\ panic \in BOOLEAN
    /\ pf \in [HEADS -> FRAMES]
    /\ st \in [SPACES -> {"free", "new", "live"}] /\ root \in [SPACES -> BOOLEAN]
    /\ list \in [SPACES -> Seq(AREAS)] /\ tree \in [SPACES -> SUBSET AREAS]
    /\ tabs \in [SPACES -> SUBSET Int] /\ \A s \in SPACES : IsFiniteSet(tabs[s])
    /\ hw = [s \in SPACES |-> hw[s]]
    /\ writer \in [SPACES -> CPUS \cup {None}] /\ readers \in [SPACES -> SUBSET CPUS]
    /\ pc \in [CPUS -> PCS] /\ l = [c \in CPUS |-> l[c]]

(* Only memory areas use blocks of the page allocator; the frame of an     *)
(* area is set when it is mapped.  An area is inside the page table.       *)
InTable(a) == a.va >= 0 /\ a.va + a.n <= VPNS
AreaOK(a)  == a \in AREAS /\ InTable(a) /\ (a.typ = "MEMORY" <=> a.pa \in HEADS)
NewOK(a)  == AreaOK(a) /\ a.pgfm = None
HungOK(a) == AreaOK(a) /\ a.pgfm = (IF a.typ = "MEMORY" THEN a.pa ELSE None)

(* The list is the tree in the order of the addresses.                     *)
Sorted(q) == \A i, j \in 1..Len(q) : i < j => q[i].va + q[i].n <= q[j].va

ListInv(s) ==
    /\ Sorted(list[s]) /\ Listed(list[s]) = tree[s]
    /\ \A a \in tree[s] : HungOK(a)

(* The areas the page table of s maps: one that is being unmapped is       *)
(* mapped until the end.                                                   *)
Unmapping(s) == {l[c].x : c \in {d \in CPUS : pc[d] = "unmap" /\ l[d].s = s}}

HwInv(s) ==
    /\ hw[s] = [v \in DOMAIN hw[s] |-> hw[s][v]]
    /\ \A a \in tree[s] \cup Unmapping(s) : \A v \in Entries(a) :
         v \in DOMAIN hw[s] /\ hw[s][v] = Pte(a, v)
    /\ \A v \in DOMAIN hw[s] : \E a \in tree[s] \cup Unmapping(s) : v \in Entries(a)

SpaceInv(s) ==
    /\ st[s] = "free" => ~root[s] /\ tree[s] = {} /\ list[s] = <<>> /\ tabs[s] = {}
    /\ st[s] = "live" => root[s]

(* What each CPU relies on at each label.                                  *)
Same(x, y) == x.typ = y.typ /\ x.va = y.va /\ x.n = y.n /\ x.prot = y.prot

MmapInv(c) ==
    LET b == l[c].blk
        x == l[c].x
    IN  /\ l[c].s \in SPACES /\ st[l[c].s] = "live" /\ NewOK(x)
        /\ pc[c] = "undo" => b # None
        /\ b = None => x.typ # "MEMORY"
        /\ b # None => /\ b \in HEADS /\ x.typ = "MEMORY" /\ x.pa = b
                       /\ FrameOK(pf, x) /\ pf[b].ref = 0

UnmapInv(c) ==
    LET s == l[c].s
        x == l[c].x
    IN  /\ s \in SPACES /\ (st[s] = "live" \/ (st[s] = "new" /\ s \in USERS)) /\ root[s]
        /\ AreaOK(x) /\ \A a \in tree[s] : ~Overlap(x, a)

RootInv(c) ==
    LET s == l[c].s
    IN  /\ s \in USERS /\ st[s] = "new" /\ ~root[s]
        /\ tree[s] = {} /\ list[s] = <<>> /\ tabs[s] = {}
        /\ l[c].src \in SPACES /\ st[l[c].src] = "live" /\ l[c].i = 1

DupInv(c) ==
    LET s == l[c].s
        src == l[c].src
        i == l[c].i
    IN  /\ s \in USERS /\ st[s] = "new" /\ root[s]
        /\ src \in SPACES /\ st[src] = "live"
        /\ i \in 1..(Len(list[src]) + 1) /\ Len(list[s]) = i - 1
        /\ \A j \in 1..(i - 1) : Same(list[s][j], list[src][j])

FreeInv(c) == l[c].s \in USERS /\ st[l[c].s] = "new" /\ root[l[c].s]

CallInv(c) ==
    /\ pc[c] \in {"area", "hang", "undo"} => MmapInv(c)
    /\ pc[c] = "unmap" => UnmapInv(c)
    /\ pc[c] = "root" => RootInv(c)
    /\ pc[c] = "dup" => DupInv(c)
    /\ pc[c] = "free" => FreeInv(c)

(* The lock of a space says who is inside; a space that is being made or   *)
(* freed belongs to one CPU, and a block in hand too.                      *)
LockInv ==
    \A s \in SPACES :
        /\ \A c \in CPUS : writer[s] = c <=> (pc[c] \in {"unmap", "free"} /\ l[c].s = s)
        /\ \A c \in CPUS : c \in readers[s] <=> (pc[c] = "dup" /\ l[c].src = s)
        /\ writer[s] # None => readers[s] = {}

Owns(c) == pc[c] \in {"unmap", "root", "dup", "free"}
OwnerInv ==
    \A c, d \in CPUS : c # d =>
        /\ Owns(c) /\ Owns(d) => l[c].s # l[d].s
        /\ InHand(c) /\ InHand(d) => l[c].blk # l[d].blk

(* Blocks                                                                  *)
FrameInv(f) ==
    /\ pf[f].typ = "BUDDY" => pf[f] = NoFrame /\ Sharers(f) = {}
    /\ pf[f].typ # "BUDDY" => /\ pf[f].order \in ORDERS
                              /\ pf[f].ref = Cardinality(Sharers(f))
                              /\ pf[f].ref = 0 => f \in InFlight

ShareInv ==
    \A x, y \in AllAreas :
        /\ x[2].typ = "MEMORY" => FrameOK(pf, x[2])
        /\ x[2].typ = "MEMORY" /\ "W" \in x[2].prot /\ x[2].pa = y[2].pa => x = y

CountInv ==
    areas = Cardinality(AllAreas) + Cardinality({c \in CPUS : pc[c] \in {"hang", "unmap"}})

FiniteInv == IsFiniteSet(AllAreas) /\ IsFiniteSet(Blocks) /\ IsFiniteSet(Tables)

IInv ==
    /\ TypeOK /\ ~panic /\ st[KVMA] = "live"
    /\ \A s \in SPACES : ListInv(s) /\ HwInv(s) /\ SpaceInv(s)
    /\ \A c \in CPUS : CallInv(c)
    /\ LockInv /\ OwnerInv
    /\ \A f \in HEADS : FrameInv(f)
    /\ ShareInv /\ CountInv /\ FiniteInv

-----------------------------------------------------------------------------
(* Numbers, intervals and lists.                                           *)

(* Every nonempty set of naturals has a least element.                     *)
LEMMA LeastNatural ==
    ASSUME NEW T, T \subseteq Nat, T # {}
    PROVE  \E x \in T : \A y \in T : ~(y < x)
<1> DEFINE R == {ss \in Nat \X Nat : ss[1] < ss[2]}
<1>1. IsWellFoundedOn(R, Nat)
  BY NatLessThanWellFounded, Zenon DEF OpToRel
<1> HIDE DEF R
<1>2. PICK x \in T : \A y \in T : ~(<<y, x>> \in R)
  BY <1>1, WFMin
<1>3. \A y \in T : ~(y < x)
  BY <1>2 DEF R
<1> QED
  BY <1>3

(* Areas that do not overlap have no page in common, and one is before the *)
(* other.                                                                  *)
LEMMA OverlapFacts ==
    ASSUME NEW x \in AREAS, NEW y \in AREAS
    PROVE  /\ Overlap(x, y) <=> Pages(x.va, x.n) \cap Pages(y.va, y.n) # {}
           /\ Overlap(x, y) <=> Overlap(y, x)
           /\ Overlap(x, x)
           /\ ~Overlap(x, y) => x.va + x.n <= y.va \/ y.va + y.n <= x.va
<1>1. x.va \in Int /\ x.n \in Nat \ {0} /\ y.va \in Int /\ y.n \in Nat \ {0}
  BY DEF AREAS
<1>2. ASSUME Overlap(x, y) PROVE Pages(x.va, x.n) \cap Pages(y.va, y.n) # {}
  <2>1. CASE x.va <= y.va
    BY <1>1, <1>2, <2>1 DEF Overlap, Pages
  <2>2. CASE y.va <= x.va
    BY <1>1, <1>2, <2>2 DEF Overlap, Pages
  <2> QED
    BY <1>1, <2>1, <2>2
<1>3. ASSUME NEW v \in Pages(x.va, x.n) \cap Pages(y.va, y.n) PROVE Overlap(x, y)
  BY <1>1 DEF Overlap, Pages
<1> QED
  BY <1>1, <1>2, <1>3 DEF Overlap

(* A sorted list has no element twice.                                     *)
LEMMA SortedFacts ==
    ASSUME NEW q \in Seq(AREAS), Sorted(q), NEW i \in 1..Len(q), NEW j \in 1..Len(q)
    PROVE  /\ q[i] = q[j] => i = j
           /\ q[i].va <= q[j].va => i <= j
           /\ Overlap(q[i], q[j]) => i = j
<1>1. q[i] \in AREAS /\ q[j] \in AREAS
  OBVIOUS
<1>2. q[i].va \in Int /\ q[i].n \in Nat \ {0} /\ q[j].va \in Int /\ q[j].n \in Nat \ {0}
  BY <1>1 DEF AREAS
<1>3. /\ i < j => q[i].va + q[i].n <= q[j].va
      /\ j < i => q[j].va + q[j].n <= q[i].va
  BY DEF Sorted
<1> QED
  BY <1>2, <1>3 DEF Overlap

(* The place of a new area is between those before it and those behind it. *)
LEMMA PlaceFacts ==
    ASSUME NEW q \in Seq(AREAS), NEW t \in SUBSET AREAS, NEW a \in AREAS,
           Sorted(q), Listed(q) = t, \A b \in t : ~Overlap(a, b)
    PROVE  /\ Place(q, t, a) \in 1..(Len(q) + 1)
           /\ \A i \in 1..Len(q) :
                /\ i < Place(q, t, a) => q[i].va + q[i].n <= a.va
                /\ i >= Place(q, t, a) => a.va + a.n <= q[i].va
<1> DEFINE bef == {b \in t : b.va < a.va}
           K == {i \in 1..Len(q) : q[i].va < a.va}
<1>0. /\ q \in Seq(AREAS) /\ Len(q) \in Nat
      /\ \A i \in 1..Len(q) : q[i] \in t /\ q[i] \in AREAS
      /\ \A b \in t : b \in AREAS /\ \E i \in 1..Len(q) : q[i] = b
  BY DEF Listed
<1>1. ASSUME NEW i \in 1..Len(q)
      PROVE  /\ q[i].va < a.va => q[i].va + q[i].n <= a.va
             /\ ~(q[i].va < a.va) => a.va + a.n <= q[i].va
             /\ q[i].va \in Int
  <2>1. q[i] \in AREAS /\ ~Overlap(a, q[i])
    BY <1>0
  <2>2. /\ q[i].va \in Int /\ q[i].n \in Nat \ {0} /\ a.va \in Int /\ a.n \in Nat \ {0}
    BY <2>1 DEF AREAS
  <2> QED
    BY <2>1, <2>2 DEF Overlap
<1>a. a.va \in Int
  BY DEF AREAS
<1>2. CASE bef = {}
  <2>1. Place(q, t, a) = 1
    BY <1>2 DEF Place
  <2>2. ASSUME NEW i \in 1..Len(q) PROVE ~(q[i].va < a.va)
    BY <1>0, <1>2
  <2> QED
    BY <1>0, <1>1, <2>1, <2>2
<1>3. CASE bef # {}
  <2>1. PICK b0 \in t : b0.va < a.va
    BY <1>3
  <2>2. PICK i0 \in 1..Len(q) : q[i0] = b0
    BY <1>0
  <2>3. {Len(q) - i : i \in K} \subseteq Nat /\ {Len(q) - i : i \in K} # {}
    BY <1>0, <2>1, <2>2
  <2>4. PICK m \in {Len(q) - i : i \in K} : \A y \in {Len(q) - i : i \in K} : ~(y < m)
    BY <2>3, LeastNatural
  <2>5. PICK k \in K : \A i \in K : i <= k
    <3>1. PICK k \in K : m = Len(q) - k
      BY <2>4
    <3>2. \A i \in K : ~(Len(q) - i < m)
      BY <2>4
    <3> QED
      BY <1>0, <3>1, <3>2
  <2>6. k \in 1..Len(q) /\ q[k].va < a.va
    OBVIOUS
  <2>7. ASSUME NEW x \in bef PROVE x.va <= q[k].va
    <3>1. PICK i \in 1..Len(q) : q[i] = x
      BY <1>0
    <3>2. i \in K
      BY <3>1
    <3>3. i <= k
      BY <2>5, <3>2
    <3>4. i < k => q[i].va + q[i].n <= q[k].va
      BY <2>6, <3>1 DEF Sorted
    <3>5. q[i].va \in Int /\ q[i].n \in Nat /\ q[k].va \in Int
      BY <1>0, <2>6 DEF AREAS
    <3> QED
      BY <2>6, <3>1, <3>3, <3>4, <3>5
  <2> DEFINE prev == CHOOSE b \in bef : \A x \in bef : x.va <= b.va
  <2>8. q[k] \in bef
    BY <1>0, <2>6
  <2>9. prev \in bef /\ \A x \in bef : x.va <= prev.va
    BY <2>7, <2>8
  <2> HIDE DEF prev
  <2>10. PICK j \in 1..Len(q) : q[j] = prev
    BY <1>0, <2>9
  <2>11. j = k
    <3>1. j \in K
      BY <2>9, <2>10
    <3>2. j <= k
      BY <2>5, <3>1
    <3>3. q[k].va <= q[j].va
      BY <2>8, <2>9, <2>10
    <3>4. k <= j
      BY <2>6, <3>3, SortedFacts
    <3> QED
      BY <2>6, <3>2, <3>4
  <2> DEFINE at == CHOOSE i \in 1..Len(q) : q[i] = prev
  <2>12. at = k
    <3>1. at \in 1..Len(q) /\ q[at] = prev
      BY <2>10
    <3> HIDE DEF at
    <3> QED
      BY <3>1, <2>6, <2>10, <2>11, SortedFacts
  <2>13. Place(q, t, a) = 1 + at
    BY <1>3 DEF Place, prev
  <2> HIDE DEF at
  <2>14. Place(q, t, a) = k + 1
    BY <2>6, <2>12, <2>13
  <2>15. ASSUME NEW i \in 1..Len(q), i <= k PROVE q[i].va < a.va
    <3>1. i < k => q[i].va + q[i].n <= q[k].va
      BY <2>6 DEF Sorted
    <3>2. q[i].va \in Int /\ q[i].n \in Nat /\ q[k].va \in Int
      BY <1>0, <2>6 DEF AREAS
    <3> QED
      BY <1>a, <2>6, <2>15, <3>1, <3>2
  <2>16. ASSUME NEW i \in 1..Len(q), i > k PROVE ~(q[i].va < a.va)
    BY <2>5, <2>6, <2>16
  <2> QED
    BY <1>0, <1>1, <2>6, <2>14, <2>15, <2>16
<1> QED
  BY <1>2, <1>3

(* node_add_aft between smaller and larger areas keeps the list sorted.    *)
LEMMA ListAddFacts ==
    ASSUME NEW q \in Seq(AREAS), Sorted(q), NEW a \in AREAS, NEW p \in 1..(Len(q) + 1),
           \A i \in 1..Len(q) : /\ i < p => q[i].va + q[i].n <= a.va
                                /\ i >= p => a.va + a.n <= q[i].va
    PROVE  /\ ListAdd(q, p, a) \in Seq(AREAS) /\ Len(ListAdd(q, p, a)) = Len(q) + 1
           /\ Sorted(ListAdd(q, p, a))
           /\ Listed(ListAdd(q, p, a)) = Listed(q) \cup {a}
           /\ p = Len(q) + 1 => /\ ListAdd(q, p, a)[p] = a
                                /\ \A i \in 1..Len(q) : ListAdd(q, p, a)[i] = q[i]
<1> DEFINE t == [i \in 1..(Len(q) + 1) |-> IF i < p THEN q[i] ELSE IF i = p THEN a ELSE q[i - 1]]
<1>1. ListAdd(q, p, a) = t
  BY DEF ListAdd
<1>2. Len(q) \in Nat /\ \A i \in 1..Len(q) : q[i] \in AREAS
  OBVIOUS
<1>3. ASSUME NEW i \in 1..(Len(q) + 1)
      PROVE  /\ t[i] \in AREAS
             /\ i < p => i \in 1..Len(q) /\ t[i] = q[i]
             /\ i = p => t[i] = a
             /\ i > p => i - 1 \in 1..Len(q) /\ t[i] = q[i - 1]
  BY <1>2
<1>4. t \in Seq(AREAS) /\ Len(t) = Len(q) + 1
  BY <1>2, <1>3
<1> HIDE DEF t
<1>5. Sorted(t)
  <2> SUFFICES ASSUME NEW i \in 1..Len(t), NEW j \in 1..Len(t), i < j
               PROVE  t[i].va + t[i].n <= t[j].va
    BY DEF Sorted
  <2>1. /\ i \in 1..(Len(q) + 1) /\ j \in 1..(Len(q) + 1)
    BY <1>4
  <2>2. CASE j < p
    <3>1. /\ i \in 1..Len(q) /\ j \in 1..Len(q) /\ t[i] = q[i] /\ t[j] = q[j]
      BY <1>3, <2>1, <2>2
    <3> QED
      BY <3>1 DEF Sorted
  <2>3. CASE j = p
    <3>1. i \in 1..Len(q) /\ t[i] = q[i] /\ t[j] = a /\ i < p
      BY <1>3, <2>1, <2>3
    <3> QED
      BY <3>1
  <2>4. CASE j > p /\ i < p
    <3>1. i \in 1..Len(q) /\ t[i] = q[i] /\ j - 1 \in 1..Len(q) /\ t[j] = q[j - 1] /\ i < j - 1
      BY <1>3, <2>1, <2>4
    <3> QED
      BY <3>1 DEF Sorted
  <2>5. CASE j > p /\ i = p
    <3>1. t[i] = a /\ j - 1 \in 1..Len(q) /\ t[j] = q[j - 1] /\ j - 1 >= p
      BY <1>3, <2>1, <2>5
    <3> QED
      BY <3>1
  <2>6. CASE i > p
    <3>1. /\ i - 1 \in 1..Len(q) /\ t[i] = q[i - 1] /\ j - 1 \in 1..Len(q) /\ t[j] = q[j - 1]
          /\ i - 1 < j - 1
      BY <1>3, <2>1, <2>6
    <3> QED
      BY <3>1 DEF Sorted
  <2> QED
    BY <2>1, <2>2, <2>3, <2>4, <2>5, <2>6
<1>6. ASSUME NEW i \in 1..Len(t) PROVE t[i] \in Listed(q) \cup {a}
  <2>1. i \in 1..(Len(q) + 1)
    BY <1>4
  <2>2. /\ i < p => i \in 1..Len(q) /\ t[i] = q[i]
        /\ i = p => t[i] = a
        /\ i > p => i - 1 \in 1..Len(q) /\ t[i] = q[i - 1]
    BY <1>3, <2>1
  <2> QED
    BY <2>1, <2>2 DEF Listed
<1>7. ASSUME NEW x \in Listed(q) PROVE x \in Listed(t)
  <2>1. PICK i \in 1..Len(q) : q[i] = x
    BY DEF Listed
  <2>2. CASE i < p
    BY <1>2, <1>3, <1>4, <2>1, <2>2 DEF Listed
  <2>3. CASE i >= p
    <3>1. i + 1 \in 1..(Len(q) + 1) /\ i + 1 > p /\ (i + 1) - 1 = i
      BY <1>2, <2>3
    <3>2. t[i + 1] = q[(i + 1) - 1]
      BY <1>3, <3>1
    <3> QED
      BY <1>4, <2>1, <3>1, <3>2 DEF Listed
  <2> QED
    BY <2>2, <2>3
<1>8. a \in Listed(t)
  BY <1>3, <1>4 DEF Listed
<1>9. Listed(t) = Listed(q) \cup {a}
  BY <1>6, <1>7, <1>8 DEF Listed
<1>10. ASSUME p = Len(q) + 1 PROVE t[p] = a /\ \A i \in 1..Len(q) : t[i] = q[i]
  BY <1>2, <1>3, <1>10
<1> QED
  BY <1>1, <1>4, <1>5, <1>9, <1>10

(* list_del takes one area off the list and keeps the others in order.     *)
LEMMA ListDelFacts ==
    ASSUME NEW q \in Seq(AREAS), Sorted(q), NEW a \in Listed(q)
    PROVE  /\ ListDel(q, a) \in Seq(AREAS) /\ Len(ListDel(q, a)) = Len(q) - 1
           /\ Sorted(ListDel(q, a)) /\ Listed(ListDel(q, a)) = Listed(q) \ {a}
<1> DEFINE at == CHOOSE i \in 1..Len(q) : q[i] = a
           t == [i \in 1..(Len(q) - 1) |-> IF i < at THEN q[i] ELSE q[i + 1]]
<1>1. at \in 1..Len(q) /\ q[at] = a
  BY DEF Listed
<1>2. ListDel(q, a) = t
  BY DEF ListDel
<1> HIDE DEF at
<1>3. Len(q) - 1 \in Nat /\ \A i \in 1..Len(q) : q[i] \in AREAS
  BY <1>1
<1>4. ASSUME NEW i \in 1..(Len(q) - 1)
      PROVE  /\ t[i] \in AREAS /\ i \in 1..Len(q) /\ i + 1 \in 1..Len(q)
             /\ i < at => t[i] = q[i]
             /\ i >= at => t[i] = q[i + 1]
  BY <1>1, <1>3
<1>5. t \in Seq(AREAS) /\ Len(t) = Len(q) - 1
  BY <1>3, <1>4
<1> HIDE DEF t
<1>6. Sorted(t)
  <2> SUFFICES ASSUME NEW i \in 1..Len(t), NEW j \in 1..Len(t), i < j
               PROVE  t[i].va + t[i].n <= t[j].va
    BY DEF Sorted
  <2>1. /\ i \in 1..(Len(q) - 1) /\ j \in 1..(Len(q) - 1)
    BY <1>5
  <2>2. \E g, h \in 1..Len(q) : g < h /\ t[i] = q[g] /\ t[j] = q[h]
    <3>1. /\ i \in 1..Len(q) /\ i + 1 \in 1..Len(q) /\ (i < at => t[i] = q[i]) /\ (i >= at => t[i] = q[i + 1])
          /\ j \in 1..Len(q) /\ j + 1 \in 1..Len(q) /\ (j < at => t[j] = q[j]) /\ (j >= at => t[j] = q[j + 1])
      BY <1>4, <2>1
    <3>2. CASE j < at
      <4>1. i < j /\ t[i] = q[i] /\ t[j] = q[j]
        BY <1>1, <3>1, <3>2
      <4> QED
        BY <3>1, <4>1
    <3>3. CASE j >= at /\ i < at
      <4>1. i < j + 1 /\ t[i] = q[i] /\ t[j] = q[j + 1]
        BY <1>1, <3>1, <3>3
      <4> QED
        BY <3>1, <4>1
    <3>4. CASE j >= at /\ i >= at
      <4>1. i + 1 < j + 1 /\ t[i] = q[i + 1] /\ t[j] = q[j + 1]
        BY <1>1, <3>1, <3>4
      <4> QED
        BY <3>1, <4>1
    <3> QED
      BY <1>1, <3>1, <3>2, <3>3, <3>4
  <2> QED
    BY <2>2 DEF Sorted
<1>7. ASSUME NEW i \in 1..(Len(q) - 1) PROVE t[i] \in Listed(q) \ {a}
  <2>1. \A k \in 1..Len(q) : q[k] \in Listed(q) /\ (q[k] = a => k = at)
    BY <1>1, SortedFacts DEF Listed
  <2>2. CASE i < at
    BY <1>1, <1>4, <2>1, <2>2
  <2>3. CASE i >= at
    <3>1. i + 1 # at
      BY <1>1, <2>3
    <3> QED
      BY <1>4, <2>1, <2>3, <3>1
  <2> QED
    BY <1>1, <2>2, <2>3
<1>8. ASSUME NEW x \in Listed(q) \ {a} PROVE x \in Listed(t)
  <2>1. PICK i \in 1..Len(q) : q[i] = x
    BY DEF Listed
  <2>2. i # at
    BY <1>1, <2>1
  <2>3. CASE i < at
    <3>1. i \in 1..(Len(q) - 1)
      BY <1>1, <2>3
    <3>2. t[i] = x
      BY <1>4, <2>1, <2>3, <3>1
    <3> QED
      BY <1>5, <3>1, <3>2 DEF Listed
  <2>4. CASE i > at
    <3>1. i - 1 \in 1..(Len(q) - 1) /\ i - 1 >= at /\ (i - 1) + 1 = i
      BY <1>1, <2>4
    <3>2. t[i - 1] = x
      BY <1>4, <2>1, <3>1
    <3> QED
      BY <1>5, <3>1, <3>2 DEF Listed
  <2> QED
    BY <1>1, <2>2, <2>3, <2>4
<1>9. Listed(t) = Listed(q) \ {a}
  BY <1>5, <1>7, <1>8 DEF Listed
<1> QED
  BY <1>2, <1>5, <1>6, <1>9

(* A finite set of integers has a largest element.                         *)
LEMMA LargestInteger ==
    ASSUME NEW G \in SUBSET Int, IsFiniteSet(G), G # {}
    PROVE  \E r \in G : \A q \in G : q <= r
<1> DEFINE below(r) == {q \in G : q < r}
           rank(r) == Cardinality(below(r))
           T == {Cardinality(G) - rank(r) : r \in G}
<1>1. \A r \in G : below(r) \in SUBSET G /\ r \in Int
  OBVIOUS
<1>2. ASSUME NEW q \in G, NEW r \in G, r < q
      PROVE  below(r) \cup {r} \in SUBSET below(q) /\ r \notin below(r)
  <2>1. ASSUME NEW x \in below(r) PROVE x \in below(q)
    <3>1. x \in G /\ x \in Int /\ x < r /\ q \in Int /\ r \in Int
      BY <1>1
    <3>2. x < q
      BY <1>2, <3>1
    <3> QED
      BY <3>1, <3>2
  <2>2. r \in below(q)
    BY <1>2
  <2>3. r \notin below(r)
    BY <1>1
  <2> HIDE DEF below
  <2> QED
    BY <2>1, <2>2, <2>3
<1> HIDE DEF below
<1>3. ASSUME NEW r \in G
      PROVE  IsFiniteSet(below(r)) /\ rank(r) \in Nat /\ rank(r) <= Cardinality(G)
  BY <1>1, FS_Subset, FS_CardinalityType
<1>4. Cardinality(G) \in Nat
  BY FS_CardinalityType
<1>5. ASSUME NEW q \in G, NEW r \in G, r < q PROVE rank(r) + 1 <= rank(q)
  <2>1. below(r) \cup {r} \in SUBSET below(q) /\ r \notin below(r)
    BY <1>2, <1>5
  <2>2. Cardinality(below(r) \cup {r}) = rank(r) + 1
    BY <1>3, <2>1, FS_AddElement
  <2> QED
    BY <1>3, <2>1, <2>2, FS_Subset
<1> HIDE DEF rank
<1>6. T \subseteq Nat /\ T # {}
  <2>1. \A r \in G : Cardinality(G) - rank(r) \in Nat
    BY <1>3, <1>4
  <2> QED
    BY <2>1
<1>7. PICK m \in T : \A y \in T : ~(y < m)
  BY <1>6, LeastNatural
<1>8. PICK r \in G : m = Cardinality(G) - rank(r)
  BY <1>7
<1>9. ASSUME NEW q \in G PROVE q <= r
  <2>1. ~(Cardinality(G) - rank(q) < m)
    BY <1>7
  <2>2. ~(r < q)
    BY <1>3, <1>4, <1>5, <1>8, <2>1
  <2> QED
    BY <1>1, <2>2
<1> QED
  BY <1>9

(* The first n elements of a finite set of integers are at most n.         *)
LEMMA FirstElements ==
    ASSUME NEW S \in SUBSET Int, IsFiniteSet(S), NEW n \in Nat, NEW G \in SUBSET S,
           \A r \in G : Cardinality({q \in S : q < r}) < n
    PROVE  IsFiniteSet(G) /\ Cardinality(G) \in Nat /\ Cardinality(G) <= n
<1>1. IsFiniteSet(G) /\ Cardinality(G) \in Nat
  BY FS_Subset, FS_CardinalityType
<1>2. CASE G = {}
  BY <1>1, <1>2, FS_EmptySet
<1>3. CASE G # {}
  <2>1. PICK r \in G : \A q \in G : q <= r
    BY <1>1, <1>3, LargestInteger
  <2> DEFINE B == {q \in S : q < r}
  <2>2. IsFiniteSet(B) /\ Cardinality(B) \in Nat
    BY FS_Subset, FS_CardinalityType
  <2>3. G \ {r} \in SUBSET B
    BY <2>1
  <2>4. Cardinality(B) < n
    OBVIOUS
  <2> HIDE DEF B
  <2>5. Cardinality(G \ {r}) = Cardinality(G) - 1
    BY <1>1, FS_RemoveElement
  <2>6. Cardinality(G \ {r}) <= Cardinality(B)
    BY <2>2, <2>3, FS_Subset
  <2> QED
    BY <1>1, <2>2, <2>4, <2>5, <2>6
<1> QED
  BY <1>2, <1>3

-----------------------------------------------------------------------------
(* The tables of a space.                                                  *)

LEMMA NeedFacts ==
    ASSUME TypeOK, NEW s \in SPACES, NEW a \in AREAS
    PROVE  Need(s, a) \in SUBSET Int /\ IsFiniteSet(Need(s, a)) /\ Need(s, a) \cap tabs[s] = {}
<1> DEFINE ps == Vpns(a.va, a.n)
           rs == {v \div REGION : v \in ps}
           f == [v \in ps |-> v \div REGION]
<1>1. VPNS - 1 \in Int /\ 0 \in Int /\ REGION \in Nat \ {0}
  BY VmAssumption
<1>2. ps \in SUBSET Int /\ IsFiniteSet(ps)
  <2>1. ps \in SUBSET (0..(VPNS - 1)) /\ IsFiniteSet(0..(VPNS - 1))
    BY <1>1, FS_Interval DEF Vpns
  <2>2. ps \in SUBSET Int
    BY <1>1, <2>1
  <2> HIDE DEF ps
  <2> QED
    BY <2>1, <2>2, FS_Subset
<1> HIDE DEF ps
<1>3. rs \in SUBSET Int
  BY <1>1, <1>2
<1>4. f \in Surjection(ps, rs)
  BY DEF Surjection
<1>5. IsFiniteSet(rs)
  BY <1>2, <1>4, FS_Surjection
<1>6. Need(s, a) = rs \ tabs[s]
  BY DEF Need, ps
<1> HIDE DEF rs
<1>7. rs \ tabs[s] \in SUBSET rs
  OBVIOUS
<1> QED
  BY <1>3, <1>5, <1>6, <1>7, FS_Subset

LEMMA MmapTabsFacts ==
    ASSUME TypeOK, NEW s \in SPACES, NEW a \in AREAS, NEW n \in Nat
    PROVE  /\ MmapTabs(s, a, n) \in SUBSET Int /\ IsFiniteSet(MmapTabs(s, a, n))
           /\ MmapFree(s, a, n) \in Nat
<1> DEFINE need == Need(s, a)
           get == Get(s, a, n)
           has == tabs[s] \cup get
           T == MmapTabs(s, a, n)
<1>1. need \in SUBSET Int /\ IsFiniteSet(need) /\ need \cap tabs[s] = {}
  BY NeedFacts
<1>2. tabs[s] \in SUBSET Int /\ IsFiniteSet(tabs[s]) /\ Cardinality(tabs[s]) \in Nat
  BY FS_CardinalityType DEF TypeOK
<1>3. get \in SUBSET need /\ \A r \in get : Cardinality({q \in need : q < r}) < n
  BY DEF Get
<1> HIDE DEF need, get
<1>4. IsFiniteSet(get) /\ Cardinality(get) \in Nat /\ Cardinality(get) <= n
  BY <1>1, <1>3, FirstElements
<1>5. IsFiniteSet(has) /\ has \in SUBSET Int /\ Cardinality(has) \in Nat
      /\ Cardinality(has) <= Cardinality(tabs[s]) + n
  <2>1. Cardinality(tabs[s] \cap get) \in Nat
    BY <1>2, FS_Intersection, FS_CardinalityType
  <2>2. IsFiniteSet(has) /\ Cardinality(has) = Cardinality(tabs[s]) + Cardinality(get) - Cardinality(tabs[s] \cap get)
    BY <1>2, <1>4, FS_Union
  <2>3. Cardinality(has) \in Nat
    BY <2>2, FS_CardinalityType
  <2> HIDE DEF has
  <2>4. Cardinality(has) <= Cardinality(tabs[s]) + n
    BY <1>2, <1>4, <2>1, <2>2, <2>3
  <2> QED
    BY <1>1, <1>2, <1>3, <2>2, <2>3, <2>4 DEF has
<1>6. T = tabs[s] \/ T = has \/ \E W : T = has \ W
  BY DEF MmapTabs, get
<1>7. T = tabs[s] \/ T \in SUBSET has
  BY <1>6
<1> HIDE DEF has, T
<1>8. IsFiniteSet(T) /\ T \in SUBSET Int /\ Cardinality(T) \in Nat /\ Cardinality(T) <= Cardinality(tabs[s]) + n
  <2>1. CASE T = tabs[s]
    BY <1>2, <2>1
  <2>2. CASE T \in SUBSET has
    <3>1. IsFiniteSet(T) /\ Cardinality(T) \in Nat /\ Cardinality(T) <= Cardinality(has)
      BY <1>5, <2>2, FS_Subset, FS_CardinalityType
    <3>2. T \in SUBSET Int
      BY <1>5, <2>2
    <3> QED
      BY <1>2, <1>5, <3>1, <3>2
  <2> QED
    BY <1>7, <2>1, <2>2
<1>9. MmapFree(s, a, n) = n + Cardinality(tabs[s]) - Cardinality(T)
  BY DEF MmapFree, T
<1>10. MmapFree(s, a, n) \in Nat
  BY <1>2, <1>8, <1>9
<1> QED
  BY <1>8, <1>10 DEF T

LEMMA WholeFacts ==
    ASSUME NEW ts \in SUBSET Int, IsFiniteSet(ts), NEW ps
    PROVE  /\ Whole(ts, ps) \in SUBSET ts /\ IsFiniteSet(Whole(ts, ps))
           /\ Cardinality(Whole(ts, ps)) \in Nat
           /\ IsFiniteSet(ts \ Whole(ts, ps)) /\ ts \ Whole(ts, ps) \in SUBSET Int
<1>1. Whole(ts, ps) \in SUBSET ts
  BY DEF Whole
<1> QED
  BY <1>1, FS_Subset, FS_CardinalityType

-----------------------------------------------------------------------------
(* The areas of a space.                                                   *)

(* Inside the page table a page has its own entry.                         *)
LEMMA InTableFacts ==
    ASSUME NEW a, AreaOK(a)
    PROVE  /\ Vpns(a.va, a.n) = Pages(a.va, a.n) /\ HwUnmapOK(a)
           /\ Entries(a) = IF Valid(a) THEN Pages(a.va, a.n) ELSE {}
<1>1. a.va \in 0..(VPNS - 1) /\ a.n \in Nat \ {0} /\ a.va + a.n <= VPNS /\ VPNS \in Nat \ {0}
  BY VmAssumption DEF AreaOK, AREAS, InTable
<1>2. Vpn(a.va) = a.va
  BY <1>1 DEF Vpn
<1>3. Vpns(a.va, a.n) = Pages(a.va, a.n)
  BY <1>1, <1>2 DEF Vpns, Pages
<1> QED
  BY <1>1, <1>2, <1>3 DEF HwUnmapOK, Entries

(* __vm_mmap returns 0: the area was not refused and its pages were not    *)
(* mapped.                                                                 *)
LEMMA MmapRetFacts ==
    ASSUME NEW s, NEW a, NEW n, MmapRet(s, a, n) = "OK"
    PROVE  /\ \A b \in tree[s] : ~Overlap(a, b)
           /\ Entries(a) \cap DOMAIN hw[s] = {}
           /\ HwMmap(s, a, n) = "OK" /\ ~Refused(s, a)
<1>1. ~Refused(s, a) /\ HwMmap(s, a, n) = "OK"
  BY DEF MmapRet
<1>2. Reached(s, a, n) \cap DOMAIN hw[s] = {} /\ Get(s, a, n) = Need(s, a)
  BY <1>1 DEF HwMmap
<1>3. Entries(a) \in SUBSET Reached(s, a, n)
  BY <1>2 DEF Reached, Entries
<1> QED
  BY <1>1, <1>2, <1>3 DEF Refused

LEMMA MappedFacts ==
    ASSUME NEW a, NewOK(a)
    PROVE  /\ HungOK(Mapped(a)) /\ Mapped(a) \in AREAS /\ Same(Mapped(a), a) /\ Mapped(a).pa = a.pa
           /\ \A v : Pte(Mapped(a), v) = Pte(a, v)
           /\ \A b : Overlap(Mapped(a), b) <=> Overlap(a, b)
           /\ \A b : Overlap(b, Mapped(a)) <=> Overlap(b, a)
           /\ Entries(Mapped(a)) = Entries(a)
<1>1. a \in AREAS /\ (a.typ = "MEMORY" => a.pa \in HEADS)
  BY DEF NewOK, AreaOK
<1>2. CASE a.typ # "MEMORY"
  BY <1>1, <1>2 DEF Mapped, NewOK, HungOK, Same
<1>3. CASE a.typ = "MEMORY"
  <2>1. Mapped(a) = [typ |-> a.typ, va |-> a.va, n |-> a.n, pa |-> a.pa, prot |-> a.prot, pgfm |-> a.pa]
    BY <1>3 DEF Mapped, Area
  <2>2. Mapped(a) \in AREAS
    BY <1>1, <1>3, <2>1 DEF AREAS
  <2>3. /\ Mapped(a).typ = a.typ /\ Mapped(a).va = a.va /\ Mapped(a).n = a.n
        /\ Mapped(a).pa = a.pa /\ Mapped(a).prot = a.prot /\ Mapped(a).pgfm = a.pa
    BY <2>1
  <2> QED
    BY <1>1, <1>3, <2>2, <2>3 DEF NewOK, AreaOK, InTable, HungOK, Same, Pte, Overlap, Entries, Valid
<1> QED
  BY <1>2, <1>3

(* vma_area_hang of an area that overlaps none.                            *)
LEMMA HangFacts ==
    ASSUME TypeOK, NEW s \in SPACES, ListInv(s), NEW a, HungOK(a),
           \A b \in tree[s] : ~Overlap(a, b), vma_area_hang(s, a)
    PROVE  /\ list' \in [SPACES -> Seq(AREAS)] /\ tree' \in [SPACES -> SUBSET AREAS]
           /\ tree' = [tree EXCEPT ![s] = tree[s] \cup {a}] /\ a \notin tree[s]
           /\ \A t \in SPACES : t # s => list'[t] = list[t] /\ tree'[t] = tree[t]
           /\ tree'[s] = tree[s] \cup {a}
           /\ ListInv(s)' /\ Len(list'[s]) = Len(list[s]) + 1
           /\ (\A i \in 1..Len(list[s]) : list[s][i].va + list[s][i].n <= a.va) =>
                /\ list'[s][Len(list[s]) + 1] = a
                /\ \A i \in 1..Len(list[s]) : list'[s][i] = list[s][i]
<1> DEFINE q == list[s]
           t == tree[s]
           p == Place(q, t, a)
           r == ListAdd(q, p, a)
<1>1. q \in Seq(AREAS) /\ t \in SUBSET AREAS /\ a \in AREAS /\ Sorted(q) /\ Listed(q) = t
  BY DEF TypeOK, ListInv, HungOK, AreaOK
<1>2. list' = [list EXCEPT ![s] = r] /\ tree' = [tree EXCEPT ![s] = t \cup {a}]
  BY DEF vma_area_hang
<1>3. \A b \in t : ~Overlap(a, b)
  OBVIOUS
<1>4. list \in [SPACES -> Seq(AREAS)] /\ tree \in [SPACES -> SUBSET AREAS]
  BY DEF TypeOK
<1>5. \A b \in t : HungOK(b)
  BY DEF ListInv
<1> HIDE DEF q, t
<1>6. /\ p \in 1..(Len(q) + 1)
      /\ \A i \in 1..Len(q) : /\ i < p => q[i].va + q[i].n <= a.va
                              /\ i >= p => a.va + a.n <= q[i].va
  BY <1>1, <1>3, PlaceFacts
<1> HIDE DEF p
<1>7. /\ r \in Seq(AREAS) /\ Len(r) = Len(q) + 1 /\ Sorted(r) /\ Listed(r) = t \cup {a}
      /\ p = Len(q) + 1 => r[p] = a /\ \A i \in 1..Len(q) : r[i] = q[i]
  BY <1>1, <1>6, ListAddFacts
<1> HIDE DEF r
<1>8. a \notin t
  BY <1>1, <1>3, OverlapFacts
<1>9. ASSUME \A i \in 1..Len(q) : q[i].va + q[i].n <= a.va PROVE p = Len(q) + 1
  <2>1. Len(q) \in Nat
    BY <1>1
  <2>2. ASSUME p \in 1..Len(q) PROVE FALSE
    <3>1. q[p].va + q[p].n <= a.va /\ a.va + a.n <= q[p].va
      BY <1>6, <1>9, <2>2
    <3>2. q[p] \in AREAS
      BY <1>1, <2>2
    <3> QED
      BY <1>1, <3>1, <3>2 DEF AREAS
  <2> QED
    BY <1>6, <2>1, <2>2
<1>10. list'[s] = r /\ tree'[s] = t \cup {a}
  BY <1>2, <1>4
<1>11. /\ list' \in [SPACES -> Seq(AREAS)] /\ tree' \in [SPACES -> SUBSET AREAS]
       /\ \A u \in SPACES : u # s => list'[u] = list[u] /\ tree'[u] = tree[u]
  <2>1. t \cup {a} \in SUBSET AREAS
    BY <1>1
  <2> QED
    BY <1>2, <1>4, <1>7, <2>1
<1>12. ListInv(s)'
  BY <1>5, <1>7, <1>10 DEF ListInv
<1>13. (\A i \in 1..Len(q) : q[i].va + q[i].n <= a.va) =>
          r[Len(q) + 1] = a /\ \A i \in 1..Len(q) : r[i] = q[i]
  BY <1>7, <1>9
<1> QED
  BY <1>2, <1>7, <1>8, <1>10, <1>11, <1>12, <1>13 DEF q, t

LEMMA UnhangFacts ==
    ASSUME TypeOK, NEW s \in SPACES, ListInv(s), NEW a \in tree[s], vma_area_unhang(s, a)
    PROVE  /\ list' \in [SPACES -> Seq(AREAS)] /\ tree' \in [SPACES -> SUBSET AREAS]
           /\ tree' = [tree EXCEPT ![s] = tree[s] \ {a}]
           /\ \A t \in SPACES : t # s => list'[t] = list[t] /\ tree'[t] = tree[t]
           /\ tree'[s] = tree[s] \ {a}
           /\ ListInv(s)'
<1> DEFINE q == list[s]
           t == tree[s]
           r == ListDel(q, a)
<1>1. q \in Seq(AREAS) /\ t \in SUBSET AREAS /\ Sorted(q) /\ Listed(q) = t
  BY DEF TypeOK, ListInv
<1>2. list' = [list EXCEPT ![s] = r] /\ tree' = [tree EXCEPT ![s] = t \ {a}]
  BY DEF vma_area_unhang
<1>4. list \in [SPACES -> Seq(AREAS)] /\ tree \in [SPACES -> SUBSET AREAS]
  BY DEF TypeOK
<1>5. \A b \in t : HungOK(b)
  BY DEF ListInv
<1>6. a \in t
  OBVIOUS
<1> HIDE DEF q, t
<1>7. r \in Seq(AREAS) /\ Sorted(r) /\ Listed(r) = t \ {a}
  BY <1>1, <1>6, ListDelFacts
<1> HIDE DEF r
<1>10. list'[s] = r /\ tree'[s] = t \ {a}
  BY <1>2, <1>4
<1>11. /\ list' \in [SPACES -> Seq(AREAS)] /\ tree' \in [SPACES -> SUBSET AREAS]
       /\ \A u \in SPACES : u # s => list'[u] = list[u] /\ tree'[u] = tree[u]
  <2>1. t \ {a} \in SUBSET AREAS
    BY <1>1
  <2> QED
    BY <1>2, <1>4, <1>7, <2>1
<1>12. ListInv(s)'
  BY <1>5, <1>7, <1>10 DEF ListInv
<1> QED
  BY <1>2, <1>10, <1>11, <1>12 DEF t

-----------------------------------------------------------------------------
(* A step of one CPU.                                                      *)

OthersStay(c) == \A d \in CPUS : d # c => pc'[d] = pc[d] /\ l'[d] = l[d]

LEMMA GotoFacts ==
    ASSUME TypeOK, NEW c \in CPUS, NEW p \in PCS, NEW x, NEW ok, Goto(c, p, x, ok)
    PROVE  /\ pc'[c] = p /\ l'[c] = x /\ OthersStay(c)
           /\ pc' \in [CPUS -> PCS] /\ l' = [d \in CPUS |-> l'[d]]
           /\ panic' \in BOOLEAN /\ (ok => ~panic')
<1>1. pc \in [CPUS -> PCS] /\ l = [d \in CPUS |-> l[d]]
  BY DEF TypeOK
<1>2. pc' = [pc EXCEPT ![c] = p] /\ l' = [l EXCEPT ![c] = x] /\ panic' = ~ok
  BY DEF Goto
<1>3. pc'[c] = p /\ pc' \in [CPUS -> PCS] /\ \A d \in CPUS : d # c => pc'[d] = pc[d]
  BY <1>1, <1>2
<1>4. l'[c] = x /\ l' = [d \in CPUS |-> l'[d]] /\ \A d \in CPUS : d # c => l'[d] = l[d]
  BY <1>1, <1>2, Zenon
<1>5. panic' \in BOOLEAN /\ (ok => ~panic')
  BY <1>2, Zenon
<1> QED
  BY <1>3, <1>4, <1>5 DEF OthersStay

(* Which areas are being unmapped.                                         *)
LEMMA UnmappingOf ==
    ASSUME LockInv, NEW s \in SPACES
    PROVE  /\ writer[s] = None => Unmapping(s) = {}
           /\ \A c \in CPUS : pc[c] = "unmap" /\ l[c].s = s => Unmapping(s) = {l[c].x}
           /\ \A c \in CPUS : pc[c] = "free" /\ l[c].s = s => Unmapping(s) = {}
<1>1. \A d \in CPUS : pc[d] \in {"unmap", "free"} /\ l[d].s = s => writer[s] = d
  BY DEF LockInv
<1>2. None \notin CPUS
  BY VmAssumption
<1>3. writer[s] = None => Unmapping(s) = {}
  BY <1>1, <1>2 DEF Unmapping
<1>4. ASSUME NEW c \in CPUS, pc[c] = "unmap", l[c].s = s PROVE Unmapping(s) = {l[c].x}
  BY <1>1, <1>4 DEF Unmapping
<1>5. ASSUME NEW c \in CPUS, pc[c] = "free", l[c].s = s PROVE Unmapping(s) = {}
  <2>1. \A d \in CPUS : pc[d] = "unmap" /\ l[d].s = s => d = c
    BY <1>1, <1>5
  <2> QED
    BY <1>5, <2>1 DEF Unmapping
<1> QED
  BY <1>3, <1>4, <1>5

LEMMA UnmappingKept ==
    ASSUME NEW c \in CPUS, OthersStay(c), NEW s, pc[c] # "unmap" \/ l[c].s # s,
           pc'[c] # "unmap" \/ l'[c].s # s
    PROVE  Unmapping(s)' = Unmapping(s)
<1> DEFINE U == {d \in CPUS : pc[d] = "unmap" /\ l[d].s = s}
           V == {d \in CPUS : pc'[d] = "unmap" /\ l'[d].s = s}
<1>1. \A d \in CPUS : d # c => pc'[d] = pc[d] /\ l'[d] = l[d]
  BY DEF OthersStay
<1>2. U = V
  BY <1>1
<1>3. c \notin U
  OBVIOUS
<1>4. \A d \in U : l'[d].x = l[d].x
  BY <1>1, <1>3
<1>5. Unmapping(s) = {l[d].x : d \in U} /\ Unmapping(s)' = {l'[d].x : d \in V}
  BY DEF Unmapping
<1> HIDE DEF U, V
<1> QED
  BY <1>2, <1>4, <1>5

LEMMA UnmappingGains ==
    ASSUME NEW c \in CPUS, OthersStay(c), NEW s, pc[c] # "unmap",
           pc'[c] = "unmap", l'[c].s = s
    PROVE  Unmapping(s)' = Unmapping(s) \cup {l'[c].x}
<1> DEFINE U == {d \in CPUS : pc[d] = "unmap" /\ l[d].s = s}
           V == {d \in CPUS : pc'[d] = "unmap" /\ l'[d].s = s}
<1>1. \A d \in CPUS : d # c => pc'[d] = pc[d] /\ l'[d] = l[d]
  BY DEF OthersStay
<1>2. V = U \cup {c}
  BY <1>1
<1>3. c \notin U
  OBVIOUS
<1>4. \A d \in U : l'[d].x = l[d].x
  BY <1>1, <1>3
<1>5. Unmapping(s) = {l[d].x : d \in U} /\ Unmapping(s)' = {l'[d].x : d \in V}
  BY DEF Unmapping
<1> HIDE DEF U, V
<1> QED
  BY <1>2, <1>4, <1>5

-----------------------------------------------------------------------------
(* The page table of one space.                                            *)

LEMMA HwKept ==
    ASSUME NEW s, HwInv(s), tree'[s] \cup Unmapping(s)' = tree[s] \cup Unmapping(s), hw'[s] = hw[s]
    PROVE  HwInv(s)'
BY DEF HwInv

LEMMA HwAdded ==
    ASSUME NEW s \in SPACES, HwInv(s), NEW a, NewOK(a), tree[s] \in SUBSET AREAS,
           Entries(a) \cap DOMAIN hw[s] = {},
           Unmapping(s) = {}, Unmapping(s)' = {}, tree'[s] = tree[s] \cup {Mapped(a)},
           hw'[s] = [v \in DOMAIN hw[s] \cup Entries(a) |->
                       IF v \in Entries(a) THEN Pte(a, v) ELSE hw[s][v]]
    PROVE  HwInv(s)'
<1> DEFINE D == DOMAIN hw[s]
           P == Entries(a)
           h == hw'[s]
<1>1. h = [v \in D \cup P |-> IF v \in P THEN Pte(a, v) ELSE hw[s][v]]
  OBVIOUS
<1>2. P \cap D = {}
  OBVIOUS
<1>3. /\ \A b \in tree[s] : \A v \in Entries(b) : v \in D /\ hw[s][v] = Pte(b, v)
      /\ \A v \in D : \E b \in tree[s] : v \in Entries(b)
  BY DEF HwInv
<1>4. Entries(Mapped(a)) = P /\ \A v : Pte(Mapped(a), v) = Pte(a, v)
  BY MappedFacts
<1> HIDE DEF D, P, h
<1>5. DOMAIN h = D \cup P /\ h = [v \in DOMAIN h |-> h[v]]
  BY <1>1
<1>6. ASSUME NEW b \in tree[s] \cup {Mapped(a)}, NEW v \in Entries(b)
      PROVE  v \in DOMAIN h /\ h[v] = Pte(b, v)
  <2>1. CASE b \in tree[s]
    BY <1>1, <1>2, <1>3, <2>1
  <2>2. CASE b = Mapped(a)
    BY <1>1, <1>4, <2>2
  <2> QED
    BY <2>1, <2>2
<1>7. ASSUME NEW v \in DOMAIN h PROVE \E b \in tree[s] \cup {Mapped(a)} : v \in Entries(b)
  BY <1>3, <1>4, <1>5
<1>8. tree'[s] \cup Unmapping(s)' = tree[s] \cup {Mapped(a)}
  OBVIOUS
<1> QED
  BY <1>5, <1>6, <1>7, <1>8 DEF HwInv, h

LEMMA HwRemoved ==
    ASSUME NEW s \in SPACES, HwInv(s), NEW x, AreaOK(x), \A a \in tree[s] : AreaOK(a),
           \A a \in tree[s] : ~Overlap(x, a),
           Unmapping(s) = {x}, Unmapping(s)' = {}, tree'[s] = tree[s],
           hw'[s] = [v \in DOMAIN hw[s] \ Vpns(x.va, x.n) |-> hw[s][v]]
    PROVE  HwInv(s)'
<1> DEFINE D == DOMAIN hw[s]
           P == Vpns(x.va, x.n)
           h == hw'[s]
<1>1. h = [v \in D \ P |-> hw[s][v]]
  OBVIOUS
<1>3. /\ \A b \in tree[s] : \A v \in Entries(b) : v \in D /\ hw[s][v] = Pte(b, v)
      /\ \A v \in D : \E b \in tree[s] \cup {x} : v \in Entries(b)
  BY DEF HwInv
<1>2. Entries(x) \in SUBSET P
  BY DEF Entries
<1>4. ASSUME NEW b \in tree[s], NEW v \in Entries(b) PROVE v \notin P
  <2>1. x \in AREAS /\ b \in AREAS /\ AreaOK(b) /\ ~Overlap(x, b)
    BY DEF AreaOK
  <2>2. P = Pages(x.va, x.n) /\ v \in Pages(b.va, b.n)
    BY <2>1, InTableFacts
  <2> QED
    BY <2>1, <2>2, OverlapFacts
<1> HIDE DEF D, h, P
<1>5. DOMAIN h = D \ P /\ h = [v \in DOMAIN h |-> h[v]]
  BY <1>1
<1>6. ASSUME NEW b \in tree[s], NEW v \in Entries(b)
      PROVE  v \in DOMAIN h /\ h[v] = Pte(b, v)
  BY <1>1, <1>3, <1>4
<1>7. ASSUME NEW v \in DOMAIN h PROVE \E b \in tree[s] : v \in Entries(b)
  BY <1>2, <1>3, <1>5
<1>8. tree'[s] \cup Unmapping(s)' = tree[s]
  OBVIOUS
<1> QED
  BY <1>5, <1>6, <1>7, <1>8 DEF HwInv, h

-----------------------------------------------------------------------------
(* Counting.                                                               *)

(* When one of the sets changes, the number of pairs changes with it.      *)
LEMMA PairsChange ==
    ASSUME NEW F, NEW G, DOMAIN G = DOMAIN F, NEW s \in DOMAIN F,
           \A t \in DOMAIN F : t # s => G[t] = F[t],
           IsFiniteSet(F[s]), IsFiniteSet(G[s]), IsFiniteSet(Pairs(F))
    PROVE  /\ IsFiniteSet(Pairs(G))
           /\ Cardinality(Pairs(G)) = Cardinality(Pairs(F)) - Cardinality(F[s]) + Cardinality(G[s])
           /\ Cardinality(F[s]) \in Nat /\ Cardinality(G[s]) \in Nat
           /\ Cardinality(Pairs(F)) \in Nat /\ Cardinality(Pairs(G)) \in Nat
<1> DEFINE A == {s} \X F[s]
           B == {s} \X G[s]
           R == {x \in Pairs(F) : x[1] # s}
<1>1. /\ IsFiniteSet(A) /\ Cardinality(A) = Cardinality(F[s])
      /\ IsFiniteSet(B) /\ Cardinality(B) = Cardinality(G[s])
  <2>1. IsFiniteSet({s}) /\ Cardinality({s}) = 1
    BY FS_Singleton
  <2>2. Cardinality(F[s]) \in Nat /\ Cardinality(G[s]) \in Nat
    BY FS_CardinalityType
  <2>3. /\ IsFiniteSet(A) /\ Cardinality(A) = 1 * Cardinality(F[s])
        /\ IsFiniteSet(B) /\ Cardinality(B) = 1 * Cardinality(G[s])
    BY <2>1, FS_Product
  <2> QED
    BY <2>2, <2>3
<1>2. IsFiniteSet(R)
  BY FS_Subset
<1>3. \A x : x \in Pairs(F) <=> \E t \in DOMAIN F : x \in {t} \X F[t]
  BY DEF Pairs
<1>4. \A x : x \in Pairs(G) <=> \E t \in DOMAIN F : x \in {t} \X G[t]
  BY DEF Pairs
<1>5. Pairs(F) = R \cup A
  BY <1>3
<1>6. Pairs(G) = R \cup B
  <2>1. ASSUME NEW x \in Pairs(G) PROVE x \in R \cup B
    <3>1. PICK t \in DOMAIN F : x \in {t} \X G[t]
      BY <1>4
    <3>2. CASE t = s
      BY <3>1, <3>2
    <3>3. CASE t # s
      BY <1>3, <3>1, <3>3
    <3> QED
      BY <3>2, <3>3
  <2>2. ASSUME NEW x \in R PROVE x \in Pairs(G)
    <3>1. PICK t \in DOMAIN F : x \in {t} \X F[t]
      BY <1>3
    <3>2. t # s
      BY <3>1
    <3> QED
      BY <1>4, <3>1, <3>2
  <2>3. ASSUME NEW x \in B PROVE x \in Pairs(G)
    BY <1>4
  <2> QED
    BY <2>1, <2>2, <2>3
<1>7. R \cap A = {} /\ R \cap B = {}
  OBVIOUS
<1> HIDE DEF R, A, B
<1>8. Cardinality({}) = 0
  BY FS_EmptySet
<1>9. /\ IsFiniteSet(Pairs(G)) /\ Cardinality(Pairs(F)) = Cardinality(R) + Cardinality(A) - Cardinality({})
      /\ Cardinality(Pairs(G)) = Cardinality(R) + Cardinality(B) - Cardinality({})
  BY <1>1, <1>2, <1>5, <1>6, <1>7, FS_Union
<1>10. /\ Cardinality(R) \in Nat /\ Cardinality(A) \in Nat /\ Cardinality(B) \in Nat
       /\ Cardinality(Pairs(F)) \in Nat /\ Cardinality(Pairs(G)) \in Nat
  BY <1>1, <1>2, <1>9, FS_CardinalityType
<1> QED
  BY <1>1, <1>8, <1>9, <1>10

LEMMA TablesChange ==
    ASSUME TypeOK, FiniteInv, NEW s \in SPACES, NEW T \in SUBSET Int, IsFiniteSet(T),
           tabs' = [tabs EXCEPT ![s] = T]
    PROVE  /\ tabs' \in [SPACES -> SUBSET Int] /\ \A t \in SPACES : IsFiniteSet(tabs'[t])
           /\ tabs'[s] = T /\ \A t \in SPACES : t # s => tabs'[t] = tabs[t]
           /\ IsFiniteSet(Tables')
           /\ Cardinality(Tables') = Cardinality(Tables) - Cardinality(tabs[s]) + Cardinality(T)
<1>1. tabs \in [SPACES -> SUBSET Int] /\ \A t \in SPACES : IsFiniteSet(tabs[t])
  BY DEF TypeOK
<1>2. /\ tabs' \in [SPACES -> SUBSET Int] /\ tabs'[s] = T
      /\ \A t \in SPACES : t # s => tabs'[t] = tabs[t]
  BY <1>1
<1>3. \A t \in SPACES : IsFiniteSet(tabs'[t])
  BY <1>1, <1>2
<1>4. DOMAIN tabs = SPACES /\ DOMAIN tabs' = SPACES /\ IsFiniteSet(Pairs(tabs))
  BY <1>1, <1>2 DEF FiniteInv, Tables
<1>5. /\ IsFiniteSet(Pairs(tabs'))
      /\ Cardinality(Pairs(tabs')) = Cardinality(Pairs(tabs)) - Cardinality(tabs[s]) + Cardinality(tabs'[s])
  BY <1>1, <1>2, <1>3, <1>4, PairsChange
<1> QED
  BY <1>2, <1>3, <1>5 DEF Tables

BlockSize(p) == IF p.typ = "BUDDY" THEN 0 ELSE ORDER2PGNUM[p.order]

LEMMA BlocksChange ==
    ASSUME TypeOK, FiniteInv, NEW f \in HEADS, NEW p \in FRAMES,
           p.typ # "BUDDY" => p.order \in ORDERS, pf[f].typ # "BUDDY" => pf[f].order \in ORDERS,
           pf' = [pf EXCEPT ![f] = p]
    PROVE  /\ pf' \in [HEADS -> FRAMES] /\ pf'[f] = p /\ \A g \in HEADS : g # f => pf'[g] = pf[g]
           /\ IsFiniteSet(Blocks')
           /\ Cardinality(Blocks') = Cardinality(Blocks) - BlockSize(pf[f]) + BlockSize(p)
<1>1. pf \in [HEADS -> FRAMES]
  BY DEF TypeOK
<1>2. pf' \in [HEADS -> FRAMES] /\ pf'[f] = p /\ \A g \in HEADS : g # f => pf'[g] = pf[g]
  BY <1>1
<1> DEFINE Pages1(x) == IF x.typ = "BUDDY" THEN {} ELSE 1..ORDER2PGNUM[x.order]
<1>3. ASSUME NEW x, x.typ # "BUDDY" => x.order \in ORDERS
      PROVE  IsFiniteSet(Pages1(x)) /\ Cardinality(Pages1(x)) = BlockSize(x)
  <2>1. CASE x.typ = "BUDDY"
    BY <2>1, FS_EmptySet DEF BlockSize
  <2>2. CASE x.typ # "BUDDY"
    <3> DEFINE k == ORDER2PGNUM[x.order]
    <3>1. k \in Nat \ {0}
      BY <1>3, <2>2, VmAssumption
    <3>2. Pages1(x) = 1..k /\ BlockSize(x) = k
      BY <2>2 DEF BlockSize
    <3> HIDE DEF k
    <3>3. 1 \in Int /\ k \in Int /\ ~(1 > k) /\ k - 1 + 1 = k
      BY <3>1
    <3> QED
      BY <3>2, <3>3, FS_Interval
  <2> QED
    BY <2>1, <2>2
<1> DEFINE F == BlockPages
           G == BlockPages'
<1>4. /\ DOMAIN F = HEADS /\ DOMAIN G = HEADS
      /\ \A g \in HEADS : F[g] = Pages1(pf[g]) /\ G[g] = Pages1(pf'[g])
  BY DEF BlockPages
<1> HIDE DEF Pages1, F, G
<1>5. /\ \A g \in HEADS : g # f => G[g] = F[g]
      /\ IsFiniteSet(F[f]) /\ Cardinality(F[f]) = BlockSize(pf[f])
      /\ IsFiniteSet(G[f]) /\ Cardinality(G[f]) = BlockSize(p)
  BY <1>2, <1>3, <1>4
<1>6. IsFiniteSet(Pairs(F))
  BY DEF FiniteInv, Blocks, F
<1>7. /\ IsFiniteSet(Pairs(G))
      /\ Cardinality(Pairs(G)) = Cardinality(Pairs(F)) - Cardinality(F[f]) + Cardinality(G[f])
  BY <1>4, <1>5, <1>6, PairsChange
<1>8. Pairs(F) = Blocks /\ Pairs(G) = Blocks'
  BY DEF Blocks, F, G
<1> QED
  BY <1>2, <1>5, <1>7, <1>8

(* The areas of all spaces.                                                *)
LEMMA AreasFacts ==
    ASSUME TypeOK
    PROVE  /\ \A x : x \in AllAreas <=> x \in SPACES \X AREAS /\ x[2] \in tree[x[1]]
           /\ \A s \in SPACES : \A a \in tree[s] :
                <<s, a>> \in AllAreas /\ <<s, a>>[1] = s /\ <<s, a>>[2] = a
<1>1. tree \in [SPACES -> SUBSET AREAS]
  BY DEF TypeOK
<1>2. \A x : x \in AllAreas <=> \E s \in SPACES : x \in {s} \X tree[s]
  BY <1>1 DEF AllAreas, Pairs
<1>3. ASSUME NEW x \in AllAreas PROVE x \in SPACES \X AREAS /\ x[2] \in tree[x[1]]
  <2>1. PICK s \in SPACES : x \in {s} \X tree[s]
    BY <1>2
  <2>2. x[1] = s /\ x[2] \in tree[s] /\ x = <<x[1], x[2]>>
    BY <2>1
  <2>3. x[2] \in AREAS
    BY <1>1, <2>2
  <2> QED
    BY <2>2, <2>3
<1>4. ASSUME NEW x \in SPACES \X AREAS, x[2] \in tree[x[1]] PROVE x \in AllAreas
  BY <1>2, <1>4
<1> QED
  BY <1>2, <1>3, <1>4

LEMMA AreasAdd ==
    ASSUME TypeOK, FiniteInv, NEW s \in SPACES, NEW a \in AREAS, a \notin tree[s],
           tree' = [tree EXCEPT ![s] = tree[s] \cup {a}]
    PROVE  /\ AllAreas' = AllAreas \cup {<<s, a>>} /\ <<s, a>> \notin AllAreas
           /\ IsFiniteSet(AllAreas') /\ Cardinality(AllAreas') = Cardinality(AllAreas) + 1
<1>1. tree \in [SPACES -> SUBSET AREAS]
  BY DEF TypeOK
<1>2. /\ DOMAIN tree' = SPACES /\ tree'[s] = tree[s] \cup {a}
      /\ \A t \in SPACES : t # s => tree'[t] = tree[t]
  BY <1>1
<1>3. \A x : x \in AllAreas <=> \E t \in SPACES : x \in {t} \X tree[t]
  BY <1>1 DEF AllAreas, Pairs
<1>4. \A x : x \in AllAreas' <=> \E t \in SPACES : x \in {t} \X tree'[t]
  BY <1>2 DEF AllAreas, Pairs
<1>5. <<s, a>> \notin AllAreas
  BY <1>3
<1>6. ASSUME NEW x \in AllAreas' PROVE x \in AllAreas \cup {<<s, a>>}
  <2>1. PICK t \in SPACES : x \in {t} \X tree'[t]
    BY <1>4
  <2>2. CASE t = s
    <3>1. x \in {s} \X tree[s] \/ x = <<s, a>>
      BY <1>2, <2>1, <2>2
    <3> QED
      BY <1>3, <3>1
  <2>3. CASE t # s
    BY <1>2, <1>3, <2>1, <2>3
  <2> QED
    BY <2>2, <2>3
<1>7. ASSUME NEW x \in AllAreas PROVE x \in AllAreas'
  <2>1. PICK t \in SPACES : x \in {t} \X tree[t]
    BY <1>3
  <2>2. x \in {t} \X tree'[t]
    BY <1>2, <2>1
  <2> QED
    BY <1>4, <2>2
<1>8. <<s, a>> \in AllAreas'
  BY <1>2, <1>4
<1>9. AllAreas' = AllAreas \cup {<<s, a>>}
  BY <1>6, <1>7, <1>8
<1>10. IsFiniteSet(AllAreas)
  BY DEF FiniteInv
<1> QED
  BY <1>5, <1>9, <1>10, FS_AddElement

LEMMA AreasDel ==
    ASSUME TypeOK, FiniteInv, NEW s \in SPACES, NEW a \in tree[s],
           tree' = [tree EXCEPT ![s] = tree[s] \ {a}]
    PROVE  /\ AllAreas' = AllAreas \ {<<s, a>>} /\ <<s, a>> \in AllAreas
           /\ IsFiniteSet(AllAreas') /\ Cardinality(AllAreas') = Cardinality(AllAreas) - 1
           /\ Cardinality(AllAreas) \in Nat
<1>1. tree \in [SPACES -> SUBSET AREAS]
  BY DEF TypeOK
<1>2. /\ DOMAIN tree' = SPACES /\ tree'[s] = tree[s] \ {a}
      /\ \A t \in SPACES : t # s => tree'[t] = tree[t]
  BY <1>1
<1>3. \A x : x \in AllAreas <=> \E t \in SPACES : x \in {t} \X tree[t]
  BY <1>1 DEF AllAreas, Pairs
<1>4. \A x : x \in AllAreas' <=> \E t \in SPACES : x \in {t} \X tree'[t]
  BY <1>2 DEF AllAreas, Pairs
<1>5. <<s, a>> \in AllAreas
  BY <1>3
<1>6. ASSUME NEW x \in AllAreas' PROVE x \in AllAreas /\ x # <<s, a>>
  <2>1. PICK t \in SPACES : x \in {t} \X tree'[t]
    BY <1>4
  <2>2. x \in {t} \X tree[t] /\ x # <<s, a>>
    BY <1>2, <2>1
  <2> QED
    BY <1>3, <2>2
<1>7. ASSUME NEW x \in AllAreas, x # <<s, a>> PROVE x \in AllAreas'
  <2>1. PICK t \in SPACES : x \in {t} \X tree[t]
    BY <1>3
  <2>2. x \in {t} \X tree'[t]
    BY <1>2, <1>7, <2>1
  <2> QED
    BY <1>4, <2>2
<1>9. AllAreas' = AllAreas \ {<<s, a>>}
  BY <1>6, <1>7
<1>10. IsFiniteSet(AllAreas)
  BY DEF FiniteInv
<1> QED
  BY <1>5, <1>9, <1>10, FS_RemoveElement, FS_CardinalityType

(* The calls that hold an area object in their hands.                      *)
Busy == {c \in CPUS : pc[c] \in {"hang", "unmap"}}

LEMMA BusyChange ==
    ASSUME NEW c \in CPUS, OthersStay(c)
    PROVE  /\ Cardinality(Busy) \in Nat
           /\ (c \in Busy <=> c \in Busy') => Cardinality(Busy') = Cardinality(Busy)
           /\ c \notin Busy /\ c \in Busy' => Cardinality(Busy') = Cardinality(Busy) + 1
           /\ c \in Busy /\ c \notin Busy' => Cardinality(Busy') = Cardinality(Busy) - 1
<1>1. IsFiniteSet(CPUS)
  BY VmAssumption
<1>2. Busy \in SUBSET CPUS /\ Busy' \in SUBSET CPUS
  BY DEF Busy
<1>3. \A d \in CPUS : d # c => (d \in Busy <=> d \in Busy')
  BY DEF Busy, OthersStay
<1>4. IsFiniteSet(Busy) /\ Cardinality(Busy) \in Nat
  BY <1>1, <1>2, FS_Subset, FS_CardinalityType
<1>5. (c \in Busy <=> c \in Busy') => Busy' = Busy
  BY <1>2, <1>3
<1>6. c \notin Busy /\ c \in Busy' => Busy' = Busy \cup {c}
  BY <1>2, <1>3
<1>7. c \in Busy /\ c \notin Busy' => Busy' = Busy \ {c}
  BY <1>2, <1>3
<1> QED
  BY <1>4, <1>5, <1>6, <1>7, FS_AddElement, FS_RemoveElement

(* The blocks in hand.                                                     *)
LEMMA InFlightStays ==
    ASSUME NEW c \in CPUS, OthersStay(c), NEW f \in InFlight, ~(InHand(c) /\ l[c].blk = f)
    PROVE  f \in InFlight'
<1>1. PICK d \in CPUS : InHand(d) /\ l[d].blk = f
  BY DEF InFlight
<1>2. d # c
  BY <1>1
<1>3. pc'[d] = pc[d] /\ l'[d] = l[d]
  BY <1>2 DEF OthersStay
<1>4. InHand(d)' /\ l'[d].blk = f
  BY <1>1, <1>3 DEF InHand
<1> QED
  BY <1>4 DEF InFlight

LEMMA InHandFacts ==
    ASSUME NEW d \in CPUS, CallInv(d), \A f \in HEADS : FrameInv(f), FiniteInv, InHand(d)
    PROVE  /\ l[d].blk \in HEADS /\ pf[l[d].blk].typ = "VMA_AREA" /\ pf[l[d].blk].ref = 0
           /\ Sharers(l[d].blk) = {}
<1>1. MmapInv(d) /\ l[d].blk # None
  BY DEF InHand, CallInv
<1>2. /\ l[d].blk \in HEADS /\ l[d].x.pa = l[d].blk /\ FrameOK(pf, l[d].x) /\ pf[l[d].blk].ref = 0
  BY <1>1 DEF MmapInv
<1>3. pf[l[d].blk].typ = "VMA_AREA"
  BY <1>2 DEF FrameOK
<1> DEFINE S == Sharers(l[d].blk)
<1>4. Cardinality(S) = 0
  BY <1>2, <1>3 DEF FrameInv
<1>5. IsFiniteSet(S)
  <2>1. S \in SUBSET AllAreas
    BY DEF Sharers
  <2> QED
    BY <2>1, FS_Subset DEF FiniteInv
<1>6. S = {}
  BY <1>4, <1>5, FS_EmptySet
<1> QED
  BY <1>2, <1>3, <1>6

-----------------------------------------------------------------------------
(* References to blocks.                                                   *)

BlocksInv == (\A f \in HEADS : FrameInv(f)) /\ ShareInv

LEMMA SharersFacts ==
    ASSUME TypeOK, FiniteInv, NEW f
    PROVE  IsFiniteSet(Sharers(f)) /\ Cardinality(Sharers(f)) \in Nat /\ Sharers(f) \in SUBSET AllAreas
<1>1. Sharers(f) \in SUBSET AllAreas
  BY DEF Sharers
<1> QED
  BY <1>1, FS_Subset, FS_CardinalityType DEF FiniteInv

(* A step that changes no area keeps what is said of the blocks whose      *)
(* entries it leaves alone.                                                *)
LEMMA FrameStays ==
    ASSUME NEW f \in HEADS, FrameInv(f), pf'[f] = pf[f], Sharers(f)' = Sharers(f),
           f \in InFlight => f \in InFlight'
    PROVE  FrameInv(f)'
BY DEF FrameInv

LEMMA SharersStay ==
    ASSUME AllAreas' = AllAreas, NEW f
    PROVE  Sharers(f)' = Sharers(f)
BY DEF Sharers

LEMMA BlocksStay ==
    ASSUME TypeOK, BlocksInv, tree' = tree, pf' = pf, NEW c \in CPUS, OthersStay(c),
           InHand(c) => InHand(c)' /\ l'[c].blk = l[c].blk
    PROVE  BlocksInv' /\ AllAreas' = AllAreas
<1>1. AllAreas' = AllAreas
  BY DEF AllAreas
<1>2. ASSUME NEW f \in HEADS PROVE FrameInv(f)'
  <2>1. f \in InFlight => f \in InFlight'
    <3>1. CASE InHand(c) /\ l[c].blk = f
      BY <3>1 DEF InFlight
    <3>2. CASE ~(InHand(c) /\ l[c].blk = f)
      BY <3>2, InFlightStays
    <3> QED
      BY <3>1, <3>2
  <2>2. Sharers(f)' = Sharers(f)
    BY <1>1, SharersStay
  <2> QED
    BY <2>1, <2>2, FrameStays DEF BlocksInv
<1>3. ShareInv'
  BY <1>1 DEF BlocksInv, ShareInv, FrameOK
<1> QED
  BY <1>1, <1>2, <1>3 DEF BlocksInv

(* A block is taken in hand, or given back from the hand.                  *)
LEMMA BlockTaken ==
    ASSUME TypeOK, BlocksInv, FiniteInv, tree' = tree, NEW f \in HEADS, pf[f].typ = "BUDDY",
           NEW o \in ORDERS, pf' = [pf EXCEPT ![f] = Frame("VMA_AREA", 0, o)],
           NEW c \in CPUS, OthersStay(c), ~InHand(c), InHand(c)', l'[c].blk = f
    PROVE  BlocksInv' /\ AllAreas' = AllAreas
<1>1. AllAreas' = AllAreas
  BY DEF AllAreas
<1>2. pf \in [HEADS -> FRAMES]
  BY DEF TypeOK
<1>3. pf'[f] = Frame("VMA_AREA", 0, o) /\ \A g \in HEADS : g # f => pf'[g] = pf[g]
  BY <1>2
<1>4. pf'[f].typ = "VMA_AREA" /\ pf'[f].ref = 0 /\ pf'[f].order = o
  BY <1>3 DEF Frame
<1>5. Sharers(f) = {}
  BY DEF BlocksInv, FrameInv
<1>6. f \in InFlight'
  BY DEF InFlight
<1>7. ASSUME NEW g \in HEADS PROVE FrameInv(g)'
  <2>1. Sharers(g)' = Sharers(g)
    BY <1>1, SharersStay
  <2>2. CASE g = f
    <3>1. Sharers(f)' = {} /\ Cardinality({}) = 0
      BY <1>5, <2>1, <2>2, FS_EmptySet
    <3> QED
      BY <1>4, <1>6, <2>2, <3>1 DEF FrameInv
  <2>3. CASE g # f
    <3>1. g \in InFlight => g \in InFlight'
      BY InFlightStays
    <3> QED
      BY <1>3, <2>1, <2>3, <3>1, FrameStays DEF BlocksInv
  <2> QED
    BY <2>2, <2>3
<1>8. ASSUME NEW x \in AllAreas, x[2].typ = "MEMORY" PROVE FrameOK(pf', x[2])
  <2>1. FrameOK(pf, x[2])
    BY <1>8 DEF BlocksInv, ShareInv
  <2>2. x \in Sharers(x[2].pa)
    BY <1>8 DEF Sharers
  <2>3. x[2].pa # f
    BY <1>5, <2>2
  <2>4. x[2].pa \in HEADS => pf'[x[2].pa] = pf[x[2].pa]
    BY <1>3, <2>3
  <2>5. x[2].pa \notin HEADS => pf'[x[2].pa] = pf[x[2].pa]
    BY <1>2, <2>3
  <2> QED
    BY <2>1, <2>4, <2>5 DEF FrameOK
<1>9. ShareInv'
  BY <1>1, <1>8 DEF BlocksInv, ShareInv
<1> QED
  BY <1>1, <1>7, <1>9 DEF BlocksInv

LEMMA BlockGiven ==
    ASSUME TypeOK, BlocksInv, FiniteInv, tree' = tree, NEW f \in HEADS, Sharers(f) = {},
           pf' = [pf EXCEPT ![f] = NoFrame],
           NEW c \in CPUS, OthersStay(c), InHand(c) => l[c].blk = f
    PROVE  BlocksInv' /\ AllAreas' = AllAreas
<1>1. AllAreas' = AllAreas
  BY DEF AllAreas
<1>2. pf \in [HEADS -> FRAMES]
  BY DEF TypeOK
<1>3. pf'[f] = NoFrame /\ \A g \in HEADS : g # f => pf'[g] = pf[g]
  BY <1>2
<1>4. pf'[f].typ = "BUDDY"
  BY <1>3 DEF NoFrame, Frame
<1>7. ASSUME NEW g \in HEADS PROVE FrameInv(g)'
  <2>1. Sharers(g)' = Sharers(g)
    BY <1>1, SharersStay
  <2>2. CASE g = f
    BY <1>3, <1>4, <2>1, <2>2 DEF FrameInv
  <2>3. CASE g # f
    <3>1. g \in InFlight => g \in InFlight'
      BY <2>3, InFlightStays
    <3> QED
      BY <1>3, <2>1, <2>3, <3>1, FrameStays DEF BlocksInv
  <2> QED
    BY <2>2, <2>3
<1>8. ASSUME NEW x \in AllAreas, x[2].typ = "MEMORY" PROVE FrameOK(pf', x[2])
  <2>1. FrameOK(pf, x[2])
    BY <1>8 DEF BlocksInv, ShareInv
  <2>2. x \in Sharers(x[2].pa)
    BY <1>8 DEF Sharers
  <2>3. x[2].pa # f
    BY <2>2
  <2>4. x[2].pa \in HEADS => pf'[x[2].pa] = pf[x[2].pa]
    BY <1>3, <2>3
  <2>5. x[2].pa \notin HEADS => pf'[x[2].pa] = pf[x[2].pa]
    BY <1>2, <2>3
  <2> QED
    BY <2>1, <2>4, <2>5 DEF FrameOK
<1>9. ShareInv'
  BY <1>1, <1>8 DEF BlocksInv, ShareInv
<1> QED
  BY <1>1, <1>7, <1>9 DEF BlocksInv

(* An area is hung: a memory area is one more reference to its block,      *)
(* which is in hand, free until now, or shared read-only.                  *)
NewShare(b, o) ==
    LET f == b.pa
    IN  /\ o \in ORDERS /\ ORDER2PGNUM[o] = b.n
        /\ pf' = [pf EXCEPT ![f] = Frame("VMA_AREA", Cardinality(Sharers(f)) + 1, o)]
        /\ pf[f].typ # "BUDDY" => pf[f].order = o
        /\ \A y \in Sharers(f) : "W" \notin b.prot /\ "W" \notin y[2].prot

LEMMA ShareAdded ==
    ASSUME TypeOK, BlocksInv, FiniteInv, NEW s \in SPACES, NEW b, HungOK(b), b \notin tree[s],
           \A t \in SPACES : \A a \in tree[t] : HungOK(a),
           tree' = [tree EXCEPT ![s] = tree[s] \cup {b}],
           NEW o, IF b.typ = "MEMORY" THEN NewShare(b, o) ELSE pf' = pf,
           NEW c \in CPUS, OthersStay(c), InHand(c) => b.typ = "MEMORY" /\ l[c].blk = b.pa
    PROVE  BlocksInv'
<1> DEFINE z == <<s, b>>
<1>0. b \in AREAS /\ z[1] = s /\ z[2] = b
  BY DEF HungOK, AreaOK
<1>1. AllAreas' = AllAreas \cup {z} /\ z \notin AllAreas
  BY <1>0, AreasAdd
<1>2. pf \in [HEADS -> FRAMES]
  BY DEF TypeOK
<1>3. ASSUME NEW x \in AllAreas
      PROVE  HungOK(x[2]) /\ (x[2].typ = "MEMORY" <=> x[2].pa \in HEADS)
  <2>1. x[1] \in SPACES /\ x[2] \in tree[x[1]]
    BY AreasFacts
  <2> QED
    BY <2>1 DEF HungOK, AreaOK
<1>b. b.typ = "MEMORY" <=> b.pa \in HEADS
  BY DEF HungOK, AreaOK
<1> HIDE DEF z
<1>4. CASE b.typ # "MEMORY"
  <2>1. pf' = pf
    BY <1>4
  <2>2. ASSUME NEW f PROVE Sharers(f)' = Sharers(f)
    BY <1>0, <1>1, <1>4 DEF Sharers
  <2>3. ASSUME NEW f \in HEADS PROVE FrameInv(f)'
    <3>1. f \in InFlight => f \in InFlight'
      BY <1>4, InFlightStays
    <3> QED
      BY <2>1, <2>2, <3>1, FrameStays DEF BlocksInv
  <2>4. ASSUME NEW x \in AllAreas', NEW y \in AllAreas'
        PROVE  /\ x[2].typ = "MEMORY" => FrameOK(pf, x[2])
               /\ x[2].typ = "MEMORY" /\ "W" \in x[2].prot /\ x[2].pa = y[2].pa => x = y
    <3>1. CASE x \in AllAreas /\ y \in AllAreas
      BY <3>1 DEF BlocksInv, ShareInv
    <3>2. CASE x = z
      BY <1>0, <1>4, <3>2
    <3>3. CASE x \in AllAreas /\ y = z
      <4>1. x[2].typ = "MEMORY" => FrameOK(pf, x[2])
        BY <3>3 DEF BlocksInv, ShareInv
      <4>2. x[2].typ = "MEMORY" => x[2].pa # y[2].pa
        BY <1>0, <1>3, <1>4, <1>b, <3>3
      <4> QED
        BY <4>1, <4>2
    <3> QED
      BY <1>1, <3>1, <3>2, <3>3
  <2>5. ShareInv'
    BY <2>1, <2>4 DEF ShareInv, FrameOK
  <2> QED
    BY <2>3, <2>5 DEF BlocksInv
<1>5. CASE b.typ = "MEMORY"
  <2> DEFINE f == b.pa
             k == Cardinality(Sharers(f)) + 1
  <2>1. f \in HEADS
    BY <1>5, <1>b
  <2>2. NewShare(b, o)
    BY <1>5
  <2>3. /\ o \in ORDERS /\ ORDER2PGNUM[o] = b.n
        /\ pf' = [pf EXCEPT ![f] = Frame("VMA_AREA", k, o)]
        /\ pf[f].typ # "BUDDY" => pf[f].order = o
        /\ \A y \in Sharers(f) : "W" \notin b.prot /\ "W" \notin y[2].prot
    BY <2>2 DEF NewShare
  <2>4. IsFiniteSet(Sharers(f)) /\ Cardinality(Sharers(f)) \in Nat
    BY SharersFacts
  <2>5. k \in Nat /\ k # 0
    BY <2>4
  <2>6. Sharers(f)' = Sharers(f) \cup {z} /\ z \notin Sharers(f)
    BY <1>0, <1>1, <1>5 DEF Sharers
  <2>7. Cardinality(Sharers(f)') = k
    BY <2>4, <2>6, FS_AddElement
  <2>8. \A y \in AllAreas : y[2].typ = "MEMORY" /\ y[2].pa = f => y \in Sharers(f)
    BY DEF Sharers
  <2>9. f = b.pa
    OBVIOUS
  <2> HIDE DEF f, k
  <2>10. pf'[f] = Frame("VMA_AREA", k, o) /\ \A g \in HEADS : g # f => pf'[g] = pf[g]
    BY <1>2, <2>1, <2>3
  <2>11. pf'[f].typ = "VMA_AREA" /\ pf'[f].ref = k /\ pf'[f].order = o
    BY <2>10 DEF Frame
  <2>12. ASSUME NEW g \in HEADS PROVE FrameInv(g)'
    <3>1. CASE g = f
      BY <2>3, <2>5, <2>7, <2>11, <3>1 DEF FrameInv
    <3>2. CASE g # f
      <4>1. Sharers(g)' = Sharers(g)
        BY <1>0, <1>1, <2>9, <3>2 DEF Sharers
      <4>2. g \in InFlight => g \in InFlight'
        BY <2>9, <3>2, InFlightStays
      <4>3. pf'[g] = pf[g]
        BY <2>10, <3>2
      <4> QED
        BY <4>1, <4>2, <4>3, FrameStays DEF BlocksInv
    <3> QED
      BY <3>1, <3>2
  <2>13. ASSUME NEW x \in AllAreas, x[2].typ = "MEMORY" PROVE FrameOK(pf', x[2])
    <3>1. FrameOK(pf, x[2]) /\ x[2].pa \in HEADS
      BY <1>3, <2>13 DEF BlocksInv, ShareInv
    <3>2. CASE x[2].pa = f
      <4>1. pf[f].typ # "BUDDY" /\ ORDER2PGNUM[pf[f].order] = x[2].n
        BY <3>1, <3>2 DEF FrameOK
      <4> QED
        BY <2>3, <2>11, <3>2, <4>1 DEF FrameOK
    <3>3. CASE x[2].pa # f
      BY <2>10, <3>1, <3>3 DEF FrameOK
    <3> QED
      BY <3>2, <3>3
  <2>14. FrameOK(pf', b)
    BY <2>3, <2>9, <2>11 DEF FrameOK
  <2>15. ASSUME NEW x \in AllAreas', NEW y \in AllAreas'
        PROVE  /\ x[2].typ = "MEMORY" => FrameOK(pf', x[2])
               /\ x[2].typ = "MEMORY" /\ "W" \in x[2].prot /\ x[2].pa = y[2].pa => x = y
    <3>1. CASE x \in AllAreas /\ y \in AllAreas
      BY <2>13, <3>1 DEF BlocksInv, ShareInv
    <3>2. CASE x = z /\ y \in AllAreas
      <4>1. y[2].pa = f => y \in Sharers(f)
        BY <1>3, <2>1, <2>8, <3>2
      <4> QED
        BY <1>0, <2>3, <2>9, <2>14, <3>2, <4>1
    <3>3. CASE x \in AllAreas /\ y = z
      <4>1. x[2].typ = "MEMORY" => FrameOK(pf', x[2])
        BY <2>13, <3>3
      <4>2. x[2].typ = "MEMORY" /\ "W" \in x[2].prot => x[2].pa # y[2].pa
        BY <1>0, <2>3, <2>8, <2>9, <3>3
      <4> QED
        BY <4>1, <4>2
    <3>4. CASE x = z /\ y = z
      BY <1>0, <2>14, <3>4
    <3> QED
      BY <1>1, <3>1, <3>2, <3>3, <3>4
  <2>16. ShareInv'
    BY <2>15 DEF ShareInv, FrameOK
  <2> QED
    BY <2>12, <2>16 DEF BlocksInv
<1> QED
  BY <1>4, <1>5

(* An area leaves: a memory area takes its reference with it, and the last *)
(* reference takes the block.                                              *)
LEMMA ShareDropped ==
    ASSUME TypeOK, BlocksInv, FiniteInv, NEW s \in SPACES, NEW a \in tree[s],
           \A t \in SPACES : \A b \in tree[t] : HungOK(b),
           tree' = [tree EXCEPT ![s] = tree[s] \ {a}],
           IF a.typ = "MEMORY" THEN unmmap_memory_cb(a) ELSE UNCHANGED <<free, pf>>,
           NEW c \in CPUS, OthersStay(c), ~InHand(c)
    PROVE  /\ BlocksInv' /\ UnmapOK(a)
           /\ pf' \in [HEADS -> FRAMES] /\ free' \in Nat /\ IsFiniteSet(Blocks')
           /\ \A f \in HEADS : Sharers(f) = {} => pf'[f] = pf[f]
           /\ free' + Cardinality(Blocks') = free + Cardinality(Blocks)
           /\ Cardinality(Blocks') \in Nat /\ Cardinality(Blocks) \in Nat
<1> DEFINE z == <<s, a>>
           f == a.pa
           k == pf[f].ref - 1
<1>0. a \in AREAS /\ z[1] = s /\ z[2] = a /\ HungOK(a) /\ (a.typ = "MEMORY" <=> f \in HEADS) /\ a.n \in Nat
  <2>1. HungOK(a)
    OBVIOUS
  <2> QED
    BY <2>1 DEF HungOK, AreaOK, AREAS
<1>1. AllAreas' = AllAreas \ {z} /\ z \in AllAreas
  BY AreasDel
<1>2. pf \in [HEADS -> FRAMES] /\ free \in Nat
  BY DEF TypeOK
<1>3. ASSUME NEW x \in AllAreas
      PROVE  HungOK(x[2]) /\ (x[2].typ = "MEMORY" <=> x[2].pa \in HEADS)
  <2>1. x[1] \in SPACES /\ x[2] \in tree[x[1]]
    BY AreasFacts
  <2> QED
    BY <2>1 DEF HungOK, AreaOK
<1>a. IsFiniteSet(Blocks) /\ Cardinality(Blocks) \in Nat
  BY FS_CardinalityType DEF FiniteInv
<1> HIDE DEF z, f, k
<1>4. CASE a.typ # "MEMORY"
  <2>1. pf' = pf /\ free' = free
    BY <1>4
  <2>2. ASSUME NEW g PROVE Sharers(g)' = Sharers(g)
    BY <1>0, <1>1, <1>4 DEF Sharers
  <2>3. ASSUME NEW g \in HEADS PROVE FrameInv(g)'
    <3>1. g \in InFlight => g \in InFlight'
      BY InFlightStays
    <3> QED
      BY <2>1, <2>2, <3>1, FrameStays DEF BlocksInv
  <2>4. ShareInv'
    BY <1>1, <2>1 DEF BlocksInv, ShareInv, FrameOK
  <2>5. Blocks' = Blocks
    BY <2>1 DEF Blocks, BlockPages
  <2> QED
    BY <1>2, <1>4, <1>a, <2>1, <2>3, <2>4, <2>5 DEF BlocksInv, UnmapOK
<1>5. CASE a.typ = "MEMORY"
  <2>1. f \in HEADS
    BY <1>0, <1>5
  <2>2. FrameOK(pf, a)
    BY <1>0, <1>1, <1>5 DEF BlocksInv, ShareInv
  <2>3. pf[f].typ = "VMA_AREA" /\ ORDER2PGNUM[pf[f].order] = a.n
    BY <2>2 DEF FrameOK, f
  <2>4. pf[f].order \in ORDERS /\ pf[f].ref = Cardinality(Sharers(f))
    BY <2>1, <2>3 DEF BlocksInv, FrameInv
  <2>5. IsFiniteSet(Sharers(f)) /\ Cardinality(Sharers(f)) \in Nat
    BY SharersFacts
  <2>6. Sharers(f)' = Sharers(f) \ {z} /\ z \in Sharers(f)
    BY <1>0, <1>1, <1>5 DEF Sharers, f
  <2>7. IsFiniteSet(Sharers(f)') /\ Cardinality(Sharers(f)') = k /\ Cardinality(Sharers(f)') \in Nat
    BY <2>4, <2>5, <2>6, FS_RemoveElement, FS_CardinalityType DEF k
  <2>8. UnmapOK(a)
    <3>1. a.pgfm = a.pa
      BY <1>0, <1>5 DEF HungOK
    <3>2. a.pgfm # None
      BY <2>1, <3>1, VmAssumption DEF f
    <3> QED
      BY <2>2, <3>2 DEF UnmapOK
  <2> DEFINE p == IF k = 0 THEN NoFrame ELSE Frame("VMA_AREA", k, pf[f].order)
  <2>9. pf' = [pf EXCEPT ![f] = p] /\ free' = (IF k = 0 THEN free + a.n ELSE free)
    <3>1. unmmap_memory_cb(a)
      BY <1>5
    <3>2. CASE k = 0
      BY <3>1, <3>2 DEF unmmap_memory_cb, BkpFree, f, k
    <3>3. CASE k # 0
      <4>1. pf' = [pf EXCEPT ![f] = Frame(pf[f].typ, k, pf[f].order)] /\ free' = free
        BY <3>1, <3>3 DEF unmmap_memory_cb, f, k
      <4> QED
        BY <2>3, <3>3, <4>1
    <3> QED
      BY <3>2, <3>3
  <2>10. /\ p \in FRAMES /\ (p.typ # "BUDDY" => p.order \in ORDERS)
         /\ k = 0 => p = NoFrame /\ p.typ = "BUDDY"
         /\ k # 0 => p.typ = "VMA_AREA" /\ p.ref = k /\ p.order = pf[f].order
         /\ BlockSize(p) = IF k = 0 THEN 0 ELSE a.n
    <3>1. CASE k = 0
      BY <3>1 DEF NoFrame, Frame, FRAMES, BlockSize
    <3>2. CASE k # 0
      BY <2>3, <2>4, <2>7, <3>2 DEF Frame, FRAMES, BlockSize
    <3> QED
      BY <3>1, <3>2
  <2>11. BlockSize(pf[f]) = a.n
    BY <2>3 DEF BlockSize
  <2> HIDE DEF p
  <2>12. /\ pf' \in [HEADS -> FRAMES] /\ pf'[f] = p /\ \A g \in HEADS : g # f => pf'[g] = pf[g]
         /\ IsFiniteSet(Blocks')
         /\ Cardinality(Blocks') = Cardinality(Blocks) - BlockSize(pf[f]) + BlockSize(p)
    BY <2>1, <2>4, <2>9, <2>10, BlocksChange
  <2>13. Cardinality(Blocks') \in Nat
    BY <2>12, FS_CardinalityType
  <2>14. free' \in Nat /\ free' + Cardinality(Blocks') = free + Cardinality(Blocks)
    <3>1. CASE k = 0
      BY <1>0, <1>2, <1>a, <2>9, <2>10, <2>11, <2>12, <2>13, <3>1
    <3>2. CASE k # 0
      BY <1>0, <1>2, <1>a, <2>9, <2>10, <2>11, <2>12, <2>13, <3>2
    <3> QED
      BY <3>1, <3>2
  <2>15. \A g \in HEADS : Sharers(g) = {} => pf'[g] = pf[g]
    BY <2>6, <2>12
  <2>16. ASSUME NEW g \in HEADS PROVE FrameInv(g)'
    <3>1. CASE g = f /\ k = 0
      <4>1. Sharers(f)' = {}
        BY <2>7, <3>1, FS_EmptySet
      <4> QED
        BY <2>10, <2>12, <3>1, <4>1 DEF FrameInv
    <3>2. CASE g = f /\ k # 0
      BY <2>4, <2>7, <2>10, <2>12, <3>2 DEF FrameInv
    <3>3. CASE g # f
      <4>1. Sharers(g)' = Sharers(g)
        BY <1>0, <1>1, <3>3 DEF Sharers, f
      <4>2. g \in InFlight => g \in InFlight'
        BY InFlightStays
      <4>3. pf'[g] = pf[g]
        BY <2>12, <3>3
      <4> QED
        BY <4>1, <4>2, <4>3, FrameStays DEF BlocksInv
    <3> QED
      BY <3>1, <3>2, <3>3
  <2>17. ASSUME NEW x \in AllAreas', x[2].typ = "MEMORY" PROVE FrameOK(pf', x[2])
    <3>1. x \in AllAreas
      BY <1>1
    <3>2. FrameOK(pf, x[2]) /\ x[2].pa \in HEADS
      BY <1>3, <2>17, <3>1 DEF BlocksInv, ShareInv
    <3>3. CASE x[2].pa = f
      <4>1. x \in Sharers(f)'
        BY <2>17, <3>3 DEF Sharers
      <4>2. k # 0
        BY <2>7, <4>1, FS_EmptySet
      <4> QED
        BY <2>10, <2>12, <3>2, <3>3, <4>2 DEF FrameOK
    <3>4. CASE x[2].pa # f
      BY <2>12, <3>2, <3>4 DEF FrameOK
    <3> QED
      BY <3>3, <3>4
  <2>18. ShareInv'
    BY <1>1, <2>17 DEF BlocksInv, ShareInv
  <2> QED
    BY <1>a, <2>8, <2>12, <2>13, <2>14, <2>15, <2>16, <2>18 DEF BlocksInv
<1> QED
  BY <1>4, <1>5

-----------------------------------------------------------------------------
(* What a step of CPU c that changes the spaces S leaves to the others.    *)

Stays(s) ==
    /\ st'[s] = st[s] /\ root'[s] = root[s] /\ list'[s] = list[s] /\ tree'[s] = tree[s]
    /\ tabs'[s] = tabs[s] /\ hw'[s] = hw[s]
SpacesStay(S) == \A s \in SPACES \ S : Stays(s)

(* No other CPU owns one of the spaces, or reads it for a copy.            *)
Apart(c, S) ==
    \A d \in CPUS \ {c} : ~(Owns(d) /\ l[d].s \in S) /\ ~(pc[d] = "dup" /\ l[d].src \in S)

StaysLive(s) == st[s] = "live" => st'[s] = "live" \/ Unused(s)
HandsKept(c) == \A d \in CPUS \ {c} : InHand(d) => pf'[l[d].blk] = pf[l[d].blk]

LEMMA OtherCalls ==
    ASSUME NEW c \in CPUS, NEW S, OthersStay(c), SpacesStay(S), Apart(c, S),
           \A s \in S : StaysLive(s), HandsKept(c), NEW d \in CPUS \ {c}, CallInv(d)
    PROVE  CallInv(d)'
<1>1. d \in CPUS /\ d # c /\ pc'[d] = pc[d] /\ l'[d] = l[d]
  BY DEF OthersStay
<1> DEFINE s == l[d].s
           src == l[d].src
<1>2. ASSUME NEW u \in SPACES, st[u] = "live", pc[d] # "idle", u \in {s, src}
      PROVE  st'[u] = "live"
  <2>1. CASE u \in S
    <3>1. ~Unused(u)
      BY <1>1, <1>2 DEF Unused
    <3> QED
      BY <1>2, <2>1, <3>1 DEF StaysLive
  <2>2. CASE u \notin S
    BY <1>2, <2>2 DEF SpacesStay, Stays
  <2> QED
    BY <2>1, <2>2
<1>3. ASSUME pc[d] \in {"area", "hang", "undo"} PROVE MmapInv(d)'
  <2>1. MmapInv(d)
    BY <1>3 DEF CallInv
  <2>2. st'[s] = "live"
    BY <1>2, <1>3, <2>1 DEF MmapInv
  <2>3. l[d].blk # None => pf'[l[d].blk] = pf[l[d].blk]
    BY <1>3 DEF HandsKept, InHand
  <2> QED
    BY <1>1, <2>1, <2>2, <2>3 DEF MmapInv, FrameOK
<1>4. ASSUME pc[d] = "unmap" PROVE UnmapInv(d)'
  <2>1. UnmapInv(d) /\ s \notin S
    BY <1>4 DEF CallInv, Apart, Owns
  <2>2. Stays(s)
    BY <2>1 DEF UnmapInv, SpacesStay
  <2> QED
    BY <1>1, <2>1, <2>2 DEF UnmapInv, Stays
<1>5. ASSUME pc[d] = "root" PROVE RootInv(d)'
  <2>1. RootInv(d) /\ s \notin S
    BY <1>5 DEF CallInv, Apart, Owns
  <2>2. Stays(s) /\ st'[src] = "live"
    BY <1>2, <1>5, <2>1 DEF RootInv, SpacesStay, SPACES
  <2> QED
    BY <1>1, <2>1, <2>2 DEF RootInv, Stays
<1>6. ASSUME pc[d] = "dup" PROVE DupInv(d)'
  <2>1. DupInv(d) /\ s \notin S /\ src \notin S
    BY <1>6 DEF CallInv, Apart, Owns
  <2>2. Stays(s) /\ Stays(src)
    BY <2>1 DEF DupInv, SpacesStay, SPACES
  <2> QED
    BY <1>1, <2>1, <2>2 DEF DupInv, Stays
<1>7. ASSUME pc[d] = "free" PROVE FreeInv(d)'
  <2>1. FreeInv(d) /\ s \notin S
    BY <1>7 DEF CallInv, Apart, Owns
  <2>2. Stays(s)
    BY <2>1 DEF FreeInv, SpacesStay, SPACES
  <2> QED
    BY <1>1, <2>1, <2>2 DEF FreeInv, Stays
<1> QED
  BY <1>1, <1>3, <1>4, <1>5, <1>6, <1>7 DEF CallInv

LEMMA OtherSpaces ==
    ASSUME NEW c \in CPUS, NEW S, OthersStay(c), SpacesStay(S),
           pc[c] = "unmap" => l[c].s \in S, pc'[c] = "unmap" => l'[c].s \in S,
           NEW s \in SPACES \ S, ListInv(s), HwInv(s), SpaceInv(s)
    PROVE  ListInv(s)' /\ HwInv(s)' /\ SpaceInv(s)'
<1>1. Stays(s)
  BY DEF SpacesStay
<1>2. Unmapping(s)' = Unmapping(s)
  BY UnmappingKept
<1>3. HwInv(s)'
  BY <1>1, <1>2, HwKept DEF Stays
<1>4. ListInv(s)'
  BY <1>1 DEF ListInv, Stays
<1>5. SpaceInv(s)'
  BY <1>1 DEF SpaceInv, Stays
<1> QED
  BY <1>3, <1>4, <1>5

(* CPU c goes on as owner of a space, or becomes the owner of one that     *)
(* nobody owns; the same for a block.                                      *)
LEMMA OwnerStep ==
    ASSUME OwnerInv, NEW c \in CPUS, OthersStay(c),
           Owns(c)' => \A d \in CPUS \ {c} : Owns(d) => l[d].s # l'[c].s,
           InHand(c)' => \A d \in CPUS \ {c} : InHand(d) => l[d].blk # l'[c].blk
    PROVE  OwnerInv'
<1>1. \A d \in CPUS : d # c => pc'[d] = pc[d] /\ l'[d] = l[d]
  BY DEF OthersStay
<1>2. \A d \in CPUS : d # c => (Owns(d)' <=> Owns(d)) /\ (InHand(d)' <=> InHand(d))
  BY <1>1 DEF Owns, InHand
<1>3. ASSUME NEW d \in CPUS, NEW e \in CPUS, d # e, Owns(d)', Owns(e)' PROVE l'[d].s # l'[e].s
  <2>1. CASE d = c
    BY <1>1, <1>2, <1>3, <2>1
  <2>2. CASE e = c
    BY <1>1, <1>2, <1>3, <2>2
  <2>3. CASE d # c /\ e # c
    <3>1. l[d].s # l[e].s
      BY <1>2, <1>3, <2>3 DEF OwnerInv
    <3> QED
      BY <1>1, <2>3, <3>1
  <2> QED
    BY <2>1, <2>2, <2>3
<1>4. ASSUME NEW d \in CPUS, NEW e \in CPUS, d # e, InHand(d)', InHand(e)'
      PROVE  l'[d].blk # l'[e].blk
  <2>1. CASE d = c
    BY <1>1, <1>2, <1>4, <2>1
  <2>2. CASE e = c
    BY <1>1, <1>2, <1>4, <2>2
  <2>3. CASE d # c /\ e # c
    <3>1. l[d].blk # l[e].blk
      BY <1>2, <1>4, <2>3 DEF OwnerInv
    <3> QED
      BY <1>1, <2>3, <3>1
  <2> QED
    BY <2>1, <2>2, <2>3
<1> QED
  BY <1>3, <1>4 DEF OwnerInv

(* The locks of a step that takes and leaves none.                         *)
LEMMA LocksStay ==
    ASSUME LockInv, NEW c \in CPUS, OthersStay(c), writer' = writer, readers' = readers,
           pc[c] \notin {"unmap", "free", "dup"}, pc'[c] \notin {"unmap", "free", "dup"}
    PROVE  LockInv'
<1>1. ASSUME NEW s \in SPACES, NEW d \in CPUS
      PROVE  /\ writer'[s] = d <=> (pc'[d] \in {"unmap", "free"} /\ l'[d].s = s)
             /\ d \in readers'[s] <=> (pc'[d] = "dup" /\ l'[d].src = s)
  <2>1. CASE d = c
    BY <2>1 DEF LockInv
  <2>2. CASE d # c
    BY <2>2 DEF LockInv, OthersStay
  <2> QED
    BY <2>1, <2>2
<1>2. \A s \in SPACES : writer'[s] # None => readers'[s] = {}
  BY DEF LockInv
<1> QED
  BY <1>1, <1>2 DEF LockInv

(* A step that changes no space at all.                                    *)
LEMMA NoneChanged ==
    ASSUME NEW c \in CPUS, UNCHANGED <<spaceVars, areaVars, hwVars>>
    PROVE  SpacesStay({}) /\ Apart(c, {}) /\ \A s \in {} : StaysLive(s)
BY DEF SpacesStay, Stays, Apart, spaceVars, areaVars, hwVars

(* A CPU does not own a space in use that no writer is in, nor one it has  *)
(* nothing to do with.                                                     *)
LEMMA LiveApart ==
    ASSUME IInv, NEW c \in CPUS, NEW s \in SPACES, st[s] = "live", WFree(s)
    PROVE  Apart(c, {s}) /\ Unmapping(s) = {} /\ \A d \in CPUS : ~(Owns(d) /\ l[d].s = s)
<1>1. LockInv /\ writer[s] = None /\ readers[s] = {} /\ None \notin CPUS
  BY VmAssumption DEF IInv, WFree
<1>2. ASSUME NEW d \in CPUS PROVE ~(Owns(d) /\ l[d].s = s) /\ ~(pc[d] = "dup" /\ l[d].src = s)
  <2>1. ~(pc[d] \in {"unmap", "free"} /\ l[d].s = s) /\ ~(pc[d] = "dup" /\ l[d].src = s)
    BY <1>1 DEF LockInv
  <2>2. ASSUME pc[d] \in {"root", "dup"} PROVE st[l[d].s] = "new"
    BY <2>2 DEF IInv, CallInv, RootInv, DupInv
  <2> QED
    BY <2>1, <2>2 DEF Owns
<1> QED
  BY <1>1, <1>2, UnmappingOf DEF Apart

LEMMA OwnedApart ==
    ASSUME IInv, NEW c \in CPUS, Owns(c)
    PROVE  /\ \A d \in CPUS \ {c} : Owns(d) => l[d].s # l[c].s
           /\ pc[c] \in {"unmap", "free"} \/ st[l[c].s] # "live" => Apart(c, {l[c].s})
<1>1. \A d \in CPUS \ {c} : Owns(d) => l[d].s # l[c].s
  BY DEF IInv, OwnerInv
<1>2. ASSUME pc[c] \in {"unmap", "free"} \/ st[l[c].s] # "live", NEW d \in CPUS \ {c},
             pc[d] = "dup", l[d].src = l[c].s
      PROVE  FALSE
  <2>1. DupInv(d)
    BY <1>2 DEF IInv, CallInv
  <2>2. l[d].src \in SPACES /\ st[l[d].src] = "live"
    BY <2>1 DEF DupInv
  <2>3. d \in readers[l[c].s] /\ writer[l[c].s] = c
    BY <1>2, <2>2 DEF IInv, LockInv
  <2>4. writer[l[c].s] # None
    BY <2>3, VmAssumption
  <2> QED
    BY <1>2, <2>2, <2>3, <2>4 DEF IInv, LockInv
<1> QED
  BY <1>1, <1>2 DEF Apart

(* The invariant after a step: what the step must show.                    *)
LEMMA Assemble ==
    ASSUME IInv, NEW c \in CPUS, NEW S \in SUBSET SPACES,
           OthersStay(c), SpacesStay(S), Apart(c, S), HandsKept(c),
           \A s \in S : StaysLive(s) /\ ListInv(s)' /\ HwInv(s)' /\ SpaceInv(s)',
           pc[c] = "unmap" => l[c].s \in S, pc'[c] = "unmap" => l'[c].s \in S,
           KVMA \in S => st'[KVMA] = "live",
           TypeOK', ~panic', CallInv(c)', LockInv', OwnerInv', BlocksInv', CountInv', FiniteInv'
    PROVE  IInv'
<1>1. ASSUME NEW s \in SPACES PROVE ListInv(s)' /\ HwInv(s)' /\ SpaceInv(s)'
  <2>1. CASE s \in S
    BY <2>1
  <2>2. CASE s \notin S
    <3>1. s \in SPACES \ S /\ ListInv(s) /\ HwInv(s) /\ SpaceInv(s)
      BY <2>2 DEF IInv
    <3> QED
      BY <3>1, OtherSpaces
  <2> QED
    BY <2>1, <2>2
<1>2. ASSUME NEW d \in CPUS PROVE CallInv(d)'
  <2>1. CASE d = c
    BY <2>1
  <2>2. CASE d # c
    <3>1. d \in CPUS \ {c} /\ CallInv(d)
      BY <2>2 DEF IInv
    <3> QED
      BY <3>1, OtherCalls
  <2> QED
    BY <2>1, <2>2
<1>3. st'[KVMA] = "live"
  <2>1. KVMA \in SPACES /\ st[KVMA] = "live"
    BY DEF IInv, SPACES
  <2> QED
    BY <2>1 DEF SpacesStay, Stays
<1> QED
  BY <1>1, <1>2, <1>3 DEF IInv, BlocksInv

(* The type of a state in which only the block table and the calls have    *)
(* changed.                                                                *)
LEMMA TypeStays ==
    ASSUME TypeOK, UNCHANGED <<spaceVars, areaVars, hwVars, lockVars>>,
           free' \in Nat, areas' \in Int, panic' \in BOOLEAN, pf' \in [HEADS -> FRAMES],
           pc' \in [CPUS -> PCS], l' = [d \in CPUS |-> l'[d]]
    PROVE  TypeOK'
<1>1. /\ st' = st /\ root' = root /\ list' = list /\ tree' = tree /\ tabs' = tabs /\ hw' = hw
      /\ writer' = writer /\ readers' = readers
  BY DEF spaceVars, areaVars, hwVars, lockVars
<1>2. hw' = [s \in SPACES |-> hw'[s]]
  BY <1>1, Zenon DEF TypeOK
<1> QED
  BY <1>1, <1>2 DEF TypeOK

(* A block the page allocator gives out is free.                           *)
LEMMA BkpAllocFacts ==
    ASSUME NEW o, BkpAlloc(o) # None
    PROVE  BkpAlloc(o) \in HEADS /\ pf[BkpAlloc(o)].typ = "BUDDY" /\ ~(free < ORDER2PGNUM[o])
<1> DEFINE H == {h \in HEADS : pf[h].typ = "BUDDY"}
<1>1. ~(free < ORDER2PGNUM[o]) /\ H # {} /\ BkpAlloc(o) = CHOOSE h \in H : TRUE
  BY DEF BkpAlloc
<1>2. BkpAlloc(o) \in H
  BY <1>1
<1> QED
  BY <1>1, <1>2

(* What FramesConserved says of a step.                                    *)
Lost == {s \in USERS : root[s] /\ ~root'[s]}
Conserved == Accounted' = Accounted - Cardinality(Lost)

LEMMA SameRoots ==
    ASSUME TypeOK, FiniteInv, TypeOK', FiniteInv', root' = root,
           free' + Cardinality(Blocks') + Cardinality(Tables')
             = free + Cardinality(Blocks) + Cardinality(Tables)
    PROVE  Conserved
<1>1. Roots' = Roots
  BY DEF Roots
<1>2. Cardinality(Lost) = 0
  BY FS_EmptySet DEF Lost
<1>3. Cardinality(Roots) \in Nat
  <2>1. Roots \in SUBSET USERS
    BY DEF Roots
  <2> QED
    BY <2>1, FS_Subset, FS_CardinalityType, VmAssumption
<1>4. /\ free \in Nat /\ free' \in Nat
      /\ Cardinality(Blocks) \in Nat /\ Cardinality(Blocks') \in Nat
      /\ Cardinality(Tables) \in Nat /\ Cardinality(Tables') \in Nat
  BY FS_CardinalityType DEF TypeOK, FiniteInv
<1> QED
  BY <1>1, <1>2, <1>3, <1>4 DEF Conserved, Accounted

LEMMA VmMmapStep ==
    ASSUME IInv, NEW c \in CPUS, VmMmap(c)
    PROVE  IInv' /\ Conserved
<1>1. PICK s \in Live, v \in MMAPS :
        LET f == BkpAlloc(v[2])
            n == ORDER2PGNUM[v[2]]
        IN  /\ f # None
            /\ pf' = AllocBlock(f, v[2]) /\ free' = free - n
            /\ Goto(c, "area", Local(s, None, 0, f, Area("MEMORY", v[1], n, f, v[3], None)),
                    pf[f].typ = "BUDDY")
  BY DEF VmMmap
<1> DEFINE o == v[2]
           f == BkpAlloc(o)
           n == ORDER2PGNUM[o]
           a == Area("MEMORY", v[1], n, f, v[3], None)
           x == Local(s, None, 0, f, a)
<1>2. /\ f # None /\ pf' = AllocBlock(f, o) /\ free' = free - n
      /\ Goto(c, "area", x, pf[f].typ = "BUDDY")
  BY <1>1
<1>3. /\ pc[c] = "idle" /\ areas' = areas /\ UNCHANGED <<spaceVars, areaVars, hwVars, lockVars>>
  BY DEF VmMmap
<1>4. f \in HEADS /\ pf[f].typ = "BUDDY" /\ ~(free < n)
  BY <1>2, BkpAllocFacts
<1>5. /\ o \in ORDERS /\ n \in Nat \ {0} /\ v[1] \in Int /\ s \in SPACES /\ st[s] = "live"
      /\ v[1] >= 0 /\ v[1] + n <= VPNS /\ v[3] \in PROTS
  BY VmAssumption, AddressAssumption DEF Live, PROTS
<1>6. TypeOK /\ FiniteInv /\ BlocksInv /\ LockInv /\ OwnerInv /\ CountInv
  BY DEF IInv, BlocksInv
<1>7. NewOK(a) /\ a.typ = "MEMORY" /\ a.pa = f /\ a.n = n
  BY <1>4, <1>5 DEF a, Area, NewOK, AreaOK, InTable, AREAS, PAS
<1>8. x.s = s /\ x.blk = f /\ x.x = a
  BY DEF Local
<1> HIDE DEF f, a, x, n, o
<1>9. /\ pc'[c] = "area" /\ l'[c] = x /\ OthersStay(c)
      /\ pc' \in [CPUS -> PCS] /\ l' = [d \in CPUS |-> l'[d]]
      /\ panic' \in BOOLEAN /\ ~panic'
  BY <1>2, <1>4, <1>6, GotoFacts DEF PCS
<1> DEFINE p == Frame("VMA_AREA", 0, o)
<1>10. /\ p \in FRAMES /\ p.typ = "VMA_AREA" /\ p.order = o /\ p.ref = 0
  BY <1>5 DEF Frame, FRAMES
<1>11. pf' = [pf EXCEPT ![f] = p]
  BY <1>2 DEF AllocBlock
<1>12. BlockSize(pf[f]) = 0 /\ BlockSize(p) = n
  BY <1>4, <1>10 DEF BlockSize, n
<1> HIDE DEF p
<1>13. /\ pf' \in [HEADS -> FRAMES] /\ pf'[f] = p /\ \A g \in HEADS : g # f => pf'[g] = pf[g]
       /\ IsFiniteSet(Blocks')
       /\ Cardinality(Blocks') = Cardinality(Blocks) - BlockSize(pf[f]) + BlockSize(p)
  BY <1>4, <1>5, <1>6, <1>10, <1>11, BlocksChange
<1>14. free \in Nat /\ areas \in Int
  BY <1>6 DEF TypeOK
<1>15. Cardinality(Blocks) \in Nat /\ Cardinality(Blocks') \in Nat
  BY <1>6, <1>13, FS_CardinalityType DEF FiniteInv
<1>16. TypeOK'
  <2>1. free' \in Nat
    BY <1>2, <1>4, <1>5, <1>14
  <2> QED
    BY <1>3, <1>6, <1>9, <1>13, <1>14, <2>1, TypeStays
<1>17. tree' = tree /\ tabs' = tabs /\ writer' = writer /\ readers' = readers /\ st' = st
  BY <1>3 DEF areaVars, hwVars, lockVars, spaceVars
<1>18. ~InHand(c) /\ InHand(c)' /\ l'[c].blk = f
  BY <1>2, <1>3, <1>8, <1>9 DEF InHand
<1>19. BlocksInv' /\ AllAreas' = AllAreas
  BY <1>4, <1>5, <1>6, <1>9, <1>11, <1>17, <1>18, BlockTaken DEF p
<1>20. FiniteInv'
  BY <1>6, <1>13, <1>17, <1>19 DEF FiniteInv, Tables
<1>21. LockInv'
  BY <1>3, <1>6, <1>9, <1>17, LocksStay
<1>22. \A d \in CPUS : InHand(d) => l[d].blk \in HEADS /\ l[d].blk # f
  BY <1>4, <1>6, InHandFacts DEF IInv
<1>23. OwnerInv'
  <2>1. ~Owns(c)'
    BY <1>9 DEF Owns
  <2> QED
    BY <1>6, <1>9, <1>18, <1>22, <2>1, OwnerStep
<1>24. HandsKept(c)
  BY <1>13, <1>22 DEF HandsKept
<1>25. CountInv'
  <2>1. Cardinality(Busy') = Cardinality(Busy)
    BY <1>3, <1>9, BusyChange DEF Busy
  <2> QED
    BY <1>3, <1>6, <1>19, <2>1 DEF CountInv, Busy
<1>26. CallInv(c)'
  <2>1. FrameOK(pf', a)
    BY <1>7, <1>10, <1>13 DEF FrameOK, n
  <2>2. MmapInv(c)'
    BY <1>2, <1>4, <1>5, <1>7, <1>8, <1>9, <1>10, <1>13, <1>17, <2>1 DEF MmapInv
  <2> QED
    BY <1>9, <2>2 DEF CallInv
<1>27. IInv'
  <2>1. SpacesStay({}) /\ Apart(c, {}) /\ \A u \in {} : StaysLive(u)
    BY <1>3, NoneChanged
  <2> QED
    BY <1>3, <1>9, <1>16, <1>19, <1>20, <1>21, <1>23, <1>24, <1>25, <1>26, <2>1, Assemble
<1>28. Conserved
  <2>1. free' + Cardinality(Blocks') = free + Cardinality(Blocks)
    BY <1>2, <1>5, <1>12, <1>13, <1>14, <1>15
  <2>2. root' = root /\ Tables' = Tables
    BY <1>3, <1>17 DEF spaceVars, Tables
  <2> QED
    BY <1>6, <1>16, <1>20, <2>1, <2>2, SameRoots
<1> QED
  BY <1>27, <1>28

LEMMA VmIomapStep ==
    ASSUME IInv, NEW c \in CPUS, VmIomap(c)
    PROVE  IInv' /\ Conserved
<1>1. PICK s \in Live, v \in IOMAPS, pa \in IOPAGES :
        Goto(c, "area", Local(s, None, 0, None, Area("IO", v[1], v[2], pa, v[3], None)), TRUE)
  BY DEF VmIomap
<1> DEFINE a == Area("IO", v[1], v[2], pa, v[3], None)
           x == Local(s, None, 0, None, a)
<1>2. Goto(c, "area", x, TRUE)
  BY <1>1
<1>3. /\ pc[c] = "idle" /\ areas' = areas /\ free' = free /\ pf' = pf
      /\ UNCHANGED <<spaceVars, areaVars, hwVars, lockVars>>
  BY DEF VmIomap
<1>5. /\ v[1] \in Int /\ v[2] \in Nat \ {0} /\ s \in SPACES /\ st[s] = "live" /\ pa \notin HEADS
      /\ v[1] >= 0 /\ v[1] + v[2] <= VPNS /\ v[3] \in PROTS
  BY VmAssumption, AddressAssumption DEF Live, PROTS
<1>6. TypeOK /\ FiniteInv /\ BlocksInv /\ LockInv /\ OwnerInv /\ CountInv
  BY DEF IInv, BlocksInv
<1>7. NewOK(a) /\ a.typ = "IO"
  BY <1>5 DEF a, Area, NewOK, AreaOK, InTable, AREAS, PAS
<1>8. x.s = s /\ x.blk = None /\ x.x = a
  BY DEF Local
<1> HIDE DEF a, x
<1>9. /\ pc'[c] = "area" /\ l'[c] = x /\ OthersStay(c)
      /\ pc' \in [CPUS -> PCS] /\ l' = [d \in CPUS |-> l'[d]]
      /\ panic' \in BOOLEAN /\ ~panic'
  BY <1>2, <1>6, GotoFacts DEF PCS
<1>16. TypeOK'
  BY <1>3, <1>6, <1>9, TypeStays DEF TypeOK
<1>17. /\ tree' = tree /\ tabs' = tabs /\ writer' = writer /\ readers' = readers /\ st' = st
       /\ Blocks' = Blocks /\ Tables' = Tables
  BY <1>3 DEF areaVars, hwVars, lockVars, spaceVars, Blocks, BlockPages, Tables
<1>18. ~InHand(c) /\ ~InHand(c)' /\ ~Owns(c)'
  BY <1>3, <1>8, <1>9 DEF InHand, Owns
<1>19. BlocksInv' /\ AllAreas' = AllAreas
  BY <1>3, <1>6, <1>9, <1>17, <1>18, BlocksStay
<1>20. FiniteInv'
  BY <1>6, <1>17, <1>19 DEF FiniteInv
<1>21. LockInv'
  BY <1>3, <1>6, <1>9, <1>17, LocksStay
<1>23. OwnerInv'
  BY <1>6, <1>9, <1>18, OwnerStep
<1>24. HandsKept(c)
  BY <1>3 DEF HandsKept
<1>25. CountInv'
  <2>1. Cardinality(Busy') = Cardinality(Busy)
    BY <1>3, <1>9, BusyChange DEF Busy
  <2> QED
    BY <1>3, <1>6, <1>19, <2>1 DEF CountInv, Busy
<1>26. CallInv(c)'
  <2>2. MmapInv(c)'
    BY <1>5, <1>7, <1>8, <1>9, <1>17 DEF MmapInv
  <2> QED
    BY <1>9, <2>2 DEF CallInv
<1>27. IInv'
  <2>1. SpacesStay({}) /\ Apart(c, {}) /\ \A u \in {} : StaysLive(u)
    BY <1>3, NoneChanged
  <2> QED
    BY <1>3, <1>9, <1>16, <1>19, <1>20, <1>21, <1>23, <1>24, <1>25, <1>26, <2>1, Assemble
<1>28. Conserved
  BY <1>3, <1>6, <1>16, <1>17, <1>20, SameRoots DEF spaceVars
<1> QED
  BY <1>27, <1>28

LEMMA VmMmapAreaStep ==
    ASSUME IInv, NEW c \in CPUS, VmMmapArea(c)
    PROVE  IInv' /\ Conserved
<1> DEFINE full == areas = AREA_NUM
           q == IF ~full THEN "hang" ELSE IF l[c].blk = None THEN "idle" ELSE "undo"
           x == IF q = "idle" THEN None ELSE l[c]
<1>1. pc[c] = "area" /\ MmapInv(c)
  BY DEF VmMmapArea, IInv, CallInv
<1>2. Goto(c, q, x, TRUE) /\ areas' = (IF full THEN areas ELSE areas + 1)
  BY DEF VmMmapArea
<1>3. free' = free /\ pf' = pf /\ UNCHANGED <<spaceVars, areaVars, hwVars, lockVars>>
  BY DEF VmMmapArea
<1>4. /\ q \in PCS /\ q \in {"hang", "idle", "undo"} /\ (q = "hang" <=> ~full)
      /\ q = "idle" => l[c].blk = None
      /\ q = "undo" => l[c].blk # None
      /\ q # "idle" => x = l[c]
  BY DEF PCS
<1> HIDE DEF q, x, full
<1>6. TypeOK /\ FiniteInv /\ BlocksInv /\ LockInv /\ OwnerInv /\ CountInv
  BY DEF IInv, BlocksInv
<1>9. /\ pc'[c] = q /\ l'[c] = x /\ OthersStay(c)
      /\ pc' \in [CPUS -> PCS] /\ l' = [d \in CPUS |-> l'[d]]
      /\ panic' \in BOOLEAN /\ ~panic'
  BY <1>2, <1>4, <1>6, GotoFacts
<1>14. areas \in Int /\ areas' \in Int
  BY <1>2, <1>6 DEF TypeOK
<1>16. TypeOK'
  BY <1>3, <1>6, <1>9, <1>14, TypeStays DEF TypeOK
<1>17. /\ tree' = tree /\ tabs' = tabs /\ writer' = writer /\ readers' = readers /\ st' = st
       /\ Blocks' = Blocks /\ Tables' = Tables
  BY <1>3 DEF areaVars, hwVars, lockVars, spaceVars, Blocks, BlockPages, Tables
<1>18. /\ InHand(c) => InHand(c)' /\ l'[c].blk = l[c].blk
       /\ InHand(c)' => InHand(c) /\ l'[c].blk = l[c].blk
       /\ ~Owns(c)'
  BY <1>1, <1>4, <1>9 DEF InHand, Owns
<1>19. BlocksInv' /\ AllAreas' = AllAreas
  BY <1>3, <1>6, <1>9, <1>17, <1>18, BlocksStay
<1>20. FiniteInv'
  BY <1>6, <1>17, <1>19 DEF FiniteInv
<1>21. LockInv'
  BY <1>1, <1>4, <1>6, <1>9, <1>17, LocksStay
<1>23. OwnerInv'
  <2>1. InHand(c)' => \A d \in CPUS \ {c} : InHand(d) => l[d].blk # l'[c].blk
    BY <1>6, <1>18 DEF OwnerInv
  <2> QED
    BY <1>6, <1>9, <1>18, <2>1, OwnerStep
<1>24. HandsKept(c)
  BY <1>3 DEF HandsKept
<1>25. CountInv'
  <2>1. c \notin Busy /\ (c \in Busy' <=> ~full)
    BY <1>1, <1>4, <1>9 DEF Busy
  <2>2. Cardinality(AllAreas) \in Nat /\ Cardinality(Busy) \in Nat
    BY <1>6, <1>9, BusyChange, FS_CardinalityType DEF FiniteInv
  <2>3. areas = Cardinality(AllAreas) + Cardinality(Busy)
    BY <1>6 DEF CountInv, Busy
  <2>4. CASE full
    <3>1. Cardinality(Busy') = Cardinality(Busy)
      BY <1>9, <2>1, <2>4, BusyChange
    <3> QED
      BY <1>2, <1>19, <2>3, <2>4, <3>1 DEF CountInv, Busy
  <2>5. CASE ~full
    <3>1. Cardinality(Busy') = Cardinality(Busy) + 1
      BY <1>9, <2>1, <2>5, BusyChange
    <3>2. areas' = Cardinality(AllAreas') + Cardinality(Busy')
      BY <1>2, <1>19, <2>2, <2>3, <2>5, <3>1
    <3> QED
      BY <3>2 DEF CountInv, Busy
  <2> QED
    BY <2>4, <2>5
<1>26. CallInv(c)'
  <2>1. q # "idle" => MmapInv(c)'
    BY <1>1, <1>3, <1>4, <1>9, <1>17 DEF MmapInv, FrameOK
  <2> QED
    BY <1>4, <1>9, <2>1 DEF CallInv
<1>27. IInv'
  <2>1. SpacesStay({}) /\ Apart(c, {}) /\ \A u \in {} : StaysLive(u)
    BY <1>3, NoneChanged
  <2> QED
    BY <1>1, <1>4, <1>9, <1>16, <1>19, <1>20, <1>21, <1>23, <1>24, <1>25, <1>26, <2>1, Assemble
<1>28. Conserved
  BY <1>3, <1>6, <1>16, <1>17, <1>20, SameRoots DEF spaceVars
<1> QED
  BY <1>27, <1>28

LEMMA VmMmapUndoStep ==
    ASSUME IInv, NEW c \in CPUS, VmMmapUndo(c)
    PROVE  IInv' /\ Conserved
<1> DEFINE f == l[c].blk
           o == pf[f].order
<1>1. pc[c] = "undo" /\ MmapInv(c) /\ InHand(c)
  <2>1. pc[c] = "undo" /\ MmapInv(c)
    BY DEF VmMmapUndo, IInv, CallInv
  <2> QED
    BY <2>1 DEF MmapInv, InHand
<1>2. pf' = [pf EXCEPT ![f] = NoFrame] /\ free' = free + ORDER2PGNUM[o] /\ Goto(c, "idle", None, TRUE)
  BY DEF VmMmapUndo, BkpFree
<1>3. areas' = areas /\ UNCHANGED <<spaceVars, areaVars, hwVars, lockVars>>
  BY DEF VmMmapUndo
<1>6. TypeOK /\ FiniteInv /\ BlocksInv /\ LockInv /\ OwnerInv /\ CountInv
  BY DEF IInv, BlocksInv
<1>7. f \in HEADS /\ pf[f].typ = "VMA_AREA" /\ Sharers(f) = {}
  BY <1>1, InHandFacts DEF IInv
<1>8. o \in ORDERS /\ ORDER2PGNUM[o] \in Nat
  BY <1>6, <1>7, VmAssumption DEF BlocksInv, FrameInv
<1>9. /\ pc'[c] = "idle" /\ l'[c] = None /\ OthersStay(c)
      /\ pc' \in [CPUS -> PCS] /\ l' = [d \in CPUS |-> l'[d]]
      /\ panic' \in BOOLEAN /\ ~panic'
  BY <1>2, <1>6, GotoFacts DEF PCS
<1>10. NoFrame \in FRAMES /\ NoFrame.typ = "BUDDY"
  BY DEF NoFrame, Frame, FRAMES
<1>11. BlockSize(pf[f]) = ORDER2PGNUM[o] /\ BlockSize(NoFrame) = 0
  BY <1>7, <1>10 DEF BlockSize
<1> HIDE DEF f, o
<1>13. /\ pf' \in [HEADS -> FRAMES] /\ \A g \in HEADS : g # f => pf'[g] = pf[g]
       /\ IsFiniteSet(Blocks')
       /\ Cardinality(Blocks') = Cardinality(Blocks) - BlockSize(pf[f]) + BlockSize(NoFrame)
  BY <1>2, <1>6, <1>7, <1>8, <1>10, BlocksChange DEF o
<1>14. free \in Nat /\ areas \in Int /\ free' \in Nat
  BY <1>2, <1>6, <1>8 DEF TypeOK
<1>15. Cardinality(Blocks) \in Nat /\ Cardinality(Blocks') \in Nat
  BY <1>6, <1>13, FS_CardinalityType DEF FiniteInv
<1>16. TypeOK'
  BY <1>3, <1>6, <1>9, <1>13, <1>14, TypeStays
<1>17. /\ tree' = tree /\ tabs' = tabs /\ writer' = writer /\ readers' = readers /\ st' = st
       /\ Tables' = Tables /\ root' = root
  BY <1>3 DEF areaVars, hwVars, lockVars, spaceVars, Tables
<1>19. BlocksInv' /\ AllAreas' = AllAreas
  BY <1>2, <1>6, <1>7, <1>9, <1>17, BlockGiven DEF f
<1>20. FiniteInv'
  BY <1>6, <1>13, <1>17, <1>19 DEF FiniteInv
<1>21. LockInv'
  BY <1>1, <1>6, <1>9, <1>17, LocksStay
<1>22. \A d \in CPUS \ {c} : InHand(d) => l[d].blk \in HEADS /\ l[d].blk # f
  <2>1. \A d \in CPUS \ {c} : InHand(d) => l[d].blk # f
    BY <1>1, <1>6 DEF OwnerInv, f
  <2> QED
    BY <1>6, <2>1, InHandFacts DEF IInv
<1>23. OwnerInv'
  <2>1. ~Owns(c)' /\ ~InHand(c)'
    BY <1>9 DEF Owns, InHand
  <2> QED
    BY <1>6, <1>9, <2>1, OwnerStep
<1>24. HandsKept(c)
  BY <1>13, <1>22 DEF HandsKept
<1>25. CountInv'
  <2>1. Cardinality(Busy') = Cardinality(Busy)
    BY <1>1, <1>9, BusyChange DEF Busy
  <2> QED
    BY <1>3, <1>6, <1>19, <2>1 DEF CountInv, Busy
<1>26. CallInv(c)'
  BY <1>9 DEF CallInv
<1>27. IInv'
  <2>1. SpacesStay({}) /\ Apart(c, {}) /\ \A u \in {} : StaysLive(u)
    BY <1>3, NoneChanged
  <2> QED
    BY <1>1, <1>9, <1>16, <1>19, <1>20, <1>21, <1>23, <1>24, <1>25, <1>26, <2>1, Assemble
<1>28. Conserved
  <2>1. free' + Cardinality(Blocks') = free + Cardinality(Blocks)
    BY <1>2, <1>8, <1>11, <1>13, <1>14, <1>15
  <2> QED
    BY <1>6, <1>16, <1>17, <1>20, <2>1, SameRoots
<1> QED
  BY <1>27, <1>28

-----------------------------------------------------------------------------
(* Mapping an area.                                                        *)

(* __vm_mmap on a space nobody is unmapping from.                          *)
LEMMA MapFacts ==
    ASSUME IInv, NEW s \in SPACES, NEW a, NewOK(a), NEW n \in Nat,
           Unmapping(s) = {}, Unmapping(s)' = {}, __vm_mmap(s, a, n)
    PROVE  /\ ~Refused(s, a) => HwMmap(s, a, n) # "EEXIST"
           /\ list' \in [SPACES -> Seq(AREAS)] /\ tree' \in [SPACES -> SUBSET AREAS]
           /\ tabs' \in [SPACES -> SUBSET Int] /\ \A t \in SPACES : IsFiniteSet(tabs'[t])
           /\ hw' = [t \in SPACES |-> hw'[t]]
           /\ \A t \in SPACES : t # s => /\ list'[t] = list[t] /\ tree'[t] = tree[t]
                                         /\ tabs'[t] = tabs[t] /\ hw'[t] = hw[t]
           /\ ListInv(s)' /\ HwInv(s)' /\ MmapFree(s, a, n) \in Nat /\ IsFiniteSet(Tables')
           /\ MmapFree(s, a, n) + Cardinality(Tables') = n + Cardinality(Tables)
           /\ MmapRet(s, a, n) # "OK" => list' = list /\ tree' = tree
           /\ MmapRet(s, a, n) = "OK" =>
                /\ tree' = [tree EXCEPT ![s] = tree[s] \cup {Mapped(a)}] /\ Mapped(a) \notin tree[s]
                /\ \A b \in tree[s] : ~Overlap(a, b)
                /\ Len(list'[s]) = Len(list[s]) + 1
                /\ (\A i \in 1..Len(list[s]) : list[s][i].va + list[s][i].n <= a.va) =>
                     /\ list'[s][Len(list[s]) + 1] = Mapped(a)
                     /\ \A i \in 1..Len(list[s]) : list'[s][i] = list[s][i]
<1> DEFINE T == MmapTabs(s, a, n)
           m == MmapFree(s, a, n)
           ret == MmapRet(s, a, n)
           b == Mapped(a)
<1>1. TypeOK /\ FiniteInv /\ ListInv(s) /\ HwInv(s) /\ a \in AREAS
  BY DEF IInv, NewOK, AreaOK
<1>2. T \in SUBSET Int /\ IsFiniteSet(T) /\ m \in Nat
  BY <1>1, MmapTabsFacts
<1>3. m = n + Cardinality(tabs[s]) - Cardinality(T)
  BY DEF MmapFree
<1>4. tabs' = [tabs EXCEPT ![s] = T]
  BY DEF __vm_mmap
<1>5. ret = "OK" => /\ vma_area_hang(s, b)
                    /\ hw' = [hw EXCEPT ![s] = [v \in DOMAIN hw[s] \cup Entries(a) |->
                                 IF v \in Entries(a) THEN Pte(a, v) ELSE hw[s][v]]]
  BY DEF __vm_mmap
<1>6. ret # "OK" => hw' = hw /\ list' = list /\ tree' = tree
  BY DEF __vm_mmap, areaVars
<1>7. ~Refused(s, a) => HwMmap(s, a, n) # "EEXIST"
  <2> SUFFICES ASSUME ~Refused(s, a) PROVE Reached(s, a, n) \cap DOMAIN hw[s] = {}
    BY DEF HwMmap
  <2>1. AreaOK(a) /\ Vpns(a.va, a.n) = Pages(a.va, a.n)
    BY InTableFacts DEF NewOK
  <2>2. ASSUME NEW v \in DOMAIN hw[s] PROVE v \notin Pages(a.va, a.n)
    <3>1. PICK x \in tree[s] : v \in Entries(x)
      BY <1>1 DEF HwInv
    <3>2. x \in AREAS /\ AreaOK(x) /\ ~Overlap(a, x)
      BY <1>1, <3>1 DEF Refused, ListInv, HungOK, AreaOK
    <3>3. v \in Pages(x.va, x.n)
      BY <3>1, <3>2, InTableFacts
    <3> QED
      BY <1>1, <3>2, <3>3, OverlapFacts
  <2> QED
    BY <2>1, <2>2 DEF Reached
<1> HIDE DEF T, m, ret
<1>8. /\ tabs' \in [SPACES -> SUBSET Int] /\ \A t \in SPACES : IsFiniteSet(tabs'[t])
      /\ \A t \in SPACES : t # s => tabs'[t] = tabs[t]
      /\ IsFiniteSet(Tables')
      /\ Cardinality(Tables') = Cardinality(Tables) - Cardinality(tabs[s]) + Cardinality(T)
  BY <1>1, <1>2, <1>4, TablesChange
<1>9. m + Cardinality(Tables') = n + Cardinality(Tables)
  <2>1. IsFiniteSet(Tables) /\ IsFiniteSet(tabs[s])
    BY <1>1 DEF FiniteInv, TypeOK
  <2>2. /\ Cardinality(Tables) \in Nat /\ Cardinality(tabs[s]) \in Nat /\ Cardinality(T) \in Nat
    BY <1>2, <2>1, FS_CardinalityType
  <2> QED
    BY <1>3, <1>8, <2>2
<1>10. hw = [t \in SPACES |-> hw[t]]
  BY <1>1, Zenon DEF TypeOK
<1>11. CASE ret = "OK"
  <2>1. /\ \A x \in tree[s] : ~Overlap(a, x)
        /\ Entries(a) \cap DOMAIN hw[s] = {}
    BY <1>11, MmapRetFacts DEF ret
  <2>2. HungOK(b) /\ \A x \in tree[s] : ~Overlap(b, x)
    BY <2>1, MappedFacts
  <2>3. b.va = a.va
    BY MappedFacts DEF Same
  <2> HIDE DEF b
  <2>4. /\ list' \in [SPACES -> Seq(AREAS)] /\ tree' \in [SPACES -> SUBSET AREAS]
        /\ tree' = [tree EXCEPT ![s] = tree[s] \cup {b}] /\ b \notin tree[s]
        /\ \A t \in SPACES : t # s => list'[t] = list[t] /\ tree'[t] = tree[t]
        /\ tree'[s] = tree[s] \cup {b}
        /\ ListInv(s)' /\ Len(list'[s]) = Len(list[s]) + 1
        /\ (\A i \in 1..Len(list[s]) : list[s][i].va + list[s][i].n <= b.va) =>
             /\ list'[s][Len(list[s]) + 1] = b
             /\ \A i \in 1..Len(list[s]) : list'[s][i] = list[s][i]
    BY <1>1, <1>5, <1>11, <2>2, HangFacts
  <2> DEFINE h == [v \in DOMAIN hw[s] \cup Entries(a) |->
                     IF v \in Entries(a) THEN Pte(a, v) ELSE hw[s][v]]
  <2>5. hw' = [hw EXCEPT ![s] = h]
    BY <1>5, <1>11
  <2> HIDE DEF h
  <2>6. /\ hw' = [t \in SPACES |-> hw'[t]] /\ hw'[s] = h
        /\ \A t \in SPACES : t # s => hw'[t] = hw[t]
    BY <1>10, <2>5, Zenon
  <2>7. HwInv(s)'
    <3>1. tree[s] \in SUBSET AREAS
      BY <1>1 DEF TypeOK
    <3> QED
      BY <1>1, <2>1, <2>4, <2>6, <3>1, HwAdded DEF h, b
  <2> QED
    BY <1>2, <1>7, <1>8, <1>9, <1>11, <2>1, <2>3, <2>4, <2>6, <2>7 DEF b, m, ret
<1>12. CASE ret # "OK"
  <2>1. list' = list /\ tree' = tree /\ hw' = hw
    BY <1>6, <1>12
  <2>2. HwInv(s)' /\ ListInv(s)'
    BY <1>1, <2>1, HwKept DEF ListInv
  <2>3. list' \in [SPACES -> Seq(AREAS)] /\ tree' \in [SPACES -> SUBSET AREAS]
    BY <1>1, <2>1 DEF TypeOK
  <2>4. hw' = [t \in SPACES |-> hw'[t]]
    BY <1>10, <2>1
  <2> QED
    BY <1>2, <1>7, <1>8, <1>9, <1>12, <2>1, <2>2, <2>3, <2>4 DEF m, ret
<1> QED
  BY <1>11, <1>12

(* An area behind all the others goes to the end of the list.              *)
LEMMA MapAppends ==
    ASSUME IInv, NEW s \in SPACES, NEW a, NewOK(a), NEW n \in Nat,
           Unmapping(s) = {}, Unmapping(s)' = {}, __vm_mmap(s, a, n), MmapRet(s, a, n) = "OK",
           \A j \in 1..Len(list[s]) : list[s][j].va + list[s][j].n <= a.va
    PROVE  /\ Len(list'[s]) = Len(list[s]) + 1
           /\ list'[s][Len(list[s]) + 1] = Mapped(a)
           /\ \A j \in 1..Len(list[s]) : list'[s][j] = list[s][j]
BY MapFacts

(* The reference of a memory area changes no block but its count.          *)
LEMMA ReferredFacts ==
    ASSUME TypeOK, FiniteInv, NEW a,
           a.typ = "MEMORY" => a.pa \in HEADS /\ FrameOK(pf, a) /\ pf[a.pa].order \in ORDERS,
           pf' = Referred(pf, a)
    PROVE  /\ pf' \in [HEADS -> FRAMES] /\ IsFiniteSet(Blocks')
           /\ Cardinality(Blocks') = Cardinality(Blocks)
           /\ \A g \in HEADS : (a.typ = "MEMORY" => g # a.pa) => pf'[g] = pf[g]
           /\ a.typ # "MEMORY" => pf' = pf
           /\ a.typ = "MEMORY" =>
                pf' = [pf EXCEPT ![a.pa] = Frame("VMA_AREA", pf[a.pa].ref + 1, pf[a.pa].order)]
<1>1. CASE a.typ # "MEMORY"
  <2>1. pf' = pf
    BY <1>1 DEF Referred
  <2>2. Blocks' = Blocks
    BY <2>1 DEF Blocks, BlockPages
  <2> QED
    BY <1>1, <2>1, <2>2 DEF TypeOK, FiniteInv
<1>2. CASE a.typ = "MEMORY"
  <2> DEFINE f == a.pa
             p == Frame("VMA_AREA", pf[f].ref + 1, pf[f].order)
  <2>1. f \in HEADS /\ pf[f].typ = "VMA_AREA" /\ pf[f].order \in ORDERS
    BY <1>2 DEF FrameOK
  <2>2. pf' = [pf EXCEPT ![f] = p]
    BY <1>2, <2>1 DEF Referred
  <2>3. pf[f] \in FRAMES
    BY <2>1 DEF TypeOK
  <2>4. p \in FRAMES /\ p.typ = "VMA_AREA" /\ p.order = pf[f].order
    BY <2>1, <2>3 DEF Frame, FRAMES
  <2>5. BlockSize(p) = ORDER2PGNUM[pf[f].order] /\ BlockSize(pf[f]) = ORDER2PGNUM[pf[f].order]
    BY <2>1, <2>4 DEF BlockSize
  <2>6. ORDER2PGNUM[pf[f].order] \in Nat
    BY <2>1, VmAssumption
  <2>7. Cardinality(Blocks) \in Nat
    BY FS_CardinalityType DEF FiniteInv
  <2> HIDE DEF p, f
  <2>8. /\ pf' \in [HEADS -> FRAMES] /\ \A g \in HEADS : g # f => pf'[g] = pf[g]
        /\ IsFiniteSet(Blocks')
        /\ Cardinality(Blocks') = Cardinality(Blocks) - BlockSize(pf[f]) + BlockSize(p)
    BY <2>1, <2>2, <2>4, BlocksChange
  <2>9. Cardinality(Blocks') = Cardinality(Blocks)
    BY <2>5, <2>6, <2>7, <2>8
  <2> QED
    BY <1>2, <2>2, <2>8, <2>9 DEF p, f
<1> QED
  BY <1>1, <1>2

LEMMA VmMmapHangStep ==
    ASSUME IInv, NEW c \in CPUS, VmMmapHang(c)
    PROVE  IInv' /\ Conserved
<1>0. PICK s : s = l[c].s
  OBVIOUS
<1> USE <1>0
<1> DEFINE a == l[c].x
           blk == l[c].blk
           b == Mapped(a)
           ret == MmapRet(s, a, free)
           ok == MmapOK(s, a, free, pf)
           q == IF ret # "OK" /\ blk # None THEN "undo" ELSE "idle"
           x == IF q = "undo" THEN l[c] ELSE None
<1>1. pc[c] = "hang" /\ MmapInv(c) /\ WFree(s)
  BY DEF VmMmapHang, IInv, CallInv
<1>2. /\ __vm_mmap(s, a, free) /\ free' = MmapFree(s, a, free)
      /\ pf' = (IF ret = "OK" THEN Referred(pf, a) ELSE pf)
      /\ areas' = (IF ret = "OK" THEN areas ELSE areas - 1)
      /\ Goto(c, q, x, ok)
      /\ UNCHANGED <<spaceVars, lockVars>>
  BY DEF VmMmapHang, ObjectsAfter
<1>3. st' = st /\ root' = root /\ writer' = writer /\ readers' = readers
  BY <1>2 DEF spaceVars, lockVars
<1>4. /\ q \in PCS /\ q \in {"idle", "undo"} /\ (q = "undo" => x = l[c] /\ blk # None /\ ret # "OK")
      /\ blk # None /\ ret # "OK" => q = "undo"
  BY DEF PCS
<1>5. /\ s \in SPACES /\ st[s] = "live" /\ NewOK(a) /\ (blk = None => a.typ # "MEMORY")
      /\ blk # None => /\ blk \in HEADS /\ a.typ = "MEMORY" /\ a.pa = blk
                       /\ FrameOK(pf, a) /\ pf[blk].ref = 0
  BY <1>1 DEF MmapInv
<1> HIDE DEF a, blk, q, x, ok
<1>6. TypeOK /\ FiniteInv /\ BlocksInv /\ LockInv /\ OwnerInv /\ CountInv
  BY DEF IInv, BlocksInv
<1>7. free \in Nat /\ areas \in Int
  BY <1>6 DEF TypeOK
<1>8. Apart(c, {s}) /\ Unmapping(s) = {}
  BY <1>1, <1>5, LiveApart
<1>9. /\ pc'[c] = q /\ l'[c] = x /\ OthersStay(c)
      /\ pc' \in [CPUS -> PCS] /\ l' = [d \in CPUS |-> l'[d]]
      /\ panic' \in BOOLEAN /\ (ok => ~panic')
  BY <1>2, <1>4, <1>6, GotoFacts
<1>10. Unmapping(s)' = {}
  BY <1>1, <1>4, <1>8, <1>9, UnmappingKept
<1>11. /\ ~Refused(s, a) => HwMmap(s, a, free) # "EEXIST"
       /\ list' \in [SPACES -> Seq(AREAS)] /\ tree' \in [SPACES -> SUBSET AREAS]
       /\ tabs' \in [SPACES -> SUBSET Int] /\ \A t \in SPACES : IsFiniteSet(tabs'[t])
       /\ hw' = [t \in SPACES |-> hw'[t]]
       /\ \A t \in SPACES : t # s => /\ list'[t] = list[t] /\ tree'[t] = tree[t]
                                     /\ tabs'[t] = tabs[t] /\ hw'[t] = hw[t]
       /\ ListInv(s)' /\ HwInv(s)' /\ MmapFree(s, a, free) \in Nat /\ IsFiniteSet(Tables')
       /\ MmapFree(s, a, free) + Cardinality(Tables') = free + Cardinality(Tables)
       /\ ret # "OK" => list' = list /\ tree' = tree
       /\ ret = "OK" =>
            tree' = [tree EXCEPT ![s] = tree[s] \cup {b}] /\ b \notin tree[s]
  BY <1>2, <1>5, <1>7, <1>8, <1>10, MapFacts
<1>12. /\ HungOK(b) /\ Same(b, a) /\ b.pa = a.pa /\ b \in AREAS
  BY <1>5, MappedFacts
<1>13. a.typ = "MEMORY" => /\ blk # None /\ a.pa \in HEADS /\ FrameOK(pf, a) /\ pf[a.pa].ref = 0
                           /\ pf[a.pa].order \in ORDERS /\ pf[a.pa].typ = "VMA_AREA"
  <2> SUFFICES ASSUME a.typ = "MEMORY"
               PROVE  /\ blk # None /\ a.pa \in HEADS /\ FrameOK(pf, a) /\ pf[a.pa].ref = 0
                      /\ pf[a.pa].order \in ORDERS /\ pf[a.pa].typ = "VMA_AREA"
    OBVIOUS
  <2>1. blk # None /\ a.pa \in HEADS /\ FrameOK(pf, a) /\ pf[a.pa].ref = 0
    BY <1>5
  <2>2. pf[a.pa].typ = "VMA_AREA"
    BY <2>1 DEF FrameOK
  <2> QED
    BY <1>6, <2>1, <2>2 DEF BlocksInv, FrameInv
<1>14. ok
  BY <1>11, <1>13 DEF ok, MmapOK
<1> HIDE DEF ret, b
<1>15. /\ pf' \in [HEADS -> FRAMES] /\ IsFiniteSet(Blocks')
       /\ Cardinality(Blocks') = Cardinality(Blocks)
       /\ \A g \in HEADS : (a.typ = "MEMORY" => g # a.pa) => pf'[g] = pf[g]
  <2>1. CASE ret = "OK"
    BY <1>2, <1>6, <1>13, <2>1, ReferredFacts
  <2>2. CASE ret # "OK"
    BY <1>2, <1>6, <2>2 DEF TypeOK, FiniteInv, Blocks, BlockPages
  <2> QED
    BY <2>1, <2>2
<1>16. areas' \in Int
  BY <1>2, <1>7
<1>17. TypeOK'
  BY <1>2, <1>3, <1>6, <1>9, <1>11, <1>15, <1>16 DEF TypeOK
<1>18. InHand(c) <=> blk # None
  BY <1>1 DEF InHand, blk
<1>19. /\ BlocksInv' /\ IsFiniteSet(AllAreas')
       /\ Cardinality(AllAreas') = IF ret = "OK" THEN Cardinality(AllAreas) + 1 ELSE Cardinality(AllAreas)
  <2>1. CASE ret = "OK"
    <3>1. tree' = [tree EXCEPT ![s] = tree[s] \cup {b}] /\ b \notin tree[s]
      BY <1>11, <2>1
    <3>2. \A t \in SPACES : \A y \in tree[t] : HungOK(y)
      BY DEF IInv, ListInv
    <3>3. InHand(c) => b.typ = "MEMORY" /\ l[c].blk = b.pa
      BY <1>5, <1>12, <1>18 DEF Same, blk
    <3>4. pf' = Referred(pf, a)
      BY <1>2, <2>1
    <3> DEFINE o == pf[a.pa].order
    <3>5. b.typ # "MEMORY" => pf' = pf
      BY <1>12, <3>4 DEF Same, Referred
    <3>6. ASSUME b.typ = "MEMORY" PROVE NewShare(b, o)
      <4>1. a.typ = "MEMORY" /\ b.pa = a.pa /\ b.n = a.n
        BY <1>12, <3>6 DEF Same
      <4>2. pf' = [pf EXCEPT ![b.pa] = Frame("VMA_AREA", pf[b.pa].ref + 1, o)]
        BY <1>6, <1>13, <3>4, <4>1, ReferredFacts
      <4>3. Sharers(b.pa) = {} /\ Cardinality(Sharers(b.pa)) = pf[b.pa].ref
        <5>1. InHand(c) /\ b.pa = l[c].blk
          BY <1>13, <1>18, <3>3, <3>6, <4>1
        <5>2. Sharers(b.pa) = {} /\ pf[b.pa].ref = 0
          BY <5>1, <1>6, InHandFacts DEF IInv
        <5> QED
          BY <5>2, FS_EmptySet
      <4>4. o \in ORDERS /\ ORDER2PGNUM[o] = b.n
        BY <1>13, <4>1 DEF FrameOK
      <4> QED
        BY <4>1, <4>2, <4>3, <4>4 DEF NewShare
    <3>7. IF b.typ = "MEMORY" THEN NewShare(b, o) ELSE pf' = pf
      BY <3>5, <3>6
    <3>8. BlocksInv'
      BY <1>5, <1>6, <1>9, <1>12, <3>1, <3>2, <3>3, <3>7, ShareAdded
    <3>9. IsFiniteSet(AllAreas') /\ Cardinality(AllAreas') = Cardinality(AllAreas) + 1
      BY <1>5, <1>6, <1>12, <3>1, AreasAdd
    <3> QED
      BY <2>1, <3>8, <3>9
  <2>2. CASE ret # "OK"
    <3>1. pf' = pf /\ tree' = tree
      BY <1>2, <1>11, <2>2
    <3>2. InHand(c) => InHand(c)' /\ l'[c].blk = l[c].blk
      BY <1>4, <1>9, <1>18, <2>2 DEF InHand, blk
    <3>3. BlocksInv' /\ AllAreas' = AllAreas
      BY <1>6, <1>9, <3>1, <3>2, BlocksStay
    <3> QED
      BY <1>6, <2>2, <3>3 DEF FiniteInv
  <2> QED
    BY <2>1, <2>2
<1>20. FiniteInv'
  BY <1>11, <1>15, <1>19 DEF FiniteInv
<1>21. LockInv'
  BY <1>1, <1>3, <1>4, <1>6, <1>9, LocksStay
<1>22. \A d \in CPUS \ {c} : InHand(d) => l[d].blk \in HEADS /\ (a.typ = "MEMORY" => l[d].blk # a.pa)
  <2>1. ASSUME NEW d \in CPUS \ {c}, InHand(d), a.typ = "MEMORY" PROVE l[d].blk # a.pa
    <3>1. InHand(c) /\ a.pa = l[c].blk
      BY <1>5, <1>13, <1>18, <2>1 DEF blk
    <3> QED
      BY <1>6, <2>1, <3>1 DEF OwnerInv
  <2> QED
    BY <1>6, <2>1, InHandFacts DEF IInv
<1>23. OwnerInv'
  <2>1. ~Owns(c)'
    BY <1>4, <1>9 DEF Owns
  <2>2. InHand(c)' => InHand(c) /\ l'[c].blk = l[c].blk
    BY <1>1, <1>4, <1>9 DEF InHand
  <2>3. InHand(c)' => \A d \in CPUS \ {c} : InHand(d) => l[d].blk # l'[c].blk
    BY <1>6, <2>2 DEF OwnerInv
  <2> QED
    BY <1>6, <1>9, <2>1, <2>3, OwnerStep
<1>24. HandsKept(c)
  BY <1>15, <1>22 DEF HandsKept
<1>25. CountInv'
  <2>1. c \in Busy /\ c \notin Busy'
    BY <1>1, <1>4, <1>9 DEF Busy
  <2>2. Cardinality(AllAreas) \in Nat /\ Cardinality(Busy) \in Nat
    BY <1>6, <1>9, BusyChange, FS_CardinalityType DEF FiniteInv
  <2>3. areas = Cardinality(AllAreas) + Cardinality(Busy)
    BY <1>6 DEF CountInv, Busy
  <2>4. Cardinality(Busy') = Cardinality(Busy) - 1
    BY <1>9, <2>1, BusyChange
  <2>5. areas' = Cardinality(AllAreas') + Cardinality(Busy')
    BY <1>2, <1>19, <2>2, <2>3, <2>4
  <2> QED
    BY <2>5 DEF CountInv, Busy
<1>26. CallInv(c)'
  <2>1. q = "undo" => MmapInv(c)'
    BY <1>1, <1>2, <1>3, <1>4, <1>9 DEF MmapInv, FrameOK, blk
  <2> QED
    BY <1>4, <1>9, <2>1 DEF CallInv
<1>27. IInv'
  <2>1. SpacesStay({s})
    BY <1>3, <1>11 DEF SpacesStay, Stays
  <2>2. StaysLive(s)
    BY <1>3 DEF StaysLive
  <2>3. SpaceInv(s)'
    <3>1. SpaceInv(s)
      BY <1>5 DEF IInv
    <3> QED
      BY <1>3, <1>5, <3>1 DEF SpaceInv
  <2>4. st'[KVMA] = "live"
    BY <1>3 DEF IInv
  <2>5. ~panic' /\ {s} \in SUBSET SPACES /\ \A u \in {s} : StaysLive(u) /\ ListInv(u)' /\ HwInv(u)' /\ SpaceInv(u)'
    BY <1>5, <1>9, <1>11, <1>14, <2>2, <2>3
  <2> QED
    BY <1>1, <1>4, <1>8, <1>9, <1>17, <1>19, <1>20, <1>21, <1>23, <1>24, <1>25, <1>26, <2>1, <2>4, <2>5, Assemble
<1>28. Conserved
  <2>1. /\ Cardinality(Blocks) \in Nat /\ Cardinality(Tables) \in Nat /\ Cardinality(Tables') \in Nat
    BY <1>6, <1>20, FS_CardinalityType DEF FiniteInv
  <2>2. free' + Cardinality(Blocks') + Cardinality(Tables') = free + Cardinality(Blocks) + Cardinality(Tables)
    BY <1>2, <1>7, <1>11, <1>15, <2>1
  <2> QED
    BY <1>3, <1>6, <1>17, <1>20, <2>2, SameRoots
<1> QED
  BY <1>27, <1>28

-----------------------------------------------------------------------------
(* Unmapping an area.                                                      *)

Writes(c, s) == pc[c] \in {"unmap", "free"} /\ l[c].s = s
Reads(c, s)  == pc[c] = "dup" /\ l[c].src = s

(* CPU c takes and leaves locks as it goes on.                             *)
LEMMA LockStep ==
    ASSUME LockInv, NEW c \in CPUS, OthersStay(c),
           \A s \in SPACES :
              /\ Writes(c, s)' => writer'[s] = c /\ writer[s] \in {None, c} /\ readers'[s] = {}
              /\ ~Writes(c, s)' => writer'[s] = IF Writes(c, s) THEN None ELSE writer[s]
              /\ Reads(c, s)' => readers'[s] = readers[s] \cup {c} /\ writer'[s] = None
              /\ ~Reads(c, s)' => readers'[s] = readers[s] \ {c}
    PROVE  LockInv'
<1>0. None \notin CPUS
  BY VmAssumption
<1>1. ASSUME NEW s \in SPACES, NEW d \in CPUS
      PROVE  /\ writer'[s] = d <=> Writes(d, s)'
             /\ d \in readers'[s] <=> Reads(d, s)'
             /\ writer'[s] # None => readers'[s] = {}
  <2>1. /\ writer[s] = c <=> Writes(c, s)
        /\ c \in readers[s] <=> Reads(c, s)
        /\ writer[s] = d <=> Writes(d, s)
        /\ d \in readers[s] <=> Reads(d, s)
        /\ writer[s] # None => readers[s] = {}
    BY DEF LockInv, Writes, Reads
  <2>2. d # c => (Writes(d, s)' <=> Writes(d, s)) /\ (Reads(d, s)' <=> Reads(d, s))
    BY DEF OthersStay, Writes, Reads
  <2>3. writer'[s] = d <=> Writes(d, s)'
    BY <1>0, <2>1, <2>2
  <2>4. d \in readers'[s] <=> Reads(d, s)'
    BY <1>0, <2>1, <2>2
  <2>5. writer'[s] # None => readers'[s] = {}
    BY <1>0, <2>1
  <2> QED
    BY <2>3, <2>4, <2>5
<1>2. ASSUME NEW s \in SPACES PROVE writer'[s] # None => readers'[s] = {}
  BY <1>1
<1> QED
  BY <1>1, <1>2 DEF LockInv, Writes, Reads

LEMMA TreeApart ==
    ASSUME TypeOK, NEW s \in SPACES, ListInv(s), NEW a \in tree[s], NEW b \in tree[s], a # b
    PROVE  ~Overlap(a, b)
<1> DEFINE q == list[s]
<1>1. q \in Seq(AREAS) /\ Sorted(q) /\ Listed(q) = tree[s]
  BY DEF TypeOK, ListInv
<1> HIDE DEF q
<1>2. PICK i \in 1..Len(q) : q[i] = a
  BY <1>1 DEF Listed
<1>3. PICK j \in 1..Len(q) : q[j] = b
  BY <1>1 DEF Listed
<1> QED
  BY <1>1, <1>2, <1>3, SortedFacts

(* An area leaves a space that c owns from now on; the rest is up to the   *)
(* caller.                                                                 *)
LEMMA UnmapAreaStep ==
    ASSUME IInv, NEW c \in CPUS, NEW s \in SPACES, NEW a \in tree[s], UnmapArea(s, a),
           st[s] = "live" \/ (st[s] = "new" /\ s \in USERS /\ root[s]),
           Unmapping(s) = {}, Apart(c, {s}), pc[c] \in {"idle", "free"},
           Goto(c, "unmap", Local(s, None, 0, None, a), UnmapOK(a)),
           writer' \in [SPACES -> CPUS \cup {None}], LockInv',
           UNCHANGED <<areas, spaceVars, hwVars, readers>>
    PROVE  IInv' /\ Conserved
<1> DEFINE x == Local(s, None, 0, None, a)
<1>1. vma_area_unhang(s, a) /\ IF a.typ = "MEMORY" THEN unmmap_memory_cb(a) ELSE UNCHANGED <<free, pf>>
  BY DEF UnmapArea
<1>2. TypeOK /\ FiniteInv /\ BlocksInv /\ LockInv /\ OwnerInv /\ CountInv /\ ListInv(s) /\ HwInv(s) /\ SpaceInv(s)
  BY DEF IInv, BlocksInv
<1>3. x.s = s /\ x.x = a
  BY DEF Local
<1> HIDE DEF x
<1>4. /\ pc'[c] = "unmap" /\ l'[c] = x /\ OthersStay(c)
      /\ pc' \in [CPUS -> PCS] /\ l' = [d \in CPUS |-> l'[d]]
      /\ panic' \in BOOLEAN /\ (UnmapOK(a) => ~panic')
  BY <1>2, GotoFacts DEF PCS, x
<1>5. /\ list' \in [SPACES -> Seq(AREAS)] /\ tree' \in [SPACES -> SUBSET AREAS]
      /\ tree' = [tree EXCEPT ![s] = tree[s] \ {a}]
      /\ \A t \in SPACES : t # s => list'[t] = list[t] /\ tree'[t] = tree[t]
      /\ tree'[s] = tree[s] \ {a}
      /\ ListInv(s)'
  BY <1>1, <1>2, UnhangFacts
<1>6. \A t \in SPACES : \A y \in tree[t] : HungOK(y)
  BY DEF IInv, ListInv
<1>7. ~InHand(c) /\ ~InHand(c)' /\ c \notin Busy /\ c \in Busy'
  BY <1>4 DEF InHand, Busy
<1>8. /\ BlocksInv' /\ UnmapOK(a)
      /\ pf' \in [HEADS -> FRAMES] /\ free' \in Nat /\ IsFiniteSet(Blocks')
      /\ \A f \in HEADS : Sharers(f) = {} => pf'[f] = pf[f]
      /\ free' + Cardinality(Blocks') = free + Cardinality(Blocks)
      /\ Cardinality(Blocks') \in Nat /\ Cardinality(Blocks) \in Nat
  BY <1>1, <1>2, <1>4, <1>5, <1>6, <1>7, ShareDropped
<1>9. /\ IsFiniteSet(AllAreas') /\ Cardinality(AllAreas') = Cardinality(AllAreas) - 1
      /\ Cardinality(AllAreas) \in Nat
  BY <1>2, <1>5, AreasDel
<1>10. /\ areas' = areas /\ st' = st /\ root' = root /\ tabs' = tabs /\ hw' = hw /\ readers' = readers
       /\ Tables' = Tables
  BY DEF spaceVars, hwVars, Tables
<1>11. hw' = [t \in SPACES |-> hw'[t]]
  BY <1>2, <1>10, Zenon DEF TypeOK
<1>12. TypeOK'
  BY <1>2, <1>4, <1>5, <1>8, <1>10, <1>11 DEF TypeOK
<1>13. Unmapping(s)' = {a}
  BY <1>3, <1>4, UnmappingGains
<1>14. HwInv(s)'
  BY <1>2, <1>5, <1>10, <1>13, HwKept
<1>15. root[s] /\ SpaceInv(s)'
  BY <1>2, <1>10 DEF SpaceInv
<1>16. FiniteInv'
  BY <1>2, <1>8, <1>9, <1>10 DEF FiniteInv
<1>17. CountInv'
  <2>1. Cardinality(Busy') = Cardinality(Busy) + 1 /\ Cardinality(Busy) \in Nat
    BY <1>4, <1>7, BusyChange
  <2>2. areas = Cardinality(AllAreas) + Cardinality(Busy)
    BY <1>2 DEF CountInv, Busy
  <2>3. areas' = Cardinality(AllAreas') + Cardinality(Busy')
    BY <1>9, <1>10, <2>1, <2>2
  <2> QED
    BY <2>3 DEF CountInv, Busy
<1>18. CallInv(c)'
  <2>1. AreaOK(a)
    BY <1>6 DEF HungOK
  <2>2. \A b \in tree'[s] : ~Overlap(a, b)
    BY <1>2, <1>5, TreeApart
  <2>3. UnmapInv(c)'
    BY <1>3, <1>4, <1>10, <1>15, <2>1, <2>2 DEF UnmapInv
  <2> QED
    BY <1>4, <2>3 DEF CallInv
<1>19. OwnerInv'
  <2>1. \A d \in CPUS \ {c} : Owns(d) => l[d].s # l'[c].s
    BY <1>3, <1>4 DEF Apart
  <2> QED
    BY <1>2, <1>4, <1>7, <2>1, OwnerStep
<1>20. HandsKept(c)
  BY <1>2, <1>8, InHandFacts DEF HandsKept, IInv
<1>21. IInv'
  <2>1. SpacesStay({s})
    BY <1>5, <1>10 DEF SpacesStay, Stays
  <2>2. StaysLive(s)
    BY <1>10 DEF StaysLive
  <2>4. st'[KVMA] = "live"
    BY <1>10 DEF IInv
  <2>5. /\ ~panic' /\ {s} \in SUBSET SPACES
        /\ \A u \in {s} : StaysLive(u) /\ ListInv(u)' /\ HwInv(u)' /\ SpaceInv(u)'
    BY <1>4, <1>5, <1>8, <1>14, <1>15, <2>2
  <2>6. pc[c] # "unmap" /\ l'[c].s \in {s}
    BY <1>3, <1>4
  <2> QED
    BY <1>4, <1>8, <1>12, <1>16, <1>17, <1>18, <1>19, <1>20, <2>1, <2>4, <2>5, <2>6, Assemble
<1>22. Conserved
  <2>1. free' + Cardinality(Blocks') + Cardinality(Tables') = free + Cardinality(Blocks) + Cardinality(Tables)
    BY <1>8, <1>10
  <2> QED
    BY <1>2, <1>10, <1>12, <1>16, <2>1, SameRoots
<1> QED
  BY <1>21, <1>22

LEMMA VmUnmapStep ==
    ASSUME IInv, NEW c \in CPUS, VmUnmap(c)
    PROVE  IInv' /\ Conserved
<1>1. PICK s \in Live, typ \in {"MEMORY", "IO"} :
         /\ WFree(s)
         /\ \E a \in {b \in tree[s] : b.typ = typ} :
              /\ UnmapArea(s, a)
              /\ writer' = [writer EXCEPT ![s] = c]
              /\ Goto(c, "unmap", Local(s, None, 0, None, a), UnmapOK(a))
  BY DEF VmUnmap
<1>2. PICK a \in tree[s] :
         /\ UnmapArea(s, a)
         /\ writer' = [writer EXCEPT ![s] = c]
         /\ Goto(c, "unmap", Local(s, None, 0, None, a), UnmapOK(a))
  BY <1>1
<1>3. pc[c] = "idle" /\ UNCHANGED <<areas, spaceVars, hwVars, readers>>
  BY DEF VmUnmap
<1>4. s \in SPACES /\ st[s] = "live" /\ TypeOK /\ LockInv
  BY DEF Live, IInv
<1>5. Apart(c, {s}) /\ Unmapping(s) = {}
  BY <1>1, <1>4, LiveApart
<1>6. pc'[c] = "unmap" /\ l'[c].s = s /\ OthersStay(c)
  <2>1. Local(s, None, 0, None, a).s = s
    BY DEF Local
  <2>2. pc'[c] = "unmap" /\ l'[c] = Local(s, None, 0, None, a) /\ OthersStay(c)
    BY <1>2, <1>4, GotoFacts DEF PCS
  <2> QED
    BY <2>1, <2>2
<1>7. writer \in [SPACES -> CPUS \cup {None}]
  BY <1>4 DEF TypeOK
<1>8. /\ writer' \in [SPACES -> CPUS \cup {None}] /\ writer'[s] = c
      /\ \A t \in SPACES : t # s => writer'[t] = writer[t]
  BY <1>2, <1>4, <1>7
<1>9. LockInv'
  <2>1. ASSUME NEW t \in SPACES
        PROVE  /\ Writes(c, t)' => writer'[t] = c /\ writer[t] \in {None, c} /\ readers'[t] = {}
               /\ ~Writes(c, t)' => writer'[t] = IF Writes(c, t) THEN None ELSE writer[t]
               /\ Reads(c, t)' => readers'[t] = readers[t] \cup {c} /\ writer'[t] = None
               /\ ~Reads(c, t)' => readers'[t] = readers[t] \ {c}
    <3>1. /\ Writes(c, t)' <=> t = s
          /\ ~Writes(c, t) /\ ~Reads(c, t) /\ ~Reads(c, t)'
      BY <1>3, <1>6 DEF Writes, Reads
    <3>2. c \notin readers[t]
      BY <1>4, <3>1 DEF LockInv, Reads
    <3>3. readers'[t] = readers[t]
      BY <1>3
    <3>4. readers'[t] = readers[t] \ {c}
      BY <3>2, <3>3
    <3> QED
      BY <1>1, <1>8, <3>1, <3>3, <3>4 DEF WFree
  <2> QED
    BY <1>4, <1>6, <2>1, LockStep
<1> QED
  BY <1>2, <1>3, <1>4, <1>5, <1>8, <1>9, UnmapAreaStep

LEMMA VmaFreeAreaStep ==
    ASSUME IInv, NEW c \in CPUS, VmaFreeArea(c)
    PROVE  IInv' /\ Conserved
<1> DEFINE s == l[c].s
           a == Head(list[s])
<1>1. /\ pc[c] = "free" /\ list[s] # <<>> /\ UnmapArea(s, a)
      /\ Goto(c, "unmap", Local(s, None, 0, None, a), UnmapOK(a))
      /\ UNCHANGED <<areas, spaceVars, hwVars, lockVars>>
  BY DEF VmaFreeArea
<1>2. FreeInv(c)
  BY <1>1 DEF IInv, CallInv
<1>3. s \in SPACES /\ s \in USERS /\ st[s] = "new" /\ root[s] /\ TypeOK /\ LockInv /\ ListInv(s)
  BY <1>2 DEF FreeInv, SPACES, IInv
<1>4. a \in tree[s]
  <2> DEFINE q == list[s]
  <2>1. q \in Seq(AREAS) /\ Listed(q) = tree[s] /\ q # <<>>
    BY <1>1, <1>3 DEF TypeOK, ListInv
  <2>2. a = q[1]
    BY <2>1
  <2> HIDE DEF q
  <2>3. 1 \in 1..Len(q)
    BY <2>1
  <2> QED
    BY <2>1, <2>2, <2>3 DEF Listed
<1>5. Apart(c, {s}) /\ Unmapping(s) = {}
  <2>1. Owns(c)
    BY <1>1 DEF Owns
  <2> QED
    BY <1>1, <1>3, <2>1, OwnedApart, UnmappingOf
<1> HIDE DEF s, a
<1>6. pc'[c] = "unmap" /\ l'[c].s = s /\ OthersStay(c)
  <2>1. Local(s, None, 0, None, a).s = s
    BY DEF Local
  <2>2. pc'[c] = "unmap" /\ l'[c] = Local(s, None, 0, None, a) /\ OthersStay(c)
    BY <1>1, <1>3, GotoFacts DEF PCS
  <2> QED
    BY <2>1, <2>2
<1>7. writer' = writer /\ readers' = readers
  BY <1>1 DEF lockVars
<1>8. writer' \in [SPACES -> CPUS \cup {None}]
  BY <1>3, <1>7 DEF TypeOK
<1>9. LockInv'
  <2>1. ASSUME NEW t \in SPACES
        PROVE  /\ Writes(c, t)' => writer'[t] = c /\ writer[t] \in {None, c} /\ readers'[t] = {}
               /\ ~Writes(c, t)' => writer'[t] = IF Writes(c, t) THEN None ELSE writer[t]
               /\ Reads(c, t)' => readers'[t] = readers[t] \cup {c} /\ writer'[t] = None
               /\ ~Reads(c, t)' => readers'[t] = readers[t] \ {c}
    <3>1. /\ Writes(c, t)' <=> t = s
          /\ Writes(c, t) <=> t = s
          /\ ~Reads(c, t) /\ ~Reads(c, t)'
      BY <1>1, <1>6 DEF Writes, Reads, s
    <3>2. c \notin readers[t] /\ (writer[t] = c <=> t = s) /\ (writer[t] # None => readers[t] = {})
      BY <1>3, <3>1 DEF LockInv, Reads, Writes
    <3>3. readers'[t] = readers[t] /\ writer'[t] = writer[t]
      BY <1>7
    <3>4. readers'[t] = readers[t] \ {c}
      BY <3>2, <3>3
    <3>5. c # None
      BY VmAssumption
    <3> QED
      BY <3>1, <3>2, <3>3, <3>4, <3>5
  <2> QED
    BY <1>3, <1>6, <2>1, LockStep
<1> QED
  BY <1>1, <1>3, <1>4, <1>5, <1>7, <1>8, <1>9, UnmapAreaStep

LEMMA UnmappingEnds ==
    ASSUME NEW c \in CPUS, OthersStay(c), pc'[c] # "unmap", NEW s,
           \A d \in CPUS \ {c} : ~(Owns(d) /\ l[d].s = s)
    PROVE  Unmapping(s)' = {}
<1>1. \A d \in CPUS : ~(pc'[d] = "unmap" /\ l'[d].s = s)
  BY DEF OthersStay, Owns
<1> QED
  BY <1>1 DEF Unmapping

LEMMA WholeCount ==
    ASSUME NEW ts \in SUBSET Int, IsFiniteSet(ts), NEW ps
    PROVE  Cardinality(ts \ Whole(ts, ps)) = Cardinality(ts) - Cardinality(Whole(ts, ps))
<1>1. Whole(ts, ps) \in SUBSET ts /\ IsFiniteSet(Whole(ts, ps))
  BY WholeFacts
<1>2. ts \cap Whole(ts, ps) = Whole(ts, ps)
  BY <1>1
<1>3. Cardinality(ts \ Whole(ts, ps)) = Cardinality(ts) - Cardinality(ts \cap Whole(ts, ps))
  BY <1>1, FS_Difference
<1> QED
  BY <1>2, <1>3

LEMMA UnmapHwStep ==
    ASSUME IInv, NEW c \in CPUS, UnmapHw(c)
    PROVE  IInv' /\ Conserved
<1>0. PICK s : s = l[c].s
  OBVIOUS
<1> USE <1>0
<1> DEFINE x == l[c].x
           live == s \in Live
           q == IF live THEN "idle" ELSE "free"
           y == IF live THEN None ELSE Local(s, None, 0, None, None)
           ps == Vpns(x.va, x.n)
           ok == HwUnmapOK(x)
           W == Whole(tabs[s], ps)
           h == [v \in DOMAIN hw[s] \ ps |-> hw[s][v]]
<1>1. pc[c] = "unmap" /\ UnmapInv(c)
  BY DEF UnmapHw, IInv, CallInv
<1>2. /\ hw' = [hw EXCEPT ![s] = h] /\ tabs' = [tabs EXCEPT ![s] = tabs[s] \ W]
      /\ free' = free + Cardinality(W)
      /\ areas' = areas - 1 /\ Goto(c, q, y, ok)
      /\ writer' = (IF live THEN [writer EXCEPT ![s] = None] ELSE writer)
      /\ UNCHANGED <<pf, spaceVars, areaVars, readers>>
  BY DEF UnmapHw, HwUnmap
<1>3. /\ s \in SPACES /\ (st[s] = "live" \/ (st[s] = "new" /\ s \in USERS)) /\ root[s]
      /\ AreaOK(x) /\ \A a \in tree[s] : ~Overlap(x, a)
      /\ ok = TRUE
  BY <1>1, InTableFacts DEF UnmapInv, HwUnmapOK
<1>4. live <=> st[s] = "live"
  BY <1>3 DEF Live
<1>5. q \in {"idle", "free"} /\ q \in PCS /\ (q = "idle" <=> live) /\ (~live => y.s = s)
  BY DEF PCS, Local
<1>6. /\ TypeOK /\ FiniteInv /\ BlocksInv /\ LockInv /\ OwnerInv /\ CountInv
      /\ ListInv(s) /\ HwInv(s) /\ SpaceInv(s)
  BY <1>3 DEF IInv, BlocksInv
<1>7. /\ Apart(c, {s}) /\ Unmapping(s) = {x} /\ \A d \in CPUS \ {c} : ~(Owns(d) /\ l[d].s = s)
  <2>1. Owns(c)
    BY <1>1 DEF Owns
  <2> QED
    BY <1>1, <1>3, <1>6, <2>1, OwnedApart, UnmappingOf
<1>8. tabs[s] \in SUBSET Int /\ IsFiniteSet(tabs[s])
  BY <1>3, <1>6 DEF TypeOK
<1>9. /\ Cardinality(W) \in Nat /\ IsFiniteSet(tabs[s] \ W) /\ tabs[s] \ W \in SUBSET Int
      /\ Cardinality(tabs[s] \ W) = Cardinality(tabs[s]) - Cardinality(W)
  BY <1>8, WholeFacts, WholeCount
<1>10. h = [v \in DOMAIN hw[s] \ Vpns(x.va, x.n) |-> hw[s][v]] /\ s = l[c].s
  OBVIOUS
<1> HIDE DEF x, live, q, y, W, h, ps, ok
<1>11. /\ pc'[c] = q /\ l'[c] = y /\ OthersStay(c)
       /\ pc' \in [CPUS -> PCS] /\ l' = [d \in CPUS |-> l'[d]]
       /\ panic' \in BOOLEAN /\ ~panic'
  BY <1>2, <1>3, <1>5, <1>6, GotoFacts
<1>12. /\ tabs' \in [SPACES -> SUBSET Int] /\ \A t \in SPACES : IsFiniteSet(tabs'[t])
       /\ \A t \in SPACES : t # s => tabs'[t] = tabs[t]
       /\ IsFiniteSet(Tables')
       /\ Cardinality(Tables') = Cardinality(Tables) - Cardinality(tabs[s]) + Cardinality(tabs[s] \ W)
  BY <1>2, <1>3, <1>6, <1>9, TablesChange
<1>13. /\ st' = st /\ root' = root /\ list' = list /\ tree' = tree /\ readers' = readers /\ pf' = pf
       /\ Blocks' = Blocks
  BY <1>2 DEF spaceVars, areaVars, Blocks, BlockPages
<1>14. hw = [t \in SPACES |-> hw[t]]
  BY <1>6, Zenon DEF TypeOK
<1>15. /\ hw' = [t \in SPACES |-> hw'[t]] /\ hw'[s] = h
       /\ \A t \in SPACES : t # s => hw'[t] = hw[t]
  BY <1>2, <1>3, <1>14, Zenon
<1>16. writer \in [SPACES -> CPUS \cup {None}] /\ free \in Nat /\ areas \in Int
  BY <1>6 DEF TypeOK
<1>17. /\ writer' \in [SPACES -> CPUS \cup {None}]
       /\ \A t \in SPACES : writer'[t] = IF live /\ t = s THEN None ELSE writer[t]
  <2>1. CASE live
    BY <1>2, <1>3, <1>16, <2>1
  <2>2. CASE ~live
    BY <1>2, <1>16, <2>2
  <2> QED
    BY <2>1, <2>2
<1>18. free' \in Nat /\ areas' \in Int
  BY <1>2, <1>9, <1>16
<1>19. TypeOK'
  BY <1>6, <1>11, <1>12, <1>13, <1>15, <1>17, <1>18 DEF TypeOK
<1>20. ~InHand(c) /\ ~InHand(c)' /\ c \in Busy /\ c \notin Busy'
  BY <1>1, <1>5, <1>11 DEF InHand, Busy
<1>21. BlocksInv' /\ AllAreas' = AllAreas
  BY <1>6, <1>11, <1>13, <1>20, BlocksStay
<1>22. FiniteInv'
  BY <1>6, <1>12, <1>13, <1>21 DEF FiniteInv
<1>23. CountInv'
  <2>1. Cardinality(Busy') = Cardinality(Busy) - 1 /\ Cardinality(Busy) \in Nat
    BY <1>11, <1>20, BusyChange
  <2>2. areas = Cardinality(AllAreas) + Cardinality(Busy) /\ Cardinality(AllAreas) \in Nat
    BY <1>6, FS_CardinalityType DEF CountInv, Busy, FiniteInv
  <2>3. areas' = Cardinality(AllAreas') + Cardinality(Busy')
    BY <1>2, <1>21, <2>1, <2>2
  <2> QED
    BY <2>3 DEF CountInv, Busy
<1>24. Unmapping(s)' = {}
  BY <1>5, <1>7, <1>11, UnmappingEnds
<1>25. HwInv(s)' /\ ListInv(s)' /\ SpaceInv(s)'
  <2>1. \A a \in tree[s] : AreaOK(a)
    BY <1>6 DEF ListInv, HungOK
  <2>2. HwInv(s)'
    BY <1>3, <1>6, <1>7, <1>10, <1>13, <1>15, <1>24, <2>1, HwRemoved
  <2>3. ListInv(s)'
    BY <1>6, <1>13 DEF ListInv
  <2>4. SpaceInv(s)'
    BY <1>3, <1>13 DEF SpaceInv
  <2> QED
    BY <2>2, <2>3, <2>4
<1>26. CallInv(c)'
  <2>1. ~live => FreeInv(c)'
    BY <1>3, <1>4, <1>5, <1>11, <1>13 DEF FreeInv
  <2> QED
    BY <1>5, <1>11, <2>1 DEF CallInv
<1>27. LockInv'
  <2>1. ASSUME NEW t \in SPACES
        PROVE  /\ Writes(c, t)' => writer'[t] = c /\ writer[t] \in {None, c} /\ readers'[t] = {}
               /\ ~Writes(c, t)' => writer'[t] = IF Writes(c, t) THEN None ELSE writer[t]
               /\ Reads(c, t)' => readers'[t] = readers[t] \cup {c} /\ writer'[t] = None
               /\ ~Reads(c, t)' => readers'[t] = readers[t] \ {c}
    <3>1. /\ Writes(c, t)' <=> (~live /\ t = s)
          /\ Writes(c, t) <=> t = s
          /\ ~Reads(c, t) /\ ~Reads(c, t)'
      BY <1>1, <1>5, <1>11 DEF Writes, Reads
    <3>2. c \notin readers[t] /\ (writer[t] = c <=> t = s) /\ (writer[t] # None => readers[t] = {})
      BY <1>6, <3>1 DEF LockInv, Reads, Writes
    <3>3. readers'[t] = readers[t] \ {c} /\ readers'[t] = readers[t]
      BY <1>13, <3>2
    <3>5. c # None
      BY VmAssumption
    <3> QED
      BY <1>17, <3>1, <3>2, <3>3, <3>5
  <2> QED
    BY <1>6, <1>11, <2>1, LockStep
<1>28. OwnerInv'
  <2>1. Owns(c)' => \A d \in CPUS \ {c} : Owns(d) => l[d].s # l'[c].s
    BY <1>5, <1>7, <1>11 DEF Owns
  <2> QED
    BY <1>6, <1>11, <1>20, <2>1, OwnerStep
<1>29. HandsKept(c)
  BY <1>13 DEF HandsKept
<1>30. IInv'
  <2>1. SpacesStay({s})
    BY <1>12, <1>13, <1>15 DEF SpacesStay, Stays
  <2>2. StaysLive(s)
    BY <1>13 DEF StaysLive
  <2>4. st'[KVMA] = "live"
    BY <1>13 DEF IInv
  <2>5. /\ {s} \in SUBSET SPACES
        /\ \A u \in {s} : StaysLive(u) /\ ListInv(u)' /\ HwInv(u)' /\ SpaceInv(u)'
    BY <1>3, <1>25, <2>2
  <2>6. pc'[c] # "unmap" /\ l[c].s \in {s}
    BY <1>5, <1>10, <1>11
  <2> QED
    BY <1>7, <1>11, <1>19, <1>21, <1>22, <1>23, <1>26, <1>27, <1>28, <1>29, <2>1, <2>4, <2>5, <2>6, Assemble
<1>31. Conserved
  <2>1. /\ Cardinality(Blocks) \in Nat /\ Cardinality(Tables) \in Nat /\ Cardinality(Tables') \in Nat
        /\ Cardinality(tabs[s]) \in Nat
    BY <1>6, <1>8, <1>22, FS_CardinalityType DEF FiniteInv
  <2>2. free' + Cardinality(Blocks') + Cardinality(Tables') = free + Cardinality(Blocks) + Cardinality(Tables)
    BY <1>2, <1>9, <1>12, <1>13, <1>16, <2>1
  <2> QED
    BY <1>6, <1>13, <1>19, <1>22, <2>2, SameRoots
<1> QED
  BY <1>30, <1>31

-----------------------------------------------------------------------------
(* Making and ending spaces.                                               *)

(* A step that changes no area, no block and no page table.                *)
LEMMA QuietStep ==
    ASSUME IInv, NEW c \in CPUS, OthersStay(c), ~InHand(c), ~InHand(c)',
           c \notin Busy, c \notin Busy', UNCHANGED <<pf, areas, areaVars, hwVars>>
    PROVE  /\ BlocksInv' /\ FiniteInv' /\ CountInv' /\ HandsKept(c)
           /\ Tables' = Tables /\ Blocks' = Blocks
           /\ \A s \in SPACES : pc[c] # "unmap" /\ pc'[c] # "unmap" => ListInv(s)' /\ HwInv(s)'
<1>1. pf' = pf /\ areas' = areas /\ list' = list /\ tree' = tree /\ tabs' = tabs /\ hw' = hw
  BY DEF areaVars, hwVars
<1>2. TypeOK /\ BlocksInv /\ FiniteInv /\ CountInv
  BY DEF IInv, BlocksInv
<1>3. BlocksInv' /\ AllAreas' = AllAreas
  BY <1>1, <1>2, BlocksStay
<1>4. Tables' = Tables /\ Blocks' = Blocks
  BY <1>1 DEF Tables, Blocks, BlockPages
<1>5. FiniteInv'
  BY <1>2, <1>3, <1>4 DEF FiniteInv
<1>6. CountInv'
  <2>1. Cardinality(Busy') = Cardinality(Busy)
    BY BusyChange
  <2> QED
    BY <1>1, <1>2, <1>3, <2>1 DEF CountInv, Busy
<1>7. HandsKept(c)
  BY <1>1 DEF HandsKept
<1>8. ASSUME NEW s \in SPACES, pc[c] # "unmap", pc'[c] # "unmap" PROVE ListInv(s)' /\ HwInv(s)'
  <2>1. ListInv(s) /\ HwInv(s)
    BY DEF IInv
  <2>2. Unmapping(s)' = Unmapping(s)
    BY <1>8, UnmappingKept
  <2> QED
    BY <1>1, <2>1, <2>2, HwKept DEF ListInv
<1> QED
  BY <1>3, <1>4, <1>5, <1>6, <1>7, <1>8

LEMMA VmaDupStep ==
    ASSUME IInv, NEW c \in CPUS, VmaDup(c)
    PROVE  IInv' /\ Conserved
<1>1. PICK src \in Live, s \in {u \in USERS : st[u] = "free"} :
         /\ st' = [st EXCEPT ![s] = "new"]
         /\ Goto(c, "root", Local(s, src, 1, None, None), ~root[s])
  BY DEF VmaDup
<1> DEFINE x == Local(s, src, 1, None, None)
<1>2. /\ pc[c] = "idle" /\ free' = free /\ root' = root
      /\ UNCHANGED <<pf, areas, areaVars, hwVars>> /\ UNCHANGED lockVars
  BY DEF VmaDup
<1>3. /\ s \in USERS /\ s \in SPACES /\ st[s] = "free" /\ src \in SPACES /\ st[src] = "live" /\ s # KVMA
  BY VmAssumption DEF Live, SPACES
<1>4. TypeOK /\ FiniteInv /\ LockInv /\ OwnerInv /\ SpaceInv(s)
  BY <1>3 DEF IInv
<1>5. ~root[s] /\ tree[s] = {} /\ list[s] = <<>> /\ tabs[s] = {}
  BY <1>3, <1>4 DEF SpaceInv
<1>6. x.s = s /\ x.src = src /\ x.i = 1 /\ x.blk = None
  BY DEF Local
<1>7. Goto(c, "root", x, ~root[s])
  BY <1>1
<1> HIDE DEF x
<1>8. /\ pc'[c] = "root" /\ l'[c] = x /\ OthersStay(c)
      /\ pc' \in [CPUS -> PCS] /\ l' = [d \in CPUS |-> l'[d]]
      /\ panic' \in BOOLEAN /\ ~panic'
  BY <1>4, <1>5, <1>7, GotoFacts DEF PCS
<1>9. /\ st' \in [SPACES -> {"free", "new", "live"}] /\ st'[s] = "new"
      /\ \A t \in SPACES : t # s => st'[t] = st[t]
  BY <1>1, <1>3, <1>4 DEF TypeOK
<1>10. /\ pf' = pf /\ areas' = areas /\ list' = list /\ tree' = tree /\ tabs' = tabs /\ hw' = hw
       /\ writer' = writer /\ readers' = readers
  BY <1>2 DEF areaVars, hwVars, lockVars
<1>11. hw' = [t \in SPACES |-> hw'[t]]
  BY <1>4, <1>10, Zenon DEF TypeOK
<1>12. TypeOK'
  BY <1>2, <1>4, <1>8, <1>9, <1>10, <1>11 DEF TypeOK
<1>13. ~InHand(c) /\ ~InHand(c)' /\ c \notin Busy /\ c \notin Busy'
  BY <1>2, <1>8 DEF InHand, Busy
<1>14. /\ BlocksInv' /\ FiniteInv' /\ CountInv' /\ HandsKept(c)
       /\ Tables' = Tables /\ Blocks' = Blocks /\ ListInv(s)' /\ HwInv(s)'
  BY <1>2, <1>3, <1>8, <1>13, QuietStep
<1>15. LockInv'
  BY <1>2, <1>4, <1>8, <1>10, LocksStay
<1>16. ASSUME NEW d \in CPUS PROVE ~(Owns(d) /\ l[d].s = s) /\ ~(pc[d] = "dup" /\ l[d].src = s)
  <2>1. CallInv(d)
    BY DEF IInv
  <2>2. Owns(d) => st[l[d].s] # "free"
    BY <2>1 DEF Owns, CallInv, UnmapInv, RootInv, DupInv, FreeInv
  <2>3. pc[d] = "dup" => st[l[d].src] = "live"
    BY <2>1 DEF CallInv, DupInv
  <2> QED
    BY <1>3, <2>2, <2>3
<1>17. OwnerInv'
  BY <1>4, <1>6, <1>8, <1>13, <1>16, OwnerStep
<1>18. CallInv(c)'
  <2>1. RootInv(c)'
    BY <1>2, <1>3, <1>5, <1>6, <1>8, <1>9, <1>10 DEF RootInv
  <2> QED
    BY <1>8, <2>1 DEF CallInv
<1>19. IInv'
  <2>1. SpacesStay({s}) /\ Apart(c, {s}) /\ StaysLive(s)
    BY <1>2, <1>3, <1>9, <1>10, <1>16 DEF SpacesStay, Stays, Apart, StaysLive
  <2>2. SpaceInv(s)'
    BY <1>9 DEF SpaceInv
  <2>3. /\ {s} \in SUBSET SPACES /\ KVMA \notin {s}
        /\ \A u \in {s} : StaysLive(u) /\ ListInv(u)' /\ HwInv(u)' /\ SpaceInv(u)'
    BY <1>3, <1>14, <2>1, <2>2
  <2> QED
    BY <1>2, <1>8, <1>12, <1>14, <1>15, <1>17, <1>18, <2>1, <2>3, Assemble
<1>20. Conserved
  BY <1>2, <1>4, <1>12, <1>14, SameRoots
<1> QED
  BY <1>19, <1>20

LEMMA VmaFreeStep ==
    ASSUME IInv, NEW c \in CPUS, VmaFree(c)
    PROVE  IInv' /\ Conserved
<1>1. PICK s \in Live \ {KVMA} :
         /\ Unused(s) /\ WFree(s)
         /\ st' = [st EXCEPT ![s] = "new"]
         /\ writer' = [writer EXCEPT ![s] = c]
         /\ Goto(c, "free", Local(s, None, 0, None, None), TRUE)
  BY DEF VmaFree
<1> DEFINE x == Local(s, None, 0, None, None)
<1>2. /\ pc[c] = "idle" /\ free' = free /\ root' = root /\ readers' = readers
      /\ UNCHANGED <<pf, areas, areaVars, hwVars>>
  BY DEF VmaFree
<1>3. s \in USERS /\ s \in SPACES /\ st[s] = "live" /\ s # KVMA
  BY DEF Live, SPACES
<1>4. TypeOK /\ FiniteInv /\ LockInv /\ OwnerInv /\ SpaceInv(s)
  BY <1>3 DEF IInv
<1>5. root[s]
  BY <1>3, <1>4 DEF SpaceInv
<1>6. x.s = s
  BY DEF Local
<1>7. Goto(c, "free", x, TRUE)
  BY <1>1
<1> HIDE DEF x
<1>8. /\ pc'[c] = "free" /\ l'[c] = x /\ OthersStay(c)
      /\ pc' \in [CPUS -> PCS] /\ l' = [d \in CPUS |-> l'[d]]
      /\ panic' \in BOOLEAN /\ ~panic'
  BY <1>4, <1>7, GotoFacts DEF PCS
<1>9. /\ st' \in [SPACES -> {"free", "new", "live"}] /\ st'[s] = "new"
      /\ \A t \in SPACES : t # s => st'[t] = st[t]
  BY <1>1, <1>3, <1>4 DEF TypeOK
<1>a. /\ writer' \in [SPACES -> CPUS \cup {None}] /\ writer'[s] = c
      /\ \A t \in SPACES : t # s => writer'[t] = writer[t]
  <2>1. writer \in [SPACES -> CPUS \cup {None}]
    BY <1>4 DEF TypeOK
  <2> QED
    BY <1>1, <1>3, <2>1
<1>10. /\ pf' = pf /\ areas' = areas /\ list' = list /\ tree' = tree /\ tabs' = tabs /\ hw' = hw
  BY <1>2 DEF areaVars, hwVars
<1>11. hw' = [t \in SPACES |-> hw'[t]]
  BY <1>4, <1>10, Zenon DEF TypeOK
<1>12. TypeOK'
  BY <1>2, <1>4, <1>8, <1>9, <1>a, <1>10, <1>11 DEF TypeOK
<1>13. ~InHand(c) /\ ~InHand(c)' /\ c \notin Busy /\ c \notin Busy'
  BY <1>2, <1>8 DEF InHand, Busy
<1>14. /\ BlocksInv' /\ FiniteInv' /\ CountInv' /\ HandsKept(c)
       /\ Tables' = Tables /\ Blocks' = Blocks /\ ListInv(s)' /\ HwInv(s)'
  BY <1>2, <1>3, <1>8, <1>13, QuietStep
<1>15. LockInv'
  <2>1. ASSUME NEW t \in SPACES
        PROVE  /\ Writes(c, t)' => writer'[t] = c /\ writer[t] \in {None, c} /\ readers'[t] = {}
               /\ ~Writes(c, t)' => writer'[t] = IF Writes(c, t) THEN None ELSE writer[t]
               /\ Reads(c, t)' => readers'[t] = readers[t] \cup {c} /\ writer'[t] = None
               /\ ~Reads(c, t)' => readers'[t] = readers[t] \ {c}
    <3>1. /\ Writes(c, t)' <=> t = s
          /\ ~Writes(c, t) /\ ~Reads(c, t) /\ ~Reads(c, t)'
      BY <1>2, <1>6, <1>8 DEF Writes, Reads
    <3>2. c \notin readers[t]
      BY <1>4, <3>1 DEF LockInv, Reads
    <3>3. readers'[t] = readers[t] \ {c} /\ readers'[t] = readers[t]
      BY <1>2, <3>2
    <3> QED
      BY <1>1, <1>a, <3>1, <3>3 DEF WFree
  <2> QED
    BY <1>4, <1>8, <2>1, LockStep
<1>16. Apart(c, {s}) /\ \A d \in CPUS : ~(Owns(d) /\ l[d].s = s)
  BY <1>1, <1>3, LiveApart
<1>17. OwnerInv'
  BY <1>4, <1>6, <1>8, <1>13, <1>16, OwnerStep
<1>18. CallInv(c)'
  <2>1. FreeInv(c)'
    BY <1>2, <1>3, <1>5, <1>6, <1>8, <1>9 DEF FreeInv
  <2> QED
    BY <1>8, <2>1 DEF CallInv
<1>19. IInv'
  <2>1. SpacesStay({s}) /\ StaysLive(s)
    BY <1>1, <1>2, <1>9, <1>10 DEF SpacesStay, Stays, StaysLive
  <2>2. SpaceInv(s)'
    BY <1>9 DEF SpaceInv
  <2>3. /\ {s} \in SUBSET SPACES /\ KVMA \notin {s}
        /\ \A u \in {s} : StaysLive(u) /\ ListInv(u)' /\ HwInv(u)' /\ SpaceInv(u)'
    BY <1>3, <1>14, <2>1, <2>2
  <2> QED
    BY <1>2, <1>8, <1>12, <1>14, <1>15, <1>16, <1>17, <1>18, <2>1, <2>3, Assemble
<1>20. Conserved
  BY <1>2, <1>4, <1>12, <1>14, SameRoots
<1> QED
  BY <1>19, <1>20

LEMMA VmaDupReturnStep ==
    ASSUME IInv, NEW c \in CPUS, VmaDupReturn(c)
    PROVE  IInv' /\ Conserved
<1>0. PICK s, src : s = l[c].s /\ src = l[c].src
  OBVIOUS
<1> USE <1>0
<1>1. pc[c] = "dup" /\ DupInv(c)
  BY DEF VmaDupReturn, IInv, CallInv
<1>2. /\ st' = [st EXCEPT ![s] = "live"] /\ readers' = [readers EXCEPT ![src] = readers[src] \ {c}]
      /\ Goto(c, "idle", None, TRUE) /\ free' = free /\ root' = root /\ writer' = writer
      /\ UNCHANGED <<pf, areas, areaVars, hwVars>>
  BY DEF VmaDupReturn
<1>3. /\ s \in USERS /\ s \in SPACES /\ st[s] = "new" /\ root[s] /\ s # KVMA
      /\ src \in SPACES /\ st[src] = "live"
  BY <1>1, VmAssumption DEF DupInv, SPACES
<1>4. TypeOK /\ FiniteInv /\ LockInv /\ OwnerInv
  BY DEF IInv
<1>5. Apart(c, {s})
  <2>1. Owns(c)
    BY <1>1 DEF Owns
  <2> QED
    BY <1>3, <2>1, OwnedApart
<1>6. s = l[c].s /\ src = l[c].src
  OBVIOUS
<1>8. /\ pc'[c] = "idle" /\ OthersStay(c)
      /\ pc' \in [CPUS -> PCS] /\ l' = [d \in CPUS |-> l'[d]]
      /\ panic' \in BOOLEAN /\ ~panic'
  BY <1>2, <1>4, GotoFacts DEF PCS
<1>9. /\ st' \in [SPACES -> {"free", "new", "live"}] /\ st'[s] = "live"
      /\ \A t \in SPACES : t # s => st'[t] = st[t]
  BY <1>2, <1>3, <1>4 DEF TypeOK
<1>a. readers' \in [SPACES -> SUBSET CPUS] /\ \A t \in SPACES : t # src => readers'[t] = readers[t]
  <2>1. readers \in [SPACES -> SUBSET CPUS]
    BY <1>4 DEF TypeOK
  <2> QED
    BY <1>2, <1>3, <2>1
<1>b. readers'[src] = readers[src] \ {c}
  BY <1>2, <1>3, <1>4 DEF TypeOK
<1>10. /\ pf' = pf /\ areas' = areas /\ list' = list /\ tree' = tree /\ tabs' = tabs /\ hw' = hw
  BY <1>2 DEF areaVars, hwVars
<1>11. hw' = [t \in SPACES |-> hw'[t]]
  BY <1>4, <1>10, Zenon DEF TypeOK
<1>12. TypeOK'
  BY <1>2, <1>4, <1>8, <1>9, <1>a, <1>10, <1>11 DEF TypeOK
<1>13. ~InHand(c) /\ ~InHand(c)' /\ c \notin Busy /\ c \notin Busy' /\ ~Owns(c)'
  BY <1>1, <1>8 DEF InHand, Busy, Owns
<1>14. /\ BlocksInv' /\ FiniteInv' /\ CountInv' /\ HandsKept(c)
       /\ Tables' = Tables /\ Blocks' = Blocks /\ ListInv(s)' /\ HwInv(s)'
  BY <1>1, <1>2, <1>3, <1>8, <1>13, QuietStep
<1>15. LockInv'
  <2>1. ASSUME NEW t \in SPACES
        PROVE  /\ Writes(c, t)' => writer'[t] = c /\ writer[t] \in {None, c} /\ readers'[t] = {}
               /\ ~Writes(c, t)' => writer'[t] = IF Writes(c, t) THEN None ELSE writer[t]
               /\ Reads(c, t)' => readers'[t] = readers[t] \cup {c} /\ writer'[t] = None
               /\ ~Reads(c, t)' => readers'[t] = readers[t] \ {c}
    <3>1. /\ Reads(c, t) <=> t = src
          /\ ~Writes(c, t) /\ ~Writes(c, t)' /\ ~Reads(c, t)'
      BY <1>1, <1>6, <1>8 DEF Writes, Reads
    <3>2. c \in readers[t] <=> t = src
      BY <1>4, <3>1 DEF LockInv, Reads
    <3>3. readers'[t] = readers[t] \ {c}
      BY <1>a, <1>b, <3>2
    <3> QED
      BY <1>2, <3>1, <3>3
  <2> QED
    BY <1>4, <1>8, <2>1, LockStep
<1>17. OwnerInv'
  BY <1>4, <1>8, <1>13, OwnerStep
<1>18. CallInv(c)'
  BY <1>8 DEF CallInv
<1>19. IInv'
  <2>1. SpacesStay({s}) /\ StaysLive(s)
    BY <1>2, <1>9, <1>10 DEF SpacesStay, Stays, StaysLive
  <2>2. SpaceInv(s)'
    BY <1>2, <1>3, <1>9 DEF SpaceInv
  <2>3. /\ {s} \in SUBSET SPACES /\ KVMA \notin {s}
        /\ \A u \in {s} : StaysLive(u) /\ ListInv(u)' /\ HwInv(u)' /\ SpaceInv(u)'
    BY <1>3, <1>14, <2>1, <2>2
  <2> QED
    BY <1>1, <1>5, <1>8, <1>12, <1>14, <1>15, <1>17, <1>18, <2>1, <2>3, Assemble
<1>20. Conserved
  BY <1>2, <1>4, <1>12, <1>14, SameRoots
<1> QED
  BY <1>19, <1>20

(* The root tables of the spaces.                                          *)
LEMMA RootsFacts ==
    /\ IsFiniteSet(Roots) /\ Cardinality(Roots) \in Nat
    /\ IsFiniteSet(Lost) /\ Cardinality(Lost) \in Nat
<1>1. Roots \in SUBSET USERS /\ Lost \in SUBSET USERS
  BY DEF Roots, Lost
<1> QED
  BY <1>1, FS_Subset, FS_CardinalityType, VmAssumption

LEMMA VmaFreeEndStep ==
    ASSUME IInv, NEW c \in CPUS, VmaFreeEnd(c)
    PROVE  IInv' /\ Conserved
<1>0. PICK s : s = l[c].s
  OBVIOUS
<1> USE <1>0
<1>1. pc[c] = "free" /\ FreeInv(c) /\ list[s] = <<>>
  BY DEF VmaFreeEnd, IInv, CallInv
<1>2. /\ hw' = [hw EXCEPT ![s] = <<>>] /\ tabs' = [tabs EXCEPT ![s] = {}]
      /\ free' = free + Cardinality(tabs[s])
      /\ st' = [st EXCEPT ![s] = "free"] /\ root' = [root EXCEPT ![s] = FALSE]
      /\ writer' = [writer EXCEPT ![s] = None]
      /\ Goto(c, "idle", None, TRUE) /\ UNCHANGED <<pf, areas, areaVars, readers>>
  BY DEF VmaFreeEnd, HwUnmapAll
<1>3. s \in USERS /\ s \in SPACES /\ st[s] = "new" /\ root[s] /\ s # KVMA
  BY <1>1, VmAssumption DEF FreeInv, SPACES
<1>4. /\ TypeOK /\ FiniteInv /\ LockInv /\ OwnerInv /\ BlocksInv /\ CountInv
      /\ ListInv(s) /\ HwInv(s)
  BY <1>3 DEF IInv, BlocksInv
<1>5. Apart(c, {s}) /\ \A d \in CPUS \ {c} : ~(Owns(d) /\ l[d].s = s)
  <2>1. Owns(c)
    BY <1>1 DEF Owns
  <2> QED
    BY <1>3, <2>1, OwnedApart
<1>6. s = l[c].s
  OBVIOUS
<1>7. tree[s] = {}
  <2>1. Listed(<<>>) = {}
    BY DEF Listed
  <2> QED
    BY <1>1, <1>4, <2>1 DEF ListInv
<1>8. /\ pc'[c] = "idle" /\ OthersStay(c)
      /\ pc' \in [CPUS -> PCS] /\ l' = [d \in CPUS |-> l'[d]]
      /\ panic' \in BOOLEAN /\ ~panic'
  BY <1>2, <1>4, GotoFacts DEF PCS
<1>9. /\ st' \in [SPACES -> {"free", "new", "live"}] /\ st'[s] = "free"
      /\ \A t \in SPACES : t # s => st'[t] = st[t]
  BY <1>2, <1>3, <1>4 DEF TypeOK
<1>a. /\ writer' \in [SPACES -> CPUS \cup {None}] /\ writer'[s] = None
      /\ \A t \in SPACES : t # s => writer'[t] = writer[t]
  <2>1. writer \in [SPACES -> CPUS \cup {None}]
    BY <1>4 DEF TypeOK
  <2> QED
    BY <1>2, <1>3, <2>1
<1>b. /\ root' \in [SPACES -> BOOLEAN] /\ ~root'[s]
      /\ \A t \in SPACES : t # s => root'[t] = root[t]
  <2>1. root \in [SPACES -> BOOLEAN]
    BY <1>4 DEF TypeOK
  <2> QED
    BY <1>2, <1>3, <2>1, Zenon
<1>10. pf' = pf /\ areas' = areas /\ list' = list /\ tree' = tree /\ readers' = readers /\ Blocks' = Blocks
  BY <1>2 DEF areaVars, Blocks, BlockPages
<1>11. /\ hw' = [t \in SPACES |-> hw'[t]] /\ hw'[s] = <<>>
       /\ \A t \in SPACES : t # s => hw'[t] = hw[t]
  <2>1. hw = [t \in SPACES |-> hw[t]]
    BY <1>4, Zenon DEF TypeOK
  <2> QED
    BY <1>2, <1>3, <2>1, Zenon
<1>12. /\ tabs' \in [SPACES -> SUBSET Int] /\ \A t \in SPACES : IsFiniteSet(tabs'[t])
       /\ tabs'[s] = {} /\ \A t \in SPACES : t # s => tabs'[t] = tabs[t]
       /\ IsFiniteSet(Tables')
       /\ Cardinality(Tables') = Cardinality(Tables) - Cardinality(tabs[s]) + Cardinality({})
  <2>1. {} \in SUBSET Int /\ IsFiniteSet({})
    BY FS_EmptySet
  <2> QED
    BY <1>2, <1>3, <1>4, <2>1, TablesChange
<1>13. /\ free \in Nat /\ Cardinality(tabs[s]) \in Nat /\ Cardinality({}) = 0 /\ free' \in Nat
  <2>1. free \in Nat /\ IsFiniteSet(tabs[s])
    BY <1>3, <1>4 DEF TypeOK
  <2>2. Cardinality(tabs[s]) \in Nat /\ Cardinality({}) = 0
    BY <2>1, FS_CardinalityType, FS_EmptySet
  <2> QED
    BY <1>2, <2>1, <2>2
<1>14. TypeOK'
  BY <1>4, <1>8, <1>9, <1>a, <1>b, <1>10, <1>11, <1>12, <1>13 DEF TypeOK
<1>15. ~InHand(c) /\ ~InHand(c)' /\ c \notin Busy /\ c \notin Busy' /\ ~Owns(c)'
  BY <1>1, <1>8 DEF InHand, Busy, Owns
<1>16. BlocksInv' /\ AllAreas' = AllAreas
  BY <1>4, <1>8, <1>10, <1>15, BlocksStay
<1>17. FiniteInv'
  BY <1>4, <1>10, <1>12, <1>16 DEF FiniteInv
<1>18. CountInv'
  <2>1. Cardinality(Busy') = Cardinality(Busy)
    BY <1>8, <1>15, BusyChange
  <2> QED
    BY <1>4, <1>10, <1>16, <2>1 DEF CountInv, Busy
<1>19. HandsKept(c)
  BY <1>10 DEF HandsKept
<1>20. LockInv'
  <2>1. ASSUME NEW t \in SPACES
        PROVE  /\ Writes(c, t)' => writer'[t] = c /\ writer[t] \in {None, c} /\ readers'[t] = {}
               /\ ~Writes(c, t)' => writer'[t] = IF Writes(c, t) THEN None ELSE writer[t]
               /\ Reads(c, t)' => readers'[t] = readers[t] \cup {c} /\ writer'[t] = None
               /\ ~Reads(c, t)' => readers'[t] = readers[t] \ {c}
    <3>1. /\ Writes(c, t) <=> t = s
          /\ ~Writes(c, t)' /\ ~Reads(c, t) /\ ~Reads(c, t)'
      BY <1>1, <1>6, <1>8 DEF Writes, Reads
    <3>2. c \notin readers[t]
      BY <1>4, <3>1 DEF LockInv, Reads
    <3>3. readers'[t] = readers[t] \ {c}
      BY <1>10, <3>2
    <3> QED
      BY <1>a, <3>1, <3>3
  <2> QED
    BY <1>4, <1>8, <2>1, LockStep
<1>21. OwnerInv'
  BY <1>4, <1>8, <1>15, OwnerStep
<1>22. CallInv(c)'
  BY <1>8 DEF CallInv
<1>23. HwInv(s)' /\ ListInv(s)' /\ SpaceInv(s)'
  <2>1. Unmapping(s)' = {}
    BY <1>5, <1>8, UnmappingEnds
  <2>2. tree'[s] \cup Unmapping(s)' = {}
    BY <1>7, <1>10, <2>1
  <2>3. DOMAIN hw'[s] = {} /\ hw'[s] = [v \in DOMAIN hw'[s] |-> hw'[s][v]]
    BY <1>11
  <2>4. HwInv(s)'
    BY <2>2, <2>3 DEF HwInv
  <2>5. ListInv(s)'
    BY <1>4, <1>10 DEF ListInv
  <2>6. SpaceInv(s)'
    BY <1>1, <1>7, <1>9, <1>b, <1>10, <1>12 DEF SpaceInv
  <2> QED
    BY <2>4, <2>5, <2>6
<1>24. IInv'
  <2>1. SpacesStay({s}) /\ StaysLive(s)
    BY <1>3, <1>9, <1>b, <1>10, <1>11, <1>12 DEF SpacesStay, Stays, StaysLive
  <2>3. /\ {s} \in SUBSET SPACES /\ KVMA \notin {s}
        /\ \A u \in {s} : StaysLive(u) /\ ListInv(u)' /\ HwInv(u)' /\ SpaceInv(u)'
    BY <1>3, <1>23, <2>1
  <2> QED
    BY <1>1, <1>5, <1>8, <1>14, <1>16, <1>17, <1>18, <1>19, <1>20, <1>21, <1>22, <2>1, <2>3, Assemble
<1>25. Conserved
  <2>1. Lost = {s} /\ Roots' = Roots \ {s} /\ s \in Roots
    BY <1>3, <1>b DEF Lost, Roots, SPACES
  <2>2. Cardinality(Lost) = 1 /\ Cardinality(Roots') = Cardinality(Roots) - 1 /\ Cardinality(Roots) \in Nat
    BY <2>1, RootsFacts, FS_Singleton, FS_RemoveElement
  <2>3. /\ Cardinality(Blocks) \in Nat /\ Cardinality(Tables) \in Nat /\ Cardinality(Tables') \in Nat
    BY <1>4, <1>17, FS_CardinalityType DEF FiniteInv
  <2>4. free' + Cardinality(Blocks') + Cardinality(Roots') + Cardinality(Tables')
          = (free + Cardinality(Blocks) + Cardinality(Roots) + Cardinality(Tables)) - Cardinality(Lost)
    BY <1>2, <1>10, <1>12, <1>13, <2>2, <2>3
  <2> QED
    BY <2>4 DEF Conserved, Accounted
<1> QED
  BY <1>24, <1>25

LEMMA VmaDupRootStep ==
    ASSUME IInv, NEW c \in CPUS, VmaDupRoot(c)
    PROVE  IInv' /\ Conserved
<1>0. PICK s, src : s = l[c].s /\ src = l[c].src
  OBVIOUS
<1> USE <1>0
<1> DEFINE none == free = 0
           q == IF none THEN "idle" ELSE "dup"
           x == IF none THEN None ELSE l[c]
<1>1. pc[c] = "root" /\ RootInv(c)
  BY DEF VmaDupRoot, IInv, CallInv
<1>2. /\ Goto(c, q, x, TRUE) /\ writer' = writer /\ UNCHANGED <<pf, areas, areaVars, hwVars>>
      /\ none => st' = [st EXCEPT ![s] = "free"] /\ free' = free /\ root' = root /\ readers' = readers
      /\ ~none => /\ writer[src] = None /\ free' = free - 1 /\ root' = [root EXCEPT ![s] = TRUE]
                  /\ readers' = [readers EXCEPT ![src] = readers[src] \cup {c}] /\ st' = st
  BY DEF VmaDupRoot
<1>3. /\ s \in USERS /\ s \in SPACES /\ s # KVMA /\ st[s] = "new" /\ ~root[s]
      /\ tree[s] = {} /\ list[s] = <<>> /\ tabs[s] = {}
      /\ src \in SPACES /\ st[src] = "live" /\ l[c].i = 1
  BY <1>1, VmAssumption DEF RootInv, SPACES
<1>4. TypeOK /\ FiniteInv /\ LockInv /\ OwnerInv
  BY DEF IInv
<1>5. Apart(c, {s}) /\ \A d \in CPUS \ {c} : Owns(d) => l[d].s # s
  <2>1. Owns(c)
    BY <1>1 DEF Owns
  <2> QED
    BY <1>3, <2>1, OwnedApart
<1>6. s = l[c].s /\ src = l[c].src /\ (none <=> free = 0)
  OBVIOUS
<1>7. q \in {"idle", "dup"} /\ q \in PCS /\ (q = "idle" <=> none) /\ (~none => x = l[c])
  BY DEF PCS
<1> HIDE DEF none, q, x
<1>8. /\ pc'[c] = q /\ l'[c] = x /\ OthersStay(c)
      /\ pc' \in [CPUS -> PCS] /\ l' = [d \in CPUS |-> l'[d]]
      /\ panic' \in BOOLEAN /\ ~panic'
  BY <1>2, <1>4, <1>7, GotoFacts
<1>9. /\ st' \in [SPACES -> {"free", "new", "live"}] /\ st'[s] = (IF none THEN "free" ELSE "new")
      /\ \A t \in SPACES : t # s => st'[t] = st[t]
  <2>1. st \in [SPACES -> {"free", "new", "live"}]
    BY <1>4 DEF TypeOK
  <2>2. CASE none
    BY <1>2, <1>3, <2>1, <2>2
  <2>3. CASE ~none
    BY <1>2, <1>3, <2>1, <2>3
  <2> QED
    BY <2>2, <2>3
<1>a. /\ readers' \in [SPACES -> SUBSET CPUS]
      /\ \A t \in SPACES : readers'[t] = IF ~none /\ t = src THEN readers[t] \cup {c} ELSE readers[t]
  <2>1. readers \in [SPACES -> SUBSET CPUS]
    BY <1>4 DEF TypeOK
  <2>2. CASE none
    BY <1>2, <2>1, <2>2
  <2>3. CASE ~none
    BY <1>2, <1>3, <2>1, <2>3
  <2> QED
    BY <2>2, <2>3
<1>b. /\ root' \in [SPACES -> BOOLEAN] /\ (root'[s] <=> ~none)
      /\ \A t \in SPACES : t # s => root'[t] = root[t]
  <2>1. root \in [SPACES -> BOOLEAN]
    BY <1>4 DEF TypeOK
  <2>2. CASE none
    BY <1>2, <1>3, <2>1, <2>2, Zenon
  <2>3. CASE ~none
    BY <1>2, <1>3, <2>1, <2>3, Zenon
  <2> QED
    BY <2>2, <2>3
<1>10. /\ pf' = pf /\ areas' = areas /\ list' = list /\ tree' = tree /\ tabs' = tabs /\ hw' = hw
  BY <1>2 DEF areaVars, hwVars
<1>11. hw' = [t \in SPACES |-> hw'[t]]
  BY <1>4, <1>10, Zenon DEF TypeOK
<1>c. free \in Nat /\ free' \in Nat
  BY <1>2, <1>4, <1>6 DEF TypeOK
<1>12. TypeOK'
  BY <1>2, <1>4, <1>8, <1>9, <1>a, <1>b, <1>10, <1>11, <1>c DEF TypeOK
<1>13. ~InHand(c) /\ ~InHand(c)' /\ c \notin Busy /\ c \notin Busy'
  BY <1>1, <1>7, <1>8 DEF InHand, Busy
<1>14. /\ BlocksInv' /\ FiniteInv' /\ CountInv' /\ HandsKept(c)
       /\ Tables' = Tables /\ Blocks' = Blocks /\ ListInv(s)' /\ HwInv(s)'
  BY <1>1, <1>2, <1>3, <1>7, <1>8, <1>13, QuietStep
<1>15. LockInv'
  <2>1. ASSUME NEW t \in SPACES
        PROVE  /\ Writes(c, t)' => writer'[t] = c /\ writer[t] \in {None, c} /\ readers'[t] = {}
               /\ ~Writes(c, t)' => writer'[t] = IF Writes(c, t) THEN None ELSE writer[t]
               /\ Reads(c, t)' => readers'[t] = readers[t] \cup {c} /\ writer'[t] = None
               /\ ~Reads(c, t)' => readers'[t] = readers[t] \ {c}
    <3>1. /\ Reads(c, t)' <=> (~none /\ t = src)
          /\ ~Writes(c, t) /\ ~Writes(c, t)' /\ ~Reads(c, t)
      BY <1>1, <1>6, <1>7, <1>8 DEF Writes, Reads
    <3>2. c \notin readers[t]
      BY <1>4, <3>1 DEF LockInv, Reads
    <3>3. ~Reads(c, t)' => readers'[t] = readers[t] \ {c}
      BY <1>a, <3>1, <3>2
    <3>4. Reads(c, t)' => readers'[t] = readers[t] \cup {c} /\ writer'[t] = None
      BY <1>2, <1>a, <3>1
    <3> QED
      BY <1>2, <3>1, <3>3, <3>4
  <2> QED
    BY <1>4, <1>8, <2>1, LockStep
<1>17. OwnerInv'
  <2>1. Owns(c)' => \A d \in CPUS \ {c} : Owns(d) => l[d].s # l'[c].s
    BY <1>5, <1>6, <1>7, <1>8 DEF Owns
  <2> QED
    BY <1>4, <1>8, <1>13, <2>1, OwnerStep
<1>18. CallInv(c)'
  <2>1. ASSUME ~none PROVE DupInv(c)'
    <3>1. Len(list[src]) \in Nat /\ Len(list[s]) = 0
      BY <1>3, <1>4 DEF TypeOK
    <3>2. l'[c] = l[c] /\ list' = list /\ st'[s] = "new" /\ root'[s]
      BY <1>7, <1>8, <1>9, <1>b, <1>10, <2>1
    <3>3. st'[src] = "live"
      BY <1>3, <1>9
    <3> QED
      BY <1>3, <1>6, <3>1, <3>2, <3>3 DEF DupInv
  <2> QED
    BY <1>7, <1>8, <2>1 DEF CallInv
<1>19. IInv'
  <2>1. SpacesStay({s}) /\ StaysLive(s)
    BY <1>3, <1>9, <1>b, <1>10 DEF SpacesStay, Stays, StaysLive
  <2>2. SpaceInv(s)'
    BY <1>3, <1>9, <1>b, <1>10 DEF SpaceInv
  <2>3. /\ {s} \in SUBSET SPACES /\ KVMA \notin {s}
        /\ \A u \in {s} : StaysLive(u) /\ ListInv(u)' /\ HwInv(u)' /\ SpaceInv(u)'
    BY <1>3, <1>14, <2>1, <2>2
  <2> QED
    BY <1>1, <1>5, <1>7, <1>8, <1>12, <1>14, <1>15, <1>17, <1>18, <2>1, <2>3, Assemble
<1>20. Conserved
  <2>1. CASE none
    BY <1>2, <1>4, <1>12, <1>14, <2>1, SameRoots
  <2>2. CASE ~none
    <3>1. Lost = {} /\ Roots' = Roots \cup {s} /\ s \notin Roots
      BY <1>3, <1>b, <2>2 DEF Lost, Roots, SPACES
    <3>2. Cardinality(Lost) = 0 /\ Cardinality(Roots') = Cardinality(Roots) + 1 /\ Cardinality(Roots) \in Nat
      BY <3>1, RootsFacts, FS_EmptySet, FS_AddElement
    <3>3. Cardinality(Blocks) \in Nat /\ Cardinality(Tables) \in Nat
      BY <1>4, FS_CardinalityType DEF FiniteInv
    <3>4. free' + Cardinality(Blocks') + Cardinality(Roots') + Cardinality(Tables')
            = (free + Cardinality(Blocks) + Cardinality(Roots) + Cardinality(Tables)) - Cardinality(Lost)
      BY <1>2, <1>14, <1>c, <2>2, <3>2, <3>3
    <3> QED
      BY <3>4 DEF Conserved, Accounted
  <2> QED
    BY <2>1, <2>2
<1> QED
  BY <1>19, <1>20

-----------------------------------------------------------------------------
(* One area of a copy.                                                     *)

DupX(c)    == list[l[c].src][l[c].i]
DupOrd(c)  == Pgnum2Order(DupX(c).n)
DupBlk(c)  == IF Copied(DupX(c)) THEN BkpAlloc(DupOrd(c)) ELSE DupX(c).pa
DupNum(c)  == IF Copied(DupX(c)) THEN DupX(c).n ELSE 0
DupPf(c)   == IF Copied(DupX(c)) THEN AllocBlock(DupBlk(c), DupOrd(c)) ELSE pf
DupArea(c) == Area(DupX(c).typ, DupX(c).va, DupX(c).n, DupBlk(c), DupX(c).prot, None)
DupNoBuf(c) == DupBlk(c) = None \/ areas = AREA_NUM
DupLeft(c) == free - DupNum(c)

(* The area to copy is behind those that are copied, and unless it gets a  *)
(* new block nobody may write it.                                          *)
LEMMA DupAreaFacts ==
    ASSUME IInv, NEW c \in CPUS, pc[c] = "dup", l[c].i <= Len(list[l[c].src])
    PROVE  LET s == l[c].s
               x == DupX(c)
               o == IF Copied(x) THEN DupOrd(c) ELSE pf[x.pa].order
           IN  /\ x \in tree[l[c].src] /\ HungOK(x) /\ x \in AREAS
               /\ x.typ = "MEMORY" => x.pa \in HEADS /\ FrameOK(pf, x) /\ o \in ORDERS /\ ORDER2PGNUM[o] = x.n
               /\ ~Copied(x) => \A y \in Sharers(x.pa) : "W" \notin x.prot /\ "W" \notin y[2].prot
               /\ \A j \in 1..Len(list[s]) : list[s][j].va + list[s][j].n <= x.va
               /\ \A j \in 1..Len(list[s]) : Same(list[s][j], list[l[c].src][j])
               /\ Len(list[s]) = l[c].i - 1 /\ l[c].i \in Nat \ {0}
<1> DEFINE s == l[c].s
           src == l[c].src
           i == l[c].i
           x == DupX(c)
           q == list[src]
           r == list[s]
<1>1. DupInv(c)
  BY DEF IInv, CallInv
<1>2. /\ s \in SPACES /\ src \in SPACES /\ i \in 1..(Len(q) + 1) /\ Len(r) = i - 1
      /\ \A j \in 1..(i - 1) : Same(r[j], q[j])
  BY <1>1 DEF DupInv, SPACES
<1>3. TypeOK /\ ListInv(src) /\ BlocksInv /\ FiniteInv
  BY <1>2 DEF IInv, BlocksInv
<1>4. q \in Seq(AREAS) /\ r \in Seq(AREAS) /\ Sorted(q) /\ Listed(q) = tree[src]
  BY <1>2, <1>3 DEF TypeOK, ListInv
<1>5. x = q[i] /\ i <= Len(q)
  BY DEF DupX
<1>a. \A y \in tree[src] : HungOK(y)
  BY <1>3 DEF ListInv
<1>6. x \in tree[src] /\ i \in 1..Len(q)
  <2> HIDE DEF q, r, i, x
  <2>1. i \in 1..Len(q)
    BY <1>2, <1>4, <1>5
  <2> QED
    BY <1>4, <1>5, <2>1 DEF Listed
<1>7. HungOK(x) /\ x \in AREAS /\ (x.typ = "MEMORY" <=> x.pa \in HEADS)
  BY <1>6, <1>a DEF HungOK, AreaOK
<1>8. <<src, x>> \in AllAreas /\ <<src, x>>[2] = x
  BY <1>2, <1>3, <1>6, AreasFacts
<1> HIDE DEF s, src, i, x, q, r
<1>9. ASSUME x.typ = "MEMORY"
      PROVE  /\ x.pa \in HEADS /\ FrameOK(pf, x) /\ pf[x.pa].order \in ORDERS
             /\ ORDER2PGNUM[pf[x.pa].order] = x.n
             /\ Pgnum2Order(x.n) \in ORDERS /\ ORDER2PGNUM[Pgnum2Order(x.n)] = x.n
  <2>1. x.pa \in HEADS /\ FrameOK(pf, x)
    BY <1>3, <1>7, <1>8, <1>9 DEF BlocksInv, ShareInv
  <2>2. pf[x.pa].typ = "VMA_AREA" /\ ORDER2PGNUM[pf[x.pa].order] = x.n
    BY <2>1 DEF FrameOK
  <2>3. pf[x.pa].order \in ORDERS
    BY <1>3, <2>1, <2>2 DEF BlocksInv, FrameInv
  <2>4. Pgnum2Order(x.n) \in ORDERS /\ ORDER2PGNUM[Pgnum2Order(x.n)] = x.n
    BY <2>2, <2>3 DEF Pgnum2Order
  <2> QED
    BY <2>1, <2>2, <2>3, <2>4
<1>10. ASSUME ~Copied(x), NEW y \in Sharers(x.pa) PROVE "W" \notin x.prot /\ "W" \notin y[2].prot
  <2>1. y \in AllAreas /\ y[2].typ = "MEMORY" /\ y[2].pa = x.pa
    BY DEF Sharers
  <2>2. x.typ = "MEMORY"
    <3>1. y[1] \in SPACES /\ y[2] \in tree[y[1]]
      BY <1>3, <2>1, AreasFacts
    <3>2. HungOK(y[2])
      BY <3>1 DEF IInv, ListInv
    <3> QED
      BY <1>7, <2>1, <3>2 DEF HungOK, AreaOK
  <2>3. "W" \notin x.prot
    BY <1>10, <2>2 DEF Copied
  <2>4. "W" \in y[2].prot => y = <<src, x>>
    BY <1>3, <1>8, <2>1 DEF BlocksInv, ShareInv
  <2> QED
    BY <1>8, <2>3, <2>4
<1>11. ASSUME NEW j \in 1..Len(r) PROVE r[j].va + r[j].n <= x.va /\ Same(r[j], q[j])
  <2>1. j \in 1..(i - 1) /\ j \in 1..Len(q) /\ j < i
    BY <1>2, <1>4, <1>6
  <2>2. Same(r[j], q[j])
    BY <1>2, <2>1
  <2>3. q[j].va + q[j].n <= q[i].va
    BY <1>4, <1>6, <2>1 DEF Sorted
  <2> QED
    BY <1>5, <2>2, <2>3 DEF Same
<1>12. Len(r) = i - 1 /\ i \in Nat \ {0}
  BY <1>2, <1>4
<1>13. DupOrd(c) = Pgnum2Order(x.n)
  BY DEF DupOrd, x
<1>14. x.typ = "MEMORY" => LET o == IF Copied(x) THEN DupOrd(c) ELSE pf[x.pa].order
                           IN  o \in ORDERS /\ ORDER2PGNUM[o] = x.n
  BY <1>9, <1>13
<1> QED
  BY <1>6, <1>7, <1>9, <1>10, <1>11, <1>12, <1>14 DEF s, src, i, x, q, r

(* A block that is not used after all goes back as it came.                *)
LEMMA DupGivesBack ==
    ASSUME IInv, NEW c \in CPUS, Copied(DupX(c)), DupBlk(c) # None
    PROVE  /\ DupBlk(c) \in HEADS /\ pf[DupBlk(c)].typ = "BUDDY" /\ Sharers(DupBlk(c)) = {}
           /\ ~(free < ORDER2PGNUM[DupOrd(c)])
           /\ BkpFree(DupPf(c), DupBlk(c)) = pf
<1> DEFINE f == DupBlk(c)
<1>1. f = BkpAlloc(DupOrd(c)) /\ DupPf(c) = [pf EXCEPT ![f] = Frame("VMA_AREA", 0, DupOrd(c))]
  BY DEF DupBlk, DupPf, AllocBlock
<1>2. f \in HEADS /\ pf[f].typ = "BUDDY" /\ ~(free < ORDER2PGNUM[DupOrd(c)])
  BY <1>1, BkpAllocFacts
<1> HIDE DEF f
<1>3. pf[f] = NoFrame /\ Sharers(f) = {}
  BY <1>2 DEF IInv, FrameInv
<1>4. pf \in [HEADS -> FRAMES]
  BY DEF IInv, TypeOK
<1>5. BkpFree(DupPf(c), f) = pf
  BY <1>1, <1>2, <1>3, <1>4 DEF BkpFree
<1> QED
  BY <1>2, <1>3, <1>5 DEF f

LEMMA DupNewFacts ==
    ASSUME IInv, NEW c \in CPUS, pc[c] = "dup", l[c].i <= Len(list[l[c].src]), ~DupNoBuf(c)
    PROVE  LET x == DupX(c)
               a == DupArea(c)
           IN  /\ NewOK(a) /\ Same(a, x) /\ DupLeft(c) \in Nat /\ DupNum(c) \in Nat
               /\ a.typ = "MEMORY" => FrameOK(DupPf(c), a)
<1> DEFINE x == DupX(c)
           a == DupArea(c)
           f == DupBlk(c)
           o == IF Copied(x) THEN DupOrd(c) ELSE pf[x.pa].order
<1>1. /\ HungOK(x) /\ x \in AREAS
      /\ x.typ = "MEMORY" => x.pa \in HEADS /\ FrameOK(pf, x) /\ o \in ORDERS /\ ORDER2PGNUM[o] = x.n
  BY DupAreaFacts
<1>2. a = [typ |-> x.typ, va |-> x.va, n |-> x.n, pa |-> f, prot |-> x.prot, pgfm |-> None]
  BY DEF DupArea, Area
<1>3. f # None
  BY DEF DupNoBuf
<1>4. Copied(x) => /\ f \in HEADS /\ pf[f].typ = "BUDDY" /\ ~(free < ORDER2PGNUM[DupOrd(c)])
  BY <1>3, DupGivesBack
<1>5. ~Copied(x) => f = x.pa /\ DupPf(c) = pf /\ DupNum(c) = 0
  BY DEF DupBlk, DupPf, DupNum
<1>6. Copied(x) => /\ DupPf(c) = [pf EXCEPT ![f] = Frame("VMA_AREA", 0, o)]
                   /\ DupNum(c) = x.n /\ x.typ = "MEMORY"
  BY DEF DupPf, AllocBlock, DupNum, Copied
<1>7. pf \in [HEADS -> FRAMES] /\ free \in Nat
  BY DEF IInv, TypeOK
<1>8. DupLeft(c) = free - DupNum(c)
  BY DEF DupLeft
<1>9. Copied(x) => o = DupOrd(c)
  OBVIOUS
<1>10. x.n \in Nat \ {0} /\ (x.typ = "MEMORY" <=> x.pa \in HEADS)
  BY <1>1 DEF AREAS, HungOK, AreaOK
<1> HIDE DEF x, a, f, o
<1>11. f \in PAS /\ (x.typ = "MEMORY" <=> f \in HEADS)
  <2>1. CASE Copied(x)
    BY <1>4, <1>6, <2>1 DEF PAS
  <2>2. CASE ~Copied(x)
    BY <1>1, <1>5, <1>10, <2>2 DEF AREAS
  <2> QED
    BY <2>1, <2>2
<1>12. NewOK(a) /\ Same(a, x) /\ a.pa = f
  <2>1. InTable(x) /\ x \in AREAS
    BY <1>1 DEF HungOK, AreaOK
  <2>2. /\ a.typ = x.typ /\ a.va = x.va /\ a.n = x.n /\ a.prot = x.prot
        /\ a.pa = f /\ a.pgfm = None /\ a \in AREAS
    BY <1>2, <1>11, <2>1 DEF AREAS
  <2> QED
    BY <1>11, <2>1, <2>2 DEF NewOK, AreaOK, InTable, Same
<1>13. DupNum(c) \in Nat /\ DupLeft(c) \in Nat
  <2>1. CASE Copied(x)
    BY <1>1, <1>4, <1>6, <1>7, <1>8, <1>9, <1>10, <2>1
  <2>2. CASE ~Copied(x)
    BY <1>5, <1>7, <1>8, <2>2
  <2> QED
    BY <2>1, <2>2
<1>14. ASSUME a.typ = "MEMORY" PROVE FrameOK(DupPf(c), a)
  <2>0. x.typ = "MEMORY" /\ a.n = x.n
    BY <1>12, <1>14 DEF Same
  <2>1. CASE Copied(x)
    <3>1. DupPf(c)[f] = Frame("VMA_AREA", 0, o)
      BY <1>4, <1>6, <1>7, <2>1
    <3>2. DupPf(c)[f].typ = "VMA_AREA" /\ DupPf(c)[f].order = o
      BY <3>1 DEF Frame
    <3> QED
      BY <1>1, <1>12, <2>0, <3>2 DEF FrameOK
  <2>2. CASE ~Copied(x)
    BY <1>1, <1>5, <1>12, <2>0, <2>2 DEF FrameOK
  <2> QED
    BY <2>1, <2>2
<1> QED
  BY <1>12, <1>13, <1>14 DEF x, a

(* The block table after an area is copied.                                *)
LEMMA DupShare ==
    ASSUME IInv, NEW c \in CPUS, pc[c] = "dup", l[c].i <= Len(list[l[c].src]), ~DupNoBuf(c),
           pf' = Referred(DupPf(c), DupArea(c))
    PROVE  LET b == Mapped(DupArea(c))
               o == IF Copied(DupX(c)) THEN DupOrd(c) ELSE pf[DupX(c).pa].order
           IN  /\ IF b.typ = "MEMORY" THEN NewShare(b, o) ELSE pf' = pf
               /\ pf' \in [HEADS -> FRAMES] /\ IsFiniteSet(Blocks')
               /\ Cardinality(Blocks') = Cardinality(Blocks) + DupNum(c)
               /\ HandsKept(c)
<1> DEFINE x == DupX(c)
           a == DupArea(c)
           b == Mapped(a)
           f == DupBlk(c)
           o == IF Copied(x) THEN DupOrd(c) ELSE pf[x.pa].order
           k == Cardinality(Sharers(f)) + 1
           p == Frame("VMA_AREA", k, o)
<1>1. /\ x.typ = "MEMORY" => x.pa \in HEADS /\ FrameOK(pf, x) /\ o \in ORDERS /\ ORDER2PGNUM[o] = x.n
      /\ ~Copied(x) => \A y \in Sharers(x.pa) : "W" \notin x.prot /\ "W" \notin y[2].prot
      /\ x \in tree[l[c].src]
  BY DupAreaFacts
<1>2. NewOK(a) /\ Same(a, x) /\ DupNum(c) \in Nat
  BY DupNewFacts
<1>3. Same(b, a) /\ b.pa = a.pa
  BY <1>2, MappedFacts
<1>4. a.pa = f
  BY DEF DupArea, Area
<1>5. f # None
  BY DEF DupNoBuf
<1>6. TypeOK /\ FiniteInv /\ BlocksInv
  BY DEF IInv, BlocksInv
<1>7. pf \in [HEADS -> FRAMES]
  BY <1>6 DEF TypeOK
<1>8. b.typ = x.typ /\ b.n = x.n /\ b.prot = x.prot /\ b.pa = f /\ a.typ = x.typ
  BY <1>2, <1>3, <1>4 DEF Same
<1>9. pf' = Referred(DupPf(c), a)
  OBVIOUS
<1>10. ~Copied(x) => f = x.pa /\ DupPf(c) = pf /\ DupNum(c) = 0 /\ o = pf[f].order
  BY DEF DupBlk, DupPf, DupNum
<1>11. Copied(x) => /\ DupPf(c) = [pf EXCEPT ![f] = Frame("VMA_AREA", 0, o)]
                    /\ DupNum(c) = x.n /\ x.typ = "MEMORY"
  BY DEF DupPf, AllocBlock, DupNum, Copied
<1>12. Copied(x) => f \in HEADS /\ pf[f].typ = "BUDDY" /\ Sharers(f) = {}
  BY <1>5, DupGivesBack
<1>13. IsFiniteSet(Sharers(f)) /\ Cardinality(Sharers(f)) \in Nat /\ Cardinality(Blocks) \in Nat
  BY <1>6, SharersFacts, FS_CardinalityType DEF FiniteInv
<1> HIDE DEF x, a, b, f, o, k, p
<1>14. CASE x.typ # "MEMORY"
  <2>1. ~Copied(x)
    BY <1>14 DEF Copied
  <2>2. pf' = pf
    BY <1>8, <1>9, <1>10, <1>14, <2>1 DEF Referred
  <2>3. Blocks' = Blocks
    BY <2>2 DEF Blocks, BlockPages
  <2>4. HandsKept(c)
    BY <2>2 DEF HandsKept
  <2>5. Cardinality(Blocks') = Cardinality(Blocks) + DupNum(c)
    BY <1>10, <1>13, <2>1, <2>3
  <2> QED
    BY <1>6, <1>7, <1>8, <1>14, <2>2, <2>3, <2>4, <2>5 DEF FiniteInv, x, a, b, o
<1>15. CASE x.typ = "MEMORY"
  <2>1. /\ o \in ORDERS /\ ORDER2PGNUM[o] = x.n /\ x.n \in Nat
    BY <1>1, <1>15, VmAssumption
  <2>2. f \in HEADS
    BY <1>1, <1>10, <1>12, <1>15
  <2>3. ~Copied(x) => /\ pf[f].typ = "VMA_AREA" /\ pf[f].order = o /\ pf[f].ref = Cardinality(Sharers(f))
    <3> SUFFICES ASSUME ~Copied(x)
                 PROVE  /\ pf[f].typ = "VMA_AREA" /\ pf[f].order = o /\ pf[f].ref = Cardinality(Sharers(f))
      OBVIOUS
    <3>1. pf[f].typ = "VMA_AREA" /\ pf[f].order = o
      BY <1>1, <1>10, <1>15 DEF FrameOK
    <3> QED
      BY <1>6, <2>2, <3>1 DEF BlocksInv, FrameInv
  <2>4. pf' = [pf EXCEPT ![f] = p]
    <3>1. pf' = [DupPf(c) EXCEPT ![f] = Frame(DupPf(c)[f].typ, DupPf(c)[f].ref + 1, DupPf(c)[f].order)]
      BY <1>4, <1>8, <1>9, <1>15 DEF Referred
    <3>2. CASE Copied(x)
      <4>1. DupPf(c) = [pf EXCEPT ![f] = Frame("VMA_AREA", 0, o)]
        BY <1>11, <3>2
      <4>2. DupPf(c)[f] = Frame("VMA_AREA", 0, o)
        BY <1>7, <2>2, <4>1
      <4>3. DupPf(c)[f].typ = "VMA_AREA" /\ DupPf(c)[f].ref = 0 /\ DupPf(c)[f].order = o
        BY <4>2 DEF Frame
      <4>4. k = 0 + 1
        BY <1>12, <3>2, FS_EmptySet DEF k
      <4>5. pf' = [DupPf(c) EXCEPT ![f] = p]
        BY <3>1, <4>3, <4>4 DEF p
      <4> QED
        BY <1>7, <2>2, <4>1, <4>5
    <3>3. CASE ~Copied(x)
      BY <1>10, <2>3, <3>1, <3>3 DEF p, k
    <3> QED
      BY <3>2, <3>3
  <2>5. p \in FRAMES /\ p.typ = "VMA_AREA" /\ p.order = o
    BY <1>13, <2>1 DEF p, k, Frame, FRAMES
  <2>6. /\ pf' \in [HEADS -> FRAMES] /\ \A g \in HEADS : g # f => pf'[g] = pf[g]
        /\ IsFiniteSet(Blocks')
        /\ Cardinality(Blocks') = Cardinality(Blocks) - BlockSize(pf[f]) + BlockSize(p)
    <3>1. pf[f].typ # "BUDDY" => pf[f].order \in ORDERS
      BY <1>12, <2>1, <2>3
    <3> QED
      BY <1>6, <2>1, <2>2, <2>4, <2>5, <3>1, BlocksChange
  <2>7. BlockSize(p) = x.n /\ BlockSize(pf[f]) = (IF Copied(x) THEN 0 ELSE x.n)
    BY <1>12, <2>1, <2>3, <2>5 DEF BlockSize
  <2>8. Cardinality(Blocks') = Cardinality(Blocks) + DupNum(c)
    BY <1>10, <1>11, <1>13, <2>1, <2>6, <2>7
  <2>9. NewShare(b, o)
    <3>1. pf[f].typ # "BUDDY" => pf[f].order = o
      BY <1>12, <2>3
    <3>2. \A y \in Sharers(f) : "W" \notin b.prot /\ "W" \notin y[2].prot
      BY <1>1, <1>8, <1>10, <1>12
    <3> QED
      BY <1>8, <2>1, <2>4, <3>1, <3>2 DEF NewShare, p, k
  <2>10. ASSUME NEW d \in CPUS \ {c}, InHand(d) PROVE pf'[l[d].blk] = pf[l[d].blk]
    <3>1. /\ l[d].blk \in HEADS /\ pf[l[d].blk].typ = "VMA_AREA" /\ Sharers(l[d].blk) = {}
      BY <1>6, <2>10, InHandFacts DEF IInv
    <3>2. l[d].blk # f
      <4>1. CASE Copied(x)
        BY <1>12, <3>1, <4>1
      <4>2. CASE ~Copied(x)
        <5>1. l[c].src \in SPACES
          BY DEF IInv, CallInv, DupInv
        <5>2. <<l[c].src, x>> \in AllAreas /\ <<l[c].src, x>>[2] = x
          BY <1>1, <1>6, <5>1, AreasFacts
        <5>3. <<l[c].src, x>> \in Sharers(f)
          BY <1>10, <1>15, <4>2, <5>2 DEF Sharers
        <5> QED
          BY <3>1, <5>3
      <4> QED
        BY <4>1, <4>2
    <3> QED
      BY <2>6, <3>1, <3>2
  <2> QED
    BY <1>8, <1>15, <2>6, <2>8, <2>9, <2>10 DEF HandsKept, x, a, b, o
<1> QED
  BY <1>14, <1>15

(* The copy has failed: the half-made space is freed by its maker.         *)
LEMMA DupFails ==
    ASSUME IInv, NEW c \in CPUS, pc[c] = "dup",
           pf' = pf, areas' = areas, list' = list, tree' = tree, st' = st, root' = root,
           tabs' \in [SPACES -> SUBSET Int], \A t \in SPACES : IsFiniteSet(tabs'[t]),
           hw' = [t \in SPACES |-> hw'[t]],
           \A t \in SPACES : t # l[c].s => tabs'[t] = tabs[t] /\ hw'[t] = hw[t],
           NEW own, own = l[c].s, HwInv(own)', free' \in Nat, IsFiniteSet(Tables'),
           free' + Cardinality(Tables') = free + Cardinality(Tables),
           readers' = [readers EXCEPT ![l[c].src] = @ \ {c}],
           writer' = [writer EXCEPT ![l[c].s] = c],
           Goto(c, "free", Local(l[c].s, None, 0, None, None), TRUE)
    PROVE  IInv' /\ Conserved
<1>0. PICK s, src : s = l[c].s /\ src = l[c].src
  OBVIOUS
<1> USE <1>0
<1> DEFINE x == Local(s, None, 0, None, None)
<1>1. DupInv(c)
  BY DEF IInv, CallInv
<1>2. /\ s \in USERS /\ s \in SPACES /\ s # KVMA /\ st[s] = "new" /\ root[s]
      /\ src \in SPACES /\ st[src] = "live" /\ s # src
  BY <1>1, VmAssumption DEF DupInv, SPACES
<1>3. TypeOK /\ FiniteInv /\ LockInv /\ OwnerInv /\ BlocksInv /\ CountInv /\ ListInv(s)
  BY <1>2 DEF IInv, BlocksInv
<1>4. Apart(c, {s}) /\ \A d \in CPUS \ {c} : Owns(d) => l[d].s # s
  <2>1. Owns(c)
    BY DEF Owns
  <2> QED
    BY <1>2, <2>1, OwnedApart
<1>5. x.s = s /\ s = l[c].s /\ src = l[c].src /\ Goto(c, "free", x, TRUE)
  BY DEF Local
<1>6. /\ \A t \in SPACES : t # s => tabs'[t] = tabs[t] /\ hw'[t] = hw[t]
      /\ HwInv(s)'
      /\ readers' = [readers EXCEPT ![src] = readers[src] \ {c}]
      /\ writer' = [writer EXCEPT ![s] = c]
  OBVIOUS
<1> HIDE DEF x
<1>8. /\ pc'[c] = "free" /\ l'[c] = x /\ OthersStay(c)
      /\ pc' \in [CPUS -> PCS] /\ l' = [d \in CPUS |-> l'[d]]
      /\ panic' \in BOOLEAN /\ ~panic'
  BY <1>3, <1>5, GotoFacts DEF PCS
<1>9. /\ readers' \in [SPACES -> SUBSET CPUS] /\ readers'[src] = readers[src] \ {c}
      /\ \A t \in SPACES : t # src => readers'[t] = readers[t]
  <2>1. readers \in [SPACES -> SUBSET CPUS]
    BY <1>3 DEF TypeOK
  <2> QED
    BY <1>2, <1>6, <2>1
<1>10. /\ writer' \in [SPACES -> CPUS \cup {None}] /\ writer'[s] = c
       /\ \A t \in SPACES : t # s => writer'[t] = writer[t]
  <2>1. writer \in [SPACES -> CPUS \cup {None}]
    BY <1>3 DEF TypeOK
  <2> QED
    BY <1>2, <1>6, <2>1
<1>11. TypeOK'
  BY <1>3, <1>8, <1>9, <1>10 DEF TypeOK
<1>12. ~InHand(c) /\ ~InHand(c)' /\ c \notin Busy /\ c \notin Busy'
  BY <1>8 DEF InHand, Busy
<1>13. BlocksInv' /\ AllAreas' = AllAreas
  BY <1>3, <1>8, <1>12, BlocksStay
<1>14. Blocks' = Blocks
  BY DEF Blocks, BlockPages
<1>15. FiniteInv'
  BY <1>3, <1>13, <1>14 DEF FiniteInv
<1>16. CountInv'
  <2>1. Cardinality(Busy') = Cardinality(Busy)
    BY <1>8, <1>12, BusyChange
  <2> QED
    BY <1>3, <1>13, <2>1 DEF CountInv, Busy
<1>17. HandsKept(c)
  BY DEF HandsKept
<1>18. LockInv'
  <2>0. writer[s] = None /\ readers[s] = {}
    <3>1. \A d \in CPUS : ~Writes(d, s) /\ ~Reads(d, s)
      <4>1. ~Writes(c, s) /\ ~Reads(c, s)
        BY <1>2, <1>5 DEF Writes, Reads
      <4>2. \A d \in CPUS \ {c} : ~Writes(d, s) /\ ~Reads(d, s)
        BY <1>4 DEF Apart, Owns, Writes, Reads
      <4> QED
        BY <4>1, <4>2
    <3>2. \A d \in CPUS : writer[s] # d /\ d \notin readers[s]
      BY <1>2, <1>3, <3>1 DEF LockInv, Writes, Reads
    <3>3. writer[s] \in CPUS \cup {None} /\ readers[s] \in SUBSET CPUS
      BY <1>2, <1>3 DEF TypeOK
    <3> QED
      BY <3>2, <3>3
  <2>1. ASSUME NEW t \in SPACES
        PROVE  /\ Writes(c, t)' => writer'[t] = c /\ writer[t] \in {None, c} /\ readers'[t] = {}
               /\ ~Writes(c, t)' => writer'[t] = IF Writes(c, t) THEN None ELSE writer[t]
               /\ Reads(c, t)' => readers'[t] = readers[t] \cup {c} /\ writer'[t] = None
               /\ ~Reads(c, t)' => readers'[t] = readers[t] \ {c}
    <3>1. /\ Writes(c, t)' <=> t = s
          /\ Reads(c, t) <=> t = src
          /\ ~Writes(c, t) /\ ~Reads(c, t)'
      BY <1>5, <1>8 DEF Writes, Reads
    <3>2. c \in readers[t] <=> t = src
      BY <1>3, <3>1 DEF LockInv, Reads
    <3>3. readers'[t] = readers[t] \ {c}
      BY <1>9, <3>2
    <3>4. Writes(c, t)' => writer'[t] = c /\ writer[t] \in {None, c} /\ readers'[t] = {}
      BY <1>2, <1>9, <1>10, <2>0, <3>1
    <3> QED
      BY <1>10, <3>1, <3>3, <3>4
  <2> QED
    BY <1>3, <1>8, <2>1, LockStep
<1>19. OwnerInv'
  <2>1. \A d \in CPUS \ {c} : Owns(d) => l[d].s # l'[c].s
    BY <1>4, <1>5, <1>8
  <2> QED
    BY <1>3, <1>8, <1>12, <2>1, OwnerStep
<1>20. CallInv(c)'
  <2>1. FreeInv(c)'
    BY <1>2, <1>5, <1>8 DEF FreeInv
  <2> QED
    BY <1>8, <2>1 DEF CallInv
<1>21. IInv'
  <2>1. SpacesStay({s}) /\ StaysLive(s)
    BY <1>6 DEF SpacesStay, Stays, StaysLive
  <2>2. SpaceInv(s)' /\ ListInv(s)'
    BY <1>2, <1>3 DEF SpaceInv, ListInv
  <2>3. /\ {s} \in SUBSET SPACES /\ KVMA \notin {s}
        /\ \A u \in {s} : StaysLive(u) /\ ListInv(u)' /\ HwInv(u)' /\ SpaceInv(u)'
    BY <1>2, <1>6, <2>1, <2>2
  <2> QED
    BY <1>4, <1>8, <1>11, <1>13, <1>15, <1>16, <1>17, <1>18, <1>19, <1>20, <2>1, <2>3, Assemble
<1>22. Conserved
  <2>1. /\ Cardinality(Blocks) \in Nat /\ Cardinality(Tables) \in Nat /\ Cardinality(Tables') \in Nat
    BY <1>3, <1>15, FS_CardinalityType DEF FiniteInv
  <2>2. free \in Nat
    BY <1>3 DEF TypeOK
  <2>3. free' + Cardinality(Blocks') + Cardinality(Tables') = free + Cardinality(Blocks) + Cardinality(Tables)
    BY <1>14, <2>1, <2>2
  <2> QED
    BY <1>3, <1>11, <1>15, <2>3, SameRoots
<1> QED
  BY <1>21, <1>22

(* The pages of a new block were free.                                     *)
LEMMA PagesMove ==
    ASSUME free \in Nat, free' \in Nat, NEW d \in Nat, Cardinality(Blocks) \in Nat,
           Cardinality(Tables) \in Nat, Cardinality(Tables') \in Nat,
           free' + Cardinality(Tables') = (free - d) + Cardinality(Tables),
           Cardinality(Blocks') = Cardinality(Blocks) + d
    PROVE  free' + Cardinality(Blocks') + Cardinality(Tables') = free + Cardinality(Blocks) + Cardinality(Tables)
OBVIOUS

(* The area is copied.                                                     *)
LEMMA DupCopies ==
    ASSUME IInv, NEW c \in CPUS, pc[c] = "dup", l[c].i <= Len(list[l[c].src]), ~DupNoBuf(c),
           MmapRet(l[c].s, DupArea(c), DupLeft(c)) = "OK",
           __vm_mmap(l[c].s, DupArea(c), DupLeft(c)),
           free' = MmapFree(l[c].s, DupArea(c), DupLeft(c)), areas' = areas + 1,
           pf' = Referred(DupPf(c), DupArea(c)),
           Goto(c, "dup", Local(l[c].s, l[c].src, l[c].i + 1, None, None),
                MmapOK(l[c].s, DupArea(c), DupLeft(c), DupPf(c))),
           UNCHANGED <<spaceVars, lockVars>>
    PROVE  IInv' /\ Conserved
<1>0. PICK s, src, i : s = l[c].s /\ src = l[c].src /\ i = l[c].i
  OBVIOUS
<1> USE <1>0
<1> DEFINE x == DupX(c)
           a == DupArea(c)
           b == Mapped(a)
           n == DupLeft(c)
           y == Local(s, src, i + 1, None, None)
           ok == MmapOK(s, a, n, DupPf(c))
           o == IF Copied(x) THEN DupOrd(c) ELSE pf[x.pa].order
<1>1. DupInv(c)
  BY DEF IInv, CallInv
<1>2. /\ s \in USERS /\ s \in SPACES /\ s # KVMA /\ st[s] = "new" /\ root[s]
      /\ src \in SPACES /\ st[src] = "live" /\ s # src /\ i \in 1..(Len(list[src]) + 1)
  BY <1>1, VmAssumption DEF DupInv, SPACES
<1>3. TypeOK /\ FiniteInv /\ LockInv /\ OwnerInv /\ BlocksInv /\ CountInv
  BY DEF IInv, BlocksInv
<1>4. Apart(c, {s}) /\ \A d \in CPUS \ {c} : Owns(d) => l[d].s # s
  <2>1. Owns(c)
    BY DEF Owns
  <2> QED
    BY <1>2, <2>1, OwnedApart
<1>5. /\ y.s = s /\ y.src = src /\ y.i = i + 1 /\ s = l[c].s /\ src = l[c].src /\ i = l[c].i
      /\ Goto(c, "dup", y, ok)
  BY DEF Local
<1>6. /\ \A j \in 1..Len(list[s]) : list[s][j].va + list[s][j].n <= x.va
      /\ \A j \in 1..Len(list[s]) : Same(list[s][j], list[src][j])
      /\ Len(list[s]) = i - 1 /\ i \in Nat \ {0} /\ i <= Len(list[src]) /\ x = list[src][i]
  BY DupAreaFacts DEF DupX
<1>7. NewOK(a) /\ Same(a, x) /\ n \in Nat /\ DupNum(c) \in Nat /\ (a.typ = "MEMORY" => FrameOK(DupPf(c), a))
  BY DupNewFacts
<1>8. /\ IF b.typ = "MEMORY" THEN NewShare(b, o) ELSE pf' = pf
      /\ pf' \in [HEADS -> FRAMES] /\ IsFiniteSet(Blocks')
      /\ Cardinality(Blocks') = Cardinality(Blocks) + DupNum(c)
      /\ HandsKept(c)
  BY DupShare
<1>9. HungOK(b) /\ b \in AREAS /\ Same(b, a)
  BY <1>7, MappedFacts
<1>10. /\ MmapRet(s, a, n) = "OK" /\ __vm_mmap(s, a, n) /\ free' = MmapFree(s, a, n)
       /\ n = free - DupNum(c) /\ areas' = areas + 1
  BY DEF DupLeft
<1>a. MmapRet(s, a, n) = "OK" /\ __vm_mmap(s, a, n)
  BY <1>10
<1>11. st' = st /\ root' = root /\ writer' = writer /\ readers' = readers
  BY DEF spaceVars, lockVars
<1>12. ok <=> MmapOK(s, a, n, DupPf(c))
  OBVIOUS
<1> HIDE DEF x, a, n, y, ok, o
<1>13. /\ pc'[c] = "dup" /\ l'[c] = y /\ OthersStay(c)
       /\ pc' \in [CPUS -> PCS] /\ l' = [d \in CPUS |-> l'[d]]
       /\ panic' \in BOOLEAN /\ (ok => ~panic')
  BY <1>3, <1>5, GotoFacts DEF PCS
<1>14. Unmapping(s)' = {} /\ Unmapping(s) = {}
  <2>1. Unmapping(s)' = Unmapping(s)
    BY <1>13, UnmappingKept
  <2>2. Unmapping(s)' = {}
    BY <1>4, <1>13, UnmappingEnds
  <2> QED
    BY <2>1, <2>2
<1>15. /\ ~Refused(s, a) => HwMmap(s, a, n) # "EEXIST"
       /\ list' \in [SPACES -> Seq(AREAS)] /\ tree' \in [SPACES -> SUBSET AREAS]
       /\ tabs' \in [SPACES -> SUBSET Int] /\ \A t \in SPACES : IsFiniteSet(tabs'[t])
       /\ hw' = [t \in SPACES |-> hw'[t]]
       /\ \A t \in SPACES : t # s => /\ list'[t] = list[t] /\ tree'[t] = tree[t]
                                     /\ tabs'[t] = tabs[t] /\ hw'[t] = hw[t]
       /\ ListInv(s)' /\ HwInv(s)' /\ MmapFree(s, a, n) \in Nat /\ IsFiniteSet(Tables')
       /\ MmapFree(s, a, n) + Cardinality(Tables') = n + Cardinality(Tables)
  BY <1>2, <1>7, <1>a, <1>14, MapFacts
<1>b. tree' = [tree EXCEPT ![s] = tree[s] \cup {b}] /\ b \notin tree[s]
  BY <1>2, <1>7, <1>a, <1>14, MapFacts
<1>c. /\ Len(list'[s]) = Len(list[s]) + 1
      /\ list'[s][Len(list[s]) + 1] = b
      /\ \A j \in 1..Len(list[s]) : list'[s][j] = list[s][j]
  <2>1. \A j \in 1..Len(list[s]) : list[s][j].va + list[s][j].n <= a.va
    BY <1>6, <1>7 DEF Same
  <2>2. s \in SPACES /\ NewOK(a) /\ n \in Nat
    BY <1>2, <1>7
  <2> QED
    BY <1>a, <1>14, <2>1, <2>2, MapAppends
<1> HIDE DEF b
<1>d. /\ MmapFree(s, a, n) \in Nat
      /\ MmapFree(s, a, n) + Cardinality(Tables') = n + Cardinality(Tables)
  BY <1>15
<1>16. ok
  BY <1>7, <1>12, <1>15 DEF MmapOK
<1>17. areas \in Int /\ areas' \in Int /\ free \in Nat
  BY <1>3, <1>10 DEF TypeOK
<1>18. TypeOK'
  BY <1>3, <1>8, <1>10, <1>11, <1>13, <1>15, <1>17 DEF TypeOK
<1>19. ~InHand(c) /\ ~InHand(c)' /\ c \notin Busy /\ c \notin Busy'
  BY <1>13 DEF InHand, Busy
<1>20. BlocksInv' /\ IsFiniteSet(AllAreas') /\ Cardinality(AllAreas') = Cardinality(AllAreas) + 1
  <2>1. \A t \in SPACES : \A z \in tree[t] : HungOK(z)
    BY DEF IInv, ListInv
  <2>2. BlocksInv'
    BY <1>2, <1>3, <1>8, <1>9, <1>13, <1>b, <1>19, <2>1, ShareAdded
  <2>3. IsFiniteSet(AllAreas') /\ Cardinality(AllAreas') = Cardinality(AllAreas) + 1
    BY <1>2, <1>3, <1>9, <1>b, AreasAdd
  <2> QED
    BY <2>2, <2>3
<1>21. FiniteInv'
  BY <1>8, <1>15, <1>20 DEF FiniteInv
<1>22. CountInv'
  <2>1. Cardinality(Busy') = Cardinality(Busy) /\ Cardinality(Busy) \in Nat
    BY <1>13, <1>19, BusyChange
  <2>2. areas = Cardinality(AllAreas) + Cardinality(Busy) /\ Cardinality(AllAreas) \in Nat
    BY <1>3, FS_CardinalityType DEF CountInv, Busy, FiniteInv
  <2>3. areas' = Cardinality(AllAreas') + Cardinality(Busy')
    BY <1>10, <1>20, <2>1, <2>2
  <2> QED
    BY <2>3 DEF CountInv, Busy
<1>23. LockInv'
  <2>1. ASSUME NEW t \in SPACES
        PROVE  /\ Writes(c, t)' => writer'[t] = c /\ writer[t] \in {None, c} /\ readers'[t] = {}
               /\ ~Writes(c, t)' => writer'[t] = IF Writes(c, t) THEN None ELSE writer[t]
               /\ Reads(c, t)' => readers'[t] = readers[t] \cup {c} /\ writer'[t] = None
               /\ ~Reads(c, t)' => readers'[t] = readers[t] \ {c}
    <3>1. /\ Reads(c, t) <=> t = src
          /\ Reads(c, t)' <=> t = src
          /\ ~Writes(c, t) /\ ~Writes(c, t)'
      BY <1>5, <1>13 DEF Writes, Reads
    <3>2. (c \in readers[t] <=> t = src) /\ (writer[t] # None => readers[t] = {})
      BY <1>3, <3>1 DEF LockInv, Reads
    <3>3. t # src => readers'[t] = readers[t] \ {c}
      BY <1>11, <3>2
    <3>4. t = src => readers'[t] = readers[t] \cup {c} /\ writer'[t] = None
      BY <1>11, <3>2
    <3> QED
      BY <1>11, <3>1, <3>3, <3>4
  <2> QED
    BY <1>3, <1>13, <2>1, LockStep
<1>24. OwnerInv'
  <2>1. \A d \in CPUS \ {c} : Owns(d) => l[d].s # l'[c].s
    BY <1>4, <1>5, <1>13
  <2> QED
    BY <1>3, <1>13, <1>19, <2>1, OwnerStep
<1>25. CallInv(c)'
  <2>1. a.va = x.va /\ Same(b, x)
    BY <1>7, <1>9 DEF Same
  <2>2. /\ list'[s][Len(list[s]) + 1] = b
        /\ \A j \in 1..Len(list[s]) : list'[s][j] = list[s][j]
    BY <1>c
  <2>3. list'[src] = list[src] /\ Len(list[src]) \in Nat
    BY <1>2, <1>3, <1>15 DEF TypeOK
  <2>a. /\ Len(list'[s]) = Len(list[s]) + 1 /\ Len(list[s]) = i - 1 /\ i \in Nat \ {0}
        /\ i <= Len(list[src])
    BY <1>6, <1>c
  <2>4. (Len(list[s]) + 1) = i /\ Len(list'[s]) = i /\ i + 1 \in 1..(Len(list[src]) + 1) /\ (i + 1) - 1 = i
    BY <2>a, <2>3
  <2>5. ASSUME NEW j \in 1..i PROVE Same(list'[s][j], list'[src][j])
    <3>1. CASE j = i
      BY <1>6, <2>1, <2>2, <2>3, <2>4, <3>1
    <3>2. CASE j # i
      <4>1. j \in 1..Len(list[s])
        BY <1>6, <3>2
      <4> QED
        BY <1>6, <2>2, <2>3, <4>1
    <3> QED
      BY <3>1, <3>2
  <2>6. DupInv(c)'
    BY <1>2, <1>5, <1>11, <1>13, <2>3, <2>4, <2>5 DEF DupInv
  <2> QED
    BY <1>13, <2>6 DEF CallInv
<1>26. IInv'
  <2>1. SpacesStay({s}) /\ StaysLive(s)
    BY <1>11, <1>15 DEF SpacesStay, Stays, StaysLive
  <2>2. SpaceInv(s)'
    BY <1>2, <1>11 DEF SpaceInv
  <2>3. /\ {s} \in SUBSET SPACES /\ KVMA \notin {s}
        /\ \A u \in {s} : StaysLive(u) /\ ListInv(u)' /\ HwInv(u)' /\ SpaceInv(u)'
    BY <1>2, <1>15, <2>1, <2>2
  <2> QED
    BY <1>4, <1>8, <1>13, <1>16, <1>18, <1>20, <1>21, <1>22, <1>23, <1>24, <1>25, <2>1, <2>3, Assemble
<1>27. Conserved
  <2>1. /\ Cardinality(Blocks) \in Nat /\ Cardinality(Tables) \in Nat /\ Cardinality(Tables') \in Nat
    BY <1>3, <1>21, FS_CardinalityType DEF FiniteInv
  <2>3. free' + Cardinality(Blocks') + Cardinality(Tables') = free + Cardinality(Blocks) + Cardinality(Tables)
    <3>1. /\ Cardinality(Blocks') = Cardinality(Blocks) + DupNum(c) /\ DupNum(c) \in Nat
          /\ n = free - DupNum(c) /\ free' = MmapFree(s, a, n)
      BY <1>7, <1>8, <1>10
    <3>2. free' \in Nat /\ free' + Cardinality(Tables') = (free - DupNum(c)) + Cardinality(Tables)
      BY <1>d, <3>1, Zenon
    <3> QED
      BY <1>17, <2>1, <3>1, <3>2, PagesMove, Zenon
  <2> QED
    BY <1>3, <1>11, <1>18, <1>21, <2>3, SameRoots
<1> QED
  BY <1>26, <1>27

LEMMA VmaDupAreaStep ==
    ASSUME IInv, NEW c \in CPUS, VmaDupArea(c)
    PROVE  IInv' /\ Conserved
<1>0. PICK s : s = l[c].s
  OBVIOUS
<1> USE <1>0
<1> DEFINE a == DupArea(c)
           n == DupLeft(c)
           ret == IF DupNoBuf(c) THEN "ENOBUFS" ELSE MmapRet(s, a, n)
           left == IF ret = "ENOBUFS" THEN n ELSE MmapFree(s, a, n)
           ok == ret = "ENOBUFS" \/ MmapOK(s, a, n, DupPf(c))
           y == Local(s, None, 0, None, None)
<1>1. /\ pc[c] = "dup" /\ l[c].i <= Len(list[l[c].src])
      /\ IF ret = "ENOBUFS" THEN UNCHANGED <<areas, areaVars, hwVars>>
         ELSE areas' = ObjectsAfter(areas + 1, ret) /\ __vm_mmap(s, a, n)
      /\ IF ret = "OK"
         THEN /\ pf' = Referred(DupPf(c), a) /\ free' = left
              /\ Goto(c, "dup", Local(s, l[c].src, l[c].i + 1, None, None), ok)
              /\ UNCHANGED lockVars
         ELSE /\ pf' = IF Copied(DupX(c)) /\ DupBlk(c) # None THEN BkpFree(DupPf(c), DupBlk(c)) ELSE pf
              /\ free' = left + DupNum(c)
              /\ readers' = [readers EXCEPT ![l[c].src] = @ \ {c}]
              /\ writer' = [writer EXCEPT ![s] = c]
              /\ Goto(c, "free", y, ok)
      /\ UNCHANGED spaceVars
  BY DEF VmaDupArea, DupArea, DupLeft, DupNum, DupPf, DupNoBuf, DupBlk, DupOrd, DupX
<1>2. DupInv(c)
  BY <1>1 DEF IInv, CallInv
<1>3. s \in USERS /\ s \in SPACES /\ st[s] = "new"
  BY <1>2 DEF DupInv, SPACES
<1>4. TypeOK /\ FiniteInv /\ HwInv(s)
  BY <1>3 DEF IInv
<1>5. free \in Nat /\ areas \in Int
  BY <1>4 DEF TypeOK
<1>6. CASE ret = "OK"
  <2>1. ~DupNoBuf(c) /\ MmapRet(s, a, n) = "OK" /\ left = MmapFree(s, a, n) /\ ret # "ENOBUFS"
    BY <1>6
  <2>a. ok = (ret = "ENOBUFS" \/ MmapOK(s, a, n, DupPf(c)))
    OBVIOUS
  <2> HIDE DEF ret, left, ok
  <2>b. /\ areas' = ObjectsAfter(areas + 1, ret) /\ __vm_mmap(s, a, n)
        /\ pf' = Referred(DupPf(c), a) /\ free' = left
        /\ Goto(c, "dup", Local(s, l[c].src, l[c].i + 1, None, None), ok)
        /\ UNCHANGED <<spaceVars, lockVars>>
    BY <1>1, <1>6, <2>1
  <2>c. panic' = ~MmapOK(s, a, n, DupPf(c))
    BY <2>1, <2>a, <2>b DEF Goto
  <2>2. /\ areas' = areas + 1 /\ __vm_mmap(s, a, n)
        /\ pf' = Referred(DupPf(c), a) /\ free' = MmapFree(s, a, n)
        /\ Goto(c, "dup", Local(s, l[c].src, l[c].i + 1, None, None), MmapOK(s, a, n, DupPf(c)))
        /\ UNCHANGED <<spaceVars, lockVars>>
    BY <1>6, <2>1, <2>b, <2>c DEF ObjectsAfter, Goto
  <2> QED
    BY <1>1, <2>1, <2>2, DupCopies
<1>7. ASSUME ret # "OK" PROVE pf' = pf
  <2>1. CASE Copied(DupX(c)) /\ DupBlk(c) # None
    BY <1>1, <1>7, <2>1, DupGivesBack
  <2>2. CASE ~(Copied(DupX(c)) /\ DupBlk(c) # None)
    BY <1>1, <1>7, <2>2
  <2> QED
    BY <2>1, <2>2
<1>8. DupNum(c) \in Int /\ n = free - DupNum(c)
  <2>1. DupX(c) \in AREAS
    BY <1>1, DupAreaFacts
  <2>2. DupX(c).n \in Nat
    BY <2>1 DEF AREAS
  <2> QED
    BY <2>2 DEF DupNum, DupLeft
<1>9. ASSUME ret # "OK"
      PROVE  /\ st' = st /\ root' = root
             /\ readers' = [readers EXCEPT ![l[c].src] = @ \ {c}]
             /\ writer' = [writer EXCEPT ![s] = c]
             /\ free' = left + DupNum(c) /\ Goto(c, "free", y, ok)
  BY <1>1, <1>9 DEF spaceVars
<1>a. \A d \in CPUS \ {c} : Owns(d) => l[d].s # s
  <2>1. Owns(c)
    BY <1>1 DEF Owns
  <2> QED
    BY <2>1, OwnedApart
<1>10. CASE DupNoBuf(c)
  <2>1. ret = "ENOBUFS"
    BY <1>10
  <2>2. /\ areas' = areas /\ list' = list /\ tree' = tree /\ tabs' = tabs /\ hw' = hw
        /\ left = n /\ Goto(c, "free", y, TRUE)
    BY <1>1, <2>1 DEF areaVars, hwVars, Goto
  <2>3. free' = free
    BY <1>5, <1>8, <1>9, <2>1, <2>2
  <2>4. pc'[c] = "free" /\ OthersStay(c)
    BY <1>4, <2>2, GotoFacts DEF PCS
  <2>5. Unmapping(s)' = Unmapping(s)
    BY <1>1, <2>4, UnmappingKept
  <2>6. HwInv(s)'
    BY <1>4, <2>2, <2>5, HwKept
  <2>7. hw' = [t \in SPACES |-> hw'[t]]
    BY <1>4, <2>2, Zenon DEF TypeOK
  <2>8. Tables' = Tables
    BY <2>2 DEF Tables
  <2>9. /\ tabs' \in [SPACES -> SUBSET Int] /\ \A t \in SPACES : IsFiniteSet(tabs'[t])
        /\ IsFiniteSet(Tables')
    BY <1>4, <2>2, <2>8 DEF TypeOK, FiniteInv
  <2>10. ret # "OK"
    BY <2>1
  <2> HIDE DEF ret, left, n, a, ok
  <2> QED
    BY <1>1, <1>5, <1>7, <1>9, <2>2, <2>3, <2>6, <2>7, <2>8, <2>9, <2>10, DupFails
<1>11. CASE ~DupNoBuf(c) /\ ret # "OK"
  <2>1. ret = MmapRet(s, a, n) /\ ret # "ENOBUFS"
    <3>1. MmapRet(s, a, n) # "ENOBUFS"
      BY DEF MmapRet, HwMmap
    <3> QED
      BY <1>11, <3>1
  <2>2. NewOK(a) /\ n \in Nat /\ DupNum(c) \in Nat /\ (a.typ = "MEMORY" => FrameOK(DupPf(c), a))
    BY <1>1, <1>11, DupNewFacts
  <2>3. __vm_mmap(s, a, n) /\ areas' = areas /\ left = MmapFree(s, a, n)
    <3>1. __vm_mmap(s, a, n) /\ areas' = (areas + 1) - 1 /\ left = MmapFree(s, a, n)
      BY <1>1, <1>11, <2>1 DEF ObjectsAfter
    <3> QED
      BY <1>5, <3>1
  <2>4. Goto(c, "free", y, ok)
    BY <1>9, <1>11
  <2>5. ok <=> MmapOK(s, a, n, DupPf(c))
    BY <2>1
  <2>6. MmapRet(s, a, n) # "OK" /\ free' = MmapFree(s, a, n) + DupNum(c)
    BY <1>9, <1>11, <2>1, <2>3
  <2> HIDE DEF ret, left, n, a, ok, y
  <2>7. pc'[c] = "free" /\ OthersStay(c)
    BY <1>4, <2>4, GotoFacts DEF PCS
  <2>8. Unmapping(s)' = {} /\ Unmapping(s) = {}
    <3>1. Unmapping(s)' = Unmapping(s)
      BY <1>1, <2>7, UnmappingKept
    <3>2. Unmapping(s)' = {}
      BY <1>a, <2>7, UnmappingEnds
    <3> QED
      BY <3>1, <3>2
  <2>9. /\ ~Refused(s, a) => HwMmap(s, a, n) # "EEXIST"
        /\ tabs' \in [SPACES -> SUBSET Int] /\ \A t \in SPACES : IsFiniteSet(tabs'[t])
        /\ hw' = [t \in SPACES |-> hw'[t]]
        /\ \A t \in SPACES : t # s => tabs'[t] = tabs[t] /\ hw'[t] = hw[t]
        /\ HwInv(s)' /\ MmapFree(s, a, n) \in Nat /\ IsFiniteSet(Tables')
        /\ MmapFree(s, a, n) + Cardinality(Tables') = n + Cardinality(Tables)
        /\ list' = list /\ tree' = tree
    BY <1>3, <2>2, <2>3, <2>6, <2>8, MapFacts
  <2>10. ok
    BY <2>2, <2>5, <2>9 DEF MmapOK
  <2>11. Goto(c, "free", y, TRUE)
    BY <2>4, <2>10 DEF Goto
  <2>12. Cardinality(Tables) \in Nat /\ Cardinality(Tables') \in Nat
    BY <1>4, <2>9, FS_CardinalityType DEF FiniteInv
  <2>13. free' \in Nat /\ free' + Cardinality(Tables') = free + Cardinality(Tables)
    BY <1>5, <1>8, <2>2, <2>6, <2>9, <2>12
  <2> QED
    BY <1>1, <1>7, <1>9, <1>11, <2>3, <2>9, <2>11, <2>13, DupFails DEF y
<1> QED
  BY <1>6, <1>10, <1>11

-----------------------------------------------------------------------------
(* The initial state and the invariant.                                    *)

LEMMA OnePair ==
    ASSUME NEW S, NEW s \in S, NEW V, IsFiniteSet(V), NEW G,
           G = [t \in S |-> IF t = s THEN V ELSE {}]
    PROVE  IsFiniteSet(Pairs(G)) /\ Cardinality(Pairs(G)) = Cardinality(V)
<1> DEFINE F == [t \in S |-> {}]
<1>1. Pairs(F) = {}
  BY DEF Pairs
<1>2. /\ DOMAIN F = S /\ DOMAIN G = S /\ F[s] = {} /\ G[s] = V
      /\ \A t \in S : t # s => G[t] = F[t]
  OBVIOUS
<1>3. IsFiniteSet({}) /\ Cardinality({}) = 0 /\ Cardinality(V) \in Nat
  BY FS_EmptySet, FS_CardinalityType
<1> HIDE DEF F
<1>4. /\ IsFiniteSet(Pairs(G))
      /\ Cardinality(Pairs(G)) = Cardinality(Pairs(F)) - Cardinality(F[s]) + Cardinality(G[s])
  <2>1. /\ IsFiniteSet(F[s]) /\ IsFiniteSet(G[s]) /\ IsFiniteSet(Pairs(F))
        /\ DOMAIN G = DOMAIN F /\ s \in DOMAIN F
    BY <1>1, <1>2, <1>3
  <2>2. \A t \in DOMAIN F : t # s => G[t] = F[t]
    BY <1>2
  <2> QED
    BY <2>1, <2>2, PairsChange
<1> QED
  BY <1>1, <1>2, <1>3, <1>4

LEMMA KernelAreas ==
    /\ HungOK(TEXT) /\ HungOK(DATA) /\ TEXT # DATA /\ TEXT \in AREAS /\ DATA \in AREAS
    /\ TEXT.typ = "KERNEL" /\ DATA.typ = "KERNEL"
    /\ TEXT.va = KERNEL_VA /\ TEXT.n = 1 /\ DATA.va = KERNEL_VA + 1 /\ DATA.n = 1
    /\ Pages(TEXT.va, TEXT.n) = {KERNEL_VA} /\ Pages(DATA.va, DATA.n) = {KERNEL_VA + 1}
    /\ Pages(KERNEL_VA, 2) = {KERNEL_VA, KERNEL_VA + 1}
    /\ Entries(TEXT) = {KERNEL_VA} /\ Entries(DATA) = {KERNEL_VA + 1}
<1>1. KERNEL_VA \in Int /\ KERNEL_VA >= 0 /\ KERNEL_VA + 2 <= VPNS /\ VPNS \in Nat /\ KERNEL_VA \notin HEADS /\ KERNEL_VA + 1 \notin HEADS
  BY VmAssumption
<1>2. TEXT = [typ |-> "KERNEL", va |-> KERNEL_VA, n |-> 1, pa |-> KERNEL_VA, prot |-> {"V", "R", "X"}, pgfm |-> None]
  BY DEF TEXT, Area
<1>3. DATA = [typ |-> "KERNEL", va |-> KERNEL_VA + 1, n |-> 1, pa |-> KERNEL_VA + 1, prot |-> {"V", "R", "W"}, pgfm |-> None]
  BY DEF DATA, Area
<1>4. TEXT \in AREAS /\ DATA \in AREAS
  <2>1. TEXT.prot \in PROTS /\ DATA.prot \in PROTS
    BY DEF PROTS
  <2> QED
    BY <1>1, <1>2, <1>3, <2>1 DEF AREAS, PAS
<1>5. /\ TEXT.typ = "KERNEL" /\ DATA.typ = "KERNEL" /\ TEXT.pa = KERNEL_VA /\ DATA.pa = KERNEL_VA + 1
      /\ TEXT.va = KERNEL_VA /\ TEXT.n = 1 /\ DATA.va = KERNEL_VA + 1 /\ DATA.n = 1
      /\ TEXT.pgfm = None /\ DATA.pgfm = None /\ Valid(TEXT) /\ Valid(DATA)
  BY <1>2, <1>3 DEF Valid
<1>6. /\ Pages(KERNEL_VA, 1) = {KERNEL_VA} /\ Pages(KERNEL_VA + 1, 1) = {KERNEL_VA + 1}
      /\ Pages(KERNEL_VA, 2) = {KERNEL_VA, KERNEL_VA + 1} /\ KERNEL_VA # KERNEL_VA + 1
  BY <1>1 DEF Pages
<1>7. HungOK(TEXT) /\ HungOK(DATA)
  BY <1>1, <1>4, <1>5 DEF HungOK, AreaOK, InTable
<1>8. Entries(TEXT) = {KERNEL_VA} /\ Entries(DATA) = {KERNEL_VA + 1}
  BY <1>5, <1>6, <1>7, InTableFacts DEF HungOK
<1> QED
  BY <1>4, <1>5, <1>6, <1>7, <1>8

LEMMA InitIInv == Init => IInv
<1> SUFFICES ASSUME Init PROVE IInv
  OBVIOUS
<1> DEFINE rs == {v \div REGION : v \in Pages(KERNEL_VA, 2)}
           h == [v \in Pages(KERNEL_VA, 2) |-> Pte(IF v = KERNEL_VA THEN TEXT ELSE DATA, v)]
<1>1. /\ free = FRAME_NUM /\ pf = [f \in HEADS |-> NoFrame] /\ areas = 2
      /\ st = [s \in SPACES |-> IF s = KVMA THEN "live" ELSE "free"]
      /\ root = [s \in SPACES |-> s = KVMA]
      /\ list = [s \in SPACES |-> IF s = KVMA THEN <<TEXT, DATA>> ELSE <<>>]
      /\ tree = [s \in SPACES |-> IF s = KVMA THEN {TEXT, DATA} ELSE {}]
      /\ tabs = [s \in SPACES |-> IF s = KVMA THEN rs ELSE {}]
      /\ hw = [s \in SPACES |-> IF s = KVMA THEN h ELSE <<>>]
      /\ writer = [s \in SPACES |-> None] /\ readers = [s \in SPACES |-> {}]
      /\ pc = [c \in CPUS |-> "idle"] /\ l = [c \in CPUS |-> None] /\ panic = FALSE
  BY DEF Init
<1>2. KVMA \in SPACES /\ None \notin CPUS /\ FRAME_NUM \in Nat /\ REGION \in Nat \ {0} /\ KERNEL_VA \in Int
  BY VmAssumption DEF SPACES
<1>3. rs \in SUBSET Int /\ IsFiniteSet(rs)
  <2>1. rs = {KERNEL_VA \div REGION, (KERNEL_VA + 1) \div REGION}
    BY KernelAreas
  <2>2. KERNEL_VA \div REGION \in Int /\ (KERNEL_VA + 1) \div REGION \in Int
    BY <1>2
  <2>3. IsFiniteSet({KERNEL_VA \div REGION} \cup {(KERNEL_VA + 1) \div REGION})
    BY FS_Singleton, FS_Union
  <2>4. rs = {KERNEL_VA \div REGION} \cup {(KERNEL_VA + 1) \div REGION}
    BY <2>1
  <2> HIDE DEF rs
  <2> QED
    BY <2>1, <2>2, <2>3, <2>4
<1>4. IsFiniteSet({TEXT, DATA}) /\ Cardinality({TEXT, DATA}) = 2
  <2>1. IsFiniteSet({TEXT}) /\ Cardinality({TEXT}) = 1 /\ DATA \notin {TEXT}
    BY KernelAreas, FS_Singleton
  <2>2. IsFiniteSet({TEXT} \cup {DATA}) /\ Cardinality({TEXT} \cup {DATA}) = 1 + 1
    BY <2>1, FS_AddElement
  <2>3. {TEXT} \cup {DATA} = {TEXT, DATA}
    OBVIOUS
  <2> QED
    BY <2>2, <2>3
<1> HIDE DEF rs, h
<1>5. TypeOK
  <2>1. NoFrame \in FRAMES
    BY DEF NoFrame, Frame, FRAMES
  <2>2. pf \in [HEADS -> FRAMES]
    BY <1>1, <2>1
  <2>3. /\ list \in [SPACES -> Seq(AREAS)] /\ tree \in [SPACES -> SUBSET AREAS]
    BY <1>1, KernelAreas
  <2>4. /\ tabs \in [SPACES -> SUBSET Int] /\ \A s \in SPACES : IsFiniteSet(tabs[s])
    BY <1>1, <1>3, FS_EmptySet
  <2>5. /\ st \in [SPACES -> {"free", "new", "live"}] /\ free \in Nat /\ areas \in Int
        /\ writer \in [SPACES -> CPUS \cup {None}] /\ readers \in [SPACES -> SUBSET CPUS]
        /\ pc \in [CPUS -> PCS]
    BY <1>1, <1>2 DEF PCS
  <2>6. root \in [SPACES -> BOOLEAN] /\ panic \in BOOLEAN
    BY <1>1, Zenon
  <2>7. hw = [s \in SPACES |-> hw[s]] /\ l = [c \in CPUS |-> l[c]]
    BY <1>1, Zenon
  <2> QED
    BY <2>2, <2>3, <2>4, <2>5, <2>6, <2>7 DEF TypeOK
<1>6. ~panic /\ st[KVMA] = "live"
  BY <1>1, <1>2
<1>7. ASSUME NEW s \in SPACES PROVE ListInv(s)
  <2>1. CASE s = KVMA
    <3> DEFINE q == <<TEXT, DATA>>
    <3>1. list[s] = q /\ tree[s] = {TEXT, DATA}
      BY <1>1, <2>1
    <3>2. Len(q) = 2 /\ q[1] = TEXT /\ q[2] = DATA
      OBVIOUS
    <3> HIDE DEF q
    <3>3. Sorted(q)
      <4>1. TEXT.va + TEXT.n <= DATA.va
        BY <1>2, KernelAreas
      <4>2. \A i, j \in 1..2 : i < j => i = 1 /\ j = 2
        OBVIOUS
      <4> QED
        BY <3>2, <4>1, <4>2 DEF Sorted
    <3>4. Listed(q) = {TEXT, DATA}
      <4>1. 1..2 = {1, 2}
        OBVIOUS
      <4> QED
        BY <3>2, <4>1 DEF Listed
    <3> QED
      BY <3>1, <3>3, <3>4, KernelAreas DEF ListInv
  <2>2. CASE s # KVMA
    <3>1. list[s] = <<>> /\ tree[s] = {}
      BY <1>1, <2>2
    <3> QED
      BY <3>1 DEF ListInv, Sorted, Listed
  <2> QED
    BY <2>1, <2>2
<1>8. ASSUME NEW s \in SPACES PROVE HwInv(s)
  <2>1. Unmapping(s) = {}
    BY <1>1 DEF Unmapping
  <2>2. CASE s = KVMA
    <3>1. hw[s] = h /\ tree[s] = {TEXT, DATA}
      BY <1>1, <2>2
    <3>2. /\ DOMAIN h = {KERNEL_VA, KERNEL_VA + 1} /\ h = [v \in DOMAIN h |-> h[v]]
          /\ h[KERNEL_VA] = Pte(TEXT, KERNEL_VA) /\ h[KERNEL_VA + 1] = Pte(DATA, KERNEL_VA + 1)
      BY <1>2, KernelAreas DEF h
    <3> QED
      BY <2>1, <3>1, <3>2, KernelAreas DEF HwInv
  <2>3. CASE s # KVMA
    <3>1. hw[s] = <<>> /\ tree[s] = {}
      BY <1>1, <2>3
    <3> QED
      BY <2>1, <3>1 DEF HwInv
  <2> QED
    BY <2>2, <2>3
<1>9. ASSUME NEW s \in SPACES PROVE SpaceInv(s)
  <2>1. root[s] <=> s = KVMA
    BY <1>1, Zenon
  <2> QED
    BY <1>1, <2>1 DEF SpaceInv
<1>10. \A c \in CPUS : pc[c] = "idle"
  BY <1>1
<1>11. \A c \in CPUS : CallInv(c)
  BY <1>10 DEF CallInv
<1>12. LockInv
  BY <1>1, <1>2, <1>10 DEF LockInv
<1>13. OwnerInv
  BY <1>10 DEF OwnerInv, Owns, InHand
<1>14. /\ IsFiniteSet(AllAreas) /\ Cardinality(AllAreas) = 2 /\ IsFiniteSet(Tables)
  <2> DEFINE K == {TEXT, DATA}
  <2>0. tree = [t \in SPACES |-> IF t = KVMA THEN K ELSE {}] /\ IsFiniteSet(K) /\ Cardinality(K) = 2
    BY <1>1, <1>4
  <2> HIDE DEF K
  <2>1. IsFiniteSet(Pairs(tree)) /\ Cardinality(Pairs(tree)) = Cardinality(K)
    BY <1>2, <2>0, OnePair
  <2>2. IsFiniteSet(Pairs(tabs))
    BY <1>1, <1>2, <1>3, OnePair
  <2> QED
    BY <2>0, <2>1, <2>2 DEF AllAreas, Tables
<1>15. FiniteInv
  <2>1. \A f \in HEADS : BlockPages[f] = {}
    BY <1>1 DEF BlockPages, NoFrame, Frame
  <2>2. DOMAIN BlockPages = HEADS
    BY DEF BlockPages
  <2>3. Blocks = {}
    BY <2>1, <2>2 DEF Blocks, Pairs
  <2> QED
    BY <1>14, <2>3, FS_EmptySet DEF FiniteInv
<1>16. CountInv
  <2>1. {c \in CPUS : pc[c] \in {"hang", "unmap"}} = {}
    BY <1>10
  <2>2. areas = 2 /\ Cardinality({}) = 0
    BY <1>1, FS_EmptySet
  <2>3. Cardinality({c \in CPUS : pc[c] \in {"hang", "unmap"}}) = 0
    BY <2>1, <2>2, Zenon
  <2> QED
    BY <1>14, <2>2, <2>3 DEF CountInv
<1>17. ASSUME NEW x \in AllAreas PROVE x[2].typ # "MEMORY"
  <2>1. x[1] \in SPACES /\ x[2] \in tree[x[1]]
    BY <1>5, AreasFacts
  <2>2. x[2] \in {TEXT, DATA}
    BY <1>1, <2>1
  <2> QED
    BY <2>2, KernelAreas
<1>18. ASSUME NEW f \in HEADS PROVE FrameInv(f)
  <2>1. Sharers(f) = {}
    BY <1>17 DEF Sharers
  <2>2. pf[f] = NoFrame /\ pf[f].typ = "BUDDY"
    BY <1>1 DEF NoFrame, Frame
  <2> QED
    BY <2>1, <2>2 DEF FrameInv
<1>19. ShareInv
  BY <1>17 DEF ShareInv
<1> QED
  BY <1>5, <1>6, <1>7, <1>8, <1>9, <1>11, <1>12, <1>13, <1>15, <1>16, <1>18, <1>19 DEF IInv

(* Every step keeps the invariant and loses no page but the root table of  *)
(* a space that is freed.                                                  *)
LEMMA NextStep ==
    ASSUME IInv, Next
    PROVE  IInv' /\ Conserved
<1>1. PICK c \in CPUS : VmMmap(c) \/ VmIomap(c) \/ VmUnmap(c) \/ VmaDup(c) \/ VmaFree(c) \/ Step(c)
  BY DEF Next
<1>2. CASE VmMmap(c)
  BY <1>2, VmMmapStep
<1>3. CASE VmIomap(c)
  BY <1>3, VmIomapStep
<1>4. CASE VmUnmap(c)
  BY <1>4, VmUnmapStep
<1>5. CASE VmaDup(c)
  BY <1>5, VmaDupStep
<1>6. CASE VmaFree(c)
  BY <1>6, VmaFreeStep
<1>7. CASE VmMmapArea(c)
  BY <1>7, VmMmapAreaStep
<1>8. CASE VmMmapHang(c)
  BY <1>8, VmMmapHangStep
<1>9. CASE VmMmapUndo(c)
  BY <1>9, VmMmapUndoStep
<1>10. CASE UnmapHw(c)
  BY <1>10, UnmapHwStep
<1>11. CASE VmaDupRoot(c)
  BY <1>11, VmaDupRootStep
<1>12. CASE VmaDupArea(c)
  BY <1>12, VmaDupAreaStep
<1>13. CASE VmaDupReturn(c)
  BY <1>13, VmaDupReturnStep
<1>14. CASE VmaFreeArea(c)
  BY <1>14, VmaFreeAreaStep
<1>15. CASE VmaFreeEnd(c)
  BY <1>15, VmaFreeEndStep
<1> QED
  BY <1>1, <1>2, <1>3, <1>4, <1>5, <1>6, <1>7, <1>8, <1>9, <1>10, <1>11, <1>12, <1>13, <1>14, <1>15
     DEF Step

LEMMA StutterIInv ==
    ASSUME IInv, UNCHANGED vars
    PROVE  IInv'
<1>1. /\ free' = free /\ pf' = pf /\ areas' = areas /\ st' = st /\ root' = root /\ list' = list
      /\ tree' = tree /\ tabs' = tabs /\ hw' = hw /\ writer' = writer /\ readers' = readers
      /\ pc' = pc /\ l' = l /\ panic' = panic
  BY DEF vars, spaceVars, areaVars, hwVars, lockVars
<1>2. TypeOK' /\ ~panic' /\ st'[KVMA] = "live"
  <2>1. hw' = [s \in SPACES |-> hw'[s]] /\ l' = [c \in CPUS |-> l'[c]] /\ panic' \in BOOLEAN
    BY <1>1, Zenon DEF IInv, TypeOK
  <2> QED
    BY <1>1, <2>1 DEF IInv, TypeOK
<1>3. \A s \in SPACES : Unmapping(s)' = Unmapping(s)
  BY <1>1 DEF Unmapping
<1>4. \A s \in SPACES : ListInv(s)' /\ HwInv(s)' /\ SpaceInv(s)'
  BY <1>1, <1>3 DEF IInv, ListInv, HwInv, SpaceInv
<1>5. \A c \in CPUS : CallInv(c)'
  BY <1>1 DEF IInv, CallInv, MmapInv, UnmapInv, RootInv, DupInv, FreeInv
<1>6. LockInv' /\ OwnerInv'
  BY <1>1 DEF IInv, LockInv, OwnerInv, Owns, InHand
<1>7. AllAreas' = AllAreas /\ Blocks' = Blocks /\ Tables' = Tables /\ InFlight' = InFlight
  BY <1>1 DEF AllAreas, Blocks, BlockPages, Tables, InFlight, InHand
<1>8. \A f \in HEADS : FrameInv(f)'
  BY <1>1, <1>7, SharersStay DEF IInv, FrameInv
<1>9. ShareInv' /\ CountInv' /\ FiniteInv'
  BY <1>1, <1>7 DEF IInv, ShareInv, CountInv, FiniteInv
<1> QED
  BY <1>2, <1>4, <1>5, <1>6, <1>8, <1>9 DEF IInv

-----------------------------------------------------------------------------
(* The theorems.                                                           *)

(* IInv holds throughout: what each CPU relies on between two locks of     *)
(* vm_mmap, vm_unmap, vma_dup and vma_free, the spaces and the blocks.     *)
THEOREM Invariant == Spec => []IInv
<1>1. ASSUME IInv, [Next]_vars PROVE IInv'
  BY <1>1, NextStep, StutterIInv
<1> QED
  BY <1>1, InitIInv, PTL DEF Spec

(* map_memory_cb and unmmap_memory_cb keep the reference count of every    *)
(* frame exact in all spaces together, and the area cache has in use       *)
(* exactly the areas of the spaces and those in the hands of a call.       *)
THEOREM RefCountsAreExact == Spec => []RefCountExact
<1>1. ASSUME IInv PROVE RefCountExact
  <2>1. areas = Cardinality(AllAreas) + Cardinality({c \in CPUS : pc[c] \in {"hang", "unmap"}})
    BY <1>1 DEF IInv, CountInv
  <2>2. ASSUME NEW f \in HEADS
        PROVE  IF pf[f].typ = "VMA_AREA"
               THEN pf[f].ref = Cardinality(Sharers(f)) /\ (pf[f].ref = 0 => f \in InFlight)
               ELSE Sharers(f) = {}
    <3>1. FrameInv(f) /\ pf[f].typ \in {"BUDDY", "VMA_AREA"}
      BY <1>1 DEF IInv, TypeOK, FRAMES
    <3> QED
      BY <3>1 DEF FrameInv
  <2> QED
    BY <2>1, <2>2 DEF RefCountExact
<1> QED
  BY <1>1, Invariant, PTL

(* An entry of a space nobody writes is that of one of its areas.          *)
LEMMA EntryOf ==
    ASSUME IInv, NEW s \in SPACES, writer[s] = None
    PROVE  /\ hw[s] = [v \in DOMAIN hw[s] |-> hw[s][v]]
           /\ \A a \in tree[s] : Valid(a) =>
                \A v \in Pages(a.va, a.n) : v \in DOMAIN hw[s] /\ hw[s][v] = Pte(a, v)
           /\ \A v \in DOMAIN hw[s] :
                \E a \in tree[s] : Valid(a) /\ v \in Pages(a.va, a.n) /\ hw[s][v] = Pte(a, v)
<1>1. Unmapping(s) = {} /\ HwInv(s)
  BY UnmappingOf DEF IInv
<1>2. \A a \in tree[s] : Entries(a) = IF Valid(a) THEN Pages(a.va, a.n) ELSE {}
  BY InTableFacts DEF IInv, ListInv, HungOK
<1> QED
  BY <1>1, <1>2 DEF HwInv

(* Outside the writer's lock the page table of a space maps exactly what   *)
(* its areas say: the lock spans the whole of __vm_mmap and __vm_unmap.    *)
THEOREM PageTablesMatchAreas == Spec => []HwMatchesAreas
<1>1. ASSUME IInv PROVE HwMatchesAreas
  <2> SUFFICES ASSUME NEW s \in SPACES, writer[s] = None
               PROVE  LET shown == {a \in tree[s] : Valid(a)}
                      IN  hw[s] = [v \in UNION {Pages(a.va, a.n) : a \in shown} |->
                                     Pte(CHOOSE a \in shown : v \in Pages(a.va, a.n), v)]
    BY DEF HwMatchesAreas
  <2> DEFINE E == {a \in tree[s] : Valid(a)}
             D == UNION {Pages(a.va, a.n) : a \in E}
             A(v) == CHOOSE a \in E : v \in Pages(a.va, a.n)
  <2>3. /\ hw[s] = [v \in DOMAIN hw[s] |-> hw[s][v]]
        /\ \A a \in E : \A v \in Pages(a.va, a.n) : v \in DOMAIN hw[s] /\ hw[s][v] = Pte(a, v)
        /\ \A v \in DOMAIN hw[s] : \E a \in E : v \in Pages(a.va, a.n) /\ hw[s][v] = Pte(a, v)
    BY <1>1, EntryOf
  <2> HIDE DEF E
  <2>4. DOMAIN hw[s] = D
    BY <2>3
  <2>5. ASSUME NEW v \in DOMAIN hw[s] PROVE hw[s][v] = Pte(A(v), v)
    <3>1. \E a \in E : v \in Pages(a.va, a.n)
      BY <2>3, <2>5
    <3>2. A(v) \in E /\ v \in Pages(A(v).va, A(v).n)
      BY <3>1
    <3> QED
      BY <2>3, <3>2
  <2> HIDE DEF D, A
  <2>6. hw[s] = [v \in D |-> Pte(A(v), v)]
    BY <2>3, <2>4, <2>5, Zenon
  <2> QED
    BY <2>6 DEF D, A, E
<1> QED
  BY <1>1, Invariant, PTL

(* Memory a space may write is in no other space: vma_dup gives such areas *)
(* new blocks, and a block is freed only with its last reference.          *)
THEOREM WritableIsNotShared == Spec => []WritableNotShared
<1>1. ASSUME IInv PROVE WritableNotShared
  <2>1. SUFFICES ASSUME NEW s \in SPACES, NEW t \in SPACES, s # t, writer[s] = None, writer[t] = None,
                        NEW u \in DOMAIN hw[s], NEW v \in DOMAIN hw[t],
                        hw[s][u].pa \in HEADS, "W" \in hw[s][u].prot, hw[s][u].pa = hw[t][v].pa
                 PROVE  FALSE
    BY DEF WritableNotShared
  <2>2. PICK a \in tree[s] : hw[s][u] = Pte(a, u)
    BY <1>1, <2>1, EntryOf
  <2>3. PICK b \in tree[t] : hw[t][v] = Pte(b, v)
    BY <1>1, <2>1, EntryOf
  <2>4. a.pa \in HEADS /\ "W" \in a.prot /\ a.pa = b.pa
    BY <2>1, <2>2, <2>3 DEF Pte
  <2>5. a.typ = "MEMORY"
    <3>1. HungOK(a)
      BY <1>1 DEF IInv, ListInv
    <3> QED
      BY <2>4, <3>1 DEF HungOK, AreaOK
  <2>6. <<s, a>> \in AllAreas /\ <<t, b>> \in AllAreas
    BY <1>1, AreasFacts DEF IInv
  <2>7. <<s, a>>[2] = a /\ <<t, b>>[2] = b
    OBVIOUS
  <2>8. <<s, a>> = <<t, b>>
    BY <1>1, <2>4, <2>5, <2>6, <2>7 DEF IInv, ShareInv
  <2> QED
    BY <2>1, <2>8
<1> QED
  BY <1>1, Invariant, PTL

(* vm_check passes on every space in use that no writer is changing,       *)
(* unless an area was mapped without PROT_V, and no ASSERT of the map and  *)
(* unmap callbacks, of hw_unmap, of vm_mmap or of vma_dup fails, as long   *)
(* as the callers' ranges are inside the page table.                       *)
THEOREM VmChecksPass == Spec => []VmCheckPasses
<1>1. ASSUME IInv PROVE VmCheckPasses
  <2>1. ~panic
    BY <1>1 DEF IInv
  <2>2. ASSUME NEW s \in Live PROVE vm_check(s) <=> \A a \in tree[s] : Valid(a)
    <3>1. s \in SPACES /\ st[s] = "live"
      BY DEF Live
    <3>2. root[s] /\ TypeOK /\ ListInv(s)
      BY <1>1, <3>1 DEF IInv, SpaceInv
    <3> DEFINE q == list[s]
    <3>3. /\ q \in Seq(AREAS) /\ Sorted(q) /\ Listed(q) = tree[s]
          /\ \A a \in tree[s] : HungOK(a)
      BY <3>1, <3>2 DEF TypeOK, ListInv
    <3> HIDE DEF q
    <3>4. ASSUME NEW i \in 1..Len(q)
          PROVE  /\ q[i].typ \in {"IO", "KERNEL"} => q[i].pgfm = None
                 /\ i > 1 => q[i].va >= q[i - 1].va + q[i - 1].n
                 /\ {b \in tree[s] : b.va = q[i].va /\ b.n = q[i].n} = {q[i]}
      <4>1. q[i] \in tree[s] /\ q[i] \in AREAS /\ HungOK(q[i])
        BY <3>3 DEF Listed
      <4>2. q[i].va \in Int /\ q[i].n \in Nat \ {0}
        BY <4>1 DEF AREAS
      <4>3. q[i].typ \in {"IO", "KERNEL"} => q[i].pgfm = None
        BY <4>1 DEF HungOK
      <4>4. ASSUME i > 1 PROVE q[i].va >= q[i - 1].va + q[i - 1].n
        <5>1. i - 1 \in 1..Len(q) /\ i - 1 < i
          BY <3>3, <4>4
        <5>2. q[i - 1].va + q[i - 1].n <= q[i].va
          BY <3>3, <5>1 DEF Sorted
        <5>3. q[i - 1] \in AREAS
          BY <3>3, <5>1
        <5>4. q[i - 1].va \in Int /\ q[i - 1].n \in Nat \ {0}
          BY <5>3 DEF AREAS
        <5> QED
          BY <4>2, <5>2, <5>4
      <4>5. ASSUME NEW b \in tree[s], b.va = q[i].va, b.n = q[i].n PROVE b = q[i]
        <5>1. Overlap(b, q[i])
          BY <4>2, <4>5 DEF Overlap
        <5> QED
          BY <3>1, <3>2, <4>1, <5>1, TreeApart
      <4> QED
        BY <4>1, <4>3, <4>4, <4>5
    <3>5. (\A a \in tree[s] : Valid(a)) <=> \A i \in 1..Len(q) : Valid(q[i])
      BY <3>3 DEF Listed
    <3>6. vm_check(s) <=> \A i \in 1..Len(q) : Valid(q[i])
      BY <3>2, <3>4, Zenon DEF vm_check, q
    <3> QED
      BY <3>5, <3>6
  <2> QED
    BY <2>1, <2>2 DEF VmCheckPasses
<1> QED
  BY <1>1, Invariant, PTL

(* No step of the memory calls loses or doubles a page, the failing ones   *)
(* included, except that the end of vma_free loses the root table of the   *)
(* space it frees.                                                         *)
THEOREM FramesAreConserved == Spec => FramesConserved
<1> DEFINE A == Accounted' = Accounted - Cardinality({s \in USERS : root[s] /\ ~root'[s]})
<1>1. ASSUME IInv, [Next]_vars PROVE [A]_vars
  BY <1>1, NextStep DEF Conserved, Lost
<1> QED
  BY <1>1, Invariant, PTL DEF Spec, FramesConserved

(* A step moves one CPU, and a copy returns in VmaDupReturn only.          *)
LEMMA DupReturns ==
    ASSUME IInv, Next, NEW c \in CPUS, pc[c] = "dup", pc'[c] = "idle"
    PROVE  VmaDupReturn(c)
<1>1. PICK d \in CPUS : VmMmap(d) \/ VmIomap(d) \/ VmUnmap(d) \/ VmaDup(d) \/ VmaFree(d) \/ Step(d)
  BY DEF Next
<1>2. pc \in [CPUS -> PCS]
  BY DEF IInv, TypeOK
<1>3. ASSUME NEW p, pc' = [pc EXCEPT ![d] = p], p # "idle" \/ pc[d] # "dup" PROVE FALSE
  BY <1>2, <1>3
<1>4. CASE VmMmap(d) \/ VmIomap(d) \/ VmUnmap(d) \/ VmaDup(d) \/ VmaFree(d)
  BY <1>3, <1>4 DEF VmMmap, VmIomap, VmUnmap, VmaDup, VmaFree, Goto
<1>5. CASE VmMmapArea(d) \/ VmMmapHang(d) \/ VmMmapUndo(d)
  BY <1>3, <1>5 DEF VmMmapArea, VmMmapHang, VmMmapUndo, Goto
<1>6. CASE UnmapHw(d) \/ VmaDupRoot(d) \/ VmaFreeArea(d) \/ VmaFreeEnd(d)
  BY <1>3, <1>6 DEF UnmapHw, VmaDupRoot, VmaFreeArea, VmaFreeEnd, Goto
<1>7. CASE VmaDupArea(d)
  BY <1>3, <1>7 DEF VmaDupArea, Goto
<1>8. CASE VmaDupReturn(d)
  <2>1. pc' = [pc EXCEPT ![d] = "idle"]
    BY <1>8 DEF VmaDupReturn, Goto
  <2>2. d = c
    BY <1>2, <2>1
  <2> QED
    BY <1>8, <2>2
<1> QED
  BY <1>1, <1>4, <1>5, <1>6, <1>7, <1>8 DEF Step

(* When vma_dup returns, the copy has the areas the source has at that     *)
(* moment: the reader's lock is held from the first area to the last.      *)
THEOREM DupsAreComplete == Spec => DupComplete
<1> DEFINE A == \A c \in CPUS : pc[c] = "dup" /\ pc'[c] = "idle" =>
                  \A s, src \in SPACES : s = l[c].s /\ src = l[c].src => Shape(s)' = Shape(src)'
<1>1. ASSUME IInv, Next PROVE A
  <2>1. SUFFICES ASSUME NEW c \in CPUS, pc[c] = "dup", pc'[c] = "idle",
                        NEW s \in SPACES, NEW src \in SPACES, s = l[c].s, src = l[c].src
                 PROVE  Shape(s)' = Shape(src)'
    OBVIOUS
  <2>2. VmaDupReturn(c) /\ DupInv(c)
    BY <1>1, <2>1, DupReturns DEF IInv, CallInv
  <2>3. list' = list /\ l[c].i > Len(list[src])
    BY <2>1, <2>2 DEF VmaDupReturn, areaVars
  <2> DEFINE q == list[s]
             r == list[src]
  <2>4. q \in Seq(AREAS) /\ r \in Seq(AREAS)
    BY <1>1 DEF IInv, TypeOK
  <2>5. /\ l[c].i \in 1..(Len(r) + 1) /\ Len(q) = l[c].i - 1
        /\ \A j \in 1..(l[c].i - 1) : Same(q[j], r[j])
    BY <2>1, <2>2 DEF DupInv
  <2>6. Len(q) = Len(r) /\ \A j \in 1..Len(q) : Same(q[j], r[j])
    <3> HIDE DEF q, r
    <3>1. l[c].i = Len(r) + 1
      BY <2>3, <2>4, <2>5 DEF r
    <3> QED
      BY <2>4, <2>5, <3>1
  <2>7. /\ Shape(s)' = [i \in 1..Len(q) |-> <<q[i].typ, q[i].va, q[i].n, q[i].prot>>]
        /\ Shape(src)' = [i \in 1..Len(r) |-> <<r[i].typ, r[i].va, r[i].n, r[i].prot>>]
    BY <2>3 DEF Shape
  <2> HIDE DEF q, r
  <2> QED
    BY <2>6, <2>7 DEF Same
<1>2. ASSUME IInv, [Next]_vars PROVE [A]_vars
  BY <1>1, <1>2
<1> QED
  BY <1>2, Invariant, PTL DEF Spec, DupComplete
=============================================================================
