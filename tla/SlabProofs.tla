----------------------------- MODULE SlabProofs -----------------------------
(***************************************************************************)
(* Proofs about Slab, for any caches, blocks and limits.                   *)
(*                                                                         *)
(* The three invariants need each other: a free list is exact only while   *)
(* nobody else writes the slab, which is because a block has one owner; a  *)
(* block has one owner because a slab is on one list; and the asserts that *)
(* keep the lists right rest on what the free list of each slab holds.     *)
(* That the list goes from its head to its tail through every free object  *)
(* is said with a witness, the objects in the order of the list.           *)
(***************************************************************************)
EXTENDS Slab, SequenceTheorems, FiniteSetTheorems, WellFoundedInduction, TLAPS

NoRepeats(s) == \A i, j \in 1..Len(s) : s[i] = s[j] => i = j

Objects(k) == 0..(OBJ_ALL[k] - 1)

(* q lists the free objects of slab s, which has n objects, in the order   *)
(* of the list.                                                            *)
Chain(s, n, q) ==
    /\ q \in [1..s.obj_free -> 0..(n - 1)]
    /\ \A i, j \in 1..s.obj_free : q[i] = q[j] => i = j
    /\ \A i \in 1..(s.obj_free - 1) : s.idx[q[i]] = q[i + 1]
    /\ \A x \in 0..(n - 1) : s.idx[x] = -1 <=> \A i \in 1..s.obj_free : q[i] # x
    /\ s.obj_free > 0 => s.head = q[1] /\ s.tail = q[s.obj_free] /\ s.idx[s.tail] = s.tail
    /\ s.obj_free = 0 => s.head = -1 /\ s.tail = -1

SlabRecord(n) == [obj_all : {n}, obj_free : 0..n, head : Int, tail : Int, idx : [0..(n - 1) -> Int]]

InUse(s, n) == {x \in 0..(n - 1) : s.idx[x] = -1}

SlabOK(s, n) ==
    /\ s \in SlabRecord(n)
    /\ \E q \in [1..s.obj_free -> 0..(n - 1)] : Chain(s, n, q)
    /\ s.obj_free = n - Cardinality(InUse(s, n))

TypeOK ==
    /\ state \in [CACHES -> {"down", "init", "up", "grown"}]
    /\ obj_num \in [CACHES -> Int] /\ pg_orhas \in [CACHES -> Int]
    /\ list \in [CACHES -> [LISTS -> Seq(BLOCKS)]]
    /\ DOMAIN slab = BLOCKS
    /\ pgtype \in [BLOCKS -> {"BUDDY", "SLAB"}]
    /\ avail \subseteq BLOCKS
    /\ panic = FALSE

(* The slabs of a cache hold its objects, and those of them that are       *)
(* handed out are the ones off the free list.                              *)
ObjectsInv(k) ==
    \A b \in Slabs(k) :
        /\ OBJ_ALL[k] > 0 /\ SlabOK(slab[b], OBJ_ALL[k])
        /\ \A x \in Objects(k) : <<k, b, x>> \in live <=> slab[b].idx[x] = -1

(* What is handed out belongs to a slab.                                   *)
LiveInv ==
    \A o \in live : \E k \in CACHES : \E b \in Slabs(k), x \in Objects(k) : o = <<k, b, x>>

ListOK(s) ==
    /\ s \in Seq(BLOCKS) /\ NoRepeats(s)
    /\ IsFiniteSet(Listed(s)) /\ Cardinality(Listed(s)) = Len(s)

(* Slab s has left what the slabs of list l have.                          *)
Fits(s, l) ==
    /\ l = "free" => s.obj_free = s.obj_all
    /\ l = "full" => s.obj_free = 0
    /\ l = "partial" => s.obj_free \in 1..(s.obj_all - 1)

(* A slab is on one list, once, and on the one that fits what it has left. *)
ListInv(k) ==
    /\ \A l \in LISTS : ListOK(list[k][l]) /\ \A b \in Listed(list[k][l]) : Fits(slab[b], l)
    /\ \A l, m \in LISTS : l # m => Listed(list[k][l]) \cap Listed(list[k][m]) = {}

CountInv(k) ==
    /\ state[k] # "down" =>
         /\ pg_orhas[k] = Len(list[k]["free"]) + Len(list[k]["full"]) + Len(list[k]["partial"])
         /\ pg_orhas[k] <= PG_ORLIMIT[k]
         /\ IsFiniteSet(Slabs(k)) /\ pg_orhas[k] = Cardinality(Slabs(k))
         /\ IsFiniteSet(FreeObjects(k)) /\ obj_num[k] = Cardinality(FreeObjects(k))
    /\ state[k] = "down" => \A l \in LISTS : list[k][l] = <<>>
    /\ state[k] = "init" => list[k]["full"] = <<>> /\ list[k]["partial"] = <<>>
                            /\ pg_orhas[k] < INIT_ALLOC[k]
    /\ state[k] = "grown" => list[k]["free"] # <<>>

CacheInv(k) == ObjectsInv(k) /\ ListInv(k) /\ CountInv(k)

(* A block is with the page allocator or in one cache.                     *)
BlocksInv ==
    /\ \A k, m \in CACHES : k # m => Slabs(k) \cap Slabs(m) = {}
    /\ \A b \in BLOCKS : b \in avail <=> \A k \in CACHES : b \notin Slabs(k)
    /\ \A b \in BLOCKS : pgtype[b] = "SLAB" <=> \E k \in CACHES : b \in Slabs(k)

IInv == TypeOK /\ LiveInv /\ BlocksInv /\ \A k \in CACHES : CacheInv(k)

-----------------------------------------------------------------------------
(* The free list of one slab.                                              *)

(* Every nonempty set of naturals has a least element.                     *)
LEMMA LeastNatural ==
    ASSUME NEW T, T \subseteq Nat, T # {}
    PROVE  \E x \in T : \A y \in T : ~(y < x)
<1> DEFINE R == {ss \in Nat \X Nat : ss[1] < ss[2]}
<1>1. IsWellFoundedOn(R, Nat)
  BY NatLessThanWellFounded, Zenon DEF OpToRel
<1> HIDE DEF R
<1>2. PICK x \in T : \A y \in T : ~(<<y, x>> \in R)
  BY <1>1, WFMin
<1>3. \A y \in T : ~(y < x)
  BY <1>2 DEF R
<1> QED
  BY <1>3

(* Cardinality of a subset of an interval, when an element joins or leaves. *)
LEMMA InUseCardinality ==
    ASSUME NEW n \in Nat, NEW S \in SUBSET (0..(n - 1)), NEW x \in 0..(n - 1)
    PROVE  /\ Cardinality(S) \in Nat
           /\ Cardinality(S) = 0 <=> S = {}
           /\ x \notin S => Cardinality(S \cup {x}) = Cardinality(S) + 1
           /\ x \in S => Cardinality(S \ {x}) = Cardinality(S) - 1
<1>1. IsFiniteSet(0..(n - 1))
  BY FS_Interval
<1>2. IsFiniteSet(S)
  BY <1>1, FS_Subset
<1> QED
  BY <1>2, FS_CardinalityType, FS_EmptySet, FS_AddElement, FS_RemoveElement

(* init_slab_xip leaves a slab whose objects are all on its list.          *)
LEMMA NewSlabOK ==
    ASSUME NEW n \in Nat, n > 0
    PROVE  /\ SlabOK(NewSlab(n), n)
           /\ NewSlab(n).obj_free = n /\ NewSlab(n).obj_all = n
           /\ \A x \in 0..(n - 1) : NewSlab(n).idx[x] # -1
<1> DEFINE s == NewSlab(n)
           q == [i \in 1..n |-> i - 1]
<1>1. /\ s.obj_free = n /\ s.obj_all = n /\ s.head = 0 /\ s.tail = n - 1
      /\ s.idx = [i \in 0..(n - 1) |-> IF i # n - 1 THEN i + 1 ELSE i]
      /\ s = [obj_all |-> n, obj_free |-> n, head |-> 0, tail |-> n - 1, idx |-> s.idx]
  BY DEF NewSlab
<1>2. \A x \in 0..(n - 1) : s.idx[x] = IF x # n - 1 THEN x + 1 ELSE x
  BY <1>1
<1>3. s.idx \in [0..(n - 1) -> Int]
  BY <1>1
<1>4. s \in SlabRecord(n)
  BY <1>1, <1>3 DEF SlabRecord
<1> HIDE DEF s
<1>5. \A x \in 0..(n - 1) : s.idx[x] # -1
  BY <1>2
<1>6. Chain(s, n, q)
  <2>1. q \in [1..n -> 0..(n - 1)]
    OBVIOUS
  <2>2. \A i \in 1..n : q[i] = i - 1
    OBVIOUS
  <2>3. ASSUME NEW x \in 0..(n - 1) PROVE x + 1 \in 1..n /\ q[x + 1] = x
    BY <2>2
  <2> HIDE DEF q
  <2>4. \A i \in 1..(n - 1) : i \in 1..n /\ i + 1 \in 1..n
    OBVIOUS
  <2>5. \A i \in 1..(n - 1) : s.idx[q[i]] = q[i + 1]
    <3> SUFFICES ASSUME NEW i \in 1..(n - 1) PROVE s.idx[q[i]] = q[i + 1]
      OBVIOUS
    <3>1. q[i] = i - 1 /\ q[i + 1] = i
      BY <2>2, <2>4
    <3> QED
      BY <1>2, <3>1
  <2>6. \A x \in 0..(n - 1) : s.idx[x] = -1 <=> \A i \in 1..n : q[i] # x
    BY <1>5, <2>3
  <2>7. s.head = q[1] /\ s.tail = q[n] /\ s.idx[s.tail] = s.tail
    BY <1>1, <1>2, <2>2
  <2> QED
    BY <1>1, <2>1, <2>2, <2>5, <2>6, <2>7 DEF Chain
<1>7. InUse(s, n) = {}
  BY <1>5 DEF InUse
<1>8. s.obj_free = n - Cardinality(InUse(s, n))
  BY <1>1, <1>7, FS_EmptySet
<1>9. q \in [1..s.obj_free -> 0..(n - 1)]
  BY <1>1
<1> HIDE DEF q
<1> QED
  BY <1>1, <1>4, <1>5, <1>6, <1>8, <1>9 DEF SlabOK, s

(* What the list of a slab says of its fields.                             *)
LEMMA SlabFacts ==
    ASSUME NEW n \in Nat, NEW s, SlabOK(s, n)
    PROVE  /\ s.obj_all = n /\ s.obj_free \in 0..n /\ s.obj_free \in Nat
           /\ s.head \in Int /\ s.tail \in Int /\ s.idx \in [0..(n - 1) -> Int]
           /\ s = [obj_all |-> n, obj_free |-> s.obj_free, head |-> s.head, tail |-> s.tail, idx |-> s.idx]
           /\ s.obj_free = 0 => s.head = -1 /\ s.tail = -1
           /\ s.obj_free > 0 => /\ s.head \in 0..(n - 1) /\ s.idx[s.head] # -1
                               /\ s.tail \in 0..(n - 1) /\ s.idx[s.tail] = s.tail
<1>1. s \in SlabRecord(n)
  BY DEF SlabOK
<1>2. /\ s.obj_all = n /\ s.obj_free \in 0..n
      /\ s.head \in Int /\ s.tail \in Int /\ s.idx \in [0..(n - 1) -> Int]
      /\ s = [obj_all |-> n, obj_free |-> s.obj_free, head |-> s.head, tail |-> s.tail, idx |-> s.idx]
  BY <1>1 DEF SlabRecord
<1>3. PICK q \in [1..s.obj_free -> 0..(n - 1)] : Chain(s, n, q)
  BY DEF SlabOK
<1>4. s.obj_free > 0 => /\ s.head \in 0..(n - 1) /\ s.idx[s.head] # -1
                        /\ s.tail \in 0..(n - 1) /\ s.idx[s.tail] = s.tail
  <2> SUFFICES ASSUME s.obj_free > 0
               PROVE  /\ s.head \in 0..(n - 1) /\ s.idx[s.head] # -1
                      /\ s.tail \in 0..(n - 1) /\ s.idx[s.tail] = s.tail
    OBVIOUS
  <2>1. 1 \in 1..s.obj_free /\ s.obj_free \in 1..s.obj_free
    BY <1>2
  <2>2. s.head = q[1] /\ s.tail = q[s.obj_free] /\ s.idx[s.tail] = s.tail
    BY <1>3 DEF Chain
  <2>3. q[1] \in 0..(n - 1) /\ q[s.obj_free] \in 0..(n - 1)
    BY <2>1
  <2>4. s.idx[q[1]] # -1
    BY <1>3, <2>1, <2>3 DEF Chain
  <2> QED
    BY <2>2, <2>3, <2>4
<1> QED
  BY <1>2, <1>3, <1>4 DEF Chain

(* slab_alloc and slab_free, field by field.                               *)
LEMMA SlabAllocFields ==
    ASSUME NEW n, NEW s \in SlabRecord(n)
    PROVE  /\ SlabAlloc(s).obj_all = s.obj_all /\ SlabAlloc(s).obj_free = s.obj_free - 1
           /\ SlabAlloc(s).head = IF s.obj_free = 1 THEN -1 ELSE s.idx[s.head]
           /\ SlabAlloc(s).tail = IF s.obj_free = 1 THEN -1 ELSE s.tail
           /\ SlabAlloc(s).idx = [s.idx EXCEPT ![s.head] = -1]
           /\ SlabAlloc(s) = [obj_all |-> SlabAlloc(s).obj_all, obj_free |-> SlabAlloc(s).obj_free,
                 head |-> SlabAlloc(s).head, tail |-> SlabAlloc(s).tail, idx |-> SlabAlloc(s).idx]
<1> DEFINE u == IF s.obj_free = 1 THEN -1 ELSE s.idx[s.head]
           v == IF s.obj_free = 1 THEN -1 ELSE s.tail
           w == s.obj_free - 1
           y == [s.idx EXCEPT ![s.head] = -1]
           t == SlabAlloc(s)
<1>0. s = [obj_all |-> s.obj_all, obj_free |-> s.obj_free, head |-> s.head, tail |-> s.tail, idx |-> s.idx]
  BY DEF SlabRecord
<1>1. t = [s EXCEPT !.obj_free = w, !.idx = y, !.head = u, !.tail = v]
  BY <1>0 DEF SlabAlloc
<1> HIDE DEF u, v, w, y, t
<1>2. t = [obj_all |-> s.obj_all, obj_free |-> w, head |-> u, tail |-> v, idx |-> y]
  BY <1>0, <1>1
<1>3. t.obj_all = s.obj_all /\ t.obj_free = w /\ t.head = u /\ t.tail = v /\ t.idx = y
  BY <1>2
<1>4. t = [obj_all |-> t.obj_all, obj_free |-> t.obj_free, head |-> t.head, tail |-> t.tail, idx |-> t.idx]
  BY <1>2, <1>3
<1> QED
  BY <1>3, <1>4, Zenon DEF u, v, w, y, t

LEMMA SlabFreeFields ==
    ASSUME NEW n, NEW s \in SlabRecord(n), NEW i, NEW t, t = SlabFree(s, i)
    PROVE  /\ t.obj_all = s.obj_all /\ t.tail = i
           /\ s.obj_free = 0 => t.obj_free = 1 /\ t.head = i /\ t.idx = [s.idx EXCEPT ![i] = i]
           /\ s.obj_free # 0 => /\ t.obj_free = s.obj_free + 1 /\ t.head = s.head
                                /\ t.idx = [s.idx EXCEPT ![s.tail] = i, ![i] = i]
           /\ t = [obj_all |-> t.obj_all, obj_free |-> t.obj_free, head |-> t.head, tail |-> t.tail, idx |-> t.idx]
<1> DEFINE w == s.obj_free + 1
           y == [s.idx EXCEPT ![i] = i]
           z == [s.idx EXCEPT ![s.tail] = i, ![i] = i]
<1>0. s = [obj_all |-> s.obj_all, obj_free |-> s.obj_free, head |-> s.head, tail |-> s.tail, idx |-> s.idx]
  BY DEF SlabRecord
<1>1. CASE s.obj_free = 0
  <2>1. t = [s EXCEPT !.obj_free = 1, !.head = i, !.tail = i, !.idx = y]
    BY <1>0, <1>1 DEF SlabFree
  <2> HIDE DEF y
  <2>2. t = [obj_all |-> s.obj_all, obj_free |-> 1, head |-> i, tail |-> i, idx |-> y]
    BY <1>0, <2>1
  <2>3. t.obj_all = s.obj_all /\ t.obj_free = 1 /\ t.head = i /\ t.tail = i /\ t.idx = y
    BY <2>2
  <2>4. t = [obj_all |-> t.obj_all, obj_free |-> t.obj_free, head |-> t.head, tail |-> t.tail, idx |-> t.idx]
    BY <2>2, <2>3
  <2> QED
    BY <1>1, <2>3, <2>4, Zenon DEF y
<1>2. CASE s.obj_free # 0
  <2>1. t = [s EXCEPT !.obj_free = w, !.tail = i, !.idx = z]
    BY <1>0, <1>2 DEF SlabFree
  <2> HIDE DEF w, z
  <2>2. t = [obj_all |-> s.obj_all, obj_free |-> w, head |-> s.head, tail |-> i, idx |-> z]
    BY <1>0, <2>1
  <2>3. t.obj_all = s.obj_all /\ t.obj_free = w /\ t.head = s.head /\ t.tail = i /\ t.idx = z
    BY <2>2
  <2>4. t = [obj_all |-> t.obj_all, obj_free |-> t.obj_free, head |-> t.head, tail |-> t.tail, idx |-> t.idx]
    BY <2>2, <2>3
  <2> QED
    BY <1>2, <2>3, <2>4, Zenon DEF w, z
<1> QED
  BY <1>1, <1>2

(* slab_alloc takes the head off the list.                                 *)
LEMMA SlabAllocOK ==
    ASSUME NEW n \in Nat, NEW s, SlabOK(s, n), s.obj_free # 0
    PROVE  /\ SlabAllocAsserts(s)
           /\ SlabOK(SlabAlloc(s), n)
           /\ SlabAlloc(s).obj_free = s.obj_free - 1 /\ SlabAlloc(s).obj_all = n
           /\ \A x \in 0..(n - 1) : SlabAlloc(s).idx[x] = -1 <=> x = s.head \/ s.idx[x] = -1
<1> DEFINE t == SlabAlloc(s)
           f == s.obj_free
<1>0. /\ s.obj_all = n /\ f \in 0..n /\ f \in Nat /\ f > 0 /\ f - 1 \in Nat
      /\ s.head \in 0..(n - 1) /\ s.idx[s.head] # -1 /\ s.head # -1
      /\ s.tail \in 0..(n - 1) /\ s.idx[s.tail] = s.tail
      /\ s.idx \in [0..(n - 1) -> Int]
      /\ s = [obj_all |-> n, obj_free |-> f, head |-> s.head, tail |-> s.tail, idx |-> s.idx]
  BY SlabFacts
<1>1. /\ t.obj_all = n /\ t.obj_free = f - 1
      /\ t.idx = [s.idx EXCEPT ![s.head] = -1]
      /\ t.head = (IF f = 1 THEN -1 ELSE s.idx[s.head])
      /\ t.tail = (IF f = 1 THEN -1 ELSE s.tail)
      /\ t = [obj_all |-> n, obj_free |-> f - 1, head |-> t.head, tail |-> t.tail, idx |-> t.idx]
  <2>1. s \in SlabRecord(n)
    BY DEF SlabOK
  <2> QED
    BY <1>0, <2>1, SlabAllocFields, Zenon
<1>2. t.idx \in [0..(n - 1) -> Int]
  BY <1>0, <1>1
<1>3. t \in SlabRecord(n)
  <2>1. f - 1 \in 0..n /\ t.head \in Int /\ t.tail \in Int
    BY <1>0, <1>1
  <2> QED
    BY <1>1, <1>2, <2>1 DEF SlabRecord
<1>4. \A x \in 0..(n - 1) : t.idx[x] = IF x = s.head THEN -1 ELSE s.idx[x]
  BY <1>0, <1>1
<1> HIDE DEF t
<1>5. PICK q \in [1..f -> 0..(n - 1)] : Chain(s, n, q)
  BY DEF SlabOK
<1> DEFINE r == [i \in 1..(f - 1) |-> q[i + 1]]
<1>6. /\ \A i, j \in 1..f : q[i] = q[j] => i = j
      /\ \A i \in 1..(f - 1) : s.idx[q[i]] = q[i + 1]
      /\ \A x \in 0..(n - 1) : s.idx[x] = -1 <=> \A i \in 1..f : q[i] # x
      /\ s.head = q[1] /\ s.tail = q[f]
  BY <1>0, <1>5 DEF Chain
<1>7. \A i \in 1..(f - 1) : i \in 1..f /\ i + 1 \in 1..f /\ q[i + 1] \in 0..(n - 1) /\ r[i] = q[i + 1]
  BY <1>0
<1>8. r \in [1..(f - 1) -> 0..(n - 1)]
  BY <1>7
<1> HIDE DEF r
<1>9. Chain(t, n, r)
  <2>1. \A i, j \in 1..(f - 1) : r[i] = r[j] => i = j
    BY <1>0, <1>6, <1>7
  <2>2. ASSUME NEW i \in 1..(f - 1) PROVE r[i] # s.head
    <3>1. 1 \in 1..f /\ i + 1 \in 1..f /\ i + 1 # 1
      BY <1>0
    <3> QED
      BY <1>6, <1>7, <3>1
  <2>3. \A i \in 1..((f - 1) - 1) : t.idx[r[i]] = r[i + 1]
    <3> SUFFICES ASSUME NEW i \in 1..((f - 1) - 1) PROVE t.idx[r[i]] = r[i + 1]
      OBVIOUS
    <3>1. i \in 1..(f - 1) /\ i + 1 \in 1..(f - 1)
      BY <1>0
    <3>2. r[i] = q[i + 1] /\ r[i + 1] = q[(i + 1) + 1] /\ r[i] \in 0..(n - 1)
      BY <1>7, <3>1
    <3>3. s.idx[q[i + 1]] = q[(i + 1) + 1]
      BY <1>6, <3>1
    <3> QED
      BY <1>4, <2>2, <3>1, <3>2, <3>3
  <2>4. ASSUME NEW x \in 0..(n - 1)
        PROVE  t.idx[x] = -1 <=> \A i \in 1..(f - 1) : r[i] # x
    <3>1. CASE x = s.head
      BY <1>4, <2>2, <3>1
    <3>2. CASE x # s.head
      <4>1. (\A i \in 1..f : q[i] # x) <=> \A i \in 1..(f - 1) : r[i] # x
        <5>1. ASSUME NEW i \in 1..f, q[i] = x PROVE i - 1 \in 1..(f - 1) /\ r[i - 1] = x
          <6>1. i # 1
            BY <1>6, <3>2, <5>1
          <6>2. i - 1 \in 1..(f - 1) /\ (i - 1) + 1 = i
            BY <1>0, <6>1
          <6> QED
            BY <1>7, <5>1, <6>2
        <5> QED
          BY <1>7, <5>1
      <4> QED
        BY <1>4, <1>6, <3>2, <4>1
    <3> QED
      BY <3>1, <3>2
  <2>5. CASE f = 1
    <3>1. t.head = -1 /\ t.tail = -1 /\ t.obj_free = 0
      BY <1>1, <2>5
    <3> QED
      BY <1>1, <1>8, <2>1, <2>3, <2>4, <3>1 DEF Chain
  <2>6. CASE f # 1
    <3>1. 1 \in 1..(f - 1) /\ f - 1 \in 1..(f - 1) /\ (f - 1) + 1 = f
      BY <1>0, <2>6
    <3>2. t.head = r[1]
      BY <1>1, <1>6, <1>7, <2>6, <3>1
    <3>3. t.tail = r[f - 1]
      BY <1>1, <1>6, <1>7, <2>6, <3>1
    <3>4. t.tail = s.tail /\ t.tail # s.head
      BY <1>1, <2>2, <2>6, <3>1, <3>3
    <3>5. t.idx[t.tail] = t.tail
      BY <1>0, <1>4, <3>4
    <3>6. t.obj_free > 0 /\ t.obj_free # 0
      BY <1>1, <3>1
    <3> QED
      BY <1>1, <1>8, <2>1, <2>3, <2>4, <3>2, <3>3, <3>5, <3>6 DEF Chain
  <2> QED
    BY <2>5, <2>6
<1>10. t.obj_free = n - Cardinality(InUse(t, n))
  <2>1. InUse(t, n) = InUse(s, n) \cup {s.head} /\ s.head \notin InUse(s, n)
    BY <1>0, <1>4 DEF InUse
  <2>2. Cardinality(InUse(t, n)) = Cardinality(InUse(s, n)) + 1 /\ Cardinality(InUse(s, n)) \in Nat
    <3>1. InUse(s, n) \in SUBSET (0..(n - 1)) /\ s.head \in 0..(n - 1)
      BY <1>0 DEF InUse
    <3> DEFINE S == InUse(s, n)
               h == s.head
    <3> HIDE DEF S, h
    <3>2. S \in SUBSET (0..(n - 1)) /\ h \in 0..(n - 1) /\ h \notin S
      BY <2>1, <3>1 DEF S, h
    <3>3. Cardinality(S) \in Nat /\ Cardinality(S \cup {h}) = Cardinality(S) + 1
      <4>1. IsFiniteSet(S)
        <5>1. IsFiniteSet(0..(n - 1))
          BY FS_Interval
        <5> QED
          BY <3>2, <5>1, FS_Subset
      <4> QED
        BY <3>2, <4>1, FS_CardinalityType, FS_AddElement
    <3> QED
      BY <2>1, <3>3 DEF S, h
  <2>3. f = n - Cardinality(InUse(s, n))
    BY DEF SlabOK
  <2> QED
    BY <1>1, <2>2, <2>3
<1>11. SlabOK(t, n)
  BY <1>1, <1>3, <1>8, <1>9, <1>10 DEF SlabOK
<1>12. SlabAllocAsserts(s)
  BY <1>0 DEF SlabAllocAsserts
<1>13. \A x \in 0..(n - 1) : t.idx[x] = -1 <=> x = s.head \/ s.idx[x] = -1
  BY <1>4
<1> QED
  BY <1>1, <1>11, <1>12, <1>13 DEF t

(* slab_free puts an object in use at the tail of the list.                *)
LEMMA SlabFreeOK ==
    ASSUME NEW n \in Nat, NEW s, SlabOK(s, n), NEW z \in 0..(n - 1), s.idx[z] = -1
    PROVE  /\ SlabFreeAsserts(s, z)
           /\ SlabOK(SlabFree(s, z), n)
           /\ SlabFree(s, z).obj_free = s.obj_free + 1 /\ SlabFree(s, z).obj_all = n
           /\ s.obj_free + 1 <= n
           /\ \A x \in 0..(n - 1) : SlabFree(s, z).idx[x] = -1 <=> x # z /\ s.idx[x] = -1
<1> DEFINE t == SlabFree(s, z)
           f == s.obj_free
<1>0. /\ s.obj_all = n /\ f \in 0..n /\ f \in Nat
      /\ f = 0 => s.head = -1 /\ s.tail = -1
      /\ f > 0 => s.head \in 0..(n - 1) /\ s.tail \in 0..(n - 1) /\ s.idx[s.tail] = s.tail
      /\ s.head \in Int /\ s.tail \in Int /\ s.idx \in [0..(n - 1) -> Int]
      /\ s = [obj_all |-> n, obj_free |-> f, head |-> s.head, tail |-> s.tail, idx |-> s.idx]
  BY SlabFacts
<1>1. f > 0 => s.tail # z /\ s.tail # -1 /\ s.head # -1
  BY <1>0
<1>2. /\ f = n - Cardinality(InUse(s, n)) /\ z \in InUse(s, n)
      /\ Cardinality(InUse(s, n)) \in Nat /\ Cardinality(InUse(s, n)) # 0
      /\ Cardinality(InUse(s, n) \ {z}) = Cardinality(InUse(s, n)) - 1
  <2>1. f = n - Cardinality(InUse(s, n)) /\ z \in InUse(s, n) /\ InUse(s, n) \in SUBSET (0..(n - 1))
    BY DEF SlabOK, InUse
  <2> QED
    BY <2>1, InUseCardinality
<1>3. f + 1 <= n /\ f + 1 \in 0..n
  BY <1>0, <1>2
<1>4. /\ t.obj_all = n /\ t.obj_free = f + 1 /\ t.tail = z
      /\ t.head = (IF f = 0 THEN z ELSE s.head)
      /\ \A x \in 0..(n - 1) :
           t.idx[x] = IF x = z THEN z ELSE IF f # 0 /\ x = s.tail THEN z ELSE s.idx[x]
      /\ t.idx \in [0..(n - 1) -> Int]
      /\ t = [obj_all |-> n, obj_free |-> f + 1, head |-> t.head, tail |-> z, idx |-> t.idx]
  <2>1. s \in SlabRecord(n)
    BY DEF SlabOK
  <2>2. z \in Int /\ s.idx \in [0..(n - 1) -> Int]
    BY <1>0
  <2>3. /\ t.obj_all = n /\ t.tail = z
        /\ f = 0 => t.obj_free = 1 /\ t.head = z /\ t.idx = [s.idx EXCEPT ![z] = z]
        /\ f # 0 => t.obj_free = f + 1 /\ t.head = s.head /\ t.idx = [s.idx EXCEPT ![s.tail] = z, ![z] = z]
        /\ t = [obj_all |-> t.obj_all, obj_free |-> t.obj_free, head |-> t.head, tail |-> t.tail, idx |-> t.idx]
    <3>1. t = SlabFree(s, z)
      OBVIOUS
    <3> HIDE DEF t
    <3> QED
      BY <1>0, <2>1, <3>1, SlabFreeFields
  <2> HIDE DEF t
  <2>4. CASE f = 0
    <3>1. t.obj_free = f + 1 /\ t.head = z /\ t.idx = [s.idx EXCEPT ![z] = z]
      BY <2>3, <2>4
    <3>2. \A x \in 0..(n - 1) : t.idx[x] = IF x = z THEN z ELSE s.idx[x]
      BY <2>2, <3>1
    <3>3. t.idx \in [0..(n - 1) -> Int]
      BY <2>2, <3>1
    <3> QED
      BY <2>3, <2>4, <3>1, <3>2, <3>3
  <2>5. CASE f # 0
    <3>1. t.obj_free = f + 1 /\ t.head = s.head /\ t.idx = [s.idx EXCEPT ![s.tail] = z, ![z] = z]
      BY <2>3, <2>5
    <3>2. s.tail \in 0..(n - 1)
      BY <1>0, <2>5
    <3>3. \A x \in 0..(n - 1) : t.idx[x] = IF x = z THEN z ELSE IF x = s.tail THEN z ELSE s.idx[x]
      BY <2>2, <3>1, <3>2
    <3>4. t.idx \in [0..(n - 1) -> Int]
      BY <2>2, <3>1
    <3> QED
      BY <2>3, <2>5, <3>1, <3>3, <3>4
  <2> QED
    BY <2>4, <2>5
<1>5. t \in SlabRecord(n)
  <2>1. t.head \in Int /\ z \in Int
    BY <1>0, <1>4
  <2> QED
    BY <1>3, <1>4, <2>1 DEF SlabRecord
<1> HIDE DEF t
<1>6. PICK q \in [1..f -> 0..(n - 1)] : Chain(s, n, q)
  BY DEF SlabOK
<1> DEFINE r == [i \in 1..(f + 1) |-> IF i = f + 1 THEN z ELSE q[i]]
<1>7. /\ \A i, j \in 1..f : q[i] = q[j] => i = j
      /\ \A i \in 1..(f - 1) : s.idx[q[i]] = q[i + 1]
      /\ \A x \in 0..(n - 1) : s.idx[x] = -1 <=> \A i \in 1..f : q[i] # x
      /\ f > 0 => s.head = q[1] /\ s.tail = q[f]
  BY <1>0, <1>6 DEF Chain
<1>8. /\ f + 1 \in 1..(f + 1) /\ r[f + 1] = z
      /\ \A i \in 1..f : i \in 1..(f + 1) /\ r[i] = q[i] /\ q[i] \in 0..(n - 1) /\ q[i] # z
      /\ \A i \in 1..(f + 1) : i = f + 1 \/ i \in 1..f
  <2>1. \A i \in 1..f : i \in 1..(f + 1) /\ i # f + 1
    BY <1>0
  <2>2. \A i \in 1..f : r[i] = q[i] /\ q[i] \in 0..(n - 1)
    BY <2>1
  <2>3. \A i \in 1..f : q[i] # z
    BY <1>7
  <2>4. f + 1 \in 1..(f + 1) /\ r[f + 1] = z
    BY <1>0
  <2>5. \A i \in 1..(f + 1) : i = f + 1 \/ i \in 1..f
    BY <1>0
  <2> HIDE DEF r
  <2> QED
    BY <2>1, <2>2, <2>3, <2>4, <2>5
<1>9. r \in [1..(f + 1) -> 0..(n - 1)]
  BY <1>8
<1> HIDE DEF r
<1>10. Chain(t, n, r)
  <2>1. \A i, j \in 1..(f + 1) : r[i] = r[j] => i = j
    <3> SUFFICES ASSUME NEW i \in 1..(f + 1), NEW j \in 1..(f + 1), r[i] = r[j] PROVE i = j
      OBVIOUS
    <3>1. CASE i \in 1..f /\ j \in 1..f
      <4>1. q[i] = q[j]
        BY <1>8, <3>1
      <4> QED
        BY <1>7, <3>1, <4>1
    <3>2. CASE i = f + 1 /\ j \in 1..f
      BY <1>8, <3>2
    <3>3. CASE i \in 1..f /\ j = f + 1
      BY <1>8, <3>3
    <3> QED
      BY <1>8, <3>1, <3>2, <3>3
  <2>2. \A i \in 1..((f + 1) - 1) : t.idx[r[i]] = r[i + 1]
    <3> SUFFICES ASSUME NEW i \in 1..((f + 1) - 1) PROVE t.idx[r[i]] = r[i + 1]
      OBVIOUS
    <3>1. i \in 1..f /\ f > 0 /\ f # 0
      BY <1>0
    <3>2. CASE i = f
      BY <1>4, <1>7, <1>8, <3>1, <3>2
    <3>3. CASE i # f
      <4>1. i \in 1..(f - 1) /\ i + 1 \in 1..f /\ f \in 1..f
        BY <1>0, <3>1, <3>3
      <4>2. q[i] # s.tail
        BY <1>7, <3>1, <3>3, <4>1
      <4>3. t.idx[r[i]] = s.idx[q[i]]
        BY <1>4, <1>8, <3>1, <4>2
      <4> QED
        BY <1>7, <1>8, <4>1, <4>3
    <3> QED
      BY <3>2, <3>3
  <2>3. ASSUME NEW x \in 0..(n - 1)
        PROVE  t.idx[x] = -1 <=> \A i \in 1..(f + 1) : r[i] # x
    <3>0. (\A i \in 1..(f + 1) : r[i] # x) <=> (x # z /\ \A i \in 1..f : q[i] # x)
      BY <1>8
    <3>1. CASE x = z
      BY <1>4, <3>0, <3>1
    <3>2. CASE x # z /\ f # 0 /\ x = s.tail
      <4>1. s.idx[x] # -1
        BY <1>0, <3>2
      <4> QED
        BY <1>4, <1>7, <3>0, <3>2, <4>1
    <3>3. CASE x # z /\ ~(f # 0 /\ x = s.tail)
      <4>1. t.idx[x] = s.idx[x]
        BY <1>4, <3>3
      <4> QED
        BY <1>7, <3>0, <3>3, <4>1
    <3> QED
      BY <3>1, <3>2, <3>3
  <2>4. t.head = r[1] /\ t.tail = r[f + 1] /\ t.idx[t.tail] = t.tail
    <3>1. CASE f = 0
      BY <1>4, <1>8, <3>1
    <3>2. CASE f # 0
      <4>1. 1 \in 1..f /\ f > 0
        BY <1>0, <3>2
      <4> QED
        BY <1>4, <1>7, <1>8, <3>2, <4>1
    <3> QED
      BY <3>1, <3>2
  <2>5. t.obj_free # 0
    BY <1>0, <1>4
  <2> QED
    BY <1>4, <1>9, <2>1, <2>2, <2>3, <2>4, <2>5 DEF Chain
<1>11. \A x \in 0..(n - 1) : t.idx[x] = -1 <=> x # z /\ s.idx[x] = -1
  <2> SUFFICES ASSUME NEW x \in 0..(n - 1) PROVE t.idx[x] = -1 <=> x # z /\ s.idx[x] = -1
    OBVIOUS
  <2>1. f # 0 /\ x = s.tail => s.idx[x] # -1
    BY <1>0
  <2> QED
    BY <1>4, <2>1
<1>12. t.obj_free = n - Cardinality(InUse(t, n))
  <2>1. InUse(t, n) = InUse(s, n) \ {z}
    BY <1>11 DEF InUse
  <2> QED
    BY <1>0, <1>2, <1>4, <2>1
<1>13. SlabOK(t, n)
  BY <1>4, <1>5, <1>9, <1>10, <1>12 DEF SlabOK
<1>14. SlabFreeAsserts(s, z)
  BY <1>0, <1>1 DEF SlabFreeAsserts
<1> QED
  BY <1>3, <1>4, <1>11, <1>13, <1>14 DEF t

-----------------------------------------------------------------------------
(* The lists of a cache.                                                   *)

(* list_del takes one block off a list and keeps the others in order.       *)
LEMMA ListDelFacts ==
    ASSUME NEW s \in Seq(BLOCKS), NoRepeats(s), NEW p \in Listed(s)
    PROVE  /\ ListDel(s, p) \in Seq(BLOCKS)
           /\ Len(ListDel(s, p)) = Len(s) - 1
           /\ Listed(ListDel(s, p)) = Listed(s) \ {p}
           /\ NoRepeats(ListDel(s, p))
<1> DEFINE at == CHOOSE i \in 1..Len(s) : s[i] = p
           t == [i \in 1..(Len(s) - 1) |-> IF i < at THEN s[i] ELSE s[i + 1]]
<1>1. at \in 1..Len(s) /\ s[at] = p
  BY DEF Listed
<1>2. ListDel(s, p) = t
  BY DEF ListDel
<1> HIDE DEF at
<1>3. Len(s) - 1 \in Nat
  BY <1>1
<1>4. t \in Seq(BLOCKS) /\ Len(t) = Len(s) - 1
  BY <1>1, <1>3
<1>5. \A i \in 1..(Len(s) - 1) : t[i] = IF i < at THEN s[i] ELSE s[i + 1]
  OBVIOUS
<1> HIDE DEF t
<1>6. NoRepeats(t)
  <2> SUFFICES ASSUME NEW i \in 1..Len(t), NEW j \in 1..Len(t), t[i] = t[j] PROVE i = j
    BY DEF NoRepeats
  <2>1. /\ i \in 1..Len(s) /\ i + 1 \in 1..Len(s)
        /\ j \in 1..Len(s) /\ j + 1 \in 1..Len(s)
    BY <1>3, <1>4
  <2>2. \A h, k \in 1..Len(s) : s[h] = s[k] => h = k
    BY DEF NoRepeats
  <2>3. t[i] = (IF i < at THEN s[i] ELSE s[i + 1]) /\ t[j] = (IF j < at THEN s[j] ELSE s[j + 1])
    BY <1>4, <1>5
  <2>4. CASE i < at /\ j < at
    BY <2>1, <2>2, <2>3, <2>4
  <2>5. CASE ~(i < at) /\ ~(j < at)
    <3>1. i + 1 = j + 1
      BY <2>1, <2>2, <2>3, <2>5
    <3> QED
      BY <3>1
  <2>6. CASE i < at /\ ~(j < at)
    <3>1. i = j + 1
      BY <2>1, <2>2, <2>3, <2>6
    <3> QED
      BY <1>1, <3>1, <2>6
  <2>7. CASE ~(i < at) /\ j < at
    <3>1. i + 1 = j
      BY <2>1, <2>2, <2>3, <2>7
    <3> QED
      BY <1>1, <3>1, <2>7
  <2> QED
    BY <2>4, <2>5, <2>6, <2>7
<1>7. ASSUME NEW i \in 1..(Len(s) - 1) PROVE t[i] \in Listed(s) \ {p}
  <2>1. i \in 1..Len(s) /\ i + 1 \in 1..Len(s)
    BY <1>3
  <2>2. \A k \in 1..Len(s) : s[k] \in Listed(s) /\ (s[k] = p => k = at)
    BY <1>1 DEF NoRepeats, Listed
  <2>3. CASE i < at
    BY <1>1, <1>5, <2>1, <2>2, <2>3
  <2>4. CASE ~(i < at)
    <3>1. i + 1 # at
      BY <1>1, <2>1, <2>4
    <3> QED
      BY <1>5, <2>1, <2>2, <2>4, <3>1
  <2> QED
    BY <2>3, <2>4
<1>8. ASSUME NEW x \in Listed(s) \ {p} PROVE x \in Listed(t)
  <2>1. PICK i \in 1..Len(s) : s[i] = x
    BY DEF Listed
  <2>2. i # at
    BY <1>1, <2>1
  <2>3. CASE i < at
    BY <1>1, <1>4, <1>5, <2>1, <2>3 DEF Listed
  <2>4. CASE i > at
    <3>1. i - 1 \in 1..(Len(s) - 1) /\ t[i - 1] = x
      BY <1>1, <1>5, <2>1, <2>4
    <3> QED
      BY <1>4, <3>1 DEF Listed
  <2> QED
    BY <1>1, <2>2, <2>3, <2>4
<1>9. Listed(t) = Listed(s) \ {p}
  BY <1>4, <1>7, <1>8 DEF Listed
<1> QED
  BY <1>2, <1>4, <1>6, <1>9

(* list_add_tail of a block that is not on the list.                        *)
LEMMA AppendFacts ==
    ASSUME NEW s \in Seq(BLOCKS), NoRepeats(s), NEW p \in BLOCKS, p \notin Listed(s)
    PROVE  /\ Append(s, p) \in Seq(BLOCKS)
           /\ Len(Append(s, p)) = Len(s) + 1
           /\ Listed(Append(s, p)) = Listed(s) \cup {p}
           /\ NoRepeats(Append(s, p))
           /\ s # <<>> => Append(s, p) # <<>> /\ Head(Append(s, p)) = Head(s)
<1>1. /\ Append(s, p) \in Seq(BLOCKS)
      /\ Len(Append(s, p)) = Len(s) + 1
      /\ \A i \in 1..Len(s) : Append(s, p)[i] = s[i]
      /\ Append(s, p)[Len(s) + 1] = p
  OBVIOUS
<1>2. Listed(Append(s, p)) = Listed(s) \cup {p}
  <2>1. \A x \in Listed(s) \cup {p} : x \in Listed(Append(s, p))
    BY <1>1 DEF Listed
  <2>2. \A x \in Listed(Append(s, p)) : x \in Listed(s) \cup {p}
    BY <1>1 DEF Listed
  <2> QED
    BY <2>1, <2>2
<1>3. NoRepeats(Append(s, p))
  BY <1>1 DEF NoRepeats, Listed
<1>4. s # <<>> => Append(s, p) # <<>> /\ Head(Append(s, p)) = Head(s)
  OBVIOUS
<1> QED
  BY <1>1, <1>2, <1>3, <1>4

(* A list keeps as many blocks as its length says.                         *)
LEMMA ListDelOK ==
    ASSUME NEW s, ListOK(s), NEW p \in Listed(s)
    PROVE  /\ ListOK(ListDel(s, p))
           /\ Len(ListDel(s, p)) = Len(s) - 1
           /\ Listed(ListDel(s, p)) = Listed(s) \ {p}
<1>1. s \in Seq(BLOCKS) /\ NoRepeats(s) /\ IsFiniteSet(Listed(s)) /\ Cardinality(Listed(s)) = Len(s)
  BY DEF ListOK
<1>2. /\ ListDel(s, p) \in Seq(BLOCKS)
      /\ Len(ListDel(s, p)) = Len(s) - 1
      /\ Listed(ListDel(s, p)) = Listed(s) \ {p}
      /\ NoRepeats(ListDel(s, p))
  BY <1>1, ListDelFacts
<1>3. IsFiniteSet(Listed(s) \ {p}) /\ Cardinality(Listed(s) \ {p}) = Cardinality(Listed(s)) - 1
  BY <1>1, FS_RemoveElement
<1> QED
  BY <1>1, <1>2, <1>3 DEF ListOK

LEMMA AppendOK ==
    ASSUME NEW s, ListOK(s), NEW p \in BLOCKS, p \notin Listed(s)
    PROVE  /\ ListOK(Append(s, p))
           /\ Len(Append(s, p)) = Len(s) + 1
           /\ Listed(Append(s, p)) = Listed(s) \cup {p}
           /\ Append(s, p) # <<>>
<1>1. s \in Seq(BLOCKS) /\ NoRepeats(s) /\ IsFiniteSet(Listed(s)) /\ Cardinality(Listed(s)) = Len(s)
  BY DEF ListOK
<1>2. /\ Append(s, p) \in Seq(BLOCKS)
      /\ Len(Append(s, p)) = Len(s) + 1
      /\ Listed(Append(s, p)) = Listed(s) \cup {p}
      /\ NoRepeats(Append(s, p))
  BY <1>1, AppendFacts
<1>3. IsFiniteSet(Listed(s) \cup {p}) /\ Cardinality(Listed(s) \cup {p}) = Cardinality(Listed(s)) + 1
  BY <1>1, FS_AddElement
<1>4. Append(s, p) # <<>>
  <2>1. Len(Append(s, p)) # 0 /\ Len(<<>>) = 0
    BY <1>1, <1>2
  <2> QED
    BY <2>1
<1> QED
  BY <1>1, <1>2, <1>3, <1>4 DEF ListOK

LEMMA EmptyListOK == ListOK(<<>>) /\ Listed(<<>>) = {} /\ Len(<<>>) = 0
<1>1. <<>> \in Seq(BLOCKS) /\ Len(<<>>) = 0 /\ NoRepeats(<<>>)
  BY DEF NoRepeats
<1>2. Listed(<<>>) = {}
  BY <1>1 DEF Listed
<1> QED
  BY <1>1, <1>2, FS_EmptySet DEF ListOK

LEMMA ListFacts ==
    ASSUME NEW s, ListOK(s)
    PROVE  /\ Listed(s) \subseteq BLOCKS /\ Len(s) \in Nat
           /\ s # <<>> => Head(s) \in Listed(s)
           /\ Listed(s) = {} <=> s = <<>>
<1>1. s \in Seq(BLOCKS)
  BY DEF ListOK
<1>2. Len(s) \in Nat /\ \A i \in 1..Len(s) : s[i] \in BLOCKS
  BY <1>1
<1>3. Listed(s) \subseteq BLOCKS
  BY <1>2 DEF Listed
<1>4. s # <<>> => 1 \in 1..Len(s) /\ Head(s) = s[1]
  BY <1>1
<1>5. s # <<>> => Head(s) \in Listed(s)
  BY <1>4 DEF Listed
<1>6. s = <<>> => Listed(s) = {}
  BY EmptyListOK
<1> QED
  BY <1>2, <1>3, <1>5, <1>6

(* The blocks of a cache are those of its three lists.                     *)
LEMMA SlabsUnion ==
    ASSUME NEW k \in CACHES
    PROVE  Slabs(k) = Listed(list[k]["free"]) \cup Listed(list[k]["full"]) \cup Listed(list[k]["partial"])
BY DEF Slabs, LISTS

(* On which list a slab can be, from the objects it has in use.            *)
LEMMA UsedSlab ==
    ASSUME IInv, NEW k \in CACHES, NEW b \in Slabs(k)
    PROVE  /\ slab[b].obj_all = OBJ_ALL[k] /\ slab[b].obj_free \in 0..OBJ_ALL[k]
           /\ b \in BLOCKS /\ OBJ_ALL[k] > 0 /\ OBJ_ALL[k] \in Nat
           /\ slab[b].obj_free = OBJ_ALL[k] <=> \A x \in Objects(k) : <<k, b, x>> \notin live
           /\ slab[b].obj_free = 0 <=> \A x \in Objects(k) : <<k, b, x>> \in live
<1> DEFINE n == OBJ_ALL[k]
           U == InUse(slab[b], n)
<1>1. n \in Nat
  BY SlabAssumption
<1>2. /\ SlabOK(slab[b], n) /\ n > 0
      /\ \A x \in Objects(k) : <<k, b, x>> \in live <=> slab[b].idx[x] = -1
  BY DEF IInv, CacheInv, ObjectsInv
<1>3. slab[b].obj_all = n /\ slab[b].obj_free \in 0..n
  BY <1>1, <1>2, SlabFacts
<1>4. slab[b].obj_free = n - Cardinality(U)
  BY <1>2 DEF SlabOK
<1>5. U \in SUBSET (0..(n - 1))
  BY DEF InUse
<1>6. IsFiniteSet(0..(n - 1)) /\ Cardinality(0..(n - 1)) = n
  <2>1. 0 \in Int /\ n - 1 \in Int /\ ~(0 > n - 1) /\ (n - 1) - 0 + 1 = n
    BY <1>1, <1>2
  <2> HIDE DEF n
  <2> QED
    BY <2>1, FS_Interval
<1>7. IsFiniteSet(U) /\ (Cardinality(U) = n => U = 0..(n - 1))
  BY <1>5, <1>6, FS_Subset
<1>8. Cardinality(U) \in Nat /\ (Cardinality(U) = 0 <=> U = {})
  BY <1>7, FS_CardinalityType, FS_EmptySet
<1>9. slab[b].obj_free = n <=> U = {}
  BY <1>1, <1>4, <1>8
<1>10. slab[b].obj_free = 0 <=> U = 0..(n - 1)
  BY <1>1, <1>4, <1>6, <1>7, <1>8
<1>11. U = {} <=> \A x \in Objects(k) : <<k, b, x>> \notin live
  BY <1>2 DEF InUse, Objects
<1>12. U = 0..(n - 1) <=> \A x \in Objects(k) : <<k, b, x>> \in live
  BY <1>2 DEF InUse, Objects
<1>13. b \in BLOCKS
  <2>1. PICK l \in LISTS : b \in Listed(list[k][l])
    BY DEF Slabs
  <2>2. ListOK(list[k][l])
    BY DEF IInv, CacheInv, ListInv
  <2> QED
    BY <2>1, <2>2, ListFacts
<1> QED
  BY <1>1, <1>2, <1>3, <1>9, <1>10, <1>11, <1>12, <1>13

-----------------------------------------------------------------------------
(* Steps.                                                                  *)

(* A step of one cache leaves alone the slabs of another.                  *)
LEMMA OtherCache ==
    ASSUME NEW m \in CACHES, CacheInv(m),
           state'[m] = state[m], obj_num'[m] = obj_num[m], pg_orhas'[m] = pg_orhas[m],
           list'[m] = list[m],
           \A b \in Slabs(m) : slab'[b] = slab[b],
           \A b \in Slabs(m) : \A x \in Objects(m) : <<m, b, x>> \in live' <=> <<m, b, x>> \in live
    PROVE  CacheInv(m)' /\ Slabs(m)' = Slabs(m)
<1>1. Slabs(m)' = Slabs(m)
  BY DEF Slabs
<1>2. FreeObjects(m)' = FreeObjects(m)
  <2>1. \A o \in Slabs(m) \X (0..(OBJ_ALL[m] - 1)) : <<m, o[1], o[2]>> \in live' <=> <<m, o[1], o[2]>> \in live
    BY DEF Objects
  <2> QED
    BY <1>1, <2>1 DEF FreeObjects
<1>3. ObjectsInv(m)'
  BY <1>1 DEF CacheInv, ObjectsInv, Objects
<1>4. ListInv(m)'
  <2>1. \A l \in LISTS : \A b \in Listed(list[m][l]) : b \in Slabs(m)
    BY DEF Slabs
  <2>2. \A l \in LISTS : \A b \in Listed(list[m][l]) : Fits(slab[b], l)'
    BY <2>1 DEF CacheInv, ListInv, Fits
  <2>3. \A l \in LISTS : \A b \in Listed(list'[m][l]) : Fits(slab'[b], l)
    BY <2>2 DEF Fits
  <2>4. \A l \in LISTS : ListOK(list'[m][l])
    BY DEF CacheInv, ListInv
  <2>5. \A l, h \in LISTS : l # h => Listed(list'[m][l]) \cap Listed(list'[m][h]) = {}
    BY DEF CacheInv, ListInv
  <2> QED
    BY <2>3, <2>4, <2>5 DEF ListInv, Listed, ListOK, NoRepeats, Fits
<1>5. CountInv(m)'
  BY <1>1, <1>2 DEF CacheInv, CountInv
<1> QED
  BY <1>1, <1>3, <1>4, <1>5 DEF CacheInv

(* A block that changes lists stays in its cache, which has as many blocks *)
(* as before.                                                              *)
LEMMA MoveOK ==
    ASSUME IInv, NEW k \in CACHES, NEW from \in LISTS, NEW to \in LISTS,
           NEW b \in Listed(list[k][from]), Move(k, b, from, to)
    PROVE  /\ list' \in [CACHES -> [LISTS -> Seq(BLOCKS)]]
           /\ \A m \in CACHES : m # k => list'[m] = list[m]
           /\ \A l \in LISTS : ListOK(list'[k][l])
           /\ \A l, m \in LISTS : l # m => Listed(list'[k][l]) \cap Listed(list'[k][m]) = {}
           /\ Listed(list'[k][to]) = Listed(list[k][to]) \cup {b}
           /\ \A l \in LISTS : l # to => Listed(list'[k][l]) = Listed(list[k][l]) \ {b}
           /\ Slabs(k)' = Slabs(k)
           /\ Len(list'[k]["free"]) + Len(list'[k]["full"]) + Len(list'[k]["partial"])
                = Len(list[k]["free"]) + Len(list[k]["full"]) + Len(list[k]["partial"])
<1> DEFINE A(l) == list[k][l]
           B(l) == list'[k][l]
<1>1. /\ list \in [CACHES -> [LISTS -> Seq(BLOCKS)]]
      /\ \A l \in LISTS : ListOK(A(l))
      /\ \A l, m \in LISTS : l # m => Listed(A(l)) \cap Listed(A(m)) = {}
  BY DEF IInv, TypeOK, CacheInv, ListInv
<1>2. \A l \in LISTS : Len(A(l)) \in Nat
  BY <1>1, ListFacts
<1>3. b \in BLOCKS
  BY <1>1, ListFacts
<1>4. \A l \in LISTS : l # from => b \notin Listed(A(l))
  BY <1>1
<1>5. CASE from = to
  <2>1. list' = list
    BY <1>5 DEF Move
  <2>2. \A l \in LISTS : B(l) = A(l)
    BY <2>1
  <2>3. Slabs(k)' = Slabs(k)
    BY <2>1 DEF Slabs
  <2>4. Listed(B(to)) = Listed(A(to)) \cup {b}
    BY <1>5, <2>2
  <2>5. \A l \in LISTS : l # to => Listed(B(l)) = Listed(A(l)) \ {b}
    BY <1>4, <1>5, <2>2
  <2>6. \A l, m \in LISTS : l # m => Listed(B(l)) \cap Listed(B(m)) = {}
    BY <1>1, <2>2
  <2> QED
    BY <1>1, <2>1, <2>2, <2>3, <2>4, <2>5, <2>6
<1>6. CASE from # to
  <2>1. list' = [list EXCEPT ![k][from] = ListDel(@, b), ![k][to] = Append(@, b)]
    BY <1>6 DEF Move
  <2>2. /\ ListOK(ListDel(A(from), b)) /\ Len(ListDel(A(from), b)) = Len(A(from)) - 1
        /\ Listed(ListDel(A(from), b)) = Listed(A(from)) \ {b}
    BY <1>1, ListDelOK
  <2>3. /\ ListOK(Append(A(to), b)) /\ Len(Append(A(to), b)) = Len(A(to)) + 1
        /\ Listed(Append(A(to), b)) = Listed(A(to)) \cup {b}
    BY <1>1, <1>3, <1>4, <1>6, AppendOK
  <2>4. /\ B(from) = ListDel(A(from), b) /\ B(to) = Append(A(to), b)
        /\ \A l \in LISTS : l # from /\ l # to => B(l) = A(l)
        /\ \A m \in CACHES : m # k => list'[m] = list[m]
    BY <1>1, <1>6, <2>1
  <2>5. ListDel(A(from), b) \in Seq(BLOCKS) /\ Append(A(to), b) \in Seq(BLOCKS)
    BY <2>2, <2>3 DEF ListOK
  <2>6. list' \in [CACHES -> [LISTS -> Seq(BLOCKS)]]
    BY <1>1, <2>1, <2>5
  <2>7. \A l \in LISTS : ListOK(B(l))
    BY <1>1, <2>2, <2>3, <2>4
  <2>8. Listed(B(to)) = Listed(A(to)) \cup {b} /\ \A l \in LISTS : l # to => Listed(B(l)) = Listed(A(l)) \ {b}
    BY <1>4, <2>2, <2>3, <2>4
  <2>9. \A l, m \in LISTS : l # m => Listed(B(l)) \cap Listed(B(m)) = {}
    BY <1>1, <2>8
  <2>10. Slabs(k)' = Slabs(k)
    <3>1. \A l \in LISTS : Listed(B(l)) \subseteq Slabs(k)
      BY <2>8 DEF Slabs
    <3>2. \A l \in LISTS : Listed(A(l)) \subseteq Listed(B(l)) \cup Listed(B(to))
      BY <2>8
    <3> HIDE DEF A
    <3>3. Slabs(k)' = UNION {Listed(B(l)) : l \in LISTS} /\ Slabs(k) = UNION {Listed(A(l)) : l \in LISTS}
      BY DEF Slabs, Listed, A
    <3> HIDE DEF B
    <3> QED
      BY <3>1, <3>2, <3>3
  <2>11. Len(B("free")) + Len(B("full")) + Len(B("partial"))
           = Len(A("free")) + Len(A("full")) + Len(A("partial"))
    <3>1. /\ Len(B(from)) = Len(A(from)) - 1 /\ Len(B(to)) = Len(A(to)) + 1
          /\ \A l \in LISTS : l # from /\ l # to => Len(B(l)) = Len(A(l))
      BY <2>2, <2>3, <2>4
    <3> HIDE DEF A, B
    <3> QED
      BY <1>2, <1>6, <3>1 DEF LISTS
  <2> QED
    BY <2>4, <2>6, <2>7, <2>8, <2>9, <2>10, <2>11
<1> QED
  BY <1>5, <1>6

(* kmem_obj_alloc and kmem_obj_free change one object of one slab, and put *)
(* the slab on the list that fits what it has left.                        *)
ObjectChange(k, from, to, b, s, x) ==
    /\ b \in Listed(list[k][from]) /\ Move(k, b, from, to)
    /\ SlabOK(s, OBJ_ALL[k]) /\ Fits(s, to)
    /\ slab' = [slab EXCEPT ![b] = s]
    /\ state[k] # "down" /\ state'[k] = "up"
    /\ state' \in [CACHES -> {"down", "init", "up", "grown"}] /\ obj_num' \in [CACHES -> Int]
    /\ \A m \in CACHES : m # k => state'[m] = state[m] /\ obj_num'[m] = obj_num[m]
    /\ UNCHANGED <<pg_orhas, pgtype, avail, panic>>
    /\ \A o : o # <<k, b, x>> => (o \in live' <=> o \in live)
    /\ \A y \in Objects(k) : <<k, b, y>> \in live' <=> s.idx[y] = -1
    /\ IsFiniteSet(FreeObjects(k)') /\ obj_num'[k] = Cardinality(FreeObjects(k)')

LEMMA ObjectStep ==
    ASSUME IInv, NEW k \in CACHES, NEW from \in LISTS, NEW to \in LISTS,
           NEW b, NEW s, NEW x \in Objects(k), ObjectChange(k, from, to, b, s, x)
    PROVE  IInv'
<1> USE DEF ObjectChange
<1>1. /\ list' \in [CACHES -> [LISTS -> Seq(BLOCKS)]]
      /\ \A m \in CACHES : m # k => list'[m] = list[m]
      /\ \A l \in LISTS : ListOK(list'[k][l])
      /\ \A l, m \in LISTS : l # m => Listed(list'[k][l]) \cap Listed(list'[k][m]) = {}
      /\ Listed(list'[k][to]) = Listed(list[k][to]) \cup {b}
      /\ \A l \in LISTS : l # to => Listed(list'[k][l]) = Listed(list[k][l]) \ {b}
      /\ Slabs(k)' = Slabs(k)
      /\ Len(list'[k]["free"]) + Len(list'[k]["full"]) + Len(list'[k]["partial"])
           = Len(list[k]["free"]) + Len(list[k]["full"]) + Len(list[k]["partial"])
  BY MoveOK
<1>2. b \in Slabs(k)
  BY DEF Slabs
<1>3. b \in BLOCKS /\ OBJ_ALL[k] > 0
  BY <1>2, UsedSlab
<1>4. DOMAIN slab = BLOCKS /\ DOMAIN slab' = BLOCKS
  BY DEF IInv, TypeOK
<1>5. slab'[b] = s /\ \A c \in BLOCKS : c # b => slab'[c] = slab[c]
  BY <1>3, <1>4
<1>6. TypeOK'
  BY <1>1, <1>4 DEF IInv, TypeOK
<1>7. ASSUME NEW m \in CACHES, m # k PROVE CacheInv(m)' /\ Slabs(m)' = Slabs(m)
  <2>1. CacheInv(m) /\ b \notin Slabs(m)
    BY <1>2, <1>7 DEF IInv, BlocksInv
  <2>2. \A c \in Slabs(m) : c \in BLOCKS
    BY UsedSlab
  <2>3. \A c \in Slabs(m) : slab'[c] = slab[c]
    BY <1>5, <2>1, <2>2
  <2>4. \A c \in Slabs(m) : \A y \in Objects(m) : <<m, c, y>> \in live' <=> <<m, c, y>> \in live
    BY <1>7
  <2>5. state'[m] = state[m] /\ obj_num'[m] = obj_num[m] /\ pg_orhas'[m] = pg_orhas[m] /\ list'[m] = list[m]
    BY <1>1, <1>7
  <2> QED
    BY <2>1, <2>3, <2>4, <2>5, OtherCache
<1>8. ObjectsInv(k)'
  <2> SUFFICES ASSUME NEW c \in Slabs(k)'
               PROVE  /\ OBJ_ALL[k] > 0 /\ SlabOK(slab'[c], OBJ_ALL[k])
                      /\ \A y \in Objects(k) : <<k, c, y>> \in live' <=> slab'[c].idx[y] = -1
    BY DEF ObjectsInv, Objects, SlabOK, SlabRecord, Chain, InUse
  <2>1. CASE c = b
    BY <1>3, <1>5, <2>1
  <2>2. CASE c # b
    <3>1. c \in Slabs(k) /\ c \in BLOCKS
      BY <1>1, UsedSlab
    <3>2. slab'[c] = slab[c]
      BY <1>5, <2>2, <3>1
    <3>3. \A y \in Objects(k) : <<k, c, y>> \in live' <=> <<k, c, y>> \in live
      BY <2>2
    <3> QED
      BY <3>1, <3>2, <3>3 DEF IInv, CacheInv, ObjectsInv
  <2> QED
    BY <2>1, <2>2
<1>9. ListInv(k)'
  <2>1. ASSUME NEW l \in LISTS, NEW c \in Listed(list'[k][l]) PROVE Fits(slab'[c], l)
    <3>1. CASE c = b
      <4>1. l = to
        BY <1>1, <2>1, <3>1
      <4> QED
        BY <1>5, <3>1, <4>1
    <3>2. CASE c # b
      <4>1. c \in Listed(list[k][l])
        BY <1>1, <2>1, <3>2
      <4>2. c \in BLOCKS
        <5>1. ListOK(list[k][l])
          BY DEF IInv, CacheInv, ListInv
        <5> QED
          BY <4>1, <5>1, ListFacts
      <4>3. slab'[c] = slab[c] /\ Fits(slab[c], l)
        BY <1>5, <3>2, <4>1, <4>2 DEF IInv, CacheInv, ListInv
      <4> QED
        BY <4>3
    <3> QED
      BY <3>1, <3>2
  <2> QED
    BY <1>1, <2>1 DEF ListInv, Listed, ListOK, NoRepeats, Fits
<1>10. CountInv(k)'
  <2>1. CountInv(k)
    BY DEF IInv, CacheInv
  <2> QED
    BY <1>1, <2>1 DEF CountInv
<1>11. \A m \in CACHES : CacheInv(m)' /\ Slabs(m)' = Slabs(m)
  BY <1>1, <1>7, <1>8, <1>9, <1>10 DEF CacheInv
<1>12. LiveInv'
  <2> SUFFICES ASSUME NEW o \in live'
               PROVE  \E m \in CACHES : \E c \in Slabs(m)', y \in Objects(m) : o = <<m, c, y>>
    BY DEF LiveInv, Objects
  <2>1. CASE o = <<k, b, x>>
    BY <1>1, <1>2, <2>1
  <2>2. CASE o # <<k, b, x>>
    <3>1. o \in live
      BY <2>2
    <3>2. \E m \in CACHES : \E c \in Slabs(m), y \in Objects(m) : o = <<m, c, y>>
      BY <3>1 DEF IInv, LiveInv
    <3> QED
      BY <1>11, <3>2
  <2> QED
    BY <2>1, <2>2
<1>13. BlocksInv'
  BY <1>11 DEF IInv, BlocksInv
<1> QED
  BY <1>6, <1>11, <1>12, <1>13 DEF IInv

(* kmem_obj_alloc finds an object: a cache that counts one has a slab that *)
(* is not full, and a cache that has just grown has a free slab.           *)
LEMMA ObjTakeStep ==
    ASSUME IInv, NEW k \in CACHES, ObjTake(k)
    PROVE  IInv'
<1> DEFINE from == IF list[k]["partial"] # <<>> THEN "partial" ELSE "free"
           b    == Head(list[k][from])
           s    == SlabAlloc(slab[b])
           x    == slab[b].head
           to   == IF s.obj_free = 0 THEN "full" ELSE "partial"
           n    == OBJ_ALL[k]
<1>1. from \in LISTS /\ to \in LISTS /\ "free" \in LISTS /\ "partial" \in LISTS /\ "full" \in LISTS
  BY DEF LISTS
<1>2. /\ \A l \in LISTS : ListOK(list[k][l]) /\ \A c \in Listed(list[k][l]) : Fits(slab[c], l)
      /\ CountInv(k) /\ state[k] # "down" /\ state \in [CACHES -> {"down", "init", "up", "grown"}]
      /\ obj_num \in [CACHES -> Int]
  BY DEF IInv, CacheInv, ListInv, TypeOK, ObjTake
<1>3. list[k]["partial"] # <<>> \/ list[k]["free"] # <<>>
  <2>1. CASE state[k] = "grown"
    BY <1>2, <2>1 DEF CountInv
  <2>2. CASE state[k] # "grown"
    <3>1. obj_num[k] # 0 /\ IsFiniteSet(FreeObjects(k)) /\ obj_num[k] = Cardinality(FreeObjects(k))
      BY <1>2, <2>2 DEF CountInv, ObjTake
    <3>2. FreeObjects(k) # {}
      BY <3>1, FS_EmptySet
    <3>3. PICK c \in Slabs(k), y \in Objects(k) : <<k, c, y>> \notin live
      BY <3>2 DEF FreeObjects, Objects
    <3>4. slab[c].obj_free # 0
      BY <3>3, UsedSlab
    <3>5. c \notin Listed(list[k]["full"])
      BY <1>1, <1>2, <3>4 DEF Fits
    <3>6. c \in Listed(list[k]["free"]) \/ c \in Listed(list[k]["partial"])
      BY <3>5, SlabsUnion
    <3> QED
      BY <3>6, EmptyListOK
  <2> QED
    BY <2>1, <2>2
<1>4. list[k][from] # <<>>
  BY <1>3
<1>5. b \in Listed(list[k][from]) /\ Fits(slab[b], from)
  BY <1>1, <1>2, <1>4, ListFacts
<1>6. b \in Slabs(k)
  BY <1>1, <1>5 DEF Slabs
<1>7. n \in Nat /\ n > 0 /\ slab[b].obj_all = n /\ slab[b].obj_free \in 0..n
  BY <1>6, UsedSlab
<1>8. SlabOK(slab[b], n) /\ \A y \in Objects(k) : <<k, b, y>> \in live <=> slab[b].idx[y] = -1
  BY <1>6 DEF IInv, CacheInv, ObjectsInv
<1>9. slab[b].obj_free # 0
  BY <1>5, <1>7 DEF Fits
<1>10. /\ SlabAllocAsserts(slab[b]) /\ SlabOK(s, n)
       /\ s.obj_free = slab[b].obj_free - 1 /\ s.obj_all = n
       /\ \A y \in 0..(n - 1) : s.idx[y] = -1 <=> y = x \/ slab[b].idx[y] = -1
  <2> HIDE DEF b, n
  <2> QED
    BY <1>7, <1>8, <1>9, SlabAllocOK
<1>11. x \in Objects(k) /\ slab[b].idx[x] # -1
  <2>1. slab[b].obj_free > 0
    BY <1>7, <1>9
  <2> QED
    BY <1>7, <1>8, <2>1, SlabFacts DEF Objects
<1>12. /\ slab' = [slab EXCEPT ![b] = s]
       /\ live' = live \cup {<<k, b, x>>}
       /\ obj_num' = [obj_num EXCEPT ![k] = @ - 1]
       /\ Move(k, b, from, to)
       /\ UNCHANGED <<pg_orhas, panic, pgtype, avail>>
       /\ state' = [state EXCEPT ![k] = "up"]
  BY <1>4, <1>10 DEF ObjTake
<1>13. Fits(s, to)
  <2>1. to = (IF s.obj_free = 0 THEN "full" ELSE "partial")
    OBVIOUS
  <2> HIDE DEF b, s, n, to
  <2>2. s.obj_free \in 0..(n - 1)
    BY <1>7, <1>9, <1>10
  <2> QED
    BY <1>7, <1>10, <2>1, <2>2 DEF Fits
<1> HIDE DEF from, b, s, x, to, n
<1>14. Slabs(k)' = Slabs(k)
  BY <1>1, <1>5, <1>12, MoveOK
<1>15. <<k, b, x>> \notin live
  BY <1>8, <1>11
<1>16. IsFiniteSet(FreeObjects(k)') /\ obj_num'[k] = Cardinality(FreeObjects(k)')
  <2>1. FreeObjects(k)' = FreeObjects(k) \ {<<b, x>>}
    BY <1>12, <1>14 DEF FreeObjects
  <2>2. <<b, x>> \in FreeObjects(k)
    BY <1>6, <1>11, <1>15 DEF FreeObjects, Objects
  <2>3. IsFiniteSet(FreeObjects(k)) /\ obj_num[k] = Cardinality(FreeObjects(k))
    BY <1>2 DEF CountInv
  <2>4. obj_num'[k] = obj_num[k] - 1
    BY <1>2, <1>12
  <2> QED
    BY <2>1, <2>2, <2>3, <2>4, FS_RemoveElement
<1>17. \A y \in Objects(k) : <<k, b, y>> \in live' <=> s.idx[y] = -1
  BY <1>8, <1>10, <1>12 DEF Objects, n
<1>18. \A o : o # <<k, b, x>> => (o \in live' <=> o \in live)
  BY <1>12
<1>19. /\ state' \in [CACHES -> {"down", "init", "up", "grown"}] /\ state'[k] = "up"
       /\ obj_num' \in [CACHES -> Int]
       /\ \A m \in CACHES : m # k => state'[m] = state[m] /\ obj_num'[m] = obj_num[m]
  BY <1>2, <1>12
<1>20. SlabOK(s, OBJ_ALL[k])
  BY <1>10 DEF n
<1>21. ObjectChange(k, from, to, b, s, x)
  BY <1>2, <1>5, <1>12, <1>13, <1>16, <1>17, <1>18, <1>19, <1>20, Zenon DEF ObjectChange
<1> QED
  BY <1>1, <1>11, <1>21, ObjectStep

(* The search of kmem_obj_free meets only slabs that fit their lists.      *)
LEMMA SearchPasses ==
    ASSUME IInv, NEW k \in CACHES, NEW b
    PROVE  SearchAsserts(k, b)
<1>1. \A s : Visited(s, b) \subseteq Listed(s)
  BY DEF Visited, Listed
<1>2. "partial" \in LISTS /\ "full" \in LISTS
  BY DEF LISTS
<1>3. ASSUME NEW q \in Listed(list[k]["partial"]) \cup Listed(list[k]["full"])
      PROVE  q \in Slabs(k) /\ pgtype[q] = "SLAB"
  <2>1. q \in Slabs(k)
    BY <1>2 DEF Slabs
  <2>2. q \in BLOCKS
    BY <2>1, UsedSlab
  <2> QED
    BY <2>1, <2>2 DEF IInv, BlocksInv
<1>4. ASSUME NEW q \in Listed(list[k]["partial"]) PROVE slab[q].obj_all > slab[q].obj_free
  <2>1. slab[q].obj_all \in Nat
    BY <1>3, UsedSlab
  <2>2. slab[q].obj_free \in 1..(slab[q].obj_all - 1)
    BY <1>2 DEF IInv, CacheInv, ListInv, Fits
  <2> QED
    BY <2>1, <2>2
<1>5. ASSUME NEW q \in Listed(list[k]["full"]) PROVE slab[q].obj_free = 0
  BY <1>2 DEF IInv, CacheInv, ListInv, Fits
<1> QED
  BY <1>1, <1>3, <1>4, <1>5 DEF SearchAsserts

(* kmem_obj_free finds the slab of an object that is in use, which is not  *)
(* a free one, and its asserts hold.                                       *)
LEMMA ObjFreeStep ==
    ASSUME IInv, NEW k \in CACHES, NEW b, NEW x, ObjFree(k, b, x)
    PROVE  IInv'
<1> DEFINE from == IF b \in Listed(list[k]["partial"]) THEN "partial" ELSE "full"
           s    == SlabFree(slab[b], x)
           to   == NewList(s)
           n    == OBJ_ALL[k]
<1>1. from \in LISTS /\ to \in LISTS /\ "free" \in LISTS /\ "partial" \in LISTS /\ "full" \in LISTS
  BY DEF LISTS, NewList
<1>2. /\ \A l \in LISTS : ListOK(list[k][l]) /\ \A c \in Listed(list[k][l]) : Fits(slab[c], l)
      /\ CountInv(k) /\ state[k] = "up" /\ state \in [CACHES -> {"down", "init", "up", "grown"}]
      /\ obj_num \in [CACHES -> Int]
  BY DEF IInv, CacheInv, ListInv, TypeOK, ObjFree
<1>3. <<k, b, x>> \in live
  BY DEF ObjFree
<1>4. b \in Slabs(k) /\ x \in Objects(k)
  <2>1. \E m \in CACHES : \E c \in Slabs(m), y \in Objects(m) : <<k, b, x>> = <<m, c, y>>
    BY <1>3 DEF IInv, LiveInv
  <2> QED
    BY <2>1
<1>5. n \in Nat /\ n > 0 /\ slab[b].obj_all = n /\ slab[b].obj_free \in 0..n
  BY <1>4, UsedSlab
<1>6. SlabOK(slab[b], n) /\ \A y \in Objects(k) : <<k, b, y>> \in live <=> slab[b].idx[y] = -1
  BY <1>4 DEF IInv, CacheInv, ObjectsInv
<1>7. slab[b].obj_free # n
  BY <1>3, <1>4, UsedSlab
<1>8. b \in Listed(list[k][from])
  <2>1. b \notin Listed(list[k]["free"])
    BY <1>1, <1>2, <1>5, <1>7 DEF Fits
  <2> QED
    BY <1>4, <2>1, SlabsUnion
<1>9. slab[b].idx[x] = -1 /\ x \in 0..(n - 1)
  BY <1>3, <1>4, <1>6 DEF Objects
<1>10. /\ SlabFreeAsserts(slab[b], x) /\ SlabOK(s, n)
       /\ s.obj_free = slab[b].obj_free + 1 /\ s.obj_all = n
       /\ slab[b].obj_free + 1 <= n
       /\ \A y \in 0..(n - 1) : s.idx[y] = -1 <=> y # x /\ slab[b].idx[y] = -1
  <2> HIDE DEF n
  <2> QED
    BY <1>5, <1>6, <1>9, SlabFreeOK
<1>11. SearchAsserts(k, b)
  BY SearchPasses
<1>12. /\ slab' = [slab EXCEPT ![b] = s]
       /\ live' = live \ {<<k, b, x>>}
       /\ obj_num' = [obj_num EXCEPT ![k] = @ + 1]
       /\ Move(k, b, from, to)
       /\ UNCHANGED <<pg_orhas, panic, pgtype, avail>>
       /\ UNCHANGED state
  BY <1>8, <1>10, <1>11 DEF ObjFree
<1>13. Fits(s, to)
  <2>1. to = (IF s.obj_free = s.obj_all THEN "free" ELSE "partial")
    BY DEF NewList
  <2> HIDE DEF s, n, to
  <2>2. s.obj_free \in 1..n
    BY <1>5, <1>10
  <2> QED
    BY <1>5, <1>10, <2>1, <2>2 DEF Fits
<1> HIDE DEF from, s, to, n
<1>14. Slabs(k)' = Slabs(k)
  BY <1>1, <1>8, <1>12, MoveOK
<1>15. IsFiniteSet(FreeObjects(k)') /\ obj_num'[k] = Cardinality(FreeObjects(k)')
  <2>1. FreeObjects(k)' = FreeObjects(k) \cup {<<b, x>>}
    BY <1>4, <1>12, <1>14 DEF FreeObjects, Objects
  <2>2. <<b, x>> \notin FreeObjects(k)
    BY <1>3 DEF FreeObjects
  <2>3. IsFiniteSet(FreeObjects(k)) /\ obj_num[k] = Cardinality(FreeObjects(k))
    BY <1>2 DEF CountInv
  <2>4. obj_num'[k] = obj_num[k] + 1
    BY <1>2, <1>12
  <2> QED
    BY <2>1, <2>2, <2>3, <2>4, FS_AddElement
<1>16. \A y \in Objects(k) : <<k, b, y>> \in live' <=> s.idx[y] = -1
  BY <1>6, <1>10, <1>12 DEF Objects, n
<1>17. \A o : o # <<k, b, x>> => (o \in live' <=> o \in live)
  BY <1>12
<1>18. /\ state' \in [CACHES -> {"down", "init", "up", "grown"}] /\ state'[k] = "up" /\ state[k] # "down"
       /\ obj_num' \in [CACHES -> Int]
       /\ \A m \in CACHES : m # k => state'[m] = state[m] /\ obj_num'[m] = obj_num[m]
  BY <1>2, <1>12
<1>19. SlabOK(s, OBJ_ALL[k])
  BY <1>10 DEF n
<1>20. ObjectChange(k, from, to, b, s, x)
  BY <1>8, <1>12, <1>13, <1>15, <1>16, <1>17, <1>18, <1>19, Zenon DEF ObjectChange
<1> QED
  BY <1>1, <1>4, <1>20, ObjectStep

(* A block of the page allocator joins a cache with all its objects free.  *)
LEMMA AddSlabStep ==
    ASSUME IInv, NEW k \in CACHES, NEW b \in BLOCKS, AddSlab(k, b),
           OBJ_ALL[k] > 0, state[k] # "down", pg_orhas[k] < PG_ORLIMIT[k],
           NEW v \in {"init", "up", "grown"}, state' = [state EXCEPT ![k] = v],
           v = "init" => state[k] = "init" /\ pg_orhas[k] + 1 < INIT_ALLOC[k]
    PROVE  IInv'
<1> DEFINE n == OBJ_ALL[k]
<1>1. /\ b \in avail /\ avail' = avail \ {b} /\ pgtype' = [pgtype EXCEPT ![b] = "SLAB"]
      /\ slab' = [slab EXCEPT ![b] = NewSlab(n)]
      /\ obj_num' = [obj_num EXCEPT ![k] = @ + n]
      /\ pg_orhas' = [pg_orhas EXCEPT ![k] = @ + 1]
      /\ list' = [list EXCEPT ![k]["free"] = Append(@, b)]
      /\ live' = live /\ panic' = panic
  BY DEF AddSlab
<1>2. TypeOK /\ ListInv(k) /\ CountInv(k) /\ BlocksInv
  BY DEF IInv, CacheInv
<1>3. n \in Nat /\ n > 0 /\ PG_ORLIMIT[k] \in Nat
  BY SlabAssumption
<1>4. \A m \in CACHES : b \notin Slabs(m)
  BY <1>1, <1>2 DEF BlocksInv
<1>5. "free" \in LISTS /\ "full" \in LISTS /\ "partial" \in LISTS
  BY DEF LISTS
<1>6. \A l \in LISTS : b \notin Listed(list[k][l])
  BY <1>4 DEF Slabs
<1>7. /\ ListOK(Append(list[k]["free"], b))
      /\ Len(Append(list[k]["free"], b)) = Len(list[k]["free"]) + 1
      /\ Listed(Append(list[k]["free"], b)) = Listed(list[k]["free"]) \cup {b}
      /\ Append(list[k]["free"], b) # <<>>
  BY <1>2, <1>5, <1>6, AppendOK DEF ListInv
<1>8. /\ list'[k]["free"] = Append(list[k]["free"], b)
      /\ \A l \in LISTS : l # "free" => list'[k][l] = list[k][l]
      /\ \A m \in CACHES : m # k => list'[m] = list[m]
  BY <1>1, <1>2, <1>5 DEF TypeOK
<1>9. Slabs(k)' = Slabs(k) \cup {b}
  <2>1. Slabs(k)' = Listed(list'[k]["free"]) \cup Listed(list'[k]["full"]) \cup Listed(list'[k]["partial"])
    BY DEF Slabs, LISTS, Listed
  <2> QED
    BY <1>5, <1>7, <1>8, <2>1, SlabsUnion
<1>10. slab'[b] = NewSlab(n) /\ \A c \in BLOCKS : c # b => slab'[c] = slab[c]
  BY <1>1, <1>2 DEF TypeOK
<1>11. /\ SlabOK(NewSlab(n), n) /\ NewSlab(n).obj_free = n /\ NewSlab(n).obj_all = n
       /\ \A x \in 0..(n - 1) : NewSlab(n).idx[x] # -1
  BY <1>3, NewSlabOK
<1>12. \A m \in CACHES, x \in Objects(k) : <<m, b, x>> \notin live
  BY <1>4 DEF IInv, LiveInv
<1>13. TypeOK'
  <2>1. Append(list[k]["free"], b) \in Seq(BLOCKS)
    BY <1>7 DEF ListOK
  <2>2. list' \in [CACHES -> [LISTS -> Seq(BLOCKS)]]
    BY <1>1, <1>2, <2>1 DEF TypeOK
  <2>3. state' \in [CACHES -> {"down", "init", "up", "grown"}] /\ obj_num' \in [CACHES -> Int] /\ pg_orhas' \in [CACHES -> Int]
    BY <1>1, <1>2, <1>3 DEF TypeOK
  <2>4. DOMAIN slab' = BLOCKS /\ pgtype' \in [BLOCKS -> {"BUDDY", "SLAB"}] /\ avail' \subseteq BLOCKS /\ panic' = FALSE
    BY <1>1, <1>2 DEF TypeOK
  <2> QED
    BY <2>2, <2>3, <2>4 DEF TypeOK
<1>14. ASSUME NEW m \in CACHES, m # k PROVE CacheInv(m)' /\ Slabs(m)' = Slabs(m)
  <2>1. CacheInv(m) /\ \A c \in Slabs(m) : c \in BLOCKS /\ c # b
    BY <1>4, UsedSlab DEF IInv
  <2>2. \A c \in Slabs(m) : slab'[c] = slab[c]
    BY <1>10, <2>1
  <2>3. \A c \in Slabs(m) : \A y \in Objects(m) : <<m, c, y>> \in live' <=> <<m, c, y>> \in live
    BY <1>1
  <2>4. state'[m] = state[m] /\ obj_num'[m] = obj_num[m] /\ pg_orhas'[m] = pg_orhas[m] /\ list'[m] = list[m]
    BY <1>1, <1>2, <1>8, <1>14 DEF TypeOK
  <2> QED
    BY <2>1, <2>2, <2>3, <2>4, OtherCache
<1>15. ObjectsInv(k)'
  <2> SUFFICES ASSUME NEW c \in Slabs(k)'
               PROVE  /\ OBJ_ALL[k] > 0 /\ SlabOK(slab'[c], OBJ_ALL[k])
                      /\ \A y \in Objects(k) : <<k, c, y>> \in live' <=> slab'[c].idx[y] = -1
    BY DEF ObjectsInv, Objects, SlabOK, SlabRecord, Chain, InUse
  <2>1. CASE c = b
    BY <1>1, <1>10, <1>11, <1>12, <2>1 DEF Objects
  <2>2. CASE c # b
    <3>1. c \in Slabs(k) /\ c \in BLOCKS
      BY <1>9, <2>2, UsedSlab
    <3>2. slab'[c] = slab[c]
      BY <1>10, <2>2, <3>1
    <3> QED
      BY <1>1, <3>1, <3>2 DEF IInv, CacheInv, ObjectsInv
  <2> QED
    BY <2>1, <2>2
<1>16. ListInv(k)'
  <2>1. ASSUME NEW l \in LISTS, NEW c \in Listed(list'[k][l]) PROVE Fits(slab'[c], l)
    <3>1. CASE c = b
      <4>1. l = "free"
        BY <1>6, <1>8, <2>1, <3>1
      <4> QED
        BY <1>10, <1>11, <3>1, <4>1 DEF Fits
    <3>2. CASE c # b
      <4>1. c \in Listed(list[k][l])
        BY <1>7, <1>8, <2>1, <3>2
      <4>2. c \in BLOCKS
        BY <1>2, <4>1, ListFacts DEF ListInv
      <4>3. slab'[c] = slab[c] /\ Fits(slab[c], l)
        BY <1>2, <1>10, <3>2, <4>1, <4>2 DEF ListInv
      <4> QED
        BY <4>3
    <3> QED
      BY <3>1, <3>2
  <2>2. \A l \in LISTS : ListOK(list'[k][l])
    BY <1>2, <1>7, <1>8 DEF ListInv
  <2>3. \A l, m \in LISTS : l # m => Listed(list'[k][l]) \cap Listed(list'[k][m]) = {}
    <3> SUFFICES ASSUME NEW l \in LISTS, NEW m \in LISTS, l # m, NEW c \in Listed(list'[k][l]), c \in Listed(list'[k][m])
                 PROVE  FALSE
      OBVIOUS
    <3>1. c \in Listed(list[k][l]) \/ (l = "free" /\ c = b)
      BY <1>7, <1>8
    <3>2. c \in Listed(list[k][m]) \/ (m = "free" /\ c = b)
      BY <1>7, <1>8
    <3> QED
      BY <1>2, <1>6, <3>1, <3>2 DEF ListInv
  <2> QED
    BY <2>1, <2>2, <2>3 DEF ListInv, Listed, ListOK, NoRepeats, Fits
<1>17. CountInv(k)'
  <2>1. /\ pg_orhas[k] = Len(list[k]["free"]) + Len(list[k]["full"]) + Len(list[k]["partial"])
        /\ IsFiniteSet(Slabs(k)) /\ pg_orhas[k] = Cardinality(Slabs(k))
        /\ IsFiniteSet(FreeObjects(k)) /\ obj_num[k] = Cardinality(FreeObjects(k))
        /\ pg_orhas[k] \in Int /\ obj_num[k] \in Int
    BY <1>2 DEF CountInv, TypeOK
  <2>2. \A l \in LISTS : Len(list[k][l]) \in Nat
    BY <1>2, ListFacts DEF ListInv
  <2>3. pg_orhas'[k] = pg_orhas[k] + 1 /\ obj_num'[k] = obj_num[k] + n /\ state'[k] = v
    BY <1>1, <1>2 DEF TypeOK
  <2>4. pg_orhas'[k] = Len(list'[k]["free"]) + Len(list'[k]["full"]) + Len(list'[k]["partial"])
    <3>1. /\ Len(list'[k]["free"]) = Len(list[k]["free"]) + 1
          /\ Len(list'[k]["full"]) = Len(list[k]["full"])
          /\ Len(list'[k]["partial"]) = Len(list[k]["partial"])
      BY <1>5, <1>7, <1>8
    <3>2. Len(list[k]["free"]) \in Nat /\ Len(list[k]["full"]) \in Nat /\ Len(list[k]["partial"]) \in Nat
      BY <1>5, <2>2
    <3>3. /\ pg_orhas'[k] = pg_orhas[k] + 1
          /\ pg_orhas[k] = Len(list[k]["free"]) + Len(list[k]["full"]) + Len(list[k]["partial"])
      BY <2>1, <2>3
    <3> DEFINE A(l) == Len(list[k][l])
               B(l) == Len(list'[k][l])
    <3>4. B("free") = A("free") + 1 /\ B("full") = A("full") /\ B("partial") = A("partial")
      BY <3>1
    <3>5. A("free") \in Nat /\ A("full") \in Nat /\ A("partial") \in Nat
      BY <3>2
    <3>6. pg_orhas'[k] = pg_orhas[k] + 1 /\ pg_orhas[k] = A("free") + A("full") + A("partial")
      BY <3>3
    <3> HIDE DEF A, B
    <3>7. pg_orhas'[k] = B("free") + B("full") + B("partial")
      BY <3>4, <3>5, <3>6
    <3> QED
      BY <3>7 DEF B
  <2>5. pg_orhas'[k] <= PG_ORLIMIT[k]
    <3>1. pg_orhas'[k] = pg_orhas[k] + 1 /\ pg_orhas[k] \in Int
      BY <2>1, <2>3
    <3> QED
      BY <1>3, <3>1
  <2>6. IsFiniteSet(Slabs(k)') /\ pg_orhas'[k] = Cardinality(Slabs(k)')
    BY <1>4, <1>9, <2>1, <2>3, FS_AddElement
  <2>7. IsFiniteSet(FreeObjects(k)') /\ obj_num'[k] = Cardinality(FreeObjects(k)')
    <3> DEFINE New == {b} \X (0..(n - 1))
    <3>1. FreeObjects(k)' = FreeObjects(k) \cup New
      <4>1. \A x \in 0..(n - 1) : <<k, b, x>> \notin live
        BY <1>12 DEF Objects
      <4> QED
        BY <1>1, <1>9, <4>1 DEF FreeObjects
    <3>2. FreeObjects(k) \cap New = {}
      BY <1>4 DEF FreeObjects
    <3>3. IsFiniteSet({b}) /\ Cardinality({b}) = 1
      BY FS_Singleton
    <3>4. IsFiniteSet(0..(n - 1)) /\ Cardinality(0..(n - 1)) = n
      <4>1. 0 \in Int /\ n - 1 \in Int /\ ~(0 > n - 1) /\ (n - 1) - 0 + 1 = n
        BY <1>3
      <4> HIDE DEF n
      <4> QED
        BY <4>1, FS_Interval
    <3>5. IsFiniteSet(New) /\ Cardinality(New) = n
      <4> DEFINE I == 0..(n - 1)
      <4>1. IsFiniteSet(I) /\ Cardinality(I) = n
        BY <3>4
      <4> HIDE DEF I
      <4>2. IsFiniteSet({b} \X I) /\ Cardinality({b} \X I) = Cardinality({b}) * Cardinality(I)
        BY <3>3, <4>1, FS_Product
      <4>3. 1 * n = n
        BY <1>3
      <4> QED
        BY <3>3, <4>1, <4>2, <4>3 DEF I
    <3> HIDE DEF New, n
    <3>6. /\ IsFiniteSet(FreeObjects(k) \cup New)
          /\ Cardinality(FreeObjects(k) \cup New) = Cardinality(FreeObjects(k)) + Cardinality(New) - Cardinality({})
      BY <2>1, <3>2, <3>5, FS_Union
    <3> QED
      BY <1>3, <2>1, <2>3, <3>1, <3>5, <3>6, FS_EmptySet
  <2>8. v = "init" => list'[k]["full"] = <<>> /\ list'[k]["partial"] = <<>> /\ pg_orhas'[k] < INIT_ALLOC[k]
    BY <1>2, <1>5, <1>8, <2>3 DEF CountInv
  <2>9. list'[k]["free"] # <<>>
    BY <1>7, <1>8
  <2> QED
    BY <2>3, <2>4, <2>5, <2>6, <2>7, <2>8, <2>9 DEF CountInv
<1>18. \A m \in CACHES : CacheInv(m)'
  BY <1>14, <1>15, <1>16, <1>17 DEF CacheInv
<1>19. LiveInv'
  <2>1. \A m \in CACHES : Slabs(m) \subseteq Slabs(m)'
    BY <1>9, <1>14
  <2> QED
    BY <1>1, <2>1 DEF IInv, LiveInv, Objects
<1>20. BlocksInv'
  <2>1. \A m \in CACHES : Slabs(m)' = IF m = k THEN Slabs(m) \cup {b} ELSE Slabs(m)
    BY <1>9, <1>14
  <2>2. \A c \in BLOCKS : pgtype'[c] = IF c = b THEN "SLAB" ELSE pgtype[c]
    BY <1>1, <1>2 DEF TypeOK
  <2>3. \A c \in BLOCKS : c \in avail' <=> c \in avail /\ c # b
    BY <1>1
  <2>4. \A h, m \in CACHES : h # m => Slabs(h)' \cap Slabs(m)' = {}
    BY <1>2, <1>4, <2>1 DEF BlocksInv
  <2>5. \A c \in BLOCKS : c \in avail' <=> \A m \in CACHES : c \notin Slabs(m)'
    BY <1>2, <2>1, <2>3 DEF BlocksInv
  <2>6. \A c \in BLOCKS : pgtype'[c] = "SLAB" <=> \E m \in CACHES : c \in Slabs(m)'
    BY <1>2, <2>1, <2>2 DEF BlocksInv
  <2> QED
    BY <2>4, <2>5, <2>6 DEF BlocksInv
<1> QED
  BY <1>13, <1>18, <1>19, <1>20 DEF IInv

(* The blocks of a cache that has only free slabs, and no object of which  *)
(* is in use, go back to the page allocator.                               *)
LEMMA GiveBackStep ==
    ASSUME IInv, NEW k \in CACHES, GiveBack(k),
           list[k]["full"] = <<>>, list[k]["partial"] = <<>>, \A o \in live : o[1] # k,
           state' = [state EXCEPT ![k] = "down"],
           obj_num' \in [CACHES -> Int], \A m \in CACHES : m # k => obj_num'[m] = obj_num[m],
           UNCHANGED <<pg_orhas, live, panic>>
    PROVE  IInv'
<1> DEFINE blocks == Listed(list[k]["free"])
<1>1. /\ avail' = avail \cup blocks
      /\ pgtype' = [b \in BLOCKS |-> IF b \in blocks THEN "BUDDY" ELSE pgtype[b]]
      /\ slab' = [b \in BLOCKS |-> IF b \in blocks THEN NoSlab ELSE slab[b]]
      /\ list' = [list EXCEPT ![k]["free"] = <<>>]
  BY DEF GiveBack
<1>2. TypeOK /\ ListInv(k) /\ CountInv(k) /\ BlocksInv /\ LiveInv
  BY DEF IInv, CacheInv
<1>3. "free" \in LISTS /\ "full" \in LISTS /\ "partial" \in LISTS
  BY DEF LISTS
<1>4. Slabs(k) = blocks
  BY EmptyListOK, SlabsUnion
<1>5. blocks \subseteq BLOCKS
  BY <1>4, UsedSlab
<1>6. \A l \in LISTS : list'[k][l] = <<>>
  <2>1. \A l \in LISTS : l = "free" \/ list[k][l] = <<>>
    BY DEF LISTS
  <2> QED
    BY <1>1, <1>2, <2>1 DEF TypeOK
<1>7. \A m \in CACHES : m # k => list'[m] = list[m] /\ state'[m] = state[m] /\ pg_orhas'[m] = pg_orhas[m]
  BY <1>1, <1>2 DEF TypeOK
<1>8. Slabs(k)' = {}
  <2>1. \A l \in LISTS : Listed(list'[k][l]) = {}
    BY <1>6, EmptyListOK
  <2>2. Slabs(k)' = UNION {Listed(list'[k][l]) : l \in LISTS}
    BY DEF Slabs, Listed
  <2> QED
    BY <2>1, <2>2
<1>9. TypeOK'
  <2>1. list' \in [CACHES -> [LISTS -> Seq(BLOCKS)]]
    BY <1>1, <1>2, EmptyListOK DEF TypeOK, ListOK
  <2>2. state' \in [CACHES -> {"down", "init", "up", "grown"}] /\ pg_orhas' \in [CACHES -> Int] /\ panic' = FALSE
    BY <1>2 DEF TypeOK
  <2>3. DOMAIN slab' = BLOCKS /\ pgtype' \in [BLOCKS -> {"BUDDY", "SLAB"}]
    BY <1>1, <1>2 DEF TypeOK
  <2>4. avail' \subseteq BLOCKS
    BY <1>1, <1>2, <1>5 DEF TypeOK
  <2> QED
    BY <2>1, <2>2, <2>3, <2>4 DEF TypeOK
<1>10. ASSUME NEW m \in CACHES, m # k PROVE CacheInv(m)' /\ Slabs(m)' = Slabs(m)
  <2>1. CacheInv(m) /\ \A c \in Slabs(m) : c \in BLOCKS /\ c \notin blocks
    <3>1. \A c \in Slabs(m) : c \in BLOCKS
      BY UsedSlab
    <3>2. Slabs(m) \cap Slabs(k) = {}
      BY <1>2, <1>10 DEF BlocksInv
    <3> QED
      BY <1>4, <3>1, <3>2 DEF IInv
  <2>2. \A c \in Slabs(m) : slab'[c] = slab[c]
    BY <1>1, <2>1
  <2>3. \A c \in Slabs(m) : \A y \in Objects(m) : <<m, c, y>> \in live' <=> <<m, c, y>> \in live
    OBVIOUS
  <2> QED
    BY <1>7, <1>10, <2>1, <2>2, <2>3, OtherCache
<1>11. CacheInv(k)'
  <2>1. ObjectsInv(k)'
    BY <1>8 DEF ObjectsInv
  <2>2. ListInv(k)'
    <3>1. \A l \in LISTS : ListOK(list'[k][l]) /\ Listed(list'[k][l]) = {}
      BY <1>6, EmptyListOK
    <3> QED
      BY <3>1 DEF ListInv, Listed, ListOK, NoRepeats, Fits
  <2>3. state'[k] = "down"
    BY <1>2 DEF TypeOK
  <2>4. CountInv(k)'
    BY <1>6, <2>3 DEF CountInv
  <2> QED
    BY <2>1, <2>2, <2>4 DEF CacheInv
<1>12. LiveInv'
  <2> SUFFICES ASSUME NEW o \in live
               PROVE  \E m \in CACHES : \E c \in Slabs(m)', y \in Objects(m) : o = <<m, c, y>>
    BY DEF LiveInv, Objects
  <2>1. PICK m \in CACHES : \E c \in Slabs(m), y \in Objects(m) : o = <<m, c, y>>
    BY <1>2 DEF LiveInv
  <2>2. m # k
    BY <2>1
  <2> QED
    BY <1>10, <2>1, <2>2
<1>13. BlocksInv'
  <2>1. \A m \in CACHES : m # k => Slabs(m)' = Slabs(m)
    BY <1>10
  <2>2. \A h, m \in CACHES : h # m => Slabs(h)' \cap Slabs(m)' = {}
    BY <1>2, <1>8, <2>1 DEF BlocksInv
  <2>3. \A c \in blocks : \A m \in CACHES : c \notin Slabs(m)'
    BY <1>2, <1>4, <1>8, <2>1 DEF BlocksInv
  <2>4. \A c \in BLOCKS : c \notin blocks => \A m \in CACHES : c \in Slabs(m)' <=> c \in Slabs(m)
    BY <1>4, <1>8, <2>1
  <2>5. \A c \in BLOCKS : c \in avail' <=> \A m \in CACHES : c \notin Slabs(m)'
    BY <1>1, <1>2, <2>3, <2>4 DEF BlocksInv
  <2>6. \A c \in BLOCKS : pgtype'[c] = IF c \in blocks THEN "BUDDY" ELSE pgtype[c]
    BY <1>1
  <2>7. \A c \in BLOCKS : pgtype'[c] = "SLAB" <=> \E m \in CACHES : c \in Slabs(m)'
    BY <1>2, <2>3, <2>4, <2>6 DEF BlocksInv
  <2> QED
    BY <2>2, <2>5, <2>7 DEF BlocksInv
<1> QED
  BY <1>9, <1>10, <1>11, <1>12, <1>13 DEF IInv

(* free_kmm_cache finds every block of the cache on its free list.         *)
LEMMA CacheInitFailStep ==
    ASSUME IInv, NEW k \in CACHES, CacheInitFail(k)
    PROVE  IInv'
<1>1. list[k]["full"] = <<>> /\ list[k]["partial"] = <<>>
  BY DEF IInv, CacheInv, CountInv, CacheInitFail
<1>2. \A o \in live : o[1] # k
  <2> SUFFICES ASSUME NEW o \in live, o[1] = k PROVE FALSE
    OBVIOUS
  <2>1. PICK m \in CACHES : \E c \in Slabs(m), y \in Objects(m) : o = <<m, c, y>>
    BY DEF IInv, LiveInv
  <2>2. PICK c \in Slabs(m), y \in Objects(m) : o = <<m, c, y>>
    BY <2>1
  <2>3. m = k
    BY <2>2
  <2>4. c \in Listed(list[k]["free"])
    BY <1>1, <2>3, EmptyListOK, SlabsUnion
  <2>5. slab[c].obj_free = slab[c].obj_all
    BY <2>4 DEF IInv, CacheInv, ListInv, Fits, LISTS
  <2>6. <<k, c, y>> \notin live
    BY <2>2, <2>3, <2>5, UsedSlab
  <2> QED
    BY <2>2, <2>3, <2>6
<1>3. obj_num \in [CACHES -> Int]
  BY DEF IInv, TypeOK
<1> QED
  BY <1>1, <1>2, <1>3, GiveBackStep DEF CacheInitFail

(* kmem_cache_deinit: with every object back the two lists are empty.      *)
LEMMA CacheDeinitStep ==
    ASSUME IInv, NEW k \in CACHES, CacheDeinit(k)
    PROVE  IInv'
<1>1. \A o \in live : o[1] # k
  BY DEF CacheDeinit
<1>2. ASSUME NEW c \in Slabs(k) PROVE slab[c].obj_free = slab[c].obj_all /\ slab[c].obj_free \in Nat /\ slab[c].obj_free > 0
  <2>1. \A x \in Objects(k) : <<k, c, x>> \notin live
    BY <1>1
  <2>2. slab[c].obj_free = OBJ_ALL[k]
    BY <2>1, UsedSlab
  <2> QED
    BY <2>2, UsedSlab
<1>3. \A l \in LISTS : ListOK(list[k][l]) /\ \A c \in Listed(list[k][l]) : Fits(slab[c], l)
  BY DEF IInv, CacheInv, ListInv
<1>4. list[k]["full"] = <<>>
  <2>1. \A c \in Listed(list[k]["full"]) : slab[c].obj_free = 0 /\ c \in Slabs(k)
    BY <1>3, SlabsUnion DEF LISTS, Fits
  <2>2. Listed(list[k]["full"]) = {}
    BY <1>2, <2>1
  <2> QED
    BY <1>3, <2>2, ListFacts DEF LISTS
<1>5. list[k]["partial"] = <<>>
  <2>1. \A c \in Listed(list[k]["partial"]) : slab[c].obj_free \in 1..(slab[c].obj_all - 1) /\ c \in Slabs(k)
    BY <1>3, SlabsUnion DEF LISTS, Fits
  <2>2. ASSUME NEW c \in Listed(list[k]["partial"]) PROVE FALSE
    <3>1. slab[c].obj_free = slab[c].obj_all /\ slab[c].obj_free \in Nat
      BY <1>2, <2>1
    <3>2. slab[c].obj_free \in 1..(slab[c].obj_all - 1)
      BY <2>1
    <3> QED
      BY <3>1, <3>2
  <2>3. Listed(list[k]["partial"]) = {}
    BY <2>2
  <2> QED
    BY <1>3, <2>3, ListFacts DEF LISTS
<1>6. /\ GiveBack(k) /\ obj_num' = [obj_num EXCEPT ![k] = 0]
      /\ state' = [state EXCEPT ![k] = "down"] /\ UNCHANGED <<pg_orhas, live, panic>>
  BY <1>4, <1>5 DEF CacheDeinit
<1>7. obj_num' \in [CACHES -> Int] /\ \A m \in CACHES : m # k => obj_num'[m] = obj_num[m]
  BY <1>6 DEF IInv, TypeOK
<1> QED
  BY <1>1, <1>4, <1>5, <1>6, <1>7, GiveBackStep

(* kmem_cache_init starts from empty lists.                                *)
LEMMA CacheInitStep ==
    ASSUME IInv, NEW k \in CACHES, CacheInit(k)
    PROVE  IInv'
<1>1. /\ state[k] = "down"
      /\ state' = [state EXCEPT ![k] = IF INIT_ALLOC[k] = 0 THEN "up" ELSE "init"]
      /\ obj_num' = [obj_num EXCEPT ![k] = 0]
      /\ pg_orhas' = [pg_orhas EXCEPT ![k] = 0]
      /\ list' = [list EXCEPT ![k] = NoLists]
      /\ slab' = slab /\ pgtype' = pgtype /\ avail' = avail /\ live' = live /\ panic' = panic
  BY DEF CacheInit
<1>2. TypeOK /\ ObjectsInv(k) /\ ListInv(k) /\ CountInv(k)
  BY DEF IInv, CacheInv
<1>3. list[k] = NoLists
  BY <1>1, <1>2 DEF CountInv, TypeOK, NoLists
<1>4. list' = list
  BY <1>1, <1>2, <1>3 DEF TypeOK
<1>5. \A m \in CACHES : Slabs(m)' = Slabs(m)
  BY <1>4 DEF Slabs
<1>6. \A l \in LISTS : list[k][l] = <<>>
  BY <1>1, <1>2 DEF CountInv
<1>7. Slabs(k) = {}
  BY <1>6, EmptyListOK DEF Slabs
<1>8. FreeObjects(k)' = {}
  BY <1>5, <1>7 DEF FreeObjects
<1>9. state'[k] = (IF INIT_ALLOC[k] = 0 THEN "up" ELSE "init") /\ obj_num'[k] = 0 /\ pg_orhas'[k] = 0
  BY <1>1, <1>2 DEF TypeOK
<1>10. INIT_ALLOC[k] \in Nat /\ PG_ORLIMIT[k] \in Nat
  BY SlabAssumption
<1>11. TypeOK'
  BY <1>1, <1>2, <1>4 DEF TypeOK
<1>12. CacheInv(k)'
  <2>1. ObjectsInv(k)'
    BY <1>5, <1>7 DEF ObjectsInv
  <2>2. ListInv(k)'
    BY <1>1, <1>2, <1>4 DEF ListInv
  <2>3. \A l \in LISTS : list'[k][l] = <<>> /\ Len(list'[k][l]) = 0
    BY <1>4, <1>6, EmptyListOK
  <2>4. IsFiniteSet(Slabs(k)') /\ Cardinality(Slabs(k)') = 0 /\ IsFiniteSet(FreeObjects(k)') /\ Cardinality(FreeObjects(k)') = 0
    BY <1>5, <1>7, <1>8, FS_EmptySet
  <2>5. pg_orhas'[k] = Len(list'[k]["free"]) + Len(list'[k]["full"]) + Len(list'[k]["partial"])
    <3> DEFINE B(l) == Len(list'[k][l])
    <3>1. B("free") = 0 /\ B("full") = 0 /\ B("partial") = 0
      BY <2>3 DEF LISTS
    <3> HIDE DEF B
    <3>2. pg_orhas'[k] = B("free") + B("full") + B("partial")
      BY <1>9, <3>1
    <3> QED
      BY <3>2 DEF B
  <2>6. pg_orhas'[k] <= PG_ORLIMIT[k]
    BY <1>9, <1>10
  <2>7. state'[k] = "init" => pg_orhas'[k] < INIT_ALLOC[k]
    BY <1>9, <1>10
  <2>8. state'[k] # "down" /\ state'[k] # "grown"
    BY <1>9
  <2>9. CountInv(k)'
    BY <1>9, <2>3, <2>4, <2>5, <2>6, <2>7, <2>8 DEF CountInv, LISTS
  <2> QED
    BY <2>1, <2>2, <2>9 DEF CacheInv
<1>13. ASSUME NEW m \in CACHES, m # k PROVE CacheInv(m)'
  <2>1. state'[m] = state[m] /\ obj_num'[m] = obj_num[m] /\ pg_orhas'[m] = pg_orhas[m] /\ list'[m] = list[m]
    BY <1>1, <1>2, <1>4, <1>13 DEF TypeOK
  <2>2. CacheInv(m)
    BY DEF IInv
  <2> QED
    BY <1>1, <2>1, <2>2, OtherCache
<1>14. LiveInv' /\ BlocksInv'
  BY <1>1, <1>5 DEF IInv, LiveInv, BlocksInv, Objects
<1> QED
  BY <1>11, <1>12, <1>13, <1>14 DEF IInv

LEMMA InitIInv == Init => IInv
<1> SUFFICES ASSUME Init PROVE IInv
  OBVIOUS
<1>1. /\ state = [k \in CACHES |-> "down"] /\ obj_num = [k \in CACHES |-> 0] /\ pg_orhas = [k \in CACHES |-> 0]
      /\ list = [k \in CACHES |-> NoLists] /\ slab = [b \in BLOCKS |-> NoSlab]
      /\ pgtype = [b \in BLOCKS |-> "BUDDY"] /\ avail = BLOCKS /\ live = {} /\ panic = FALSE
  BY DEF Init
<1>2. \A k \in CACHES, l \in LISTS : list[k][l] = <<>>
  BY <1>1 DEF NoLists
<1>3. \A k \in CACHES : Slabs(k) = {}
  BY <1>2, EmptyListOK DEF Slabs
<1>4. TypeOK
  <2>1. NoLists \in [LISTS -> Seq(BLOCKS)]
    BY EmptyListOK DEF NoLists, ListOK
  <2> QED
    BY <1>1, <2>1 DEF TypeOK
<1>5. LiveInv /\ BlocksInv
  BY <1>1, <1>3 DEF LiveInv, BlocksInv
<1>6. ASSUME NEW k \in CACHES PROVE CacheInv(k)
  <2>1. ObjectsInv(k)
    BY <1>3 DEF ObjectsInv
  <2>2. ListInv(k)
    BY <1>2, EmptyListOK DEF ListInv
  <2>3. CountInv(k)
    BY <1>1, <1>2 DEF CountInv
  <2> QED
    BY <2>1, <2>2, <2>3 DEF CacheInv
<1> QED
  BY <1>4, <1>5, <1>6 DEF IInv

LEMMA NextIInv == IInv /\ [Next]_vars => IInv'
<1> SUFFICES ASSUME IInv, [Next]_vars PROVE IInv'
  OBVIOUS
<1>1. ASSUME NEW k \in CACHES, CacheInit(k) PROVE IInv'
  BY <1>1, CacheInitStep
<1>2. ASSUME NEW k \in CACHES, CacheInitFail(k) PROVE IInv'
  BY <1>2, CacheInitFailStep
<1>3. ASSUME NEW k \in CACHES, CacheDeinit(k) PROVE IInv'
  BY <1>3, CacheDeinitStep
<1>4. ASSUME NEW k \in CACHES, ObjTake(k) PROVE IInv'
  BY <1>4, ObjTakeStep
<1>5. ASSUME NEW k \in CACHES, NEW b \in BLOCKS, CacheInitBlock(k, b) PROVE IInv'
  <2> DEFINE v == IF pg_orhas[k] + 1 = INIT_ALLOC[k] THEN "up" ELSE "init"
  <2>1. state[k] = "init" /\ OBJ_ALL[k] > 0 /\ AddSlab(k, b) /\ state' = [state EXCEPT ![k] = v]
    BY <1>5 DEF CacheInitBlock
  <2>2. pg_orhas[k] \in Int /\ pg_orhas[k] < INIT_ALLOC[k]
    BY <2>1 DEF IInv, TypeOK, CacheInv, CountInv
  <2>3. INIT_ALLOC[k] \in Nat /\ PG_ORLIMIT[k] \in Nat /\ INIT_ALLOC[k] <= PG_ORLIMIT[k]
    BY SlabAssumption
  <2>4. pg_orhas[k] < PG_ORLIMIT[k]
    BY <2>2, <2>3
  <2>5. v = "init" => pg_orhas[k] + 1 < INIT_ALLOC[k]
    BY <2>2, <2>3
  <2>6. v \in {"init", "up", "grown"} /\ state[k] # "down"
    BY <2>1
  <2> HIDE DEF v
  <2> QED
    BY <2>1, <2>4, <2>5, <2>6, AddSlabStep
<1>6. ASSUME NEW k \in CACHES, NEW b \in BLOCKS, ObjGrow(k, b) PROVE IInv'
  <2> DEFINE v == "grown"
  <2>1. /\ OBJ_ALL[k] > 0 /\ AddSlab(k, b) /\ state' = [state EXCEPT ![k] = v]
        /\ pg_orhas[k] < PG_ORLIMIT[k] /\ state[k] # "down"
    BY <1>6 DEF ObjGrow
  <2>2. v \in {"init", "up", "grown"} /\ v # "init"
    OBVIOUS
  <2> HIDE DEF v
  <2> QED
    BY <2>1, <2>2, AddSlabStep
<1>7. ASSUME NEW k \in CACHES, NEW o \in live, ObjFree(k, o[2], o[3]) PROVE IInv'
  BY <1>7, ObjFreeStep
<1>8. ASSUME UNCHANGED vars PROVE IInv'
  <2>1. /\ state' = state /\ obj_num' = obj_num /\ pg_orhas' = pg_orhas /\ list' = list
        /\ slab' = slab /\ pgtype' = pgtype /\ avail' = avail /\ live' = live /\ panic' = panic
    BY <1>8 DEF vars, cacheVars
  <2>2. \A k \in CACHES : CacheInv(k)' /\ Slabs(k)' = Slabs(k)
    BY <2>1, OtherCache DEF IInv
  <2> QED
    BY <2>1, <2>2 DEF IInv, TypeOK, LiveInv, BlocksInv, Objects
<1> QED
  BY <1>1, <1>2, <1>3, <1>4, <1>5, <1>6, <1>7, <1>8 DEF Next

(* The inductive invariant holds for any caches, blocks and limits.        *)
THEOREM Invariant == Spec => []IInv
<1> QED
  BY InitIInv, NextIInv, PTL DEF Spec

-----------------------------------------------------------------------------
(* The properties.                                                         *)

(* Following the index array from the head goes through the list.          *)
IsWalk(s, w) ==
    w = CHOOSE u : u = [j \in 0..s.obj_free |-> IF j = 0 THEN s.head ELSE s.idx[u[j - 1]]]

LEMMA WalkIsChain ==
    ASSUME NEW n \in Nat, NEW s, SlabOK(s, n), s.obj_free > 0, NEW w, IsWalk(s, w)
    PROVE  /\ {w[j] : j \in 0..(s.obj_free - 1)} = (0..(n - 1)) \ InUse(s, n)
           /\ w[s.obj_free - 1] = s.tail
<1> DEFINE f == s.obj_free
           Step(j, y) == IF j = 0 THEN s.head ELSE s.idx[y]
<1>1. f \in Nat /\ f > 0 /\ f - 1 \in Nat /\ f - 1 \in 0..f
  BY SlabFacts
<1>2. PICK q \in [1..f -> 0..(n - 1)] : Chain(s, n, q)
  BY DEF SlabOK
<1>3. /\ s.head = q[1] /\ s.tail = q[f] /\ s.idx[s.tail] = s.tail
      /\ \A i \in 1..(f - 1) : s.idx[q[i]] = q[i + 1]
      /\ \A x \in 0..(n - 1) : s.idx[x] = -1 <=> \A i \in 1..f : q[i] # x
  BY <1>1, <1>2 DEF Chain
<1> DEFINE At(j) == IF j < f THEN q[j + 1] ELSE s.tail
           good == [j \in 0..f |-> At(j)]
<1>4. At(0) = s.head
  BY <1>1, <1>3
<1>5. ASSUME NEW j \in 0..f, j # 0 PROVE s.idx[At(j - 1)] = At(j)
  <2>1. j \in 1..f /\ j - 1 < f /\ (j - 1) + 1 = j
    BY <1>1, <1>5
  <2>2. At(j - 1) = q[j]
    BY <2>1
  <2>3. CASE j < f
    <3>1. j \in 1..(f - 1)
      BY <1>1, <2>1, <2>3
    <3>2. At(j) = q[j + 1]
      BY <2>3
    <3> HIDE DEF At
    <3> QED
      BY <1>3, <2>2, <3>1, <3>2
  <2>4. CASE ~(j < f)
    <3>1. j = f /\ At(j) = s.tail
      BY <1>1, <2>1, <2>4
    <3> HIDE DEF At
    <3> QED
      BY <1>3, <2>2, <3>1
  <2> QED
    BY <2>3, <2>4
<1> HIDE DEF At
<1>6. good = [j \in 0..f |-> Step(j, good[j - 1])]
  <2>1. ASSUME NEW j \in 0..f PROVE At(j) = Step(j, good[j - 1])
    <3>1. CASE j = 0
      BY <1>4, <3>1
    <3>2. CASE j # 0
      <4>1. j - 1 \in 0..f
        BY <1>1, <3>2
      <4>2. good[j - 1] = At(j - 1)
        BY <4>1
      <4> HIDE DEF good
      <4> QED
        BY <1>5, <3>2, <4>2
    <3> QED
      BY <3>1, <3>2
  <2> QED
    BY <2>1
<1>7. w = CHOOSE u : u = [j \in 0..f |-> Step(j, u[j - 1])]
  BY Zenon DEF IsWalk
<1>8. w = [j \in 0..f |-> Step(j, w[j - 1])]
  <2> HIDE DEF good, Step, f
  <2> QED
    BY <1>6, <1>7, Zenon
<1> DEFINE Bad == {j \in Nat : j <= f /\ w[j] # At(j)}
<1>9. ASSUME Bad # {} PROVE FALSE
  <2>1. Bad \subseteq Nat
    OBVIOUS
  <2>2. PICK x \in Bad : \A y \in Bad : ~(y < x)
    BY <1>9, <2>1, LeastNatural
  <2>3. x \in Nat /\ x <= f /\ x \in 0..f
    BY <1>1
  <2>4. w[x] = Step(x, w[x - 1])
    BY <1>8, <2>3
  <2>5. x # 0
    BY <1>4, <2>4
  <2>6. x - 1 \in Nat /\ x - 1 <= f /\ x - 1 < x
    BY <1>1, <2>3, <2>5
  <2>7. w[x - 1] = At(x - 1)
    BY <2>2, <2>6
  <2>8. w[x] = At(x)
    BY <1>5, <2>3, <2>4, <2>5, <2>7
  <2> QED
    BY <2>8
<1>10. \A j \in 0..(f - 1) : w[j] = q[j + 1] /\ j + 1 \in 1..f
  <2> SUFFICES ASSUME NEW j \in 0..(f - 1) PROVE w[j] = q[j + 1] /\ j + 1 \in 1..f
    OBVIOUS
  <2>1. j \in Nat /\ j <= f /\ j < f /\ j + 1 \in 1..f
    BY <1>1
  <2>2. j \notin Bad
    BY <1>9
  <2>3. w[j] = At(j)
    BY <2>1, <2>2, Zenon
  <2> QED
    BY <2>1, <2>3 DEF At
<1>11. w[f - 1] = s.tail
  <2>1. f - 1 \in 0..(f - 1) /\ (f - 1) + 1 = f
    BY <1>1
  <2> QED
    BY <1>3, <1>10, <2>1
<1>12. {w[j] : j \in 0..(f - 1)} = (0..(n - 1)) \ InUse(s, n)
  <2>1. ASSUME NEW j \in 0..(f - 1) PROVE w[j] \in (0..(n - 1)) \ InUse(s, n)
    <3>1. j + 1 \in 1..f /\ w[j] = q[j + 1]
      BY <1>10
    <3>2. q[j + 1] \in 0..(n - 1)
      BY <3>1
    <3>3. s.idx[q[j + 1]] # -1
      BY <1>3, <3>1, <3>2
    <3> QED
      BY <3>1, <3>2, <3>3 DEF InUse
  <2>2. ASSUME NEW x \in (0..(n - 1)) \ InUse(s, n) PROVE \E j \in 0..(f - 1) : w[j] = x
    <3>1. s.idx[x] # -1
      BY DEF InUse
    <3>2. PICK i \in 1..f : q[i] = x
      BY <1>3, <3>1
    <3>3. i - 1 \in 0..(f - 1) /\ (i - 1) + 1 = i
      BY <1>1
    <3>4. w[i - 1] = x
      BY <1>10, <3>2, <3>3
    <3> QED
      BY <3>3, <3>4
  <2> QED
    BY <2>1, <2>2
<1> QED
  BY <1>11, <1>12

(* In every slab the list threaded through the index array holds exactly   *)
(* the objects that nobody has: slab_alloc never hands out an object that  *)
(* is in use and slab_free loses none, in any order of calls.              *)
THEOREM FreeListsAreExact == Spec => []FreeListExact
<1>1. IInv => FreeListExact
  <2> SUFFICES ASSUME IInv, NEW k \in CACHES, NEW b \in Slabs(k)
               PROVE  LET s       == slab[b]
                          inUse   == {i \in 0..(s.obj_all - 1) : <<k, b, i>> \in live}
                          walk[j \in 0..s.obj_free] == IF j = 0 THEN s.head ELSE s.idx[walk[j - 1]]
                      IN  /\ inUse = {i \in 0..(s.obj_all - 1) : s.idx[i] = -1}
                          /\ s.obj_free = s.obj_all - Cardinality(inUse)
                          /\ s.obj_free = 0 => s.head = -1 /\ s.tail = -1
                          /\ s.obj_free > 0 =>
                               /\ {walk[j] : j \in 0..(s.obj_free - 1)} = (0..(s.obj_all - 1)) \ inUse
                               /\ walk[s.obj_free - 1] = s.tail /\ s.idx[s.tail] = s.tail
    BY Zenon DEF FreeListExact
  <2> DEFINE n == OBJ_ALL[k]
             s == slab[b]
             inUse == {i \in 0..(s.obj_all - 1) : <<k, b, i>> \in live}
             walk[j \in 0..s.obj_free] == IF j = 0 THEN s.head ELSE s.idx[walk[j - 1]]
  <2>1. n \in Nat /\ SlabOK(s, n) /\ \A x \in Objects(k) : <<k, b, x>> \in live <=> s.idx[x] = -1
    BY SlabAssumption DEF IInv, CacheInv, ObjectsInv
  <2>2. IsWalk(s, walk)
    BY Zenon DEF IsWalk
  <2> HIDE DEF s, walk, n
  <2>3. /\ s.obj_all = n /\ s.obj_free = 0 => s.head = -1 /\ s.tail = -1
    BY <2>1, SlabFacts
  <2>4. s.obj_all = n /\ (s.obj_free > 0 => s.idx[s.tail] = s.tail)
    BY <2>1, SlabFacts
  <2>5. inUse = InUse(s, n) /\ inUse = {i \in 0..(s.obj_all - 1) : s.idx[i] = -1}
    BY <2>1, <2>4 DEF InUse, Objects, n
  <2>6. s.obj_free = s.obj_all - Cardinality(inUse)
    BY <2>1, <2>4, <2>5 DEF SlabOK
  <2>7. s.obj_free > 0 => /\ {walk[j] : j \in 0..(s.obj_free - 1)} = (0..(s.obj_all - 1)) \ inUse
                          /\ walk[s.obj_free - 1] = s.tail
    BY <2>1, <2>2, <2>4, <2>5, WalkIsChain
  <2> HIDE DEF inUse
  <2> QED
    BY <2>3, <2>4, <2>5, <2>6, <2>7, Zenon DEF s, walk, inUse
<1> QED
  BY <1>1, Invariant, PTL

(* No ASSERT of slab.c fails, the three lists of a cache sort its slabs by *)
(* what they have left, and the counts kmem_obj_alloc decides by are what  *)
(* the lists hold, within the limit.                                       *)
THEOREM ListsAreExact == Spec => []ListsExact
<1>1. IInv => ListsExact
  <2> SUFFICES ASSUME IInv PROVE ListsExact
    OBVIOUS
  <2>1. ~panic
    BY DEF IInv, TypeOK
  <2>2. ASSUME NEW k \in CACHES, state[k] # "down"
        PROVE  /\ \A l \in LISTS : Cardinality(Listed(list[k][l])) = Len(list[k][l])
               /\ pg_orhas[k] = Len(list[k]["free"]) + Len(list[k]["full"]) + Len(list[k]["partial"])
               /\ pg_orhas[k] = Cardinality(Slabs(k)) /\ pg_orhas[k] <= PG_ORLIMIT[k]
               /\ obj_num[k] = Cardinality(FreeObjects(k))
    BY <2>2 DEF IInv, CacheInv, ListInv, ListOK, CountInv
  <2>3. ASSUME NEW k \in CACHES
        PROVE  /\ \A b \in Listed(list[k]["free"]) : slab[b].obj_free = slab[b].obj_all
               /\ \A b \in Listed(list[k]["full"]) : slab[b].obj_free = 0
               /\ \A b \in Listed(list[k]["partial"]) : slab[b].obj_free \in 1..(slab[b].obj_all - 1)
    BY DEF IInv, CacheInv, ListInv, Fits, LISTS
  <2> QED
    BY <2>1, <2>2, <2>3 DEF ListsExact
<1> QED
  BY <1>1, Invariant, PTL

(* A block of pages is with the page allocator or in exactly one cache,    *)
(* and marked SLAB_ALLOCATOR exactly while a cache has it.                 *)
THEOREM BlocksAreConserved == Spec => []BlocksConserved
<1>1. IInv => BlocksConserved
  <2> SUFFICES ASSUME IInv, NEW b \in BLOCKS
               PROVE  LET owners == {k \in CACHES : b \in Slabs(k)} IN
                      /\ (b \in avail) <=> (owners = {})
                      /\ Cardinality(owners) <= 1
                      /\ (pgtype[b] = "SLAB") <=> (owners # {})
    BY DEF BlocksConserved
  <2> DEFINE owners == {k \in CACHES : b \in Slabs(k)}
  <2>1. (b \in avail) <=> (owners = {})
    BY DEF IInv, BlocksInv
  <2>2. (pgtype[b] = "SLAB") <=> (owners # {})
    BY DEF IInv, BlocksInv
  <2>3. owners = {} \/ \E k : owners = {k}
    BY DEF IInv, BlocksInv
  <2>4. Cardinality(owners) \in {0, 1}
    BY <2>3, FS_EmptySet, FS_Singleton
  <2> QED
    BY <2>1, <2>2, <2>4
<1> QED
  BY <1>1, Invariant, PTL
=============================================================================
