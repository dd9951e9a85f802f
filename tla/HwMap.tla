-------------------------------- MODULE HwMap --------------------------------
(***************************************************************************)
(* What hw_mmap, hw_unmap and hw_unmap_all promise vm.c about one page     *)
(* table (the comments of include/mm/vm.h): a table is a function from     *)
(* virtual to physical pages; a mapping succeeds as a whole or changes     *)
(* nothing, -EEXIST is said only when a page of the range is mapped, and   *)
(* unmapping removes the range and nothing else.                           *)
(***************************************************************************)
EXTENDS Integers

CONSTANTS VAS,     \* virtual pages, 0..n
          PAS,     \* physical pages a mapping may start at
          None     \* not mapped

VARIABLES map,     \* [VAS -> physical page or None]
          call     \* the last call and its result

Range(va, n) == va..(va + n - 1)

MapRange(m, va, n, pa) ==
    [v \in DOMAIN m |-> IF v \in Range(va, n) THEN pa + (v - va) ELSE m[v]]

UnmapRange(m, va, n) == [v \in DOMAIN m |-> IF v \in Range(va, n) THEN None ELSE m[v]]

Init ==
    /\ DOMAIN map = VAS    \* what a new table, or the kernel's, translates
    /\ call = [op |-> "none", va |-> 0, n |-> 0, ret |-> "OK"]

Mmap(c) ==
    /\ c.op = "mmap"
    /\ Range(c.va, c.n) \subseteq VAS
    /\ \/ /\ c.ret = "OK"
          /\ \A v \in Range(c.va, c.n) : map[v] = None
          /\ \E pa \in PAS : map' = MapRange(map, c.va, c.n, pa)
       \/ /\ c.ret = "EEXIST"
          /\ \E v \in Range(c.va, c.n) : map[v] # None
          /\ UNCHANGED map
       \/ /\ c.ret = "ENOMEM"
          /\ UNCHANGED map

Unmap(c) == c.op = "unmap" /\ c.ret = "OK" /\ map' = UnmapRange(map, c.va, c.n)

UnmapAll(c) == c.op = "unmap_all" /\ c.ret = "OK" /\ map' = [v \in VAS |-> None]

Calls == [op : {"mmap", "unmap", "unmap_all"}, va : VAS, n : Nat, ret : {"OK", "EEXIST", "ENOMEM"}]

Next ==
    /\ call' \in Calls
    /\ Mmap(call') \/ Unmap(call') \/ UnmapAll(call')

Spec == Init /\ [][Next]_<<map, call>>
=============================================================================
