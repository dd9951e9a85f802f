------------------------------- MODULE MCSlab -------------------------------
(* Bounded instances of the object caches: k1 has three objects to a slab, *)
(* k2 one, so that a slab goes from free to full at once, and an object of *)
(* k3 fits in no slab.                                                     *)
EXTENDS Slab

CONSTANTS k1, k2, k3

ObjAll == [k \in CACHES |-> CASE k = k1 -> 3 [] k = k2 -> 1 [] k = k3 -> 0]
Limit == [k \in CACHES |-> IF k = k1 THEN 2 ELSE 1]
InitAlloc == [k \in CACHES |-> IF k = k1 THEN 2 ELSE IF k = k2 THEN 0 ELSE 1]
=============================================================================
