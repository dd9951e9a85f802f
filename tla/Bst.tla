--------------------------------- MODULE Bst ---------------------------------
(***************************************************************************)
(* Binary search trees with parent pointers, the part that avlmini.c and   *)
(* rbtree.c share.  A node is its key, 0 is NULL; side 1 is left, 2 right. *)
(* A tree has a root, the children, the parents (a node that is in no tree *)
(* is its own parent) and a number for each node: its height or colour.    *)
(***************************************************************************)
EXTENDS Integers

CONSTANT KEYS    \* the nodes

Other(d) == 3 - d

EmptyTree ==
    [root |-> 0, kid |-> [k \in KEYS |-> <<0, 0>>], par |-> [k \in KEYS |-> k],
     num |-> [k \in KEYS |-> 0]]

InTree(t, n) == t.par[n] # n

SetParent(t, n, p) == IF n = 0 THEN t ELSE [t EXCEPT !.par[n] = p]

(* The link of parent, or of the root, that pointed to old.                *)
ChildReplace(t, old, new, parent) ==
    IF parent = 0 THEN [t EXCEPT !.root = new]
    ELSE [t EXCEPT !.kid[parent][IF t.kid[parent][1] = old THEN 1 ELSE 2] = new]

(* Seeded fault: the subtree that changes sides keeps its parent.          *)
RotateKeepsParent(t, n, d) ==
    LET up == t.kid[n][Other(d)]
        t1 == [t EXCEPT !.kid[n][Other(d)] = t.kid[up][d]]
        t2 == [t1 EXCEPT !.kid[up][d] = n, !.par[up] = t.par[n]]
    IN  [ChildReplace(t2, n, up, t.par[n]) EXCEPT !.par[n] = up]

(* Node n goes down on side d; its child on the other side comes up.       *)
Rotate(t, n, d) ==
    LET up == t.kid[n][Other(d)]
        t1 == SetParent([t EXCEPT !.kid[n][Other(d)] = t.kid[up][d]], t.kid[up][d], n)
        t2 == [t1 EXCEPT !.kid[up][d] = n, !.par[up] = t.par[n]]
    IN  [ChildReplace(t2, n, up, t.par[n]) EXCEPT !.par[n] = up]

(* The last node on side d below n.                                        *)
RECURSIVE Extreme(_, _, _)
Extreme(t, n, d) == IF n = 0 \/ t.kid[n][d] = 0 THEN n ELSE Extreme(t, t.kid[n][d], d)

(* The first ancestor that n is not on side d of.                          *)
RECURSIVE Ascend(_, _, _)
Ascend(t, n, d) ==
    LET p == t.par[n] IN IF p = 0 \/ t.kid[p][d] # n THEN p ELSE Ascend(t, p, d)

(* The neighbour of n in the order on side d.                              *)
Neighbour(t, n, d) ==
    IF t.kid[n][d] # 0 THEN Extreme(t, t.kid[n][d], Other(d)) ELSE Ascend(t, n, d)

(* new takes the place of victim, which leaves the tree.                   *)
ReplaceNode(t, victim, new) ==
    LET t1 == ChildReplace(t, victim, new, t.par[victim])
        t2 == SetParent(SetParent(t1, t.kid[victim][1], new), t.kid[victim][2], new)
    IN  [t2 EXCEPT !.kid[new] = t.kid[victim], !.par[new] = t.par[victim],
                   !.num[new] = t.num[victim], !.par[victim] = victim, !.kid[victim] = <<0, 0>>,
                   !.num[victim] = 0]

(* The search of avl_node_add: where key k is, or would be linked.         *)
RECURSIVE Descend(_, _, _)
Descend(t, k, n) ==
    IF n = 0 \/ n = k THEN n
    ELSE LET next == t.kid[n][IF k < n THEN 1 ELSE 2]
         IN  IF next = 0 THEN n ELSE Descend(t, k, next)

(* A leaf under the node the search ended at.                              *)
Link(t, k) ==
    LET p  == Descend(t, k, t.root)
        t1 == [t EXCEPT !.par[k] = p, !.kid[k] = <<0, 0>>, !.num[k] = 0]
    IN  IF p = 0 THEN [t1 EXCEPT !.root = k]
        ELSE [t1 EXCEPT !.kid[p][IF k < p THEN 1 ELSE 2] = k]

Forget(t, k) == [t EXCEPT !.par[k] = k, !.kid[k] = <<0, 0>>, !.num[k] = 0]
=============================================================================
