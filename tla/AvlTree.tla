------------------------------- MODULE AvlTree -------------------------------
(***************************************************************************)
(* The AVL tree that holds the areas of an address space                   *)
(* (lib/dstructer/avlmini.c).  num is the height of a node.                *)
(***************************************************************************)
EXTENDS Bst

(* avl_node_first and avl_node_last, avl_node_next and avl_node_prev.      *)
avl_node_first(t, d) == Extreme(t, t.root, d)
avl_node_next(t, n, d) == Neighbour(t, n, d)

Max2(x, y) == IF x < y THEN y ELSE x
Height(t, n) == IF n = 0 THEN 0 ELSE t.num[n]
HeightOf(t, n) == Max2(Height(t, t.kid[n][1]), Height(t, t.kid[n][2])) + 1
Diff(t, n) == Height(t, t.kid[n][1]) - Height(t, t.kid[n][2])

_avl_node_height_update(t, n) == [t EXCEPT !.num[n] = HeightOf(t, n)]

(* _avl_node_fix_l (d = 1) and _avl_node_fix_r: the other side of n is too *)
(* high; the node that comes up and the tree.                              *)
_avl_node_fix(t, n, d) ==
    LET high == t.kid[n][Other(d)]
        up   == IF Height(t, t.kid[high][d]) > Height(t, t.kid[high][Other(d)])
                THEN t.kid[high][d] ELSE high
        t1   == IF up = high THEN t
                ELSE _avl_node_height_update(
                        _avl_node_height_update(Rotate(t, high, Other(d)), high), up)
        t2   == Rotate(t1, n, d)
    IN  [t |-> _avl_node_height_update(_avl_node_height_update(t2, n), up), n |-> up]

Fixed(t, n) ==
    IF Diff(t, n) <= -2 THEN _avl_node_fix(t, n, 1)
    ELSE IF Diff(t, n) >= 2 THEN _avl_node_fix(t, n, 2)
    ELSE [t |-> t, n |-> n]

RECURSIVE _avl_node_rebalance(_, _)
_avl_node_rebalance(t, n) ==
    IF n = 0 \/ (t.num[n] = HeightOf(t, n) /\ Diff(t, n) \in -1..1) THEN t
    ELSE LET f == Fixed(_avl_node_height_update(t, n), n)
         IN  _avl_node_rebalance(f.t, f.t.par[f.n])

(* The loop of avl_node_post_insert, which ends at the first height that   *)
(* is right.                                                               *)
RECURSIVE PostInsert(_, _)
PostInsert(t, n) ==
    IF n = 0 \/ t.num[n] = HeightOf(t, n) THEN t
    ELSE LET f == Fixed(_avl_node_height_update(t, n), n) IN PostInsert(f.t, f.t.par[f.n])

avl_node_post_insert(t, n) == PostInsert([t EXCEPT !.num[n] = 1], t.par[n])

(* avl_node_add and avl_tree_add: a key that is there is refused.          *)
avl_node_add(t, k) ==
    IF t.root # 0 /\ Descend(t, k, t.root) = k THEN t ELSE avl_node_post_insert(Link(t, k), k)

(* Seeded fault: rebalancing starts at the parent of the node erased.      *)
EraseFromAbove(t, n) ==
    LET child == IF t.kid[n][1] = 0 THEN t.kid[n][2] ELSE t.kid[n][1]
        t1    == SetParent(ChildReplace(t, n, child, t.par[n]), child, t.par[n])
        next  == Extreme(t, t.kid[n][2], 1)
        down  == t.par[next]
        t2    == ChildReplace(SetParent(t, t.kid[next][2], down), next, t.kid[next][2], down)
        t3    == [t2 EXCEPT !.kid[next] = t2.kid[n], !.par[next] = t.par[n], !.num[next] = t.num[n]]
        t4    == ChildReplace(t3, n, next, t.par[n])
        t5    == SetParent(SetParent(t4, t4.kid[next][1], next), t4.kid[next][2], next)
    IN  IF t.kid[n][1] = 0 \/ t.kid[n][2] = 0 THEN _avl_node_rebalance(t1, t.par[n])
        ELSE _avl_node_rebalance(t5, t.par[n])

(* avl_node_erase: a node with two children is replaced by the next one.   *)
avl_node_erase(t, n) ==
    LET child == IF t.kid[n][1] = 0 THEN t.kid[n][2] ELSE t.kid[n][1]
        t1    == SetParent(ChildReplace(t, n, child, t.par[n]), child, t.par[n])
        next  == Extreme(t, t.kid[n][2], 1)
        down  == t.par[next]
        t2    == ChildReplace(SetParent(t, t.kid[next][2], down), next, t.kid[next][2], down)
        t3    == [t2 EXCEPT !.kid[next] = t2.kid[n], !.par[next] = t.par[n], !.num[next] = t.num[n]]
        t4    == ChildReplace(t3, n, next, t.par[n])
        t5    == SetParent(SetParent(t4, t4.kid[next][1], next), t4.kid[next][2], next)
    IN  IF t.kid[n][1] = 0 \/ t.kid[n][2] = 0 THEN _avl_node_rebalance(t1, t.par[n])
        ELSE _avl_node_rebalance(t5, IF down = n THEN next ELSE down)

(* avl_tree_remove: nothing happens to a node that is in no tree.          *)
avl_tree_remove(t, n) == IF InTree(t, n) THEN Forget(avl_node_erase(t, n), n) ELSE t

avl_tree_replace(t, victim, new) == ReplaceNode(t, victim, new)

(* avl_node_tear: one leaf, the first below from, leaves the tree.         *)
RECURSIVE Sink(_, _)
Sink(t, n) ==
    IF t.kid[n][1] # 0 THEN Sink(t, t.kid[n][1])
    ELSE IF t.kid[n][2] # 0 THEN Sink(t, t.kid[n][2]) ELSE n

avl_node_tear(t, from) ==
    LET n == Sink(t, IF from = 0 THEN t.root ELSE from)
    IN  [t |-> Forget(ChildReplace(t, n, 0, t.par[n]), n), n |-> n, next |-> t.par[n]]

(* avl_tree_clear: the nodes in the order they are torn off.               *)
RECURSIVE Clear(_, _, _)
Clear(t, from, gone) ==
    IF t.root = 0 THEN [t |-> t, gone |-> gone]
    ELSE LET r == avl_node_tear(t, from) IN Clear(r.t, r.next, gone \cup {r.n})

avl_tree_clear(t) == Clear(t, 0, {})

(* avl_tree_nearest: the last node of the search.                          *)
avl_tree_nearest(t, k) == IF t.root = 0 THEN 0 ELSE Descend(t, k, t.root)

-----------------------------------------------------------------------------
RECURSIVE TrueHeight(_, _)
TrueHeight(t, n) ==
    IF n = 0 THEN 0 ELSE 1 + Max2(TrueHeight(t, t.kid[n][1]), TrueHeight(t, t.kid[n][2]))

Balanced(t) ==
    \A n \in KEYS : InTree(t, n) => t.num[n] = TrueHeight(t, n) /\ Diff(t, n) \in -1..1
=============================================================================
