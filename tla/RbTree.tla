------------------------------- MODULE RbTree -------------------------------
(***************************************************************************)
(* The red-black tree of lib/dstructer/rbtree.c.  num is the colour of a   *)
(* node, 0 red and 1 black; the augmented value of a node is aug.          *)
(***************************************************************************)
EXTENDS Bst

Black(t, n) == n = 0 \/ t.num[n] = 1
Paint(t, n, c) == [t EXCEPT !.num[n] = c]

(* __rb_rotate_left and __rb_rotate_right; rb_first and rb_last; rb_next   *)
(* and rb_prev.                                                            *)
__rb_rotate(t, n, d) == Rotate(t, n, d)
rb_first(t, d) == Extreme(t, t.root, d)
rb_next(t, n, d) == Neighbour(t, n, d)

(* The loop of rb_insert_color: n is red.  A red uncle moves the conflict  *)
(* two levels up, a black one ends it with one or two rotations.           *)
RECURSIVE InsertFix(_, _)
InsertFix(t, n) ==
    LET p == t.par[n]
        g == t.par[p]
        d == IF p = t.kid[g][1] THEN 1 ELSE 2
        u == t.kid[g][Other(d)]
        p1 == IF t.kid[p][Other(d)] = n THEN n ELSE p
        t1 == IF p1 = n THEN __rb_rotate(t, p, d) ELSE t
    IN  IF p = 0 \/ Black(t, p) THEN t
        ELSE IF ~Black(t, u) THEN InsertFix(Paint(Paint(Paint(t, u, 1), p, 1), g, 0), g)
        ELSE InsertFix(__rb_rotate(Paint(Paint(t1, p1, 1), g, 0), g, Other(d)), IF p1 = n THEN p ELSE n)

rb_insert_color(t, n) == LET t1 == InsertFix(t, n) IN Paint(t1, t1.root, 1)

(* __rb_erase_color: the paths through n, which may be NULL, under p are   *)
(* one black node short.                                                   *)
RECURSIVE __rb_erase_color(_, _, _)
__rb_erase_color(t, n, p) ==
    LET d  == IF t.kid[p][1] = n THEN 1 ELSE 2
        o0 == t.kid[p][Other(d)]
        t1 == IF Black(t, o0) THEN t ELSE __rb_rotate(Paint(Paint(t, o0, 1), p, 0), p, d)
        o1 == t1.kid[p][Other(d)]
        near == t1.kid[o1][d]
        t2 == IF Black(t1, t1.kid[o1][Other(d)])
              THEN __rb_rotate(Paint(Paint(t1, near, 1), o1, 0), o1, Other(d)) ELSE t1
        o2 == t2.kid[p][Other(d)]
        t3 == Paint(Paint(Paint(t2, o2, t2.num[p]), p, 1), t2.kid[o2][Other(d)], 1)
        t4 == __rb_rotate(t3, p, d)
    IN  IF ~Black(t, n) \/ n = t.root THEN IF n = 0 THEN t ELSE Paint(t, n, 1)
        ELSE IF Black(t1, t1.kid[o1][1]) /\ Black(t1, t1.kid[o1][2])
        THEN __rb_erase_color(Paint(t1, o1, 0), p, t1.par[p])
        ELSE Paint(t4, t4.root, 1)

(* rb_erase: a node with two children is replaced by the next one, in its  *)
(* colour; a black node that is gone is made up for.                       *)
rb_erase(t, n) ==
    LET child == IF t.kid[n][1] = 0 THEN t.kid[n][2] ELSE t.kid[n][1]
        t1    == ChildReplace(SetParent(t, child, t.par[n]), n, child, t.par[n])
        next  == Extreme(t, t.kid[n][2], 1)
        t2    == ChildReplace(t, n, next, t.par[n])
        low   == t.kid[next][2]
        down  == t.par[next]
        t3    == IF down = n THEN t2
                 ELSE SetParent([SetParent(t2, low, down) EXCEPT !.kid[down][1] = low,
                                    !.kid[next][2] = t.kid[n][2]], t.kid[n][2], next)
        t4    == SetParent([t3 EXCEPT !.par[next] = t.par[n], !.num[next] = t.num[n],
                                      !.kid[next][1] = t.kid[n][1]], t.kid[n][1], next)
    IN  IF t.kid[n][1] = 0 \/ t.kid[n][2] = 0
        THEN IF t.num[n] = 1 THEN __rb_erase_color(t1, child, t.par[n]) ELSE t1
        ELSE IF t.num[next] = 1 THEN __rb_erase_color(t4, low, IF down = n THEN next ELSE down) ELSE t4

rb_replace_node(t, victim, new) == ReplaceNode(t, victim, new)

-----------------------------------------------------------------------------
(* The augmented value kept here is the number of nodes of a subtree;      *)
(* Augment is the callback.                                                *)
Aug(a, n) == IF n = 0 THEN 0 ELSE a[n]
Augment(t, a, n) == IF n = 0 THEN a ELSE [a EXCEPT ![n] = 1 + Aug(a, t.kid[n][1]) + Aug(a, t.kid[n][2])]

(* rb_augment_path: n, then the sibling and the parent at every level.     *)
RECURSIVE rb_augment_path(_, _, _)
rb_augment_path(t, a, n) ==
    LET a1 == Augment(t, a, n)
        p  == t.par[n]
        s  == IF n = t.kid[p][1] /\ t.kid[p][2] # 0 THEN t.kid[p][2] ELSE t.kid[p][1]
    IN  IF p = 0 THEN a1 ELSE rb_augment_path(t, Augment(t, a1, s), p)

rb_augment_insert(t, a, n) ==
    rb_augment_path(t, a, IF t.kid[n][1] # 0 THEN t.kid[n][1]
                          ELSE IF t.kid[n][2] # 0 THEN t.kid[n][2] ELSE n)

(* The deepest node the erasure of n will touch.                           *)
rb_augment_erase_begin(t, n) ==
    LET next == rb_next(t, n, 2) IN
    IF t.kid[n] = <<0, 0>> THEN t.par[n]
    ELSE IF t.kid[n][2] = 0 THEN t.kid[n][1]
    ELSE IF t.kid[n][1] = 0 THEN t.kid[n][2]
    ELSE IF t.kid[next][2] # 0 THEN t.kid[next][2]
    ELSE IF t.par[next] # n THEN t.par[next] ELSE next

rb_augment_erase_end(t, a, n) == IF n = 0 THEN a ELSE rb_augment_path(t, a, n)

-----------------------------------------------------------------------------
RECURSIVE BlackHeights(_, _)
BlackHeights(t, n) ==
    IF n = 0 THEN {0}
    ELSE {h + t.num[n] : h \in BlackHeights(t, t.kid[n][1]) \cup BlackHeights(t, t.kid[n][2])}

RECURSIVE Size(_, _)
Size(t, n) == IF n = 0 THEN 0 ELSE 1 + Size(t, t.kid[n][1]) + Size(t, t.kid[n][2])

RedBlack(t, a) ==
    /\ Black(t, t.root)
    /\ \A h, k \in BlackHeights(t, t.root) : h = k
    /\ \A n \in KEYS : InTree(t, n) =>
         a[n] = Size(t, n) /\ (t.num[n] = 0 => t.par[n] # 0 /\ Black(t, t.par[n]))
=============================================================================
