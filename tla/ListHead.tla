------------------------------ MODULE ListHead ------------------------------
(***************************************************************************)
(* The doubly linked lists of include/aco/list.h at the level of their     *)
(* pointers: p = [next, prev], both functions on heads and nodes.  A node  *)
(* in no list points to NULL (INIT_NODE, list_del).                        *)
(***************************************************************************)
EXTENDS Sequences, Naturals, FiniteSets, TLC

CONSTANT NULL

Set(f, updates) == updates @@ f

INIT_LIST_HEAD(p, h) == [next |-> Set(p.next, h :> h), prev |-> Set(p.prev, h :> h)]

(* list_add: behind h, which is a head or a node (node_add_aft).           *)
list_add(p, n, h) ==
    LET next == p.next[h]
    IN  [next |-> Set(p.next, n :> next @@ h :> n), prev |-> Set(p.prev, next :> n @@ n :> h)]

(* list_add_tail: before h (node_add_bef).                                 *)
list_add_tail(p, n, h) ==
    LET prev == p.prev[h]
    IN  [next |-> Set(p.next, prev :> n @@ n :> h), prev |-> Set(p.prev, n :> prev @@ h :> n)]

list_del(p, n) ==
    [next |-> Set(p.next, n :> NULL @@ p.prev[n] :> p.next[n]),
     prev |-> Set(p.prev, n :> NULL @@ p.next[n] :> p.prev[n])]

list_del_init(p, n) == INIT_LIST_HEAD(list_del(p, n), n)

list_empty(p, h) == p.next[h] = h
list_is_singular(p, h) == ~list_empty(p, h) /\ p.prev[h] = p.next[h]

(* list_splice: the nodes of l go behind h; l is not touched.              *)
list_splice(p, l, h) ==
    IF list_empty(p, l) THEN p
    ELSE [next |-> Set(p.next, h :> p.next[l] @@ p.prev[l] :> p.next[h]),
          prev |-> Set(p.prev, p.next[l] :> h @@ p.next[h] :> p.prev[l])]

list_splice_tail(p, l, h) ==
    IF list_empty(p, l) THEN p
    ELSE [next |-> Set(p.next, p.prev[l] :> h @@ p.prev[h] :> p.next[l]),
          prev |-> Set(p.prev, h :> p.prev[l] @@ p.next[l] :> p.prev[h])]

list_splice_init(p, l, h) == INIT_LIST_HEAD(list_splice(p, l, h), l)
list_splice_tail_init(p, l, h) == INIT_LIST_HEAD(list_splice_tail(p, l, h), l)

(* list_cut_position: from the first node of `from` up to n go to `to`.    *)
list_cut_position(p, to, from, n) ==
    LET first == p.next[from]
        p1 == [next |-> Set(p.next, from :> p.next[n]), prev |-> Set(p.prev, p.next[n] :> from)]
        p2 == [next |-> Set(p1.next, n :> to @@ to :> first), prev |-> Set(p1.prev, to :> n)]
    IN  IF list_empty(p, from) THEN p
        ELSE IF from = n THEN INIT_LIST_HEAD(p, to)
        ELSE [p2 EXCEPT !.prev = Set(@, first :> to)]

list_move(p, n, h) == list_add(list_del(p, n), n, h)
list_move_tail(p, n, h) == list_add_tail(list_del(p, n), n, h)

(* list_for_each from head h along f, which is next or prev: the nodes in  *)
(* the order they are visited, at most max of them.                        *)
RECURSIVE Visit(_, _, _, _)
Visit(f, h, n, max) ==
    IF n = h \/ n = NULL \/ max = 0 THEN <<>> ELSE <<n>> \o Visit(f, h, f[n], max - 1)

list_for_each(p, h) == Visit(p.next, h, p.next[h], Cardinality(DOMAIN p.next))
ListBackwards(p, h) == Visit(p.prev, h, p.prev[h], Cardinality(DOMAIN p.prev))
=============================================================================
