----------------------------- MODULE Containers -----------------------------
(***************************************************************************)
(* The containers of the kernel under any sequence of their operations:    *)
(* the AVL tree, the red-black tree with an augmented value, the linked    *)
(* list, and the block allocator (module/mm/allocators/memblock.c), which  *)
(* threads a list through the free blocks.  A behaviour exercises one of   *)
(* them.  `has` is what the container should hold.                         *)
(***************************************************************************)
EXTENDS Integers, FiniteSets, SequencesExt

CONSTANTS KEYS,     \* nodes of the trees
          NODES,    \* nodes of the lists, blocks of the allocator
          H1, H2,   \* heads of the lists
          BOUNDS,   \* bound: numbers of blocks of the allocator
          NULL

ASSUME KeysAssumption == KEYS \subseteq Nat \ {0}   \* 0 is NULL

Avl == INSTANCE AvlTree
Rb == INSTANCE RbTree
L == INSTANCE ListHead

VARIABLES kind,    \* which container
          t, aug,  \* a tree and the augmented values of its nodes
          p,       \* the pointers of the lists
          hdr,     \* mmblock_hdr_t: total_block, rest_block
          has      \* the keys in the tree; the sequences in the lists

vars == <<kind, t, aug, p, hdr, has>>

NoPointers == [next |-> [n \in NODES \cup {H1, H2} |-> IF n \in NODES THEN NULL ELSE n],
               prev |-> [n \in NODES \cup {H1, H2} |-> IF n \in NODES THEN NULL ELSE n]]

(* memblock_allocator_init: the first n blocks, each at the tail.          *)
memblock_allocator_init(n) == FoldLeft(LAMBDA q, b : L!list_add_tail(q, b, H1), NoPointers, [i \in 1..n |-> i])

Init ==
    /\ t = Avl!EmptyTree
    /\ aug = [k \in KEYS |-> 0]
    /\ \/ kind \in {"avl", "rb"} /\ p = NoPointers /\ hdr = [total |-> 0, rest |-> 0] /\ has = {}
       \/ kind = "list" /\ p = NoPointers /\ hdr = [total |-> 0, rest |-> 0] /\ has = <<<<>>, <<>>>>
       \/ \E n \in BOUNDS : /\ kind = "memblock"
                            /\ p = memblock_allocator_init(n)
                            /\ hdr = [total |-> n, rest |-> n]
                            /\ has = <<[i \in 1..n |-> i], <<>>>>

-----------------------------------------------------------------------------
(* Trees                                                                   *)
AvlAdd(k) ==
    /\ kind = "avl"
    /\ t' = Avl!avl_node_add(t, k)
    /\ has' = has \cup {k}
    /\ UNCHANGED <<kind, aug, p, hdr>>

AvlRemove(k) ==
    /\ kind = "avl"
    /\ t' = Avl!avl_tree_remove(t, k)
    /\ has' = has \ {k}
    /\ UNCHANGED <<kind, aug, p, hdr>>

AvlClear ==
    /\ kind = "avl"
    /\ t' = Avl!avl_tree_clear(t).t
    /\ has' = has \ Avl!avl_tree_clear(t).gone
    /\ UNCHANGED <<kind, aug, p, hdr>>

RbInsert(k) ==
    /\ kind = "rb" /\ k \notin has
    /\ t' = Rb!rb_insert_color(Rb!Link(t, k), k)
    /\ aug' = Rb!rb_augment_insert(t', aug, k)
    /\ has' = has \cup {k}
    /\ UNCHANGED <<kind, p, hdr>>

RbErase(k) ==
    /\ kind = "rb" /\ k \in has
    /\ t' = Rb!Forget(Rb!rb_erase(t, k), k)
    /\ aug' = [Rb!rb_augment_erase_end(t', aug, Rb!rb_augment_erase_begin(t, k)) EXCEPT ![k] = 0]
    /\ has' = has \ {k}
    /\ UNCHANGED <<kind, p, hdr>>

(* A node replaces one that has the same place in the order.               *)
Replace(v, n) ==
    /\ kind \in {"avl", "rb"} /\ v \in has /\ n \notin has
    /\ \A k \in has \ {v} : k < v <=> k < n
    /\ t' = IF kind = "avl" THEN Avl!avl_tree_replace(t, v, n) ELSE Rb!rb_replace_node(t, v, n)
    /\ aug' = [aug EXCEPT ![n] = aug[v], ![v] = 0]
    /\ has' = (has \ {v}) \cup {n}
    /\ UNCHANGED <<kind, p, hdr>>

-----------------------------------------------------------------------------
(* Lists                                                                   *)
HeadOf(i) == IF i = 1 THEN H1 ELSE H2
Linked == ToSet(has[1]) \cup ToSet(has[2])
Of(n) == IF n \in ToSet(has[1]) THEN 1 ELSE 2
Without(n) == [i \in 1..2 |-> Remove(has[i], n)]

ListAdd(i, n) ==
    /\ kind = "list" /\ n \notin Linked
    /\ \/ p' = L!list_add(p, n, HeadOf(i)) /\ has' = [has EXCEPT ![i] = <<n>> \o @]
       \/ p' = L!list_add_tail(p, n, HeadOf(i)) /\ has' = [has EXCEPT ![i] = @ \o <<n>>]
    /\ UNCHANGED <<kind, t, aug, hdr>>

(* node_add_aft and node_add_bef, next to node m.                          *)
NodeAdd(n, m) ==
    /\ kind = "list" /\ n \notin Linked /\ m \in Linked
    /\ LET i  == Of(m)
           at == CHOOSE j \in DOMAIN has[i] : has[i][j] = m
       IN  \/ p' = L!list_add(p, n, m) /\ has' = [has EXCEPT ![i] = InsertAt(@, at + 1, n)]
           \/ p' = L!list_add_tail(p, n, m) /\ has' = [has EXCEPT ![i] = InsertAt(@, at, n)]
    /\ UNCHANGED <<kind, t, aug, hdr>>

ListDel(n) ==
    /\ kind = "list" /\ n \in Linked
    /\ p' = L!list_del(p, n)
    /\ has' = Without(n)
    /\ UNCHANGED <<kind, t, aug, hdr>>

ListMove(n, i) ==
    /\ kind = "list" /\ n \in Linked
    /\ \/ p' = L!list_move(p, n, HeadOf(i)) /\ has' = [Without(n) EXCEPT ![i] = <<n>> \o @]
       \/ p' = L!list_move_tail(p, n, HeadOf(i)) /\ has' = [Without(n) EXCEPT ![i] = @ \o <<n>>]
    /\ UNCHANGED <<kind, t, aug, hdr>>

ListSplice(i) ==
    /\ kind = "list"
    /\ LET j == 3 - i
       IN  \/ p' = L!list_splice_init(p, HeadOf(i), HeadOf(j)) /\ has' = [has EXCEPT ![i] = <<>>, ![j] = has[i] \o @]
           \/ p' = L!list_splice_tail_init(p, HeadOf(i), HeadOf(j)) /\ has' = [has EXCEPT ![i] = <<>>, ![j] = @ \o has[i]]
    /\ UNCHANGED <<kind, t, aug, hdr>>

(* The list that receives the nodes is empty; the cut may be at the head.  *)
ListCut(i, n) ==
    /\ kind = "list" /\ has[3 - i] = <<>> /\ n \in ToSet(has[i]) \cup {HeadOf(i)}
    /\ LET at == IF n = HeadOf(i) THEN 0 ELSE CHOOSE j \in DOMAIN has[i] : has[i][j] = n
       IN  has' = [has EXCEPT ![3 - i] = SubSeq(has[i], 1, at), ![i] = SubSeq(@, at + 1, Len(@))]
    /\ p' = L!list_cut_position(p, HeadOf(3 - i), HeadOf(i), n)
    /\ UNCHANGED <<kind, t, aug, hdr>>

-----------------------------------------------------------------------------
(* The block allocator; has[2] are the blocks handed out.                  *)
MemblockAlloc ==
    /\ kind = "memblock" /\ hdr.rest > 0
    /\ LET b == p.next[H1]
       IN  p' = L!list_del_init(p, b) /\ has' = [has EXCEPT ![1] = Tail(@), ![2] = @ \o <<b>>]
    /\ hdr' = [hdr EXCEPT !.rest = @ - 1]
    /\ UNCHANGED <<kind, t, aug>>

(* The magic number and INIT_NODE, then the tail of the list.              *)
MemblockFree(b) ==
    /\ kind = "memblock" /\ hdr.rest < hdr.total
    /\ b \in ToSet(has[2])
    /\ p' = L!list_add_tail(p, b, H1)
    /\ has' = [has EXCEPT ![1] = @ \o <<b>>, ![2] = Remove(@, b)]
    /\ hdr' = [hdr EXCEPT !.rest = @ + 1]
    /\ UNCHANGED <<kind, t, aug>>

memblock_self_check == hdr.rest <= hdr.total /\ Len(L!list_for_each(p, H1)) = hdr.rest

Next ==
    \/ AvlClear \/ MemblockAlloc
    \/ \E k \in KEYS : AvlAdd(k) \/ AvlRemove(k) \/ RbInsert(k) \/ RbErase(k)
    \/ \E v, n \in KEYS : Replace(v, n)
    \/ \E n \in NODES : ListDel(n) \/ MemblockFree(n) \/ \E m \in NODES : NodeAdd(n, m)
    \/ \E i \in 1..2 : ListSplice(i) \/ \E n \in NODES : ListAdd(i, n) \/ ListMove(n, i)
    \/ \E i \in 1..2, n \in NODES \cup {H1, H2} : ListCut(i, n)

Spec == Init /\ [][Next]_vars

-----------------------------------------------------------------------------
(* Properties                                                              *)

(* Erasing and inserting in any order leaves an AVL tree with the height   *)
(* it stores in every node and no more than one level between siblings,    *)
(* and a red-black tree without two red nodes in a row, with the same      *)
(* number of black nodes on all paths, and with the augmented value of     *)
(* every node up to date although only one path is recomputed.             *)
TreesBalanced ==
    /\ kind = "avl" => Avl!Balanced(t)
    /\ kind = "rb" => Rb!RedBlack(t, aug)

First(d) == IF kind = "avl" THEN Avl!avl_node_first(t, d) ELSE Rb!rb_first(t, d)
NextOf(k, d) == IF kind = "avl" THEN Avl!avl_node_next(t, k, d) ELSE Rb!rb_next(t, k, d)
Least(S) == IF S = {} THEN 0 ELSE Min(S)
Greatest(S) == IF S = {} THEN 0 ELSE Max(S)

(* What is in a container is what was put in: the trees reach every key    *)
(* both ways with next and prev and find it from the root, lists read the  *)
(* same in both directions, and the free list of the block allocator has   *)
(* the length it counts.                                                   *)
ContentsExact ==
    /\ kind \in {"avl", "rb"} =>
         /\ First(1) = Least(has)
         /\ First(2) = Greatest(has)
         /\ \A k \in has : /\ NextOf(k, 2) = Least({j \in has : j > k})
                           /\ NextOf(k, 1) = Greatest({j \in has : j < k})
                           /\ Avl!avl_tree_nearest(t, k) = k
         /\ \A k \in KEYS : Avl!InTree(t, k) <=> k \in has
    /\ kind = "list" => \A i \in 1..2 : /\ L!list_for_each(p, HeadOf(i)) = has[i]
                                        /\ L!ListBackwards(p, HeadOf(i)) = Reverse(has[i])
    /\ kind = "memblock" => memblock_self_check /\ L!list_for_each(p, H1) = has[1]
=============================================================================
