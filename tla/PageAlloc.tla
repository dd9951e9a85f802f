------------------------------ MODULE PageAlloc ------------------------------
(***************************************************************************)
(* What the page allocator promises its callers: it hands out blocks of    *)
(* 2^order pages of the free range, no page of a block is handed out again *)
(* before the block is given back, and a block given back is the one that  *)
(* was handed out, with the same head and the same order.                  *)
(***************************************************************************)
EXTENDS Integers

CONSTANTS FREE_START, FREE_END, MAX_ORDER, ORDER2PGNUM

VARIABLE blocks    \* the set of <<head, order>> handed out

ORDERS == 0..(MAX_ORDER - 1)
PagesOf(b) == b[1]..(b[1] + ORDER2PGNUM[b[2]] - 1)

Init == blocks = {}

Alloc(h, o) ==
    /\ h + ORDER2PGNUM[o] <= FREE_END
    /\ \A b \in blocks : PagesOf(b) \cap PagesOf(<<h, o>>) = {}
    /\ blocks' = blocks \cup {<<h, o>>}

Free(b) == blocks' = blocks \ {b}

Next ==
    \/ \E h \in FREE_START..(FREE_END - 1), o \in ORDERS : Alloc(h, o)
    \/ \E b \in blocks : Free(b)

Spec == Init /\ [][Next]_blocks
=============================================================================
