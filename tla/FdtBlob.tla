------------------------------ MODULE FdtBlob ------------------------------
(***************************************************************************)
(* A client of libfdt: it builds a blob sequentially, or receives one, and *)
(* then edits it, with every call free to fail for want of room.  tree and *)
(* resv are what the client believes it has written: a tree maps the path  *)
(* of every node (a sequence of names, the root's is empty) to its         *)
(* properties.  The client keeps to the rules libfdt leaves to its caller: *)
(* siblings have different names, properties come before subnodes, every   *)
(* node is closed before fdt_finish, the root stays.                       *)
(***************************************************************************)
EXTENDS FdtWrite, TLC

CONSTANTS Names,       \* names for nodes
          Props,       \* names for properties
          Vals,        \* values
          BufSizes,    \* sizes of the buffers a blob is built in
          Rooms,       \* what fdt_open_into adds to the size of a blob
          MaxEdits     \* bound on the calls made on a finished blob

VARIABLES fdt, buf, tree, resv, open, edits, failed
vars == <<fdt, buf, tree, resv, open, edits, failed>>

None == <<>>
Root == [p \in {<<>>} |-> None]
Range1 == <<1, 1>>

----------------------------------------------------------------------------
(* What the tags of a blob say, read without the functions of libfdt.      *)
Depth(st, i) ==
    Cardinality({j \in 1..i : st[j].tag = "BEGIN_NODE"})
        - Cardinality({j \in 1..(i - 1) : st[j].tag = "END_NODE"})
PathOf(st, o) ==
    LET i == o + 1
        Above(d) == CHOOSE j \in 1..i :
                       /\ st[j].tag = "BEGIN_NODE" /\ Depth(st, j) = d
                       /\ \A k \in (j + 1)..i : st[k].tag = "BEGIN_NODE" => Depth(st, k) > d
    IN  [d \in 1..(Depth(st, i) - 1) |-> st[Above(d + 1)].name]
PropsOf(st, o) ==
    {j \in (o + 2)..Len(st) :
        /\ st[j].tag = "PROP"
        /\ \A k \in (o + 2)..j : st[k].tag \in {"PROP", "NOP"}}
StrAt(f, off) == CString(SubSeq(f.str, (IF off < 0 THEN Len(f.str) ELSE 0) + off + 1, Len(f.str)))

TreeOf(f) ==
    [p \in {PathOf(f.st, o) : o \in Nodes(f)} |->
        LET o == CHOOSE o \in Nodes(f) : PathOf(f.st, o) = p
            props == PropsOf(f.st, o)
        IN  [n \in {StrAt(f, f.st[j].off) : j \in props} |->
                f.st[CHOOSE j \in props : StrAt(f, f.st[j].off) = n].val]]

----------------------------------------------------------------------------
(* The changes to a tree.                                                  *)
WithNode(t, p) == (p :> None) @@ t
WithProp(t, p, n, v) == [t EXCEPT ![p] = (n :> v) @@ @]
WithoutProp(t, p, n) == [t EXCEPT ![p] = [m \in DOMAIN @ \ {n} |-> @[m]]]
Without(t, p) == [q \in {q \in DOMAIN t : ~IsPrefix(p, q)} |-> t[q]]
Renamed(t, p, n) ==
    LET to(q) == IF IsPrefix(p, q) THEN [q EXCEPT ![Len(p)] = n] ELSE q
    IN  [q \in {to(x) : x \in DOMAIN t} |-> t[CHOOSE x \in DOMAIN t : to(x) = q]]

(* A call: what it returns and, when it succeeds, the tree after it.       *)
Call(r, t) ==
    /\ fdt' = r.f
    /\ failed' = (r.err # 0)
    /\ tree' = IF r.err = 0 THEN t ELSE tree

(* A blob from elsewhere: version 16 or 17, the strings behind the         *)
(* structure or in front of it.                                            *)
IncomingStruct ==
    <<BEGIN_NODE(<<>>), PROP(0, <<120, 0, 121, 0>>), NOP,
      BEGIN_NODE(<<97, 108>>), PROP(2, <<Slash, 97, 0>>), END_NODE,
      BEGIN_NODE(<<97, At, 49>>), PROP(4, Cell(1)), END_NODE,
      END_NODE, END>>
IncomingStrings == <<99, 0, 97, 0, 108, 112, 0>>
Incoming(ver, swapped) ==
    LET size == Bytes(IncomingStruct)
        o == IF swapped THEN [rsv |-> 40, str |-> 56, st |-> 64]
             ELSE [rsv |-> 40, st |-> 56, str |-> 56 + size]
    IN  [NoBlob EXCEPT !.magic = "FDT_MAGIC", !.ver = ver, !.tot = 64 + size, !.o = o, !.at = o,
                       !.n = [st |-> IF ver = 16 THEN 0 ELSE size, str |-> Len(IncomingStrings)],
                       !.rsv = <<<<0, 0>>>>, !.st = IncomingStruct, !.str = IncomingStrings]

Init ==
    /\ fdt = NoBlob /\ buf = 0
    /\ tree = None /\ resv = <<>> /\ open = <<>>
    /\ edits = 0 /\ failed = FALSE

Receive ==
    /\ fdt = NoBlob
    /\ \E ver \in {16, 17}, swapped \in BOOLEAN :
          /\ fdt' = Incoming(ver, swapped)
          /\ tree' = TreeOf(fdt')
    /\ buf' = fdt'.tot
    /\ failed' = FALSE /\ edits' = 1
    /\ UNCHANGED <<resv, open>>

Create ==
    /\ fdt = NoBlob
    /\ \E n \in BufSizes, dedup \in BOOLEAN :
          /\ buf' = n
          /\ Call(fdt_create_with_flags(n, dedup), None)
    /\ UNCHANGED <<resv, open, edits>>

CreateEmptyTree ==
    /\ fdt = NoBlob
    /\ \E n \in BufSizes :
          LET r == fdt_create_empty_tree(n) IN
          /\ failed' = (r.err # 0)
          /\ IF r.err = 0 THEN fdt' = r.f /\ tree' = Root /\ buf' = n
             ELSE UNCHANGED <<fdt, tree, buf>>      \* the buffer is thrown away
    /\ UNCHANGED <<resv, open, edits>>

Sw == fdt.magic = "FDT_SW_MAGIC"
Resize ==
    /\ Sw
    /\ \E n \in BufSizes \ {buf} :
          /\ Call(fdt_resize(fdt, n), tree)
          /\ buf' = IF ~failed' THEN n ELSE buf
    /\ UNCHANGED <<resv, open, edits>>

Reserve ==
    /\ Sw /\ fdt.o.str = 0 /\ Len(resv) < 1
    /\ Call(fdt_add_reservemap_entry(fdt, Range1), tree)
    /\ resv' = IF ~failed' THEN Append(resv, Range1) ELSE resv
    /\ UNCHANGED <<buf, open, edits>>

FinishReservemap ==
    /\ Sw /\ fdt.o.str = 0
    /\ Call(fdt_finish_reservemap(fdt), tree)
    /\ UNCHANGED <<buf, resv, open, edits>>

InStruct == Sw /\ fdt.o.str # 0
BeginNode ==
    /\ InStruct
    /\ \E name \in IF tree = None THEN {<<>>} ELSE Names :
          LET path == IF tree = None THEN <<>> ELSE Append(Tail(open), name) IN
          /\ tree # None => open # <<>>
          /\ path \notin DOMAIN tree
          /\ Call(fdt_begin_node(fdt, name), WithNode(tree, path))
          /\ open' = IF ~failed' THEN Append(open, name) ELSE open
    /\ UNCHANGED <<buf, resv, edits>>

EndNode ==
    /\ InStruct /\ open # <<>>
    /\ Call(fdt_end_node(fdt), tree)
    /\ open' = IF ~failed' THEN Front(open) ELSE open
    /\ UNCHANGED <<buf, resv, edits>>

Property ==
    /\ InStruct /\ open # <<>> /\ Last(fdt.st).tag # "END_NODE"
    /\ \E n \in Props, v \in Vals :
          /\ n \notin DOMAIN tree[Tail(open)]
          /\ Call(fdt_property(fdt, n, v), WithProp(tree, Tail(open), n, v))
    /\ UNCHANGED <<buf, resv, open, edits>>

Finish ==
    /\ InStruct /\ tree # None /\ open = <<>>
    /\ Call(fdt_finish(fdt), tree)
    /\ UNCHANGED <<buf, resv, open, edits>>

----------------------------------------------------------------------------
Done == fdt.magic = "FDT_MAGIC"
Edit == Done /\ edits < MaxEdits /\ edits' = edits + 1

OpenInto ==
    /\ Edit
    /\ \E room \in Rooms, same \in BOOLEAN :
          /\ Call(fdt_open_into(fdt, same, fdt.tot + room), tree)
          /\ buf' = IF ~failed' THEN fdt.tot + room ELSE buf
    /\ UNCHANGED <<resv, open>>

Pack == Edit /\ Call(fdt_pack(fdt), tree) /\ UNCHANGED <<buf, resv, open>>

AddMemRsv ==
    /\ Edit /\ Len(resv) < 1
    /\ Call(fdt_add_mem_rsv(fdt, Range1), tree)
    /\ resv' = IF ~failed' THEN Append(resv, Range1) ELSE resv
    /\ UNCHANGED <<buf, open>>

DelMemRsv ==
    /\ Edit
    /\ Call(fdt_del_mem_rsv(fdt, 0), tree)
    /\ resv' = IF ~failed' THEN Tail(resv) ELSE resv
    /\ UNCHANGED <<buf, open>>

EditProp ==
    /\ Edit
    /\ \E o \in Nodes(fdt), n \in Props :
          LET p == PathOf(fdt.st, o)
              old == IF n \in DOMAIN tree[p] THEN tree[p][n] ELSE <<>>
          IN  \/ \E v \in Vals :
                    \/ Call(fdt_setprop(fdt, o, n, v), WithProp(tree, p, n, v))
                    \/ Call(fdt_appendprop(fdt, o, n, v), WithProp(tree, p, n, old \o v))
                    \/ Call(fdt_setprop_inplace(fdt, o, n, v), WithProp(tree, p, n, v))
              \/ Call(fdt_delprop(fdt, o, n), WithoutProp(tree, p, n))
              \/ Call(fdt_nop_property(fdt, o, n), WithoutProp(tree, p, n))
    /\ UNCHANGED <<buf, resv, open>>

AddSubnode ==
    /\ Edit
    /\ \E o \in Nodes(fdt), name \in Names :
          Call(fdt_add_subnode(fdt, o, name), WithNode(tree, Append(PathOf(fdt.st, o), name)))
    /\ UNCHANGED <<buf, resv, open>>

EditNode ==
    /\ Edit
    /\ \E o \in Nodes(fdt) \ {0} :
          LET p == PathOf(fdt.st, o) IN
          \/ Call(fdt_del_node(fdt, o), Without(tree, p))
          \/ Call(fdt_nop_node(fdt, o), Without(tree, p))
          \/ \E name \in Names :
                /\ Append(Front(p), name) \notin DOMAIN tree
                /\ Call(fdt_set_name(fdt, o, name), Renamed(tree, p, name))
    /\ UNCHANGED <<buf, resv, open>>

Next ==
    \/ Receive \/ Create \/ CreateEmptyTree \/ Resize \/ Reserve \/ FinishReservemap
    \/ BeginNode \/ EndNode \/ Property \/ Finish
    \/ OpenInto \/ Pack \/ AddMemRsv \/ DelMemRsv \/ EditProp \/ AddSubnode \/ EditNode
Spec == Init /\ [][Next]_vars

----------------------------------------------------------------------------
Disjoint(f) ==
    LET block == {<<0, HdrSize>>, <<f.at.rsv, RsvSize * Len(f.rsv)>>,
                  <<f.at.st, Bytes(f.st)>>, <<f.at.str, Len(f.str)>>}
    IN  /\ \A b \in block : b[1] + b[2] <= f.tot
        /\ \A b, c \in block : b # c => b[1] + b[2] <= c[1] \/ c[1] + c[2] <= b[1]

(* After any sequence of calls, also of calls that ran out of room, the    *)
(* header tells where each block lies and how long it is, no block runs    *)
(* into another or past the buffer, and the blob holds exactly the nodes,  *)
(* properties and reserved ranges the client wrote (the offsets and sizes  *)
(* that fdt_splice_*, fdt_grab_space_, fdt_finish and fdt_packblocks_      *)
(* keep; the names shared in the strings block).                           *)
BlobExact ==
    fdt # NoBlob =>
        /\ fdt.o.rsv = fdt.at.rsv /\ fdt.o.st = fdt.at.st
        /\ fdt.at.str = IF Sw THEN fdt.tot - fdt.n.str ELSE fdt.o.str
        /\ fdt.ver = 17 => fdt.n.st = Bytes(fdt.st)
        /\ fdt.n.str = Len(fdt.str)
        /\ Disjoint(fdt) /\ fdt.tot <= buf
        /\ TreeOf(fdt) = tree
        /\ fdt.rsv = IF Sw /\ fdt.o.str = 0 THEN resv ELSE Append(resv, <<0, 0>>)

(* A call that fails leaves the blob as it was: fdt_add_property_ and      *)
(* fdt_property_placeholder take back the string they added, and every     *)
(* check for room comes before the first byte moves.                       *)
FailedCallChangesNothing == [][failed' => fdt' = fdt]_vars

----------------------------------------------------------------------------
(* What the lookups should find.                                           *)
(* A path is ambiguous when some component, without its unit address,      *)
(* stands for several siblings: libfdt promises nothing then.              *)
Ambiguous(t, p) ==
    \E i \in DOMAIN p, q \in DOMAIN t :
        /\ Len(q) = i /\ SubSeq(q, 1, i - 1) = SubSeq(p, 1, i - 1)
        /\ IsPrefix(Append(p[i], At), q[i])
PhandleOf(t, p) ==
    LET is(n) == n \in DOMAIN t[p] /\ Len(t[p][n]) = 4
    IN  IF is(Phandle) THEN t[p][Phandle][4]
        ELSE IF is(LinuxPhandle) THEN t[p][LinuxPhandle][4] ELSE 0
RECURSIVE Siblings(_, _)
Siblings(f, o) == IF o < 0 THEN {} ELSE {o} \cup Siblings(f, fdt_next_subnode(f, o))

NodeReads(f, t, o) ==
    LET p == PathOf(f.st, o)
        bytes == PathBytes(<<<<>>>> \o p)
    IN  /\ fdt_get_name(f, o) = IF p = <<>> THEN <<>> ELSE Last(p)
        /\ Ambiguous(t, p) \/ fdt_path_offset(f, bytes) = o
        /\ \A n \in 1..8 : fdt_get_path(f, o, n) =
               IF n > Len(bytes) THEN [err |-> 0, path |-> bytes]
               ELSE [err |-> NOSPACE, path |-> <<>>]
        /\ fdt_node_depth(f, o) = Len(p)
        /\ fdt_parent_offset(f, o) \in
               IF p = <<>> THEN {NOTFOUND} ELSE {c \in Nodes(f) : PathOf(f.st, c) = Front(p)}
        /\ Siblings(f, fdt_first_subnode(f, o)) =
               {c \in Nodes(f) : LET q == PathOf(f.st, c) IN q # <<>> /\ Front(q) = p}
        /\ \A n \in Props \cup {Compatible} :
               fdt_get_property(f, o, n) \in
                   IF n \in DOMAIN t[p] THEN {j - 1 : j \in {k \in PropsOf(f.st, o) :
                                                  /\ StrAt(f, f.st[k].off) = n
                                                  /\ f.st[k].val = t[p][n]}}
                   ELSE {NOTFOUND}

OneOf(nodes) == IF nodes = {} THEN {NOTFOUND} ELSE nodes

(* On every finished blob, whatever calls made it, the read-only functions *)
(* agree with the tree: paths (also through an alias), parents, depths,    *)
(* subnodes, properties, phandles, strings and compatibles are found       *)
(* exactly where the tree has them, and fdt_check_full accepts the blob.   *)
ReadsAgree ==
    Done =>
        /\ fdt_check_full(fdt, fdt.tot) = 0
        /\ fdt_num_mem_rsv(fdt) = Len(resv)
        /\ \A o \in Nodes(fdt) : NodeReads(fdt, tree, o)
        /\ \A h \in 1..3 :
              fdt_node_offset_by_phandle(fdt, h) \in
                  OneOf({o \in Nodes(fdt) : PhandleOf(tree, PathOf(fdt.st, o)) = h})
        /\ \A p \in DOMAIN tree : PhandleOf(tree, p) < fdt_generate_phandle(fdt)
        /\ \A n \in Props, v \in Vals :
              fdt_node_offset_by_prop_value(fdt, -1, n, v) \in
                  OneOf({o \in Nodes(fdt) : LET p == PathOf(fdt.st, o)
                                            IN  n \in DOMAIN tree[p] /\ tree[p][n] = v})
        /\ fdt_node_offset_by_compatible(fdt, -1, <<121>>) =
              IF Compatible \in DOMAIN tree[<<>>] THEN 0 ELSE NOTFOUND
        /\ fdt_path_offset(fdt, <<97>>) =
              IF fdt_get_alias(fdt, <<97>>) = NoName THEN BADPATH
              ELSE fdt_path_offset(fdt, <<Slash, 97>>)
        /\ \A v \in Vals \cup {<<120, 0, 121, 0>>, <<120, 0, 121>>} :
              \A s \in {<<120>>, <<121>>} :
                LET n == fdt_stringlist_count(v)
                    i == fdt_stringlist_search(v, s)
                IN  /\ i >= 0 => fdt_stringlist_get(v, i) = s
                    /\ n >= 0 => (i >= 0 <=> fdt_stringlist_contains(v, s))
=============================================================================
