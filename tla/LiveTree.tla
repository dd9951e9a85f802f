------------------------------ MODULE LiveTree ------------------------------
(***************************************************************************)
(* The tree dtc builds from a source file (livetree.c, the marker lists of *)
(* data.c).                                                                *)
(*                                                                         *)
(* A node is a record: its name, labels, properties and children in the    *)
(* order of the C lists, and the flags deleted (del), omit_if_unused       *)
(* (omit), is_referenced (ref) and phandle (ph, 0 when unset).  Nothing is *)
(* unlinked: a deleted label, property or node stays in its list with its  *)
(* flag set.  A pointer to a node is its position: the indexes of the      *)
(* children on the way down.                                               *)
(*                                                                         *)
(* The value of a property is a sequence of items, each one cell, one path *)
(* string or one "path:property:offset" string, and its list of markers;   *)
(* a marker's offset counts the items before it.                           *)
(***************************************************************************)
EXTENDS Integers, SequencesExt

CONSTANTS
    Ones,           \* the cell 0xffffffff
    PhandleFormat   \* the phandle properties dtc writes (option -H)

NoNode == <<0>>

Cell(n) == [cell |-> n, path |-> <<>>, prop |-> ""]
PathItem(p) == [cell |-> Ones, path |-> p, prop |-> "/"]
FixupItem(p, prop, off) == [cell |-> off, path |-> p, prop |-> prop]

Data(items, markers) == [items |-> items, markers |-> markers]
Marker(type, off, ref) == [type |-> type, off |-> off, ref |-> ref]

(* The markers after m move up by the length of what is inserted at m.     *)
data_insert_at_marker(d, m, item) ==
    Data(InsertAt(d.items, d.markers[m].off + 1, item),
         [k \in DOMAIN d.markers |->
             IF k > m THEN [d.markers[k] EXCEPT !.off = @ + 1] ELSE d.markers[k]])

Label(l) == [label |-> l, del |-> FALSE]
build_property(name, val) == [name |-> name, val |-> val, del |-> FALSE]
build_property_delete(name) == [name |-> name, val |-> Data(<<>>, <<>>), del |-> TRUE]
build_node(props, kids) ==
    [name |-> "", labels |-> <<>>, props |-> props, kids |-> kids,
     del |-> FALSE, omit |-> FALSE, ref |-> FALSE, ph |-> 0]
build_node_delete == [build_node(<<>>, <<>>) EXCEPT !.del = TRUE]
name_node(n, name) == [n EXCEPT !.name = name]

----------------------------------------------------------------------------
RECURSIVE NodeAt(_, _)
NodeAt(n, pos) ==
    IF pos = <<>> THEN n ELSE NodeAt(n.kids[Head(pos)], Tail(pos))

RECURSIVE Put(_, _, _)
Put(n, pos, m) ==
    IF pos = <<>> THEN m
    ELSE [n EXCEPT !.kids[Head(pos)] = Put(@, Tail(pos), m)]

(* The positions of the nodes that are not deleted, parents first.         *)
RECURSIVE Walk(_)
Walk(n) ==
    <<<<>>>> \o FlattenSeq([i \in DOMAIN n.kids |->
        IF n.kids[i].del THEN <<>>
        ELSE LET w == Walk(n.kids[i]) IN [k \in DOMAIN w |-> <<i>> \o w[k]]])

RECURSIVE PathOf(_, _)
PathOf(n, pos) ==
    IF pos = <<>> THEN <<>>
    ELSE <<n.kids[Head(pos)].name>> \o PathOf(n.kids[Head(pos)], Tail(pos))

First(S) == CHOOSE i \in S : \A j \in S : i <= j
LiveKids(n) == {i \in DOMAIN n.kids : ~n.kids[i].del}
LiveProps(n) == {i \in DOMAIN n.props : ~n.props[i].del}
LiveLabels(n) == {n.labels[i].label : i \in {k \in DOMAIN n.labels : ~n.labels[k].del}}

(* The index of the property, 0 when there is none.                        *)
get_property(n, name) ==
    LET hits == {i \in LiveProps(n) : n.props[i].name = name}
    IN  IF hits = {} THEN 0 ELSE First(hits)
get_subnode(n, name) ==
    LET hits == {i \in LiveKids(n) : n.kids[i].name = name}
    IN  IF hits = {} THEN 0 ELSE First(hits)

(* The position sub below the node at top.                                 *)
Below(top, sub) == IF sub = NoNode THEN NoNode ELSE top \o sub
RECURSIVE get_node_by_path(_, _)
get_node_by_path(n, path) ==
    IF path = <<>> THEN IF n.del THEN NoNode ELSE <<>>
    ELSE LET i == get_subnode(n, Head(path))
         IN  IF i = 0 THEN NoNode ELSE Below(<<i>>, get_node_by_path(n.kids[i], Tail(path)))

(* The first of the walk, so the search by label or by phandle finds one   *)
(* node only.                                                              *)
FirstOf(w, hits) == IF hits = {} THEN NoNode ELSE w[First(hits)]
LabelIn(dt, w, label) == FirstOf(w, {i \in DOMAIN w : label \in LiveLabels(NodeAt(dt, w[i]))})
PhandleIn(dt, w, ph) == FirstOf(w, {i \in DOMAIN w : NodeAt(dt, w[i]).ph = ph})
get_node_by_label(dt, label) == LabelIn(dt, Walk(dt), label)
get_node_by_phandle(dt, ph) == PhandleIn(dt, Walk(dt), ph)

(* A reference is a label, a path, or a label and a path below it.         *)
Ref(label, path) == [label |-> label, path |-> path]
is_ref_relative(ref) == ref.label # "" /\ ref.path # <<>>
FromNode(dt, top, path) ==
    IF top = NoNode THEN NoNode ELSE Below(top, get_node_by_path(NodeAt(dt, top), path))
get_node_by_ref(dt, ref) ==
    FromNode(dt, IF ref.label = "" THEN <<>> ELSE get_node_by_label(dt, ref.label), ref.path)

----------------------------------------------------------------------------
add_label(labels, l) ==
    LET hits == {i \in DOMAIN labels : labels[i].label = l}
    IN  IF hits = {} THEN <<Label(l)>> \o labels
        ELSE [labels EXCEPT ![First(hits)].del = FALSE]
add_property(n, p) == [n EXCEPT !.props = Append(@, p)]
add_child(n, kid) == [n EXCEPT !.kids = Append(@, kid)]
delete_property(p) == [p EXCEPT !.del = TRUE]

Deleted(seq) == [i \in DOMAIN seq |-> [seq[i] EXCEPT !.del = TRUE]]
(* Seeded fault: the properties of a deleted node keep their flag.         *)
RECURSIVE DeleteNodeKeepsProps(_)
DeleteNodeKeepsProps(n) ==
    [n EXCEPT !.del = TRUE,
              !.kids = [i \in DOMAIN @ |-> DeleteNodeKeepsProps(@[i])],
              !.labels = Deleted(@)]

RECURSIVE delete_node(_)
delete_node(n) ==
    [n EXCEPT !.del = TRUE,
              !.kids = [i \in DOMAIN @ |-> delete_node(@[i])],
              !.props = Deleted(@), !.labels = Deleted(@)]

(* A property of the new node deletes, replaces (and revives) or adds.     *)
MergeProp(props, p) ==
    LET hits == {i \in DOMAIN props : props[i].name = p.name}
    IN  CASE hits = {} -> IF p.del THEN props ELSE Append(props, p)
          [] p.del -> [props EXCEPT ![First(hits)] = delete_property(@)]
          [] OTHER -> [props EXCEPT ![First(hits)] = p]

RECURSIVE merge_nodes(_, _)
merge_nodes(old, new) ==
    LET MergeChild(kids, c) ==
            LET hits == {i \in DOMAIN kids : kids[i].name = c.name}
            IN  CASE hits = {} -> IF c.del THEN kids ELSE Append(kids, c)
                  [] c.del -> [kids EXCEPT ![First(hits)] = delete_node(@)]
                  [] OTHER -> [kids EXCEPT ![First(hits)] = merge_nodes(@, c)]
    IN  [old EXCEPT
            !.del = FALSE,
            !.labels = FoldLeft(LAMBDA ls, l : add_label(ls, l.label), @, new.labels),
            !.props = FoldLeft(MergeProp, @, new.props),
            !.kids = FoldLeft(MergeChild, @, new.kids)]

(* What a plugin says of a node it does not define becomes a fragment.     *)
FragmentNames == <<"fragment@0", "fragment@1", "fragment@2">>
add_orphan_node(dt, new, ref, n) ==
    LET target == IF ref.label = ""
                  THEN build_property("target-path", Data(<<PathItem(ref.path)>>, <<>>))
                  ELSE build_property("target",
                          Data(<<Cell(Ones)>>, <<Marker("REF_PHANDLE", 0, ref)>>))
    IN  add_child(dt, name_node(build_node(<<target>>, <<name_node(new, "__overlay__")>>),
                                FragmentNames[n + 1]))

append_to_property(n, name, item) ==
    LET i == get_property(n, name)
    IN  IF i = 0 THEN add_property(n, build_property(name, Data(<<item>>, <<>>)))
        ELSE [n EXCEPT !.props[i].val.items = Append(@, item)]

----------------------------------------------------------------------------
(* What follows works on a dtc run: x.dt is its tree and x.phandle the     *)
(* static counter of get_node_phandle.                                     *)
phandle_is_valid(ph) == ph # 0 /\ ph # Ones

RECURSIVE FreePhandle(_, _)
FreePhandle(dt, ph) ==
    IF get_node_by_phandle(dt, ph) = NoNode THEN ph ELSE FreePhandle(dt, ph + 1)

add_phandle_property(n, name) ==
    IF get_property(n, name) # 0 THEN n
    ELSE add_property(n, build_property(name, Data(<<Cell(n.ph)>>, <<>>)))

SetPhandle(x, pos, ph) ==
    [x EXCEPT !.dt = Put(@, pos, FoldLeft(add_phandle_property,
                                    [NodeAt(x.dt, pos) EXCEPT !.ph = ph], PhandleFormat)),
              !.phandle = ph]
get_node_phandle(x, pos) ==
    IF phandle_is_valid(NodeAt(x.dt, pos).ph) THEN x
    ELSE SetPhandle(x, pos, FreePhandle(x.dt, x.phandle))

build_root_node(dt, name) ==
    IF get_subnode(dt, name) # 0 THEN dt
    ELSE add_child(dt, name_node(build_node(<<>>, <<>>), name))

(* The labels of the tree become properties of /__symbols__ that hold the  *)
(* paths, and each node that has a label gets a phandle.                   *)
any_label_tree(dt) == \E i \in DOMAIN Walk(dt) : NodeAt(dt, Walk(dt)[i]).labels # <<>>
generate_label_tree(x, name) ==
    LET dt0 == build_root_node(x.dt, name)
        an == get_subnode(dt0, name)
        Symbol(y, pos, l) ==
            IF l.del \/ get_property(y.dt.kids[an], l.label) # 0 THEN y
            ELSE [y EXCEPT !.dt.kids[an] = add_property(@, build_property(l.label,
                      Data(<<PathItem(PathOf(y.dt, pos))>>, <<>>)))]
        Node(y, pos) ==
            LET labels == NodeAt(y.dt, pos).labels
            IN  IF labels = <<>> THEN y
                ELSE get_node_phandle(
                        FoldLeft(LAMBDA z, l : Symbol(z, pos, l), y, labels), pos)
    IN  IF any_label_tree(x.dt)
        THEN FoldLeft(Node, [x EXCEPT !.dt = dt0], Walk(dt0)) ELSE x

(* Every reference to a phandle in the tree, in the order of the lists.    *)
PhandleRefs(dt) ==
    LET OfProp(pos, p) ==
            LET ms == SelectSeq(p.val.markers, LAMBDA m : m.type = "REF_PHANDLE")
            IN  [k \in DOMAIN ms |-> [pos |-> pos, prop |-> p.name,
                                      off |-> ms[k].off, ref |-> ms[k].ref]]
        OfNode(pos) ==
            LET ps == SelectSeq(NodeAt(dt, pos).props, LAMBDA p : ~p.del)
            IN  FlattenSeq([k \in DOMAIN ps |-> OfProp(pos, ps[k])])
    IN  FlattenSeq([k \in DOMAIN Walk(dt) |-> OfNode(Walk(dt)[k])])

RECURSIVE AppendBelow(_, _, _, _)
AppendBelow(n, path, name, item) ==
    IF path = <<>> THEN append_to_property(n, name, item)
    ELSE LET m == build_root_node(n, Head(path))
         IN  [m EXCEPT !.kids[get_subnode(m, Head(path))] =
                            AppendBelow(@, Tail(path), name, item)]

(* A reference the plugin does not resolve is listed under its label; dtc  *)
(* dies when it is not a plain label.                                      *)
generate_fixups_tree(x, name) ==
    LET open == SelectSeq(PhandleRefs(x.dt), LAMBDA r : get_node_by_ref(x.dt, r.ref) = NoNode)
        add_fixup_entry(dt, r) ==
            AppendBelow(dt, <<name>>, r.ref.label,
                        FixupItem(PathOf(x.dt, r.pos), r.prop, r.off))
    IN  IF \E k \in DOMAIN open : open[k].ref.label = "" \/ is_ref_relative(open[k].ref)
        THEN [x EXCEPT !.err = TRUE]
        ELSE [x EXCEPT !.dt = FoldLeft(add_fixup_entry, @, open)]

(* The others are listed by the path of the node that holds them.          *)
generate_local_fixups_tree(x, name) ==
    LET local == SelectSeq(PhandleRefs(x.dt), LAMBDA r : get_node_by_ref(x.dt, r.ref) # NoNode)
        add_local_fixup_entry(dt, r) ==
            AppendBelow(dt, <<name>> \o PathOf(x.dt, r.pos), r.prop, Cell(r.off))
    IN  [x EXCEPT !.dt = FoldLeft(add_local_fixup_entry, @, local)]
=============================================================================
