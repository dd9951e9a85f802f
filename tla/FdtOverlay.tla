----------------------------- MODULE FdtOverlay -----------------------------
(***************************************************************************)
(* fdt_overlay_apply (libfdt/fdt_overlay.c): a compiled plugin, fdto, is   *)
(* adapted to a base tree, fdt, and merged into it.                        *)
(*                                                                         *)
(* Both blobs are seen through the functions of fdt_ro.c and fdt_rw.c: as  *)
(* trees of nodes (the records of LiveTree, with nothing deleted and no    *)
(* labels or markers left).  A phase returns the blobs and an error, "" or *)
(* the name of the code; codes that nothing tells apart are one.  A child  *)
(* is found by its whole name: fdt_subnode_offset also accepts the name    *)
(* without the unit address, but a source here always gives a node the     *)
(* same name.  fdt_setprop and fdt_add_subnode need room in the            *)
(* base; cost counts the calls that do.                                    *)
(***************************************************************************)
EXTENDS LiveTree

RECURSIVE Blob(_)
Blob(n) ==
    LET Prop(ps, p) ==
            IF p.del THEN ps
            ELSE Append(ps, build_property(p.name, Data(p.val.items, <<>>)))
        Kid(ks, k) == IF k.del THEN ks ELSE Append(ks, Blob(k))
    IN  name_node(build_node(FoldLeft(Prop, <<>>, n.props), FoldLeft(Kid, <<>>, n.kids)),
                  n.name)

Result(fdt, fdto, err) == [fdt |-> fdt, fdto |-> fdto, err |-> err]
Items(n, name) == n.props[get_property(n, name)].val.items
IsCell(n, name) == get_property(n, name) # 0 /\ Len(Items(n, name)) = 1
SetCell(t, pos, name, off, v) ==
    LET n == NodeAt(t, pos)
    IN  Put(t, pos, [n EXCEPT !.props[get_property(n, name)].val.items[off + 1] = Cell(v)])
HasCell(t, pos, name, off) ==
    LET n == NodeAt(t, pos)
    IN  pos # NoNode /\ get_property(n, name) # 0 /\ off < Len(Items(n, name))

fdt_get_phandle(n) ==
    CASE IsCell(n, "phandle") -> Items(n, "phandle")[1].cell
      [] ~IsCell(n, "phandle") /\ IsCell(n, "linux,phandle") ->
             Items(n, "linux,phandle")[1].cell
      [] OTHER -> 0
Phandles(t) == {fdt_get_phandle(NodeAt(t, Walk(t)[i])) : i \in DOMAIN Walk(t)}
fdt_find_max_phandle(fdt) == CHOOSE m \in Phandles(fdt) : \A p \in Phandles(fdt) : p <= m
fdt_node_offset_by_phandle(fdt, ph) ==
    LET w == Walk(fdt)
    IN  FirstOf(w, {i \in DOMAIN w : fdt_get_phandle(NodeAt(fdt, w[i])) = ph})

----------------------------------------------------------------------------
(* Every phandle of the overlay moves above the phandles of the base.      *)
PhandleNames == <<"phandle", "linux,phandle">>
overlay_phandle_add_offset(r, pos, name, delta) ==
    LET n == NodeAt(r.fdto, pos)
        v == Items(n, name)[1].cell
    IN  CASE r.err # "" \/ get_property(n, name) = 0 -> r
          [] r.err = "" /\ get_property(n, name) # 0 /\ ~IsCell(n, name) ->
                 [r EXCEPT !.err = "BADPHANDLE"]
          [] OTHER -> IF v + delta >= Ones THEN [r EXCEPT !.err = "NOPHANDLES"]
                      ELSE [r EXCEPT !.fdto = SetCell(@, pos, name, 0, v + delta)]
overlay_adjust_node_phandles(r, pos, delta) ==
    FoldLeft(LAMBDA s, name : overlay_phandle_add_offset(s, pos, name, delta), r, PhandleNames)
overlay_adjust_local_phandles(r, delta) ==
    FoldLeft(LAMBDA s, pos : overlay_adjust_node_phandles(s, pos, delta), r, Walk(r.fdto))

(* The cells /__local_fixups__ lists: the tree below it repeats the nodes  *)
(* and properties of the overlay, each value the offsets of the references.*)
LocalFixups(fdto) ==
    LET top == get_subnode(fdto, "__local_fixups__")
        OfNode(pos) ==
            LET n == NodeAt(fdto.kids[top], pos)
            IN  FlattenSeq([p \in DOMAIN n.props |->
                    [k \in DOMAIN n.props[p].val.items |->
                        [at |-> get_node_by_path(fdto, PathOf(fdto.kids[top], pos)),
                         prop |-> n.props[p].name, off |-> n.props[p].val.items[k].cell]]])
        w == Walk(fdto.kids[top])
    IN  IF top = 0 THEN <<>> ELSE FlattenSeq([i \in DOMAIN w |-> OfNode(w[i])])

overlay_update_local_node_references(r, New(_)) ==
    LET One(s, f) ==
            CASE s.err # "" -> s
              [] s.err = "" /\ ~HasCell(s.fdto, f.at, f.prop, f.off) ->
                     [s EXCEPT !.err = "BADOVERLAY"]
              [] OTHER -> [s EXCEPT !.fdto = SetCell(@, f.at, f.prop, f.off,
                              New(Items(NodeAt(s.fdto, f.at), f.prop)[f.off + 1].cell))]
    IN  FoldLeft(One, r, LocalFixups(r.fdto))
overlay_update_local_references(r, delta) ==
    overlay_update_local_node_references(r, LAMBDA v : (v + delta) % (Ones + 1))

(* Each label of /__fixups__ is looked up among the base's symbols, and    *)
(* the phandle found written to every place the label's entries name.      *)
overlay_fixup_one_phandle(r, entry, ph) ==
    LET at == get_node_by_path(r.fdto, entry.path)
    IN  CASE r.err # "" -> r
          [] r.err = "" /\ at = NoNode -> [r EXCEPT !.err = "BADOVERLAY"]
          [] OTHER -> IF HasCell(r.fdto, at, entry.prop, entry.cell)
                      THEN [r EXCEPT !.fdto = SetCell(@, at, entry.prop, entry.cell, ph)]
                      ELSE [r EXCEPT !.err = "NOTFOUND"]
overlay_fixup_phandle(r, p) ==
    LET sym == get_subnode(r.fdt, "__symbols__")
        known == sym # 0 /\ get_property(r.fdt.kids[sym], p.name) # 0
        at == get_node_by_path(r.fdt, Items(r.fdt.kids[sym], p.name)[1].path)
        ph == fdt_get_phandle(NodeAt(r.fdt, at))
    IN  IF ~known \/ at = NoNode \/ ph = 0
        THEN [r EXCEPT !.err = IF @ = "" THEN "NOTFOUND" ELSE @]
        ELSE FoldLeft(LAMBDA s, e : overlay_fixup_one_phandle(s, e, ph), r, p.val.items)
overlay_fixup_phandles(r) ==
    LET fix == get_subnode(r.fdto, "__fixups__")
    IN  IF fix = 0 THEN r
        ELSE FoldLeft(LAMBDA s, p : IF s.err # "" THEN s ELSE overlay_fixup_phandle(s, p),
                      r, r.fdto.kids[fix].props)

----------------------------------------------------------------------------
(* The node of the base a fragment speaks of.                              *)
Target(at, err) == [at |-> at, err |-> err]
fdt_overlay_target_offset(fdt, frag) ==
    LET bad == get_property(frag, "target") # 0
               /\ (~IsCell(frag, "target") \/ Items(frag, "target")[1].cell = Ones)
        ph == IF get_property(frag, "target") = 0 THEN 0 ELSE Items(frag, "target")[1].cell
        byPath == get_property(frag, "target-path") # 0
        at == IF ph # 0 THEN fdt_node_offset_by_phandle(fdt, ph)
              ELSE get_node_by_path(fdt, Items(frag, "target-path")[1].path)
    IN  CASE bad -> Target(NoNode, "BADPHANDLE")
          [] ~bad /\ ph = 0 /\ ~byPath -> Target(NoNode, "BADOVERLAY")
          [] OTHER -> Target(at, IF at = NoNode THEN "NOTFOUND" ELSE "")

Fragments(fdto) ==
    SelectSeq([i \in DOMAIN fdto.kids |-> i],
              LAMBDA i : get_subnode(fdto.kids[i], "__overlay__") # 0)

(* A node the base knows by a phandle keeps it: the overlay's own phandle  *)
(* for it, and the overlay's references to that, give way.                 *)
overlay_adjust_local_conflicting_phandle(r, pos, ph) ==
    FoldLeft(LAMBDA s, name : IF IsCell(NodeAt(s.fdto, pos), name)
                              THEN [s EXCEPT !.fdto = SetCell(@, pos, name, 0, ph)] ELSE s,
             r, PhandleNames)
(* Seeded fault: the references to the phandle that gave way stay.         *)
ConflictingReferencesStay(r, ph, old) == r

overlay_update_local_conflicting_references(r, ph, old) ==
    overlay_update_local_node_references(r, LAMBDA v : IF v = old THEN ph ELSE v)

RECURSIVE overlay_prevent_phandle_overwrite_node(_, _, _)
overlay_prevent_phandle_overwrite_node(r, at, pos) ==
    LET ph == fdt_get_phandle(NodeAt(r.fdt, at))
        old == fdt_get_phandle(NodeAt(r.fdto, pos))
        s == IF ph # 0 /\ old # 0
             THEN overlay_update_local_conflicting_references(
                      overlay_adjust_local_conflicting_phandle(r, pos, ph), ph, old)
             ELSE r
        Child(t, k) ==
            LET i == get_subnode(NodeAt(r.fdt, at), NodeAt(r.fdto, pos).kids[k].name)
            IN  IF i = 0 \/ t.err # "" THEN t
                ELSE overlay_prevent_phandle_overwrite_node(t, at \o <<i>>, pos \o <<k>>)
    IN  FoldLeft(Child, s, [k \in DOMAIN NodeAt(r.fdto, pos).kids |-> k])

overlay_prevent_phandle_overwrite(r) ==
    LET One(s, f) ==
            LET to == fdt_overlay_target_offset(s.fdt, s.fdto.kids[f])
                ov == <<f, get_subnode(s.fdto.kids[f], "__overlay__")>>
            IN  CASE s.err # "" \/ to.err = "NOTFOUND" -> s
                  [] s.err = "" /\ to.err = "" ->
                         overlay_prevent_phandle_overwrite_node(s, to.at, ov)
                  [] OTHER -> [s EXCEPT !.err = to.err]
    IN  FoldLeft(One, r, Fragments(r.fdto))

----------------------------------------------------------------------------
fdt_setprop(n, p) ==
    IF get_property(n, p.name) = 0 THEN [n EXCEPT !.props = <<p>> \o @]
    ELSE [n EXCEPT !.props[get_property(n, p.name)] = p]

RECURSIVE overlay_apply_node(_, _)
overlay_apply_node(target, node) ==
    LET Child(t, k) ==
            LET u == build_root_node(t, k.name)
            IN  [u EXCEPT !.kids[get_subnode(u, k.name)] = overlay_apply_node(@, k)]
    IN  FoldLeft(Child, FoldLeft(fdt_setprop, target, node.props), node.kids)

RECURSIVE Cost(_)
Cost(n) == Len(n.props) + FoldLeft(LAMBDA c, k : c + 1 + Cost(k), 0, n.kids)

overlay_merge(r, room) ==
    LET One(s, f) ==
            LET to == fdt_overlay_target_offset(s.r.fdt, s.r.fdto.kids[f])
                frag == s.r.fdto.kids[f]
                ov == frag.kids[get_subnode(frag, "__overlay__")]
            IN  CASE s.r.err # "" -> s
                  [] s.r.err = "" /\ to.err # "" -> [s EXCEPT !.r.err = to.err]
                  [] s.r.err = "" /\ to.err = "" /\ s.room < Cost(ov) ->
                         [s EXCEPT !.r.err = "NOSPACE"]
                  [] OTHER ->
                         [room |-> s.room - Cost(ov),
                          r |-> [s.r EXCEPT !.fdt = Put(@, to.at,
                                    overlay_apply_node(NodeAt(@, to.at), ov))]]
    IN  FoldLeft(One, [r |-> r, room |-> room], Fragments(r.fdto))

(* The symbols of the overlay lie below a fragment; in the merged tree     *)
(* they lie below its target.  A symbol of a node outside the fragments'   *)
(* __overlay__ is dropped.                                                 *)
overlay_symbol_update(r, room) ==
    LET sym == get_subnode(r.fdto, "__symbols__")
        One(s, p) ==
            LET path == p.val.items[1].path
                f == get_subnode(s.fdto, path[1])
                to == fdt_overlay_target_offset(s.fdt, s.fdto.kids[f])
                new == PathItem(PathOf(s.fdt, to.at) \o SubSeq(path, 3, Len(path)))
                root == get_subnode(s.fdt, "__symbols__")
            IN  CASE s.err # "" \/ Len(path) < 2 -> s
                  [] s.err = "" /\ Len(path) >= 2 /\ path[2] # "__overlay__" -> s
                  [] OTHER ->
                         IF to.err # "" THEN [s EXCEPT !.err = to.err]
                         ELSE [s EXCEPT !.fdt.kids[root] =
                                  fdt_setprop(@, [p EXCEPT !.val.items = <<new>>])]
    IN  CASE sym = 0 -> r
          [] sym # 0 /\ room <= Len(r.fdto.kids[sym].props) -> [r EXCEPT !.err = "NOSPACE"]
          [] OTHER -> FoldLeft(One, [r EXCEPT !.fdt = build_root_node(@, "__symbols__")],
                               r.fdto.kids[sym].props)

(* On an error both blobs may be damaged.                                  *)
fdt_overlay_apply(fdt, fdto, room) ==
    LET delta == fdt_find_max_phandle(fdt)
        Then(Phase(_), r) == IF r.err # "" THEN r ELSE Phase(r)
        Symbols(m) == IF m.r.err # "" THEN m.r ELSE overlay_symbol_update(m.r, m.room)
    IN  Symbols(overlay_merge(
            Then(overlay_prevent_phandle_overwrite,
            Then(overlay_fixup_phandles,
            Then(LAMBDA r : overlay_update_local_references(r, delta),
                 overlay_adjust_local_phandles(Result(fdt, fdto, ""), delta)))), room))
=============================================================================
