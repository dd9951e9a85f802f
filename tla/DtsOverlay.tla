---------------------------- MODULE DtsOverlay ----------------------------
(***************************************************************************)
(* A board described by a base source and a plugin: dtc compiles the two   *)
(* (DtcMain) and fdtoverlay applies the compiled plugin to the compiled    *)
(* base (FdtOverlay), with copies and a larger buffer when it has no room. *)
(*                                                                         *)
(* Two other descriptions are kept beside it.  whole is a dtc run on the   *)
(* base source followed by the plugin's statements as one source; it is    *)
(* what the overlay stands for.  meant is the tree the statements of the   *)
(* source denote: a function from paths to labels and properties that      *)
(* forgets what is deleted, which livetree.c never does.                   *)
(*                                                                         *)
(* A source of the model has no label twice, writes no name twice in one   *)
(* body, and names a label or a node before it refers to it.  A plugin     *)
(* deletes nothing and inserts only paths of nodes of its own, since dtc   *)
(* refuses others; and no two of its fragments label the same new node: a  *)
(* fragment's phandle would replace the other's when the second is merged, *)
(* since overlay_prevent_phandle_overwrite looks at the nodes of the base  *)
(* only.                                                                   *)
(***************************************************************************)
EXTENDS DtcMain, FdtOverlay, FlatTree

CONSTANTS
    BaseSource,     \* the statements a base source may hold
    PluginSource,   \* the statements a plugin may hold
    MaxBase,        \* at most so many statements in the base,
    MaxPlugin,      \* and in the plugin
    Reserves,       \* the lists of reserved ranges a source may give
    Increment       \* the room a larger buffer has more (BUF_INCREMENT)

VARIABLES
    pc,             \* "base", "plugin": reading; "apply", "done"; "error"
    base, plugin,   \* the dtc runs on the two sources
    whole,          \* the dtc run on both as one source
    meant,          \* the tree the source denotes
    tmp,            \* the last result of fdt_overlay_apply
    room            \* the room the buffer of apply_one has

vars == <<pc, base, plugin, whole, meant, tmp, room>>

----------------------------------------------------------------------------
(* The meaning of a source.  The paths of a body, each with what it says.  *)
RECURSIVE Said(_, _)
Said(n, path) ==
    {[path |-> path, node |-> n]}
        \cup UNION {Said(n.kids[i], Append(path, n.kids[i].name)) : i \in DOMAIN n.kids}

Without(t, gone) ==
    [p \in {q \in DOMAIN t : \A g \in gone : ~IsPrefix(g, q)} |-> t[p]]
NamesOf(seq) == {seq[i].name : i \in DOMAIN seq}
Defined(t, path, body, labels) ==
    LET said == Said(body, path)
        kept == Without(t, {s.path : s \in {r \in said : r.node.del}})
        live == {s.path : s \in {r \in said : ~r.node.del}}
        At(p) == (CHOOSE s \in said : s.path = p).node
        OldProps(p) == IF p \in DOMAIN kept THEN kept[p].props ELSE << >>
        NewProp(n, name) == n.props[CHOOSE i \in DOMAIN n.props : n.props[i].name = name]
        Props(p) ==
            [name \in (DOMAIN OldProps(p) \cup NamesOf(At(p).props))
                          \ {At(p).props[i].name : i \in {k \in DOMAIN At(p).props :
                                                            At(p).props[k].del}}
                |-> IF name \in NamesOf(At(p).props) THEN NewProp(At(p), name).val
                    ELSE kept[p].props[name]]
        Labels(p) == LiveLabels(At(p))
                         \cup (IF p \in DOMAIN kept THEN kept[p].labels ELSE {})
                         \cup (IF p = path THEN labels ELSE {})
    IN  [p \in DOMAIN kept \cup live |->
            IF p \in live THEN [labels |-> Labels(p), props |-> Props(p)] ELSE kept[p]]

Denotes(t, ref) ==
    IF ref.label = "" THEN ref.path
    ELSE (CHOOSE p \in DOMAIN t : ref.label \in t[p].labels) \o ref.path
Resolves(t, ref) ==
    IF ref.label = "" THEN ref.path \in DOMAIN t
    ELSE \E p \in DOMAIN t : ref.label \in t[p].labels /\ p \o ref.path \in DOMAIN t

Meaning(t, s) ==
    CASE s.op = "root" -> Defined(t, <<>>, s.body, {})
      [] s.op = "ref" -> Defined(t, Denotes(t, s.ref), s.body, {})
      [] s.op = "label" -> Defined(t, Denotes(t, s.ref), s.body, {s.label})
      [] s.op = "delete" -> Without(t, {Denotes(t, s.ref)})
      [] s.op = "omit" -> t

(* The labels of a statement are new, or (again) the node has them.        *)
LabelsFresh(t, s, again) ==
    LET at == IF s.op = "root" THEN <<>> ELSE Denotes(t, s.ref)
        new == IF s.op \in {"delete", "omit"} THEN {} ELSE Said(s.body, at)
        own(p) == IF again /\ p \in DOMAIN t THEN t[p].labels ELSE {}
        used == UNION {t[p].labels : p \in DOMAIN t}
    IN  /\ \A n \in new : LiveLabels(n.node) \cap used \subseteq own(n.path)
        /\ s.op = "label" => s.label \notin used

----------------------------------------------------------------------------
Init ==
    /\ pc = "base"
    /\ base = NewRun(FALSE)
    /\ plugin = NewRun(TRUE)
    /\ whole = NewRun(FALSE)
    /\ meant = (<<>> :> [labels |-> {}, props |-> << >>])
    /\ tmp = Result(build_node(<<>>, <<>>), build_node(<<>>, <<>>), "")
    /\ room = 0

(* The parser reads one statement of the base.                             *)
BaseStatement(s) ==
    /\ pc = "base" /\ base.n < MaxBase
    /\ s.op # "root" => Resolves(meant, s.ref)
    /\ LabelsFresh(meant, s, TRUE)
    /\ base' = devicetree(base, s)
    /\ whole' = devicetree(whole, s)
    /\ meant' = Meaning(meant, s)
    /\ UNCHANGED <<pc, plugin, tmp, room>>

CompileBase ==
    /\ pc = "base" /\ base.n > 0
    /\ base' = main(base)
    /\ pc' = IF base'.err THEN "error" ELSE "plugin"
    /\ UNCHANGED <<plugin, whole, meant, tmp, room>>

PluginStatement(s) ==
    /\ pc = "plugin" /\ plugin.n < MaxPlugin
    /\ s.op # "root" => Resolves(meant, s.ref)
    /\ LabelsFresh(meant, s, FALSE)
    /\ plugin' = devicetree(plugin, s)
    /\ whole' = devicetree(whole, s)
    /\ meant' = Meaning(meant, s)
    /\ UNCHANGED <<pc, base, tmp, room>>

CompilePlugin ==
    /\ pc = "plugin" /\ plugin.n > 0
    /\ plugin' = main(plugin)
    /\ whole' = main(whole)
    /\ tmp' = Result(Blob(base.dt), Blob(plugin'.dt), "NOSPACE")
    /\ pc' = IF plugin'.err \/ whole'.err THEN "error" ELSE "apply"
    /\ UNCHANGED <<base, meant, room>>

(* One turn of apply_one: fresh copies of both blobs, and a larger buffer  *)
(* for the next turn when this one has too little room.                    *)
apply_one(fdt, fdto) == fdt_overlay_apply(fdt, fdto, room)

ApplyOne ==
    /\ pc = "apply"
    /\ tmp' = apply_one(Blob(base.dt), Blob(plugin.dt))
    /\ room' = IF tmp'.err = "NOSPACE" THEN room + Increment ELSE room
    /\ pc' = IF tmp'.err = "NOSPACE" THEN "apply" ELSE "done"
    /\ UNCHANGED <<base, plugin, whole, meant>>

Next ==
    \/ \E s \in BaseSource : BaseStatement(s)
    \/ CompileBase
    \/ \E s \in PluginSource : PluginStatement(s)
    \/ CompilePlugin
    \/ ApplyOne

Spec == Init /\ [][Next]_vars

----------------------------------------------------------------------------
(* What the live tree says once its deleted parts are skipped.             *)
LiveMeaning(dt) ==
    LET w == Walk(dt)
        n(p) == NodeAt(dt, get_node_by_path(dt, p))
    IN  [p \in {PathOf(dt, w[i]) : i \in DOMAIN w} |->
            [labels |-> LiveLabels(n(p)),
             props |-> [name \in {n(p).props[i].name : i \in LiveProps(n(p))} |->
                           n(p).props[get_property(n(p), name)].val]]]

(* The tree dtc builds says what the source says: nothing that a statement *)
(* deleted comes back when a later one names the same node, property or    *)
(* label again, and nothing else is lost (livetree.c merge_nodes,          *)
(* delete_node, add_label).                                                *)
LiveTreeExact ==
    pc \in {"base", "plugin"} => ~whole.err /\ LiveMeaning(whole.dt) = meant

(* What a cell that stands for a reference refers to: a node by its path,  *)
(* or nothing when no node or more than one has that phandle.              *)
Referent(t, ph) ==
    LET w == Walk(t)
        hits == {i \in DOMAIN w : fdt_get_phandle(NodeAt(t, w[i])) = ph}
    IN  IF \E i \in hits : hits = {i}
        THEN FixupItem(PathOf(t, w[First(hits)]), "phandle of", 0)
        ELSE FixupItem(<<>>, "no phandle", ph)

Refs == LET rs == PhandleRefs(whole.dt)
        IN  {<<PathOf(whole.dt, rs[k].pos), rs[k].prop, rs[k].off>> : k \in DOMAIN rs}

(* A path that a plugin inserts is the path below its fragment: compiled   *)
(* plugins have no fixups for paths, so the merged value keeps it.  Here   *)
(* it stands for the node it names, which whole knows by its label.        *)
Home(item) ==
    LET pos == get_node_by_path(plugin.dt, item.path)
        labels == IF item.prop # "/" \/ pos = NoNode THEN {}
                  ELSE LiveLabels(NodeAt(plugin.dt, pos))
    IN  IF labels = {} THEN item
        ELSE PathItem(PathOf(whole.dt, get_node_by_label(whole.dt, CHOOSE l \in labels : TRUE)))

Contents(t) ==
    LET w == Walk(t)
        Of(pos, p) ==
            [k \in DOMAIN p.val.items |->
                IF <<PathOf(t, pos), p.name, k - 1>> \in Refs
                THEN Referent(t, p.val.items[k].cell)
                ELSE IF PathOf(t, pos) = <<"__symbols__">> THEN p.val.items[k]
                ELSE Home(p.val.items[k])]
        Props(pos) ==
            LET n == NodeAt(t, pos)
            IN  {<<n.props[i].name, Of(pos, n.props[i])>> :
                    i \in {k \in DOMAIN n.props : n.props[k].name \notin ToSet(PhandleNames)}}
    IN  {<<PathOf(t, w[i]), Props(w[i])>> : i \in DOMAIN w}

(* Applying the compiled plugin to the compiled base gives the tree that   *)
(* compiling both as one source gives: the same nodes, properties and      *)
(* symbols, and every reference leads to the node it names, however the    *)
(* two compilations numbered their phandles, whatever nodes both number,   *)
(* wherever a path inserted before it moved it (data_insert_at_marker),    *)
(* and however often apply_one ran out of room before.                     *)
OverlayMeansMerge ==
    /\ pc = "error" => base.err \/ whole.err
    /\ pc = "done" => \/ tmp.err = "NOPHANDLES"
                      \/ tmp.err = "" /\ Contents(tmp.fdt) = Contents(Blob(whole.dt))

(* Whatever version dtc writes, reading the blob gives the tree and the    *)
(* reserved ranges back: full paths become names again, values are found   *)
(* behind their padding, and a property whose name shares its bytes with   *)
(* another keeps it; libfdt accepts a blob of version 17.                  *)
Written == CASE pc = "plugin" /\ plugin.n = 0 -> {base.dt}
             [] pc = "apply" /\ room = 0 -> {plugin.dt}
             [] OTHER -> {}
BlobReadsBack ==
    \A dt \in Written, v \in Versions, rsv \in Reserves :
        LET f == dt_to_blob(dt, rsv, v, 4)
            r == dt_from_blob(f)
        IN  /\ r.ok /\ r.rsv = rsv
            /\ check_name_properties(r.dt) = Spelled(dt)
            /\ v = 17 => F!fdt_check_full(f, f.tot) = 0
=============================================================================
