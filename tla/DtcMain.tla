------------------------------ MODULE DtcMain ------------------------------
(***************************************************************************)
(* One run of dtc on a source file: the productions of the grammar that    *)
(* build the tree (dtc-parser.y), the checks that can refuse it or rewrite *)
(* it (checks.c), and what main does with it (dtc.c), for a run with -@.   *)
(*                                                                         *)
(* A run is a record: dt, the tree; n, the statements read; plugin, the    *)
(* /plugin/ flag; frag and phandle, the static counters; status, the       *)
(* outcome of each check; err, set when dtc stops with an error.           *)
(*                                                                         *)
(* Of the checks this keeps the ones whose outcome is an error and that    *)
(* look at names, labels, phandles and references.                         *)
(***************************************************************************)
EXTENDS LiveTree

CheckTable == <<"duplicate_node_names", "duplicate_property_names", "duplicate_label",
                "explicit_phandles", "phandle_references", "path_references",
                "omit_unused_nodes">>
Prereqs(c) ==
    CASE c = "phandle_references" -> <<"duplicate_node_names", "explicit_phandles">>
      [] c = "path_references" -> <<"duplicate_node_names">>
      [] c = "omit_unused_nodes" -> <<"phandle_references", "path_references">>
      [] OTHER -> <<>>

NewRun(plugin) ==
    [dt |-> build_node(<<>>, <<>>), n |-> 0, plugin |-> plugin, frag |-> 0,
     phandle |-> 1, err |-> FALSE,
     status |-> [i \in {CheckTable[k] : k \in DOMAIN CheckTable} |-> "UNCHECKED"]]

----------------------------------------------------------------------------
(* A statement of the source: "/ body", "ref body", "label: ref body",     *)
(* "/delete-node/ ref" or "/omit-if-no-ref/ ref".                          *)
Failed(x) == [x EXCEPT !.err = TRUE]
SetDt(x, pos, n) == [x EXCEPT !.dt = Put(@, pos, n)]

Orphan(x, s) ==
    [x EXCEPT !.dt = add_orphan_node(@, s.body, s.ref, x.frag), !.frag = @ + 1,
              !.err = @ \/ is_ref_relative(s.ref)]

Statement(x, s, at) ==
    LET n == NodeAt(x.dt, at)
        y == [x EXCEPT !.n = @ + 1]
    IN  CASE s.op = "root" ->
                 [y EXCEPT !.dt = IF x.n = 0 THEN s.body ELSE merge_nodes(@, s.body)]
          [] s.op # "root" /\ x.n = 0 ->
                 IF s.op = "ref" /\ x.plugin THEN Orphan(y, s) ELSE Failed(y)
          [] s.op = "ref" /\ x.n > 0 /\ x.plugin
             /\ (at = NoNode \/ s.ref.label = "" \/ is_ref_relative(s.ref)) -> Orphan(y, s)
          [] s.op = "label" /\ x.plugin /\ is_ref_relative(s.ref) -> Failed(y)
          [] at = NoNode -> Failed(y)
          [] s.op = "ref" -> SetDt(y, at, merge_nodes(n, s.body))
          [] s.op = "label" ->
                 SetDt(y, at, merge_nodes([n EXCEPT !.labels = add_label(@, s.label)], s.body))
          [] s.op = "delete" -> SetDt(y, at, delete_node(n))
          [] s.op = "omit" -> SetDt(y, at, [n EXCEPT !.omit = TRUE])
devicetree(x, s) == Statement(x, s, get_node_by_ref(x.dt, s.ref))

----------------------------------------------------------------------------
Fail(x, c) == [x EXCEPT !.status[c] = "FAILED"]
FailIf(bad, x, c) == IF bad THEN Fail(x, c) ELSE x

(* The sibling that has the name again counts even when it is deleted.     *)
check_duplicate_node_names(x, pos) ==
    LET n == NodeAt(x.dt, pos)
    IN  FailIf(\E i \in LiveKids(n), j \in DOMAIN n.kids :
                   i < j /\ n.kids[i].name = n.kids[j].name, x, "duplicate_node_names")
check_duplicate_property_names(x, pos) ==
    LET n == NodeAt(x.dt, pos)
    IN  FailIf(\E i, j \in LiveProps(n) : i < j /\ n.props[i].name = n.props[j].name,
               x, "duplicate_property_names")
check_duplicate_label_node(x, pos) ==
    FailIf(\E l \in LiveLabels(NodeAt(x.dt, pos)) : get_node_by_label(x.dt, l) # pos,
           x, "duplicate_label")

(* The value of a phandle property; 0 for none, or for a reference of the  *)
(* node to itself, which asks for a phandle; -1 for a wrong one.           *)
PhandleValue(x, pos, val) ==
    LET refs == {k \in DOMAIN val.markers : val.markers[k].type = "REF_PHANDLE"}
    IN  CASE Len(val.items) # 1 -> -1
          [] Len(val.items) = 1 /\ refs # {} ->
                 IF get_node_by_ref(x.dt, val.markers[First(refs)].ref) = pos THEN 0 ELSE -1
          [] OTHER -> IF phandle_is_valid(val.items[1].cell) THEN val.items[1].cell ELSE -1
check_phandle_prop(x, pos, name) ==
    LET n == NodeAt(x.dt, pos)
    IN  IF get_property(n, name) = 0 THEN 0
        ELSE PhandleValue(x, pos, n.props[get_property(n, name)].val)

(* The node takes the phandle unless another node has it.                  *)
TakePhandle(x, pos, ph) ==
    IF ph <= 0 THEN x
    ELSE IF get_node_by_phandle(x.dt, ph) \notin {NoNode, pos} THEN Fail(x, "explicit_phandles")
    ELSE SetDt(x, pos, [NodeAt(x.dt, pos) EXCEPT !.ph = ph])
Agreed(x, pos, ph, lph) ==
    TakePhandle(FailIf(ph = -1 \/ lph = -1 \/ (ph > 0 /\ lph > 0 /\ ph # lph),
                       x, "explicit_phandles"),
                pos, IF ph > 0 THEN ph ELSE lph)
check_explicit_phandles(x, pos) ==
    Agreed(x, pos, check_phandle_prop(x, pos, "phandle"),
                   check_phandle_prop(x, pos, "linux,phandle"))

Referenced(x, pos) == SetDt(x, pos, [NodeAt(x.dt, pos) EXCEPT !.ref = TRUE])
SetItem(x, pos, i, off, item) ==
    SetDt(x, pos, [NodeAt(x.dt, pos) EXCEPT !.props[i].val.items[off + 1] = item])

(* The properties of the node that are not deleted are visited in order;   *)
(* a phandle property the visit adds comes last and has no marker.         *)
OverMarkers(One(_, _, _), x, pos) ==
    LET n == NodeAt(x.dt, pos)
        OfProp(y, i) ==
            IF n.props[i].del THEN y
            ELSE FoldLeft(LAMBDA z, m : One(z, i, m), y, [k \in DOMAIN n.props[i].val.markers |-> k])
    IN  FoldLeft(OfProp, x, [i \in DOMAIN n.props |-> i])

PhandleAt(x, pos, i, off, to) ==
    Referenced(SetItem(x, pos, i, off, Cell(NodeAt(x.dt, to).ph)), to)
Resolved(x, pos, i, off, to) ==
    CASE to = NoNode /\ x.plugin -> SetItem(x, pos, i, off, Cell(Ones))
      [] to = NoNode /\ ~x.plugin -> Fail(x, "phandle_references")
      [] OTHER -> PhandleAt(get_node_phandle(x, to), pos, i, off, to)
fixup_phandle_references(x, pos) ==
    LET One(y, i, m) ==
            LET mark == NodeAt(y.dt, pos).props[i].val.markers[m]
            IN  IF mark.type # "REF_PHANDLE" THEN y
                ELSE Resolved(y, pos, i, mark.off, get_node_by_ref(y.dt, mark.ref))
    IN  OverMarkers(One, x, pos)

Spelt(x, pos, i, m, to) ==
    IF to = NoNode THEN Fail(x, "path_references")
    ELSE Referenced(SetDt(x, pos, [NodeAt(x.dt, pos) EXCEPT !.props[i].val =
             data_insert_at_marker(@, m, PathItem(PathOf(x.dt, to)))]), to)
fixup_path_references(x, pos) ==
    LET One(y, i, m) ==
            LET mark == NodeAt(y.dt, pos).props[i].val.markers[m]
            IN  IF mark.type # "REF_PATH" THEN y
                ELSE Spelt(y, pos, i, m, get_node_by_ref(y.dt, mark.ref))
    IN  OverMarkers(One, x, pos)

fixup_omit_unused_nodes(x, pos) ==
    LET n == NodeAt(x.dt, pos)
    IN  IF n.labels = <<>> /\ n.omit /\ ~n.ref THEN SetDt(x, pos, delete_node(n)) ELSE x

check_nodes_props(x, c) ==
    LET fn(y, pos) ==
            CASE NodeAt(y.dt, pos).del -> y
              [] c = "duplicate_node_names" -> check_duplicate_node_names(y, pos)
              [] c = "duplicate_property_names" -> check_duplicate_property_names(y, pos)
              [] c = "duplicate_label" -> check_duplicate_label_node(y, pos)
              [] c = "explicit_phandles" -> check_explicit_phandles(y, pos)
              [] c = "phandle_references" -> fixup_phandle_references(y, pos)
              [] c = "path_references" -> fixup_path_references(y, pos)
              [] c = "omit_unused_nodes" -> fixup_omit_unused_nodes(y, pos)
    IN  FoldLeft(fn, x, Walk(x.dt))

(* A check runs once, after the checks it needs, and only when all of them *)
(* passed.  Once one has failed no other is run.                           *)
PrereqsMet(x, c) == \A k \in DOMAIN Prereqs(c) : x.status[Prereqs(c)[k]] = "PASSED"
Ended(x, c) == [x EXCEPT !.status[c] = IF @ = "UNCHECKED" THEN "PASSED" ELSE @]
CheckAlone(x, c) ==
    IF PrereqsMet(x, c) THEN Ended(check_nodes_props(x, c), c)
    ELSE [x EXCEPT !.status[c] = "PREREQ"]
Judged(x, c) == [x EXCEPT !.err = @ \/ x.status[c] # "PASSED"]

RECURSIVE run_check(_, _)
run_check(x, c) ==
    IF x.err \/ x.status[c] # "UNCHECKED" THEN x
    ELSE Judged(CheckAlone(FoldLeft(run_check, x, Prereqs(c)), c), c)
process_checks(x) == FoldLeft(run_check, x, CheckTable)

WithFixups(x) ==
    generate_local_fixups_tree(generate_fixups_tree(x, "__fixups__"), "__local_fixups__")
Generated(x) ==
    CASE x.err -> x
      [] ~x.err /\ ~x.plugin -> generate_label_tree(x, "__symbols__")
      [] OTHER -> WithFixups(generate_label_tree(x, "__symbols__"))
main(x) == Generated(process_checks(x))
=============================================================================
