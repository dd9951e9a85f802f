------------------------------ MODULE FlatTree ------------------------------
(***************************************************************************)
(* How dtc writes a tree as a blob and reads one back (flattree.c), in     *)
(* each of its five versions.  Before version 16 a node carries its full   *)
(* path instead of its name, a property "name" of its own, and values of   *)
(* eight bytes or more are aligned to eight.                               *)
(*                                                                         *)
(* The blob is the record of module Fdt.  A tag PROP holds the padding     *)
(* before its value in its field name.  The tree written is one of         *)
(* LiveTree; the tree read has byte strings for names and values.          *)
(***************************************************************************)
EXTENDS LiveTree

CONSTANT Spelling   \* how each name of the tree is spelled, as bytes

F == INSTANCE Fdt

Versions == {1, 2, 3, 16, 17}
FTF_FULLPATH(v) == v < 16
FTF_VARALIGN(v) == v < 16
FTF_NAMEPROPS(v) == v < 16
HdrSize(v) ==
    CASE v = 1 -> 28
      [] v = 2 -> 32
      [] v \in {3, 16} -> 36
      [] v = 17 -> 40
AlignUp(n, a) == a * ((n + a - 1) \div a)
Zeroes(n) == [i \in 1..n |-> 0]

(* The bytes of a value.  A path string ends with a NUL; the string of a   *)
(* fixup has its three parts set off by colons.                            *)
Slash == <<47>>
SpellPath(p) ==
    IF p = <<>> THEN Slash
    ELSE FoldLeft(LAMBDA s, name : s \o Slash \o Spelling[name], <<>>, p)
SpellItem(item) ==
    CASE item.prop \notin {"", "/"} ->
             SpellPath(item.path) \o <<58>> \o Spelling[item.prop] \o <<58, 48 + item.cell, 0>>
      [] item.prop = "/" -> Append(SpellPath(item.path), 0)
      [] OTHER -> <<0, 0, 0, item.cell>>
SpellValue(val) == FoldLeft(LAMBDA s, item : s \o SpellItem(item), <<>>, val.items)
(* A name up to its unit address.                                          *)
Basename(s) ==
    LET at == SelectInSeq(s, LAMBDA c : c = 64) IN SubSeq(s, 1, IF at = 0 THEN Len(s) ELSE at - 1)

----------------------------------------------------------------------------
(* Seeded fault: a name is shared with any place it begins at.             *)
StringtableInsertPrefix(str, s) ==
    LET hits == {p \in 0..(Len(str) - Len(s)) : SubSeq(str, p + 1, p + Len(s)) = s}
    IN  IF hits = {} THEN [off |-> Len(str), str |-> str \o Append(s, 0)]
        ELSE [off |-> First(hits), str |-> str]

(* A name is shared with the tail of another one.                          *)
stringtable_insert(str, s) ==
    LET i == F!fdt_find_string_(str, s)
    IN  [off |-> i, str |-> IF i < Len(str) THEN str ELSE str \o Append(s, 0)]

SizeOf(t) == F!SizeOf(t) + IF t.tag = "PROP" THEN Len(t.name) ELSE 0

(* The padding that puts the value at a multiple of eight.                 *)
Padding(v, pos, len) ==
    IF FTF_VARALIGN(v) /\ len >= 8 THEN Zeroes(AlignUp(pos + 12, 8) - (pos + 12)) ELSE <<>>

Emit(b, t) == [b EXCEPT !.st = Append(@, t), !.size = @ + SizeOf(t)]
EmitProp(b, name, val, v) ==
    LET ins == stringtable_insert(b.str, name)
    IN  [Emit(b, F!Tag("PROP", Padding(v, b.size, Len(val)), ins.off, val)) EXCEPT
            !.str = ins.str]

RECURSIVE flatten_tree(_, _, _, _)
flatten_tree(b, n, path, v) ==
    LET begun == Emit(b, F!BEGIN_NODE(
                      IF FTF_FULLPATH(v) THEN SpellPath(path) ELSE Spelling[n.name]))
        props == FoldLeft(LAMBDA c, p : IF p.del THEN c
                              ELSE EmitProp(c, Spelling[p.name], SpellValue(p.val), v),
                          begun, n.props)
        named == IF FTF_NAMEPROPS(v) /\ get_property(n, "name") = 0
                 THEN EmitProp(props, Spelling["name"], Append(Basename(Spelling[n.name]), 0), v)
                 ELSE props
        kids == FoldLeft(LAMBDA c, k : flatten_tree(c, k, Append(path, k.name), v),
                         named, n.kids)
    IN  IF n.del THEN b ELSE Emit(kids, F!END_NODE)

(* The reserve map ends with an entry of zeroes; the strings come last.    *)
make_fdt_header(b, rsv, v, padlen) ==
    LET off == AlignUp(HdrSize(v), 8)
        o == [rsv |-> off, st |-> off + 16 * (Len(rsv) + 1),
              str |-> off + 16 * (Len(rsv) + 1) + b.size]
    IN  [magic |-> "FDT_MAGIC", ver |-> v, dedup |-> TRUE,
         tot |-> o.str + Len(b.str) + padlen, o |-> o, at |-> o,
         n |-> [st |-> b.size, str |-> Len(b.str)],
         rsv |-> Append(rsv, <<0, 0>>), st |-> b.st, str |-> b.str]
dt_to_blob(dt, rsv, v, padlen) ==
    make_fdt_header(Emit(flatten_tree([st |-> <<>>, str |-> <<>>, size |-> 0], dt, <<>>, v),
                         F!END), rsv, v, padlen)

----------------------------------------------------------------------------
(* Reading back.  A reader that leaves its block, finds its value elsewhere*)
(* or a tag out of place dies: dead.                                       *)
NoTree == [name |-> <<>>, props |-> <<>>, kids |-> <<>>]
Start == [n |-> NoTree, i |-> 1, pos |-> 0, dead |-> FALSE]
Dead == [Start EXCEPT !.dead = TRUE]

flat_read_stringtable(f, off) ==
    LET end == SelectInSubSeq(f.str, off + 1, Len(f.str), LAMBDA c : c = 0)
    IN  IF off >= Len(f.str) \/ end = 0 THEN F!NoName ELSE SubSeq(f.str, off + 1, end - 1)

nodename_from_path(ppath, cpath) ==
    SubSeq(cpath, Len(ppath) + (IF ppath = Slash THEN 1 ELSE 2), Len(cpath))

(* The reader has come to tag r.i, r.pos bytes into the block.             *)
Past(r, f) == [r EXCEPT !.i = @ + 1, !.pos = @ + SizeOf(f.st[r.i])]

flat_read_property(f, r) ==
    LET t == f.st[r.i]
        pos == r.pos + 12
        skip == IF FTF_VARALIGN(f.ver) /\ Len(t.val) >= 8 THEN AlignUp(pos, 8) - pos ELSE 0
        name == flat_read_stringtable(f, t.off)
    IN  [name |-> name, val |-> t.val,
         dead |-> name = F!NoName \/ skip # Len(t.name)
                  \/ f.o.st + pos + skip + Len(t.val) > f.tot]

(* The rest of the node whose name in the blob is flatname.                *)
RECURSIVE ReadInto(_, _, _)
RECURSIVE unflatten_tree(_, _, _)
ReadInto(f, r, flatname) ==
    LET p == flat_read_property(f, r)
        kid == unflatten_tree(f, r, flatname)
        tag == IF r.i > Len(f.st) THEN "none" ELSE f.st[r.i].tag
    IN  CASE tag = "PROP" ->
                 IF p.dead THEN Dead
                 ELSE ReadInto(f, [Past(r, f) EXCEPT !.n.props =
                                      Append(@, [name |-> p.name, val |-> p.val])], flatname)
          [] tag = "BEGIN_NODE" ->
                 IF kid.dead THEN Dead
                 ELSE ReadInto(f, [kid EXCEPT !.n =
                                      [r.n EXCEPT !.kids = Append(@, kid.n)]], flatname)
          [] tag = "END_NODE" -> Past(r, f)
          [] tag = "NOP" -> ReadInto(f, Past(r, f), flatname)
          [] OTHER -> Dead
unflatten_tree(f, r, parent) ==
    LET flat == f.st[r.i].name
        name == IF FTF_FULLPATH(f.ver) THEN nodename_from_path(parent, flat) ELSE flat
    IN  IF FTF_FULLPATH(f.ver) /\ ~IsPrefix(parent, flat) THEN Dead
        ELSE ReadInto(f, [Past(r, f) EXCEPT !.n = [NoTree EXCEPT !.name = name]], flat)

flat_read_mem_reserve(f) ==
    SubSeq(f.rsv, 1, SelectInSeq(f.rsv, LAMBDA r : r[2] = 0) - 1)

dt_from_blob(f) ==
    LET root == unflatten_tree(f, Start, <<>>)
        ok == /\ f.magic = "FDT_MAGIC"
              /\ f.o.rsv < f.tot /\ f.o.st < f.tot /\ f.o.str <= f.tot
              /\ f.ver >= 3 => f.o.str + f.n.str <= f.tot
              /\ f.ver >= 17 => f.o.st + f.n.st <= f.tot
              /\ f.st[1].tag = "BEGIN_NODE"
              /\ ~root.dead /\ root.i = Len(f.st) /\ f.st[root.i].tag = "END"
    IN  [ok |-> ok, dt |-> root.n, rsv |-> flat_read_mem_reserve(f)]

(* A property "name" that repeats the node's base name is redundant and is *)
(* dropped when the tree is checked.                                       *)
RECURSIVE check_name_properties(_)
check_name_properties(n) ==
    [n EXCEPT
            !.props = SelectSeq(@, LAMBDA p : ~(p.name = Spelling["name"]
                                                /\ p.val = Append(Basename(n.name), 0))),
            !.kids = FoldLeft(LAMBDA s, k : Append(s, check_name_properties(k)), <<>>, @)]

(* What the blob should say: the tree without its deleted parts.           *)
RECURSIVE Spelled(_)
Spelled(n) ==
    [name |-> Spelling[n.name],
     props |-> FoldLeft(LAMBDA s, p : IF p.del THEN s
                      ELSE Append(s, [name |-> Spelling[p.name], val |-> SpellValue(p.val)]),
                      <<>>, n.props),
     kids |-> FoldLeft(LAMBDA s, k : IF k.del THEN s ELSE Append(s, Spelled(k)),
                          <<>>, n.kids)]
=============================================================================
