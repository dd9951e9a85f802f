-------------------------------- MODULE Fdt --------------------------------
(***************************************************************************)
(* Flattened device trees, as libfdt reads them (fdt.c, fdt_ro.c and       *)
(* fdt_check.c; lib/fdt compiles them into the kernel).                    *)
(*                                                                         *)
(* A blob is a record: the header fields (magic, ver, tot; o = the offsets *)
(* and n = the sizes of the blocks), where each block really lies (at) and *)
(* the blocks: rsv, the reserved ranges; st, the structure block as a      *)
(* sequence of tags; str, the strings block as a sequence of bytes.  A     *)
(* structure offset is the number of tags before it, sizes are in bytes.   *)
(* Names and values are short sequences of bytes.  A negative result is an *)
(* error code.                                                             *)
(***************************************************************************)
EXTENDS Integers, FiniteSets, SequencesExt

NOTFOUND == -1
EXISTS == -2
NOSPACE == -3
BADOFFSET == -4
BADPATH == -5
BADPHANDLE == -6
BADSTATE == -7
TRUNCATED == -8
BADMAGIC == -9
BADVERSION == -10
BADSTRUCTURE == -11
BADLAYOUT == -12
BADVALUE == -15
NOPHANDLES == -17

Slash == 47
At == 64
NoName == <<-1>>

(* The tags of the structure block; off is the name's place in the strings *)
(* block.                                                                  *)
Tag(tag, name, off, val) ==
    [tag |-> tag, name |-> name, off |-> off, val |-> val]
BEGIN_NODE(name) == Tag("BEGIN_NODE", name, 0, <<>>)
PROP(off, val) == Tag("PROP", <<>>, off, val)
NOP == Tag("NOP", <<>>, 0, <<>>)
END_NODE == Tag("END_NODE", <<>>, 0, <<>>)
END == Tag("END", <<>>, 0, <<>>)

FDT_TAGALIGN(n) == 4 * ((n + 3) \div 4)
HdrSize == 40
SwHdrSize == 48
RsvSize == 16

SizeOf(t) ==
    CASE t.tag = "BEGIN_NODE" -> 4 + FDT_TAGALIGN(Len(t.name) + 1)
      [] t.tag = "PROP" -> 12 + FDT_TAGALIGN(Len(t.val))
      [] OTHER -> 4
Bytes(st) ==
    LET upto[n \in 0..Len(st)] == IF n = 0 THEN 0 ELSE upto[n - 1] + SizeOf(st[n])
    IN  upto[Len(st)]

(* The bytes of s before the first c, all of them when there is none.      *)
UpTo(s, c) ==
    CHOOSE n \in 0..Len(s) :
        /\ \A i \in 1..n : s[i] # c
        /\ n < Len(s) => s[n + 1] = c

----------------------------------------------------------------------------
fdt_ro_probe_(f) ==
    CASE f.magic = "FDT_MAGIC" -> 0
      [] f.magic = "FDT_SW_MAGIC" -> IF f.n.st = 0 THEN BADSTATE ELSE 0
      [] OTHER -> BADMAGIC

(* The tag at offset o must end inside the structure block.                *)
fdt_offset_ptr(f, end) == f.o.st + end <= f.tot /\ (f.ver >= 17 => end <= f.n.st)
fdt_next_tag(f, o) ==
    IF 0 <= o /\ o < Len(f.st) /\ fdt_offset_ptr(f, Bytes(SubSeq(f.st, 1, o + 1)))
    THEN [tag |-> f.st[o + 1].tag, next |-> o + 1]
    ELSE [tag |-> "END", next |-> TRUNCATED]

(* Past a tag that must be of the given kind.                              *)
Past(t, tag) == IF t.tag # tag THEN BADOFFSET ELSE t.next
fdt_check_node_offset_(f, o) == Past(fdt_next_tag(f, o), "BEGIN_NODE")
fdt_check_prop_offset_(f, o) == Past(fdt_next_tag(f, o), "PROP")

(* The next node in the order of the block, with its depth relative to the *)
(* start; counted = FALSE is a call without a depth.                       *)
RECURSIVE ScanNode(_, _, _, _), ScanTag(_, _, _, _, _)
ScanNode(f, o, depth, counted) ==
    IF o < 0 THEN [off |-> o, depth |-> depth]
    ELSE ScanTag(f, o, fdt_next_tag(f, o), depth, counted)
ScanTag(f, o, t, depth, counted) ==
    CASE t.tag = "BEGIN_NODE" -> [off |-> o, depth |-> depth + 1]
      [] t.tag = "END_NODE" ->
             IF counted /\ depth = 0 THEN [off |-> t.next, depth |-> -1]
             ELSE ScanNode(f, t.next, depth - 1, counted)
      [] t.tag = "END" ->
             [off |-> IF t.next >= 0 \/ (t.next = TRUNCATED /\ ~counted)
                      THEN NOTFOUND ELSE t.next, depth |-> depth]
      [] OTHER -> ScanNode(f, t.next, depth, counted)

fdt_next_node(f, o, depth, counted) ==
    ScanNode(f, IF o >= 0 THEN fdt_check_node_offset_(f, o) ELSE 0, depth, counted)

(* The first node at depth 1 from node r on, which is at depth r.depth.    *)
OffsetAtDepth1(r) == IF r.off < 0 \/ r.depth # 1 THEN NOTFOUND ELSE r.off
fdt_first_subnode(f, o) == OffsetAtDepth1(fdt_next_node(f, o, 0, TRUE))
RECURSIVE NextAtDepth(_, _)
NextAtDepth(f, r) ==
    IF r.off >= 0 /\ r.depth > 1
    THEN NextAtDepth(f, fdt_next_node(f, r.off, r.depth, TRUE))
    ELSE OffsetAtDepth1(r)
fdt_next_subnode(f, o) == NextAtDepth(f, fdt_next_node(f, o, 1, TRUE))

(* The first place where s stands followed by its NUL: the tail of a       *)
(* longer name will do.  The number of bytes of the table when there is    *)
(* none.                                                                   *)
fdt_find_string_(tab, s) ==
    LET t == Append(s, 0)
        hits == {p \in 0..(Len(tab) - Len(t)) : SubSeq(tab, p + 1, p + Len(t)) = t}
    IN  IF hits = {} THEN Len(tab)
        ELSE CHOOSE p \in hits : \A q \in hits : p <= q

----------------------------------------------------------------------------
(* While a blob is written sequentially its strings grow down from the end *)
(* of the buffer and their offsets are negative.                           *)
CString(s) == IF Contains(s, 0) THEN SubSeq(s, 1, UpTo(s, 0)) ELSE NoName

fdt_get_string(f, off) ==
    LET start == IF f.magic = "FDT_MAGIC" THEN off ELSE f.n.str + off
        ok == IF f.magic = "FDT_MAGIC" THEN off >= 0 /\ off < f.n.str
              ELSE off < 0 /\ -off <= f.n.str
    IN  IF fdt_ro_probe_(f) < 0 \/ f.o.str + off >= f.tot \/ ~ok THEN NoName
        ELSE CString(SubSeq(f.str, start + 1, f.n.str))

fdt_get_name(f, o) ==
    IF fdt_ro_probe_(f) < 0 \/ fdt_check_node_offset_(f, o) < 0 THEN NoName
    ELSE f.st[o + 1].name

(* A name without a unit address matches a node that has one.              *)
NameEq(p, s) ==
    /\ p # NoName
    /\ IsPrefix(s, p)
    /\ \/ Len(p) = Len(s)
       \/ p[Len(s) + 1] = At /\ ~Contains(s, At)
fdt_nodename_eq_(f, o, s) == NameEq(fdt_get_name(f, o), s)

(* Seeded fault: a property that was blanked out hides the ones behind it. *)
NextpropNoNops(f, o) ==
    LET t == fdt_next_tag(f, o) IN
    CASE o < 0 \/ t.tag = "PROP" -> o
      [] t.tag = "END" -> IF t.next >= 0 THEN BADSTRUCTURE ELSE t.next
      [] OTHER -> NOTFOUND

(* A start that is an error is passed on.                                  *)
RECURSIVE nextprop_(_, _), PropTag(_, _, _)
nextprop_(f, o) == IF o < 0 THEN o ELSE PropTag(f, o, fdt_next_tag(f, o))
PropTag(f, o, t) ==
    CASE t.tag = "PROP" -> o
      [] t.tag = "NOP" -> nextprop_(f, t.next)
      [] t.tag = "END" -> IF t.next >= 0 THEN BADSTRUCTURE ELSE t.next
      [] OTHER -> NOTFOUND

fdt_first_property_offset(f, o) == nextprop_(f, fdt_check_node_offset_(f, o))
fdt_next_property_offset(f, o) == nextprop_(f, fdt_check_prop_offset_(f, o))

RECURSIVE PropFrom(_, _, _)
PropFrom(f, o, name) ==
    IF o < 0 \/ fdt_get_string(f, f.st[o + 1].off) = name THEN o
    ELSE PropFrom(f, fdt_next_property_offset(f, o), name)
fdt_get_property(f, o, name) == PropFrom(f, fdt_first_property_offset(f, o), name)

(* The value of a property, or the error that kept it from being found.    *)
HasProp(f, o, name) == fdt_get_property(f, o, name) >= 0
fdt_getprop(f, o, name) == f.st[fdt_get_property(f, o, name) + 1].val

RECURSIVE SubnodeFrom(_, _, _)
SubnodeFrom(f, r, name) ==
    IF r.depth < 0 THEN NOTFOUND
    ELSE IF r.off < 0 \/ (r.depth = 1 /\ fdt_nodename_eq_(f, r.off, name)) THEN r.off
    ELSE SubnodeFrom(f, fdt_next_node(f, r.off, r.depth, TRUE), name)
fdt_subnode_offset(f, o, name) ==
    IF fdt_ro_probe_(f) < 0 THEN fdt_ro_probe_(f)
    ELSE SubnodeFrom(f, [off |-> o, depth |-> 0], name)

(* A path is walked one component at a time; one that does not start with  *)
(* a slash starts with the name of an alias.                               *)
RECURSIVE PathFrom(_, _, _)
PathFrom(f, o, p) ==
    IF p = <<>> \/ o < 0 THEN o
    ELSE IF Head(p) = Slash THEN PathFrom(f, o, Tail(p))
    ELSE LET q == UpTo(p, Slash)
         IN  PathFrom(f, fdt_subnode_offset(f, o, SubSeq(p, 1, q)), SubSeq(p, q + 1, Len(p)))

Aliases == <<Slash, 97, 108>>          \* stands for "/aliases"
AliasPath(f, i) ==
    LET v == f.st[i + 1].val
    IN  IF i < 0 \/ v = <<>> \/ Last(v) # 0 \/ Head(v) # Slash THEN NoName ELSE CString(v)
fdt_get_alias(f, name) == AliasPath(f, fdt_get_property(f, PathFrom(f, 0, Aliases), name))

AliasOffset(f, alias) == IF alias = NoName THEN BADPATH ELSE PathFrom(f, 0, alias)
fdt_path_offset(f, p) ==
    LET q == UpTo(p, Slash)
    IN  IF fdt_ro_probe_(f) < 0 THEN fdt_ro_probe_(f)
        ELSE IF p = <<>> THEN BADPATH
        ELSE IF Head(p) = Slash THEN PathFrom(f, 0, p)
        ELSE PathFrom(f, AliasOffset(f, fdt_get_alias(f, SubSeq(p, 1, q))),
                      SubSeq(p, q + 1, Len(p)))

(* The path of a node: the names of the nodes passed on the way that are   *)
(* not closed yet, as many as the buffer has room for.                     *)
PathBytes(names) ==
    LET p == FlattenSeq([i \in DOMAIN names |-> Append(names[i], Slash)])
    IN  IF Len(p) > 1 THEN Front(p) ELSE p

WalkError(off) ==
    IF off = NOTFOUND \/ off >= 0 THEN BADOFFSET
    ELSE IF off = BADOFFSET THEN BADSTRUCTURE ELSE off

(* r is the node reached and its depth, names the path so far.             *)
Pushed(names, name, depth, buflen) ==
    IF Len(names) >= depth /\ Len(FlattenSeq(names)) + Len(names) + Len(name) + 1 <= buflen
    THEN Append(names, name) ELSE names
Popped(names, depth) == SubSeq(names, 1, IF Len(names) < depth THEN Len(names) ELSE depth)
PathResult(names, depth) ==
    IF Len(names) < depth + 1 THEN [err |-> NOSPACE, path |-> <<>>]
    ELSE [err |-> 0, path |-> PathBytes(names)]
RECURSIVE GetPathFrom(_, _, _, _, _)
GetPathFrom(f, node, buflen, r, names) ==
    IF r.off < 0 \/ r.off > node THEN [err |-> WalkError(r.off), path |-> <<>>]
    ELSE LET more == Pushed(Popped(names, r.depth), fdt_get_name(f, r.off), r.depth, buflen)
         IN  IF r.off = node THEN PathResult(more, r.depth)
             ELSE GetPathFrom(f, node, buflen, fdt_next_node(f, r.off, r.depth, TRUE), more)
fdt_get_path(f, node, buflen) ==
    IF fdt_ro_probe_(f) < 0 THEN [err |-> fdt_ro_probe_(f), path |-> <<>>]
    ELSE IF buflen < 2 THEN [err |-> NOSPACE, path |-> <<>>]
    ELSE GetPathFrom(f, node, buflen, [off |-> 0, depth |-> 0], <<>>)

RECURSIVE SupernodeFrom(_, _, _, _, _)
SupernodeFrom(f, node, want, r, found) ==
    IF r.off < 0 \/ r.off > node THEN [off |-> WalkError(r.off), depth |-> r.depth]
    ELSE LET super == IF r.depth = want THEN r.off ELSE found
         IN  IF r.off = node
             THEN [off |-> IF want > r.depth THEN NOTFOUND ELSE super, depth |-> r.depth]
             ELSE SupernodeFrom(f, node, want, fdt_next_node(f, r.off, r.depth, TRUE), super)
fdt_supernode_atdepth_offset(f, node, want) ==
    IF fdt_ro_probe_(f) < 0 THEN [off |-> fdt_ro_probe_(f), depth |-> 0]
    ELSE IF want < 0 THEN [off |-> NOTFOUND, depth |-> 0]
    ELSE SupernodeFrom(f, node, want, [off |-> 0, depth |-> 0], -13)

DepthOrError(r) == IF r.off # 0 THEN r.off ELSE r.depth
fdt_node_depth(f, node) == DepthOrError(fdt_supernode_atdepth_offset(f, node, 0))
SupernodeAbove(f, node, d) == IF d < 0 THEN d ELSE fdt_supernode_atdepth_offset(f, node, d - 1).off
fdt_parent_offset(f, node) == SupernodeAbove(f, node, fdt_node_depth(f, node))

----------------------------------------------------------------------------
(* Searches over the nodes of the blob in order, after offset o.           *)
NextNode(f, o) == fdt_next_node(f, o, 0, FALSE).off
RECURSIVE SearchFrom(_, _, _)
SearchFrom(f, n, hits) ==
    IF n < 0 \/ n \in hits THEN n ELSE SearchFrom(f, NextNode(f, n), hits)
Search(f, o, hits) == SearchFrom(f, NextNode(f, o), hits)
Nodes(f) == {o \in 0..(Len(f.st) - 1) : f.st[o + 1].tag = "BEGIN_NODE"}

Phandle == <<112>>                     \* stands for "phandle"
LinuxPhandle == <<108, 112>>           \* stands for "linux,phandle"
Compatible == <<99>>                   \* stands for "compatible"
MaxPhandle == 250                      \* stands for FDT_MAX_PHANDLE
Cell(n) == <<0, 0, 0, n>>

CellOr(f, i, default) ==
    IF i >= 0 /\ Len(f.st[i + 1].val) = 4 THEN f.st[i + 1].val[4] ELSE default
fdt_get_phandle(f, o) ==
    CellOr(f, fdt_get_property(f, o, Phandle),
           CellOr(f, fdt_get_property(f, o, LinuxPhandle), 0))

RECURSIVE MaxFrom(_, _, _)
MaxFrom(f, n, max) ==
    IF n < 0 THEN IF n = NOTFOUND THEN max ELSE n
    ELSE MaxFrom(f, NextNode(f, n), Max({max, fdt_get_phandle(f, n)}))
fdt_find_max_phandle(f) == MaxFrom(f, NextNode(f, -1), 0)
AfterMax(max) == IF max < 0 THEN max ELSE IF max = MaxPhandle THEN NOPHANDLES ELSE max + 1
fdt_generate_phandle(f) == AfterMax(fdt_find_max_phandle(f))

fdt_node_offset_by_phandle(f, phandle) ==
    IF phandle = 0 THEN BADPHANDLE
    ELSE Search(f, -1, {o \in Nodes(f) : fdt_get_phandle(f, o) = phandle})
fdt_node_offset_by_prop_value(f, start, name, val) ==
    Search(f, start, {o \in Nodes(f) : HasProp(f, o, name) /\ fdt_getprop(f, o, name) = val})

(* Lists of NUL terminated strings: the strings of the list, and whether   *)
(* its last one is terminated.                                             *)
RECURSIVE Strings(_)
Strings(v) ==
    LET n == UpTo(v, 0)
    IN  IF v = <<>> THEN <<>>
        ELSE <<SubSeq(v, 1, n)>> \o Strings(SubSeq(v, n + 2, Len(v)))
Terminated(v) == v = <<>> \/ Last(v) = 0

fdt_stringlist_contains(v, s) == Contains(Strings(v), s)
fdt_stringlist_count(v) == IF Terminated(v) THEN Len(Strings(v)) ELSE BADVALUE
(* A string before an unterminated one is still found.                     *)
fdt_stringlist_search(v, s) ==
    LET whole == IF Terminated(v) THEN Strings(v) ELSE Front(Strings(v))
        n == SelectInSeq(whole, LAMBDA x : x = s)
    IN  IF n > 0 THEN n - 1 ELSE IF Terminated(v) THEN NOTFOUND ELSE BADVALUE
fdt_stringlist_get(v, i) ==
    LET whole == IF Terminated(v) THEN Strings(v) ELSE Front(Strings(v))
    IN  IF i < Len(whole) THEN whole[i + 1] ELSE NoName

fdt_node_offset_by_compatible(f, start, s) ==
    Search(f, start, {o \in Nodes(f) :
                         /\ HasProp(f, o, Compatible)
                         /\ fdt_stringlist_contains(fdt_getprop(f, o, Compatible), s)})

----------------------------------------------------------------------------
(* The reserved ranges end at the first one of size 0 (ranges are pairs    *)
(* <<address, size>>).                                                     *)
fdt_num_mem_rsv(f) ==
    LET n == SelectInSeq(f.rsv, LAMBDA r : r[2] = 0)
    IN  IF n = 0 \/ f.o.rsv + n * RsvSize > f.tot THEN TRUNCATED ELSE n - 1

check_block_(f, base, size) ==
    base >= HdrSize /\ base <= f.tot /\ base + size <= f.tot
fdt_check_header(f) ==
    IF f.magic # "FDT_MAGIC" THEN BADMAGIC
    ELSE IF /\ f.tot >= HdrSize
            /\ check_block_(f, f.o.rsv, 0)
            /\ check_block_(f, f.o.st, IF f.ver < 17 THEN 0 ELSE f.n.st)
            /\ check_block_(f, f.o.str, f.n.str)
    THEN 0 ELSE TRUNCATED

(* One root with an empty name, every node closed, nothing after the root, *)
(* every property with a name.                                             *)
RECURSIVE CheckFrom(_, _, _, _), CheckTag(_, _, _, _, _)
CheckFrom(f, o, depth, ended) == CheckTag(f, o, fdt_next_tag(f, o), depth, ended)
CheckTag(f, o, t, depth, ended) ==
    IF t.next < 0 THEN t.next
    ELSE IF \/ ended /\ t.tag # "END"
            \/ t.tag = "END" /\ depth # 0
            \/ t.tag = "END_NODE" /\ depth = 0
            \/ t.tag = "BEGIN_NODE" /\ depth = 0 /\ fdt_get_name(f, o) # <<>>
    THEN BADSTRUCTURE
    ELSE IF t.tag = "PROP" /\ fdt_get_string(f, f.st[o + 1].off) = NoName THEN BADOFFSET
    ELSE CASE t.tag = "END" -> 0
           [] t.tag = "BEGIN_NODE" -> CheckFrom(f, t.next, depth + 1, FALSE)
           [] t.tag = "END_NODE" -> CheckFrom(f, t.next, depth - 1, depth = 1)
           [] t.tag \in {"NOP", "PROP"} -> CheckFrom(f, t.next, depth, FALSE)

fdt_check_full(f, bufsize) ==
    IF bufsize < HdrSize THEN TRUNCATED
    ELSE IF fdt_check_header(f) # 0 THEN fdt_check_header(f)
    ELSE IF bufsize < f.tot THEN TRUNCATED
    ELSE IF fdt_num_mem_rsv(f) < 0 THEN fdt_num_mem_rsv(f)
    ELSE CheckFrom(f, 0, 0, FALSE)
=============================================================================
