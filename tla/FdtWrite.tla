------------------------------ MODULE FdtWrite ------------------------------
(***************************************************************************)
(* The calls of libfdt that change a blob: building one sequentially       *)
(* (fdt_sw.c, fdt_empty_tree.c), editing one (fdt_rw.c) and editing in     *)
(* place (fdt_wip.c).  A call returns [err, f]: its result and the blob it *)
(* leaves.                                                                 *)
(***************************************************************************)
EXTENDS Fdt

Ok(f) == [err |-> 0, f |-> f]
Err(e, f) == [err |-> e, f |-> f]
Then(r, Op(_)) == IF r.err # 0 THEN r ELSE Op(r.f)

NoBlob == [magic |-> "none", ver |-> 17, dedup |-> TRUE, tot |-> 0,
           o |-> [rsv |-> 0, st |-> 0, str |-> 0], n |-> [st |-> 0, str |-> 0],
           at |-> [rsv |-> 0, st |-> 0, str |-> 0],
           rsv |-> <<>>, st |-> <<>>, str |-> <<>>]

----------------------------------------------------------------------------
(* Sequential write.  The header's offset of the strings tells the states  *)
(* apart: 0 while ranges are reserved, the end of the buffer while the     *)
(* structure is written.                                                   *)
fdt_sw_probe_(f) ==
    CASE f.magic = "FDT_MAGIC" -> BADSTATE
      [] f.magic = "FDT_SW_MAGIC" -> 0
      [] OTHER -> BADMAGIC
fdt_sw_probe_memrsv_(f) ==
    IF fdt_sw_probe_(f) # 0 THEN fdt_sw_probe_(f)
    ELSE IF f.o.str # 0 THEN BADSTATE ELSE 0
fdt_sw_probe_struct_(f) ==
    IF fdt_sw_probe_(f) # 0 THEN fdt_sw_probe_(f)
    ELSE IF f.o.str # f.tot THEN BADSTATE ELSE 0

fdt_create_with_flags(bufsize, dedup) ==
    IF bufsize < SwHdrSize THEN Err(NOSPACE, NoBlob)
    ELSE Ok([NoBlob EXCEPT !.magic = "FDT_SW_MAGIC", !.dedup = dedup, !.tot = bufsize,
                           !.o = [rsv |-> SwHdrSize, st |-> SwHdrSize, str |-> 0],
                           !.at = [rsv |-> SwHdrSize, st |-> SwHdrSize, str |-> bufsize]])

(* The strings move to the end of the new buffer.                          *)
fdt_resize(f, bufsize) ==
    IF fdt_sw_probe_(f) # 0 THEN Err(fdt_sw_probe_(f), f)
    ELSE IF f.o.st + f.n.st + f.n.str > bufsize THEN Err(NOSPACE, f)
    ELSE Ok([f EXCEPT !.tot = bufsize, !.at.str = bufsize - f.n.str,
                      !.o.str = IF @ # 0 THEN bufsize ELSE 0])

fdt_add_reservemap_entry(f, r) ==
    IF fdt_sw_probe_memrsv_(f) # 0 THEN Err(fdt_sw_probe_memrsv_(f), f)
    ELSE IF f.o.st + RsvSize > f.tot THEN Err(NOSPACE, f)
    ELSE Ok([f EXCEPT !.rsv = Append(@, r), !.o.st = @ + RsvSize, !.at.st = @ + RsvSize])
fdt_finish_reservemap(f) ==
    Then(fdt_add_reservemap_entry(f, <<0, 0>>), LAMBDA g : Ok([g EXCEPT !.o.str = g.tot]))

(* The structure grows up and may not meet the strings.                    *)
fdt_grab_space_(f, t) ==
    IF f.n.st + SizeOf(t) > f.tot - f.o.st - f.n.str THEN Err(NOSPACE, f)
    ELSE Ok([f EXCEPT !.st = Append(@, t), !.n.st = @ + SizeOf(t)])
SwAppend(f, t) ==
    IF fdt_sw_probe_struct_(f) # 0 THEN Err(fdt_sw_probe_struct_(f), f)
    ELSE fdt_grab_space_(f, t)
fdt_begin_node(f, name) == SwAppend(f, BEGIN_NODE(name))
fdt_end_node(f) == SwAppend(f, END_NODE)

fdt_add_string_sw(f, s) ==
    LET len == Len(s) + 1 IN
    IF f.tot - f.n.str - len < f.o.st + f.n.st THEN Err(NOSPACE, f)
    ELSE Ok([f EXCEPT !.str = Append(s, 0) \o @, !.n.str = @ + len, !.at.str = @ - len])
fdt_del_last_string_sw(f, s) ==
    LET len == Len(s) + 1
    IN  [f EXCEPT !.str = SubSeq(@, len + 1, Len(@)), !.n.str = @ - len, !.at.str = @ + len]

(* A property's name is looked up among the strings unless the flags say   *)
(* not to; a string added for a property that has no room is taken back.   *)
fdt_property(f, name, val) ==
    LET old == fdt_find_string_(f.str, name)
        found == f.dedup /\ old < Len(f.str)
        s == IF found THEN Ok(f) ELSE fdt_add_string_sw(f, name)
        off == IF found THEN old - f.n.str ELSE -s.f.n.str
        r == fdt_grab_space_(s.f, PROP(off, val))
    IN  IF fdt_sw_probe_struct_(f) # 0 THEN Err(fdt_sw_probe_struct_(f), f)
        ELSE IF s.err # 0 THEN s
        ELSE IF r.err = 0 \/ found THEN r
        ELSE Err(r.err, fdt_del_last_string_sw(r.f, name))

(* The strings are moved down to the structure and the offsets of the      *)
(* names made positive.                                                    *)
RebaseNames(st, n) ==
    [i \in DOMAIN st |-> IF st[i].tag = "PROP" THEN [st[i] EXCEPT !.off = @ + n] ELSE st[i]]
fdt_finish(f) ==
    Then(SwAppend(f, END),
         LAMBDA g : Ok([g EXCEPT !.st = RebaseNames(@, g.n.str),
                                 !.o.str = g.o.st + g.n.st, !.at.str = g.o.st + g.n.st,
                                 !.tot = g.o.st + g.n.st + g.n.str, !.magic = "FDT_MAGIC"]))

----------------------------------------------------------------------------
(* Read-write.  The blocks must be in order and must not overlap.          *)
fdt_blocks_misordered_(f, rsvsize, stsize) ==
    \/ f.o.rsv < HdrSize
    \/ f.o.st < f.o.rsv + rsvsize
    \/ f.o.str < f.o.st + stsize
    \/ f.tot < f.o.str + f.n.str
(* Seeded fault: the order of the blocks is not checked.                   *)
RwProbeNoLayout(f) ==
    IF fdt_ro_probe_(f) < 0 THEN fdt_ro_probe_(f)
    ELSE IF f.ver < 17 THEN BADVERSION ELSE 0
fdt_rw_probe_(f) ==
    IF fdt_ro_probe_(f) < 0 THEN fdt_ro_probe_(f)
    ELSE IF f.ver < 17 THEN BADVERSION
    ELSE IF fdt_blocks_misordered_(f, RsvSize, f.n.st) THEN BADLAYOUT ELSE 0

fdt_data_size_(f) == f.o.str + f.n.str
(* Room for newlen bytes instead of oldlen at place p inside block b: what *)
(* lies behind them moves.                                                 *)
fdt_splice_(f, b, p, oldlen, newlen) ==
    IF p + oldlen > fdt_data_size_(f) THEN Err(BADOFFSET, f)
    ELSE IF fdt_data_size_(f) - oldlen + newlen > f.tot THEN Err(NOSPACE, f)
    ELSE Ok([f EXCEPT !.at = [c \in DOMAIN @ |->
                IF c # b /\ @[c] >= p + oldlen THEN @[c] + newlen - oldlen ELSE @[c]]])

Replace(s, i, k, new) == SubSeq(s, 1, i) \o new \o SubSeq(s, i + k + 1, Len(s))

fdt_splice_mem_rsv_(f, i, k, new) ==
    LET delta == (Len(new) - k) * RsvSize IN
    Then(fdt_splice_(f, "rsv", f.o.rsv + i * RsvSize, k * RsvSize, Len(new) * RsvSize),
         LAMBDA g : Ok([g EXCEPT !.rsv = Replace(@, i, k, new),
                                 !.o.st = @ + delta, !.o.str = @ + delta]))
fdt_splice_struct_(f, i, k, new) ==
    LET old == Bytes(SubSeq(f.st, i + 1, i + k))
        delta == Bytes(new) - old
    IN  Then(fdt_splice_(f, "st", f.o.st + Bytes(SubSeq(f.st, 1, i)), old, Bytes(new)),
             LAMBDA g : Ok([g EXCEPT !.st = Replace(@, i, k, new),
                                     !.n.st = @ + delta, !.o.str = @ + delta]))
fdt_splice_string_(f, s) ==
    Then(fdt_splice_(f, "str", fdt_data_size_(f), 0, Len(s) + 1),
         LAMBDA g : Ok([g EXCEPT !.str = @ \o Append(s, 0), !.n.str = @ + Len(s) + 1]))
fdt_del_last_string_(f, s) ==
    [f EXCEPT !.str = SubSeq(@, 1, Len(@) - Len(s) - 1), !.n.str = @ - Len(s) - 1]

Probed(f, r) == IF fdt_rw_probe_(f) # 0 THEN Err(fdt_rw_probe_(f), f) ELSE r

fdt_add_mem_rsv(f, r) ==
    Probed(f, fdt_splice_mem_rsv_(f, fdt_num_mem_rsv(f), 0, <<r>>))
fdt_del_mem_rsv(f, n) ==
    Probed(f, IF n >= fdt_num_mem_rsv(f) THEN Err(NOTFOUND, f)
              ELSE fdt_splice_mem_rsv_(f, n, 1, <<>>))

SetVal(f, prop, val) == fdt_splice_struct_(f, prop, 1, <<[f.st[prop + 1] EXCEPT !.val = val]>>)

(* Seeded fault: the new name stays when the property does not fit.        *)
AddPropertyNoRollback(f, node, name, val) ==
    LET next == fdt_check_node_offset_(f, node)
        old == fdt_find_string_(f.str, name)
        s == IF old < Len(f.str) THEN Ok(f) ELSE fdt_splice_string_(f, name)
    IN  IF next < 0 THEN Err(next, f)
        ELSE Then(s, LAMBDA g : fdt_splice_struct_(g, next, 0, <<PROP(old, val)>>))

(* A new property goes in front of the others of its node.                 *)
fdt_add_property_(f, node, name, val) ==
    LET next == fdt_check_node_offset_(f, node)
        old == fdt_find_string_(f.str, name)
        found == old < Len(f.str)
        s == IF found THEN Ok(f) ELSE fdt_splice_string_(f, name)
        r == fdt_splice_struct_(s.f, next, 0, <<PROP(old, val)>>)
    IN  IF next < 0 THEN Err(next, f)
        ELSE IF s.err # 0 THEN s
        ELSE IF r.err = 0 \/ found THEN r
        ELSE Err(r.err, fdt_del_last_string_(r.f, name))

fdt_setprop(f, node, name, val) ==
    LET prop == fdt_get_property(f, node, name) IN
    Probed(f, CASE prop >= 0 -> SetVal(f, prop, val)
                [] prop = NOTFOUND -> fdt_add_property_(f, node, name, val)
                [] OTHER -> Err(prop, f))
fdt_appendprop(f, node, name, val) ==
    LET prop == fdt_get_property(f, node, name) IN
    Probed(f, IF prop >= 0 THEN SetVal(f, prop, f.st[prop + 1].val \o val)
              ELSE fdt_add_property_(f, node, name, val))
fdt_delprop(f, node, name) ==
    LET prop == fdt_get_property(f, node, name) IN
    Probed(f, IF prop < 0 THEN Err(prop, f) ELSE fdt_splice_struct_(f, prop, 1, <<>>))

fdt_set_name(f, node, name) ==
    Probed(f, IF fdt_check_node_offset_(f, node) < 0
              THEN Err(fdt_check_node_offset_(f, node), f)
              ELSE fdt_splice_struct_(f, node, 1, <<BEGIN_NODE(name)>>))

(* A new node goes behind the properties of its parent.                    *)
RECURSIVE AfterProps(_, _)
AfterProps(f, o) ==
    LET t == fdt_next_tag(f, o)
    IN  IF t.tag \in {"PROP", "NOP"} THEN AfterProps(f, t.next) ELSE o
fdt_add_subnode(f, parent, name) ==
    LET sub == fdt_subnode_offset(f, parent, name) IN
    Probed(f, IF sub >= 0 THEN Err(EXISTS, f)
              ELSE IF sub # NOTFOUND THEN Err(sub, f)
              ELSE fdt_splice_struct_(f, AfterProps(f, parent + 1), 0,
                                      <<BEGIN_NODE(name), END_NODE>>))

RECURSIVE EndFrom(_, _, _)
EndFrom(f, o, depth) ==
    IF o < 0 \/ depth < 0 THEN o
    ELSE LET r == fdt_next_node(f, o, depth, TRUE) IN EndFrom(f, r.off, r.depth)
fdt_node_end_offset_(f, node) == EndFrom(f, node, 0)

fdt_del_node(f, node) ==
    LET end == fdt_node_end_offset_(f, node) IN
    Probed(f, IF end < 0 THEN Err(end, f) ELSE fdt_splice_struct_(f, node, end - node, <<>>))

(* The blocks laid out in order behind the header, the bytes of the        *)
(* structure being stsize.                                                 *)
fdt_packblocks_(f, rsvsize, stsize) ==
    LET o == [rsv |-> HdrSize, st |-> HdrSize + rsvsize, str |-> HdrSize + rsvsize + stsize]
    IN  [f EXCEPT !.o = o, !.at = o, !.n.st = stsize]

(* A blob is opened for editing in a buffer, its own or another; a version *)
(* 16 header does not say how long the structure is.                       *)
fdt_open_into(f, same, bufsize) ==
    LET rsvsize == (fdt_num_mem_rsv(f) + 1) * RsvSize
        stsize == IF f.ver >= 17 THEN f.n.st ELSE Bytes(f.st)
        newsize == HdrSize + rsvsize + stsize + f.n.str
    IN  IF fdt_ro_probe_(f) < 0 THEN Err(fdt_ro_probe_(f), f)
        ELSE IF ~fdt_blocks_misordered_(f, rsvsize, stsize)
        THEN IF f.tot > bufsize THEN Err(NOSPACE, f)
             ELSE Ok([f EXCEPT !.ver = 17, !.n.st = stsize, !.tot = bufsize])
        ELSE IF bufsize < newsize \/ (same /\ f.tot + newsize > bufsize) THEN Err(NOSPACE, f)
        ELSE Ok([fdt_packblocks_(f, rsvsize, stsize) EXCEPT !.ver = 17, !.tot = bufsize])
fdt_pack(f) ==
    LET g == fdt_packblocks_(f, (fdt_num_mem_rsv(f) + 1) * RsvSize, f.n.st)
    IN  Probed(f, Ok([g EXCEPT !.tot = fdt_data_size_(g)]))

fdt_create_empty_tree(bufsize) ==
    Then(fdt_create_with_flags(bufsize, TRUE), LAMBDA a :
    Then(fdt_finish_reservemap(a), LAMBDA b :
    Then(fdt_begin_node(b, <<>>), LAMBDA c :
    Then(fdt_end_node(c), LAMBDA d :
    Then(fdt_finish(d), LAMBDA e : fdt_open_into(e, TRUE, bufsize))))))

----------------------------------------------------------------------------
(* In place: nothing moves.                                                *)
fdt_setprop_inplace_partial(f, node, name, i, val) ==
    LET prop == fdt_get_property(f, node, name)
        old == f.st[prop + 1].val
    IN  IF prop < 0 THEN Err(prop, f)
        ELSE IF Len(old) < i + Len(val) THEN Err(NOSPACE, f)
        ELSE Ok([f EXCEPT !.st[prop + 1].val = Replace(old, i, Len(val), val)])
fdt_setprop_inplace(f, node, name, val) ==
    LET prop == fdt_get_property(f, node, name)
    IN  IF prop >= 0 /\ Len(f.st[prop + 1].val) # Len(val) THEN Err(NOSPACE, f)
        ELSE fdt_setprop_inplace_partial(f, node, name, 0, val)

(* A region becomes as many NOP tags as it has words.                      *)
fdt_nop_region_(f, i, k) ==
    LET words == Bytes(SubSeq(f.st, i + 1, i + k)) \div 4
    IN  Ok([f EXCEPT !.st = Replace(@, i, k, [w \in 1..words |-> NOP])])
fdt_nop_property(f, node, name) ==
    LET prop == fdt_get_property(f, node, name)
    IN  IF prop < 0 THEN Err(prop, f) ELSE fdt_nop_region_(f, prop, 1)
fdt_nop_node(f, node) ==
    LET end == fdt_node_end_offset_(f, node)
    IN  IF end < 0 THEN Err(end, f) ELSE fdt_nop_region_(f, node, end - node)
=============================================================================
