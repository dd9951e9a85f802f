------------------------------- MODULE MCDts -------------------------------
(* A base of up to three of seven statements and a plugin of up to three   *)
(* of five.  Among them they define, extend, relabel, delete and redefine  *)
(* a node and its child, refer to nodes by label, by path and by label and *)
(* path, insert a path before a phandle in one value (in the plugin before *)
(* one of its own nodes and before one of the base), set phandles by hand  *)
(* that dtc would also choose (and in the plugin one that the base may     *)
(* have), label in the plugin a node the base numbered, and refer from one *)
(* fragment to a node of another.  Four property or node sizes more at a   *)
(* time make fdtoverlay retry several times.                               *)
(* The spelling of "q" is the tail of that of "p", and that of "X" begins  *)
(* like that of "A"; "b" has a unit address.                               *)
EXTENDS DtsOverlay

Num(n) == Data(<<Cell(n)>>, <<>>)
To(label) == Data(<<Cell(Ones)>>, <<Marker("REF_PHANDLE", 0, Ref(label, <<>>))>>)
ToPath(path) == Data(<<Cell(Ones)>>, <<Marker("REF_PHANDLE", 0, Ref("", path))>>)
PathThenPhandle(a, b) ==
    Data(<<Cell(Ones)>>, <<Marker("REF_PATH", 0, Ref(a, <<>>)),
                           Marker("REF_PHANDLE", 0, Ref(b, <<>>))>>)
P(name, val) == build_property(name, val)
Node(name, labels, props, kids) ==
    [build_node(props, kids) EXCEPT !.name = name,
        !.labels = [i \in DOMAIN labels |-> Label(labels[i])]]

Stmt(op, label, ref, body) == [op |-> op, label |-> label, ref |-> ref, body |-> body]
Root(props, kids) == Stmt("root", "", Ref("", <<>>), Node("", <<>>, props, kids))
At(ref, props, kids) == Stmt("ref", "", ref, Node("", <<>>, props, kids))

MCBase ==
    { Root(<<>>, <<Node("a", <<"A">>, <<P("p", Num(3))>>, <<Node("b", <<"B">>, <<>>, <<>>)>>)>>),
      Root(<<>>, <<Node("a", <<>>, <<P("q", PathThenPhandle("A", "B"))>>, <<>>)>>),
      Root(<<P("q", ToPath(<<"a">>))>>,
           <<Node("a", <<>>, <<P("phandle", Num(4)), build_property_delete("p")>>,
               <<[build_node_delete EXCEPT !.name = "b"]>>)>>),
      At(Ref("A", <<>>), <<P("p", To("A"))>>, <<Node("b", <<>>, <<P("p", Num(1))>>, <<>>)>>),
      Stmt("label", "C", Ref("", <<"a", "b">>), Node("", <<>>, <<>>, <<>>)),
      Stmt("delete", "", Ref("A", <<>>), build_node(<<>>, <<>>)),
      Stmt("omit", "", Ref("A", <<"b">>), build_node(<<>>, <<>>)) }

MCPlugin ==
    { At(Ref("A", <<>>), <<P("p", To("B"))>>, <<Node("b", <<"X">>, <<>>, <<>>)>>),
      At(Ref("A", <<>>), <<P("q", To("X"))>>, <<>>),
      At(Ref("", <<"a">>), <<>>,
         <<Node("c", <<"Y">>, <<P("phandle", Num(2)), P("p", PathThenPhandle("Y", "X"))>>, <<>>)>>),
      At(Ref("B", <<>>), <<P("p", To("Y"))>>, <<>>),
      At(Ref("Y", <<>>), <<P("q", PathThenPhandle("Y", "A"))>>, <<>>) }
MCReserves == {<<<<0, 1>>, <<2, 3>>>>}
MCSpelling ==
    [a |-> <<97>>, b |-> <<98, 64, 49>>, c |-> <<99>>, p |-> <<112, 113>>, q |-> <<113>>,
     A |-> <<65>>, B |-> <<66>>, C |-> <<67>>, X |-> <<65, 66>>, Y |-> <<89>>, name |-> <<110>>]
    @@ ("" :> <<>>) @@ ("phandle" :> <<104>>) @@ ("linux,phandle" :> <<44, 104>>)
    @@ ("target" :> <<116>>) @@ ("target-path" :> <<116, 45>>)
    @@ ("fragment@0" :> <<102, 64, 48>>) @@ ("fragment@1" :> <<102, 64, 49>>)
    @@ ("fragment@2" :> <<102, 64, 50>>)
    @@ ("__overlay__" :> <<95, 111>>) @@ ("__symbols__" :> <<95, 115>>)
    @@ ("__fixups__" :> <<95, 102>>) @@ ("__local_fixups__" :> <<95, 108>>)
MCFormat == <<"phandle", "linux,phandle">>
=============================================================================
