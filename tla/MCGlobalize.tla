---------------------------- MODULE MCGlobalize ----------------------------
(***************************************************************************)
(* Programs for TLC.  Functions are built from ops by position: value n of *)
(* a function is its n-th argument or, after those, its n-th result.       *)
(***************************************************************************)
EXTENDS TorchExecution

Get(dst, recv, attr) == [kind |-> "get", dst |-> dst, recv |-> recv, attr |-> attr]
Set(recv, attr, val) == [kind |-> "set", recv |-> recv, attr |-> attr, val |-> val]
Call(callee, args) == [kind |-> "call", callee |-> callee, args |-> args]
Other(dst, args) == [kind |-> "other", dst |-> dst, args |-> args]
Attr(name, type, priv) == [name |-> name, type |-> type, priv |-> priv]
Method(name, func, priv) == [name |-> name, func |-> func, priv |-> priv]
Func(arity, types, body) == [arity |-> arity, types |-> types, body |-> body]

\* fs: name -> Func.  The order of the funcs in the module follows `order`.
Program(classes, classOf, slots, valType, operands, order, fs) ==
  [classes |-> classes, classOf |-> classOf, slots |-> slots,
   valType |-> valType, operands |-> operands, funcs |-> order,
   funcPriv |-> [f \in DOMAIN fs |-> TRUE],
   arity |-> [f \in DOMAIN fs |-> fs[f].arity],
   types |-> [f \in DOMAIN fs |-> fs[f].types],
   body  |-> [f \in DOMAIN fs |-> fs[f].body]]

\* Top-level values: an int, two tensors, a list and a tuple that hold one.
ValTypes == "i" :> "int" @@ "t" :> "tensor" @@ "u" :> "tensor" @@ "l" :> "list" @@ "p" :> "tuple"
Operands == "i" :> {} @@ "t" :> {} @@ "u" :> {} @@ "l" :> {"t"} @@ "p" :> {"l", "i"}

-----------------------------------------------------------------------------
\* Every object graph of a root with two children of one class, each slot
\* holding any value: shared children, unused instances, aliased values.

TreeClasses ==
  "Root" :> [attrs   |-> <<Attr("a", "Sub", TRUE), Attr("w", "value", TRUE), Attr("b", "Sub", FALSE)>>,
             methods |-> <<Method("forward", "Root.forward", FALSE)>>] @@
  "Sub"  :> [attrs   |-> <<Attr("v", "value", FALSE)>>,
             methods |-> <<Method("run", "Sub.run", TRUE)>>]

TreeFuncs ==
  "Root.forward" :> Func(2, <<"Root", "value", "Sub", "Sub", "value">>,
     <<Get(3, 1, "a"), Call("Sub.run", <<3, 2>>), Get(4, 1, "b"), Get(5, 1, "w"),
       Call("Sub.run", <<4, 5>>)>>) @@
  "Sub.run" :> Func(2, <<"Sub", "value", "value", "value">>,
     <<Get(3, 1, "v"), Other(4, <<3, 2>>), Set(1, "v", 4)>>)

TreePrograms ==
  {Program(TreeClasses, "r" :> "Root" @@ "s1" :> "Sub" @@ "s2" :> "Sub",
           "r" :> <<x, w, y>> @@ "s1" :> <<v1>> @@ "s2" :> <<v2>>,
           ValTypes, Operands, <<"Root.forward", "Sub.run">>, TreeFuncs) :
     x \in {"s1", "s2"}, y \in {"s1", "s2"}, w \in {"i", "t", "p"},
     v1 \in {"i", "t", "u"}, v2 \in {"i", "u", "l"}}

\* A diamond: two children that share a grandchild, or have one each.
NoFuncs == [f \in {} |-> Func(0, <<>>, <<>>)]

DiamondProgram(c, v) ==
  Program("Root" :> [attrs |-> <<Attr("a", "Mid", FALSE), Attr("b", "Mid", FALSE)>>, methods |-> <<>>] @@
          "Mid"  :> [attrs |-> <<Attr("c", "Leaf", FALSE), Attr("v", "value", FALSE)>>, methods |-> <<>>] @@
          "Leaf" :> [attrs |-> <<Attr("v", "value", FALSE)>>, methods |-> <<>>],
          "r" :> "Root" @@ "m1" :> "Mid" @@ "m2" :> "Mid" @@
            (IF c = "l1" THEN EmptyMap ELSE c :> "Leaf") @@ "l1" :> "Leaf",
          "r" :> <<"m1", "m2">> @@ "m1" :> <<"l1", "i">> @@ "m2" :> <<c, "u">> @@
            (IF c = "l1" THEN EmptyMap ELSE c :> <<"i">>) @@ "l1" :> <<v>>,
          ValTypes, Operands, <<>>, NoFuncs)

-----------------------------------------------------------------------------
\* Two free functions that call each other, each with its two instance
\* arguments in every order.

TreeClassOf == "r" :> "Root" @@ "s1" :> "Sub" @@ "s2" :> "Sub"
TreeSlots == "r" :> <<"s1", "i", "s2">> @@ "s1" :> <<"t">> @@ "s2" :> <<"u">>

CallPrograms ==
  {Program(TreeClasses, TreeClassOf, TreeSlots, ValTypes, Operands,
           <<"g", "Root.forward", "f", "Sub.run">>,
           "Root.forward" :> Func(2, <<"Root", "value", "Sub", "Sub">>,
              <<Get(3, 1, "a"), Get(4, 1, "b"), Call("f", <<3, 4, 2>>)>>) @@
           "f" :> Func(3, <<"Sub", "Sub", "value", "value">>,
              <<Get(4, 1, "v")>> \o fCalls \o <<Set(2, "v", 3)>>) @@
           "g" :> Func(3, <<"value", "Sub", "Sub">>, <<Set(2, "v", 1)>> \o gCalls) @@
           "Sub.run" :> TreeFuncs["Sub.run"]) :
     fCalls \in {<<>>, <<Call("f", <<2, 1, 4>>)>>, <<Call("f", <<1, 1, 3>>)>>,
                 <<Call("g", <<3, 1, 2>>)>>, <<Call("g", <<4, 2, 2>>)>>,
                 <<Call("g", <<4, 2, 1>>), Call("Sub.run", <<2, 4>>)>>},
     gCalls \in {<<>>, <<Call("f", <<2, 3, 1>>)>>, <<Call("f", <<3, 3, 1>>)>>,
                 <<Call("g", <<1, 3, 2>>)>>, <<Call("f", <<3, 2, 1>>), Call("g", <<1, 3, 2>>)>>}}

\* A private method that takes another instance besides its receiver: the clones
\* for two others of one receiver have one name.
ClashPrograms ==
  {Program(TreeClasses, TreeClassOf, TreeSlots, ValTypes, Operands, <<"Root.forward", "Sub.run">>,
           "Root.forward" :> Func(2, <<"Root", "value", "Sub", "Sub">>,
              <<Get(3, 1, "a"), Get(4, 1, "b"), Call("Sub.run", <<3, x, 2>>), Call("Sub.run", <<y, 4, 2>>)>>) @@
           "Sub.run" :> Func(3, <<"Sub", "Sub", "value", "value">>, <<Get(4, 2, "v"), Set(1, "v", 3)>> \o calls)) :
     x \in {3, 4}, y \in {3, 4}, calls \in {<<>>, <<Call("Sub.run", <<2, 1, 4>>)>>}}

-----------------------------------------------------------------------------
\* Programs the pass rejects.

PublicRun == [TreeClasses EXCEPT !["Sub"].methods = <<Method("run", "Sub.run", FALSE)>>]

MisusingProgram(body) ==
  Program(TreeClasses, TreeClassOf, TreeSlots, ValTypes, Operands, <<"Root.forward", "Sub.run">>,
          "Root.forward" :> Func(1, <<"Root", "Sub">>, body) @@ "Sub.run" :> TreeFuncs["Sub.run"])

RejectedPrograms ==
  {DiamondProgram("l1", "i"), DiamondProgram("l1", "t"),
   Program(TreeClasses, EmptyMap, EmptyMap, ValTypes, Operands, <<"Root.forward", "Sub.run">>, TreeFuncs),
   Program(PublicRun, TreeClassOf, TreeSlots, ValTypes, Operands,
           <<"Root.forward", "Sub.run">>, TreeFuncs),
   MisusingProgram(<<Get(2, 1, "a"), Other(0, <<2>>)>>),
   MisusingProgram(<<Get(2, 1, "a"), Set(1, "b", 2)>>)}

\* An instance that is held by a tuple: the class Held has the one instance h.
HeldProgram(order, fs) ==
  Program("Root" :> [attrs |-> <<Attr("p", "value", FALSE)>>,
                     methods |-> <<Method("forward", "Root.forward", FALSE)>>] @@
          "Held" :> [attrs |-> <<Attr("v", "value", FALSE), Attr("c", "Leaf", FALSE)>>, methods |-> <<>>] @@
          "Leaf" :> [attrs |-> <<Attr("v", "value", FALSE)>>, methods |-> <<>>],
          "r" :> "Root" @@ "h" :> "Held" @@ "l1" :> "Leaf",
          "r" :> <<"q">> @@ "h" :> <<"i", "l1">> @@ "l1" :> <<"i">>,
          "i" :> "int" @@ "q" :> "tuple", "i" :> {} @@ "q" :> {"h"}, order, fs)

HeldPrograms ==
  {HeldProgram(<<"Root.forward">>,
     "Root.forward" :> Func(1, <<"Root", "value", "Held", "value">>,
        <<Get(2, 1, "p"), Other(3, <<2>>), Get(4, 3, "v")>>)),
   HeldProgram(<<"Root.forward">>,
     "Root.forward" :> Func(1, <<"Root", "value", "Held", "Leaf">>,
        <<Get(2, 1, "p"), Other(3, <<2>>), Get(4, 3, "c")>>)),
   HeldProgram(<<"Root.forward", "f">>,
     "Root.forward" :> Func(1, <<"Root", "value", "Held">>,
        <<Get(2, 1, "p"), Other(3, <<2>>), Call("f", <<3>>)>>) @@
     "f" :> Func(1, <<"Held", "value">>, <<Get(2, 1, "v")>>))}

-----------------------------------------------------------------------------

AllPrograms == TreePrograms \cup {DiamondProgram("l2", "t")} \cup CallPrograms
                 \cup ClashPrograms \cup RejectedPrograms \cup HeldPrograms

=============================================================================
