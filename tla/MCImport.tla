------------------------------- MODULE MCImport -------------------------------
(***************************************************************************)
(* Worlds for IValueImporter.                                              *)
(***************************************************************************)
EXTENDS ImportedFunctions

CONSTANTS Unit1, Unit2, F32

Attr(name, type) == [name |-> name, type |-> type]
Method(name, func) == [name |-> name, func |-> func]
Class(attrs, methods) == [attrs |-> attrs, methods |-> methods]
Value(kind, elems, of) == [kind |-> kind, elems |-> elems, of |-> of]

\* Two tensors of one storage, one of its own, quantized and unsupported ones,
\* and what holds them.
Data ==
  [t1     |-> Value("tensor", <<>>, "s1"),
   t2     |-> Value("tensor", <<>>, "s1"),
   t3     |-> Value("tensor", <<>>, "s2"),
   q1     |-> Value("per_tensor_affine", <<"f", "i">>, "s2"),
   q2     |-> Value("per_channel_affine", <<>>, "s3"),
   dict   |-> Value("unsupported", <<>>, ""),
   f      |-> Value("float", <<>>, ""),
   i      |-> Value("int", <<>>, ""),
   list   |-> Value("list", <<"t1", "t1">>, ""),
   nested |-> Value("tuple", <<"list", "q1">>, ""),
   linear |-> Value("linear_params", <<"t3", "t1">>, "")]

\* Graphs of functions.

IntType == <<"int">>
BoolType == <<"bool">>
OptInt == <<"optional", IntType>>
Block(params, nodes, returns) == [params |-> params, nodes |-> nodes, returns |-> returns]
Node(kind, ins, outs, blocks, attr) ==
  [kind |-> kind, ins |-> ins, outs |-> outs, blocks |-> blocks, attr |-> attr]
Func(args, rets, types, body) == [args |-> args, rets |-> rets, types |-> types, block |-> body]

\* A function of `arity` ints that returns None; one that a node cannot be
\* imported of.
Plain(arity) == Func([j \in 1 .. arity |-> IntType], <<<<"none">>>>, [i |-> IntType, j |-> IntType, k |-> IntType, n |-> <<"none">>],
                     Block(SubSeq(<<"i", "j", "k">>, 1, arity),
                           <<Node("Constant", <<>>, <<"n">>, <<>>, "None")>>, <<"n">>))
Unhandled == [Plain(1) EXCEPT !.block.nodes = Append(@, Node("unhandled", <<>>, <<>>, <<>>, "Print"))]

\* A root with a submodule that holds x, then y, which may be the submodule,
\* and a free function.
DataWorld(x, y, roots, unit, bad) ==
  [classes   |-> [R |-> Class(<<Attr("a", "A"), Attr("y", IF y = "m" THEN "A" ELSE "data")>>,
                              <<Method("forward", "R.forward")>>),
                  A |-> Class(<<Attr("x", "data")>>, <<Method("forward", "A.forward")>>)],
   rootClass |-> "R",
   arity     |-> [n \in {"R.forward", "A.forward", "free"} |-> 1],
   paths     |-> {},
   argLists  |-> {},
   values    |-> [r |-> Value("module", <<"m", y>>, "R"), m |-> Value("module", <<x>>, "A"),
                  rs |-> Value("list", <<"m", "r">>, "")] @@ Data,
   depth     |-> [r |-> 4, m |-> 3, rs |-> 5, nested |-> 2, list |-> 1, linear |-> 1, q1 |-> 1,
                  t1 |-> 0, t2 |-> 0, t3 |-> 0, q2 |-> 0, dict |-> 0, f |-> 0, i |-> 0],
   root      |-> roots,
   unitOf    |-> [r |-> Unit1, m |-> unit],
   units     |-> (Unit1 :> <<"R.forward", "free", "A.forward">>) @@ (Unit2 :> <<"A.forward">>),
   unimportable |-> bad,
   program   |-> [funcs |-> [n \in {"R.forward", "A.forward", "free"} |->
                               IF n \in bad THEN Unhandled ELSE Plain(1)]]]

DataWorlds ==
  {DataWorld(x, y, "r", Unit1, {}) : x \in DOMAIN Data, y \in DOMAIN Data \cup {"m"}}
    \cup {DataWorld(x, "i", root, Unit1, {}) : x \in {"t1", "list"}, root \in {"rs", "m", "nested"}}
    \cup {DataWorld("t1", "i", "r", Unit2, {})}
    \cup {DataWorld("t1", "i", "r", Unit1, bad) : bad \in {{"R.forward"}, {"free", "A.forward"}}}

\* Submodules a and b of one or two classes, each with a submodule of class C.
Entry(shape, dtype, valueSem) == [shape |-> shape, dtype |-> dtype, valueSem |-> valueSem]

AnnotatedWorld(classOfB) ==
  [classes   |-> [R |-> Class(<<Attr("a", "A"), Attr("b", classOfB)>>, <<Method("f", "R.f")>>),
                  A |-> Class(<<Attr("c", "C")>>, <<Method("f", "A.f")>>),
                  B |-> Class(<<Attr("c", "C")>>, <<Method("f", "B.f")>>),
                  C |-> Class(<<Attr("x", "int")>>, <<Method("g", "C.g"), Method("f", "C.f")>>)],
   rootClass |-> "R",
   arity     |-> [n \in {"R.f", "A.f", "B.f", "C.g", "C.f"} |-> IF n = "R.f" THEN 1 ELSE 3],
   paths     |-> {<<"f">>, <<"b", "f">>, <<"a", "c", "f">>, <<"b", "c", "x">>, <<"x", "f">>},
   argLists  |-> {<<None, Entry(<<1>>, F32, TRUE), Entry(<<2>>, None, FALSE)>>,
                  <<None, Entry(<<3>>, NotADtype, FALSE), Entry(<<3>>, F32, TRUE)>>,
                  <<None, None, Entry(None, F32, None)>>},
   values    |-> [r |-> Value("module", <<"a", "b">>, "R"), a |-> Value("module", <<"c1">>, "A"),
                  b |-> Value("module", <<"c2">>, classOfB),
                  c1 |-> Value("module", <<"i">>, "C"), c2 |-> Value("module", <<"i">>, "C"),
                  i |-> Value("int", <<>>, "")],
   depth     |-> [r |-> 3, a |-> 2, b |-> 2, c1 |-> 1, c2 |-> 1, i |-> 0],
   root      |-> "r",
   unitOf    |-> [v \in {"r", "a", "b", "c1", "c2"} |-> Unit1],
   units     |-> (Unit1 :> <<"R.f", "A.f", "B.f", "C.g", "C.f">>),
   unimportable |-> {},
   program   |-> [funcs |-> [n \in {"R.f", "A.f", "B.f", "C.g", "C.f"} |->
                               Plain(IF n = "R.f" THEN 1 ELSE 3)]]]

-----------------------------------------------------------------------------
\* forward(self, b: bool, i: int, o: Optional[int]), with None at its beginning.
BaseTypes == [s |-> <<"class", "R">>, b |-> BoolType, i |-> IntType, o |-> OptInt, n |-> <<"none">>]
None_ == Node("Constant", <<>>, <<"n">>, <<>>, "None")
Forward(nodes, types, result, ret) ==
  Func(<<<<"class", "R">>, BoolType, IntType, OptInt>>, <<ret>>, types @@ BaseTypes,
       Block(<<"s", "b", "i", "o">>, <<None_>> \o nodes, <<result>>))

Sources == {"i", "o", "n"}
Join(t, u) == IF t = u THEN t ELSE OptInt
JoinOf(x, y) == Join(BaseTypes[x], BaseTypes[y])

If(out, nodes, x, y) ==
  Node("If", <<"b">>, <<out>>, <<Block(<<>>, nodes, <<x>>), Block(<<>>, <<>>, <<y>>)>>, "")
Loop(out, init, nodes, next) ==
  Node("Loop", <<"i", "b", init>>, <<out>>, <<Block(<<"iv", "c">>, nodes, <<"b", next>>)>>, "")
LoopTypes(t) == [r |-> t, iv |-> IntType, c |-> t]

\* Ifs, loops, a loop with an if in it, an if with a loop in it.
ControlFlow ==
  {Forward(<<If("r", <<>>, x, y)>>, [r |-> JoinOf(x, y)], "r", ret) : x \in Sources, y \in Sources, ret \in {OptInt}}
    \cup {Forward(<<Loop("r", x, <<>>, y)>>, LoopTypes(JoinOf(x, y)), "r", OptInt) : x \in Sources, y \in Sources}
    \cup {Forward(<<Loop("r", x, <<If("e", <<>>, y, "c")>>, "e")>>,
                  [e |-> JoinOf(x, y)] @@ LoopTypes(JoinOf(x, y)), "r", OptInt) : x \in Sources, y \in Sources}
    \cup {Forward(<<If("r", <<Loop("l", x, <<>>, "c")>>, "l", y)>>,
                  [r |-> JoinOf(x, y), l |-> BaseTypes[x], c |-> BaseTypes[x], iv |-> IntType], "r", OptInt) :
          x \in Sources, y \in Sources}

\* Calls of A.forward(self, p: Optional[int]) and free(p: Optional[int], q: int),
\* in a branch; lists and tuples; an operator; attributes.
Calls ==
  {Forward(<<If("r", <<Node("GetAttr", <<"s">>, <<"m">>, <<>>, "a"),
                       Node("CallMethod", <<"m", x>>, <<"l">>, <<>>, "A.forward")>>, "l", y)>>,
           [r |-> OptInt, m |-> <<"class", "A">>, l |-> OptInt], "r", OptInt) : x \in Sources, y \in Sources}
    \cup {Forward(<<Node("Constant", <<>>, <<"f">>, <<>>, "free"),
                    Node("CallFunction", <<"f", x, "i">>, <<"r">>, <<>>, "")>>,
                  [f |-> <<"function", "free">>, r |-> IntType], "r", OptInt) : x \in Sources}
    \cup {Forward(<<Node("ListConstruct", <<x, x>>, <<"l">>, <<>>, ""),
                    Node("ListUnpack", <<"l">>, <<"c", "e">>, <<>>, ""),
                    Node("TupleConstruct", <<"c", "i">>, <<"r">>, <<>>, ""),
                    Node("SetAttr", <<"s", "r">>, <<>>, <<>>, "x")>>,
                  [l |-> <<"list", BaseTypes[x]>>, c |-> BaseTypes[x], e |-> BaseTypes[x],
                   r |-> <<"tuple", <<BaseTypes[x], IntType>>>>],
                  "r", <<"optional", <<"tuple", <<BaseTypes[x], IntType>>>>>>) : x \in Sources}
    \cup {Forward(<<Node("schema", <<"i", "i">>, <<"r">>, <<>>, "aten.add.int"),
                    Node("Constant", <<>>, <<"l">>, <<>>, "7"), If("e", <<>>, "r", "l")>>,
                  [r |-> IntType, l |-> IntType, e |-> IntType], "e", OptInt)}

\* What cannot be imported: a node deep inside, the type of a value of an inner
\* block, of a constant.
Bad ==
  {Forward(<<Loop("r", "o", <<If("e", <<node>>, "i", "c")>>, "e")>>, types @@ [e |-> OptInt] @@ LoopTypes(OptInt), "r", OptInt) :
     node \in {Node("unhandled", <<>>, <<"u">>, <<>>, "RaiseException"), Node("schema", <<>>, <<"u">>, <<>>, "aten.fft"),
               Node("Constant", <<>>, <<"u">>, <<>>, "tensor")},
     types \in {[u |-> <<"tensor", "complex">>], [u |-> <<"custom", "C">>]}}

CalleeOfMethod == Func(<<<<"class", "A">>, OptInt>>, <<OptInt>>, [s |-> <<"class", "A">>, p |-> OptInt],
                       Block(<<"s", "p">>, <<>>, <<"p">>))
Callee == Func(<<OptInt, IntType>>, <<IntType>>, [p |-> OptInt, q |-> IntType], Block(<<"p", "q">>, <<>>, <<"q">>))

\* A root with a submodule; the functions are imported in either order.
GraphWorld(forward, bad, unit) ==
  LET base == DataWorld("f", "i", "r", Unit1, bad)
  IN [base EXCEPT !.arity = [@ EXCEPT !["R.forward"] = 4, !["A.forward"] = 2, !["free"] = 2],
                  !.units = (Unit1 :> unit) @@ (Unit2 :> <<"A.forward">>),
                  !.program = [funcs |-> ("R.forward" :> forward) @@ ("A.forward" :> CalleeOfMethod)
                                           @@ ("free" :> Callee)]]

GraphWorlds ==
  {GraphWorld(forward, {}, <<"R.forward", "A.forward", "free">>) : forward \in ControlFlow \cup Calls}
    \cup {GraphWorld(forward, {"R.forward"}, <<"free", "R.forward", "A.forward">>) : forward \in Bad}

MCWorlds == DataWorlds \cup {AnnotatedWorld("A"), AnnotatedWorld("B")} \cup GraphWorlds

=============================================================================
