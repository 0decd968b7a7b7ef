--------------------------- MODULE MCBackendLowering ---------------------------
(***************************************************************************)
(* Functions for TLC.  The types of results are those that RefineTypes     *)
(* finds.                                                                  *)
(***************************************************************************)
EXTENDS BackendLowering

CONSTANTS f32, si64

Q == kUnknownSize
Of(dtype, sizes) == Type("vtensor", Sized(sizes, dtype))
F(sizes) == Of(f32, sizes)
IntType == Plain("int")
BoolType == Plain("bool")
ListType == Plain("list")

Arg(k, type) == [id |-> <<k>>, type |-> type, bound |-> NoBound]
Args(types) == [k \in DOMAIN types |-> Arg(k, types[k])]

Function(args, results, entry, then, else) ==
  [args |-> args, results |-> results, isPublic |-> TRUE,
   blocks |-> [b \in {"entry", "then", "else"} |->
                 CASE b = "entry" -> entry [] b = "then" -> then [] b = "else" -> else]]

Return(v, n) == Op(<<n>>, "return", <<v>>, NoneType)

\* One op on the arguments, whose result has `know`.
Single(name, types, constants, operands, know) ==
  Function(Args(types), <<Type("vtensor", know)>>,
           constants \o <<Op(<<50>>, name, operands, Type("vtensor", know)), Return(<<50>>, 60)>>, <<>>, <<>>)

Known(types, n) == [i \in 1 .. n |-> types[i].know]
IntConst(k, n) == Constant(<<k>>, "int", n)
IntList(k, ints) ==
  Append([i \in DOMAIN ints |-> IntConst(k + i, ints[i])],
         Op(<<k>>, "list", [i \in DOMAIN ints |-> <<k + i>>], ListType))

-----------------------------------------------------------------------------

Small == {<<>>} \cup {<<a>> : a \in {Q, 1, 2}} \cup {<<a, b>> : a \in {Q, 1, 2}, b \in {Q, 2}} \cup {<<1, 1>>}

Unary(dtype) == {Single(name, <<Of(dtype, s)>>, <<>>, <<<<1>>>>, Sized(s, dtype)) : name \in {"tanh", "relu"}, s \in Small}

BinaryKnow(dtype, s, t) == BroadcastTransfer(Sized(s, dtype), Sized(t, dtype))
Binary(dtype, sizes) ==
  {Single(name, <<Of(dtype, s), Of(dtype, t)>>, <<>>, <<<<1>>, <<2>>>>, BinaryKnow(dtype, s, t)) :
     name \in {"mul", "div"}, s \in sizes, t \in sizes}
Scaled(dtype, sizes) ==
  {Single(name, <<Of(dtype, s), Of(dtype, t)>>, <<IntConst(10, 3)>>, <<<<1>>, <<2>>, <<10>>>>, BinaryKnow(dtype, s, t)) :
     name \in {"add", "sub"}, s \in sizes, t \in sizes} \cup
  {Single("add", <<Of(dtype, s), Of(dtype, s), alpha>>, <<>>, <<<<1>>, <<2>>, <<3>>>>, BinaryKnow(dtype, s, s)) :
     s \in {<<Q>>}, alpha \in {IntType, Plain("float")}}

\* The third operand of lerp, which RefineTypes does not look at, has no
\* higher rank than the others.
Lerps(higher) ==
  {Single("lerp", <<F(s), F(t), F(u)>>, <<>>, <<<<1>>, <<2>>, <<3>>>>,
          LerpTransfer(<<Sized(s, f32), Sized(t, f32), Sized(u, f32)>>)) :
     s \in {<<Q>>, <<1>>, <<>>}, t \in {<<2, Q>>, <<Q>>}, u \in (IF higher THEN {<<2, 2, Q>>} ELSE {<<Q>>, <<1>>})}

\* Ranks other than 2 are refused.
Matrices == {<<Q, Q>>, <<2, Q>>, <<1, 2>>, <<2, 2>>, <<Q>>}
Mms(dtype) ==
  {Single("mm", <<Of(dtype, s), Of(dtype, t)>>, <<>>, <<<<1>>, <<2>>>>, MmTransfer(<<Sized(s, dtype), Sized(t, dtype)>>)) :
     s \in Matrices, t \in Matrices}

Linears(biases) ==
  {Single("linear", <<F(s), F(t), b>>, <<>>, <<<<1>>, <<2>>, <<3>>>>,
          LinearTransfer(<<Sized(s, f32), Sized(t, f32), b.know>>)) :
     s \in {<<Q, Q>>, <<2, 2>>, <<Q>>}, t \in {<<Q, Q>>, <<2, 1>>, <<2, 2>>}, b \in biases}

BatchNorms(sizes, params) ==
  {Single("batch_norm", <<F(s), p, F(<<Q>>), F(<<q>>), F(<<2>>), BoolType>>, <<>>,
          [i \in 1 .. 6 |-> <<i>>], Sized(s, f32)) : s \in sizes, p \in params, q \in {Q, 2}}

Convolutions(s, w, padding, stride, dtype) ==
  {Single("conv2d", <<Of(dtype, s), Of(dtype, w), IntType>>,
          <<Constant(<<10>>, "none", 0)>> \o IntList(20, stride) \o IntList(30, padding) \o IntList(40, <<1, 1>>),
          <<<<1>>, <<2>>, <<10>>, <<20>>, <<30>>, <<40>>, <<3>>>>,
          Conv2dTransfer(<<Sized(s, dtype), Sized(w, dtype)>>))}

\* The padding is a list that is not constructed from constants.
PaddingOf(f, op) ==
  [f EXCEPT !.blocks["entry"] =
     <<op>> \o SelectSeq([i \in DOMAIN @ |-> IF @[i].name = "conv2d" THEN [@[i] EXCEPT !.operands[5] = op.id] ELSE @[i]],
                         LAMBDA o : o.id # <<30>>)]

Conv2ds ==
  UNION {Convolutions(s, w, padding, stride, f32) :
           s \in {<<1, 1, 2, 2>>, <<Q, 1, 2, Q>>}, w \in {<<1, 1, 2, 1>>, <<2, 1, Q, 2>>},
           padding \in {<<0, 0>>, <<1, 0>>}, stride \in {<<1, 1>>, <<2, 1>>}} \cup
  Convolutions(<<1, Q, 1, 2>>, <<1, 2, 1, 2>>, <<0, 0>>, <<1, 1>>, f32)

Pools(dtype) ==
  {Single("adaptive_avg_pool2d", <<Of(dtype, s)>>, IntList(20, outputSize), <<<<1>>, <<20>>>>,
          AdaptiveAvgPool2dTransfer(<<Sized(s, dtype)>>)) :
     s \in {<<1, Q, 2, Q>>, <<Q, 1, Q, 1>>, <<Q, 1>>}, outputSize \in {<<1, 1>>, <<2, 1>>}}

Unsqueezes ==
  {Single("unsqueeze", <<F(s)>>, <<IntConst(10, d)>>, <<<<1>>, <<10>>>>, UnsqueezeTransfer(<<Sized(s, f32)>>, <<d>>)) :
     s \in {<<>>, <<Q>>, <<1>>, <<2, Q>>, <<2, 1>>, <<Q, 1, 2>>}, d \in -4 .. 3}

-----------------------------------------------------------------------------
\* Two ops: the first on arguments of types <<1>> and <<2>>, tensors both.

Then(name, constants, operands, know) ==
  [constants |-> constants, op |-> Op(<<51>>, name, operands, Type("vtensor", know))]
Chain(first, second) ==
  LET ops == Front(first.blocks["entry"])
  IN [first EXCEPT !.results = <<second.op.type>>,
                   !.blocks["entry"] = ops \o second.constants \o <<second.op, Return(<<51>>, 60)>>]
ResultKnow(f) == f.results[1].know

Firsts ==
  {Single("unsqueeze", <<F(s), F(<<Q, 2>>)>>, <<IntConst(10, d)>>, <<<<1>>, <<10>>>>, UnsqueezeTransfer(<<Sized(s, f32)>>, <<d>>)) :
     s \in {<<Q>>, <<2>>, <<1>>}, d \in {0, 1, -1}} \cup
  {Single("mm", <<F(<<Q, 2>>), F(<<Q, 2>>)>>, <<>>, <<<<1>>, <<2>>>>, MmTransfer(<<Sized(<<Q, 2>>, f32), Sized(<<Q, 2>>, f32)>>))}

Chains ==
  UNION {{Chain(f, Then("mul", <<>>, <<a, b>>, BroadcastTransfer(ResultKnow(f), Sized(<<Q, 2>>, f32)))) :
            a \in {<<50>>}, b \in {<<2>>}} \cup
         {Chain(f, Then("add", <<IntConst(11, 2)>>, <<<<2>>, <<50>>, <<11>>>>, BroadcastTransfer(Sized(<<Q, 2>>, f32), ResultKnow(f)))),
          Chain(f, Then("mm", <<>>, <<<<50>>, <<2>>>>, MmTransfer(<<ResultKnow(f), Sized(<<Q, 2>>, f32)>>)))} : f \in Firsts}

\* A branch on the rank of the argument, or on an argument.
Cond(k, name, a, b) == Op(<<k>>, name, <<a, b>>, BoolType)
Rank(k) == Op(<<k>>, "dim", <<<<1>>>>, IntType)
Conditions ==
  {<<Rank(11), IntConst(12, n), Cond(10, name, <<11>>, <<12>>)>> : n \in {1, 2}, name \in {"ne", "gt"}} \cup
  {<<IntConst(12, n), Cond(10, "gt", <<2>>, <<12>>)>> : n \in {1}}

LiteralOp == [Op(<<13>>, "vtensor.literal", <<>>, F(<<2>>)) EXCEPT !.value = <<2>>, !.symbol = "k"]
Branches ==
  {Function(Args(<<F(<<2>>), IntType>>), <<F(<<2>>)>>,
            c \o <<LiteralOp, Op(<<15>>, "prim.If", <<<<10>>>>, F(<<2>>)), Op(<<16>>, "tanh", <<<<15>>>>, F(<<2>>)),
                   Return(v, 60)>>,
            <<Op(<<14>>, "relu", <<<<1>>>>, F(<<2>>)), Op(<<17>>, "yield", <<<<14>>>>, NoneType)>>,
            <<Op(<<18>>, "yield", <<<<13>>>>, NoneType)>>) : c \in Conditions, v \in {<<15>>, <<16>>}} \cup
  {Function(Args(<<F(<<2>>), IntType>>), <<BoolType>>, c \o <<Return(<<10>>, 60)>>, <<>>, <<>>) : c \in Conditions}

-----------------------------------------------------------------------------

Supported ==
  Unary(f32) \cup Binary(f32, Small) \cup Scaled(f32, {<<>>, <<Q>>, <<1, Q>>, <<2, Q>>}) \cup Lerps(FALSE) \cup Mms(f32) \cup
  Linears({F(<<2>>), F(<<1>>), F(<<Q>>)}) \cup
  BatchNorms({<<1, 2, 1>>, <<Q, Q, Q>>, <<2, 2>>}, {F(<<2>>), F(<<Q>>)}) \cup
  Conv2ds \cup Pools(f32) \cup Unsqueezes \cup Chains \cup Branches

\* Ints, optional operands that are None, lists and ranks of another length.
Erroneous ==
  Unary(si64) \cup Binary(si64, {<<Q>>}) \cup Lerps(TRUE) \cup Mms(si64) \cup Linears({NoneType}) \cup
  BatchNorms({<<1, 2, 1>>}, {NoneType}) \cup Pools(si64) \cup
  UNION {Convolutions(s, w, padding, <<1, 1>>, f32) :
           s \in {<<1, 1, 2, 2>>, <<1, 2, 2>>}, w \in {<<1, 1, 1, 1>>, <<1, 1>>}, padding \in {<<0>>, <<0, 0>>}} \cup
  {PaddingOf(f, padding) :
     f \in Convolutions(<<1, 1, 2, 2>>, <<1, 1, 1, 1>>, <<0, 0>>, <<1, 1>>, f32),
     padding \in {Op(<<30>>, "size", <<<<1>>>>, ListType), Op(<<30>>, "list", <<<<3>>, <<3>>>>, ListType)}}

AllFunctions == Supported \cup Erroneous

\* aten.linear of matrices without a bias.
WithoutBias == {f \in Linears({NoneType}) : f.args[1].type = F(<<Q, Q>>)}

=============================================================================
