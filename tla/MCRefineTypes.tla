----------------------------- MODULE MCRefineTypes -----------------------------
(***************************************************************************)
(* Programs for TLC.  A result is declared with no static information,     *)
(* as the frontend declares it.                                            *)
(***************************************************************************)
EXTENDS TensorExecution

CONSTANTS f32, f64

Op(kind, args, dims) == [kind |-> kind, args |-> args, dims |-> dims, type |-> PessimisticValueState]
Unary(kind, v) == Op(kind, <<v>>, <<>>)
Return(v) == Unary("return", v)
Literal(sizes) == [Op("literal", <<>>, <<>>) EXCEPT !.type = Sized(sizes, f32)]
Program(args, ops) == [args |-> args, ops |-> ops]

Shapes == UNION {[1 .. r -> {1, 2}] : r \in 0 .. 2} \cup {<<2, 1, 2>>, <<2, 2, 1, 1>>}
AllTensors == {Tensor(sizes, dtype) : sizes \in Shapes, dtype \in {f32, f64}}

ArgTypes == {PessimisticValueState, Unsized(f32), Sized(<<>>, f32), Sized(<<2, kUnknownSize>>, f32),
             Sized(<<2, 2>>, f64), Sized(<<2, 1, 2>>, NoDtype), Sized(UnknownSizes(4), f32)}

\* What a literal and an op that is not modelled give.
SomeTensors == {Tensor(<<2>>, f32), Tensor(<<2, 1>>, f64)}

\* For int operands that are not constant.
AllDims == {<<0, -1>>, <<1, 1>>}

\* Every op, with in-range, out-of-range and unknown dimension numbers, on
\* operands a and b.
AllOps(a, b) ==
  {Unary(kind, a) : kind \in {"tensor_static_info_cast", "tanh", "copy", "max_pool2d",
                              "adaptive_avg_pool2d", "other", "return"}} \cup
  {Op(kind, <<a, b>>, <<>>) : kind \in {"mm", "add", "conv2d"}} \cup
  {Op("linear", <<a, b, b>>, <<>>), Op("lerp", <<a, a, b>>, <<>>)} \cup
  {Op("flatten", <<a>>, dims) : dims \in {<<>>, <<0, -1>>, <<1, 2>>, <<-2, -1>>, <<1, 0>>}} \cup
  {Op("unsqueeze", <<a>>, dims) : dims \in {<<>>, <<0>>, <<1>>, <<-1>>, <<-3>>, <<3>>}}

\* Two ops, the second one on the result of the first, and users of both.
ChainPrograms ==
  UNION {{Program(<<x, y>>, <<first, second, Return(3), Return(4)>>) :
            second \in AllOps(3, 2)} :
         x \in ArgTypes, y \in {Unsized(f32), Sized(<<2, 2>>, f64)}, first \in AllOps(1, 2)}

-----------------------------------------------------------------------------
\* An if whose branches yield two of the values, used by a copy, by an op and
\* by a return.

IfPrograms ==
  {Program(<<x, Unsized(f32)>>, <<first, Op("if", <<v, w>>, <<>>), Unary("copy", 4), Unary("tanh", 5),
                                  Return(4)>>) :
     x \in ArgTypes, first \in AllOps(1, 2), v \in 1 .. 3, w \in 1 .. 3}

\* A block with one branch to it or two.
BlockPrograms ==
  {Program(<<x, Unsized(f32)>>, <<first, Op("block_arg", vs, <<>>), last, Return(5)>>) :
     x \in ArgTypes, first \in AllOps(1, 2), last \in {Unary("copy", 4), Unary("tanh", 4)},
     vs \in {<<1>>, <<3>>, <<1, 3>>, <<2, 3>>}}

\* A loop that starts with a literal or an argument and yields the result of
\* an op on its argument, or a value from outside.
LoopPrograms ==
  {Program(<<x, y>>, <<Literal(<<2>>), Op("loop_arg", <<init, yielded>>, <<4>>), body,
                       Op("loop", <<init, yielded>>, <<2>>), Unary("copy", 6), Return(6)>>) :
     x \in {Unsized(f32), Sized(<<2, kUnknownSize>>, f32)}, y \in {Sized(<<2, 2>>, f64)},
     body \in AllOps(4, 2), init \in 1 .. 3, yielded \in 1 .. 5}

AllPrograms == ChainPrograms \cup IfPrograms \cup BlockPrograms \cup LoopPrograms

\* An if that yields a tensor of known rank or one of unknown rank.
KnownOrUnknownRank ==
  {Program(<<x, Unsized(f32)>>, <<Op("if", yielded, <<>>), Return(3)>>) :
     x \in {Sized(<<2, 2>>, f32), Sized(<<2, kUnknownSize>>, f32)},
     yielded \in {<<1, 2>>, <<2, 1>>}}

=============================================================================
