----------------------------- MODULE TorchToLinalg -----------------------------
(***************************************************************************)
(* The patterns of TorchToLinalg.cpp: what each makes of an op of function *)
(* f whose tensor operands are the builtin tensors `in`.  A pattern        *)
(* converts to a sequence of ops, the last of which has the result,        *)
(* refuses to match, crashes (a failed cast or assertion of the compiler), *)
(* or makes what the verifier rejects when the pass is over.  Dimensions   *)
(* and loops count from 1.                                                 *)
(***************************************************************************)
EXTENDS LinalgExecution

CONSTANT FloatDtypes

Refuses == [match |-> "refuses"]
Crashes == [match |-> "crashes"]
Rejected == [match |-> "rejected"]
Converts(ops) == [match |-> "converts", ops |-> ops]

\* verifyLinalgCompatibleTypes
IsRanked(type) == type.kind = "vtensor" => type.know.hasSizes
verifyLinalgCompatibleTypes(f, op) ==
  IsRanked(op.type) /\ \A i \in DOMAIN op.operands : IsRanked(TypeOf(f, op.operands[i]))

KnowOf(f, op, i) == TypeOf(f, op.operands[i]).know
RankOf(f, op, i) == Len(KnowOf(f, op, i).sizes)
IsTensorOperand(f, op, i) == TypeOf(f, op.operands[i]).kind = "vtensor"

\* m_TorchConstantInt, m_TorchConstantIntList: the values matched, at most
\* one.  What is not a ListConstruct matches as the empty list.
ConstantInts(f, v) == {d.value : d \in {o \in DefinersOf(f, v) : o.name = "int"}}
ConstantIntLists(f, v) ==
  {IF d.name # "list" THEN <<>>
   ELSE [i \in DOMAIN d.operands |-> CHOOSE n \in ConstantInts(f, d.operands[i]) : TRUE] :
     d \in {o \in DefinersOf(f, v) : o.name = "list" => \A i \in DOMAIN o.operands : ConstantInts(f, o.operands[i]) # {}}}
isConstantIntListMatching(f, v, expects) == expects \in ConstantIntLists(f, v)

-----------------------------------------------------------------------------
\* The ops created: number k of those for op.

At(op, k) == Append(op.id, k)
Builtin(know) == Type("builtin", know)
Dynamic(rank, op) == Builtin(Sized(UnknownSizes(rank), op.type.know.dtype))
With(op, value) == [op EXCEPT !.value = value]

AssertDims(op, k, a, i, b, j) == With(Op(At(op, k), "assert_dims", <<a, b>>, NoneType), <<i, j>>)
AssertValue(op, k, v, n) == With(Op(At(op, k), "assert_value", <<v>>, NoneType), n)

Dim(k, d) == Extent({<<k, d>>}, {}, 0)
One == Extent({}, {}, 1)
InitTensor(op, k, vs, extents) == With(Op(At(op, k), "init_tensor", vs, Dynamic(Len(extents), op)), extents)
Fill(op, k, v, rank) == Op(At(op, k), "fill", <<v>>, Dynamic(rank, op))
Generic(op, k, ins, out, rank, loops, maps, body, reduces) ==
  With(Op(At(op, k), "structured", Append(ins, out), Dynamic(rank, op)),
       [loops |-> loops, maps |-> maps, body |-> body, reduces |-> reduces])
Cast(op, k, v) == Op(At(op, k), "tensor.cast", <<v>>, Builtin(op.type.know))

Identity(rank) == [d \in 1 .. rank |-> {d}]
Matmul(op, k, a, b, out) ==
  Generic(op, k, <<a, b>>, out, 2, 3, <<<<{1}, {3}>>, <<{3}, {2}>>, <<{1}, {2}>>>>, "product", TRUE)

-----------------------------------------------------------------------------

ConvertAtenAdaptiveAvgPool2d(f, op, in) ==
  CASE RankOf(f, op, 1) # 4 -> Refuses
    [] ~ isConstantIntListMatching(f, op.operands[2], <<1, 1>>) -> Refuses
    [] KnowOf(f, op, 1).dtype \notin FloatDtypes -> Crashes   \* only reported, then FloatAttr::get
    [] OTHER ->
         Converts(<<InitTensor(op, 1, <<in[1]>>, <<Dim(1, 1), Dim(1, 2)>>),
                    Fill(op, 2, At(op, 1), 2),
                    Generic(op, 3, <<in[1]>>, At(op, 2), 2, 4, <<Identity(4), Identity(2)>>, "product", TRUE),
                    Op(At(op, 4), "window", <<in[1]>>, Plain("i64")),
                    InitTensor(op, 5, <<in[1]>>, <<Dim(1, 1), Dim(1, 2), One, One>>),
                    Generic(op, 6, <<At(op, 3), At(op, 4)>>, At(op, 5), 4, 4,
                            <<Identity(2), Identity(4)>>, "mean", FALSE),
                    Cast(op, 7, At(op, 6))>>)

\* operands: input, weight, bias, stride, padding, dilation, groups
ConvertAtenConv2d(f, op, in) ==
  LET paddings == ConstantIntLists(f, op.operands[5])
      p == CHOOSE n \in paddings : TRUE
      out(d, pad) == Extent({<<1, d>>}, {<<2, d>>}, 2 * pad + 1)
  IN CASE paddings = {} -> Refuses
       [] ~ (isConstantIntListMatching(f, op.operands[4], <<1, 1>>) /\
             isConstantIntListMatching(f, op.operands[6], <<1, 1>>)) -> Refuses
       [] TypeOf(f, op.operands[3]) # NoneType -> Refuses
       [] Len(p) < 2 -> Crashes
       [] KnowOf(f, op, 1).dtype \notin FloatDtypes -> Crashes   \* only reported, then FloatAttr::get
       [] RankOf(f, op, 1) # 4 \/ RankOf(f, op, 2) # 4 -> Rejected
       [] OTHER ->
            Converts(<<AssertValue(op, 1, in[7], 1),
                       With(Op(At(op, 2), "pad_tensor", <<in[1]>>, Dynamic(4, op)), SubSeq(p, 1, 2)),
                       InitTensor(op, 3, SubSeq(in, 1, 2), <<Dim(1, 1), Dim(2, 1), out(3, p[1]), out(4, p[2])>>),
                       Fill(op, 4, At(op, 3), 4),
                       Generic(op, 5, <<At(op, 2), in[2]>>, At(op, 4), 4, 7,
                               <<<<{1}, {5}, {3, 6}, {4, 7}>>, <<{2}, {5}, {6}, {7}>>, Identity(4)>>, "product", TRUE),
                       Cast(op, 6, At(op, 5))>>)

\* operands: input, weight, bias, running_mean, running_var, training
ConvertAtenBatchNorm(f, op, in) ==
  LET rank == RankOf(f, op, 1)
  IN CASE ~ verifyLinalgCompatibleTypes(f, op) -> Refuses
       [] \E i \in 2 .. 5 : ~ IsTensorOperand(f, op, i) -> Crashes
       [] rank <= 2 \/ \E i \in 2 .. 5 : RankOf(f, op, i) # 1 -> Refuses
       [] OTHER ->
            Converts(<<AssertValue(op, 1, in[6], 0)>> \o
                     [i \in 1 .. 4 |-> AssertDims(op, i + 1, in[1], 2, in[i + 1], 1)] \o
                     <<Generic(op, 6, SubSeq(in, 1, 5), in[1], rank, rank,
                               <<Identity(rank)>> \o [i \in 1 .. 4 |-> <<{2}>>] \o <<Identity(rank)>>,
                               "batch_norm", FALSE),
                       Cast(op, 7, At(op, 6))>>)

\* Faulty: the contracting dimensions are not compared.
ConvertAtenMmUnguarded(f, op, in) ==
  IF op.type.know.dtype \notin FloatDtypes \/ RankOf(f, op, 1) # 2 \/ RankOf(f, op, 2) # 2 THEN Refuses
  ELSE Converts(<<InitTensor(op, 2, in, <<Dim(1, 1), Dim(2, 2)>>), Fill(op, 3, At(op, 2), 2),
                  Matmul(op, 4, in[1], in[2], At(op, 3)), Cast(op, 5, At(op, 4))>>)

ConvertAtenMm(f, op, in) ==
  CASE ~ verifyLinalgCompatibleTypes(f, op) -> Refuses
    [] RankOf(f, op, 1) # 2 \/ RankOf(f, op, 2) # 2 -> Refuses
    [] op.type.know.dtype \notin FloatDtypes -> Crashes
    [] OTHER ->
         Converts(<<AssertDims(op, 1, in[1], 2, in[2], 1),
                    InitTensor(op, 2, in, <<Dim(1, 1), Dim(2, 2)>>),
                    Fill(op, 3, At(op, 2), 2),
                    Matmul(op, 4, in[1], in[2], At(op, 3)),
                    Cast(op, 5, At(op, 4))>>)

\* operands: input, weight, bias
ConvertAtenLinear(f, op, in) ==
  LET SameDtype == \A i \in 2 .. 3 : KnowOf(f, op, i).dtype = KnowOf(f, op, 1).dtype
  IN CASE ~ verifyLinalgCompatibleTypes(f, op) -> Refuses
       [] ~ IsTensorOperand(f, op, 3) -> Crashes
       [] <<RankOf(f, op, 1), RankOf(f, op, 2), RankOf(f, op, 3)>> # <<2, 2, 1>> -> Refuses
       [] ~ SameDtype -> Refuses
       [] KnowOf(f, op, 3).sizes[1] \in {1, kUnknownSize} -> Refuses
       [] OTHER ->
            Converts(<<AssertDims(op, 1, in[1], 2, in[2], 2),
                       AssertDims(op, 2, in[2], 1, in[3], 1),
                       InitTensor(op, 3, SubSeq(in, 1, 2), <<Dim(1, 1), Dim(2, 1)>>),
                       Generic(op, 4, <<in[3]>>, At(op, 3), 2, 2, <<<<{2}>>, Identity(2)>>, "yield", FALSE),
                       InitTensor(op, 5, <<in[2]>>, <<Dim(1, 2), Dim(1, 1)>>),
                       Generic(op, 6, <<in[2]>>, At(op, 5), 2, 2, <<<<{2}, {1}>>, Identity(2)>>, "yield", FALSE),
                       Matmul(op, 7, in[1], At(op, 6), At(op, 4)),
                       Cast(op, 8, At(op, 7))>>)

\* createLinalgPayloadCalculationForElementwiseOp: whether there is a payload.
Payloads(f, op) ==
  LET alphas == {TypeOf(f, op.operands[i]).kind : i \in DOMAIN op.operands} \ {"vtensor"}
  IN /\ op.name \in {"add", "sub"} => "float" \notin alphas
     /\ op.name # "tanh" => op.type.know.dtype \in FloatDtypes

\* Faulty: dimensions are counted from the left, as if all ranks were equal.
ResultDimFromLeft(resultRank, rank, d) == d

\* "Add an offset to correlate it to the correct dimension of the result."
ResultDim(resultRank, rank, d) == d + (resultRank - rank)

\* The shape of the result and the guards, found operand by operand and
\* dimension by dimension: shape[d] is a dimension <<k, d>> of an operand, or
\* <<>> while only 1s were seen.
BroadcastGuards(know, rank) ==
  LET dims == FlattenSeq([k \in DOMAIN know |->
                SelectSeq([d \in DOMAIN know[k].sizes |-> <<k, d>>], LAMBDA kd : know[k].sizes[kd[2]] # 1)])
      Visit(g, kd) ==
        LET d == ResultDim(rank, Len(know[kd[1]].sizes), kd[2])
        IN IF g.shape[d] = <<>> THEN [g EXCEPT !.shape[d] = kd]
           ELSE [g EXCEPT !.guards = Append(@, <<g.shape[d], kd>>)]
  IN FoldLeft(Visit, [shape |-> [d \in 1 .. rank |-> <<>>], guards |-> <<>>], dims)

ConvertElementwise(f, op, in) ==
  LET tensors  == SelectSeq([i \in DOMAIN op.operands |-> i], LAMBDA i : IsTensorOperand(f, op, i))
      know     == [k \in DOMAIN tensors |-> KnowOf(f, op, tensors[k])]
      v        == [k \in DOMAIN tensors |-> in[tensors[k]]]
      scalars  == SelectSeq(in, LAMBDA w : w \notin ToSet(v))
      rank     == Len(op.type.know.sizes)
      broadcast == BroadcastGuards(know, rank)
      guards   == [g \in DOMAIN broadcast.guards |->
                     LET a == broadcast.guards[g][1]
                         b == broadcast.guards[g][2]
                     IN AssertDims(op, g + 3, v[a[1]], a[2], v[b[1]], b[2])]
      extents  == [d \in 1 .. rank |-> IF broadcast.shape[d] = <<>> THEN One
                                       ELSE Dim(broadcast.shape[d][1], broadcast.shape[d][2])]
      maps     == [k \in DOMAIN know |-> [d \in DOMAIN know[k].sizes |->
                     IF know[k].sizes[d] = 1 THEN {} ELSE {ResultDim(rank, Len(know[k].sizes), d)}]]
  IN CASE ~ verifyLinalgCompatibleTypes(f, op) -> Refuses
       \* an operand of a higher rank than the result: resultShape[-1]
       [] \E k \in DOMAIN know : \E d \in 1 .. Len(know[k].sizes) - rank : know[k].sizes[d] # 1 -> Crashes
       [] ~ Payloads(f, op) -> Refuses
       [] op.type.know.dtype \notin FloatDtypes -> Rejected   \* math.tanh of an integer
       [] OTHER ->
            Converts(guards \o
                     <<InitTensor(op, 1, v, extents),
                       Generic(op, 2, v \o scalars, At(op, 1), rank, rank, Append(maps, Identity(rank)),
                               op.name, FALSE),
                       Cast(op, 3, At(op, 2))>>)

\* operands: self, dim
ConvertAtenUnsqueeze(f, op, in) ==
  LET dims == ConstantInts(f, op.operands[2])
      rank == RankOf(f, op, 1)
      dim0 == LET d == CHOOSE n \in dims : TRUE IN IF d < 0 THEN d + rank + 1 ELSE d
      dim  == IF dim0 = rank /\ rank # 0 THEN rank - 1 ELSE dim0
      reassociation == [i \in 1 .. rank |-> CASE i - 1 < dim -> <<i>>
                                              [] i - 1 = dim -> <<i, i + 1>>
                                              [] i - 1 > dim -> <<i + 1>>]
  IN CASE ~ verifyLinalgCompatibleTypes(f, op) -> Refuses
       [] dims = {} -> Refuses
       [] dim0 < 0 \/ dim0 > rank -> Refuses
       [] OTHER -> Converts(<<With(Op(At(op, 1), "expand_shape", <<in[1]>>, Builtin(op.type.know)), reassociation)>>)

-----------------------------------------------------------------------------

LinalgPattern(f, op, in) ==
  CASE op.name = "mm"                  -> ConvertAtenMm(f, op, in)
    [] op.name = "linear"              -> ConvertAtenLinear(f, op, in)
    [] op.name = "batch_norm"          -> ConvertAtenBatchNorm(f, op, in)
    [] op.name \in Elementwise         -> ConvertElementwise(f, op, in)
    [] op.name = "unsqueeze"           -> ConvertAtenUnsqueeze(f, op, in)
    [] op.name = "conv2d"              -> ConvertAtenConv2d(f, op, in)
    [] op.name = "adaptive_avg_pool2d" -> ConvertAtenAdaptiveAvgPool2d(f, op, in)

=============================================================================
