---------------------------- MODULE LinalgExecution ----------------------------
(***************************************************************************)
(* What a function computes before, during and after the conversions to    *)
(* linalg and std, whose ops may occur in it side by side with ATen's.  A  *)
(* tensor is [sizes, at]: `at` gives the element, a term over those of the *)
(* arguments, at every index.  An execution returns, is aborted by a       *)
(* guard, is in error (ATen's operands do not fit), or is undefined.       *)
(***************************************************************************)
EXTENDS TorchFunction

Indices(sizes) ==
  {i \in [DOMAIN sizes -> 0 .. Max(ToSet(sizes) \cup {1}) - 1] : \A d \in DOMAIN sizes : i[d] < sizes[d]}

Tensor(sizes, At(_)) == [sizes |-> sizes, at |-> [i \in Indices(sizes) |-> At(i)]]

Zero == <<"0">>

\* An element that is a sum of products of elements; those with a zero are left out.
Sum(init, products) == <<"sum", init, {p \in products : Zero \notin ToSet(p)}>>


-----------------------------------------------------------------------------
\* ATen

\* Size number i from the right, 1 where there is none.
FromRight(sizes, i) == IF i <= Len(sizes) THEN sizes[Len(sizes) + 1 - i] ELSE 1
MaxRank(ts) == Max({Len(ts[k].sizes) : k \in DOMAIN ts})

\* Sizes that fit each other, or are 1.
CanBroadcast(ts) ==
  \A i \in 1 .. MaxRank(ts) : \A a, b \in DOMAIN ts :
    \/ FromRight(ts[a].sizes, i) = FromRight(ts[b].sizes, i)
    \/ 1 \in {FromRight(ts[a].sizes, i), FromRight(ts[b].sizes, i)}

BroadcastSizes(ts) ==
  [d \in 1 .. MaxRank(ts) |->
     LET sizes == {FromRight(ts[k].sizes, MaxRank(ts) + 1 - d) : k \in DOMAIN ts}
     IN IF sizes = {1} THEN 1 ELSE CHOOSE n \in sizes : n # 1]

\* The element of t that is broadcast to index i.
BroadcastElement(t, i) ==
  t.at[[d \in DOMAIN t.sizes |-> IF t.sizes[d] = 1 THEN 0 ELSE i[d + Len(i) - Len(t.sizes)]]]

\* The scalar functions of the elementwise ops and of batch_norm.
Payload(name, e, alpha) ==
  CASE name \in {"tanh", "relu"} -> <<name, e[1]>>
    [] name \in {"add", "sub"}   -> <<name, e[1], <<"mul", e[2], alpha>>>>
    [] name \in {"mul", "div"}   -> <<name, e[1], e[2]>>
    [] name = "lerp"             -> <<"add", e[1], <<"mul", <<"sub", e[2], e[1]>>, e[3]>>>>
    [] name = "batch_norm"       ->   \* input, weight, bias, mean, var
         <<"add", <<"mul", <<"mul", <<"sub", e[1], e[4]>>, <<"rsqrt", e[5]>>>>, e[2]>>, e[3]>>

Elementwise == {"tanh", "relu", "add", "sub", "mul", "div", "lerp"}

Window(sizes) == {<<h, w>> : h \in 0 .. sizes[3] - 1, w \in 0 .. sizes[4] - 1}

\* Whether ATen accepts the tensors t; n holds the ints of the other operands.
Accepts(name, t, n) ==
  LET rank(k) == Len(t[k].sizes)
  IN CASE name \in Elementwise -> CanBroadcast(t)
       [] name = "mm" -> rank(1) = 2 /\ rank(2) = 2 /\ t[1].sizes[2] = t[2].sizes[1]
       [] name = "linear" ->
            /\ rank(1) = 2 /\ rank(2) = 2 /\ t[1].sizes[2] = t[2].sizes[2]
            /\ Len(t) = 3 => t[3].sizes \in {<<>>, <<1>>, <<t[2].sizes[1]>>}
       [] name = "batch_norm" ->    \* with all the operands that may be None
            Len(t) = 5 /\ rank(1) >= 2 /\ \A k \in 2 .. 5 : t[k].sizes = <<t[1].sizes[2]>>
       [] name = "conv2d" ->
            /\ rank(1) = 4 /\ rank(2) = 4 /\ t[1].sizes[2] = t[2].sizes[2]
            /\ \A d \in {3, 4} : t[1].sizes[d] + 2 * n[IF d = 4 THEN Len(n) ELSE 1] >= t[2].sizes[d]
       [] name = "adaptive_avg_pool2d" -> rank(1) = 4 /\ t[1].sizes[3] > 0 /\ t[1].sizes[4] > 0
       [] name = "unsqueeze" -> - rank(1) - 1 <= n[1] /\ n[1] <= rank(1)

Computes(name, t, n) ==
  CASE name \in Elementwise ->
         Tensor(BroadcastSizes(t), LAMBDA i :
           Payload(name, [k \in DOMAIN t |-> BroadcastElement(t[k], i)], n))
    [] name = "mm" ->
         Tensor(<<t[1].sizes[1], t[2].sizes[2]>>, LAMBDA i :
           Sum(Zero, {<<t[1].at[<<i[1], k>>], t[2].at[<<k, i[2]>>]>> : k \in 0 .. t[1].sizes[2] - 1}))
    [] name = "linear" ->
         Tensor(<<t[1].sizes[1], t[2].sizes[1]>>, LAMBDA i :
           Sum(IF Len(t) = 3 THEN BroadcastElement(t[3], i) ELSE Zero,
               {<<t[1].at[<<i[1], k>>], t[2].at[<<i[2], k>>]>> : k \in 0 .. t[1].sizes[2] - 1}))
    [] name = "batch_norm" ->
         Tensor(t[1].sizes, LAMBDA i :
           Payload(name, [k \in DOMAIN t |-> IF k = 1 THEN t[1].at[i] ELSE t[k].at[<<i[2]>>]], n))
    [] name = "conv2d" ->
         LET p(d) == n[IF d = 4 THEN Len(n) ELSE 1]
             out(d) == t[1].sizes[d] + 2 * p(d) - t[2].sizes[d] + 1
         IN Tensor(<<t[1].sizes[1], t[2].sizes[1], out(3), out(4)>>, LAMBDA i :
              Sum(Zero, {<<t[1].at[<<i[1], k[2], i[3] + k[3] - p(3), i[4] + k[4] - p(4)>>], t[2].at[k]>> :
                          k \in {j \in Indices(t[2].sizes) :
                                   j[1] = i[2] /\ i[3] + j[3] - p(3) \in 0 .. t[1].sizes[3] - 1
                                               /\ i[4] + j[4] - p(4) \in 0 .. t[1].sizes[4] - 1}}))
    [] name = "adaptive_avg_pool2d" ->
         Tensor(SubSeq(t[1].sizes, 1, 2) \o <<1, 1>>, LAMBDA i :
           <<"mean", Sum(Zero, {<<t[1].at[<<i[1], i[2]>> \o w]>> : w \in Window(t[1].sizes)}),
                    t[1].sizes[3] * t[1].sizes[4]>>)
    [] name = "unsqueeze" ->
         LET dim == IF n[1] < 0 THEN n[1] + Len(t[1].sizes) + 1 ELSE n[1]
         IN Tensor(InsertAt(t[1].sizes, dim + 1, 1), LAMBDA i : t[1].at[RemoveAt(i, dim + 1)])

Aten == Elementwise \cup {"mm", "linear", "batch_norm", "conv2d", "adaptive_avg_pool2d", "unsqueeze"}

-----------------------------------------------------------------------------
\* linalg: loops over ranges taken from the operands.  An indexing map has a
\* set of loops for every dimension: their sum is the index, {} stands for 0.

LoopRange(ops, maps, loop) ==
  LET at == CHOOSE k \in DOMAIN maps : {loop} \in ToSet(maps[k]) /\ \A j \in 1 .. k - 1 : {loop} \notin ToSet(maps[j])
  IN ops[at].sizes[CHOOSE d \in DOMAIN maps[at] : maps[at][d] = {loop}]

\* Every index computed is one of the operand's, and the sizes that one loop
\* runs over are the same.
InBounds(ops, maps, ranges) ==
  (\A l \in DOMAIN ranges : ranges[l] >= 0) /\
  \A k \in DOMAIN maps : \A d \in DOMAIN maps[k] :
    LET map  == maps[k][d]
        last == MapThenSumSet(LAMBDA l : ranges[l] - 1, map)
    IN IF Cardinality(map) = 1 THEN last = ops[k].sizes[d] - 1
       ELSE last < ops[k].sizes[d] \/ \E l \in DOMAIN ranges : ranges[l] = 0

IndexOf(map, i) == [d \in DOMAIN map |-> MapThenSumSet(LAMBDA l : i[l], map[d])]

\* The operands of a structured op end with the output; `Reduces` sums what
\* the body gives, otherwise it is the element of the result.
Structured(ops, maps, ranges, Body(_), reduces) ==
  LET ins == Front(ops)
      Args(i) == [k \in DOMAIN ins |-> ins[k].at[IndexOf(maps[k], i)]]
      Writers(o) == {i \in Indices(ranges) : IndexOf(Last(maps), i) = o}
  IN Tensor(Last(ops).sizes, LAMBDA o :
       IF reduces THEN Sum(Last(ops).at[o], {Body(Args(i)) : i \in Writers(o)})
       ELSE Body(Args(CHOOSE i \in Writers(o) : TRUE)))

-----------------------------------------------------------------------------
\* One op

Stop(st, outcome) == [st EXCEPT !.failed = TRUE, !.outcome = outcome]

IsTensorValue(rv) == rv.kind = "tensor"
TensorOf(t) == [kind |-> "tensor"] @@ t

\* The extent of a new dimension: a constant, and dimensions <<k, d>> of
\* operands k added or taken away.
Extent(plus, minus, const) == [plus |-> plus, minus |-> minus, const |-> const]
ExtentOf(op, x(_), e) ==
  LET Dim(kd) == x(kd[1]).sizes[kd[2]]
  IN e.const + MapThenSumSet(Dim, e.plus) - MapThenSumSet(Dim, e.minus)

Tensors(st, op) == SelectSeq([i \in DOMAIN op.operands |-> st.env[op.operands[i]]], IsTensorValue)

\* The numbers among the operands; of conv2d, the padding.
IntsOf(st, op) ==
  IF op.name = "conv2d" THEN st.env[op.operands[5]].items
  ELSE LET x(i) == st.env[op.operands[i]]
           scalars == SelectSeq([i \in DOMAIN op.operands |-> i], LAMBDA i : x(i).kind = "scalar")
       IN [k \in DOMAIN scalars |-> x(scalars[k]).value]

ExecuteAten(st, op) ==
  LET t == Tensors(st, op)
      n == IntsOf(st, op)
  IN IF Accepts(op.name, t, n) THEN Bind(st, op, TensorOf(Computes(op.name, t, n))) ELSE Stop(st, "error")

ExecuteStructured(st, op) ==
  LET ops == Tensors(st, op)
      maps == op.value.maps
      ranges == [l \in 1 .. op.value.loops |-> LoopRange(ops, maps, l)]
      alpha == IntsOf(st, op)
      Body(e) ==
        CASE op.value.body = "product" -> e                       \* one factor per operand, summed
          [] op.value.body = "yield" -> e[1]
          [] op.value.body = "mean"  -> <<"mean", e[1], alpha[1]>>
          [] OTHER                   -> Payload(op.value.body, e, alpha)
  IN IF InBounds(ops, maps, ranges)
     THEN Bind(st, op, TensorOf(Structured(ops, maps, ranges, Body, op.value.reduces)))
     ELSE Stop(st, "undefined")

ExecuteTensorOp(st, op) ==
  LET x(i) == st.env[op.operands[i]]
      sizes == [d \in DOMAIN op.value |-> ExtentOf(op, x, op.value[d])]
      know == op.type.know
  IN CASE op.name = "assert_dims" ->
            IF x(1).sizes[op.value[1]] = x(2).sizes[op.value[2]] THEN st ELSE Stop(st, "aborted")
       [] op.name = "assert_value" -> IF x(1).value = op.value THEN st ELSE Stop(st, "aborted")
       [] op.name = "init_tensor" ->
            IF \E d \in DOMAIN sizes : sizes[d] < 0 THEN Stop(st, "undefined")
            ELSE Bind(st, op, TensorOf(Tensor(sizes, LAMBDA i : <<"undef">>)))
       [] op.name = "fill" -> Bind(st, op, TensorOf(Tensor(x(1).sizes, LAMBDA i : Zero)))
       [] op.name = "pad_tensor" ->
            LET p == <<0, 0>> \o op.value
                in(i) == [d \in DOMAIN i |-> i[d] - p[d]]
            IN Bind(st, op, TensorOf(Tensor([d \in DOMAIN p |-> x(1).sizes[d] + 2 * p[d]], LAMBDA i :
                 IF in(i) \in Indices(x(1).sizes) THEN x(1).at[in(i)] ELSE Zero)))
       [] op.name = "tensor.cast" ->
            IF \A d \in DOMAIN know.sizes : know.sizes[d] \in {kUnknownSize, x(1).sizes[d]}
            THEN Bind(st, op, x(1)) ELSE Stop(st, "undefined")
       [] op.name = "expand_shape" ->
            \* the one size of a group that is not known to be 1 is that of
            \* the dimension expanded
            LET groups   == op.value
                Other(g) == {d \in ToSet(groups[g]) : know.sizes[d] # 1}
                size(d)  == IF \E g \in DOMAIN groups : Other(g) = {d}
                            THEN x(1).sizes[CHOOSE g \in DOMAIN groups : Other(g) = {d}] ELSE 1
                from(i)  == [g \in DOMAIN groups |-> MapThenSumSet(LAMBDA d : i[d], ToSet(groups[g]))]
            IN Bind(st, op, TensorOf(Tensor([d \in DOMAIN know.sizes |-> size(d)], LAMBDA i : x(1).at[from(i)])))
       [] op.name = "window" -> Bind(st, op, Scalar(x(1).sizes[3] * x(1).sizes[4]))

TensorOps == {"assert_dims", "assert_value", "init_tensor", "fill", "pad_tensor", "tensor.cast", "expand_shape",
              "window"}

ExecuteScalarOp(st, op) ==
  LET x(i) == st.env[op.operands[i]]
  IN CASE op.name \in {"int", "bool", "constant"} -> Bind(st, op, Scalar(op.value))
       [] op.name = "none" -> Bind(st, op, None)
       [] op.name \in {"vtensor.literal", "dense"} ->
            Bind(st, op, TensorOf(Tensor(op.value, LAMBDA i : <<op.symbol, i>>)))
       [] op.name = "list" -> Bind(st, op, [kind |-> "list", items |-> [i \in DOMAIN op.operands |-> x(i).value]])
       [] op.name = "size" -> Bind(st, op, [kind |-> "list", items |-> x(1).sizes])
       [] op.name \in {"to_builtin", "from_builtin", "index_cast"} -> Bind(st, op, x(1))
       [] op.name \in {"dim", "rank"} -> Bind(st, op, Scalar(Len(x(1).sizes)))
       [] op.name \in {"ne", "cmpi ne"} -> Bind(st, op, Bool(x(1).value # x(2).value))
       [] op.name \in {"gt", "cmpi sgt"} -> Bind(st, op, Bool(x(1).value > x(2).value))
       [] op.name \in {"return", "yield", "scf.yield"} -> [st EXCEPT !.out = [i \in DOMAIN op.operands |-> x(i)]]

ExecuteOp(st, op) ==
  CASE op.name \in Aten                  -> ExecuteAten(st, op)
    [] op.name = "structured"            -> ExecuteStructured(st, op)
    [] op.name \in TensorOps             -> ExecuteTensorOp(st, op)
    [] OTHER                             -> ExecuteScalarOp(st, op)

ExecuteIf(f, st, op) ==
  LET after == RunOps(ExecuteOp, st, f.blocks[IF st.env[op.operands[1]].value = 1 THEN "then" ELSE "else"])
  IN IF after.failed THEN after ELSE Bind(after, op, after.out[1])

\* The outcome of f on the values `inputs` of its arguments.
Outcome(f, inputs) ==
  LET start == [env |-> [v \in {f.args[i].id : i \in DOMAIN f.args} |->
                           inputs[CHOOSE i \in DOMAIN f.args : f.args[i].id = v]],
                out |-> <<>>, failed |-> FALSE, outcome |-> "returns"]
      Execute(st, op) == IF op.name \in {"prim.If", "scf.if"} THEN ExecuteIf(f, st, op) ELSE ExecuteOp(st, op)
      end == RunOps(Execute, start, f.blocks["entry"])
  IN [outcome |-> end.outcome, returned |-> IF end.failed THEN <<>> ELSE end.out]

=============================================================================
