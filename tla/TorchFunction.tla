---------------------------- MODULE TorchFunction ----------------------------
(***************************************************************************)
(* Functions of the torch dialect after globalization, and what they       *)
(* compute.  A module is [funcs, slots]; a function [args, results,        *)
(* blocks, isPublic] has the block "entry" and those of at most one        *)
(* prim.If, "then" and "else".  An op is [id, name, operands, type, value, *)
(* symbol]: a value is named by the id of the op or argument that defines  *)
(* it, and an op made while another is rewritten has the id of that one    *)
(* with a number appended.                                                 *)
(***************************************************************************)
EXTENDS ValueKnowledge

Type(kind, know) == [kind |-> kind, know |-> know]
Plain(kind) == Type(kind, PessimisticValueState)
NoneType == Plain("none")
NoBound == Plain("no_bound")   \* an argument without torch.type_bound

IsTensor(type) == type.kind \in {"tensor", "vtensor"}
getWithValueSemantics(type) == [type EXCEPT !.kind = "vtensor"]
getWithoutValueSemantics(type) == [type EXCEPT !.kind = "tensor"]
hasSameSizesAndDtype(a, b) == a.know = b.know

Op(id, name, operands, type) ==
  [id |-> id, name |-> name, operands |-> operands, type |-> type, value |-> 0, symbol |-> ""]
Constant(id, kind, value) == [Op(id, kind, <<>>, Plain(kind)) EXCEPT !.value = value]

OpsOf(f) == f.blocks["entry"] \o f.blocks["then"] \o f.blocks["else"]
UsersOf(f, v) == {op \in ToSet(OpsOf(f)) : v \in ToSet(op.operands)}
DefinersOf(f, v) == {op \in ToSet(OpsOf(f)) : op.id = v}
ReturnOf(f) == Last(f.blocks["entry"])
BlockOf(f, op) == CHOOSE b \in DOMAIN f.blocks : op \in ToSet(f.blocks[b])

TypeOf(f, v) ==
  IF \E i \in DOMAIN f.args : f.args[i].id = v
  THEN f.args[CHOOSE i \in DOMAIN f.args : f.args[i].id = v].type
  ELSE (CHOOSE op \in DefinersOf(f, v) : TRUE).type

\* areAllSizesKnown
AllSizesKnown(type) == type.know.hasSizes /\ kUnknownSize \notin ToSet(type.know.sizes)

-----------------------------------------------------------------------------
\* Rewriting

\* A replaced value and what stands for it.
Standing(map, v) == IF v \in DOMAIN map THEN map[v] ELSE v
WithOperands(op, map) == [op EXCEPT !.operands = [i \in DOMAIN @ |-> Standing(map, @[i])]]

\* Every op of a block, in order, becomes the ops F gives for it; uses of its
\* result go to the value F gives.
ConvertBlock(F(_), block, map) ==
  FoldLeft(LAMBDA done, op :
             LET new == F(WithOperands(op, done.map))
             IN [ops |-> done.ops \o new.ops,
                 map |-> IF new.result = op.id THEN done.map ELSE (op.id :> new.result) @@ done.map],
           [ops |-> <<>>, map |-> map], block)

Convert(F(_), f, map) ==
  LET entry == ConvertBlock(F, f.blocks["entry"], map)
  IN [f EXCEPT !.blocks = [b \in DOMAIN @ |->
        IF b = "entry" THEN entry.ops ELSE ConvertBlock(F, f.blocks[b], entry.map).ops]]

\* replaceOp and eraseOp of a pattern: op becomes ops, its uses go to `result`.
ReplaceOp(f, op, ops, result) ==
  Convert(LAMBDA o : IF o.id = op.id THEN [ops |-> ops, result |-> result]
                     ELSE [ops |-> <<o>>, result |-> o.id], f, <<>>)

Keep(op) == [ops |-> <<op>>, result |-> op.id]

\* copyTensorToType: a cast when the static information differs, then the
\* copy between the value and the non-value domain.
copyTensorToType(at, newType, v, type) ==
  LET cast == ~ hasSameSizesAndDtype(type, newType)
      v1   == IF cast THEN Append(at, 1) ELSE v
      toV  == type.kind = "tensor"
      v2   == IF toV THEN Append(at, 2) ELSE v1
      toT  == newType.kind = "tensor"
      mid  == Type(type.kind, newType.know)
      When(cond, op) == IF cond THEN <<op>> ELSE <<>>
  IN [ops |-> When(cast, Op(v1, "static_info_cast", <<v>>, mid)) \o
              When(toV, Op(v2, "copy.to_vtensor", <<v1>>, getWithValueSemantics(mid))) \o
              When(toT, Op(Append(at, 3), "copy.to_tensor", <<v2>>, getWithoutValueSemantics(mid))),
      result |-> IF toT THEN Append(at, 3) ELSE v2]

-----------------------------------------------------------------------------
\* Execution.  The contents of a tensor are a term over the arguments and the
\* literals, and its sizes.  A tensor (ref, view) is a location of the heap
\* seen through `view` unsqueezes; a vtensor is its contents.

Unsqueezed(c) ==
  [term  |-> IF Last(c.term) = "squeeze" THEN Front(c.term) ELSE Append(c.term, "unsqueeze"),
   sizes |-> <<1>> \o c.sizes]
Squeezed(c) ==
  [term  |-> IF Last(c.term) = "unsqueeze" THEN Front(c.term) ELSE Append(c.term, "squeeze"),
   sizes |-> Tail(c.sizes)]
Times(F(_), n, c) == FoldLeft(LAMBDA x, i : F(x), c, [i \in 1 .. n |-> i])
Added(c, d) ==
  [term  |-> <<"add">> \o c.term \o d.term,
   sizes |-> IF Len(c.sizes) > Len(d.sizes) THEN c.sizes ELSE d.sizes]

Contents(st, rv) ==
  IF rv.kind = "vtensor" THEN rv.contents ELSE Times(Unsqueezed, rv.view, st.heap[rv.ref])

Scalar(n) == [kind |-> "scalar", value |-> n]
None == [kind |-> "none"]
Bool(b) == Scalar(IF b THEN 1 ELSE 0)

\* What the caller sees of a value.
Observed(st, rv) ==
  CASE rv.kind \in {"tensor", "vtensor"} -> <<Contents(st, rv)>>
    [] rv.kind = "list" -> <<st.lists[rv.ref]>>
    [] rv.kind = "scalar" -> <<rv>>
    [] rv.kind = "none" -> <<>>   \* no return value stands for it

Bind(st, op, rv) == [st EXCEPT !.env = (op.id :> rv) @@ @]
BindContents(st, op, c) ==
  IF op.type.kind = "vtensor" THEN Bind(st, op, [kind |-> "vtensor", contents |-> c])
  ELSE Bind([st EXCEPT !.heap = Append(@, c)], op,
            [kind |-> "tensor", ref |-> Len(st.heap) + 1, view |-> 0])
BindList(st, op, items) ==
  Bind([st EXCEPT !.lists = Append(@, items)], op, [kind |-> "list", ref |-> Len(st.lists) + 1])

\* A write in place, through a view; the sizes must be those written to.
Write(st, rv, c) ==
  IF Contents(st, rv).sizes # c.sizes THEN [st EXCEPT !.failed = TRUE]
  ELSE [st EXCEPT !.heap[rv.ref] = Times(Squeezed, rv.view, c), !.written = @ \cup {rv.ref}]

Step(st, op) ==
  LET x(i)    == st.env[op.operands[i]]
      c(i)    == Contents(st, x(i))
      items   == st.lists[x(1).ref]
  IN CASE op.name \in {"literal", "vtensor.literal"} ->
            BindContents(st, op, [term |-> <<op.symbol>>, sizes |-> <<2, 3>>])
       [] op.name \in {"int", "bool"} -> Bind(st, op, Scalar(op.value))
       [] op.name = "none" -> Bind(st, op, None)
       [] op.name \in {"derefine", "static_info_cast"} -> Bind(st, op, x(1))
       [] op.name \in {"copy.to_tensor", "copy.to_vtensor"} -> BindContents(st, op, c(1))
       [] op.name = "overwrite" -> Write(st, x(2), c(1))
       [] op.name = "add" -> BindContents(st, op, Added(c(1), c(2)))
       [] op.name = "add_" -> Bind(Write(st, x(1), Added(c(1), c(2))), op, x(1))
       [] op.name = "unsqueeze" ->
            IF x(1).kind = "vtensor" THEN BindContents(st, op, Unsqueezed(c(1)))
            ELSE Bind(st, op, [x(1) EXCEPT !.view = @ + 1])
       [] op.name = "dim" -> Bind(st, op, Scalar(Len(c(1).sizes)))
       [] op.name = "size" -> BindList(st, op, [i \in DOMAIN c(1).sizes |-> Scalar(c(1).sizes[i])])
       [] op.name = "list" -> BindList(st, op, [i \in DOMAIN op.operands |-> x(i)])
       [] op.name = "append" -> [st EXCEPT !.lists[x(1).ref] = Append(@, x(2)), !.noted = @ \cup {"append"}]
       [] op.name = "len" -> Bind(st, op, Scalar(Len(items)))
       [] op.name = "getitem" ->
            IF x(2).value < Len(items) THEN Bind(st, op, items[x(2).value + 1])
            ELSE [st EXCEPT !.failed = TRUE]
       [] op.name = "gt" -> Bind(st, op, Bool(x(1).value > x(2).value))
       [] op.name = "ne" -> Bind(st, op, Bool(x(1).value # x(2).value))
       [] op.name = "is" ->
            Bind([st EXCEPT !.noted = IF x(1) = None /\ x(2) = None THEN @ \cup {"None is None"} ELSE @],
                 op, Bool(x(1) = x(2)))
       [] op.name = "slot.get" -> Bind(st, op, st.slots[op.symbol])
       [] op.name = "slot.set" -> [st EXCEPT !.slots[op.symbol] = x(1)]
       [] op.name \in {"return", "yield"} -> [st EXCEPT !.out = [i \in DOMAIN op.operands |-> x(i)]]

\* Nothing more happens after a failure.
RunOps(Exec(_, _), st, ops) == FoldLeft(LAMBDA s, op : IF s.failed THEN s ELSE Exec(s, op), st, ops)

\* The state after an op with blocks, whose result is what these returned.
Resulting(st, op) == IF st.failed \/ st.out = <<>> THEN st ELSE Bind(st, op, st.out[1])

StepIf(f, st, op) ==
  Resulting(RunOps(Step, st, f.blocks[IF st.env[op.operands[1]].value = 1 THEN "then" ELSE "else"]), op)

\* The operands of a call become the callee's arguments.
StepCall(m, st, op) ==
  LET g      == m.funcs[op.symbol]
      inside == [st EXCEPT !.env = [v \in {g.args[i].id : i \in DOMAIN g.args} |->
                   st.env[op.operands[CHOOSE i \in DOMAIN g.args : g.args[i].id = v]]]]
  IN Resulting([RunOps(Step, inside, g.blocks["entry"]) EXCEPT !.env = st.env], op)

RunFunction(m, f, st) ==
  RunOps(LAMBDA s, op : CASE op.name = "prim.If" -> StepIf(f, s, op)
                          [] op.name = "call"    -> StepCall(m, s, op)
                          [] OTHER               -> Step(s, op), st, f.blocks["entry"])

\* The caller of the public function makes its arguments: tensors, or their
\* contents where the convention asks for vtensors; "flag" is a Boolean.
Called(st, f, flag) ==
  FoldLeft(LAMBDA s, arg :
             IF IsTensor(arg.type)
             THEN BindContents(s, arg, [term |-> <<ToString(arg.id[1])>>, sizes |-> <<2, 3>>])
             ELSE Bind(s, arg, IF arg.type.kind = "bool" THEN flag ELSE None),
           [st EXCEPT !.env = <<>>, !.out = <<>>], f.args)

\* A program: every slot has its initial tensor, then `main` is called twice.
Loaded(m) ==
  LET names == SetToSeq(DOMAIN m.slots)
  IN [env |-> <<>>, out |-> <<>>, failed |-> FALSE, written |-> {}, lists |-> <<>>, noted |-> {},
      heap  |-> [i \in DOMAIN names |-> [term |-> <<m.slots[names[i]].symbol>>, sizes |-> <<2, 3>>]],
      slots |-> [s \in DOMAIN m.slots |->
                   [kind |-> "tensor", ref |-> CHOOSE i \in DOMAIN names : names[i] = s, view |-> 0]]]

CallMain(m, st, flag) == RunFunction(m, m.funcs["main"], Called(st, m.funcs["main"], flag))
Returned(st) == FlattenSeq([i \in DOMAIN st.out |-> Observed(st, st.out[i])])

\* What two calls return, the slots others can read, and whether they fail.
MeaningOf(m, first, second) ==
  IF first.failed \/ second.failed THEN <<"failed">>
  ELSE <<Returned(first), Returned(second),
         [s \in {n \in DOMAIN m.slots : ~ m.slots[n].isPrivate} |-> Observed(second, second.slots[s])]>>
Meaning(m, flag) ==
  LET After(first) == MeaningOf(m, first, CallMain(m, first, flag))
  IN After(CallMain(m, Loaded(m), flag))

=============================================================================
