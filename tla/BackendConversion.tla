--------------------------- MODULE BackendConversion ---------------------------
(***************************************************************************)
(* The passes from ConvertTorchToLinalg to VerifyBackendContract on one    *)
(* function.  Each converts some ops; a value used across the border of    *)
(* what is converted goes through a materialization: "to_builtin" stands   *)
(* for to_builtin_tensor, to_i1, to_i64 and to_f64, "from_builtin" for     *)
(* their inverses.                                                         *)
(***************************************************************************)
EXTENDS TorchToLinalg

\* setupBackendTypeConversion
Converted(type) ==
  CASE type.kind = "vtensor" -> Builtin(type.know)
    [] type.kind = "bool"    -> Plain("i1")
    [] type.kind = "int"     -> Plain("i64")
    [] type.kind = "float"   -> Plain("f64")
    [] OTHER                 -> type
IsLegalType(type) == Converted(type) = type

ToBuiltin(id, v, type) == Op(id, "to_builtin", <<v>>, Converted(type))
FromBuiltin(id, v, type) == Op(id, "from_builtin", <<v>>, type)

\* applyPartialConversion.  The ops `names` are converted: what becomes of op
\* ends with the value Result(op.id).  A pattern is handed its operands
\* converted: those that other converted ops define as they are, others
\* through a materialization.
Result(v) == Append(v, 30)
DefinedIn(f, names, v) == \E d \in DefinersOf(f, v) : d.name \in names
NeedsMaterial(f, names, v) == ~ IsLegalType(TypeOf(f, v)) /\ ~ DefinedIn(f, names, v)

Materials(f, names, op) ==
  [i \in DOMAIN op.operands |->
     LET v == op.operands[i]
     IN CASE NeedsMaterial(f, names, v) -> Append(op.id, 20 + i)
          [] DefinedIn(f, names, v) -> Result(v)
          [] OTHER -> v]

Materialize(f, names, op) ==
  LET new == SelectSeq([i \in DOMAIN op.operands |-> i], LAMBDA i : NeedsMaterial(f, names, op.operands[i]))
  IN [k \in DOMAIN new |->
        ToBuiltin(Append(op.id, 20 + new[k]), op.operands[new[k]], TypeOf(f, op.operands[new[k]]))]

\* The other way for the users that are not converted.
ConvertOps(f, names, F(_, _)) ==
  LET Back(op) == IF op.type # NoneType /\ \E user \in UsersOf(f, op.id) : user.name \notin names
                  THEN <<FromBuiltin(op.id, Result(op.id), op.type)>> ELSE <<>>
      Into(op) == LET ops == F(op, Materials(f, names, op))
                  IN Append(Front(ops), [Last(ops) EXCEPT !.id = Result(op.id)])
      Ops(op) == IF op.name \in names THEN Materialize(f, names, op) \o Into(op) \o Back(op) ELSE <<op>>
  IN Convert(LAMBDA op : [ops |-> Ops(op), result |-> op.id], f, <<>>)

-----------------------------------------------------------------------------
\* ConvertTorchToLinalg: the ops are legalized in order; the first that no
\* pattern converts, or that crashes, ends the pass.  The verifier comes after it.

LinalgOutcomes(f) ==
  LET illegal == SelectSeq(OpsOf(f), LAMBDA op : op.name \in Aten)
  IN [k \in DOMAIN illegal |-> LinalgPattern(f, illegal[k], Materials(f, Aten, illegal[k])).match]

\* "converts", or what keeps the pass from it
LinalgVerdict(f) ==
  LET failures == SelectSeq(LinalgOutcomes(f), LAMBDA m : m \in {"refuses", "crashes"})
  IN CASE failures # <<>>                         -> Head(failures)
       [] "rejected" \in ToSet(LinalgOutcomes(f)) -> "rejected"
       [] OTHER                                   -> "converts"

ConvertTorchToLinalg(f) == ConvertOps(f, Aten, LAMBDA op, in : LinalgPattern(f, op, in).ops)

-----------------------------------------------------------------------------
\* ConvertTorchToStd

\* Faulty: the rank, an index, is the result.
ConvertDimNoCast(op, in) == <<Op(At(op, 1), "rank", in, Plain("index"))>>

ConvertDim(op, in) ==
  <<Op(At(op, 1), "rank", in, Plain("index")), Op(At(op, 2), "index_cast", <<At(op, 1)>>, Plain("i64"))>>

ConvertStdOp(op, in) ==
  LET As(name) == <<[Op(At(op, 1), name, in, Converted(op.type)) EXCEPT !.value = op.value, !.symbol = op.symbol]>>
  IN CASE op.name = "dim"             -> ConvertDim(op, in)
       [] op.name = "ne"              -> As("cmpi ne")
       [] op.name = "gt"              -> As("cmpi sgt")
       [] op.name = "vtensor.literal" -> As("dense")
       [] op.name \in {"int", "bool"} -> As("constant")

ConvertTorchToStd(f) == ConvertOps(f, {"dim", "ne", "gt", "vtensor.literal", "int", "bool"}, ConvertStdOp)

\* ConvertTorchToSCF
ConvertTorchToSCF(f) ==
  ConvertOps(f, {"prim.If", "yield"}, LAMBDA op, in :
    <<Op(At(op, 1), IF op.name = "yield" THEN "scf.yield" ELSE "scf.if", in, Converted(op.type))>>)

-----------------------------------------------------------------------------
\* The canonicalizer of MLIR on what is there: dead ops go (materializations
\* have no NoSideEffect), a rank that is known and what follows from
\* constants is folded.

HasEffect(op) ==
  op.name \in {"return", "scf.yield", "assert_dims", "assert_value", "scf.if", "to_builtin", "from_builtin"}

EraseDead(f) ==
  LET dead == {op \in ToSet(OpsOf(f)) : ~ HasEffect(op) /\ UsersOf(f, op.id) = {}}
  IN IF dead = {} THEN {}
     ELSE {Convert(LAMBDA op : IF op \in dead THEN [ops |-> <<>>, result |-> op.id] ELSE Keep(op), f, <<>>)}

ConstantsOf(f, op) ==
  {c \in [DOMAIN op.operands -> {d.value : d \in {o \in ToSet(OpsOf(f)) : o.name = "constant"}}] :
     \A i \in DOMAIN op.operands :
       \E d \in DefinersOf(f, op.operands[i]) : d.name = "constant" /\ d.value = c[i]}

FoldOp(f, op) ==
  LET To(n) == ReplaceOp(f, op, <<[op EXCEPT !.name = "constant", !.operands = <<>>, !.value = n]>>, op.id)
      live(n) == f.blocks[IF n = 1 THEN "then" ELSE "else"]
      Inline(n) == ReplaceOp([f EXCEPT !.blocks["then"] = <<>>, !.blocks["else"] = <<>>], op, Front(live(n)),
                             IF op.type = NoneType THEN op.id ELSE Last(live(n)).operands[1])
  IN CASE op.name = "rank" -> {To(RankOf(f, op, 1))}
       [] op.name = "index_cast" -> {To(c[1]) : c \in ConstantsOf(f, op)}
       [] op.name = "cmpi ne" -> {To(IF c[1] # c[2] THEN 1 ELSE 0) : c \in ConstantsOf(f, op)}
       [] op.name = "cmpi sgt" -> {To(IF c[1] > c[2] THEN 1 ELSE 0) : c \in ConstantsOf(f, op)}
       [] op.name = "scf.if" -> {Inline(c[1]) : c \in ConstantsOf(f, op)}
       [] OTHER -> {}

BuiltinFoldedOnce(f) == EraseDead(f) \cup UNION {FoldOp(f, op) : op \in ToSet(OpsOf(f))}

-----------------------------------------------------------------------------
\* FuncBackendTypeConversion: arguments and results; an argument keeps its
\* name for its uses, return gets materialized operands.

ConvertSignature(f) ==
  LET New(arg) == IF IsLegalType(arg.type) THEN arg ELSE [arg EXCEPT !.id = Append(@, 9), !.type = Converted(@)]
      changed == SelectSeq(f.args, LAMBDA arg : ~ IsLegalType(arg.type))
      entry == [k \in DOMAIN changed |-> FromBuiltin(changed[k].id, Append(changed[k].id, 9), changed[k].type)]
      Body(op) == IF op.name = "return" THEN Append(Materialize(f, {}, op), [op EXCEPT !.operands = Materials(f, {}, op)])
                  ELSE <<op>>
      body == Convert(LAMBDA op : [ops |-> Body(op), result |-> op.id], f, <<>>)
  IN [body EXCEPT !.args = [i \in DOMAIN @ |-> New(@[i])],
                  !.results = [i \in DOMAIN @ |-> Converted(@[i])],
                  !.blocks["entry"] = entry \o @]

\* FinalizingBackendTypeConversion: the materializations become identities;
\* any other op must be rid of the types that convert.
Materialization(op) == op.name \in {"to_builtin", "from_builtin"}
CanFinalize(f) ==
  \A op \in ToSet(OpsOf(f)) :
    \/ Materialization(op)
    \/ IsLegalType(op.type) /\ \A i \in DOMAIN op.operands : IsLegalType(TypeOf(f, op.operands[i]))

Finalize(f) ==
  Convert(LAMBDA op : IF Materialization(op) THEN [ops |-> <<>>, result |-> op.operands[1]] ELSE Keep(op), f, <<>>)

\* VerifyBackendContract
ContractOps == {"return", "constant", "dense", "index_cast", "cmpi ne", "cmpi sgt", "structured"} \cup TensorOps
VerifyBackendContract(f) == \A op \in ToSet(OpsOf(f)) : op.name \in ContractOps

=============================================================================
