---------------------------- MODULE BackendLowering ----------------------------
(***************************************************************************)
(* The end of createLowerToNpcompBackendPipeline: what comes after         *)
(* VerifyInvariantsBeforeBackendLowering, for one function at a time (the  *)
(* passes are nested in functions, and the calls have been inlined).       *)
(***************************************************************************)
EXTENDS BackendConversion

CONSTANT
  Functions,          \* the functions to be lowered, on ranked vtensors of known dtype
  RuntimeSizes        \* the sizes that a dimension may have at run time

VARIABLES
  optimize,   \* options.optimize
  source,     \* the function as it came
  func,       \* as it is now
  pc          \* the pass to run, "lowered", "failed", or "crashed"

vars == <<optimize, source, func, pc>>

Init ==
  /\ optimize \in BOOLEAN
  /\ source \in Functions
  /\ func = source
  /\ pc = "ConvertTorchToLinalg"

\* Pass `name` gives the function `result` and goes on with `next`.
Pass(name, result, next) ==
  /\ pc = name
  /\ func' = result
  /\ pc' = next
  /\ UNCHANGED <<optimize, source>>

\* Pass `name` signals a failure.
Fails(name, how) == pc = name /\ pc' = how /\ UNCHANGED <<optimize, source, func>>

TorchToLinalgPass ==
  LET verdict == LinalgVerdict(func)
  IN \/ verdict = "converts" /\ Pass("ConvertTorchToLinalg", ConvertTorchToLinalg(func), "ConvertTorchToStd")
     \/ verdict \in {"refuses", "rejected"} /\ Fails("ConvertTorchToLinalg", "failed")
     \/ verdict = "crashes" /\ Fails("ConvertTorchToLinalg", "crashed")

TorchToStdPass == Pass("ConvertTorchToStd", ConvertTorchToStd(func), "ConvertTorchToSCF")

TorchToSCFPass ==
  Pass("ConvertTorchToSCF", ConvertTorchToSCF(func), IF optimize THEN "Canonicalizer" ELSE "FuncBackendTypeConversion")

CanonicalizerPass ==
  \/ \E f \in BuiltinFoldedOnce(func) : Pass("Canonicalizer", f, "Canonicalizer")
  \/ BuiltinFoldedOnce(func) = {} /\ Pass("Canonicalizer", func, "FuncBackendTypeConversion")

FuncBackendTypeConversionPass ==
  Pass("FuncBackendTypeConversion", ConvertSignature(func), "FinalizingBackendTypeConversion")

FinalizingBackendTypeConversionPass ==
  \/ CanFinalize(func) /\ Pass("FinalizingBackendTypeConversion", Finalize(func), "VerifyBackendContract")
  \/ ~ CanFinalize(func) /\ Fails("FinalizingBackendTypeConversion", "failed")

VerifyBackendContractPass ==
  \/ VerifyBackendContract(func) /\ Pass("VerifyBackendContract", func, "lowered")
  \/ ~ VerifyBackendContract(func) /\ Fails("VerifyBackendContract", "failed")

Ended == pc \in {"lowered", "failed", "crashed"} /\ UNCHANGED vars

Next ==
  \/ TorchToLinalgPass
  \/ TorchToStdPass
  \/ TorchToSCFPass
  \/ CanonicalizerPass
  \/ FuncBackendTypeConversionPass
  \/ FinalizingBackendTypeConversionPass
  \/ VerifyBackendContractPass
  \/ Ended

Spec == Init /\ [][Next]_vars

-----------------------------------------------------------------------------
\* What the function may be called with

\* The tensors of a type, with elements of their own.
TensorsOf(arg) ==
  {TensorOf(Tensor(sizes, LAMBDA i : <<arg.id[1], i>>)) :
     sizes \in {s \in [DOMAIN arg.type.know.sizes -> RuntimeSizes \cup ToSet(arg.type.know.sizes)] :
                  \A d \in DOMAIN s : IF arg.type.know.sizes[d] = kUnknownSize THEN s[d] \in RuntimeSizes
                                      ELSE s[d] = arg.type.know.sizes[d]}}

ValuesOf(arg) ==
  CASE arg.type.kind \in {"vtensor", "builtin"} -> TensorsOf(arg)
    [] arg.type.kind = "bool"    -> {Bool(TRUE), Bool(FALSE)}
    [] arg.type.kind \in {"int", "float"} -> {Scalar(1), Scalar(2)}
    [] arg.type.kind = "none"    -> {None}

Inputs(f) ==
  FoldLeft(LAMBDA vs, arg : {Append(v, x) : v \in vs, x \in ValuesOf(arg)}, {<<>>}, f.args)

\* "We prohibit the size-1 dynamic broadcasting scenario", "training is not
\* supported for now", "expect groups to be 1".
Unsupported(f, v) ==
  \E i \in DOMAIN f.args : \E op \in ToSet(OpsOf(f)) :
    \/ op.name \in Elementwise /\ f.args[i].type.kind = "vtensor" /\
         \E d \in DOMAIN v[i].sizes : v[i].sizes[d] = 1 /\ f.args[i].type.know.sizes[d] = kUnknownSize
    \/ op.name = "batch_norm" /\ f.args[i].id = op.operands[6] /\ v[i] # Bool(FALSE)
    \/ op.name = "conv2d" /\ f.args[i].id = op.operands[7] /\ v[i] # Scalar(1)

Alive == pc \notin {"failed", "crashed"}
Uses(f, name) == \E op \in ToSet(OpsOf(f)) : op.name = name

-----------------------------------------------------------------------------
\* Properties

\* What ATen computes for some inputs, the function computes after every
\* pass, or it is stopped by the guard for what is not supported.
ResultsAgree ==
  Alive =>
    \A v \in Inputs(source) :
      LET aten == Outcome(source, v)
          now  == Outcome(func, v)
      IN aten.outcome = "returns" =>
           \/ now = aten
           \/ now.outcome = "aborted" /\ Unsupported(source, v)

\* Inputs that ATen rejects are stopped by a guard: no op of linalg is run on
\* operands that do not fit it ("checks against the undefined behavior").
\* There is no guard for the channels and the kernel size of conv2d.
GuardsProtect ==
  Alive /\ ~ Uses(source, "conv2d") =>
    \A v \in Inputs(source) :
      LET now == Outcome(func, v).outcome
      IN /\ now # "undefined"
         /\ Outcome(source, v).outcome = "error" => now \in {"error", "aborted"}

\* An operand has a type of the dialect its user belongs to, through however
\* many passes the other side of it is converted; what is returned is of the
\* types of the signature; and nothing is left of torch in the end.
Builtins == {"builtin", "i1", "i64", "f64", "index"}
ConversionsLineUp ==
  Alive =>
    LET Of(op) == [i \in DOMAIN op.operands |-> TypeOf(func, op.operands[i])]
        IsStd(op) == op.name \in ContractOps \cup {"rank", "scf.if", "scf.yield"}
    IN \A op \in ToSet(OpsOf(func)) :
         /\ op.name = "to_builtin" => op.type = Converted(Of(op)[1]) /\ ~ IsLegalType(Of(op)[1])
         /\ op.name = "from_builtin" => Of(op)[1] = Converted(op.type) /\ ~ IsLegalType(op.type)
         /\ op.name = "return" => Of(op) = func.results
         /\ op.name \in {"cmpi ne", "cmpi sgt"} => Of(op) = <<Plain("i64"), Plain("i64")>>
         /\ op.name \in {"scf.yield", "yield"} =>
              \E if \in ToSet(func.blocks["entry"]) :
                if.name \in {"scf.if", "prim.If"} /\ \A i \in DOMAIN Of(op) : Of(op)[i] = if.type
         /\ ~ (Materialization(op) \/ op.name = "return") =>
              \A i \in DOMAIN op.operands : Of(op)[i].kind \in Builtins <=> IsStd(op)
         /\ pc = "lowered" => op.type.kind \in Builtins \cup {"none"}

\* "The compiler cannot crash even if the user wrote an erroneous program!"
CompilerDoesNotCrash == pc # "crashed"

=============================================================================
