----------------------------- MODULE TorchLowering -----------------------------
(***************************************************************************)
(* createLowerObjectGraphPipeline from AdjustCallingConventions on, up to  *)
(* the check before the conversions to linalg and std.  The passes on the  *)
(* whole module are one step each; a pass that drives patterns greedily    *)
(* applies one pattern in one function at a time.                          *)
(***************************************************************************)
EXTENDS TorchCanonicalize

CONSTANT Modules   \* the modules to be lowered

VARIABLES
  optimize,   \* options.optimize
  source,     \* the module as it came
  module,     \* as it is now
  pc          \* the pass to run, "lowered", or "failed"

vars == <<optimize, source, module, pc>>

Init ==
  /\ optimize \in BOOLEAN
  /\ source \in Modules
  /\ module = source
  /\ pc = "AdjustCallingConventions"

\* Runs pass `name`, which fails unless `possible`, and goes on with `next`.
Pass(name, possible, result, next) ==
  /\ pc = name
  /\ IF possible THEN module' = result /\ pc' = next
     ELSE pc' = "failed" /\ UNCHANGED module
  /\ UNCHANGED <<optimize, source>>

\* One pattern or fold of the greedy pass `name`; when none is left, `next`.
Greedy(name, Once(_), next) ==
  /\ pc = name
  /\ \/ \E n \in DOMAIN module.funcs : \E f \in Once(module.funcs[n]) :
          module' = [module EXCEPT !.funcs[n] = f] /\ UNCHANGED pc
     \/ /\ \A n \in DOMAIN module.funcs : Once(module.funcs[n]) = {}
        /\ pc' = next
        /\ UNCHANGED module
  /\ UNCHANGED <<optimize, source>>

IfOptimize(pass, otherwise) == IF optimize THEN pass ELSE otherwise

AdjustCallingConventionsPass ==
  Pass("AdjustCallingConventions", \A n \in DOMAIN module.funcs : CanAdjust(module.funcs[n]),
       AdjustCallingConventions(module), IfOptimize("InlineGlobalSlots", "ReduceOpVariants"))

InlineGlobalSlotsPass ==
  Pass("InlineGlobalSlots", TRUE, InlineGlobalSlots(module), "ReduceOpVariants")

ReduceOpVariantsPass ==
  Pass("ReduceOpVariants", TRUE, ReduceOpVariants(module), IfOptimize("Canonicalizer", "RefineTypes"))

CanonicalizerPass == Greedy("Canonicalizer", CanonicalizedOnce, "RefineTypes")

RefineTypesPass == Pass("RefineTypes", TRUE, RefineTypes(module), "RefinePublicReturn")

RefinePublicReturnPass ==
  Pass("RefinePublicReturn", CanRefineReturn(module), RefinePublicReturn(module), "MaximizeValueSemantics")

MaximizeValueSemanticsPass ==
  Greedy("MaximizeValueSemantics", LAMBDA f : MaximizedOnce(f) \cup FoldedOnce(f),
         IfOptimize("SecondCanonicalizer", "VerifyInvariants"))

SecondCanonicalizerPass == Greedy("SecondCanonicalizer", CanonicalizedOnce, "VerifyInvariants")

VerifyInvariantsPass == Pass("VerifyInvariants", BackendInvariants(module), module, "lowered")

PassNext ==
  \/ AdjustCallingConventionsPass
  \/ InlineGlobalSlotsPass
  \/ ReduceOpVariantsPass
  \/ CanonicalizerPass
  \/ RefineTypesPass
  \/ RefinePublicReturnPass
  \/ MaximizeValueSemanticsPass
  \/ SecondCanonicalizerPass
  \/ VerifyInvariantsPass

Ended == pc \in {"lowered", "failed"} /\ UNCHANGED vars

Next == PassNext \/ Ended

\* The pass manager runs pass after pass on one thread: weak fairness of
\* PassNext, which can run until the pipeline ends, written without ENABLED.
Spec == Init /\ [][Next]_vars /\ ([]<><<TRUE>>_vars \/ []<>(pc \in {"lowered", "failed"}))

-----------------------------------------------------------------------------
\* Properties

\* What the passes take for granted of a program: its calls succeed (what an
\* overwrite with other sizes does is undefined), it does not write in place
\* to the tensor of a slot that is inlined (every read of the slot becomes a
\* tensor of its own), extends no list (`len` is folded whoever uses the
\* list), and does not find None to be None (which is folded to false).
WithinAssumptions(m, flag) ==
  LET Assumed(second) == /\ \A s \in Inlined(m) : Loaded(m).slots[s].ref \notin second.written
                         /\ second.noted = {}
                         /\ ~ second.failed
  IN Assumed(CallMain(m, CallMain(m, Loaded(m), flag), flag))

\* Whatever passes have run, and in whatever order a pass applied its
\* patterns, two calls of `main` return what they returned at first, and
\* leave in the slots what they left.
MeaningPreserved ==
  pc # "failed" =>
    \A flag \in {Bool(TRUE), Bool(FALSE)} :
      WithinAssumptions(source, flag) => Meaning(module, flag) = Meaning(source, flag)

\* An operand is an argument or defined before, in the block or around it.
UsesAreDominated ==
  \A n \in DOMAIN module.funcs :
    LET f == module.funcs[n]
        Before(b, k) == {f.blocks[b][j].id : j \in 1 .. k - 1}
        Around == UNION {Before("entry", k) : k \in {j \in DOMAIN f.blocks["entry"] :
                                                       f.blocks["entry"][j].name = "prim.If"}}
    IN \A b \in DOMAIN f.blocks : \A k \in DOMAIN f.blocks[b] :
         ToSet(f.blocks[b][k].operands) \subseteq
           {f.args[i].id : i \in DOMAIN f.args} \cup Before(b, k) \cup (IF b = "entry" THEN {} ELSE Around)

\* The verifiers of the copies, of the return and of the calls accept a module.
TypesAgree(m) ==
  \A n \in DOMAIN m.funcs :
    LET f == m.funcs[n]
        Of(op) == [i \in DOMAIN op.operands |-> TypeOf(f, op.operands[i])]
        Params(g) == [i \in DOMAIN g.args |-> g.args[i].type]
    IN \A op \in ToSet(OpsOf(f)) :
         /\ op.name = "copy.to_tensor" => Of(op) = <<getWithValueSemantics(op.type)>>
         /\ op.name = "copy.to_vtensor" => Of(op) = <<getWithoutValueSemantics(op.type)>>
         /\ op.name = "return" => Of(op) = f.results
         /\ op.name = "call" =>
              Of(op) = Params(m.funcs[op.symbol]) /\ op.type \in ToSet(m.funcs[op.symbol].results \o <<NoneType>>)

VerifierAccepts == pc # "failed" => TypesAgree(module)

\* Neither of the two things that give a user a value of another type: a
\* write in place, whose result and later contents are those of another op,
\* and a slot read for a user that insists on its type.
KeepsTypes(m) ==
  \A n \in DOMAIN m.funcs : \A op \in ToSet(OpsOf(m.funcs[n])) :
    /\ op.name # "add_"
    /\ op.name = "slot.get" /\ op.symbol \in Inlined(m) =>
         \A user \in UsersOf(m.funcs[n], op.id) : allowsTypeRefinement(user)

\* After every pass and every pattern the module is one MLIR accepts.
ModuleIsValid ==
  pc # "failed" => UsesAreDominated /\ (KeepsTypes(source) => TypesAgree(module))

\* The patterns do not go on for ever.
LoweringEnds == <>(pc \in {"lowered", "failed"})

=============================================================================
