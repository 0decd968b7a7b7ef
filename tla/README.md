# A TLA+ development of npcomp

npcomp is a compiler from numerical Python (TorchScript modules, traced numpy
programs) to MLIR, with a reference backend and a small run-time library.  This
directory holds TLA+ modules that model the parts of it that carry state and
algorithms of their own, TLC configurations that check them on small instances,
and theorems about them that TLAPS proves for every instance.

## Inventory: the system and what is hard about it

| part | state | operations | interacts with | what can go wrong |
| --- | --- | --- | --- | --- |
| ACAP dispatch, `FuncBuilder` | activation stack per thread, tensor map, has-returned flag, constant area of a block | enter, exit, dispatch, return | PyTorch's dispatcher, several threads | kernels that call kernels, throw or write what has been mapped; results mapped to the wrong tensors |
| `IValueImporter`, `ClassAnnotator` | value map, storages seen, class types, annotations | recursive import | builds the input of the globalization | sharing and identity, recursion, annotations out of step |
| node and function importer | scoped value maps | import blocks, derefine | called by the importer | scoping, types of block results, where a cast goes |
| `GlobalizeObjectGraph` | linkage maps, global slots, monomorphization worklist, clones | traverse, verify, monomorphize, clone, rewrite, erase | consumes what the importer builds; the later passes see only its globals | fixed point over mutually recursive functions, aliasing of initial values, names that must be unique, rewriting clones that call each other in hash order |
| `AdjustCallingConventions`, `InlineGlobalSlots`, `ReduceOpVariants`, `RefinePublicReturn`, `MaximizeValueSemantics`, canonicalization | the IR | rewriting | after globalization, one after the other | aliasing and mutation: the rewrites must keep what a program can observe; callers and callees in step; rewrites that undo each other |
| `RefineTypes` | dataflow facts per value | transfer functions, join, update types, cast | between them | claiming facts that are false, a join that does not climb its lattice, users that cannot take a new type |
| `TorchToLinalg`, `TorchToStd`, `TorchToSCF`, `BackendTypeConversion`, `VerifyBackendContract` | the IR | op-by-op conversion with guards | the backend contract | broadcasting and ranks, guards by hand for undefined behaviour, casts between half-converted parts |
| `LowerToRefbackrtABI`, `LowerToLLVM` | metadata ops, globals | rewriting | the runtime, by the layout of data | three encodings of one signature |
| `refbackrt` runtime (`JITModule::invoke`, `invoke`) | buffers, descriptors, packed argument arrays, result values | check, create outputs, pack, call, copy out, free | generated wrapper code and metadata | ownership under arbitrary aliasing of returned memrefs, agreement between two code bases, refused calls |
| `Ref<T>`, `RtValue` | atomic counts, pointers | copy, move, assign, swap, destroy | shared by all users of the runtime, from several threads | last-reference races, self-assignment, leaks |
| CPA type inference | constraint graph, member sets, worklists | add constraint, propagate, close, resolve | ops through an interface, IR types | convergence, order independence, soundness of the verdict |
| Basicpy type inference | equations, substitutions | unify | the numpy path | order |
| TCF/TCP conversions and bufferize, other dialects, C API, bindings, Python frontends, code generation | none, or Python environments | | | mostly stateless |

`PROJECT.json` lists every component with its status, and under `hazards` what
is hard to test in this code, each at its line with the properties that cover it.

## The modules

### Object-graph globalization

    TorchProgram      the IR the pass consumes, as data; constants and shared state
    ObjectGraphInfo   class ObjectGraphInfo: the traversal, names, global slots
    Monomorphization  class MonomorphizationTracker: the worklist
    GlobalizeObjectGraph   the pass: composes the two, verifies, clones, rewrites
    TorchExecution    what running a function does, before and after the pass
    MCGlobalize       programs for TLC
    GlobalizeObjectGraphProofs   theorems about the pass
    InductionLemmas   induction and recursion on the natural numbers, for all the proofs

`ObjectGraphInfo` and `Monomorphization` each own their variables and leave the
others to `GlobalizeObjectGraph`, whose `PassNext` conjoins `UNCHANGED` of the
other part.  `pc` is the step of `globalizeObjectGraph` that executes; `error`
means that the pass failed with the diagnostic `diag`, `assert` that an
`assert()` of a build with assertions failed.  The C++ recursion of
`recursivelyTraverse` is the explicit stack `frames`.  One action is one slot
visited, one function initialized, one worklist entry popped, one op walked, one
clone made or rewritten.  The order in which clones are rewritten is that of a
`DenseMap`, so any.  Names are sequences of components where the code joins them
with dots (attribute names hold no dot).  The verifier that runs when the pass is
over is part of its last step: it refuses a module with two functions of one name.

What is abstracted: ops other than attribute accesses and calls are `other`
(a result and operands); regions are flattened in walk order, as the analyses of
the pass do; types are a class name or another string.

`ProgramsWellFormed` assumes what the op verifiers and the symbol table
guarantee before the pass runs: slots of module type hold instances of their
class, an op has the operands and the result that its definition gives it, and
callees are functions of the module that are called with arguments of the types
of their parameters.

### The passes on tensors

    TorchFunction      functions of the torch dialect, and what running them does
    TensorPasses       the passes, each a map from modules to modules
    TorchCanonicalize  folders and patterns of the Torch ops
    TorchLowering      the pipeline: from AdjustCallingConventions to VerifyInvariants
    MCTorchLowering    modules for TLC

The pipeline is the state machine: `module` is rewritten, `pc` is the pass.  A
pass over a whole module is one step; a pass that drives patterns greedily
applies one pattern, in any place, per step, so the order of rewrites is free.
`optimize` is chosen first and selects passes as `options.optimize` does.
`Meaning` runs `main` twice on two tensors with storages that alias through views
and slots; sizes and contents are symbolic where nothing depends on them.
SymbolDCE and the inliner are MLIR's and are left out: calls stay calls.  What is
known of a literal is `LiteralKnow` of its symbol, the type of its attribute; the
type of a `torch.tensor.literal` may say less, and then `ReduceLiteral` has the
cast of `copyTensorToType` between the two.

### The conversion to the backend contract

    LinalgExecution    what a function computes, ATen, linalg, std and scf ops mixed
    TorchToLinalg      the patterns of TorchToLinalg.cpp
    BackendConversion  the other passes: TorchToStd, TorchToSCF, type conversion, contract
    BackendLowering    the pipeline
    MCBackendLowering  functions for TLC

Tensors are real here: sizes, and at each index a term over the elements of the
arguments.  A sum is a set of products, in which a product with a padding zero is
left out.  A pattern converts, refuses, crashes (a failed cast or `assert` of
the compiler), or makes what the verifier rejects when the pass is over, such as
`math.tanh` of an integer.  A guard that fails aborts the function; linalg ops on
operands that do not fit are undefined, and MLIR's folding of dimensions is
allowed to take place or not.

### The reference backend

    RefbackrtABI       types, argument checks, the parameters a wrapper loads
    RefbackrtLowering  metadata, descriptors and globals, and how they are read back
    RefbackrtInvoke    Compile, then one call: JITModule::invoke and refbackrt::invoke
    MCRefbackrtInvoke  modules and calls for TLC
    SharedReferences   what Ref<T> and RtValue promise
    RefCount           how they keep it, with several threads
    RefCountProofs, RefbackrtInvokeProofs   theorems about them

`RefbackrtInvoke` begins with a module of several functions, which is compiled
to one constant pool of shapes per side with offsets into it.  Memrefs have an
element type, which the metadata records for f32 only and which the runtime does
not read: to it every memref is one of F32.  The call then has one variable
`pc` for the loops of the two functions in order and `idx` for their index.
`mem` is the set of live allocations with a symbolic content; an allocation is
named by what it is made for.  The compiled function is nondeterministic: it may
write any input buffer and return any combination of input buffers, new buffers
(shared or not) and static data.  A call whose wrapper would load a parameter
that is not the argument packed for it ends in `undefined`; so does a read of a
descriptor that was never set, and a function with more than `kMaxArity`
arguments.  What is returned in a memref of wider elements is copied in part.
Freeing an address that is not live either goes unnoticed or ends in
`abort`.

`RefCount` has one step per access to the shared count or pointer, so that
threads interleave inside an assignment.  Handles belong to one thread at a
time (a `Ref` itself is not atomic) and can be given to another.
`SharedReferences` is the abstract specification: no counts, and a copy, a move
or a drop is one step.  `RefCount` instantiates it with `RefMapping`, which
reads the reference of a handle or, for the one a thread is about to drop, of
the thread, and `StateMapping`: an object is freed when the count has fallen to
zero, not when `delete` runs.

### CPA type inference

    CPA               constraint graph, propagation, closure, resolution
    MCCPA             functions for TLC
    CPAProofs         theorems

A constraint is a pair of nodes.  `getConstraint` propagates before it returns,
which is the `caller` variable.  The sets are sets of pointers: any order.

### Type refinement

    ValueKnowledge    facts, their join, the transfer functions, what a fact claims
    RefineTypes       the analysis and the rewriting
    TensorExecution   which tensors a program computes
    MCRefineTypes     programs for TLC
    RefineTypesProofs theorems

A program is a sequence of ops over numbered values.  The places where control
flow meets are ops that join their operands: a block argument, the results of
`prim.If`, the body arguments and results of `prim.Loop`.  MLIR's
`ForwardDataFlowAnalysis` drives the analysis and is not in this repository; it
is modelled by what the pass relies on: something is visited when a fact it uses
has changed, in any order.  `getSuccessorRegions` of the ops decides what flows
where.  `optimize` walks the ops once; `form` records which users take the value
itself, which get it through a cast.

`TensorExecution` runs the same programs on tensors that are sizes and a dtype
and is the reference for the facts: both branches of a `prim.If`, loops with any
number of iterations and any branch to a block are executed, so a value has a
set of tensors.  An op the analysis does not understand gives any tensor of
`Others` that its type claims; an int operand that is not constant has any value
of `Dims`.

### The importer

    ClassAnnotator        exports and argument types a user adds to classes
    IValueImporter        the import of an object graph, and the calls before it
    NodeImporter          the import of a function's graph: nodes, blocks, types
    ImportedFunctions     the two together, and what is asked of the functions
    IValueImporterProofs  theorems
    MCImport              object graphs, annotations and graphs for TLC

`IValueImporter` extends `ClassAnnotator`: the user makes calls, then an import.
The C++ recursion of `importIValue` is the stack `frames`; one action enters an
IValue, returns one that is known or leaves one.  The module that is being built
is the sequence `block`, operands are positions in it.  An exception unwinds the
stack frame by frame, because the guard in `importModule` inserts the unfinished
module on the way out.  Constants are leaves of one kind.  `WorldsWellFormed`
assumes what PyTorch guarantees of slots and compilation units, and that no
object contains itself: the code would recurse without end.

A function is imported by one recursive call that calls nothing back, so
`NodeImporter` is an operator; it makes a function of the IR with blocks,
regions, values and their types, or says that the import throws.  The
functions that `IValueImporter` takes for unimportable are those
(`UnimportableFunctionsThrow`, which TLC evaluates).

### Capture

    FuncBuilder       the function under construction: block, constant area, tensor map
    AtenKernels       kernels below the capture: fresh tensors, views, writes
    AcapDispatch      contexts, kernels, returns, on several threads
    MCAcap            kernel calls for TLC
    AcapDispatchProofs  theorems

A kernel maps its operands, redispatches, and records itself when the real
kernel is back: these are separate steps, and the stack `frames` of a thread is
that of kernels that call kernels.  A kernel may write its operands, return views,
throw, or return what cannot be recorded.  A list is mapped element by element,
lists in it too (one level; the code recurses), and an element that cannot be mapped
gives the list a null operand: only an argument of the kernel itself is refused for
that.  Threads share the heap; a controller is
used by one thread at a time, because the class has no lock.

## What TLC checks

| run | instance |
| --- | --- |
| `globalize` | 144 object graphs of a root and two children, 30 pairs of mutually recursive functions, a diamond, private methods that are called with one receiver and two other instances, rejected programs |
| `import` | a root and a submodule that hold every pair of 11 kinds of data, which share objects and storages; lists of modules, two compilation units; every 3 calls of the annotator on 4 classes; functions with ifs, loops, each in the other, calls, lists and tuples, on arguments and results that are optional or not; functions that cannot be imported |
| `acap` | 2 threads, 2 controllers, 2 kernels of 15 kinds, with lists, lists of lists and lists of what cannot be mapped, on every tensor there is, contexts nested 2 deep |
| `torch_lowering` | `main(x, y, flag)` with two ops out of calls, views, in-place ops, literals with and without sizes and slot accesses, an op in a branch of an `if`, every condition that canonicalization can decide, a callee with a `None` argument; with and without optimization |
| `to_linalg` | each supported op on operands of rank up to 3 (4 for convolution and pooling), every extent known or not, run-time extents 1 to 3; two ops in a row; a branch; and what a user can get wrong |
| `refine_types` | every chain of two ops over arguments of rank up to 2 and two dtypes, with constant, out-of-range and unknown dimension numbers, two-way branches, `if`s, loops, copies and calls |
| `cpa` | every function with up to 3 equations over 4 nodes, with and without arrays |
| `invoke` | vectors with up to 2 inputs and 3 outputs under every aliasing, all shapes of rank up to 2, every kind of value for every kind of parameter, scalars before and after memrefs, memrefs of `i64`, arities around `kMaxArity` scaled to 4; modules of two functions with every pair of 11 signatures, ranks up to and above `kMaxRank` |
| `ref_count` | 2 threads, 3 handles, 2 objects |
| `invoke_buffers`, `refine_types_claims`, `to_linalg_crash` | one documented promise each that the code does not keep |

The bounds are chosen so that the interesting cases occur: two instances of one
class and two module-typed arguments are what it takes for two monomorphizations
of one function and for recursion with other instances; three outputs are what
it takes for a buffer to be shared by an input and by two earlier outputs; two
threads and three handles for two racing drops of the last two references while
a third handle is being assigned; three equations for a cycle between two
unknowns with a known type; two ops, a join and its users for a fact that has to
be found again and for a user that sees a fact change; three annotator calls for
one that fails half way between two others, and for exporting nothing, then
something, then nothing again; two kernels for one that is called by the other or
that writes what the other has mapped; two ops on three tensors for a view that is
written through; extents up to 3 for one that is 1, one that fits and one that does
not.

### Globalization

* `MonomorphizationsLeast`: the worklist computes the least set of
  monomorphizations closed under calls.
* `GlobalSlotsMirrorObjectGraph`, `InitializersDoNotAlias`: the description's
  promise on names, unique paths, initial values and their aliases.
* `CallsBindToTheirCallee`: the assertion of `handleCall` holds, and in what the pass
  gives out a call names one function, the right one.  Two clones of one name are
  always of a private method, one receiver and other instances; a call of either
  could bind to the wrong one, and the module is refused.
* `ExecutionPreserved`: every clone does to the global slots what the original did to the object
  graph, in order, calls included.  `MaxCallDepth` cuts recursion at the same
  depth on both sides.
* `Termination`, under weak fairness of the pass: one thread that runs until it
  returns.

### Import

* `ImportedGraphIsIsomorphic`: every object is one op, whose operands are the ops
  of what the object consists of, by whichever path and however often it was
  reached.
* `SharedStorageIsRejected`: an import succeeds only if no two tensors share a
  storage and fails for that reason only if two do.
* `ModulesVerify`: nothing refers to a later op, also in what an abandoned import
  leaves behind; classes, methods and slots are as the verifiers of
  `TorchOps.cpp:54-155` want them, so that the next pass gets a module that
  exists.
* `FunctionsStandForTheirGraphs`: in an imported function types agree at every use
  and values are in scope, and without derefines it is the graph it came from.
* `AnnotationsAreAsAsked`: the annotations that reach the IR are what the calls
  say, call by call, stated over instances and paths where the code works on
  classes.
* `DiagnosticPathLeads`: the path that a refusal gives leads to what was refused.
* `Termination`, under weak fairness of `ImportNext`: the user comes to the
  import, which is one thread that runs until it returns or throws.

### Capture's properties

* `CaptureFaithful`: replaying a captured function gives the contents the program
  had in the tensors it returned.  It leaves out functions during which a write
  went unrecorded (another thread's, or a kernel's without a context), kernels
  recorded after the return, arguments or literals that alias each other, and lists
  with a null operand, which compute nothing.
* `BlockIsWellFormed`: three insertion points, and still definitions come first and
  the return is last.  The null operands of lists are let be; whether MLIR's C API
  survives one is not a matter of this repository.
* `CapturesIntoTheInnermost`: what is recorded goes to the controller that is
  innermost on the thread that runs the kernel, the one whose call stack moves.

### The lowering

* `MeaningPreserved`: after every pass and pattern two calls of `main` return and
  leave in the slots what they did.  `WithinAssumptions` names what the passes
  take for granted.
* `ModuleIsValid`: the verifiers accept the module after every step, provided that
  (`KeepsTypes`) no in-place op and no inlined slot gives a value another type.
* `LoweringEnds`: greedy canonicalization does not go on for ever.  The assumption
  is that the pipeline goes on while it can, written as `[]<><<TRUE>>_vars`.
* `ResultsAgree`: a converted function computes what ATen computes, or a guard
  stops it for one of the three reasons the comments give.
* `GuardsProtect`: what ATen rejects is stopped, and linalg is never run on what
  does not fit it.  Not for convolutions, which have no such guard.
* `ConversionsLineUp`: through all passes each op has operands of its side, casts
  convert exactly, and in the end nothing of torch is left.

### Runtime

The first three are exact, since the code keeps its promises in part: each says
what holds and where it ends, and neither more nor less is true.

* `MetadataArrives`: what the runtime reads of a function is its signature, but for
  the element type of memrefs, which is always F32.
* `ArgumentsConform`: a call of the right arity is carried out exactly when each
  argument has the type, element type, rank and extents of its parameter or is one
  of those that `LetThrough` names (`Runtime.cpp:453` tests two tags of six).
* `ArgumentsArrive`: a parameter is the argument packed for it exactly when no
  parameter before it is a scalar and the argument is of its type.
* `OwnershipKept`: the caller's tensors stay, results (of f32) are copied before
  anything is freed, every descriptor is freed once.
* `RefCountExact`, `ImplementsSharedReferences`, `NoLeak`.  `NoLeak` assumes that a
  thread that has begun an operation goes on with it (weak fairness of
  `Continue(t)`); beginning an operation is never required.

### CPA

* `MembersFlow`: no type is made up.  `VerdictRight`: what the resolver decides
  is right.  `Termination`, under weak fairness of the pass.

`VerdictRight` claims that success means an unambiguous type only for functions
in which nothing flows into a known type: otherwise the overwritten flag (see
below) can hide the second candidate, for example in
`<<i32,t>>, <<t,i32>>, <<f64,u>>, <<i32,f64>>`.

### Type refinement

* `CertainClaimsAreTrue`: a fact is true of every tensor the value can be, in
  every execution.  `FactsAreUpToDate`: the facts found are a fixed point,
  whatever the order of the visits.
* `UsersKeepTheirTypes`: an op whose verifier does not allow refinement sees the
  types it had.  `CopiedResultTypesAgree`: the operand and the result of a copy
  are refined together, although each is rewritten by itself.
* `Termination`, under weak fairness of the pass, one thread that runs until it
  returns.

The first two are about values that depend on no *guess*: where different facts
meet, where the dtype of one operand is taken for that of both, and `lerp`, which
reads its third operand from its second.  There the claims may be false; that is
the run `refine_types_claims`.

## Where the code and its documentation disagree

Three of them have a run of their own:

* `invoke_buffers`: the inverted test on `bufferNeedsFreeing` at `Runtime.cpp:318`.
  The run has one call with one vector in and out; the copy made of the input, which
  the result does not share, is never freed.
* `refine_types_claims`: an `if` that yields a tensor with sizes or one without is
  claimed to have the sizes (`RefineTypes.cpp:95`), whichever is yielded first.
* `to_linalg_crash`: `aten.linear` without a bias, whose `None` is cast to a tensor
  type (`TorchToLinalg.cpp:493`).

Others were met while modelling and follow from the same modules.

*Globalization.*  Two monomorphizations of one private method that differ in a later
argument get the same symbol (`GlobalizeObjectGraph.cpp:602`), and the program is
refused by the verifier without a diagnostic of the pass; a public method of a
class with several instances that nothing calls is dropped without a diagnostic
(`:329`); an instance that is an element of a tuple passes
`verifyFuncConformsToSubset` and trips the assertion that says it cannot.

*Import.*  Leaving any module clears `rootModuleName`, so a refusal after a
submodule gives no path, or the name of another module as the root; `exportNone`
does not enter lists of modules; the type of an argument annotation is documented
as a 2-tuple (`annotations.py:49`), but `fillArgAnnotations` reads a third element
and throws when it is not there, after it has stored the first two.  Operands of
list and tuple constructions are not derefined, which the verifier of lists asks
for; a list or an optional of a type that cannot be mapped wraps a null type
(`torch_to_mlir_utils.cpp:171-187`); the callee's types are null where a method's
schema has such a type (`node_importer.cpp:202-204`).

*Capture.*  Kernels with wrappers of their own (`acap_dispatch.cpp:180`, `:246`,
`:321`) never ask whether the function has returned, although the check says
"Function has already returned"; `resultCount` counts tensors only; an element of
a list that cannot be mapped becomes a null operand of the list
(`:465-472`), where as an argument it would be refused; list results are
memorized as literals; boolean tensors are read as ints.

*Tensor passes.*  `aten.__is__` of two Nones is folded to false
(`TorchOps.cpp:338`, against its comment); inlining a slot whose value is written
in place changes what is computed, and gives the value another static type;
`ReduceTrailingUnderscore` gives the result of an in-place op the other's type; the
length of a constructed list is folded whoever extends it; `aten.size` is erased by
a pattern that then fails; a dropped `None` operand leaves a null operand.

*Lowering.*  A batch norm without weight, bias or running statistics fails the same
kind of cast (`TorchToLinalg.cpp:326-329`); `mm` of integer matrices builds a float
attribute of an integer type (`:454`), and `tanh` of integers a `math.tanh` that
does not verify (`:595`); the padding of a convolution may be matched as an
empty list when it is not constructed from constants; there is no guard on the
channels and the kernel of a convolution, and a kernel that is one larger than the
padded input gives an empty tensor; the third operand of `lerp` may have a higher
rank; `scf.if` never meets the backend contract, and without `optimize` neither do
functions with lists, `None` or ranks.

*RefBackend.*  The test on the buffers of the outputs (`Runtime.cpp:293`) is inverted
too: the buffer of an output that shares it with none leaks, one that three outputs
share is freed twice.  A signature that mixes a ranked memref with a scalar or an unranked
one gets a `memref.cast` that does not verify (`LowerToRefbackrtABI.cpp:357`);
whether a signature can be expressed is asked after the assertions that need it;
a single `f64` result asserts (`LowerToLLVM.cpp:635`); `i64` memrefs get the
element type that the runtime takes for F32.  In a call the slot of a packed
argument is `2 * i` although a scalar needs one slot and not two, so what follows a
scalar arrives wrong (`Runtime.cpp:230`); four of the six tags are not
checked (`:453`, against `UserAPI.h:387-391`); the scan of the output clean-up follows the descriptor of a
scalar output; the temporary of every tensor output leaks; a static extent of 0 is
treated like a dynamic one; a call with exactly `kMaxArity` arguments aborts.

*CPA.*  `modified` is overwritten (`Types.cpp:182`), so that the propagation can
stop early; `fromContents` holds a reference into a map that grows (`:172`).

*RefineTypes.*  A `prim.Loop` that runs no iteration results in its initial values,
which `getSuccessorRegions` does not forward to the results; the type of a block
argument is never changed, so a copy of one has an operand and a result that differ
once the result has been refined; the join takes the more informative of two facts,
so it is no join of the lattice whose order is information.

## What TLAPS proves

Each module of proofs holds for every value of the constants that meets the
named assumptions of the module it is about; TLC evaluates those on every run.
A theorem of the form `Hypothesis => (Spec => []P)` needs more of the inputs than
the code guarantees, and says what; the hypothesis is an operator of the module of
proofs, and below it says where it comes from and which inputs of the runs meet it.

`InductionLemmas` is what the other modules rest on wherever a definition is
recursive: induction over the natural numbers stated for sets (`SetInduction`), the
existence of a recursive function on all of them (`Recursion`) or on a finite interval
(`FiniteRecursion`), and the closure that a worklist computes as the least set
that is closed under a step.

`GlobalizeObjectGraphProofs`, from `ProgramsWellFormed`:

* `TypeCorrect`: `Spec => []TypeOK`.  The parts that are not trivial: the stack is
  not empty while it is traversed, and every monomorphization maps its
  module-typed arguments to instances, which rests on what the fold of
  `AnalyzeInstances` yields.
* `ClosedUnderCalls`: that the set is closed under calls is not inductive; `WorklistInv`
  accounts for every member of the set as dirty, being walked (with the ops
  before `nextOp` accounted for) or finished.
* `LeastFixpoint`, which is `MonomorphizationsLeast`: from `NeededInv`, which adds that what is dirty or current is
  in the set.
* `HandleCallFindsClone`: from `WorklistInv` and `ClonesInv`, which says that the
  clones are those of the first `nextClone - 1` monomorphizations.
* `NoAliasing`: from `AliasInv`, which says that a value with identity in an
  initializer has been recorded and is in no other initializer.
* `SlotsMirrorGraph`: that the global slots are the attribute slots of the graph.
  `GraphInv` says that the stack of the traversal is a path from the root, that
  every instance seen but the root was come to from one that had been seen,
  through a slot that is behind the traversal and whose name ends its path, that no
  two have one path, and that what a slot behind the traversal holds has been seen
  or is a global slot.  At the end every slot of what has been seen is behind it.
  `InitializersInv` says that an initializer is closed under operands and grows from
  what its slot holds: the search that makes it runs as many rounds as there are
  values, which is enough for any chain of operands.
* `CallsBind`: that a call names the function cloned for it.  `NamesInv` says whose
  clone a name is, `BodiesInv` what the rewritten bodies call, `PublicInv` that
  no two public functions have one name, `PhasesInv` which of these hold when.
  Every clone of a method is given the method's linkage name
  (`GlobalizeObjectGraph.cpp:586-610`).  `verifyPublicMonomorphizations` rejects two
  clones of a public one; two clones of a private method, for one receiver and
  different further instances, have one name.  `NamesClash` proves that no others
  do, whatever the program, and `UniqueInv` that a module with two functions of one
  name does not leave the pass.

`RefCountProofs`, from `RefCountAssumption`, for any number of threads, handles
and objects: `RefCountTypeCorrect`, `CountsAreExact`, `LastReferenceFrees`,
`NothingDangles`.  All follow from one inductive invariant.  Between the access
that takes a reference and the one that stores it the reference is in a register
of the thread, so `RefCountExact` counts those too; `ThreadsOK` says what each
register holds at each step.  `CountedLive` says that what is counted is live.
The counts alone are not inductive: an object that has been allocated and not yet
counted, or whose count has reached zero and that is about to be freed, is known
to one thread only; `SoleInv` says that it is live, not counted, and that no
second thread is in that position.  `RefCountRefines`, that `RefCount` implements
`SharedReferences` under `RefMapping` and `StateMapping`: the initial states map to
initial states, and every step to a step or a stutter.  An increment that has
been made shows the new reference at once, a decrement shows it dropped, an object
is freed in the step in which a thread finds its count to be zero.  The steps rest
on the invariant: that the abstract object has no reference left when it is freed
is what `RefCountExact` says of a count of zero.

`RefbackrtInvokeProofs`, from `CallsAssumption`, for every module and every call:

* `InvokeTypeCorrect`: in each phase the allocations have names of its kind and an
  output is a float, or a tensor at its placeholder or at its result.
* `MetadataArrivesCorrect`: from `MetadataInv` and lemmas about the constant pool: the
  shapes of a function are found at its offset because the offsets are the
  lengths of what was appended before.
* `ArgumentsConformCorrect`: from `CheckedInv` (the arguments before `idx` have
  been let by), `PackedInv`, and for the other direction `RefusedInv` (a call that was
  refused has an argument that was not).  For any arguments: values of all tags.
* `ArgumentsArriveCorrect`, for any signature and arguments: `invoke` packs argument
  `i` at slot `2 * i`, a memref takes two parameters of the wrapper and a scalar
  one.  `SlotsInv` says what is in the slots, and `Loaded` relates the k-th parameter to
  the slot it is loaded from: they are the same up to the first scalar, and never
  again after it.
* `OwnershipKeptCorrect`: from `OutputsInv`, `ResultsInv` and `DescriptorsInv`, which say, for each
  of the clean-up loops, which allocations are left and that what is in the
  outputs is not among those still to be freed.  The function's results may alias
  its inputs, each other or static data in any combination.

`CPAProofs`, from `CPAAssumption` and `EquationsRelateValues` (an equation is between
values of the function, the output of an op or its operands, and known types):

* `CPATypeCorrect`, and `NothingMadeUp`: take any
  transitive relation that contains the equations of the function's ops; every
  constraint of the graph and every member of a node lies in it.  So they lie in
  the least one.
* `MembersFlowCorrect`: that least relation is what `MembersFlow` calls `FlowsInto`, a
  search of the constraints, and a search finds a relation that is transitive.
* `VerdictCorrect`: `CompleteInv` is the other inclusion.  `Propagated` says that every
  value type below a node has been told to it or is in the worklist, `Collected` and
  `Closing` which equations have been turned into constraints, and `Resolved` what a
  variable has been resolved to before `nextVar`.

`RefineTypesProofs`, from `ProgramsWellFormed` (an op has the operands its definition
gives it, and facts are of the domain):

* `RefineTypesTypeCorrect`, one
  lemma per transfer function, each saying that it yields a fact that a tensor type
  can record.
* `UsersKeep`, from `UsersInv`: at every step of the walk an operand
  of an op that does not allow refinement is either the value with the type it was
  declared with, or has been cast back to that type.
* `FactsUpToDate` and `CopiesKeepTheirTypes`, with the hypothesis `NothingIsFedBack`:
  operands come before what uses them, so there is no `prim.Loop`.  Where a fact is
  fed back the order of the visits can decide it; those programs stay with TLC.
  That facts agree with their operands is not inductive: the facts that are joined
  and those that rest on a guess are of a set that the visits themselves
  change.  `FactsInv` is therefore about every set of values that is closed under
  the operands of what is in it (`Agreeing`): either one of them is to be visited
  yet or all have the fact that their operands give them.  `ReachedInv` says
  that an op without a fact has an operand without one or is to be visited;
  `SeenInv` carries the facts into the rewriting of types.
* `CertainClaimsHold`, with the same hypothesis and `TensorsAssumption` (tensors have
  sizes that are natural numbers): the facts are sound.  One lemma for each transfer
  function (`FlattenSound`, `UnsqueezeSound`, `LinearSound`, ...) relates it to what
  the op computes: if the operands' facts hold of the operands, the fact found holds of
  every result.  `Spliced` is the one place where `flatten` and `unsqueeze` put sizes
  together, and `SplicedClaims` says that facts may be put together the same way.  An
  execution is in `TrueConfigurations` at first and after each step
  (`StartsTrue`, `StepsTrue`): since by `FactsUpToDate` the fact of a result that
  depends on no guess is the one its operands' facts give, the lemma about its op
  applies, and where control flow meets all operands have one fact.

`IValueImporterProofs`, from `WorldsWellFormed`:

* `ImportTypeCorrect`, `Dominance` and `Isomorphism`.  None of the properties is inductive: while a
  value is being imported its operands are in a frame of the stack, not in the
  module.  The invariant says that they are what has been imported of the elements
  before the one the frame is at (`Consists`), that each frame is of an element of
  the frame below it, and that the depth of values strictly falls from frame to
  frame, so that no value is twice on the stack and what `Leave` records in the value
  map was not recorded before.
* `SharedStorageRejected`: both directions.  `StorageInv` says that the tensors on the
  stack and in the value map have different storages, all of them in
  `seenStorageImpls`; `SeenInv` that a storage in it is of a tensor that the root
  leads to, and that a refusal names a second one.  A successful import holds all
  that the root leads to, by the closure lemma of `InductionLemmas`.
* `PathsLead`: `PathInv` says that the stack is a path from the root (`FromRoot`); the names on
  `attributeNameStack` are those of its frames that are modules, and `NextLeads` that the
  names, followed from the root, lead to what the top frame holds.
* `AnnotationsAsked`, from `ClassesWellFormed` too.  The property reads the calls from
  the end (the last one that says something); the annotator works from the start.
  `AskedInv` is about every moment: a flag is set iff each call that cleared it
  has a later one that set it (`IsFlag`), an argument's annotation is the shape and the
  dtype said last (`AreArgs`), also after a call that failed half way, and every op already
  in the module has what the annotations say (`AreAsAsked`).  The rest of the proof
  is that the annotator, which follows classes, and the property, which follows
  instances, agree: a path of attribute names leads to an instance iff it leads to a
  class, and to its own class (`PathToInstance`), and the classes below the root's are
  those of the instances below the root (`BelowClassIs`).  `ClassesWellFormed` is what
  PyTorch guarantees: a class gives its attributes and methods names of their own and
  a method a function of its own, and a submodule is held by an attribute whose type
  is the class of that submodule.
* `Verified`, from `UnitsWellFormed` too: a compilation unit has each function once, and the
  functions of the methods of its modules.  Once a class is declared its methods must have
  their functions, which come from a module's unit when the first module, perhaps of
  another class, is entered.  `DeclaredInv` says that the functions declared are those
  of the one unit (`Declares`), the classes declared those in `classTypes`, whose methods'
  functions are of that unit, and that `classTypes` has the class of every module that
  has been or is being imported.  It holds until something is thrown: an abandoned
  import leaves functions out.  That slots hold instances of their classes follows from
  `Consists`.

`AcapDispatchProofs`, from `HeapAssumption` and `ArgumentsAssumption`:

* `RecordedByTheInnermost`, for any program: from `ControllersInv`, which says that the
  kernels on the call stack of a thread are all being recorded by its innermost
  controller, so a function grows where the call stack moves, and contexts are entered
  and left only between kernels; and from `FlagsInv`, since the step in which a function
  returns shows in `hasReturned`.
* `BlocksWellFormed`.  That operands are defined above their uses (but for the null
  operands of lists) is not inductive: a kernel maps its operands, other kernels add
  operations above, below and between them, and only then is the kernel recorded, before a terminator if there
  is one by then.  `FrameOK` therefore says of every kernel on a call stack that its
  operands are defined in the function it will be recorded in, and `WellFormed` of every
  function that numbers are unique, the constants are within the block and what the
  tensor map holds is defined.  Each of the three ways to insert makes a function
  `Grow`: it is well formed and what was defined still is.  The hypothesis
  `ProgramsCallKernels`: kernels are not called `std.return`, are
  called with finite lists, and the backward convolution with the five arguments of its
  signature (`acap_dispatch.cpp:246`).  `MCCalls` meets it.
* `CaptureIsFaithful`, that a captured function computes what the program did.  The
  property is about the end of a capture; the invariant, `FaithInv`, about every
  moment of it.  While a capture is `Open`, the function built so far, replayed from
  what the arguments held, gets to a state with a tensor of its own for every
  tensor of the program that is mapped (`Means`, `Places`), the operands of every
  kernel on a call stack stand there for the arguments it will record
  (`OperandsStand`), and, if all writes were recorded and no alias is hidden, the two
  sets of tensors are `Alike`: same contents, same pairs that share a storage.  Once it
  is `Closed` its replay gives what was returned.  What is proved of the parts: a
  kernel run on heaps that are alike leaves them alike, with its results
  (`RunBoth`, for fresh tensors, views, writes and the backward convolution under
  either of its signatures); a constant may go in above what has been replayed because
  it commutes with every operation (`BoundCommutes`); a literal holds what its tensor
  holds now, and is alike unless it is a hidden alias; and a hidden alias stays one, so
  that what the property excludes at the end was not there before.  The hypothesis
  `ProgramsUseTensors`: kernels are called on tensors that exist, with IValues that may
  be lists of what can be mapped, and those that write or view get a tensor first.
  `MCCalls` meets it but for `align_to`, whose list has a null operand, and `block`,
  whose list is of lists; those are for TLC alone.

Only model-checked: what compares two executions, captures apart (`ExecutionPreserved`,
`MeaningPreserved`, `ResultsAgree`, `GuardsProtect`): these
compare interpreters that fold over ops; the passes and conversions
(`ModuleIsValid`, `ConversionsLineUp`), whose modules are interpreters too;
of the importer, the bodies of functions (`FunctionsStandForTheirGraphs`, about
recursive operators); the facts in
a function with loops; and the liveness properties, which TLAPS
cannot prove here.


## Not modelled, and why

See `components` in `PROJECT.json`.  In the runtime tensor contents are symbolic;
element counts, strides and int32 arithmetic are left out.  CPA's rewriting of IR
types after resolution is left out, and so are its cast, read and write types, which
no op creates.  Of the importer, objects that contain themselves and several imports
into one block.  Of capture, dtypes and types beyond whether a tensor can be
imported, and the Python side.  SymbolDCE, the inliner, CSE and the dialect
conversion driver are MLIR's.  The older path (Basicpy, Numpy, TCF, TCP and their
conversions) is op-by-op rewriting without state, which nothing composes any more
with the Torch path but the reference backend's runtime.  Bindings and build tools
keep no state.

## Plan

1. `PrepareForGlobalizeObjectGraph`, and the importer composed with the
   globalization: what is imported meets `ProgramsWellFormed`.
2. Basicpy type inference as unification, against the closure of its equations.
3. TCP bufferize and the bodies of functions in the reference backend.
4. Python: the numpy importer and the tracer.

Abstract specifications worth stating: the globalization as an atomic map from
object graphs to modules; the CPA pass as the least solution of its constraints.

Proofs to come: that `ConversionsLineUp` and `ModuleIsValid` survive each pattern.
