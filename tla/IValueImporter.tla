---------------------------- MODULE IValueImporter ----------------------------
(***************************************************************************)
(* class IValueImporter: the object graph of a TorchScript module becomes  *)
(* IR.  The rest of a world (see ClassAnnotator):                          *)
(*   values  IValue -> [kind, elems, of]: its kind, the IValues it holds   *)
(*           (slots of a module in attribute order, elements, the scale    *)
(*           and the zero point of a quantized tensor, weight and bias of  *)
(*           linear parameters), and its storage (tensors) or class        *)
(*   depth   IValue -> a number greater than those of the IValues it holds *)
(*   root    the IValue to import                                          *)
(*   unitOf  module -> its compilation unit                                *)
(*   units   compilation unit -> its functions in order                    *)
(*   unimportable  functions with a node that cannot be imported           *)
(* IValues of the same identity (IValueEq) are one: an object, or an int,  *)
(* float, bool, str or None of one value.                                  *)
(*                                                                         *)
(* The block is a sequence of [op, of, operands, info]; operands are       *)
(* positions in the block.  op is                                          *)
(*   "func", "class_type"     of: the function, the class                  *)
(*   "literal"                the tensor that a quantized tensor is made of*)
(*   "value"                  of: an IValue                                *)
(*   "incomplete"             of: a module; no terminator, slots missing   *)
(* An IValue that holds itself, directly or not, is not modelled: the code *)
(* recurses without end.                                                   *)
(***************************************************************************)
EXTENDS ClassAnnotator

VARIABLES
  pc,               \* "annotate", "import", "throw", "done", "error"
  diag,             \* what was thrown
  block,
  valueMap,         \* imported IValue -> position of the op whose result it is
  seenStorageImpls,
  classTypes,       \* the classes imported
  compilationUnit,
  rootModuleName,
  frames            \* the IValues being imported, innermost last

importVars == <<block, valueMap, seenStorageImpls, classTypes, compilationUnit, rootModuleName, frames>>
vars == <<world, annotations, calls, pc, diag, importVars>>

Kind(v) == world.values[v].kind
Elems(v) == world.values[v].elems
Of(v) == world.values[v].of

Tensors == {"tensor", "per_tensor_affine", "per_channel_affine"}
IsTensor(v) == Kind(v) \in Tensors
IsModule(v) == Kind(v) = "module"

\* What PyTorch guarantees.
ASSUME WorldsWellFormed ==
  \A w \in Worlds :
    /\ w.root \in DOMAIN w.values /\ IsFiniteSet(DOMAIN w.values)
    /\ \A v \in DOMAIN w.values :
         /\ w.values[v].elems \in Seq(DOMAIN w.values)
         /\ w.depth[v] \in Nat
         /\ \A i \in DOMAIN w.values[v].elems : w.depth[w.values[v].elems[i]] < w.depth[v]
         /\ w.values[v].kind = "module" =>
              /\ w.unitOf[v] \in DOMAIN w.units
              /\ Len(w.values[v].elems) = Len(w.classes[w.values[v].of].attrs)
    /\ \A unit \in DOMAIN w.units : w.units[unit] \in Seq(ToSet(w.units[unit]))

\* And of its classes: the members of a class have names of their own, and a
\* method a function of its own; a submodule is an attribute of its own class.
ASSUME ClassesWellFormed ==
  \A w \in Worlds :
    /\ None \notin Classes(w) \cup DOMAIN w.values
    /\ w.rootClass \in Classes(w)
    /\ \A c \in Classes(w) :
         /\ Attrs(w, c) \in Seq(ToSet(Attrs(w, c)))
         /\ \A i, j \in DOMAIN Attrs(w, c) : Attrs(w, c)[i].name = Attrs(w, c)[j].name => i = j
         /\ \A i, j \in DOMAIN Methods(w, c) : Methods(w, c)[i].name = Methods(w, c)[j].name => i = j
         /\ \A i \in DOMAIN Methods(w, c) :
              /\ w.arity[Methods(w, c)[i].func] \in Nat
              /\ \A d \in Classes(w) : \A j \in DOMAIN Methods(w, d) :
                   Methods(w, c)[i].func = Methods(w, d)[j].func => c = d /\ i = j
    /\ \A v \in DOMAIN w.values : w.values[v].kind = "module" =>
         LET c     == w.values[v].of
             elems == w.values[v].elems
         IN /\ c \in Classes(w)
            /\ \A j \in DOMAIN elems :
                 IF w.values[elems[j]].kind = "module"
                 THEN Attrs(w, c)[j].type = w.values[elems[j]].of
                 ELSE Attrs(w, c)[j].type \notin Classes(w)
    /\ \A path \in w.paths : path \in Seq(ToSet(path))
    /\ \A args \in w.argLists : args \in Seq(ToSet(args))

\* And of its functions: a compilation unit has each once, and those that the
\* methods of its modules have become.
ASSUME UnitsWellFormed ==
  \A w \in Worlds :
    /\ None \notin DOMAIN w.units
    /\ \A unit \in DOMAIN w.units : \A i, j \in DOMAIN w.units[unit] :
         w.units[unit][i] = w.units[unit][j] => i = j
    /\ \A v \in DOMAIN w.values : w.values[v].kind = "module" =>
         \A i \in DOMAIN Methods(w, w.values[v].of) :
           Methods(w, w.values[v].of)[i].func \in ToSet(w.units[w.unitOf[v]])

NoDiag == [kind |-> "none", path |-> <<>>, root |-> None, value |-> None]

Init ==
  /\ AnnotatorInit
  /\ pc = "annotate" /\ diag = NoDiag
  /\ block = <<>>
  /\ valueMap = [v \in {} |-> 0]
  /\ seenStorageImpls = {} /\ classTypes = {}
  /\ compilationUnit = None /\ rootModuleName = None
  /\ frames = <<>>

Annotate == pc = "annotate" /\ AnnotatorNext /\ UNCHANGED <<pc, diag, importVars>>

StartImport ==
  /\ pc = "annotate"
  /\ pc' = "import"
  /\ UNCHANGED <<world, annotations, calls, diag, importVars>>

-----------------------------------------------------------------------------
\* The recursion: a frame is an IValue, which of its elements is next, and the
\* positions of those imported.

Frame(v, operands) == [value |-> v, at |-> 1, operands |-> operands]
Top == Last(frames)
AtElement == frames # <<>> /\ Top.at <= Len(Elems(Top.value))

\* What importIValue is called on next.
IsNext(v) ==
  /\ pc = "import"
  /\ \/ frames = <<>> /\ v = world.root /\ world.root \notin DOMAIN valueMap
     \/ AtElement /\ v = Elems(Top.value)[Top.at]

\* The caller goes on `step` elements later.
Advance(fs, position, step) ==
  LET caller == Last(fs)
  IN Append(Front(fs), [value    |-> caller.value,
                        at       |-> caller.at + step,
                        operands |-> Append(caller.operands, position)])

\* Faulty: the caller skips an element.
ReturnTwo(fs, position) == IF fs = <<>> THEN <<>> ELSE Advance(fs, position, 2)

\* importIValue returns to its caller.
Return(fs, position) == IF fs = <<>> THEN <<>> ELSE Advance(fs, position, 1)

\* The names of the attributes that the first n frames are at.
AttributeNames(n) ==
  LET upTo[i \in 0 .. n] ==
        IF i = 0 THEN <<>>
        ELSE IF IsModule(frames[i].value)
        THEN Append(upTo[i - 1], Attrs(world, Of(frames[i].value))[frames[i].at].name)
        ELSE upTo[i - 1]
  IN upTo[n]

\* Faulty: a name is popped before its value has been imported.
AttributeNameStackPopped == IF frames = <<>> THEN <<>> ELSE AttributeNames(Len(frames) - 1)

\* attributeNameStack, the names of the attributes being imported.
AttributeNameStack == AttributeNames(Len(frames))

Op(op, of, operands, info) == [op |-> op, of |-> of, operands |-> operands, info |-> info]

\* An exception: `ops` has been appended before it was thrown.
Throw(kind, v, ops) ==
  /\ pc' = "throw"
  /\ diag' = [kind  |-> kind,
              path  |-> IF rootModuleName = None THEN <<>> ELSE AttributeNameStack,
              root  |-> rootModuleName,
              value |-> v]
  /\ block' = block \o ops

\* It leaves importModule through the guard that inserts the module.
Unwind ==
  /\ pc = "throw"
  /\ frames # <<>>
  /\ frames' = Front(frames)
  /\ block' = IF IsModule(Top.value)
              THEN Append(block, Op("incomplete", Top.value, Top.operands, <<>>))
              ELSE block
  /\ UNCHANGED <<world, annotations, calls, pc, diag, valueMap, seenStorageImpls, classTypes,
                 compilationUnit, rootModuleName>>

ImportFails ==
  /\ pc = "throw"
  /\ frames = <<>>
  /\ pc' = "error"
  /\ UNCHANGED <<world, annotations, calls, diag, importVars>>

\* "Reject potentially aliased tensors."
SharesStorage(v) == IsTensor(v) /\ Of(v) \in seenStorageImpls

\* Faulty: the caller goes on with the same element.
ImportKnownAgain(v) ==
  /\ IsNext(v)
  /\ v \in DOMAIN valueMap
  /\ UNCHANGED vars

ImportKnown(v) ==
  /\ IsNext(v)
  /\ v \in DOMAIN valueMap
  /\ frames' = Return(frames, valueMap[v])
  /\ UNCHANGED <<world, annotations, calls, pc, diag, block, valueMap, seenStorageImpls,
                 classTypes, compilationUnit, rootModuleName>>

RejectSharedStorage(v) ==
  /\ IsNext(v)
  /\ v \notin DOMAIN valueMap
  /\ SharesStorage(v)
  /\ Throw("shares storage", v, <<>>)
  /\ UNCHANGED <<world, annotations, calls, valueMap, seenStorageImpls, classTypes,
                 compilationUnit, rootModuleName, frames>>

\* Faulty: the storages of quantized tensors are not recorded.
StorageOfPlain(v) == IF Kind(v) = "tensor" THEN {Of(v)} ELSE {}

StorageOf(v) == IF IsTensor(v) THEN {Of(v)} ELSE {}

\* What has no elements to import first; importTensor emits the elements of a
\* quantized tensor before it looks at its scheme.
RejectUnsupported(v) ==
  /\ IsNext(v)
  /\ v \notin DOMAIN valueMap
  /\ ~ SharesStorage(v)
  /\ Kind(v) \in {"unsupported", "per_channel_affine"}
  /\ Throw("unsupported", v, IF IsTensor(v) THEN <<Op("literal", v, <<>>, <<>>)>> ELSE <<>>)
  /\ seenStorageImpls' = seenStorageImpls \cup StorageOf(v)
  /\ UNCHANGED <<world, annotations, calls, valueMap, classTypes, compilationUnit,
                 rootModuleName, frames>>

EnterValue(v) ==
  /\ IsNext(v)
  /\ v \notin DOMAIN valueMap
  /\ ~ SharesStorage(v)
  /\ Kind(v) \notin {"unsupported", "per_channel_affine", "module"}
  /\ seenStorageImpls' = seenStorageImpls \cup StorageOf(v)
  /\ IF Kind(v) = "per_tensor_affine"
     THEN /\ block' = Append(block, Op("literal", v, <<>>, <<>>))
          /\ frames' = Append(frames, Frame(v, <<Len(block')>>))
     ELSE /\ frames' = Append(frames, Frame(v, <<>>))
          /\ UNCHANGED block
  /\ UNCHANGED <<world, annotations, calls, pc, diag, valueMap, classTypes, compilationUnit,
                 rootModuleName>>

-----------------------------------------------------------------------------
\* Modules

\* importCompilationUnit for the first module: its functions, with a bound on
\* the type of an argument of which both shape and dtype are known: a set of
\* at most one.
TypeBounds(func) ==
  LET args == ArgAnnotationsOf(func)
  IN [j \in 1 .. world.arity[func] |->
        {args[k] : k \in {i \in DOMAIN args : i = j /\ args[i].shape # None /\ args[i].dtype # None}}]

FuncOps(funcs) == [i \in DOMAIN funcs |-> Op("func", funcs[i], <<>>, TypeBounds(funcs[i]))]

\* importClassType for a class not seen: the annotations are those the user
\* has made, the default for others.
ClassTypeOp(c) ==
  LET annotation == GetOrCreate({c})[c]
  IN Op("class_type", c, <<>>,
        [attrs   |-> annotation.attrs,
         methods |-> [i \in DOMAIN annotation.methods |-> annotation.methods[i].exported]])

\* Faulty: a class is imported with each of its instances.
ClassTypeOpsAgain(c) == <<ClassTypeOp(c)>>

ClassTypeOps(c) == IF c \in classTypes THEN <<>> ELSE <<ClassTypeOp(c)>>

\* The functions of the unit of module v, if v is the first.
NewFuncs(v) == IF compilationUnit = None THEN world.units[world.unitOf[v]] ELSE <<>>

EnterModule(v) ==
  /\ IsNext(v)
  /\ v \notin DOMAIN valueMap
  /\ IsModule(v)
  /\ compilationUnit \in {None, world.unitOf[v]}
  /\ ToSet(NewFuncs(v)) \cap world.unimportable = {}
  /\ compilationUnit' = world.unitOf[v]
  /\ classTypes' = classTypes \cup {Of(v)}
  /\ annotations' = GetOrCreate({Of(v)})
  /\ block' = block \o FuncOps(NewFuncs(v)) \o ClassTypeOps(Of(v))
  /\ rootModuleName' = IF rootModuleName = None THEN Of(v) ELSE rootModuleName
  /\ frames' = Append(frames, Frame(v, <<>>))
  /\ UNCHANGED <<world, calls, pc, diag, valueMap, seenStorageImpls>>

\* "found two compilation units while importing"
RejectSecondUnit(v) ==
  /\ IsNext(v)
  /\ v \notin DOMAIN valueMap
  /\ IsModule(v)
  /\ compilationUnit \notin {None, world.unitOf[v]}
  /\ Throw("two units", v, <<>>)
  /\ UNCHANGED <<world, annotations, calls, valueMap, seenStorageImpls, classTypes,
                 compilationUnit, rootModuleName, frames>>

\* Importing the body of a function throws: those before it have been imported.
RejectFunction(v) ==
  LET funcs == NewFuncs(v)
  IN /\ IsNext(v)
     /\ v \notin DOMAIN valueMap
     /\ IsModule(v)
     /\ \E i \in DOMAIN funcs :
          /\ funcs[i] \in world.unimportable
          /\ \A j \in 1 .. i - 1 : funcs[j] \notin world.unimportable
          /\ Throw("function", v, FuncOps(SubSeq(funcs, 1, i - 1)))
     /\ compilationUnit' = world.unitOf[v]
     /\ UNCHANGED <<world, annotations, calls, valueMap, seenStorageImpls, classTypes,
                    rootModuleName, frames>>

-----------------------------------------------------------------------------
\* Leaving

\* Faulty: lists, which are equal when their elements are, are not recorded.
RecordNoList(v, position) ==
  IF Kind(v) = "list" THEN valueMap
  ELSE [u \in DOMAIN valueMap \cup {v} |-> IF u = v THEN position ELSE valueMap[u]]

\* valueMap[ivalue] = value
Record(v, position) ==
  [u \in DOMAIN valueMap \cup {v} |-> IF u = v THEN position ELSE valueMap[u]]

Emit(op) == Append(block, op)

\* All elements have been imported: the op is created, that of a module
\* inserted.  Leaving any module clears rootModuleName.
Leave ==
  /\ pc = "import"
  /\ frames # <<>> /\ ~ AtElement
  /\ block' = Emit(Op("value", Top.value, Top.operands, <<>>))
  /\ valueMap' = Record(Top.value, Len(block'))
  /\ rootModuleName' = IF IsModule(Top.value) THEN None ELSE rootModuleName
  /\ frames' = Return(Front(frames), Len(block'))
  /\ UNCHANGED <<world, annotations, calls, pc, diag, seenStorageImpls, classTypes, compilationUnit>>

ImportDone ==
  /\ pc = "import"
  /\ frames = <<>> /\ world.root \in DOMAIN valueMap
  /\ pc' = "done"
  /\ UNCHANGED <<world, annotations, calls, diag, importVars>>

Terminated == pc \in {"done", "error"} /\ UNCHANGED vars

ImportNext ==
  \/ StartImport
  \/ \E v \in DOMAIN world.values :
       \/ ImportKnown(v) \/ RejectSharedStorage(v) \/ RejectUnsupported(v) \/ EnterValue(v)
       \/ EnterModule(v) \/ RejectSecondUnit(v) \/ RejectFunction(v)
  \/ Leave
  \/ ImportDone
  \/ Unwind
  \/ ImportFails

Next == Annotate \/ ImportNext \/ Terminated

\* The user comes to the import, which is one thread that runs until it returns
\* or throws.
Spec == Init /\ [][Next]_vars /\ WF_vars(ImportNext)

-----------------------------------------------------------------------------
\* Properties

Positions == 1 .. Len(block)

TypeOK ==
  /\ world \in Worlds
  /\ pc \in {"annotate", "import", "throw", "done", "error"}
  /\ \A i \in Positions : block[i].op \in {"func", "class_type", "literal", "value", "incomplete"}
  /\ DOMAIN valueMap \subseteq DOMAIN world.values
  /\ \A v \in DOMAIN valueMap : valueMap[v] \in Positions
  /\ \A i \in DOMAIN frames :
       /\ frames[i].value \in DOMAIN world.values
       /\ frames[i].at \in 1 .. Len(Elems(frames[i].value)) + 1

\* SSA dominance, also in what a failed import leaves behind: whatever an op
\* refers to comes before it, a module's slots included.
OperandsDominate ==
  \A i \in Positions : \A j \in DOMAIN block[i].operands : block[i].operands[j] \in 1 .. i - 1

\* The values that v consists of, and v.
ValuesBelow(v) ==
  LET upTo[k \in Nat] == IF k = 0 THEN {v}
                         ELSE LET above == upTo[k - 1]
                              IN above \cup UNION {ToSet(Elems(u)) : u \in above}
  IN upTo[Cardinality(DOMAIN world.values)]

ReachableValues == ValuesBelow(world.root)

OpsOf(v) == {i \in Positions : block[i].op = "value" /\ block[i].of = v}

\* "Values are unified by object identity": the root has been imported, and an
\* object that has been imported is one op, which refers to the ops of the
\* objects it consists of (a quantized tensor also to a literal of its own).
ImportedGraphIsIsomorphic ==
  pc = "done" =>
    /\ world.root \in DOMAIN valueMap
    /\ \A v \in DOMAIN valueMap :
         /\ OpsOf(v) = {valueMap[v]}
         /\ LET operands == block[valueMap[v]].operands
                first    == Len(operands) - Len(Elems(v))
            IN /\ first = IF Kind(v) = "per_tensor_affine" THEN 1 ELSE 0
               /\ first = 1 => block[operands[1]].op = "literal" /\ block[operands[1]].of = v
               /\ \A j \in DOMAIN Elems(v) :
                    /\ Elems(v)[j] \in DOMAIN valueMap
                    /\ operands[first + j] = valueMap[Elems(v)[j]]

\* "We currently import tensors by identity and emit errors in the case of
\* tensors with different identity but sharing the same storage": an import
\* succeeds only if no two do, and fails for that reason only if two do.
SharedStorageIsRejected ==
  LET shared == \E u, v \in ReachableValues :
                  u # v /\ IsTensor(u) /\ IsTensor(v) /\ Of(u) = Of(v)
  IN /\ pc = "done" => ~ shared
     /\ diag.kind = "shares storage" => shared

\* What the verifiers of torch.nn_module, torch.class_type and torch.method
\* ask for: classes and functions are there, once, and slots hold instances
\* of the class of their attribute.
VerifiersAccept ==
  LET Of1(op, x) == Cardinality({i \in Positions : block[i].op = op /\ block[i].of = x}) = 1
  IN pc = "done" =>
       \A i \in Positions :
         /\ block[i].op = "func" => Of1("func", block[i].of)
         /\ block[i].op = "class_type" =>
              /\ Of1("class_type", block[i].of)
              /\ \A m \in ToSet(Methods(world, block[i].of)) : Of1("func", m.func)
         /\ block[i].op = "value" /\ IsModule(block[i].of) =>
              LET c == Of(block[i].of)
              IN /\ Of1("class_type", c)
                 /\ Len(block[i].operands) = Len(Attrs(world, c))
                 /\ \A j \in DOMAIN Attrs(world, c) :
                      Attrs(world, c)[j].type \in Classes(world) =>
                        Of(block[block[i].operands[j]].of) = Attrs(world, c)[j].type

\* The verifiers of the object graph's ops accept what a successful import leaves:
\* operands dominate their uses, symbols are there, slots have their classes.
ModulesVerify == OperandsDominate /\ VerifiersAccept

\* The instance that an attribute of this name of instance v is, if any.
Submodule(v, name) ==
  LET hits == {j \in DOMAIN Elems(v) : Attrs(world, Of(v))[j].name = name /\ IsModule(Elems(v)[j])}
  IN IF hits = {} THEN None ELSE Elems(v)[CHOOSE j \in hits : TRUE]

\* The instance that a path of attribute names leads to, from instance v.
InstanceAt(v, path) ==
  LET at[i \in 0 .. Len(path)] ==
        IF i = 0 THEN v
        ELSE IF at[i - 1] = None THEN None ELSE Submodule(at[i - 1], path[i])
  IN at[Len(path)]

\* The instances below v: its submodules, theirs, ...
InstancesBelow(v) ==
  LET upTo[k \in Nat] == IF k = 0 THEN {v}
                         ELSE LET above == upTo[k - 1]
                              IN above \cup UNION {{e \in ToSet(Elems(u)) : IsModule(e)} : u \in above}
  IN upTo[Cardinality(DOMAIN world.values)]

\* Call k says something of the exports of member `name` of class c.
Concerns(k, c, name) ==
  \/ calls[k].op = "none" /\ \E v \in InstancesBelow(world.root) : Of(v) = c
  \/ /\ calls[k].op = "export" /\ calls[k].path # <<>> /\ Last(calls[k].path) = name
     /\ LET v == InstanceAt(world.root, Front(calls[k].path)) IN v # None /\ Of(v) = c

\* What the last call that says something of it says; exported if none does.
Asked(c, name) ==
  LET said == {k \in DOMAIN calls : Concerns(k, c, name)}
  IN said = {} \/ calls[CHOOSE k \in said : \A l \in said : l <= k].op = "export"

\* What can be accessed from outside is what the user's calls say, in terms of
\* the instances of the object graph: a member of a class is exported unless a
\* call said otherwise, and then if a later one names it in an instance of the
\* class.
ExportsAreAsAsked ==
  (pc = "done" /\ IsModule(world.root) /\ Of(world.root) = world.rootClass) =>
    \A i \in Positions : block[i].op = "class_type" =>
      LET c == block[i].of
      IN /\ \A j \in DOMAIN Attrs(world, c) : block[i].info.attrs[j] = Asked(c, Attrs(world, c)[j].name)
         /\ \A j \in DOMAIN Methods(world, c) : block[i].info.methods[j] = Asked(c, Methods(world, c)[j].name)

\* The calls that say something of argument j of a method.
ArgCalls(c, method, j) ==
  {k \in DOMAIN calls :
     /\ calls[k].op = "args" /\ calls[k].path # <<>> /\ Last(calls[k].path) = method.name
     /\ GetClassAtPath(world, world.rootClass, Front(calls[k].path)) = c
     /\ Len(calls[k].args) = world.arity[method.func]
     /\ calls[k].args[j] # None
     /\ \A l \in 1 .. j - 1 : IsComplete(calls[k].args[l])}

\* What the user said last of the shape and of the dtype, if both have been said.
IsBoundAsked(c, method, j, bounds) ==
  LET shapes == {k \in ArgCalls(c, method, j) : calls[k].args[j].shape # None}
      dtypes == {k \in ArgCalls(c, method, j) : calls[k].args[j].dtype \notin {None, NotADtype}}
      Final(ks) == calls[CHOOSE k \in ks : \A l \in ks : l <= k].args[j]
  IN IF shapes = {} \/ dtypes = {} THEN bounds = {}
     ELSE \E bound \in bounds :
            bounds = {bound} /\ bound.shape = Final(shapes).shape /\ bound.dtype = Final(dtypes).dtype

\* The bound on an argument of an imported function is what the user said last
\* of the shape, if the dtype has been said too, of the method that has become
\* this function and of no other, also when a call has failed half way.
BoundsAreAsAsked ==
  pc = "done" =>
    \A i \in Positions : block[i].op = "func" =>
      \A c \in Classes(world) : \A method \in ToSet(Methods(world, c)) :
        method.func = block[i].of =>
          \A j \in 1 .. world.arity[method.func] : IsBoundAsked(c, method, j, block[i].info[j])

\* Both kinds of annotation, for every order of the user's calls.
AnnotationsAreAsAsked == ExportsAreAsAsked /\ BoundsAreAsAsked

\* v and what it holds, short of what is in a module.
HeldBy(v) ==
  LET upTo[k \in Nat] == IF k = 0 THEN {v}
                         ELSE LET above == upTo[k - 1]
                              IN above \cup UNION {ToSet(Elems(u)) : u \in {w \in above : ~ IsModule(w)}}
  IN upTo[Cardinality(DOMAIN world.values)]

\* What the attribute of this name holds, in the modules of S.
HeldAs(S, name) ==
  UNION {UNION {HeldBy(Elems(m)[j]) : j \in {k \in DOMAIN Elems(m) : Attrs(world, Of(m))[k].name = name}} :
         m \in {u \in S : IsModule(u)}}

\* What a path of attribute names leads to, from the modules that the root holds.
AtPath(path) ==
  LET upTo[i \in 0 .. Len(path)] ==
        IF i = 0 THEN HeldBy(world.root) ELSE HeldAs(upTo[i - 1], path[i])
  IN upTo[Len(path)]

\* "Found at path '<root>....'": if a path is given, it leads from the root to the
\* tensor that has been refused, or to what holds it.  The name of the root
\* object, that of the first module entered after any module has been left, and
\* whether a path is given at all are another matter.
DiagnosticPathLeads ==
  diag.path # <<>> => diag.value \in AtPath(diag.path)

\* The import comes to an end.
Termination == <>(pc \in {"done", "error"})

=============================================================================
