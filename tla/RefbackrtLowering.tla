-------------------------- MODULE RefbackrtLowering --------------------------
(***************************************************************************)
(* How the compiler tells the runtime what a module's functions take and   *)
(* return: LowerToRefbackrtABI writes metadata, LowerToLLVM makes globals  *)
(* of it, and the runtime reads those.  All shapes of one side (inputs or  *)
(* outputs) of a function are one array of kMaxRank extents per argument,  *)
(* into which every descriptor points.                                     *)
(*                                                                         *)
(* A module is a sequence of [name, public, inputs, outputs]; types are    *)
(* those of RefbackrtABI, memrefs with an element type, and the scalars    *)
(* "f16" and "i64".                                                        *)
(***************************************************************************)
EXTENDS RefbackrtABI

\* In LowerToRefbackrtABI.cpp, in LowerToLLVM.cpp and in UserAPI.h.
kMaxRank == 6

-----------------------------------------------------------------------------
\* LowerToRefbackrtABI

IsMemref(type) == type.kind \in {"memref", "unranked"}
Types(func) == ToSet(func.inputs \o func.outputs)
Public(module) == {i \in DOMAIN module : module[i].public}

expressibleWithRefbackrtABI(func) ==
  \A type \in Types(func) : IsMemref(type) \/ type.kind \in {"f16", "f32", "f64"}

\* "Unsupported float bit width", "Unsupported tensor element type",
\* "unsupported rank".
MetadataAsserts(func) ==
  \E type \in Types(func) :
    \/ type.kind = "f16"
    \/ IsMemref(type) /\ type.elem = "f64"
    \/ type.kind = "memref" /\ Len(type.extents) > kMaxRank

getIntReprForABIType(type) ==
  CASE IsMemref(type) -> 1 [] type.kind = "f32" -> 2 [] type.kind = "f64" -> 3 [] OTHER -> -1

getIntReprForABIElementType(type) == IF IsMemref(type) /\ type.elem = "f32" THEN 1 ELSE 0

\* 0xDEADBEEF as an int32_t.
Pad == -559038737

getExtentsForType(type) ==
  IF type.kind = "memref"
  THEN type.extents \o [i \in 1 .. kMaxRank - Len(type.extents) |-> Pad]
  ELSE [i \in 1 .. kMaxRank |-> kMaxRank]

getRankForType(type) ==
  CASE type.kind = "memref" -> Len(type.extents) [] type.kind = "unranked" -> -1 [] OTHER -> 0

\* What is recorded of the inputs, or of the outputs, of a function.
Side(types) ==
  [argTypes     |-> [i \in DOMAIN types |-> getIntReprForABIType(types[i])],
   elementTypes |-> [i \in DOMAIN types |-> getIntReprForABIElementType(types[i])],
   ranks        |-> [i \in DOMAIN types |-> getRankForType(types[i])],
   shapes       |-> [k \in 1 .. kMaxRank * Len(types) |->
                       getExtentsForType(types[((k - 1) \div kMaxRank) + 1])[((k - 1) % kMaxRank) + 1]]]

FuncMetadata(func) ==
  [funcName |-> func.name, inputs |-> Side(func.inputs), outputs |-> Side(func.outputs)]

\* In the order of the functions: each keeps its place in the module.
createModuleMetadata(module) == [i \in Public(module) |-> FuncMetadata(module[i])]

\* A signature with a ranked memref is converted, and each of its arguments is
\* cast back: memref.cast takes neither a scalar nor an unranked memref to its
\* own type.
SignatureConverts(func) ==
  (\E type \in Types(func) : type.kind = "memref") =>
    \A type \in ToSet(func.inputs) : type.kind = "memref"

-----------------------------------------------------------------------------
\* LowerToLLVM

\* Faulty: the shapes are not padded.
ArgDescriptorsUnpadded(metadata, side) ==
  LET recorded == metadata[side]
  IN [i \in DOMAIN recorded.argTypes |->
        [abiType |-> recorded.argTypes[i], elementType |-> recorded.elementTypes[i],
         rank |-> recorded.ranks[i],
         extents |-> [global |-> <<side, metadata.funcName>>, offset |-> (i - 1) * recorded.ranks[i]]]]

\* "Each shape array is derived by offseting of kMaxRank * arg index".
ArgDescriptors(metadata, side) ==
  LET recorded == metadata[side]
  IN [i \in DOMAIN recorded.argTypes |->
        [abiType |-> recorded.argTypes[i], elementType |-> recorded.elementTypes[i],
         rank |-> recorded.ranks[i],
         extents |-> [global |-> <<side, metadata.funcName>>, offset |-> (i - 1) * kMaxRank]]]

\* The pointer is to the wrapper of the function.
FuncDescriptor(metadata) ==
  [name |-> metadata.funcName, functionPtr |-> metadata.funcName,
   inputDescriptors |-> ArgDescriptors(metadata, "inputs"),
   outputDescriptors |-> ArgDescriptors(metadata, "outputs")]

LowerModuleMetadata(metadatas) ==
  LET names == {metadatas[i].funcName : i \in DOMAIN metadatas}
      Of(name) == metadatas[CHOOSE i \in DOMAIN metadatas : metadatas[i].funcName = name]
  IN [functionDescriptors |-> [i \in DOMAIN metadatas |-> FuncDescriptor(metadatas[i])],
      globals |-> [g \in {"inputs", "outputs"} \X names |-> Of(g[2])[g[1]].shapes]]

\* "must be a multi-result packed struct!"
WrapperAsserts(func) == Len(func.outputs) = 1 /\ func.outputs[1].kind = "f64"

\* What comes of compiling a module: metadata is written of one function after
\* the other, then all signatures are converted, then the wrappers are made.
CompileVerdict(module) ==
  LET bad == {i \in Public(module) : MetadataAsserts(module[i]) \/ ~ expressibleWithRefbackrtABI(module[i])}
  IN CASE bad # {} -> IF MetadataAsserts(module[Min(bad)]) THEN "assert" ELSE "error"
       [] bad = {} /\ \E f \in ToSet(module) : ~ SignatureConverts(f) -> "error"
       [] OTHER -> IF \E i \in Public(module) : WrapperAsserts(module[i]) THEN "assert" ELSE "compiled"

-----------------------------------------------------------------------------
\* The runtime

\* The first descriptor of that name, or none.
getFuncDescriptor(descriptor, name) ==
  LET named == {i \in DOMAIN descriptor.functionDescriptors : descriptor.functionDescriptors[i].name = name}
  IN IF named = {} THEN <<>> ELSE <<descriptor.functionDescriptors[Min(named)]>>

\* getExternalInputArgInfo and getExternalOutputArgInfo: the element type of the
\* descriptor is not read, every memref is one of F32.
ExternalArgInfo(descriptor, d) ==
  [argType     |-> CASE d.abiType = 0 -> "kNone" [] d.abiType = 1 -> "kTensor"
                     [] d.abiType = 2 -> "kF32" [] d.abiType = 3 -> "kF64",
   elementType |-> IF d.abiType = 1 THEN "F32" ELSE "NONE",
   rank        |-> d.rank,
   extents     |-> [i \in 1 .. d.rank |-> descriptor.globals[d.extents.global][d.extents.offset + i]]]

getMetadata(descriptor, name) ==
  LET d == getFuncDescriptor(descriptor, name)[1]
      Infos(ds) == [i \in DOMAIN ds |-> ExternalArgInfo(descriptor, ds[i])]
  IN [inputArgInfos |-> Infos(d.inputDescriptors), outputArgInfos |-> Infos(d.outputDescriptors)]

=============================================================================
