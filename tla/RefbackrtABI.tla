---------------------------- MODULE RefbackrtABI ----------------------------
(***************************************************************************)
(* What the compiler and the runtime have to agree on about a function:    *)
(* what is to be known of an argument, the checks JITModule::invoke makes  *)
(* against it, and the LLVM parameters the generated wrapper loads.        *)
(*                                                                         *)
(* A type is [kind |-> "memref", elem, extents] (an extent Dynamic is `?`) *)
(* or [kind |-> "unranked", elem], or [kind |-> "f32"], "f64".             *)
(* A run-time value is [tag |-> "Tensor", elem, extents, at], where `at`   *)
(* names the tensor object, or a scalar [tag |-> "Float"] (or "Bool",      *)
(* "Int", "Double", "None").                                               *)
(***************************************************************************)
EXTENDS Integers, Sequences, FiniteSets, SequencesExt, Functions

Dynamic == -1

\* The types of a signature (the compiler refuses some of them) and the values a
\* caller can pass.
Scalars == [kind : {"f16", "f32", "f64", "i64"}]
Memrefs ==
  [kind : {"memref"}, elem : {"f32", "f64", "i64"}, extents : Seq(Nat \cup {Dynamic})]
    \cup [kind : {"unranked"}, elem : {"f32", "f64", "i64"}]
RtValues ==
  [tag : {"Tensor"}, elem : {"F32", "NONE"}, extents : Seq(Nat), at : {"tensor"} \X Nat]
    \cup [tag : {"None", "Bool", "Int", "Float", "Double"}]

\* What kind of argument a type is ...
ArgType(type) ==
  CASE type.kind \in {"memref", "unranked"} -> "kTensor"
    [] type.kind = "f32" -> "kF32"
    [] type.kind = "f64" -> "kF64"

\* ... and what the runtime is to know of it; an unranked one has rank -1, and
\* the only element type that has a name is F32.
ArgInfo(type) ==
  [argType     |-> ArgType(type),
   elementType |-> IF ArgType(type) = "kTensor" /\ type.elem = "f32" THEN "F32" ELSE "NONE",
   rank        |-> CASE type.kind = "memref"   -> Len(type.extents)
                     [] type.kind = "unranked" -> -1
                     [] OTHER                  -> 0,
   extents     |-> IF type.kind = "memref" THEN type.extents ELSE <<>>]

\* The value is of the parameter's type, element type included ...
HasTypeOf(value, type) ==
  CASE ArgType(type) = "kTensor" -> value.tag = "Tensor" /\ value.elem = "F32" /\ type.elem = "f32"
    [] ArgType(type) = "kF32"    -> value.tag = "Float"
    [] ArgType(type) = "kF64"    -> value.tag = "Double"

\* ... and, if it is a tensor, of its shape.
HasShapeOf(value, type) ==
  value.tag = "Tensor" /\ type.kind = "memref" =>
    /\ Len(value.extents) = Len(type.extents)
    /\ \A d \in DOMAIN type.extents : type.extents[d] \in {Dynamic, value.extents[d]}

IsTensor(value) == value.tag = "Tensor"
IsScalar(value) == value.tag \in {"Bool", "Int", "Float", "Double"}

\* Faulty variants, for the runs that show what the properties detect: the
\* ranks are not compared; only the tag is compared.
CheckRtValueShapesNoRank(value, info) ==
  IsTensor(value) =>
    \A i \in DOMAIN value.extents \cap DOMAIN info.extents :
      info.extents[i] > 0 => info.extents[i] = value.extents[i]

CheckRtValueShapes(value, info) ==
  IsTensor(value) /\ info.rank >= 0 =>
    /\ Len(value.extents) = info.rank
    /\ \A i \in 1 .. info.rank : info.extents[i] > 0 => info.extents[i] = value.extents[i]

CheckRtValueArgTypes(value, info) ==
  /\ IsTensor(value) => info.argType = "kTensor" /\ value.elem = "F32"
  /\ value.tag = "Float" => info.argType = "kF32"

\* The parameters of the lowered function: the lowering to LLVM explodes an
\* unranked memref into a rank and a pointer to its descriptor.
Params(type, i) ==
  IF ArgType(type) = "kTensor" THEN <<<<"rank", i>>, <<"descriptor", i>>>>
                               ELSE <<<<"scalar", i>>>>

LLVMParams(inputs) ==
  FlattenSeq([i \in DOMAIN inputs |-> Params(inputs[i], i)])

=============================================================================
