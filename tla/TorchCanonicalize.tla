--------------------------- MODULE TorchCanonicalize ---------------------------
(***************************************************************************)
(* The folds and canonicalization patterns of the torch dialect, one       *)
(* application each: `CanonicalizedOnce` of a function is what it may be   *)
(* after one.  MLIR's greedy driver, which applies them until none does,   *)
(* is external; it also erases ops that are unused and have no effect.     *)
(***************************************************************************)
EXTENDS TensorPasses

\* The op that defines operand i of op, as a set: none for an argument.
Definer(f, op, i) == DefinersOf(f, op.operands[i])
DefinedBy(f, op, i, name) == {d \in Definer(f, op, i) : d.name = name}

Replaced(f, op, result) == ReplaceOp(f, op, <<>>, result)
Folded(f, op, kind, value) == ReplaceOp(f, op, <<Constant(op.id, kind, value)>>, op.id)
FoldedBool(f, op, cond) == Folded(f, op, "bool", IF cond THEN 1 ELSE 0)

-----------------------------------------------------------------------------

\* wouldOpBeTriviallyDead: no side effect, or only reading or allocating.
IsRemovable(op) ==
  op.name \in {"int", "bool", "none", "derefine", "list", "static_info_cast", "vtensor.literal",
               "copy.to_tensor", "copy.to_vtensor"}

\* All that is dead goes at once.
EraseDead(f) ==
  LET dead == {op \in ToSet(OpsOf(f)) : IsRemovable(op) /\ UsersOf(f, op.id) = {}}
  IN IF dead = {} THEN {}
     ELSE {Convert(LAMBDA op : IF op \in dead THEN [ops |-> <<>>, result |-> op.id] ELSE Keep(op), f, <<>>)}

\* Aten__Is__Op::fold: None is not what cannot be None, whichever side it is on.
FoldIs(f, op) ==
  LET lhs == TypeOf(f, op.operands[1])
      rhs == TypeOf(f, op.operands[2])
      Differ(a, b) == a.kind = "none" /\ b.kind # "optional"
  IN IF IF rhs.kind = "none" THEN Differ(rhs, lhs) ELSE Differ(lhs, rhs)
     THEN {FoldedBool(f, op, FALSE)} ELSE {}

\* Faulty: an unknown rank is asked of the list of sizes, as `len(t.size())`.
FoldDimToLen(f, op) ==
  LET know == TypeOf(f, op.operands[1]).know
      size == Op(Append(op.id, 1), "size", op.operands, Plain("list"))
  IN IF know.hasSizes THEN {Folded(f, op, "int", Len(know.sizes))}
     ELSE {ReplaceOp(f, op, <<size, Op(op.id, "len", <<size.id>>, Plain("int"))>>, op.id)}

\* AtenDimOp::fold
FoldDim(f, op) ==
  LET know == TypeOf(f, op.operands[1]).know
  IN IF know.hasSizes THEN {Folded(f, op, "int", Len(know.sizes))} ELSE {}

\* AtenLenTOp::fold, of a list that is constructed here
FoldLen(f, op) == {Folded(f, op, "int", Len(list.operands)) : list \in DefinedBy(f, op, 1, "list")}

\* AtenLenTOp: `len(t.size())` -> `t.ndim`
LenOfSize(f, op) ==
  {ReplaceOp(f, op, <<Op(op.id, "dim", <<size.operands[1]>>, Plain("int"))>>, op.id) :
     size \in DefinedBy(f, op, 1, "size")}

\* AtenSizeOp: a list of constants when all are known, ...
SizeToList(f, op) ==
  LET type == TypeOf(f, op.operands[1])
      ints == [i \in DOMAIN type.know.sizes |-> Constant(Append(op.id, i), "int", type.know.sizes[i])]
  IN IF AllSizesKnown(type)
     THEN {ReplaceOp(f, op, Append(ints, Op(op.id, "list", [i \in DOMAIN ints |-> ints[i].id], op.type)), op.id)}
     ELSE {}

\* ... and nothing when nobody uses it.
EraseSize(f, op) == IF UsersOf(f, op.id) = {} THEN {ReplaceOp(f, op, <<>>, op.id)} ELSE {}

\* AtenGtIntOp::fold
FoldGt(f, op) ==
  {FoldedBool(f, op, a.value > b.value) : a \in DefinedBy(f, op, 1, "int"), b \in DefinedBy(f, op, 2, "int")}

\* AtenNeIntOp::fold
FoldNe(f, op) ==
  IF op.operands[1] = op.operands[2] THEN {FoldedBool(f, op, FALSE)}
  ELSE {FoldedBool(f, op, a.value # b.value) : a \in DefinedBy(f, op, 1, "int"), b \in DefinedBy(f, op, 2, "int")}

\* Aten__Getitem__TOp: when all users of the list are known to only read it.
GetItem(f, op) ==
  IF \A user \in UsersOf(f, op.operands[1]) : user.name \in {"getitem", "len"}
  THEN {Replaced(f, op, list.operands[index.value + 1]) :
          list \in DefinedBy(f, op, 1, "list"), index \in DefinedBy(f, op, 2, "int")}
  ELSE {}

\* DerefineOp: when every user takes the more precise type.
Derefine(f, op) ==
  IF \A user \in UsersOf(f, op.id) : allowsTypeRefinement(user)
  THEN {Replaced(f, op, op.operands[1])} ELSE {}

\* PrimIfOp, replaceOpWithRegion: the live branch takes the place of the op.
InlineLiveBranch(f, op) ==
  {LET live    == f.blocks[IF cond.value = 1 THEN "then" ELSE "else"]
       outside == [f EXCEPT !.blocks["then"] = <<>>, !.blocks["else"] = <<>>]
   IN ReplaceOp(outside, op, Front(live), IF op.type = NoneType THEN op.id ELSE Last(live).operands[1]) :
     cond \in DefinedBy(f, op, 1, "bool")}

-----------------------------------------------------------------------------

\* What every greedy driver does besides its patterns.
FoldedOnce(f) ==
  EraseDead(f) \cup
  UNION {CASE op.name = "is"  -> FoldIs(f, op)
           [] op.name = "dim" -> FoldDim(f, op)
           [] op.name = "len" -> FoldLen(f, op)
           [] op.name = "gt"  -> FoldGt(f, op)
           [] op.name = "ne"  -> FoldNe(f, op)
           [] OTHER           -> {} : op \in ToSet(OpsOf(f))}

CanonicalizedOnce(f) ==
  FoldedOnce(f) \cup
  UNION {CASE op.name = "len"      -> LenOfSize(f, op)
           [] op.name = "size"     -> SizeToList(f, op) \cup EraseSize(f, op)
           [] op.name = "getitem"  -> GetItem(f, op)
           [] op.name = "derefine" -> Derefine(f, op)
           [] op.name = "prim.If"  -> InlineLiveBranch(f, op)
           [] OTHER                -> {} : op \in ToSet(OpsOf(f))}

=============================================================================
