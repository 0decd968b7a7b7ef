----------------------------- MODULE TensorPasses -----------------------------
(***************************************************************************)
(* The passes that change what a tensor is: AdjustCallingConventions,      *)
(* InlineGlobalSlots, ReduceOpVariants, RefineTypes (its result on         *)
(* straight-line code; RefineTypes.tla has the pass), RefinePublicReturn,  *)
(* the patterns of MaximizeValueSemantics, and                             *)
(* VerifyInvariantsBeforeBackendLowering.                                  *)
(***************************************************************************)
EXTENDS TorchFunction

CONSTANT LiteralKnow   \* of the symbol of a literal: the sizes and dtype of its attribute

OnFuncs(m, F(_)) == [m EXCEPT !.funcs = [n \in DOMAIN @ |-> F(@[n])]]

-----------------------------------------------------------------------------
\* AdjustCallingConventions

HasBound(arg) == arg.bound # NoBound

\* The function is rewritten: an argument has a bound, or something is None.
NeedsAdjusting(f) ==
  \/ \E i \in DOMAIN f.args : HasBound(f.args[i]) \/ f.args[i].type = NoneType
  \/ \E i \in DOMAIN f.results : f.results[i] = NoneType

\* "unimplemented: preserving aliasing for non-value-semantic type bounds",
\* which a missing bound is too; a None argument that is used stays alive.
CanAdjust(f) ==
  NeedsAdjusting(f) =>
    \A i \in DOMAIN f.args :
      /\ f.args[i].type.kind = "tensor" => f.args[i].bound.kind = "vtensor"
      /\ f.args[i].type = NoneType => \A op \in UsersOf(f, f.args[i].id) : op.name = "return"

\* AdjustCallingConventionForFunc: a bounded argument comes as a vtensor that
\* is copied to a tensor of the old type; None is dropped.
AdjustFunc(f) ==
  LET bounded == SelectSeq(f.args, HasBound)
      copies  == [i \in DOMAIN bounded |->
                    LET new == Append(bounded[i].id, 9)
                    IN copyTensorToType(bounded[i].id, bounded[i].type, new, bounded[i].bound)]
      map     == [v \in {bounded[i].id : i \in DOMAIN bounded} |->
                    copies[CHOOSE i \in DOMAIN bounded : bounded[i].id = v].result]
      NotNone(type) == type # NoneType
      New(arg) == IF HasBound(arg)
                  THEN [id |-> Append(arg.id, 9), type |-> arg.bound, bound |-> NoBound] ELSE arg
      renamed == Convert(Keep, f, map)
      kept    == SelectSeq(f.args, LAMBDA arg : arg.type # NoneType)
  IN IF ~ NeedsAdjusting(f) THEN f
     ELSE [renamed EXCEPT !.args = [i \in DOMAIN kept |-> New(kept[i])],
                          !.results = SelectSeq(@, NotNone),
                          !.blocks["entry"] = FlattenSeq([i \in DOMAIN copies |-> copies[i].ops]) \o @]

\* AdjustCallingConventionForCall: the operands in the convention of the
\* callee as it was before the pass.
AdjustCall(m, f, op) ==
  LET params == m.funcs[op.symbol].args
      passed == SelectSeq([i \in DOMAIN params |-> i],
                          LAMBDA i : TypeOf(f, op.operands[i]) # NoneType)
      copies == [i \in DOMAIN params |->
                   IF HasBound(params[i])
                   THEN copyTensorToType(Append(op.id, i), params[i].bound, op.operands[i],
                                         TypeOf(f, op.operands[i]))
                   ELSE [ops |-> <<>>, result |-> op.operands[i]]]
      call   == [op EXCEPT !.operands = [k \in DOMAIN passed |-> copies[passed[k]].result]]
      before == FlattenSeq([k \in DOMAIN passed |-> copies[passed[k]].ops])
  IN IF op.type = NoneType
     THEN [ops |-> before \o <<[call EXCEPT !.id = Append(@, 8)], Constant(op.id, "none", 0)>>, result |-> op.id]
     ELSE [ops |-> Append(before, call), result |-> op.id]

AdjustReturn(f, op) ==
  [op EXCEPT !.operands = SelectSeq(@, LAMBDA v : TypeOf(f, v) # NoneType)]

\* Faulty: the arguments of a call are passed on as they are.
AdjustKeepCalls(m) ==
  LET Rewrite(f) == Convert(LAMBDA op : IF op.name = "return" THEN Keep(AdjustReturn(f, op)) ELSE Keep(op), f, <<>>)
  IN OnFuncs(m, LAMBDA f : AdjustFunc(Rewrite(f)))

AdjustCallingConventions(m) ==
  LET Rewrite(f) ==
        Convert(LAMBDA op : CASE op.name = "call"   -> AdjustCall(m, f, op)
                              [] op.name = "return" -> Keep(AdjustReturn(f, op))
                              [] OTHER              -> Keep(op), f, <<>>)
  IN OnFuncs(m, LAMBDA f : AdjustFunc(Rewrite(f)))

-----------------------------------------------------------------------------
\* InlineGlobalSlots

SlotUsers(m, s) ==
  UNION {{op \in ToSet(OpsOf(m.funcs[n])) : op.symbol = s /\ op.name \in {"slot.get", "slot.set"}} :
           n \in DOMAIN m.funcs}

\* Only what is used is looked at: a slot without users stays for symbol-dce.
Inlined(m) ==
  {s \in DOMAIN m.slots :
     /\ SlotUsers(m, s) # {}
     /\ m.slots[s].isPrivate
     /\ \A op \in SlotUsers(m, s) : op.name = "slot.get"}

\* Each get becomes a clone of the initializer.
InlineGlobalSlots(m) ==
  LET inlined == Inlined(m)
      Clone(op) ==
        IF op.name = "slot.get" /\ op.symbol \in inlined
        THEN Keep([Op(op.id, "literal", <<>>, m.slots[op.symbol].type)
                     EXCEPT !.symbol = m.slots[op.symbol].symbol])
        ELSE Keep(op)
  IN [OnFuncs(m, LAMBDA f : Convert(Clone, f, <<>>)) EXCEPT
        !.slots = [s \in DOMAIN @ \ inlined |-> @[s]]]

-----------------------------------------------------------------------------
\* ReduceOpVariants

HasValueSemantics(op) == op.name \in {"add", "dim", "size", "len", "gt", "ne", "is"}

\* ConvertToImmutableTensors.  k numbers the new values.
ConvertToImmutable(f, op, k) ==
  LET at      == Append(op.id, k)
      tensors == SelectSeq([i \in DOMAIN op.operands |-> i],
                           LAMBDA i : TypeOf(f, op.operands[i]).kind = "tensor")
      copyOf  == [i \in ToSet(tensors) |-> Append(at, i)]
      before  == [j \in DOMAIN tensors |->
                    LET v == op.operands[tensors[j]]
                    IN Op(copyOf[tensors[j]], "copy.to_vtensor", <<v>>, getWithValueSemantics(TypeOf(f, v)))]
      onValues == [op EXCEPT !.operands = [i \in DOMAIN @ |-> IF i \in DOMAIN copyOf THEN copyOf[i] ELSE @[i]]]
  IN IF op.type.kind = "tensor"
     THEN before \o <<[onValues EXCEPT !.id = Append(at, 9), !.type = getWithValueSemantics(@)],
                      Op(op.id, "copy.to_tensor", <<Append(at, 9)>>, op.type)>>
     ELSE Append(before, onValues)

\* ReduceTrailingUnderscoreInplaceVariant: the variant without "_", whose
\* result overwrites operand 0; uses of the result use operand 0.
ReduceTrailingUnderscore(f, op) ==
  LET new   == [op EXCEPT !.name = "add", !.id = Append(op.id, 1)]
      value == Append(op.id, 2)
  IN [ops |-> ConvertToImmutable(f, new, 1) \o
              <<Op(value, "copy.to_vtensor", <<new.id>>, getWithValueSemantics(op.type)),
                Op(Append(op.id, 3), "overwrite", <<value, op.operands[1]>>, NoneType)>>,
      result |-> op.operands[1]]

\* A vtensor literal has the type of its attribute; a cast takes it to the type
\* the tensor literal had, which may say less, and a copy makes it a tensor.
ReduceLiteral(op) ==
  LET value == [Op(Append(op.id, 1), "vtensor.literal", <<>>, Type("vtensor", LiteralKnow[op.symbol]))
                  EXCEPT !.symbol = op.symbol]
      copy  == copyTensorToType(Append(op.id, 2), op.type, value.id, value.type)
  IN <<value>> \o Front(copy.ops) \o <<[Last(copy.ops) EXCEPT !.id = op.id]>>

ReduceOp(f, op) ==
  CASE op.name = "add_"    -> ReduceTrailingUnderscore(f, op)
    [] op.name = "literal" -> [ops |-> ReduceLiteral(op), result |-> op.id]
    [] HasValueSemantics(op) -> [ops |-> ConvertToImmutable(f, op, 1), result |-> op.id]
    [] OTHER -> Keep(op)

ReduceOpVariants(m) ==
  OnFuncs(m, LAMBDA f : Convert(LAMBDA op : ReduceOp(f, op), f, <<>>))

-----------------------------------------------------------------------------
\* RefineTypes

allowsTypeRefinement(op) ==
  op.name \notin {"derefine", "copy.to_tensor", "copy.to_vtensor", "slot.get", "slot.set", "prim.If",
                  "call", "return", "yield", "int", "bool", "none"}
WillBeSafelyRefined(op) == allowsTypeRefinement(op) \/ op.name \in {"copy.to_tensor", "copy.to_vtensor"}

\* What the analysis finds of an op's result from what it found of the operands.
FactOf(facts, op) ==
  LET k == [i \in DOMAIN op.operands |-> facts[op.operands[i]]]
  IN CASE op.name \in {"literal", "vtensor.literal"} -> op.type.know
       [] op.name \in {"copy.to_tensor", "copy.to_vtensor", "static_info_cast"} -> k[1]
       [] op.name = "add" -> Transfer("add", k, <<>>)
       [] op.name = "unsqueeze" -> Transfer("unsqueeze", k, <<0>>)
       [] OTHER -> op.type.know

\* The two yields of a prim.If meet in its result, one after the other.
Facts(f) ==
  LET FactsIn(block, facts) ==
        FoldLeft(LAMBDA known, op : (op.id :> FactOf(known, op)) @@ known, facts, block)
      IfFact(op, facts) ==
        LET yielded(b) == facts[Last(f.blocks[b]).operands[1]]
        IN CASE op.type = NoneType                -> op.type.know
             [] yielded("then") = op.type.know    -> op.type.know
             [] OTHER                             -> Join(yielded("then"), yielded("else"))
      Visit(known, op) ==
        IF op.name # "prim.If" THEN FactsIn(<<op>>, known)
        ELSE LET inside == FactsIn(f.blocks["else"], FactsIn(f.blocks["then"], known))
             IN (op.id :> IfFact(op, inside)) @@ inside
      ofArgs == [v \in {f.args[i].id : i \in DOMAIN f.args} |-> TypeOf(f, v).know]
  IN FoldLeft(Visit, ofArgs, f.blocks["entry"])

\* The type of an op's result is refined in place where the op takes it, by a
\* cast where it does not; users that cannot take it get a cast back.
RefineTypesOf(f) ==
  LET facts       == Facts(f)
      NewType(op) == [op.type EXCEPT !.know = facts[op.id]]
      refined     == {op \in ToSet(OpsOf(f)) : IsTensor(op.type) /\ NewType(op) # op.type}
      New(op)     == IF WillBeSafelyRefined(op) THEN op.id ELSE Append(op.id, 6)
      Old(op)     == Append(op.id, 7)
      forward     == [v \in {op.id : op \in refined} |-> New(CHOOSE op \in refined : op.id = v)]
      back        == [v \in DOMAIN forward |-> Append(v, 7)]
      Uses(op)    == WithOperands(op, IF WillBeSafelyRefined(op) THEN forward ELSE back)
      Refine(op)  ==
        IF \A r \in refined : r.id # op.id THEN <<Uses(op)>>
        ELSE (IF New(op) = op.id THEN <<[Uses(op) EXCEPT !.type = NewType(op)]>>
              ELSE <<Uses(op), Op(New(op), "static_info_cast", <<op.id>>, NewType(op))>>) \o
             (IF \E user \in UsersOf(f, op.id) : ~ WillBeSafelyRefined(user)
              THEN <<Op(Old(op), "static_info_cast", <<New(op)>>, op.type)>> ELSE <<>>)
  IN Convert(LAMBDA op : [ops |-> Refine(op), result |-> op.id], f, <<>>)

RefineTypes(m) == OnFuncs(m, RefineTypesOf)

-----------------------------------------------------------------------------
\* RefinePublicReturn

Called_(m, n) == \E k \in DOMAIN m.funcs : \E op \in ToSet(OpsOf(m.funcs[k])) : op.name = "call" /\ op.symbol = n

\* "unimplemented: cannot refine public return for public function with uses"
CanRefineReturn(m) == \A n \in DOMAIN m.funcs : m.funcs[n].isPublic => ~ Called_(m, n)

\* "if there is a TensorStaticInfoCastOp then the pre-casted operand"; tensors
\* are returned by value.
RefineReturnOf(f) ==
  LET ret == ReturnOf(f)
      PreCasted(v) ==
        LET casts == {op \in DefinersOf(f, v) : op.name = "static_info_cast"}
        IN IF casts = {} THEN v ELSE (CHOOSE op \in casts : TRUE).operands[1]
      New(i) ==
        LET v    == PreCasted(ret.operands[i])
            type == TypeOf(f, v)
        IN IF IsTensor(type)
           THEN [type |-> getWithValueSemantics(type)] @@
                copyTensorToType(ret.id \o <<6, i>>, getWithValueSemantics(type), v, type)
           ELSE [ops |-> <<>>, result |-> v, type |-> type]
      new == [i \in DOMAIN ret.operands |-> New(i)]
  IN IF ~ f.isPublic THEN f
     ELSE [f EXCEPT
             !.results = [i \in DOMAIN new |-> new[i].type],
             !.blocks["entry"] = Front(@) \o FlattenSeq([i \in DOMAIN new |-> new[i].ops]) \o
                                 <<[ret EXCEPT !.operands = [i \in DOMAIN new |-> new[i].result]]>>]

RefinePublicReturn(m) == OnFuncs(m, RefineReturnOf)

-----------------------------------------------------------------------------
\* MaximizeValueSemantics: what each pattern makes of a copy.to_tensor.

CanInterpret(f, copy) ==
  \A user \in UsersOf(f, copy.id) :
    BlockOf(f, user) = BlockOf(f, copy) /\ user.name \in {"copy.to_vtensor", "overwrite"}

\* Faulty: writes are dropped, every read is of the value copied.
InterpretNoWrites(f, copy) ==
  LET gone == {copy.id} \cup {user.id : user \in UsersOf(f, copy.id)}
  IN Convert(LAMBDA op : IF op.id \in gone THEN [ops |-> <<>>, result |-> copy.operands[1]] ELSE Keep(op), f, <<>>)

\* The users in the order of the block: a read is replaced by the value held
\* there, a write changes the value held.
InterpretUsers(f, copy) ==
  LET b == BlockOf(f, copy)
      Visit(done, op) ==
        LET o == WithOperands(op, done.map)
        IN CASE copy.id \notin ToSet(op.operands) -> [done EXCEPT !.ops = Append(@, o)]
             [] op.name = "copy.to_vtensor" -> [done EXCEPT !.map = (op.id :> done.held) @@ @]
             [] op.name = "overwrite" -> [done EXCEPT !.held = o.operands[1]]
      start == [ops |-> <<>>, map |-> <<>>, held |-> copy.operands[1]]
      out   == FoldLeft(Visit, start, SelectSeq(f.blocks[b], LAMBDA op : op.id # copy.id))
  IN [f EXCEPT !.blocks = [c \in DOMAIN @ |->
        IF c = b THEN out.ops ELSE ConvertBlock(Keep, @[c], out.map).ops]]

\* The forward slice of a copy: the results of views of it, of views of those.
ViewsOf(f, copy) ==
  FoldLeft(LAMBDA found, op : IF op.name = "unsqueeze" /\ op.operands[1] \in found
                              THEN found \cup {op.id} ELSE found,
           {copy.id}, OpsOf(f))

CanRewriteViews(f, copy) ==
  \A v \in ViewsOf(f, copy) : \A user \in UsersOf(f, v) : user.name \in {"copy.to_vtensor", "unsqueeze"}

\* The slice on vtensors; the copy stays, unused.
RewriteViews(f, copy) ==
  LET slice == ViewsOf(f, copy)
      New(op) ==
        CASE op.id = copy.id -> [ops |-> <<op>>, result |-> copy.operands[1]]
          [] op.name = "copy.to_vtensor" /\ \E o \in ToSet(OpsOf(f)) :
                                              o.id = op.id /\ o.operands[1] \in slice ->
               [ops |-> <<>>, result |-> op.operands[1]]
          [] op.id \in slice \ {copy.id} -> Keep([op EXCEPT !.type = getWithValueSemantics(@)])
          [] OTHER -> Keep(op)
  IN Convert(New, f, <<>>)

\* What one application of a pattern may make of f.
MaximizedOnce(f) ==
  UNION {(IF CanInterpret(f, copy) THEN {InterpretUsers(f, copy)} ELSE {}) \cup
         (IF CanRewriteViews(f, copy) /\ UsersOf(f, copy.id) # {} THEN {RewriteViews(f, copy)} ELSE {}) :
           copy \in {op \in ToSet(OpsOf(f)) : op.name = "copy.to_tensor"}}

-----------------------------------------------------------------------------
\* VerifyInvariantsBeforeBackendLowering

SupportedValue(type) == type.kind = "vtensor" => type.know.hasSizes /\ type.know.dtype # NoDtype

BackendInvariants(m) ==
  \A n \in DOMAIN m.funcs :
    /\ \A i \in DOMAIN m.funcs[n].args : SupportedValue(m.funcs[n].args[i].type)
    /\ \A op \in ToSet(OpsOf(m.funcs[n])) : op.name # "append" /\ SupportedValue(op.type)

=============================================================================
