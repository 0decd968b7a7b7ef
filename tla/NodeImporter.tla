----------------------------- MODULE NodeImporter -----------------------------
(***************************************************************************)
(* class NodeImporter and importJitFunctionAsFuncOp: the graph of a        *)
(* TorchScript function becomes a func op.  The import is one recursive    *)
(* call that calls nothing back, so it is an operator here.                *)
(*                                                                         *)
(* A program is [funcs]: name -> [args, rets, types, block]: the types of  *)
(* the schema, the type of each value of the graph, and the graph's block  *)
(*   block  [params, nodes, returns]                                       *)
(*   node   [kind, ins, outs, blocks, attr], attr being the name of an     *)
(*          attribute, the value of a constant, the function a method call *)
(*          resolves to, or the name of an operator with a schema          *)
(* Types are tuples that start with their kind: <<"int">>, <<"tensor", x>> *)
(* with what is known of it, <<"optional", t>>, <<"list", t>>,             *)
(* <<"tuple", ts>>, <<"class", c>>, <<"function", f>>, ...                 *)
(* A function of the IR is [type, block]: blocks are [args, ops], ops      *)
(* [name, operands, results, regions, attr], and a value is a number, its  *)
(* index in the sequence of the types of the values made so far.           *)
(***************************************************************************)
EXTENDS Naturals, Sequences, SequencesExt

\* What mapping a type gives when it gives none: a null type, an exception, or a
\* type made of a null type, after which nothing is defined.
NullType == <<"null">>
Thrown == <<"thrown">>
Undefined == <<"undefined">>
NoType == {NullType, Thrown, Undefined}

\* TypeMapper::mapFromTorchType
RECURSIVE MapFromTorchType(_)
MapFromTorchType(t) ==
  CASE t[1] = "tensor" -> IF t[2] = "complex" THEN NullType ELSE t
    [] t[1] = "class" -> <<"nn.Module", t[2]>>
    [] t[1] = "custom" -> IF t[2] = "LinearPackedParamsBase" THEN <<"LinearParams">> ELSE Thrown
    [] t[1] \in {"int", "float", "bool", "str", "none", "Device"} -> t
    [] t[1] \in {"optional", "list"} ->
         LET contained == MapFromTorchType(t[2])
         IN IF contained = NullType THEN Undefined
            ELSE IF contained \in NoType THEN contained ELSE <<t[1], contained>>
    [] t[1] = "tuple" ->
         LET contained == [i \in DOMAIN t[2] |-> MapFromTorchType(t[2][i])]
         IN IF Thrown \in Range(contained) THEN Thrown
            ELSE IF NoType \cap Range(contained) # {} THEN Undefined ELSE <<"tuple", contained>>
    [] OTHER -> NullType

\* getMlirTypesFromValues, getFunctionTypeFromSchema: a null type is thrown for.
MapTypes(ts) == [i \in DOMAIN ts |-> LET t == MapFromTorchType(ts[i])
                                     IN IF t = NullType THEN Thrown ELSE t]

Failures(types) == SelectSeq(types, LAMBDA t : t \in NoType)

FunctionType(func) == <<"function", MapTypes(func.args), MapTypes(func.rets)>>

-----------------------------------------------------------------------------
\* The import so far: status, valueMap (jitValue -> value), the type of each
\* value, and the ops of the block being filled.

Start == [status |-> "ok", valueMap |-> [v \in {} |-> 0], types |-> <<>>, ops |-> <<>>]

Fail(st, failure) == [st EXCEPT !.status = failure[1]]

LookupMappedValues(st, jitValues) == [i \in DOMAIN jitValues |-> st.valueMap[jitValues[i]]]

TypesOf(st, values) == [i \in DOMAIN values |-> st.types[values[i]]]

NewValues(st, types) == [i \in DOMAIN types |-> Len(st.types) + i]

CreateOperationAtEnd(st, name, operands, resultTypes, attr) ==
  [st EXCEPT !.types = @ \o resultTypes,
             !.ops = Append(@, [name |-> name, operands |-> operands, regions |-> <<>>, attr |-> attr,
                                results |-> NewValues(st, resultTypes)])]

MapValues(st, jitValues, values) ==
  [st EXCEPT !.valueMap = [v \in DOMAIN @ \cup Range(jitValues) |->
                             IF v \in Range(jitValues)
                             THEN values[CHOOSE i \in DOMAIN jitValues : jitValues[i] = v] ELSE @[v]]]

\* mapResults of the op created last.
MapResults(st, node) == MapValues(st, node.outs, Last(st.ops).results)

\* derefineValues: the values to use in their stead, and the import with the ops
\* that make them.
DerefineValues(st, values, expectedTypes) ==
  FoldLeft(LAMBDA acc, i :
             IF acc.st.types[values[i]] = expectedTypes[i]
             THEN [acc EXCEPT !.values = Append(@, values[i])]
             ELSE LET next == CreateOperationAtEnd(acc.st, "torch.derefine", <<values[i]>>,
                                                   <<expectedTypes[i]>>, "")
                  IN [st |-> next, values |-> Append(acc.values, Len(next.types))],
           [st |-> st, values |-> <<>>], [i \in DOMAIN values |-> i])

\* An op whose operands are derefined first.
CreateDerefined(st, name, fixed, values, expectedTypes, resultTypes, attr) ==
  LET derefined == DerefineValues(st, values, expectedTypes)
  IN CreateOperationAtEnd(derefined.st, name, fixed \o derefined.values, resultTypes, attr)

-----------------------------------------------------------------------------
\* The type of the result of a prim::Constant.
ConstantType(program, t) ==
  CASE t[1] \in {"none", "bool", "int", "float", "str"} -> t
    [] t[1] = "function" -> LET type == FunctionType(program.funcs[t[2]])
                                failures == Failures(type[2] \o type[3])
                            IN IF failures = <<>> THEN type ELSE failures[1]
    [] OTHER -> Thrown

\* The types of the entry block of a callee, which are not tested for null.
ExpectedTypes(callee) ==
  [i \in DOMAIN callee.block.params |->
     LET t == MapFromTorchType(callee.types[callee.block.params[i]])
     IN IF t = NullType THEN Undefined ELSE t]

Trivial == {"schema", "ListUnpack", "ListConstruct", "TupleConstruct", "GetAttr", "SetAttr"}

\* Faulty: the values are used as they are.
CreateTerminatorPlain(st, name, values, expectedTypes) ==
  CreateOperationAtEnd(st, name, values, <<>>, "")

\* createTerminator, of each kind of block.
CreateTerminator(st, name, values, expectedTypes) ==
  CreateDerefined(st, name, <<>>, values, expectedTypes, <<>>, "")

RECURSIVE ImportBlock(_, _, _, _, _)

\* The blocks of the op created last, in their order.
ImportRegions(program, func, st, jitBlocks, terminator) ==
  FoldLeft(LAMBDA acc, jitBlock :
             IF acc.status # "ok" THEN acc
             ELSE LET inner == ImportBlock(program, func, [acc EXCEPT !.ops = <<>>], jitBlock, terminator)
                      op    == Last(acc.ops)
                  IN [inner.st EXCEPT !.ops = Append(Front(acc.ops),
                                                     [op EXCEPT !.regions = Append(@, inner.block)])],
           st, jitBlocks)

ImportLoop(program, func, st, node, resultTypes) ==
  LET ins    == LookupMappedValues(st, node.ins)
      opened == MapResults(CreateDerefined(st, "torch.prim.Loop", SubSeq(ins, 1, 2),
                                           SubSeq(ins, 3, Len(ins)), resultTypes, resultTypes, ""), node)
  IN ImportRegions(program, func, opened, node.blocks,
                   [name |-> "torch.prim.Loop.condition", types |-> <<<<"bool">>>> \o resultTypes])

\* Faulty: the second block becomes the first region.
ImportIfSwapped(program, func, st, node, resultTypes) ==
  LET opened == MapResults(CreateOperationAtEnd(st, "torch.prim.If", LookupMappedValues(st, node.ins),
                                                resultTypes, ""), node)
  IN ImportRegions(program, func, opened, Reverse(node.blocks),
                   [name |-> "torch.prim.If.yield", types |-> resultTypes])

ImportIf(program, func, st, node, resultTypes) ==
  LET opened == MapResults(CreateOperationAtEnd(st, "torch.prim.If", LookupMappedValues(st, node.ins),
                                                resultTypes, ""), node)
  IN ImportRegions(program, func, opened, node.blocks,
                   [name |-> "torch.prim.If.yield", types |-> resultTypes])

\* A call: what comes first is the function that is called.
ImportCall(st, node, name, fixed, expectedTypes, resultTypes) ==
  LET ins == LookupMappedValues(st, node.ins)
  IN IF Failures(expectedTypes) # <<>> THEN Fail(st, Failures(expectedTypes)[1])
     ELSE MapResults(CreateDerefined(st, name, SubSeq(ins, 1, fixed), SubSeq(ins, fixed + 1, Len(ins)),
                                     expectedTypes, resultTypes, node.attr), node)

\* The node once the types of its results are known.
ImportTyped(program, func, st, node, resultTypes) ==
  CASE node.kind = "unhandled" -> Fail(st, Thrown)
    [] node.kind # "unhandled" /\ Failures(resultTypes) # <<>> -> Fail(st, Failures(resultTypes)[1])
    [] OTHER ->
       CASE node.kind = "Loop" -> ImportLoop(program, func, st, node, resultTypes)
         [] node.kind = "If" -> ImportIf(program, func, st, node, resultTypes)
         [] node.kind = "CallMethod" ->
              ImportCall(st, node, "torch.prim.CallMethod", 0,
                         ExpectedTypes(program.funcs[node.attr]), resultTypes)
         [] node.kind = "CallFunction" ->
              ImportCall(st, node, "std.call_indirect", 1,
                         ExpectedTypes(program.funcs[func.types[node.ins[1]][2]]), resultTypes)
         [] node.kind \in Trivial \cup {"Constant"} ->
              MapResults(CreateOperationAtEnd(st, node.kind, LookupMappedValues(st, node.ins),
                                              resultTypes, node.attr), node)

\* NodeImporter::importNode
ImportNode(program, func, st, node) ==
  LET outTypes == [i \in DOMAIN node.outs |-> func.types[node.outs[i]]]
  IN IF st.status # "ok" THEN st
     ELSE ImportTyped(program, func, st, node,
                      IF node.kind = "Constant" THEN <<ConstantType(program, outTypes[1])>>
                      ELSE MapTypes(outTypes))

\* The arguments of the block: of the types given, or no block.
OpenBlock(st, jitBlock, argTypes) ==
  IF Failures(argTypes) # <<>> THEN Fail(st, Failures(argTypes)[1])
  ELSE MapValues([st EXCEPT !.types = @ \o argTypes], jitBlock.params, NewValues(st, argTypes))

CloseBlock(st, jitBlock, terminator) ==
  IF st.status # "ok" THEN st
  ELSE CreateTerminator(st, terminator.name, LookupMappedValues(st, jitBlock.returns), terminator.types)

\* NodeImporter::importBlock: the block, and the import with it.
ImportBlock(program, func, st, jitBlock, terminator) ==
  LET argTypes == MapTypes([i \in DOMAIN jitBlock.params |-> func.types[jitBlock.params[i]]])
      filled   == FoldLeft(LAMBDA acc, node : ImportNode(program, func, acc, node),
                           OpenBlock(st, jitBlock, argTypes), jitBlock.nodes)
      Closed(closed) == [st |-> closed, block |-> [args |-> NewValues(st, argTypes), ops |-> closed.ops]]
  IN Closed(CloseBlock(filled, jitBlock, terminator))

\* importJitFunctionAsFuncOp: the func op when the status is "ok".
FuncOp(type, body) ==
  IF body.st.status # "ok" THEN [status |-> body.st.status]
  ELSE [status |-> "ok", type |-> type, types |-> body.st.types, block |-> body.block]

ImportFunction(program, name) ==
  LET func == program.funcs[name]
      Import(type) ==
        IF Failures(type[2] \o type[3]) # <<>> THEN [status |-> Failures(type[2] \o type[3])[1][1]]
        ELSE FuncOp(type, ImportBlock(program, func, Start, func.block,
                                      [name |-> "std.return", types |-> type[3]]))
  IN Import(FunctionType(func))
=============================================================================
