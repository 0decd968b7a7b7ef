--------------------------- MODULE ImportedFunctions ---------------------------
(***************************************************************************)
(* IValueImporter imports the functions of a compilation unit with         *)
(* NodeImporter.  A world has its program too, with the functions of all   *)
(* units; those it cannot import are those for which importing the graph   *)
(* throws.                                                                 *)
(***************************************************************************)
EXTENDS IValueImporter, NodeImporter

ASSUME UnimportableFunctionsThrow ==
  \A w \in Worlds : \A unit \in DOMAIN w.units : \A name \in ToSet(w.units[unit]) :
    ImportFunction(w.program, name).status = IF name \in w.unimportable THEN "thrown" ELSE "ok"

Functions == {block[i].of : i \in {j \in Positions : block[j].op = "func"}}

-----------------------------------------------------------------------------
\* What the verifiers of MLIR and of the dialect ask of a function.

\* isValidSubtype
RECURSIVE IsValidSubtype(_, _)
IsValidSubtype(sub, t) ==
  \/ sub = t
  \/ t[1] = "optional" /\ (sub[1] = "none" \/ IsValidSubtype(sub, t[2]))
  \/ sub[1] = "tensor" /\ t = <<"tensor", "unknown">>

Terminators == {"torch.prim.If.yield", "torch.prim.Loop.condition", "std.return"}

\* The op's own verifier: `types` are the types of values, `parent` those that
\* what ends the block has to deliver.
OpVerifies(op, types, parent) ==
  LET Types(values) == [i \in DOMAIN values |-> types[values[i]]]
      ins  == Types(op.operands)
      outs == Types(op.results)
  IN CASE op.name = "torch.derefine" -> IsValidSubtype(ins[1], outs[1])
       [] op.name = "ListConstruct" -> \A i \in DOMAIN ins : ins[i][1] = outs[1][2][1]
       [] op.name = "TupleConstruct" -> outs[1] = <<"tuple", ins>>
       [] op.name = "torch.prim.If" ->
            /\ ins = <<<<"bool">>>>
            /\ Len(op.regions) = 2 /\ \A r \in 1 .. 2 : op.regions[r].args = <<>>
       [] op.name = "torch.prim.Loop" ->
            /\ ins = <<<<"int">>, <<"bool">>>> \o outs
            /\ Len(op.regions) = 1 /\ Types(op.regions[1].args) = <<<<"int">>>> \o outs
       [] op.name = "std.call_indirect" -> ins[1] = <<"function", Tail(ins), outs>>
       [] op.name \in Terminators -> ins = parent
       [] OTHER -> TRUE

\* What the terminator of an op's regions has to deliver.
Delivered(op, types) ==
  LET outs == [i \in DOMAIN op.results |-> types[op.results[i]]]
  IN IF op.name = "torch.prim.Loop" THEN <<<<"bool">>>> \o outs ELSE outs

\* Every op of a block verifies, uses what has been defined before it in its
\* block or in those around it, and a terminator comes last.
RECURSIVE BlockVerifies(_, _, _, _)
BlockVerifies(b, visible, types, parent) ==
  \A k \in DOMAIN b.ops :
    LET op   == b.ops[k]
        seen == visible \cup ToSet(b.args) \cup UNION {ToSet(b.ops[l].results) : l \in 1 .. k - 1}
    IN /\ ToSet(op.operands) \subseteq seen
       /\ OpVerifies(op, types, parent)
       /\ op.name \in Terminators <=> k = Len(b.ops)
       /\ \A r \in DOMAIN op.regions : BlockVerifies(op.regions[r], seen, types, Delivered(op, types))

\* In TorchScript a value can be used wherever one of a supertype is asked for,
\* "every use can have a different type"; after the import the types agree, and
\* what is used has been defined, at every depth of nested ifs and loops.
FunctionVerifies(f) ==
  /\ [i \in DOMAIN f.block.args |-> f.types[f.block.args[i]]] = f.type[2]
  /\ BlockVerifies(f.block, {}, f.types, f.type[3])
ImportedFunctionsVerify ==
  pc \in {"done", "error"} =>
    \A name \in Functions : FunctionVerifies(ImportFunction(world.program, name))

-----------------------------------------------------------------------------
\* The graph that a function of the IR stands for.

\* How a kind of node is called.
OpName(kind) == CASE kind \in {"If", "Loop", "CallMethod"} -> "torch.prim." \o kind
                  [] kind = "CallFunction" -> "std.call_indirect"
                  [] OTHER -> kind

Derefines(b) == {k \in DOMAIN b.ops : b.ops[k].name = "torch.derefine"}
Proper(b) == SelectSeq(b.ops, LAMBDA op : op.name # "torch.derefine")

\* What stands for which value of the graph, by their places: the pairs of block
\* b for jitBlock, and of the blocks in it.
RECURSIVE Places(_, _)
Places(jitBlock, b) ==
  LET proper == Proper(b)
      Pairs(jitValues, values) == {<<jitValues[i], values[i]>> : i \in DOMAIN jitValues}
  IN Pairs(jitBlock.params, b.args)
       \cup UNION {Pairs(jitBlock.nodes[k].outs, proper[k].results)
                     \cup UNION {Places(jitBlock.nodes[k].blocks[r], proper[k].regions[r]) :
                                 r \in DOMAIN jitBlock.nodes[k].blocks} : k \in DOMAIN jitBlock.nodes}

\* The derefines of b and of the blocks in it: what each makes, of what.
RECURSIVE Casts(_)
Casts(b) == {<<b.ops[k].results[1], b.ops[k].operands[1]>> : k \in Derefines(b)}
              \cup UNION {UNION {Casts(b.ops[k].regions[r]) : r \in DOMAIN b.ops[k].regions} : k \in DOMAIN b.ops}

\* The same nodes in the same order, which use the same values, in every block.
RECURSIVE BlockMirrors(_, _, _)
BlockMirrors(jitBlock, b, StandsFor) ==
  LET proper == Proper(b)
      Same(jitValues, values) == /\ Len(jitValues) = Len(values)
                                 /\ \A i \in DOMAIN values : <<jitValues[i], values[i]>> \in StandsFor
  IN /\ Len(proper) = Len(jitBlock.nodes) + 1
     /\ Same(jitBlock.returns, Last(proper).operands)
     /\ \A k \in DOMAIN jitBlock.nodes :
          LET node == jitBlock.nodes[k]
          IN /\ proper[k].name = OpName(node.kind) /\ proper[k].attr = node.attr
             /\ Same(node.ins, proper[k].operands)
             /\ Len(proper[k].regions) = Len(node.blocks)
             /\ \A r \in DOMAIN node.blocks : BlockMirrors(node.blocks[r], proper[k].regions[r], StandsFor)

\* A value stands for what it was cast from, too.
WithCasts(places, casts) == places \cup UNION {{<<p[1], c[1]>> : c \in {d \in casts : d[2] = p[2]}} : p \in places}
FunctionMirrors(jitBlock, b) == BlockMirrors(jitBlock, b, WithCasts(Places(jitBlock, b), Casts(b)))

\* Without the derefines, which change no value, the function is its graph: a
\* use was not bound to a value of another block or iteration, nothing was left
\* out, and ifs and loops have their blocks in their order.
ImportedFunctionsMirrorTheirGraphs ==
  pc \in {"done", "error"} =>
    \A name \in Functions :
      FunctionMirrors(world.program.funcs[name].block, ImportFunction(world.program, name).block)

\* An imported function is accepted by the verifiers and stands for the graph
\* it was imported from.
FunctionsStandForTheirGraphs == ImportedFunctionsVerify /\ ImportedFunctionsMirrorTheirGraphs
=============================================================================
