---------------------------- MODULE FuncBuilder ----------------------------
(***************************************************************************)
(* The func op a capture or an import builds (func_builder.{h,cpp}, and    *)
(* createMlirOperationAtEnd of mlir_utils.h): one block of operations, the *)
(* constant area at its top, and the tensors mapped so far to MLIR values. *)
(*                                                                         *)
(* An operation keeps the number it was created under as its identity,     *)
(* because the block is inserted into at three places.  A value is the     *)
(* number of its operation and a result index; block arguments have        *)
(* operation 0.  Types are left out.                                       *)
(***************************************************************************)
EXTENDS Naturals, Sequences, SequencesExt

(* An operation with its number, name, operands, number of results and     *)
(* attribute (the value of a constant or of a literal).                    *)
Operation(id, name, operands, results, attr) ==
    [id |-> id, name |-> name, operands |-> operands, results |-> results, attr |-> attr]

Value(id, result) == [op |-> id, result |-> result]
Argument(i) == Value(0, i)
NoValue == Value(0, 0)
NoAttr == <<>>

(* FuncBuilder::createFunction, with the arguments startCaptureFunction    *)
(* maps right after it.                                                    *)
CreateFunction(args) ==
    [args |-> Len(args), block |-> <<>>, constants |-> 0, results |-> 0,
     tensorValueMap |-> [i \in 1..Len(args) |-> [tensor |-> args[i], value |-> Argument(i)]]]

NextId(f) == Len(f.block) + 1

(* insertConstantOp: after the constant inserted last, first of all at the *)
(* top of the block.                                                       *)
InsertConstantOp(f, name, attr) ==
    LET op == Operation(NextId(f), name, <<>>, 1, attr)
    IN  [[f EXCEPT !.block = InsertAt(@, f.constants + 1, op)] EXCEPT !.constants = @ + 1]

(* Mutant: what is not a terminator goes into the constant area.           *)
InsertInConstantArea(f, name, operands, results) ==
    [f EXCEPT !.block = InsertAt(f.block, f.constants + 1,
                                 Operation(NextId(f), name, operands, results, NoAttr))]

(* insertBeforeTerminator of a BlockBuilder made with a null terminator:   *)
(* the C API appends to the block.                                         *)
InsertBeforeTerminator(f, name, operands, results) ==
    [f EXCEPT !.block = Append(@, Operation(NextId(f), name, operands, results, NoAttr))]

IsTerminator(op) == op.name = "std.return"

(* createMlirOperationAtEnd: before the terminator the block has by now.   *)
CreateOperationAtEnd(f, name, operands, results, attr) ==
    LET op == Operation(NextId(f), name, operands, results, attr)
    IN  IF f.block # <<>> /\ IsTerminator(Last(f.block))
        THEN [f EXCEPT !.block = InsertAt(f.block, Len(f.block), op)]
        ELSE [f EXCEPT !.block = Append(@, op)]

MapTensor(f, tensor, value) ==
    [f EXCEPT !.tensorValueMap = Append(@, [tensor |-> tensor, value |-> value])]

MappedTensors(f) == {f.tensorValueMap[i].tensor : i \in 1..Len(f.tensorValueMap)}

(* lookupTensor: the mapping made last.                                    *)
LookupTensor(f, tensor) ==
    LET hits == {i \in 1..Len(f.tensorValueMap) : f.tensorValueMap[i].tensor = tensor}
    IN  IF hits = {} THEN NoValue
        ELSE f.tensorValueMap[CHOOSE i \in hits : \A j \in hits : j <= i].value

RewriteFuncReturnTypes(f, count) == [f EXCEPT !.results = count]

-----------------------------------------------------------------------------
(* What the MLIR verifier asks of the block.                               *)

(* Position of the operation numbered id.                                  *)
PositionOf(f, id) == CHOOSE i \in 1..Len(f.block) : f.block[i].id = id

Dominates(f, value, position) ==
    \/ value.op = 0 /\ value.result \in 1..f.args
    \/ /\ value.op # 0
       /\ PositionOf(f, value.op) < position
       /\ value.result \in 1..f.block[PositionOf(f, value.op)].results

ReturnIsLast(f) ==
    \A i \in 1..Len(f.block) : IsTerminator(f.block[i]) => i = Len(f.block)
=============================================================================
