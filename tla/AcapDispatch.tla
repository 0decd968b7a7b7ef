---------------------------- MODULE AcapDispatch ----------------------------
(***************************************************************************)
(* ATen capture (acap_dispatch.{h,cpp}, startCaptureFunction of            *)
(* module_builder.cpp): a controller is a Python context manager; while it *)
(* is the innermost one active on a thread, the kernels that thread        *)
(* dispatches are recorded into its function and then run for real.        *)
(*                                                                         *)
(* A kernel is two or more steps: it maps its operands, redispatches       *)
(* (kernels called from within may be recorded as well, and other threads  *)
(* run), and records itself when the real kernel is back.                  *)
(*                                                                         *)
(* One thread uses a controller at a time: the class has no lock.          *)
(***************************************************************************)
EXTENDS AtenKernels, FuncBuilder, TLC

CONSTANTS
    Thread,
    Controller,
    InitialHeap,    \* tensors that exist before any capture
    Importable,     \* tensors of a dtype convertTensorToMlirElementsAttr reads
    Calls(_),       \* kernel calls a program may make, by heap
    ArgumentLists,  \* argument lists captures are started with
    Composite,      \* kernels that call a convolution in their implementation
    MaxKernels,     \* bound on the kernels dispatched
    MaxDepth        \* bound on the contexts active on a thread

ASSUME HeapAssumption ==
    InitialHeap \in [storage : Seq(1..Len(InitialHeap.contents)), contents : Seq(Seq(STRING))]

ASSUME ArgumentsAssumption == ArgumentLists \subseteq Seq(1..Len(InitialHeap.storage))

VARIABLES
    heap,           \* storages and contents of all tensors
    fn,             \* the function under construction of every controller made so far
    hasReturned,    \* per controller
    activeStack,    \* per thread: controllers, innermost first
    frames,         \* per thread: the kernels on its call stack, innermost first
    kernels,        \* number of kernels dispatched
    inputs,         \* history: contents of a capture's arguments at its start
    returned,       \* history: contents of the tensors given to returns()
    intact,         \* history: every effect on the capture's tensors was recorded
    late            \* history: a kernel was recorded after returns()

vars == <<heap, fn, hasReturned, activeStack, frames, kernels, inputs, returned, intact, late>>
history == <<inputs, returned, intact, late>>

Started == DOMAIN fn

Init ==
    /\ heap = InitialHeap
    /\ fn = <<>>
    /\ hasReturned = [c \in Controller |-> FALSE]
    /\ activeStack = [th \in Thread |-> <<>>]
    /\ frames = [th \in Thread |-> <<>>]
    /\ kernels = 0
    /\ inputs = [c \in Controller |-> <<>>]
    /\ returned = [c \in Controller |-> <<>>]
    /\ intact = [c \in Controller |-> TRUE]
    /\ late = [c \in Controller |-> FALSE]

-----------------------------------------------------------------------------
(* Which kernels are intercepted.                                          *)

Idle(th) == frames[th] = <<>>
OnlyUser(th, c) == \A other \in Thread \ {th} : ~Contains(activeStack[other], c)

(* The frame of an intercepted kernel: its call, the controller recording  *)
(* it, its operands and the keys it excludes until it returns.             *)
Frame(call, c, operands, excluded) ==
    [call |-> call, controller |-> c, operands |-> operands, excluded |-> excluded]

Included(th) == IF activeStack[th] = <<>> THEN {} ELSE {"acap", "acapGrad"}
Excluded(th) == UNION {frames[th][i].excluded : i \in 1..Len(frames[th])}
LiveKeys(th) == Included(th) \ Excluded(th)

GradKernels == {"convolution", "mkldnn_convolution_backward"}

(* arange is taken over for BackendSelect, ahead of both keys, and its     *)
(* kernel excludes both: its result is memorized when it is first used.    *)
BackendSelected(name) == name = "arange"

(* The kernel the dispatcher finds: the autograd key goes first.           *)
Dispatched(th, name) ==
    CASE BackendSelected(name) -> "none"
      [] name \in GradKernels /\ "acapGrad" \in LiveKeys(th) -> "unboxed"
      [] ~BackendSelected(name) /\ name \notin GradKernels /\ "acap" \in LiveKeys(th) ->
           IF name = "copy_" THEN "unboxed" ELSE "fallback"
      [] OTHER -> "none"

(* Mutant: the stack of contexts is not the thread's own.                  *)
CurrentOfAnyThread(th) == Head(activeStack[CHOOSE u \in Thread : activeStack[u] # <<>>])

Current(th) == Head(activeStack[th])

-----------------------------------------------------------------------------
(* Operands and results.                                                   *)

(* A builder state while operands are added: the function, the values so   *)
(* far, and whether an operand was refused (an exception).                 *)
Builder(f) == [fn |-> f, values |-> <<>>, ok |-> TRUE]
AddValue(b, f, v) == [fn |-> f, values |-> Append(b.values, v), ok |-> b.ok]
Refuse(b) == [fn |-> b.fn, values |-> b.values, ok |-> FALSE]

(* convertTensorToMlirElementsAttr throws for dtypes it has no reader for. *)
CanConvert(t) == t \in Importable

(* Mutant: the literal is not remembered.                                  *)
ImportTensorAnew(b, t) ==
    IF ~CanConvert(t) THEN Refuse(b)
    ELSE AddValue(b, CreateOperationAtEnd(b.fn, "torch.tensor.literal", <<>>, 1, ContentOf(heap, t)),
                  Value(NextId(b.fn), 1))

(* importTensorByValue: a literal with the contents of now, remembered.    *)
ImportTensorByValue(b, t) ==
    IF ~CanConvert(t) THEN Refuse(b)
    ELSE LET f == CreateOperationAtEnd(b.fn, "torch.tensor.literal", <<>>, 1, ContentOf(heap, t))
         IN  AddValue(b, MapTensor(f, t, Value(NextId(b.fn), 1)), Value(NextId(b.fn), 1))

TensorValue(b, t) ==
    IF LookupTensor(b.fn, t) # NoValue THEN AddValue(b, b.fn, LookupTensor(b.fn, t))
    ELSE ImportTensorByValue(b, t)

ConstantValue(b, name, attr) ==
    AddValue(b, InsertConstantOp(b.fn, name, attr), Value(NextId(b.fn), 1))

(* An IValue that is no list: the null value if it cannot be mapped.       *)
MapLeaf(b, ival) ==
    CASE ival.kind = "scalar" -> ConstantValue(b, "torch.constant", ival.datum)
      [] ival.kind = "tensor" -> TensorValue(b, ival.tensor)
      [] ival.kind \in {"none", "undefined"} -> ConstantValue(b, "torch.constant.none", NoAttr)
      [] OTHER -> AddValue(b, b.fn, NoValue)

IfOk(b, c) == IF b.ok THEN c ELSE b

(* The elements of a sequence are added in order, until one is refused.    *)
InOrder(Add(_, _), b, s) ==
    LET upTo[k \in 0..Len(s)] ==
            IF k = 0 THEN b
            ELSE LET before == upTo[k - 1] IN IfOk(before, Add(before, s[k]))
    IN  upTo[Len(s)]

(* A list of the values of its elements, null ones included.               *)
MapList(MapOne(_, _), b, ival) ==
    LET e == InOrder(MapOne, Builder(b.fn), ival.elements)
    IN  IF ~e.ok THEN [fn |-> e.fn, values |-> b.values, ok |-> FALSE]
        ELSE AddValue(b, InsertBeforeTerminator(e.fn, "torch.prim.ListConstruct", e.values, 1),
                      Value(NextId(e.fn), 1))

(* mapIValueToMlirValue calls itself for the elements of a list; lists are *)
(* nested once at most here.                                               *)
MapElement(b, ival) ==
    IF ival.kind = "list" THEN MapList(MapLeaf, b, ival) ELSE MapLeaf(b, ival)

MapIValueToMlirValue(b, ival) ==
    IF ival.kind = "list" THEN MapList(MapElement, b, ival) ELSE MapLeaf(b, ival)

(* addOperand throws for a null value, of which there is nothing to keep.  *)
AddOperand(b, ival) ==
    LET mapped == MapIValueToMlirValue(b, ival)
    IN  IF mapped.ok /\ Last(mapped.values) = NoValue THEN Refuse(b) ELSE mapped

AddOperands(f, args) == InOrder(AddOperand, Builder(f), args)

(* addResult for every result, then create: the operation at the end, and  *)
(* the result tensors mapped by counting the TENSORS before them.          *)
ResultsSupported(results) == \A i \in 1..Len(results) : results[i].kind # "unsupported"

CreateOperationFromSchema(f, name, operands, results) ==
    CreateOperationAtEnd(f, name, operands, Len(results), NoAttr)

IsTensorResult(r) == r.kind \in {"tensor", "undefined"}

MapResult(before, id, result) ==
    LET count == before.resultCount + 1
    IN  IF IsTensorResult(result)
        THEN [fn |-> MapTensor(before.fn, result.tensor, Value(id, count)), resultCount |-> count]
        ELSE before

MapResults(created, id, results) ==
    LET upTo[k \in 0..Len(results)] ==
            IF k = 0 THEN [fn |-> created, resultCount |-> 0]
            ELSE MapResult(upTo[k - 1], id, results[k])
    IN  upTo[Len(results)].fn

Record(f, name, operands, results) ==
    MapResults(CreateOperationFromSchema(f, name, operands, results), NextId(f), results)

(* The arguments a kernel records: the backward convolution is emitted in  *)
(* the form backends implement, with its parameters put in that order.     *)
RecordedName(call) ==
    IF call.op = "mkldnn_convolution_backward" THEN "convolution_backward_overrideable" ELSE call.op

RecordedArgs(call) ==
    LET a == call.args
    IN  IF call.op = "mkldnn_convolution_backward" THEN <<a[2], a[1], a[3], a[5], a[4]>> ELSE a

-----------------------------------------------------------------------------
(* History: a storage written by a step that only `recorder` recorded.     *)

StorageKnown(f, storage) ==
    \E t \in MappedTensors(f) \ {0} : heap.storage[t] = storage

WrittenStorages(newHeap) ==
    {s \in 1..Len(heap.contents) : newHeap.contents[s] # heap.contents[s]}

NoteWrites(newHeap, recorder) ==
    intact' = [c \in Controller |->
        /\ intact[c]
        /\ \/ c \in recorder
           \/ c \notin Started
           \/ hasReturned[c]
           \/ \A s \in WrittenStorages(newHeap) : ~StorageKnown(fn[c], s)]

NoteLate(c, newFn) == late' = [late EXCEPT ![c] = @ \/ (hasReturned[c] /\ newFn # fn[c])]

-----------------------------------------------------------------------------
(* The controller.                                                         *)

(* ModuleBuilder::startCaptureFunction.                                    *)
StartCaptureFunction(c, args) ==
    /\ c \notin Started
    /\ fn' = [d \in Started \union {c} |-> IF d = c THEN CreateFunction(args) ELSE fn[d]]
    /\ inputs' = [inputs EXCEPT ![c] = [i \in 1..Len(args) |-> ContentOf(heap, args[i])]]
    /\ UNCHANGED <<heap, hasReturned, activeStack, frames, kernels, returned, intact, late>>

ContextEnter(th, c) ==
    /\ c \in Started
    /\ Idle(th) /\ OnlyUser(th, c)
    /\ Len(activeStack[th]) < MaxDepth
    /\ activeStack' = [activeStack EXCEPT ![th] = <<c>> \o @]
    /\ UNCHANGED <<heap, fn, hasReturned, frames, kernels, history>>

(* The body of returns(): look up or import every tensor, append the       *)
(* return.  A tensor that cannot be imported throws; what was imported     *)
(* before it stays.                                                        *)
DoReturns(c, tensors) ==
    LET b == InOrder(TensorValue, Builder(fn[c]), tensors)
        closed == InsertBeforeTerminator(b.fn, "std.return", b.values, 0)
    IN  /\ fn' = [fn EXCEPT ![c] = IF b.ok THEN RewriteFuncReturnTypes(closed, Len(tensors))
                                   ELSE b.fn]
        /\ hasReturned' = [hasReturned EXCEPT ![c] = b.ok]
        /\ returned' = [returned EXCEPT ![c] =
                IF b.ok THEN [i \in 1..Len(tensors) |-> ContentOf(heap, tensors[i])] ELSE @]

(* returns() throws when the function has returned, so only the first call *)
(* is a step.                                                              *)
Returns(th, c, tensors) ==
    /\ c \in Started
    /\ Idle(th) /\ OnlyUser(th, c)
    /\ ~hasReturned[c]
    /\ DoReturns(c, tensors)
    /\ UNCHANGED <<heap, activeStack, frames, kernels, inputs, intact, late>>

(* __exit__ of another controller than the innermost one throws.           *)
ContextExit(th) ==
    /\ Idle(th)
    /\ activeStack[th] # <<>>
    /\ activeStack' = [activeStack EXCEPT ![th] = Tail(@)]
    /\ IF hasReturned[Current(th)] THEN UNCHANGED <<fn, hasReturned, returned>>
       ELSE DoReturns(Current(th), <<>>)
    /\ UNCHANGED <<heap, frames, kernels, inputs, intact, late>>

-----------------------------------------------------------------------------
(* Kernels.                                                                *)

Dispatch(th, call) ==
    /\ Idle(th)
    /\ kernels < MaxKernels
    /\ kernels' = kernels + 1
    /\ call \in Calls(heap)

(* Not intercepted: neither key is live on the thread.                     *)
PassThrough(th, call) ==
    /\ Dispatch(th, call)
    /\ Dispatched(th, call.op) = "none"
    /\ heap' = Run(heap, call.op, call.args).heap
    /\ NoteWrites(heap', {})
    /\ UNCHANGED <<fn, hasReturned, activeStack, frames, inputs, returned, late>>

(* The part of an intercepted kernel ahead of its redispatch.  A refused   *)
(* operand throws: the real kernel does not run, the constants and         *)
(* literals made for the operands before it stay.                          *)
BeginKernel(th, call, excluded) ==
    LET c == Current(th)
        b == AddOperands(fn[c], RecordedArgs(call))
    IN  /\ fn' = [fn EXCEPT ![c] = b.fn]
        /\ NoteLate(c, b.fn)
        /\ frames' = IF b.ok
                     THEN [frames EXCEPT ![th] = <<Frame(call, c, b.values, excluded)>> \o @]
                     ELSE [frames EXCEPT ![th] = <<>>]
        /\ UNCHANGED <<heap, hasReturned, activeStack, inputs, returned, intact>>

HasVarArgs(name) == name = "format"

(* fallbackKernelImpl.                                                     *)
FallbackKernel(th, call) ==
    /\ Dispatch(th, call)
    /\ Dispatched(th, call.op) = "fallback"
    /\ ~hasReturned[Current(th)]
    /\ ~HasVarArgs(call.op)
    /\ BeginKernel(th, call, {"acap"})

(* verifyHasNotReturned and the check of the schema throw first.           *)
RefusedKernel(th, call) ==
    /\ Dispatch(th, call)
    /\ Dispatched(th, call.op) = "fallback"
    /\ hasReturned[Current(th)] \/ HasVarArgs(call.op)
    /\ UNCHANGED <<heap, fn, hasReturned, activeStack, frames, history>>

(* convolutionKernel, mklConvolutionBackward and copyUnderKernel.          *)
UnboxedKernel(th, call) ==
    /\ Dispatch(th, call)
    /\ Dispatched(th, call.op) = "unboxed"
    /\ BeginKernel(th, call, {"acap", "acapGrad"})

(* A convolution called by the implementation of the kernel redispatched   *)
(* to: the fallback has excluded only its own key.                         *)
NestedKernel(th, call) ==
    /\ Len(frames[th]) = 1
    /\ frames[th][1].call.op \in Composite
    /\ call.op = "convolution"
    /\ call.args[1] = frames[th][1].call.args[1]
    /\ kernels < MaxKernels
    /\ kernels' = kernels + 1
    /\ call \in Calls(heap)
    /\ Dispatched(th, call.op) = "unboxed"
    /\ BeginKernel(th, call, {"acap", "acapGrad"})

(* The real kernel is back.  Results the capture cannot express throw      *)
(* after it has run.                                                       *)
KernelReturns(th) ==
    /\ ~Idle(th)
    /\ LET frame == Head(frames[th])
           c == frame.controller
           ran == Run(heap, frame.call.op, frame.call.args)
           recorded == Record(fn[c], RecordedName(frame.call), frame.operands, ran.results)
           ok == ResultsSupported(ran.results)
       IN  /\ heap' = ran.heap
           /\ fn' = [fn EXCEPT ![c] = IF ok THEN recorded ELSE @]
           /\ frames' = [frames EXCEPT ![th] = IF ok THEN Tail(@) ELSE <<>>]
           /\ NoteWrites(ran.heap, IF ok THEN {c} ELSE {})
           /\ NoteLate(c, fn'[c])
    /\ UNCHANGED <<hasReturned, activeStack, kernels, inputs, returned>>

(* The real kernel throws, through every kernel that called it.            *)
KernelThrows(th) ==
    /\ ~Idle(th)
    /\ frames' = [frames EXCEPT ![th] = <<>>]
    /\ UNCHANGED <<heap, fn, hasReturned, activeStack, kernels, history>>

Next ==
    \/ \E c \in Controller, args \in ArgumentLists : StartCaptureFunction(c, args)
    \/ \E th \in Thread, c \in Controller : ContextEnter(th, c)
    \/ \E th \in Thread : ContextExit(th)
    \/ \E th \in Thread, c \in Controller, t \in 1..Len(heap.storage) : Returns(th, c, <<t>>)
    \/ \E th \in Thread, call \in Calls(heap) :
            \/ PassThrough(th, call)
            \/ FallbackKernel(th, call)
            \/ RefusedKernel(th, call)
            \/ UnboxedKernel(th, call)
            \/ NestedKernel(th, call)
    \/ \E th \in Thread : KernelReturns(th) \/ KernelThrows(th)

Spec == Init /\ [][Next]_vars

-----------------------------------------------------------------------------
(* What running a recorded function does.                                  *)

(* Execution state: a heap of its own and the datum of every value.        *)
StartReplay(contents) ==
    [heap |-> [storage |-> [i \in 1..Len(contents) |-> i], contents |-> contents],
     env |-> [i \in {Argument(k) : k \in 1..Len(contents)} |-> Tensor(i.result)],
     returns |-> <<>>]

(* What an operation does to the heap, and its results.                    *)
Effect(ownHeap, op, args) ==
    CASE op.name = "torch.tensor.literal" ->
           [heap |-> Allocate(ownHeap, op.attr), results |-> <<Tensor(NewTensor(ownHeap))>>]
      [] op.name = "torch.constant" -> [heap |-> ownHeap, results |-> <<Scalar(op.attr[1])>>]
      [] op.name = "torch.constant.none" -> [heap |-> ownHeap, results |-> <<None>>]
      [] op.name = "torch.prim.ListConstruct" -> [heap |-> ownHeap, results |-> <<ListOf(args)>>]
      [] op.name = "std.return" -> [heap |-> ownHeap, results |-> <<>>]
      [] OTHER -> Run(ownHeap, op.name, args)

ReplayOperation(state, op) ==
    LET args == [k \in 1..Len(op.operands) |-> state.env[op.operands[k]]]
        ran == Effect(state.heap, op, args)
        values == {Value(op.id, k) : k \in 1..Len(ran.results)}
    IN  [heap |-> ran.heap,
         env |-> [v \in DOMAIN state.env \union values |->
                    IF v \in values THEN ran.results[v.result] ELSE state.env[v]],
         returns |-> IF op.name # "std.return" THEN state.returns
                     ELSE [k \in 1..Len(args) |-> ContentOf(state.heap, args[k].tensor)]]

(* The state after the operations of a block.                              *)
ReplayBlock(block, contents) ==
    LET after[k \in 0..Len(block)] ==
            IF k = 0 THEN StartReplay(contents) ELSE ReplayOperation(after[k - 1], block[k])
    IN  after[Len(block)]

Replay(f, contents) == ReplayBlock(f.block, contents).returns

(* Two mapped tensors share a storage and the later one is an argument or  *)
(* a literal: the function gives them storages of their own.               *)
HiddenAlias(ofHeap, f) ==
    \E i, j \in 1..Len(f.tensorValueMap) :
        LET a == f.tensorValueMap[i]
            b == f.tensorValueMap[j]
        IN  /\ i < j /\ a.tensor # b.tensor /\ 0 \notin {a.tensor, b.tensor}
            /\ ofHeap.storage[a.tensor] = ofHeap.storage[b.tensor]
            /\ \/ b.value.op = 0
               \/ f.block[PositionOf(f, b.value.op)].name = "torch.tensor.literal"

-----------------------------------------------------------------------------
(* An element of a list that could not be mapped: the list is made with a  *)
(* null operand.                                                           *)
NullElement(op, k) == op.name = "torch.prim.ListConstruct" /\ op.operands[k] = NoValue

HasNullElement(f) ==
    \E i \in 1..Len(f.block) : \E k \in 1..Len(f.block[i].operands) : NullElement(f.block[i], k)

(* A function captured while every write to the tensors it knows was       *)
(* recorded computes, from the contents its arguments had, what the        *)
(* program had in the tensors it returned (fallbackKernelImpl maps         *)
(* operands before the real kernel writes them; importTensorByValue reads  *)
(* a tensor when it is first met).                                         *)
CaptureFaithful ==
    \A c \in Started :
        /\ hasReturned[c] /\ intact[c] /\ ~late[c]
        /\ ~HiddenAlias(heap, fn[c]) /\ ~HasNullElement(fn[c])
        =>
            Replay(fn[c], inputs[c]) = returned[c]

(* Operations are inserted at three places of the block and still every    *)
(* operand is defined above its use, failed captures included, and unless  *)
(* a kernel was recorded after returns() the return is the last operation  *)
(* and agrees with the function type.                                      *)
BlockIsWellFormed ==
    \A c \in Started :
        /\ \A i \in 1..Len(fn[c].block) : \A k \in 1..Len(fn[c].block[i].operands) :
                \/ Dominates(fn[c], fn[c].block[i].operands[k], i)
                \/ NullElement(fn[c].block[i], k)
        /\ ~late[c] => ReturnIsLast(fn[c])
        /\ hasReturned[c] => \E i \in 1..Len(fn[c].block) :
                /\ IsTerminator(fn[c].block[i])
                /\ Len(fn[c].block[i].operands) = fn[c].results

(* What a kernel adds goes to the controller that is innermost on the      *)
(* thread that runs it, the one whose call stack moves, whatever contexts  *)
(* other threads enter and leave meanwhile                                 *)
(* (getCurrentThreadAcapController).                                       *)
CapturesIntoTheInnermost ==
    [][\A c \in Started : fn'[c] # fn[c] =>
            \/ \E th \in Thread :
                    /\ activeStack[th] # <<>> /\ Head(activeStack[th]) = c
                    /\ \A other \in Thread \ {th} : frames'[other] = frames[other]
            \/ hasReturned'[c] # hasReturned[c]]_vars

=============================================================================
