--------------------------- MODULE RefbackrtInvoke ---------------------------
(***************************************************************************)
(* A module is compiled and one of its functions called, JITModule::invoke *)
(* -> refbackrt::invoke: read the metadata, check the arguments, create    *)
(* the outputs, copy the inputs to buffers, call the compiled function,    *)
(* copy its results out and free what was allocated.                       *)
(*                                                                         *)
(* Memory is `mem`: the live allocations and what each one holds.  An      *)
(* allocation is named by what it is made for: <<"inBuffer", i>>, ...      *)
(* A load from an address that is not live yields Garbage.                 *)
(***************************************************************************)
EXTENDS RefbackrtLowering

CONSTANTS
  Calls,      \* the calls: [module, name, inputs], a function called by its name
  MaxArity    \* kMaxArity

ASSUME ArityAssumption == MaxArity \in Nat \ {0}

\* A module is a symbol table: no two of its functions have the same name.
Funcs ==
  LET AnyTypes == Seq(Memrefs \cup Scalars)
  IN [name : STRING, public : BOOLEAN, inputs : AnyTypes, outputs : AnyTypes]

ASSUME CallsAssumption ==
  /\ Calls \subseteq [module : Seq(Funcs), name : STRING, inputs : Seq(RtValues)]
  /\ \A c \in Calls : \A i, j \in DOMAIN c.module : c.module[i].name = c.module[j].name => i = j

VARIABLES
  call,          \* the call being made
  descriptor,    \* the module descriptor the compiler has emitted
  metadata,      \* what getMetadata has read of the function
  pc, idx,       \* the loop being executed and its index
  outputs,       \* the output RtValues
  packedInputs,  \* slot (from 0) -> what it points to; partial
  outBuffers,    \* i -> allocatedPtr of the i-th returned memref
  returned,      \* i -> what that buffer held when the function returned
  mem,           \* live allocation -> contents
  badFrees       \* addresses passed to free() that were not live

context == <<call, descriptor, metadata>>
vars == <<context, pc, idx, outputs, packedInputs, outBuffers, returned, mem, badFrees>>

\* The function behind the function pointer.
Func ==
  CHOOSE f \in ToSet(call.module) : f.name = getFuncDescriptor(descriptor, call.name)[1].functionPtr
Inputs == call.inputs

\* The statically allocated data of a constant, address 0xDEADBEEF.
Static == <<"static", 0>>
Garbage == <<"garbage">>

CallerTensors(c) == {c.inputs[i].at : i \in {j \in DOMAIN c.inputs : IsTensor(c.inputs[j])}}

Init ==
  /\ call \in Calls
  /\ descriptor = <<>> /\ metadata = <<>>
  /\ pc = "compile" /\ idx = 1
  /\ outputs = <<>>
  /\ packedInputs = <<>>
  /\ outBuffers = <<>>
  /\ returned = <<>>
  /\ mem = [t \in CallerTensors(call) |-> <<"data", t>>]
  /\ badFrees = {}

Read(m, a) == IF a = Static THEN <<"constant">> ELSE IF a \in DOMAIN m THEN m[a] ELSE Garbage
Store(m, a, v) == [x \in DOMAIN m \cup {a} |-> IF x = a THEN v ELSE m[x]]

-----------------------------------------------------------------------------
\* The loops of the two functions, in order, and how often each runs.

NextLoop ==
  [arity |-> "checkInputs", checkInputs |-> "createOutputs", createOutputs |-> "assertArity",
   assertArity |-> "packInputs", packInputs |-> "call", call |-> "copyOut",
   copyOut |-> "freeOutBuffers", freeOutBuffers |-> "freeInBuffers",
   freeInBuffers |-> "freeOutDescriptors", freeOutDescriptors |-> "freeInDescriptors",
   freeInDescriptors |-> "done"]

Loops == DOMAIN NextLoop \ {"arity", "assertArity", "call"}

Iterations(label) ==
  CASE label \in {"checkInputs", "packInputs", "freeInBuffers", "freeInDescriptors"} -> Len(Inputs)
    [] label \in {"createOutputs", "copyOut", "freeOutBuffers", "freeOutDescriptors"} ->
         Len(metadata.outputArgInfos)

EndLoop ==
  /\ pc \in Loops
  /\ idx > Iterations(pc)
  /\ pc' = NextLoop[pc] /\ idx' = 1
  /\ UNCHANGED <<context, outputs, packedInputs, outBuffers, returned, mem, badFrees>>

At(label) == pc = label /\ idx <= Iterations(label)
Step == idx' = idx + 1 /\ UNCHANGED pc
Stop(label) == pc' = label /\ UNCHANGED idx

\* free(a) in a loop.  An address that is not live goes unnoticed, or malloc
\* aborts the process.
Free(a) ==
  IF a \in DOMAIN mem
  THEN Step /\ mem' = Restrict(mem, DOMAIN mem \ {a}) /\ UNCHANGED badFrees
  ELSE (Step \/ Stop("abort")) /\ badFrees' = badFrees \cup {a} /\ UNCHANGED mem

FreeNothing == Step /\ UNCHANGED <<mem, badFrees>>

-----------------------------------------------------------------------------
\* The compiler

Compile ==
  /\ pc = "compile"
  /\ LET verdict == CompileVerdict(call.module)
     IN IF verdict = "compiled"
        THEN pc' = "arity" /\ descriptor' = LowerModuleMetadata(createModuleMetadata(call.module))
        ELSE pc' = verdict /\ UNCHANGED descriptor
  /\ UNCHANGED <<call, metadata, idx, outputs, packedInputs, outBuffers, returned, mem, badFrees>>

-----------------------------------------------------------------------------
\* JITModule::invoke

\* getMetadata writes past the arrays of a FunctionMetadata when there are more
\* than kMaxArity arguments or results.
CheckArity ==
  /\ pc = "arity"
  /\ IF getFuncDescriptor(descriptor, call.name) = <<>>
     THEN pc' = "error" /\ UNCHANGED metadata
     ELSE /\ metadata' = getMetadata(descriptor, call.name)
          /\ LET numInputs == Len(metadata'.inputArgInfos)
             IN pc' = CASE numInputs > MaxArity \/ Len(metadata'.outputArgInfos) > MaxArity -> "undefined"
                        [] OTHER -> IF numInputs = Len(Inputs) THEN NextLoop[pc] ELSE "error"
  /\ UNCHANGED <<call, descriptor, idx, outputs, packedInputs, outBuffers, returned, mem, badFrees>>

CheckInput ==
  /\ At("checkInputs")
  /\ LET info == metadata.inputArgInfos[idx]
     IN IF CheckRtValueArgTypes(Inputs[idx], info) /\ CheckRtValueShapes(Inputs[idx], info)
        THEN Step
        ELSE Stop("error")
  /\ UNCHANGED <<context, outputs, packedInputs, outBuffers, returned, mem, badFrees>>

\* createRtValueFromOutputArgInfo: a tensor is made from a zeroed temporary; one
\* of rank -1 is given an array of that many extents.
CreateOutput ==
  /\ At("createOutputs")
  /\ LET argType == metadata.outputArgInfos[idx].argType
         unranked == metadata.outputArgInfos[idx].rank < 0
     IN CASE argType = "kTensor" /\ unranked -> Stop("undefined") /\ UNCHANGED <<outputs, mem>>
          [] argType = "kTensor" /\ ~ unranked ->
               /\ outputs' = Append(outputs, [tag |-> "Tensor", at |-> <<"placeholder", idx>>])
               /\ mem' = Store(Store(mem, <<"temporary", idx>>, <<"zero">>),
                               <<"placeholder", idx>>, <<"zero">>)
               /\ Step
          [] argType = "kF32" ->
               /\ outputs' = Append(outputs, [tag |-> "Float", val |-> <<"default">>])
               /\ Step
               /\ UNCHANGED mem
          [] OTHER -> Stop("assert") /\ UNCHANGED <<outputs, mem>>
  /\ UNCHANGED <<context, packedInputs, outBuffers, returned, badFrees>>

-----------------------------------------------------------------------------
\* refbackrt::invoke

AssertArity ==
  /\ pc = "assertArity"
  /\ IF Len(Inputs) < MaxArity /\ Len(outputs) < MaxArity
     THEN pc' = NextLoop[pc]
     ELSE pc' = "assert"
  /\ UNCHANGED <<context, idx, outputs, packedInputs, outBuffers, returned, mem, badFrees>>

\* Faulty: the buffer is the tensor's own data.
InBufferNoCopy(i) == Inputs[i].at

\* convertRefbackrtTensorToUnrankedMemref copies the tensor to a new buffer.
InBuffer(i) == <<"inBuffer", i>>
InDescriptor(i) == <<"inDescriptor", i>>
OutDescriptor(i) == <<"outDescriptor", i>>

\* Faulty: one slot per argument, as the comment on the wrapper reads.
FirstSlotConsecutive(i) == i - 1

FirstSlot(i) == 2 * (i - 1)

\* Input i (counted from 1) fills the two slots from FirstSlot(i) on; a scalar
\* leaves the second one uninitialized.
PackInput ==
  /\ At("packInputs")
  /\ LET slot == FirstSlot(idx)
     IN CASE IsTensor(Inputs[idx]) ->
               /\ mem' = Store(Store(mem, InBuffer(idx), mem[Inputs[idx].at]),
                               InDescriptor(idx), InBuffer(idx))
               /\ packedInputs' = Store(Store(packedInputs, slot, <<"rank", idx>>),
                                        slot + 1, <<"descriptor", idx>>)
               /\ Step
          [] IsScalar(Inputs[idx]) ->
               /\ packedInputs' = Store(packedInputs, slot, <<"scalar", idx>>)
               /\ Step
               /\ UNCHANGED mem
          [] OTHER -> Stop("assert") /\ UNCHANGED <<mem, packedInputs>>
  /\ UNCHANGED <<context, outputs, outBuffers, returned, badFrees>>

\* What wrapper parameter k is loaded from is the argument it stands for.
IsPassed(k) ==
  LET param == LLVMParams(Func.inputs)[k]
      type  == Func.inputs[param[2]]
  IN /\ k - 1 \in DOMAIN packedInputs
     /\ packedInputs[k - 1] = param
     /\ HasTypeOf(Inputs[param[2]], type)

TensorInputs == {i \in DOMAIN Inputs : IsTensor(Inputs[i])}
TensorOutputs == {i \in DOMAIN outputs : IsTensor(outputs[i])}

\* The wrapper loads parameter k from packedInputs[k - 1] and runs the compiled
\* code.  That code may write to its input buffers; each memref it returns is
\* an input's buffer, a buffer it allocated (shared with an earlier result or
\* not) or static data, behind a descriptor of its own.  A parameter that is
\* not what its argument was packed as is undefined behaviour.
CallFunction ==
  /\ pc = "call"
  /\ \/ /\ \E k \in DOMAIN LLVMParams(Func.inputs) : ~ IsPassed(k)
        /\ Stop("undefined")
        /\ UNCHANGED <<outputs, outBuffers, returned, mem>>
     \/ /\ \A k \in DOMAIN LLVMParams(Func.inputs) : IsPassed(k)
        /\ \E written \in SUBSET {InBuffer(i) : i \in TensorInputs},
              result \in [TensorOutputs -> {InBuffer(i) : i \in TensorInputs}
                            \cup {<<"newBuffer", i>> : i \in TensorOutputs} \cup {Static}] :
             LET allocated == {result[i] : i \in TensorOutputs}
                                \ (DOMAIN mem \cup {Static})
                 after == [a \in DOMAIN mem \cup allocated
                                  \cup {OutDescriptor(i) : i \in TensorOutputs} |->
                             CASE a \in written -> <<"overwritten">>
                               [] a \in DOMAIN mem \ written -> mem[a]
                               [] a \in allocated -> <<"computed", a>>
                               [] OTHER -> result[a[2]]]
             IN /\ \A a \in allocated : result[a[2]] = a
                /\ mem' = after
                /\ outBuffers' = result
                /\ returned' = [i \in TensorOutputs |-> Read(after, result[i])]
        /\ outputs' = [i \in DOMAIN outputs |->
             IF IsTensor(outputs[i]) THEN outputs[i] ELSE [outputs[i] EXCEPT !.val = <<"computed", i>>]]
        /\ pc' = NextLoop[pc] /\ UNCHANGED idx
  /\ UNCHANGED <<context, packedInputs, badFrees>>

\* The tensor convertUnrankedMemrefToRefbackrtTensor makes owns its data.  It is
\* one of F32 whatever was returned: of wider elements it takes the first bytes.
ResultData(i) == <<"result", i>>
CopiedAs(type, data) == IF type.elem = "f32" THEN data ELSE <<"firstBytesOf", data>>

\* Assigning the RtValue drops the only reference to the placeholder.
CopyOut ==
  /\ At("copyOut")
  /\ IF IsTensor(outputs[idx])
     THEN /\ mem' = Store(Restrict(mem, DOMAIN mem \ {outputs[idx].at}),
                          ResultData(idx), CopiedAs(Func.outputs[idx], Read(mem, outBuffers[idx])))
          /\ outputs' = [outputs EXCEPT ![idx].at = ResultData(idx)]
     ELSE UNCHANGED <<mem, outputs>>
  /\ Step
  /\ UNCHANGED <<context, packedInputs, outBuffers, returned, badFrees>>

\* Free the buffer of output idx if an earlier output has the same one.  The
\* scan follows the descriptor of every earlier output; that of a scalar is an
\* uninitialized pointer.
FreeOutputBuffer ==
  /\ At("freeOutBuffers")
  /\ CASE idx \notin TensorOutputs -> FreeNothing
       [] idx \in TensorOutputs /\ ~ (1 .. idx - 1 \subseteq TensorOutputs) ->
            Stop("undefined") /\ UNCHANGED <<mem, badFrees>>
       [] OTHER -> IF \E j \in 1 .. idx - 1 : outBuffers[j] = outBuffers[idx]
                   THEN Free(outBuffers[idx])
                   ELSE FreeNothing
  /\ UNCHANGED <<context, outputs, packedInputs, outBuffers, returned>>

\* Free the buffer of input idx if an output has the same one.
FreeInputBuffer ==
  /\ At("freeInBuffers")
  /\ IF idx \in TensorInputs /\ \E j \in TensorOutputs : outBuffers[j] = InBuffer(idx)
     THEN Free(InBuffer(idx))
     ELSE FreeNothing
  /\ UNCHANGED <<context, outputs, packedInputs, outBuffers, returned>>

FreeOutputDescriptor ==
  /\ At("freeOutDescriptors")
  /\ IF idx \in TensorOutputs THEN Free(OutDescriptor(idx)) ELSE FreeNothing
  /\ UNCHANGED <<context, outputs, packedInputs, outBuffers, returned>>

FreeInputDescriptor ==
  /\ At("freeInDescriptors")
  /\ IF idx \in TensorInputs THEN Free(InDescriptor(idx)) ELSE FreeNothing
  /\ UNCHANGED <<context, outputs, packedInputs, outBuffers, returned>>

Returned == pc \in {"done", "error", "assert", "abort", "undefined"}

Return == Returned /\ UNCHANGED vars

Next ==
  \/ EndLoop
  \/ Compile \/ CheckArity \/ CheckInput \/ CreateOutput
  \/ AssertArity \/ PackInput \/ CallFunction \/ CopyOut
  \/ FreeOutputBuffer \/ FreeInputBuffer \/ FreeOutputDescriptor \/ FreeInputDescriptor
  \/ Return

Spec == Init /\ [][Next]_vars

-----------------------------------------------------------------------------
\* Properties

\* "This must match FuncDescriptor in the runtime": of a module that has been
\* compiled the runtime finds the public functions and no others; what it reads
\* of one, through the descriptors, the shared array of shapes and the offsets
\* into it, is that function's own signature; and the pointer is to its code.
\* The element types the compiler records do not arrive: what it says of a
\* memref of i64 is NONE, and it is read as a tensor of F32.
AsRead(type) ==
  [ArgInfo(type) EXCEPT !.elementType = IF ArgType(type) = "kTensor" THEN "F32" ELSE @]
MetadataArrives ==
  pc = "arity" =>
    \A f \in ToSet(call.module) :
      LET found == getFuncDescriptor(descriptor, f.name)
      IN /\ found # <<>> <=> f.public
         /\ f.public =>
              /\ found[1].functionPtr = f.name
              /\ getMetadata(descriptor, f.name) =
                   [inputArgInfos |-> [i \in DOMAIN f.inputs |-> AsRead(f.inputs[i])],
                    outputArgInfos |-> [i \in DOMAIN f.outputs |-> AsRead(f.outputs[i])]]

\* "Each packedInput pointer corresponds to one LLVM/C ABI argument to the
\* underlying function" is so exactly up to the first scalar: a parameter the
\* wrapper loads is the argument packed for it if no parameter before is a
\* scalar, which takes two slots and one parameter, and the argument is of the
\* parameter's type; and in no other case.
ArgumentsArrive ==
  pc = "call" =>
    \A k \in DOMAIN LLVMParams(Func.inputs) :
      LET i == LLVMParams(Func.inputs)[k][2]
      IN IsPassed(k) <=> /\ \A j \in 1 .. i - 1 : IsMemref(Func.inputs[j])
                         /\ HasTypeOf(Inputs[i], Func.inputs[i])

\* "Deepcopy the refbackrt::Tensor's": whatever the compiled code writes and
\* the clean-up frees, the caller's tensors keep their data, also when one
\* tensor is passed twice.
CallerTensorsKept ==
  \A t \in CallerTensors(call) : t \in DOMAIN mem /\ mem[t] = <<"data", t>>

\* "Copy out the result data": after the clean-up each output is a live tensor
\* of its own with the data the function returned, if its elements are f32,
\* however the returned memrefs alias the inputs or each other.
ResultsSurviveCleanUp ==
  pc = "done" =>
    /\ \A i \in TensorOutputs :
         Func.outputs[i].elem = "f32" => Read(mem, outputs[i].at) = returned[i]
    /\ \A i, j \in TensorOutputs : i # j => outputs[i].at # outputs[j].at

\* "Free the output descriptors", "Free the input descriptors": each
\* descriptor is freed, once.
DescriptorsFreedOnce ==
  LET Descriptors == {"inDescriptor", "outDescriptor"}
  IN /\ \A a \in badFrees : a[1] \notin Descriptors
     /\ pc = "done" => \A a \in DOMAIN mem : a[1] \notin Descriptors

\* Whose memory is whose, at every step and after the call.
OwnershipKept == CallerTensorsKept /\ ResultsSurviveCleanUp /\ DescriptorsFreedOnce

\* What gets past the checks though it is no value of the parameter's type: a
\* value whose tag they do not test, and a tensor of F32 of the parameter's
\* shape where an extent of 0 is any extent and an element type any other.
LetThrough(value, type) ==
  LET Loosened == IF type.kind = "memref"
                  THEN [type EXCEPT !.extents = [d \in DOMAIN @ |-> IF @[d] = 0 THEN Dynamic ELSE @[d]]]
                  ELSE type
  IN \/ value.tag \in {"None", "Bool", "Int", "Double"}
     \/ /\ IsTensor(value) /\ value.elem = "F32" /\ IsMemref(type)
        /\ HasShapeOf(value, Loosened)

\* "Verify user input types and shapes match what the compiler expects": a call
\* of the right arity is carried out exactly when each of its arguments is of
\* its parameter's type and shape, or is one of those that are let through.
IsAccepted(i) ==
  \/ HasTypeOf(Inputs[i], Func.inputs[i]) /\ HasShapeOf(Inputs[i], Func.inputs[i])
  \/ LetThrough(Inputs[i], Func.inputs[i])
ArgumentsConform ==
  /\ pc = "packInputs" => \A i \in DOMAIN Inputs : IsAccepted(i)
  /\ pc = "error" /\ metadata # <<>> /\ Len(Inputs) = Len(Func.inputs) =>
       \E i \in DOMAIN Inputs : ~ IsAccepted(i)

\* "We just need to free all the UnrankedMemref's that we created", "we need to
\* avoid double-freeing": when the call returns, the buffers of the inputs and
\* of the returned memrefs are freed, and nothing was freed twice.
BuffersFreedOnce ==
  /\ badFrees = {}
  /\ pc = "done" => \A a \in DOMAIN mem : a[1] \notin {"inBuffer", "newBuffer"}

=============================================================================
