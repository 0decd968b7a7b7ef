----------------------- MODULE RefbackrtInvokeProofs -----------------------
(***************************************************************************)
(* Proofs about a call of a compiled function: what the runtime reads is   *)
(* the function's signature, what it packs is what the wrapper loads, and  *)
(* the memory of the caller, of the results and of the descriptors.        *)
(***************************************************************************)
EXTENDS RefbackrtInvoke, InductionLemmas, SequenceTheorems

-----------------------------------------------------------------------------
\* The inductive invariant

AfterCall == {"copyOut", "freeOutBuffers", "freeInBuffers", "freeOutDescriptors",
              "freeInDescriptors", "done"}
AfterOutputs == {"assertArity", "packInputs", "call"} \cup AfterCall
Running == {"checkInputs", "createOutputs"} \cup AfterOutputs
Stopped == {"error", "assert", "abort", "undefined"}

OutputValues ==
  [tag : {"Tensor"}, at : {"placeholder", "result"} \X Nat]
    \cup [tag : {"Float"}, val : {<<"default">>} \cup {"computed"} \X Nat]

Addresses ==
  {"tensor", "temporary", "placeholder", "inBuffer", "inDescriptor", "newBuffer", "outDescriptor",
   "result"} \X Nat

TypeOK ==
  /\ call \in Calls
  /\ pc \in {"compile", "arity"} \cup Running \cup Stopped
  /\ idx \in Nat \ {0}
  /\ pc \in {"compile", "arity", "assertArity", "call"} => idx = 1
  /\ outputs \in Seq(OutputValues)
  /\ DOMAIN mem \subseteq Addresses

\* What the runtime has read is the signature of the function that is called.
Lowered(module) == LowerModuleMetadata(createModuleMetadata(module))
Signature(f) ==
  [inputArgInfos |-> [i \in DOMAIN f.inputs |-> AsRead(f.inputs[i])],
   outputArgInfos |-> [i \in DOMAIN f.outputs |-> AsRead(f.outputs[i])]]
Compiled == CompileVerdict(call.module) = "compiled"
MetadataInv ==
  /\ pc \in {"arity"} \cup Running =>
       Compiled /\ descriptor = Lowered(call.module)
  /\ pc \in Running =>
       \E f \in ToSet(call.module) :
         /\ f.public /\ f.name = call.name /\ Func = f
         /\ metadata = Signature(f)
         /\ Len(Inputs) = Len(f.inputs)

\* The arguments that have been checked.
Checked(i) ==
  /\ CheckRtValueArgTypes(Inputs[i], metadata.inputArgInfos[i])
  /\ CheckRtValueShapes(Inputs[i], metadata.inputArgInfos[i])
CheckedInv ==
  pc \in Running => \A i \in DOMAIN Inputs : (pc = "checkInputs" => i < idx) => Checked(i)

\* The arguments that have been packed.
Packed(i) ==
  /\ IsTensor(Inputs[i]) \/ IsScalar(Inputs[i])
  /\ FirstSlot(i) \in DOMAIN packedInputs
  /\ IsTensor(Inputs[i]) =>
       /\ FirstSlot(i) + 1 \in DOMAIN packedInputs
       /\ packedInputs[FirstSlot(i)] = <<"rank", i>>
       /\ packedInputs[FirstSlot(i) + 1] = <<"descriptor", i>>
  /\ IsScalar(Inputs[i]) => packedInputs[FirstSlot(i)] = <<"scalar", i>>
PackedInv ==
  pc \in {"packInputs", "call"} =>
    \A i \in DOMAIN Inputs : (pc = "packInputs" => i < idx) => Packed(i)

\* The outputs that have been copied out, and where each output's tensor is.
Copied(i) == pc = "copyOut" => i < idx
OutputsInv ==
  /\ pc \in {"compile", "arity", "checkInputs"} => outputs = <<>>
  /\ pc = "createOutputs" => Len(outputs) = idx - 1 /\ Len(outputs) <= Len(metadata.outputArgInfos)
  /\ pc \in AfterOutputs => Len(outputs) = Len(metadata.outputArgInfos)
  /\ pc \in Running =>
       \A i \in TensorOutputs :
         outputs[i].at = IF pc \in AfterCall /\ Copied(i) THEN ResultData(i) ELSE <<"placeholder", i>>
ResultsInv ==
  pc \in AfterCall =>
    \A i \in TensorOutputs :
      /\ outBuffers[i] \in {"inBuffer", "newBuffer"} \X Nat \cup {Static}
      /\ IF Copied(i) THEN /\ ResultData(i) \in DOMAIN mem
                           /\ mem[ResultData(i)] = CopiedAs(Func.outputs[i], returned[i])
                      ELSE Read(mem, outBuffers[i]) = returned[i]

\* The descriptors that are live.
HoldsIn(i) ==
  /\ i \in TensorInputs
  /\ pc \in {"packInputs", "call"} \cup (AfterCall \ {"done"})
  /\ pc = "packInputs" => i < idx
  /\ pc = "freeInDescriptors" => idx <= i
HoldsOut(i) ==
  /\ i \in TensorOutputs
  /\ pc \in AfterCall \ {"freeInDescriptors", "done"}
  /\ pc = "freeOutDescriptors" => idx <= i
DescriptorsInv ==
  /\ \A a \in badFrees : a[1] \notin {"inDescriptor", "outDescriptor"}
  /\ pc \in {"compile", "arity"} \cup Running =>
       /\ \A i \in Nat : InDescriptor(i) \in DOMAIN mem <=> HoldsIn(i)
       /\ \A i \in Nat : OutDescriptor(i) \in DOMAIN mem <=> HoldsOut(i)

-----------------------------------------------------------------------------
\* Types

LEMMA StoreIs ==
  ASSUME NEW m, NEW a, NEW v, NEW x
  PROVE  /\ x \in DOMAIN Store(m, a, v) <=> x = a \/ x \in DOMAIN m
         /\ x \in DOMAIN Store(m, a, v) => Store(m, a, v)[x] = IF x = a THEN v ELSE m[x]
BY DEF Store

LEMMA RestrictIs ==
  ASSUME NEW m, NEW S, NEW x
  PROVE  /\ x \in DOMAIN Restrict(m, S) <=> x \in S
         /\ x \in S => Restrict(m, S)[x] = m[x]
BY DEF Restrict

LEMMA SequenceFrom ==
  ASSUME NEW S, NEW n \in Nat, NEW s \in [1 .. n -> S]
  PROVE  s \in Seq(S) /\ Len(s) = n
OBVIOUS

LEMMA ElementsOfConcat ==
  ASSUME NEW S, NEW s \in Seq(S), NEW t \in Seq(S)
  PROVE  ToSet(s \o t) = ToSet(s) \cup ToSet(t)
<1>1. /\ s \o t \in Seq(S) /\ Len(s \o t) = Len(s) + Len(t)
      /\ Len(s) \in Nat /\ Len(t) \in Nat
      /\ \A i \in 1 .. Len(s) + Len(t) :
           (s \o t)[i] = IF i <= Len(s) THEN s[i] ELSE t[i - Len(s)]
  OBVIOUS
<1> PICK u \in Seq(S) : u = s \o t
  BY <1>1
<1>2. \A i \in DOMAIN s : i \in DOMAIN u /\ u[i] = s[i]
  BY <1>1
<1>3. \A i \in DOMAIN t : Len(s) + i \in DOMAIN u /\ u[Len(s) + i] = t[i]
  BY <1>1
<1>4. \A i \in DOMAIN u : \/ i \in DOMAIN s /\ u[i] = s[i]
                          \/ i - Len(s) \in DOMAIN t /\ u[i] = t[i - Len(s)]
  BY <1>1
<1>5. ToSet(u) \subseteq ToSet(s) \cup ToSet(t)
  BY <1>4 DEF ToSet
<1>6. ToSet(s) \subseteq ToSet(u)
  BY <1>2 DEF ToSet
<1>7. ToSet(t) \subseteq ToSet(u)
  BY <1>3 DEF ToSet
<1> QED
  BY <1>5, <1>6, <1>7

LEMMA CallOfCalls ==
  ASSUME NEW c \in Calls
  PROVE  /\ c.module \in Seq(Funcs) /\ c.name \in STRING /\ c.inputs \in Seq(RtValues)
         /\ \A i, j \in DOMAIN c.module : c.module[i].name = c.module[j].name => i = j
BY CallsAssumption

LEMMA InputValue ==
  ASSUME NEW c \in Calls, NEW i \in DOMAIN c.inputs
  PROVE  /\ c.inputs[i] \in RtValues
         /\ IsTensor(c.inputs[i]) => c.inputs[i].at \in {"tensor"} \X Nat
<1>1. c.inputs \in Seq(RtValues)
  BY CallOfCalls
<1>2. c.inputs[i] \in RtValues
  BY <1>1
<1> QED
  BY <1>2 DEF RtValues, IsTensor

LEMMA AddressesOf ==
  /\ {"tensor"} \X Nat \subseteq Addresses
  /\ \A i \in Nat :
       /\ <<"temporary", i>> \in Addresses
       /\ <<"placeholder", i>> \in Addresses
       /\ <<"newBuffer", i>> \in Addresses
       /\ InBuffer(i) \in Addresses /\ InDescriptor(i) \in Addresses
       /\ OutDescriptor(i) \in Addresses /\ ResultData(i) \in Addresses
BY DEF Addresses, InBuffer, InDescriptor, OutDescriptor, ResultData

-----------------------------------------------------------------------------
\* What each action may do

LEMMA CreateOutputDoes ==
  ASSUME CreateOutput
  PROVE  /\ pc = "createOutputs" /\ idx <= Len(metadata.outputArgInfos)
         /\ UNCHANGED <<context, packedInputs, outBuffers, returned, badFrees>>
         /\ \/ /\ outputs' = Append(outputs, [tag |-> "Tensor", at |-> <<"placeholder", idx>>])
               /\ mem' = Store(Store(mem, <<"temporary", idx>>, <<"zero">>),
                               <<"placeholder", idx>>, <<"zero">>)
               /\ Step
            \/ /\ outputs' = Append(outputs, [tag |-> "Float", val |-> <<"default">>])
               /\ UNCHANGED mem
               /\ Step
            \/ /\ UNCHANGED <<idx, outputs, mem>>
               /\ pc' \in {"undefined", "assert"}
<1> DEFINE argType == metadata.outputArgInfos[idx].argType
           unranked == metadata.outputArgInfos[idx].rank < 0
<1>1. pc = "createOutputs" /\ idx <= Len(metadata.outputArgInfos)
  BY DEF CreateOutput, At, Iterations
<1>2. CASE argType = "kTensor" /\ unranked
  BY <1>1, <1>2 DEF CreateOutput, Stop
<1>3. CASE argType = "kTensor" /\ ~ unranked
  BY <1>1, <1>3 DEF CreateOutput
<1>4. CASE argType = "kF32"
  BY <1>1, <1>4 DEF CreateOutput
<1>5. CASE argType \notin {"kTensor", "kF32"}
  BY <1>1, <1>5 DEF CreateOutput, Stop
<1> QED
  BY <1>2, <1>3, <1>4, <1>5

LEMMA PackInputDoes ==
  ASSUME PackInput
  PROVE  /\ pc = "packInputs" /\ idx <= Len(Inputs)
         /\ UNCHANGED <<context, outputs, outBuffers, returned, badFrees>>
         /\ \/ /\ IsTensor(Inputs[idx])
               /\ mem' = Store(Store(mem, InBuffer(idx), mem[Inputs[idx].at]),
                               InDescriptor(idx), InBuffer(idx))
               /\ packedInputs' = Store(Store(packedInputs, FirstSlot(idx), <<"rank", idx>>),
                                        FirstSlot(idx) + 1, <<"descriptor", idx>>)
               /\ Step
            \/ /\ IsScalar(Inputs[idx]) /\ ~ IsTensor(Inputs[idx])
               /\ packedInputs' = Store(packedInputs, FirstSlot(idx), <<"scalar", idx>>)
               /\ UNCHANGED mem
               /\ Step
            \/ UNCHANGED <<idx, packedInputs, mem>> /\ pc' = "assert"
<1>1. pc = "packInputs" /\ idx <= Len(Inputs)
  BY DEF PackInput, At, Iterations
<1>2. IsScalar(Inputs[idx]) => ~ IsTensor(Inputs[idx])
  BY DEF IsScalar, IsTensor
<1>3. CASE IsTensor(Inputs[idx])
  BY <1>1, <1>2, <1>3 DEF PackInput
<1>4. CASE IsScalar(Inputs[idx])
  BY <1>1, <1>2, <1>4 DEF PackInput
<1>5. CASE ~ IsTensor(Inputs[idx]) /\ ~ IsScalar(Inputs[idx])
  BY <1>1, <1>5 DEF PackInput, Stop
<1> QED
  BY <1>3, <1>4, <1>5

LEMMA CopyOutDoes ==
  ASSUME CopyOut
  PROVE  /\ pc = "copyOut" /\ idx <= Len(metadata.outputArgInfos) /\ Step
         /\ UNCHANGED <<context, packedInputs, outBuffers, returned, badFrees>>
         /\ \/ /\ IsTensor(outputs[idx])
               /\ mem' = Store(Restrict(mem, DOMAIN mem \ {outputs[idx].at}),
                               ResultData(idx), CopiedAs(Func.outputs[idx], Read(mem, outBuffers[idx])))
               /\ outputs' = [outputs EXCEPT ![idx].at = ResultData(idx)]
            \/ ~ IsTensor(outputs[idx]) /\ UNCHANGED <<mem, outputs>>
BY DEF CopyOut, At, Iterations

LEMMA CallFunctionDoes ==
  ASSUME CallFunction
  PROVE  /\ pc = "call" /\ UNCHANGED <<context, packedInputs, badFrees, idx>>
         /\ \/ UNCHANGED <<outputs, outBuffers, returned, mem>> /\ pc' = "undefined"
            \/ /\ outBuffers' \in [TensorOutputs -> {InBuffer(i) : i \in TensorInputs}
                      \cup {<<"newBuffer", i>> : i \in TensorOutputs} \cup {Static}]
               /\ returned' = [i \in TensorOutputs |-> Read(mem', outBuffers'[i])]
               /\ DOMAIN mem' = DOMAIN mem
                    \cup ({outBuffers'[i] : i \in TensorOutputs} \ (DOMAIN mem \cup {Static}))
                    \cup {OutDescriptor(i) : i \in TensorOutputs}
               /\ \A a \in DOMAIN mem \ {InBuffer(i) : i \in TensorInputs} : mem'[a] = mem[a]
               /\ outputs' = [i \in DOMAIN outputs |->
                    IF IsTensor(outputs[i]) THEN outputs[i] ELSE [outputs[i] EXCEPT !.val = <<"computed", i>>]]
               /\ pc' = "copyOut"
<1>1. CASE \A k \in DOMAIN LLVMParams(Func.inputs) : IsPassed(k)
  <2> DEFINE inBuffers == {InBuffer(i) : i \in TensorInputs}
             Results == [TensorOutputs -> inBuffers \cup {<<"newBuffer", i>> : i \in TensorOutputs} \cup {Static}]
             Allocated(result) == {result[i] : i \in TensorOutputs} \ (DOMAIN mem \cup {Static})
             After(written, result) ==
               [a \in DOMAIN mem \cup Allocated(result) \cup {OutDescriptor(i) : i \in TensorOutputs} |->
                  CASE a \in written -> <<"overwritten">>
                    [] a \in DOMAIN mem \ written -> mem[a]
                    [] a \in Allocated(result) -> <<"computed", a>>
                    [] OTHER -> result[a[2]]]
  <2>1. PICK written \in SUBSET inBuffers, result \in Results :
          /\ mem' = After(written, result) /\ outBuffers' = result
          /\ returned' = [i \in TensorOutputs |-> Read(After(written, result), result[i])]
    BY <1>1 DEF CallFunction
  <2>2. \A a \in DOMAIN mem \ inBuffers : After(written, result)[a] = mem[a]
    OBVIOUS
  <2>3. DOMAIN After(written, result) = DOMAIN mem \cup Allocated(result) \cup {OutDescriptor(i) : i \in TensorOutputs}
    OBVIOUS
  <2>4. /\ pc = "call" /\ UNCHANGED <<context, packedInputs, badFrees, idx>> /\ pc' = "copyOut"
        /\ outputs' = [i \in DOMAIN outputs |->
             IF IsTensor(outputs[i]) THEN outputs[i] ELSE [outputs[i] EXCEPT !.val = <<"computed", i>>]]
    BY <1>1 DEF CallFunction, NextLoop
  <2> HIDE DEF After
  <2> QED
    BY <2>1, <2>2, <2>3, <2>4
<1>2. CASE \E k \in DOMAIN LLVMParams(Func.inputs) : ~ IsPassed(k)
  BY <1>2 DEF CallFunction, Stop
<1> QED
  BY <1>1, <1>2

\* What a loop that frees does to the memory.
Frees(a) ==
  \/ a \in DOMAIN mem /\ mem' = Restrict(mem, DOMAIN mem \ {a}) /\ UNCHANGED badFrees /\ Step
  \/ a \notin DOMAIN mem /\ badFrees' = badFrees \cup {a} /\ UNCHANGED mem /\ (Step \/ pc' = "abort")

LEMMA FreeDoes ==
  ASSUME NEW a, Free(a)
  PROVE  Frees(a)
BY DEF Free, Frees, Stop

LEMMA FreeOutputBufferDoes ==
  ASSUME FreeOutputBuffer
  PROVE  /\ pc = "freeOutBuffers" /\ UNCHANGED <<context, outputs, packedInputs, outBuffers, returned>>
         /\ \/ idx \in TensorOutputs /\ Frees(outBuffers[idx])
            \/ UNCHANGED <<mem, badFrees>> /\ (Step \/ pc' = "undefined")
<1>1. pc = "freeOutBuffers" /\ UNCHANGED <<context, outputs, packedInputs, outBuffers, returned>>
  BY DEF FreeOutputBuffer, At
<1>2. CASE idx \notin TensorOutputs
  BY <1>1, <1>2 DEF FreeOutputBuffer, FreeNothing
<1>3. CASE idx \in TensorOutputs /\ ~ (1 .. idx - 1 \subseteq TensorOutputs)
  BY <1>1, <1>3 DEF FreeOutputBuffer, Stop
<1>4. CASE idx \in TensorOutputs /\ 1 .. idx - 1 \subseteq TensorOutputs
  <2>1. Free(outBuffers[idx]) \/ FreeNothing
    BY <1>4 DEF FreeOutputBuffer
  <2> QED
    BY <1>1, <1>4, <2>1, FreeDoes DEF FreeNothing
<1> QED
  BY <1>2, <1>3, <1>4

LEMMA FreeInputBufferDoes ==
  ASSUME FreeInputBuffer
  PROVE  /\ pc = "freeInBuffers" /\ UNCHANGED <<context, outputs, packedInputs, outBuffers, returned>>
         /\ \/ idx \in TensorInputs /\ Frees(InBuffer(idx))
            \/ UNCHANGED <<mem, badFrees>> /\ Step
BY FreeDoes DEF FreeInputBuffer, At, FreeNothing

LEMMA FreeOutputDescriptorDoes ==
  ASSUME FreeOutputDescriptor
  PROVE  /\ pc = "freeOutDescriptors" /\ UNCHANGED <<context, outputs, packedInputs, outBuffers, returned>>
         /\ \/ idx \in TensorOutputs /\ Frees(OutDescriptor(idx))
            \/ idx \notin TensorOutputs /\ UNCHANGED <<mem, badFrees>> /\ Step
BY FreeDoes DEF FreeOutputDescriptor, At, FreeNothing

LEMMA FreeInputDescriptorDoes ==
  ASSUME FreeInputDescriptor
  PROVE  /\ pc = "freeInDescriptors" /\ UNCHANGED <<context, outputs, packedInputs, outBuffers, returned>>
         /\ \/ idx \in TensorInputs /\ Frees(InDescriptor(idx))
            \/ idx \notin TensorInputs /\ UNCHANGED <<mem, badFrees>> /\ Step
BY FreeDoes DEF FreeInputDescriptor, At, FreeNothing

LEMMA TypeInit == Init => TypeOK
<1> SUFFICES ASSUME Init PROVE TypeOK
  OBVIOUS
<1>1. CallerTensors(call) \subseteq Addresses
  <2> SUFFICES ASSUME NEW i \in DOMAIN call.inputs, IsTensor(call.inputs[i])
               PROVE  call.inputs[i].at \in Addresses
    BY DEF CallerTensors
  <2> QED
    BY InputValue, AddressesOf DEF Init
<1> QED
  BY <1>1 DEF Init, TypeOK, AfterOutputs, AfterCall, Running, Stopped

LEMMA TypeStep == TypeOK /\ [Next]_vars => TypeOK'
<1> SUFFICES ASSUME TypeOK, [Next]_vars PROVE TypeOK'
  OBVIOUS
<1> USE DEF AfterOutputs, AfterCall, Running, Stopped
<1>1. CASE EndLoop
  BY <1>1 DEF TypeOK, EndLoop, NextLoop, Loops, context
<1>2. CASE Compile
  <2>1. CompileVerdict(call.module) \in {"assert", "error", "compiled"}
    BY DEF CompileVerdict
  <2> HIDE DEF CompileVerdict
  <2> QED
    BY <1>2, <2>1 DEF TypeOK, Compile
<1>3. CASE CheckArity
  BY <1>3 DEF TypeOK, CheckArity, NextLoop
<1>4. CASE CheckInput
  BY <1>4 DEF TypeOK, CheckInput, At, Step, Stop, context
<1>5. CASE CreateOutput
  <2>1. idx \in Nat /\ idx' \in Nat \ {0} /\ call' = call
    BY <1>5 DEF TypeOK, CreateOutput, Step, Stop, context
  <2>2. outputs' \in Seq(OutputValues)
    <3>1. [tag |-> "Tensor", at |-> <<"placeholder", idx>>] \in OutputValues
      BY <2>1 DEF OutputValues
    <3>2. [tag |-> "Float", val |-> <<"default">>] \in OutputValues
      BY DEF OutputValues
    <3>3. ASSUME NEW o \in OutputValues, outputs' = Append(outputs, o)
          PROVE  outputs' \in Seq(OutputValues)
      BY <3>3 DEF TypeOK
    <3>4. CASE UNCHANGED outputs
      BY <3>4 DEF TypeOK
    <3> QED
      BY <1>5, <3>1, <3>2, <3>3, <3>4, CreateOutputDoes
  <2>3. DOMAIN mem' \subseteq Addresses
    <3>1. CASE mem' = Store(Store(mem, <<"temporary", idx>>, <<"zero">>),
                            <<"placeholder", idx>>, <<"zero">>)
      <4> SUFFICES ASSUME NEW x, x \in DOMAIN mem' PROVE x \in Addresses
        OBVIOUS
      <4>1. x \in DOMAIN mem \cup {<<"temporary", idx>>, <<"placeholder", idx>>}
        BY <3>1, StoreIs
      <4> QED
        BY <2>1, <4>1, AddressesOf DEF TypeOK
    <3>2. CASE UNCHANGED mem
      BY <3>2 DEF TypeOK
    <3> QED
      BY <1>5, <3>1, <3>2, CreateOutputDoes
  <2>4. pc' \in {"createOutputs"} \cup Stopped
    BY <1>5 DEF CreateOutput, At, Step, Stop
  <2> QED
    BY <2>1, <2>2, <2>3, <2>4 DEF TypeOK
<1>6. CASE AssertArity
  BY <1>6 DEF TypeOK, AssertArity, NextLoop, context
<1>7. CASE PackInput
  <2>1. idx \in Nat /\ idx' \in Nat \ {0} /\ call' = call /\ outputs' = outputs
    BY <1>7 DEF TypeOK, PackInput, Step, Stop, context
  <2>2. DOMAIN mem' \subseteq Addresses
    <3>1. ASSUME NEW v, mem' = Store(Store(mem, InBuffer(idx), v), InDescriptor(idx), InBuffer(idx))
          PROVE  DOMAIN mem' \subseteq Addresses
      <4> SUFFICES ASSUME NEW x, x \in DOMAIN mem' PROVE x \in Addresses
        OBVIOUS
      <4>1. x \in DOMAIN mem \cup {InBuffer(idx), InDescriptor(idx)}
        BY <3>1, StoreIs
      <4> QED
        BY <2>1, <4>1, AddressesOf DEF TypeOK
    <3>2. CASE UNCHANGED mem
      BY <3>2 DEF TypeOK
    <3> QED
      BY <1>7, <3>1, <3>2, PackInputDoes
  <2>3. pc' \in {"packInputs"} \cup Stopped
    BY <1>7 DEF PackInput, At, Step, Stop
  <2> QED
    BY <2>1, <2>2, <2>3 DEF TypeOK
<1>8. CASE CallFunction
  <2>1. idx' = idx /\ call' = call /\ pc' \in {"copyOut", "undefined"}
    BY <1>8 DEF CallFunction, Stop, context, NextLoop
  <2>2. outputs' \in Seq(OutputValues)
    <3>1. CASE UNCHANGED outputs
      BY <3>1 DEF TypeOK
    <3>2. CASE outputs' = [i \in DOMAIN outputs |->
             IF IsTensor(outputs[i]) THEN outputs[i] ELSE [outputs[i] EXCEPT !.val = <<"computed", i>>]]
      <4>1. ASSUME NEW i \in DOMAIN outputs PROVE outputs'[i] \in OutputValues
        <5>1. outputs[i] \in OutputValues /\ i \in Nat
          BY DEF TypeOK
        <5> QED
          BY <3>2, <5>1 DEF OutputValues, IsTensor
      <4>2. DOMAIN outputs = 1 .. Len(outputs) /\ Len(outputs) \in Nat
        BY DEF TypeOK
      <4>3. outputs' \in [1 .. Len(outputs) -> OutputValues]
        BY <3>2, <4>1, <4>2
      <4> QED
        BY <4>2, <4>3, SequenceFrom
    <3> QED
      BY <1>8, <3>1, <3>2 DEF CallFunction
  <2>3. DOMAIN mem' \subseteq Addresses
    <3>1. TensorInputs \subseteq Nat /\ TensorOutputs \subseteq Nat
      BY CallOfCalls DEF TypeOK, TensorInputs, TensorOutputs, Inputs
    <3> QED
      <4>1. CASE UNCHANGED mem
        BY <4>1 DEF TypeOK
      <4>2. ASSUME NEW result \in [TensorOutputs -> {InBuffer(i) : i \in TensorInputs}
                            \cup {<<"newBuffer", i>> : i \in TensorOutputs} \cup {Static}],
                   DOMAIN mem' = DOMAIN mem
                     \cup ({result[i] : i \in TensorOutputs} \ (DOMAIN mem \cup {Static}))
                     \cup {OutDescriptor(i) : i \in TensorOutputs}
            PROVE  DOMAIN mem' \subseteq Addresses
        <5>1. \A i \in TensorOutputs : result[i] \in Addresses \cup {Static} /\ OutDescriptor(i) \in Addresses
          BY <3>1, AddressesOf
        <5> QED
          BY <4>2, <5>1 DEF TypeOK
      <4> QED
        BY <1>8, <4>1, <4>2 DEF CallFunction
  <2> QED
    BY <2>1, <2>2, <2>3 DEF TypeOK
<1>9. CASE CopyOut
  <2>1. idx \in Nat /\ idx' \in Nat \ {0} /\ call' = call /\ pc' = pc /\ pc = "copyOut"
    BY <1>9 DEF TypeOK, CopyOut, At, Step, context
  <2>2. outputs' \in Seq(OutputValues)
    <3>1. CASE UNCHANGED outputs
      BY <3>1 DEF TypeOK
    <3>2. CASE IsTensor(outputs[idx]) /\ outputs' = [outputs EXCEPT ![idx].at = ResultData(idx)]
      <4>1. ASSUME NEW i \in DOMAIN outputs PROVE outputs'[i] \in OutputValues
        <5>1. outputs[i] \in OutputValues
          BY DEF TypeOK
        <5>2. i # idx => outputs'[i] = outputs[i]
          BY <3>2
        <5>3. i = idx => outputs'[i] = [tag |-> "Tensor", at |-> <<"result", idx>>]
          BY <3>2, <5>1 DEF OutputValues, IsTensor, ResultData
        <5> QED
          BY <2>1, <5>1, <5>2, <5>3 DEF OutputValues
      <4>2. DOMAIN outputs = 1 .. Len(outputs) /\ Len(outputs) \in Nat
        BY DEF TypeOK
      <4>3. outputs' \in [1 .. Len(outputs) -> OutputValues]
        BY <3>2, <4>1, <4>2
      <4> QED
        BY <4>2, <4>3, SequenceFrom
    <3> QED
      BY <1>9, <3>1, <3>2 DEF CopyOut
  <2>3. DOMAIN mem' \subseteq Addresses
    <3>1. ASSUME NEW S, NEW v, mem' = Store(Restrict(mem, DOMAIN mem \ S), ResultData(idx), v)
          PROVE  DOMAIN mem' \subseteq Addresses
      <4> SUFFICES ASSUME NEW x, x \in DOMAIN mem' PROVE x \in Addresses
        OBVIOUS
      <4>1. x \in DOMAIN mem \cup {ResultData(idx)}
        BY <3>1, StoreIs, RestrictIs
      <4> QED
        BY <2>1, <4>1, AddressesOf DEF TypeOK
    <3>2. CASE UNCHANGED mem
      BY <3>2 DEF TypeOK
    <3> QED
      BY <1>9, <3>1, <3>2, CopyOutDoes
  <2> QED
    BY <2>1, <2>2, <2>3 DEF TypeOK
<1>10. CASE FreeOutputBuffer
  BY <1>10 DEF TypeOK, FreeOutputBuffer, At, Step, Stop, context, Free, FreeNothing, Restrict
<1>11. CASE FreeInputBuffer
  BY <1>11 DEF TypeOK, FreeInputBuffer, At, Step, Stop, context, Free, FreeNothing, Restrict
<1>12. CASE FreeOutputDescriptor
  BY <1>12 DEF TypeOK, FreeOutputDescriptor, At, Step, Stop, context, Free, FreeNothing, Restrict
<1>13. CASE FreeInputDescriptor
  BY <1>13 DEF TypeOK, FreeInputDescriptor, At, Step, Stop, context, Free, FreeNothing, Restrict
<1>14. CASE Return \/ UNCHANGED vars
  BY <1>14 DEF TypeOK, Return, vars, context
<1> QED
  BY <1>1, <1>2, <1>3, <1>4, <1>5, <1>6, <1>7, <1>8, <1>9, <1>10, <1>11, <1>12, <1>13, <1>14 DEF Next

\* Types are kept: every allocation has a name, and an output is a float or a
\* tensor at its placeholder or its result.
THEOREM InvokeTypeCorrect == Spec => []TypeOK
BY TypeInit, TypeStep, PTL DEF Spec

-----------------------------------------------------------------------------
\* What the runtime reads

AnyTypes == Memrefs \cup Scalars

\* What the metadata can say of a type.
Describable(type) ==
  /\ IsMemref(type) \/ type.kind \in {"f32", "f64"}
  /\ type.kind = "memref" => Len(type.extents) <= kMaxRank

\* The extents of a type are padded to kMaxRank.
LEMMA PaddedExtents ==
  ASSUME NEW type \in AnyTypes, Describable(type)
  PROVE  /\ DOMAIN getExtentsForType(type) = 1 .. kMaxRank
         /\ type.kind = "memref" =>
              \A k \in 1 .. Len(type.extents) : getExtentsForType(type)[k] = type.extents[k]
<1>1. CASE type.kind = "memref"
  <2>1. type.extents \in Seq(Nat \cup {Dynamic})
    BY <1>1 DEF AnyTypes, Memrefs, Scalars
  <2> QED
    BY <1>1, <2>1 DEF getExtentsForType, kMaxRank, Describable, Dynamic
<1>2. CASE type.kind # "memref"
  BY <1>2 DEF getExtentsForType, kMaxRank
<1> QED
  BY <1>1, <1>2

LEMMA ChunkOf ==
  ASSUME NEW n \in Nat, NEW k \in 0 .. 5
  PROVE  (n * 6 + k) \div 6 = n /\ (n * 6 + k) % 6 = k
OBVIOUS

LEMMA AsReadIs ==
  ASSUME NEW type
  PROVE  AsRead(type) = [argType     |-> ArgInfo(type).argType,
                         elementType |-> IF ArgType(type) = "kTensor" THEN "F32" ELSE "NONE",
                         rank        |-> ArgInfo(type).rank,
                         extents     |-> ArgInfo(type).extents]
<1>1. ArgType(type) # "kTensor" => ArgInfo(type).elementType = "NONE"
  BY DEF ArgInfo
<1> QED
  BY <1>1 DEF AsRead, ArgInfo

\* A descriptor that points at the extents of a type is read as what is to be
\* known of it, the element type apart.
LEMMA ArgIsRead ==
  ASSUME NEW type \in AnyTypes, Describable(type), NEW d, NEW a,
         a.abiType = getIntReprForABIType(type), a.rank = getRankForType(type),
         \A k \in 1 .. kMaxRank :
           d.globals[a.extents.global][a.extents.offset + k] = getExtentsForType(type)[k]
  PROVE  ExternalArgInfo(d, a) = AsRead(type)
<1>1. type.kind = "memref" => type.extents \in Seq(Nat \cup {Dynamic})
  BY DEF AnyTypes, Memrefs, Scalars
<1>2. ExternalArgInfo(d, a).argType = ArgInfo(type).argType
  BY DEF ExternalArgInfo, ArgInfo, ArgType, getIntReprForABIType, Describable, IsMemref
<1>3. ExternalArgInfo(d, a).rank = ArgInfo(type).rank
  BY DEF ExternalArgInfo, ArgInfo, getRankForType
<1>4. ExternalArgInfo(d, a).extents = ArgInfo(type).extents
  <2>1. CASE type.kind = "memref"
    <3> PICK s \in Seq(Nat \cup {Dynamic}) : s = type.extents
      BY <1>1, <2>1
    <3>1. a.rank = Len(s) /\ Len(s) <= 6
      BY <2>1 DEF getRankForType, Describable, kMaxRank
    <3>2. \A k \in 1 .. Len(s) : d.globals[a.extents.global][a.extents.offset + k] = s[k]
      BY <2>1, <3>1, PaddedExtents DEF kMaxRank
    <3>3. ExternalArgInfo(d, a).extents =
            [k \in 1 .. Len(s) |-> d.globals[a.extents.global][a.extents.offset + k]]
      BY <3>1 DEF ExternalArgInfo
    <3>4. s = [k \in 1 .. Len(s) |-> s[k]]
      OBVIOUS
    <3> QED
      BY <2>1, <3>2, <3>3, <3>4 DEF ArgInfo
  <2>2. CASE type.kind # "memref"
    <3>1. a.rank \in {-1, 0}
      BY <2>2 DEF getRankForType
    <3>2. ExternalArgInfo(d, a).extents = <<>>
      BY <3>1 DEF ExternalArgInfo
    <3> QED
      BY <2>2, <3>2 DEF ArgInfo
  <2> QED
    BY <2>1, <2>2
<1>5. ExternalArgInfo(d, a).elementType = IF ArgType(type) = "kTensor" THEN "F32" ELSE "NONE"
  BY DEF ExternalArgInfo, ArgType, getIntReprForABIType, Describable, IsMemref
<1> QED
  BY <1>2, <1>3, <1>4, <1>5, AsReadIs DEF ExternalArgInfo

\* All shapes of a side are in one array, kMaxRank extents each.
LEMMA ShapesOf ==
  ASSUME NEW types \in Seq(AnyTypes), NEW i \in DOMAIN types, NEW k \in 1 .. kMaxRank
  PROVE  Side(types).shapes[(i - 1) * kMaxRank + k] = getExtentsForType(types[i])[k]
<1>1. i - 1 \in Nat /\ k - 1 \in 0 .. 5 /\ k \in Int /\ i <= Len(types) /\ Len(types) \in Nat
  BY DEF kMaxRank
<1> DEFINE m == (i - 1) * 6 + k
<1>2. m \in 1 .. 6 * Len(types)
  BY <1>1
<1>3. m - 1 = (i - 1) * 6 + (k - 1)
  BY <1>1
<1>4. (m - 1) \div 6 = i - 1 /\ (m - 1) % 6 = k - 1
  BY <1>1, <1>3, ChunkOf
<1> HIDE DEF m
<1>5. Side(types).shapes[m] = getExtentsForType(types[i - 1 + 1])[k - 1 + 1]
  BY <1>2, <1>4 DEF Side, kMaxRank
<1>6. i - 1 + 1 = i /\ k - 1 + 1 = k
  BY <1>1
<1> QED
  BY <1>5, <1>6 DEF m, kMaxRank

\* A module that has been compiled has only types the metadata can say, and
\* either casts each argument or none.
LEMMA TypesOf ==
  ASSUME NEW f \in Funcs
  PROVE  /\ f.inputs \in Seq(AnyTypes) /\ f.outputs \in Seq(AnyTypes)
         /\ Types(f) \subseteq AnyTypes
         /\ \A i \in DOMAIN f.inputs : f.inputs[i] \in Types(f)
         /\ \A i \in DOMAIN f.outputs : f.outputs[i] \in Types(f)
<1>1. f.inputs \in Seq(AnyTypes) /\ f.outputs \in Seq(AnyTypes)
  BY DEF Funcs, AnyTypes
<1>2. Types(f) = ToSet(f.inputs) \cup ToSet(f.outputs)
  BY <1>1, ElementsOfConcat DEF Types
<1>3. ToSet(f.inputs) \subseteq AnyTypes /\ ToSet(f.outputs) \subseteq AnyTypes
  BY <1>1 DEF ToSet
<1> QED
  BY <1>1, <1>2, <1>3 DEF ToSet

LEMMA CompiledModule ==
  ASSUME NEW module \in Seq(Funcs), CompileVerdict(module) = "compiled"
  PROVE  /\ \A f \in ToSet(module) : SignatureConverts(f)
         /\ \A i \in Public(module) :
              /\ \A j \in DOMAIN module[i].inputs : Describable(module[i].inputs[j])
              /\ \A j \in DOMAIN module[i].outputs : Describable(module[i].outputs[j])
<1> DEFINE bad == {i \in Public(module) : MetadataAsserts(module[i]) \/ ~ expressibleWithRefbackrtABI(module[i])}
<1>1. bad = {} /\ \A f \in ToSet(module) : SignatureConverts(f)
  BY DEF CompileVerdict
<1>2. ASSUME NEW i \in Public(module), NEW type \in Types(module[i]) PROVE Describable(type)
  <2>1. /\ IsMemref(type) \/ type.kind \in {"f32", "f64"}
        /\ ~ (type.kind = "memref" /\ Len(type.extents) > kMaxRank)
    BY <1>1, <1>2 DEF MetadataAsserts, expressibleWithRefbackrtABI
  <2>2. type \in AnyTypes
    BY TypesOf DEF Public
  <2>3. type.kind = "memref" => Len(type.extents) \in Nat
    BY <2>2 DEF AnyTypes, Memrefs, Scalars
  <2> QED
    BY <2>1, <2>3 DEF Describable, kMaxRank
<1>3. \A i \in Public(module) : module[i] \in Funcs
  BY DEF Public
<1> QED
  BY <1>1, <1>2, <1>3, TypesOf

DistinctNames(module) ==
  \A i, j \in DOMAIN module : module[i].name = module[j].name => i = j

\* What the global of a function's side holds.
LEMMA GlobalOf ==
  ASSUME NEW module \in Seq(Funcs), DistinctNames(module), NEW i \in Public(module),
         NEW side \in {"inputs", "outputs"}
  PROVE  Lowered(module).globals[<<side, module[i].name>>] = FuncMetadata(module[i])[side].shapes
<1> DEFINE metadatas == createModuleMetadata(module)
           names == {metadatas[j].funcName : j \in DOMAIN metadatas}
           n == module[i].name
           at == CHOOSE j \in DOMAIN metadatas : metadatas[j].funcName = n
<1>1. DOMAIN metadatas = Public(module) /\ \A j \in Public(module) : metadatas[j] = FuncMetadata(module[j])
  BY DEF createModuleMetadata
<1>2. \A j \in Public(module) : metadatas[j].funcName = module[j].name
  BY <1>1 DEF FuncMetadata
<1>3. at = i /\ n \in names
  BY <1>1, <1>2 DEF DistinctNames, Public
<1> HIDE DEF metadatas
<1>4. Lowered(module).globals = [g \in {"inputs", "outputs"} \X names |->
         metadatas[CHOOSE j \in DOMAIN metadatas : metadatas[j].funcName = g[2]][g[1]].shapes]
  BY DEF Lowered, LowerModuleMetadata, metadatas
<1>5. <<side, n>> \in {"inputs", "outputs"} \X names
  BY <1>3
<1>6. Lowered(module).globals[<<side, n>>] = metadatas[at][side].shapes
  BY <1>4, <1>5
<1> QED
  BY <1>1, <1>3, <1>6

\* A function is found by its name, if it is public.
LEMMA DescriptorOf ==
  ASSUME NEW module \in Seq(Funcs), DistinctNames(module), NEW name
  PROVE  /\ \A i \in Public(module) : module[i].name = name =>
              getFuncDescriptor(Lowered(module), name) = <<FuncDescriptor(FuncMetadata(module[i]))>>
         /\ getFuncDescriptor(Lowered(module), name) # <<>> =>
              \E i \in Public(module) : module[i].name = name
<1> DEFINE fds == Lowered(module).functionDescriptors
           named == {i \in DOMAIN fds : fds[i].name = name}
<1>1. /\ DOMAIN fds = Public(module)
      /\ \A i \in Public(module) :
           fds[i] = FuncDescriptor(FuncMetadata(module[i])) /\ fds[i].name = module[i].name
  BY DEF Lowered, LowerModuleMetadata, createModuleMetadata, FuncDescriptor, FuncMetadata
<1>2. getFuncDescriptor(Lowered(module), name) = IF named = {} THEN <<>> ELSE <<fds[Min(named)]>>
  BY DEF getFuncDescriptor
<1> HIDE DEF fds
<1>3. ASSUME NEW i \in Public(module), module[i].name = name
      PROVE  named # {} /\ Min(named) = i
  <2>1. named = {i}
    BY <1>1, <1>3 DEF DistinctNames, Public
  <2>2. i \in Int
    BY DEF Public
  <2> QED
    BY <2>1, <2>2 DEF Min
<1> QED
  BY <1>1, <1>2, <1>3

\* What is read of a side of a function.
LEMMA SideIsRead ==
  ASSUME NEW module \in Seq(Funcs), DistinctNames(module), NEW i \in Public(module),
         NEW side \in {"inputs", "outputs"},
         NEW types \in Seq(AnyTypes), FuncMetadata(module[i])[side] = Side(types),
         \A j \in DOMAIN types : Describable(types[j]),
         NEW ds, ds = ArgDescriptors(FuncMetadata(module[i]), side)
  PROVE  /\ DOMAIN ds = DOMAIN types
         /\ \A j \in DOMAIN types : ExternalArgInfo(Lowered(module), ds[j]) = AsRead(types[j])
<1>1. FuncMetadata(module[i]).funcName = module[i].name
  BY DEF FuncMetadata
<1>2. /\ DOMAIN ds = DOMAIN types
      /\ \A j \in DOMAIN types :
           /\ ds[j].abiType = getIntReprForABIType(types[j])
           /\ ds[j].rank = getRankForType(types[j])
           /\ ds[j].extents.global = <<side, module[i].name>>
           /\ ds[j].extents.offset = (j - 1) * kMaxRank
  BY <1>1 DEF ArgDescriptors, Side
<1>3. Lowered(module).globals[<<side, module[i].name>>] = Side(types).shapes
  BY GlobalOf
<1>4. ASSUME NEW j \in DOMAIN types
      PROVE  ExternalArgInfo(Lowered(module), ds[j]) = AsRead(types[j])
  <2>1. types[j] \in AnyTypes
    OBVIOUS
  <2>2. \A k \in 1 .. kMaxRank :
           Lowered(module).globals[ds[j].extents.global][ds[j].extents.offset + k] =
             getExtentsForType(types[j])[k]
    <3> TAKE k \in 1 .. kMaxRank
    <3>1. Lowered(module).globals[ds[j].extents.global] = Side(types).shapes
      BY <1>2, <1>3
    <3>2. ds[j].extents.offset = (j - 1) * kMaxRank
      BY <1>2
    <3>3. Side(types).shapes[(j - 1) * kMaxRank + k] = getExtentsForType(types[j])[k]
      BY ShapesOf
    <3> QED
      BY <3>1, <3>2, <3>3
  <2> QED
    BY <1>2, <2>1, <2>2, ArgIsRead
<1> QED
  BY <1>2, <1>4

LEMMA SignatureIsRead ==
  ASSUME NEW module \in Seq(Funcs), DistinctNames(module), CompileVerdict(module) = "compiled",
         NEW f \in ToSet(module), f.public
  PROVE  getMetadata(Lowered(module), f.name) = Signature(f)
<1>1. PICK i \in Public(module) : module[i] = f
  BY DEF ToSet, Public
<1>2. f \in Funcs
  BY DEF ToSet
<1> DEFINE d == getFuncDescriptor(Lowered(module), f.name)[1]
           ins == d.inputDescriptors
           outs == d.outputDescriptors
<1>3. ins = ArgDescriptors(FuncMetadata(f), "inputs") /\ outs = ArgDescriptors(FuncMetadata(f), "outputs")
  BY <1>1, DescriptorOf DEF FuncDescriptor
<1>4. FuncMetadata(f)["inputs"] = Side(f.inputs) /\ FuncMetadata(f)["outputs"] = Side(f.outputs)
  BY DEF FuncMetadata
<1>5. /\ \A j \in DOMAIN f.inputs : Describable(f.inputs[j])
      /\ \A j \in DOMAIN f.outputs : Describable(f.outputs[j])
  BY <1>1, CompiledModule
<1>6. /\ DOMAIN ins = DOMAIN f.inputs
      /\ \A j \in DOMAIN f.inputs : ExternalArgInfo(Lowered(module), ins[j]) = AsRead(f.inputs[j])
  BY <1>1, <1>2, <1>3, <1>4, <1>5, SideIsRead, TypesOf
<1>7. /\ DOMAIN outs = DOMAIN f.outputs
      /\ \A j \in DOMAIN f.outputs : ExternalArgInfo(Lowered(module), outs[j]) = AsRead(f.outputs[j])
  BY <1>1, <1>2, <1>3, <1>4, <1>5, SideIsRead, TypesOf
<1> HIDE DEF d
<1>8. getMetadata(Lowered(module), f.name) =
        [inputArgInfos |-> [j \in DOMAIN ins |-> ExternalArgInfo(Lowered(module), ins[j])],
         outputArgInfos |-> [j \in DOMAIN outs |-> ExternalArgInfo(Lowered(module), outs[j])]]
  BY DEF getMetadata, d
<1> QED
  BY <1>6, <1>7, <1>8 DEF Signature

\* The compiler and getMetadata apart, a step leaves what has been read alone.
LEMMA ContextKept ==
  ASSUME [Next]_vars
  PROVE  \/ Compile \/ CheckArity
         \/ UNCHANGED context /\ (pc' \in {"arity"} \cup Running => (pc' # "arity" /\ pc \in Running) \/ pc' = pc)
<1> USE DEF AfterOutputs, AfterCall, Running, Stopped
<1>1. CASE EndLoop
  BY <1>1 DEF EndLoop, NextLoop, Loops
<1>2. CASE CheckInput
  BY <1>2 DEF CheckInput, At, Step, Stop
<1>3. CASE CreateOutput
  BY <1>3, CreateOutputDoes DEF Step
<1>4. CASE AssertArity
  BY <1>4 DEF AssertArity, NextLoop
<1>5. CASE PackInput
  BY <1>5, PackInputDoes DEF Step
<1>6. CASE CallFunction
  BY <1>6 DEF CallFunction, Stop, NextLoop
<1>7. CASE CopyOut
  BY <1>7, CopyOutDoes DEF Step
<1>8. CASE FreeOutputBuffer
  BY <1>8 DEF FreeOutputBuffer, At, Step, Stop, Free, FreeNothing
<1>9. CASE FreeInputBuffer
  BY <1>9 DEF FreeInputBuffer, At, Step, Stop, Free, FreeNothing
<1>10. CASE FreeOutputDescriptor
  BY <1>10 DEF FreeOutputDescriptor, At, Step, Stop, Free, FreeNothing
<1>11. CASE FreeInputDescriptor
  BY <1>11 DEF FreeInputDescriptor, At, Step, Stop, Free, FreeNothing
<1>12. CASE Return \/ UNCHANGED vars
  BY <1>12 DEF Return, vars
<1> QED
  BY <1>1, <1>2, <1>3, <1>4, <1>5, <1>6, <1>7, <1>8, <1>9, <1>10, <1>11, <1>12 DEF Next

LEMMA MetadataInit == Init => MetadataInv
BY DEF Init, MetadataInv, AfterOutputs, AfterCall, Running

LEMMA CallIsWellFormed ==
  ASSUME TypeOK
  PROVE  call.module \in Seq(Funcs) /\ DistinctNames(call.module) /\ Inputs \in Seq(RtValues)
BY CallOfCalls DEF TypeOK, DistinctNames, Inputs

\* The function that a name leads to, and what is read of it.
LEMMA FuncFound ==
  ASSUME TypeOK, MetadataInv, pc = "arity", getFuncDescriptor(descriptor, call.name) # <<>>
  PROVE  /\ Func \in ToSet(call.module) /\ Func.public /\ Func.name = call.name
         /\ getMetadata(descriptor, call.name) = Signature(Func)
<1> DEFINE module == call.module
           hit == getFuncDescriptor(descriptor, call.name)
<1>1. Compiled /\ descriptor = Lowered(module)
  BY DEF MetadataInv
<1>2. PICK i \in Public(module) : module[i].name = call.name
  BY <1>1, DescriptorOf, CallIsWellFormed
<1> DEFINE f == module[i]
<1>3. f \in ToSet(module) /\ f.public /\ f.name = call.name
  BY <1>2, CallIsWellFormed DEF Public, ToSet
<1>4. hit[1].functionPtr = call.name
  <2>1. hit = <<FuncDescriptor(FuncMetadata(module[i]))>>
    BY <1>1, <1>2, DescriptorOf, CallIsWellFormed
  <2>2. FuncDescriptor(FuncMetadata(module[i])).functionPtr = call.name
    BY <1>2 DEF FuncDescriptor, FuncMetadata
  <2> QED
    BY <2>1, <2>2
<1>5. \A g \in ToSet(module) : g.name = call.name => g = f
  BY <1>2, CallIsWellFormed DEF DistinctNames, ToSet, Public
<1>6. Func = f
  BY <1>3, <1>4, <1>5 DEF Func
<1>7. getMetadata(descriptor, call.name) = Signature(f)
  BY <1>1, <1>3, SignatureIsRead, CallIsWellFormed DEF Compiled
<1> QED
  BY <1>3, <1>6, <1>7

LEMMA MetadataStep == TypeOK /\ MetadataInv /\ [Next]_vars => MetadataInv'
<1> SUFFICES ASSUME TypeOK, MetadataInv, [Next]_vars PROVE MetadataInv'
  OBVIOUS
<1>1. CASE Compile
  <2>1. pc' \in Running \cup {"arity"} => pc' = "arity" /\ Compiled /\ call' = call
          /\ descriptor' = Lowered(call.module)
    <3>1. CompileVerdict(call.module) \in {"assert", "error", "compiled"}
      BY DEF CompileVerdict
    <3> HIDE DEF CompileVerdict
    <3> QED
      BY <1>1, <3>1 DEF Compile, Compiled, Lowered, AfterOutputs, AfterCall, Running
  <2> QED
    BY <2>1 DEF MetadataInv, Compiled, AfterOutputs, AfterCall, Running
<1>2. CASE CheckArity
  <2> DEFINE module == call.module
             hit == getFuncDescriptor(descriptor, call.name)
  <2>1. pc = "arity" /\ Compiled /\ descriptor = Lowered(module) /\ UNCHANGED <<call, descriptor>>
    BY <1>2 DEF CheckArity, MetadataInv
  <2>2. SUFFICES ASSUME pc' \in Running \cup {"arity"} PROVE MetadataInv'
    BY DEF MetadataInv
  <2>3. /\ hit # <<>> /\ pc' = "checkInputs"
        /\ metadata' = getMetadata(descriptor, call.name)
        /\ Len(metadata'.inputArgInfos) = Len(Inputs)
    BY <1>2, <2>2 DEF CheckArity, NextLoop, AfterOutputs, AfterCall, Running
  <2>4. /\ Func \in ToSet(module) /\ Func.public /\ Func.name = call.name
        /\ metadata' = Signature(Func)
    BY <1>2, <2>3, FuncFound DEF CheckArity
  <2>5. Func \in Funcs
    BY <2>4, CallIsWellFormed DEF ToSet
  <2>6. Len(Inputs) = Len(Func.inputs)
    BY <2>3, <2>4, <2>5, TypesOf DEF Signature
  <2>7. Func' = Func /\ Inputs' = Inputs /\ call' = call
    BY <2>1 DEF Func, Inputs
  <2> QED
    BY <2>1, <2>4, <2>6, <2>7 DEF MetadataInv, Compiled
<1>3. CASE UNCHANGED context /\ (pc' \in {"arity"} \cup Running => (pc' # "arity" /\ pc \in Running) \/ pc' = pc)
  <2>1. Func' = Func /\ Inputs' = Inputs /\ UNCHANGED <<call, descriptor, metadata>>
    BY <1>3 DEF Func, Inputs, context
  <2> QED
    BY <1>3, <2>1 DEF MetadataInv, Compiled
<1> QED
  BY <1>1, <1>2, <1>3, ContextKept

LEMMA MetadataReadCorrect == Spec => []MetadataInv
BY InvokeTypeCorrect, MetadataInit, MetadataStep, PTL DEF Spec

\* Of every module that compiles the runtime finds the public functions and no
\* others, and of each of them it reads its own signature: the metadata, the
\* descriptors, the shared array of padded shapes and the offsets agree.
THEOREM MetadataArrivesCorrect == Spec => []MetadataArrives
<1>1. TypeOK /\ MetadataInv => MetadataArrives
  <2> SUFFICES ASSUME TypeOK, MetadataInv, pc = "arity", NEW f \in ToSet(call.module)
               PROVE  LET found == getFuncDescriptor(descriptor, f.name)
                      IN  /\ found # <<>> <=> f.public
                          /\ f.public =>
                               /\ found[1].functionPtr = f.name
                               /\ getMetadata(descriptor, f.name) = Signature(f)
    BY DEF MetadataArrives, Signature
  <2> DEFINE module == call.module
  <2>1. descriptor = Lowered(module) /\ Compiled
    BY DEF MetadataInv
  <2>2. PICK i \in DOMAIN module : module[i] = f
    BY DEF ToSet
  <2>3. \A j \in Public(module) : module[j].name = f.name => module[j].public /\ j = i
    BY <2>2, CallIsWellFormed DEF DistinctNames, Public
  <2>4. f.public => i \in Public(module)
    BY <2>2 DEF Public
  <2>5. getFuncDescriptor(descriptor, f.name) # <<>> => f.public
    BY <2>1, <2>2, <2>3, DescriptorOf, CallIsWellFormed
  <2>6. f.public => getFuncDescriptor(descriptor, f.name) = <<FuncDescriptor(FuncMetadata(f))>>
    BY <2>1, <2>2, <2>4, DescriptorOf, CallIsWellFormed
  <2>7. FuncDescriptor(FuncMetadata(f)).functionPtr = f.name
    BY DEF FuncDescriptor, FuncMetadata
  <2>8. f.public => getMetadata(descriptor, f.name) = Signature(f)
    BY <2>1, SignatureIsRead, CallIsWellFormed DEF Compiled
  <2> QED
    BY <2>5, <2>6, <2>7, <2>8
<1> QED
  BY <1>1, InvokeTypeCorrect, MetadataReadCorrect, PTL

-----------------------------------------------------------------------------
\* The checks of the arguments

\* Which steps are taken where, and where they lead.
LEMMA StepAt ==
  ASSUME [Next]_vars
  PROVE  \/ UNCHANGED vars
         \/ EndLoop /\ pc \in Loops /\ pc' = NextLoop[pc]
         \/ Compile /\ pc = "compile" /\ pc' \in {"arity"} \cup Stopped
         \/ CheckArity /\ pc = "arity" /\ pc' \in {"checkInputs"} \cup Stopped
         \/ CheckInput /\ pc = "checkInputs" /\ pc' \in {pc} \cup Stopped
         \/ CreateOutput /\ pc = "createOutputs" /\ pc' \in {pc} \cup Stopped
         \/ AssertArity /\ pc = "assertArity" /\ pc' \in {"packInputs"} \cup Stopped
         \/ PackInput /\ pc = "packInputs" /\ pc' \in {pc} \cup Stopped
         \/ CallFunction /\ pc = "call" /\ pc' \in {"copyOut"} \cup Stopped
         \/ CopyOut /\ pc = "copyOut" /\ pc' = pc
         \/ FreeOutputBuffer /\ pc = "freeOutBuffers" /\ pc' \in {pc} \cup Stopped
         \/ FreeInputBuffer /\ pc = "freeInBuffers" /\ pc' \in {pc} \cup Stopped
         \/ FreeOutputDescriptor /\ pc = "freeOutDescriptors" /\ pc' \in {pc} \cup Stopped
         \/ FreeInputDescriptor /\ pc = "freeInDescriptors" /\ pc' \in {pc} \cup Stopped
<1> USE DEF Stopped
<1>1. EndLoop => pc \in Loops /\ pc' = NextLoop[pc]
  BY DEF EndLoop
<1>2. Compile => pc = "compile" /\ pc' \in {"arity"} \cup Stopped
  <2>1. CompileVerdict(call.module) \in {"assert", "error", "compiled"}
    BY DEF CompileVerdict
  <2> HIDE DEF CompileVerdict
  <2> QED
    BY <2>1 DEF Compile
<1>3. CheckArity => pc = "arity" /\ pc' \in {"checkInputs"} \cup Stopped
  BY DEF CheckArity, NextLoop
<1>4. CheckInput => pc = "checkInputs" /\ pc' \in {pc} \cup Stopped
  BY DEF CheckInput, At, Step, Stop
<1>5. CreateOutput => pc = "createOutputs" /\ pc' \in {pc} \cup Stopped
  BY CreateOutputDoes DEF Step
<1>6. AssertArity => pc = "assertArity" /\ pc' \in {"packInputs"} \cup Stopped
  BY DEF AssertArity, NextLoop
<1>7. PackInput => pc = "packInputs" /\ pc' \in {pc} \cup Stopped
  BY PackInputDoes DEF Step
<1>8. CallFunction => pc = "call" /\ pc' \in {"copyOut"} \cup Stopped
  BY DEF CallFunction, Stop, NextLoop
<1>9. CopyOut => pc = "copyOut" /\ pc' = pc
  BY CopyOutDoes DEF Step
<1>10. FreeOutputBuffer => pc = "freeOutBuffers" /\ pc' \in {pc} \cup Stopped
  BY DEF FreeOutputBuffer, At, Step, Stop, Free, FreeNothing
<1>11. FreeInputBuffer => pc = "freeInBuffers" /\ pc' \in {pc} \cup Stopped
  BY DEF FreeInputBuffer, At, Step, Stop, Free, FreeNothing
<1>12. FreeOutputDescriptor => pc = "freeOutDescriptors" /\ pc' \in {pc} \cup Stopped
  BY DEF FreeOutputDescriptor, At, Step, Stop, Free, FreeNothing
<1>13. FreeInputDescriptor => pc = "freeInDescriptors" /\ pc' \in {pc} \cup Stopped
  BY DEF FreeInputDescriptor, At, Step, Stop, Free, FreeNothing
<1>14. Return => UNCHANGED vars
  BY DEF Return
<1> QED
  BY <1>1, <1>2, <1>3, <1>4, <1>5, <1>6, <1>7, <1>8, <1>9, <1>10, <1>11, <1>12, <1>13, <1>14 DEF Next

LEMMA CheckedStep == TypeOK /\ CheckedInv /\ [Next]_vars => CheckedInv'
<1> SUFFICES ASSUME TypeOK, CheckedInv, [Next]_vars, pc' \in Running, NEW i \in DOMAIN Inputs',
                    pc' = "checkInputs" => i < idx'
             PROVE  Checked(i)'
  BY DEF CheckedInv
<1> USE DEF AfterOutputs, AfterCall, Running, Stopped
<1>1. CASE CheckArity /\ pc = "arity"
  <2>1. idx' = 1 /\ pc' = "checkInputs" /\ Inputs' = Inputs
    BY <1>1 DEF CheckArity, TypeOK, NextLoop, Inputs
  <2>2. i \in Nat \ {0}
    BY <2>1, CallIsWellFormed
  <2> QED
    BY <2>1, <2>2
<1>2. CASE ~ (CheckArity /\ pc = "arity")
  <2>1. UNCHANGED context /\ pc \in Running
    <3>1. ~ CheckArity
      BY <1>2 DEF CheckArity
    <3>2. ~ Compile
      BY StepAt DEF Compile, Stopped, Loops, NextLoop, vars
    <3> QED
      BY <3>1, <3>2, ContextKept
  <2>2. Inputs' = Inputs /\ metadata' = metadata
    BY <2>1 DEF Inputs, context
  <2>3. Checked(i)' <=> Checked(i)
    BY <2>2 DEF Checked
  <2>4. i \in Nat /\ i <= Len(Inputs) /\ Len(Inputs) \in Nat
    BY <2>2, CallIsWellFormed
  <2>5. pc = "checkInputs" /\ ~ (i < idx) => Checked(i)
    <3> SUFFICES ASSUME pc = "checkInputs", ~ (i < idx) PROVE Checked(i)
      OBVIOUS
    <3>1. CASE EndLoop
      BY <2>4, <3>1 DEF EndLoop, Iterations, TypeOK
    <3>2. CASE CheckInput
      <4>1. /\ CheckRtValueArgTypes(Inputs[idx], metadata.inputArgInfos[idx])
            /\ CheckRtValueShapes(Inputs[idx], metadata.inputArgInfos[idx])
            /\ idx' = idx + 1 /\ pc' = pc
        BY <3>2 DEF CheckInput, Step, Stop
      <4>2. i = idx
        BY <2>4, <4>1 DEF TypeOK
      <4> QED
        BY <4>1, <4>2 DEF Checked
    <3>3. CASE UNCHANGED vars
      BY <3>3 DEF vars
    <3> QED
      BY <3>1, <3>2, <3>3, StepAt
  <2> QED
    BY <2>1, <2>2, <2>3, <2>5 DEF CheckedInv
<1> QED
  BY <1>1, <1>2

LEMMA CheckedCorrect == Spec => []CheckedInv
<1>1. Init => CheckedInv
  BY DEF Init, CheckedInv, AfterOutputs, AfterCall, Running
<1> QED
  BY <1>1, InvokeTypeCorrect, CheckedStep, PTL DEF Spec

\* Where the compiled function runs, its signature is what the arguments have
\* been checked against.
LEMMA SignatureAtCall ==
  ASSUME TypeOK, MetadataInv, pc \in Running
  PROVE  /\ Func \in Funcs /\ Func \in ToSet(call.module) /\ Func.name = call.name
         /\ metadata = Signature(Func) /\ Len(Inputs) = Len(Func.inputs)
         /\ DOMAIN Inputs = DOMAIN Func.inputs
         /\ \A i \in DOMAIN Func.inputs :
              Func.inputs[i] \in AnyTypes /\ Describable(Func.inputs[i])
         /\ metadata.outputArgInfos = Signature(Func).outputArgInfos
         /\ Len(metadata.outputArgInfos) \in Nat
<1>1. PICK f \in ToSet(call.module) :
         f.public /\ f.name = call.name /\ Func = f /\ metadata = Signature(f) /\ Len(Inputs) = Len(f.inputs)
  BY DEF MetadataInv
<1>2. PICK i \in Public(call.module) : call.module[i] = f
  BY <1>1 DEF ToSet, Public
<1>3. f \in Funcs
  BY CallIsWellFormed DEF ToSet
<1>4. \A j \in DOMAIN f.inputs : Describable(f.inputs[j])
  BY <1>2, CompiledModule, CallIsWellFormed DEF MetadataInv, Compiled
<1>5. f.inputs \in Seq(AnyTypes) /\ f.outputs \in Seq(AnyTypes)
  BY <1>3, TypesOf
<1>6. DOMAIN Inputs = DOMAIN f.inputs
  BY <1>1, <1>5, CallIsWellFormed
<1>7. Len(metadata.outputArgInfos) \in Nat
  BY <1>1, <1>5 DEF Signature
<1> QED
  BY <1>1, <1>3, <1>4, <1>5, <1>6, <1>7

\* A call refused by the checks, and why.
RefusedInv ==
  /\ pc \in {"compile", "arity"} => metadata = <<>>
  /\ pc = "error" /\ metadata # <<>> =>
       \/ Len(Inputs) # Len(Func.inputs)
       \/ /\ metadata = Signature(Func) /\ DOMAIN Inputs = DOMAIN Func.inputs
          /\ \A i \in DOMAIN Func.inputs : Func.inputs[i] \in AnyTypes /\ Describable(Func.inputs[i])
          /\ \E i \in DOMAIN Inputs : ~ Checked(i)

LEMMA RefusedStep == TypeOK /\ MetadataInv /\ RefusedInv /\ [Next]_vars => RefusedInv'
<1> SUFFICES ASSUME TypeOK, MetadataInv, RefusedInv, [Next]_vars PROVE RefusedInv'
  OBVIOUS
<1>1. CASE Compile
  BY <1>1 DEF Compile, RefusedInv
<1>2. CASE CheckArity
  <2>1. pc = "arity" /\ metadata = <<>> /\ UNCHANGED <<call, descriptor>> /\ pc' \notin {"compile", "arity"}
    BY <1>2 DEF CheckArity, RefusedInv, NextLoop
  <2>2. SUFFICES ASSUME pc' = "error", metadata' # <<>>
                 PROVE  Len(Inputs) # Len(Func.inputs) /\ Inputs' = Inputs /\ Func' = Func
    BY <2>1 DEF RefusedInv
  <2>3. /\ getFuncDescriptor(descriptor, call.name) # <<>>
        /\ metadata' = getMetadata(descriptor, call.name)
        /\ Len(metadata'.inputArgInfos) # Len(Inputs)
    <3>1. getFuncDescriptor(descriptor, call.name) # <<>> /\ metadata' = getMetadata(descriptor, call.name)
      BY <1>2, <2>1, <2>2 DEF CheckArity
    <3>2. PICK numInputs, numOutputs : numInputs = Len(metadata'.inputArgInfos) /\ numOutputs = Len(metadata'.outputArgInfos)
      OBVIOUS
    <3>3. pc' = CASE numInputs > MaxArity \/ numOutputs > MaxArity -> "undefined"
                  [] OTHER -> IF numInputs = Len(Inputs) THEN "checkInputs" ELSE "error"
      BY <1>2, <2>1, <3>1, <3>2 DEF CheckArity, NextLoop
    <3>4. numInputs # Len(Inputs)
      BY <2>2, <3>3
    <3> QED
      BY <3>1, <3>2, <3>4
  <2>4. metadata' = Signature(Func) /\ Func \in ToSet(call.module)
    BY <2>1, <2>3, FuncFound
  <2>5. Func.inputs \in Seq(AnyTypes)
    BY <2>4, CallIsWellFormed, TypesOf DEF ToSet
  <2>6. Len(metadata'.inputArgInfos) = Len(Func.inputs)
    BY <2>4, <2>5 DEF Signature
  <2> QED
    BY <2>1, <2>3, <2>6 DEF Inputs, Func
<1>3. CASE CheckInput
  <2>1. pc = "checkInputs" /\ UNCHANGED context /\ pc' \in {"checkInputs", "error"} /\ idx \in DOMAIN Inputs
    BY <1>3, CallIsWellFormed DEF CheckInput, At, Iterations, Step, Stop, TypeOK
  <2>2. pc' = "error" => ~ Checked(idx)
    BY <1>3, <2>1 DEF CheckInput, Checked, Step
  <2>3. /\ metadata = Signature(Func) /\ DOMAIN Inputs = DOMAIN Func.inputs
        /\ \A i \in DOMAIN Func.inputs : Func.inputs[i] \in AnyTypes /\ Describable(Func.inputs[i])
    BY <2>1, SignatureAtCall DEF Running
  <2>4. Func' = Func /\ Inputs' = Inputs /\ metadata' = metadata
    BY <2>1 DEF Func, Inputs, context
  <2>5. pc' = "error" => \E i \in DOMAIN Inputs' : ~ Checked(i)'
    BY <2>1, <2>2, <2>4 DEF Checked
  <2> QED
    BY <2>1, <2>3, <2>4, <2>5 DEF RefusedInv
<1>4. CASE UNCHANGED <<context, pc>>
  <2>1. /\ Func' = Func /\ Inputs' = Inputs /\ metadata' = metadata /\ pc' = pc
        /\ \A i : Checked(i)' = Checked(i)
    BY <1>4 DEF Func, Inputs, context, Checked
  <2> QED
    BY <2>1 DEF RefusedInv
<1>5. CASE pc' \notin {"compile", "arity", "error"}
  BY <1>5 DEF RefusedInv
<1>6. \/ Compile \/ CheckArity \/ CheckInput \/ UNCHANGED <<context, pc>>
      \/ pc' \notin {"compile", "arity", "error"}
  <2>1. CASE CreateOutput \/ PackInput \/ CopyOut
    BY <2>1, CreateOutputDoes, PackInputDoes, CopyOutDoes DEF Step
  <2>2. CASE EndLoop
    BY <2>2 DEF EndLoop, Loops, NextLoop
  <2>3. CASE AssertArity \/ CallFunction
    BY <2>3 DEF AssertArity, CallFunction, Stop, NextLoop
  <2>4. CASE FreeOutputBuffer \/ FreeInputBuffer \/ FreeOutputDescriptor \/ FreeInputDescriptor
    BY <2>4, FreeOutputBufferDoes, FreeInputBufferDoes, FreeOutputDescriptorDoes, FreeInputDescriptorDoes
       DEF Frees, Step
  <2>5. UNCHANGED vars => UNCHANGED <<context, pc>>
    BY DEF vars
  <2> QED
    BY <2>1, <2>2, <2>3, <2>4, <2>5, StepAt
<1> QED
  BY <1>1, <1>2, <1>3, <1>4, <1>5, <1>6

LEMMA RefusedCorrect == Spec => []RefusedInv
<1>1. Init => RefusedInv
  BY DEF Init, RefusedInv
<1> QED
  BY <1>1, InvokeTypeCorrect, MetadataReadCorrect, RefusedStep, PTL DEF Spec

\* What is checked against what has been read of a type.
Passes(value, type) ==
  CheckRtValueArgTypes(value, AsRead(type)) /\ CheckRtValueShapes(value, AsRead(type))
Conforms(value, type) ==
  (HasTypeOf(value, type) /\ HasShapeOf(value, type)) \/ LetThrough(value, type)

LEMMA ShapesCompared ==
  ASSUME NEW s, NEW t \in Seq(Nat \cup {-1})
  PROVE  /\ (\A d \in DOMAIN t : (IF t[d] = 0 THEN -1 ELSE t[d]) \in {-1, s[d]})
              <=> (\A d \in 1 .. Len(t) : t[d] > 0 => t[d] = s[d])
         /\ (\A d \in DOMAIN t : t[d] \in {-1, s[d]})
              => (\A d \in 1 .. Len(t) : t[d] > 0 => t[d] = s[d])
<1>1. DOMAIN t = 1 .. Len(t) /\ \A d \in 1 .. Len(t) : t[d] \in Nat \/ t[d] = -1
  OBVIOUS
<1>2. ASSUME NEW d \in 1 .. Len(t)
      PROVE  (IF t[d] = 0 THEN -1 ELSE t[d]) \in {-1, s[d]} <=> (t[d] > 0 => t[d] = s[d])
  BY <1>1
<1>3. ASSUME NEW d \in 1 .. Len(t), t[d] \in {-1, s[d]}, t[d] > 0 PROVE t[d] = s[d]
  BY <1>1, <1>3
<1> QED
  BY <1>1, <1>2, <1>3

LEMMA ChecksAre ==
  ASSUME NEW value \in RtValues, NEW type \in AnyTypes, Describable(type)
  PROVE  Passes(value, type) <=> Conforms(value, type)
<1>1. /\ IsMemref(type) \/ type.kind \in {"f32", "f64"}
      /\ ArgType(type) = IF IsMemref(type) THEN "kTensor" ELSE IF type.kind = "f32" THEN "kF32" ELSE "kF64"
  BY DEF Describable, ArgType, IsMemref
<1>2. AsRead(type).argType = ArgType(type)
  BY AsReadIs DEF ArgInfo
<1>3. value.tag \in {"Tensor", "None", "Bool", "Int", "Float", "Double"}
  BY DEF RtValues
<1>4. CASE value.tag \in {"None", "Bool", "Int", "Double"}
  BY <1>4 DEF Passes, Conforms, LetThrough, CheckRtValueArgTypes, CheckRtValueShapes, IsTensor
<1>5. CASE value.tag = "Float"
  BY <1>1, <1>2, <1>5 DEF Passes, Conforms, LetThrough, CheckRtValueArgTypes, CheckRtValueShapes, IsTensor,
     HasTypeOf, HasShapeOf
<1>6. CASE value.tag = "Tensor" /\ ~ (value.elem = "F32" /\ IsMemref(type))
  BY <1>1, <1>2, <1>6 DEF Passes, Conforms, LetThrough, CheckRtValueArgTypes, IsTensor, HasTypeOf
<1>7. CASE value.tag = "Tensor" /\ value.elem = "F32" /\ type.kind = "unranked"
  <2>1. AsRead(type).rank = -1
    BY <1>7, AsReadIs DEF ArgInfo
  <2> QED
    BY <1>1, <1>2, <1>7, <2>1 DEF Passes, Conforms, LetThrough, CheckRtValueArgTypes, CheckRtValueShapes, IsTensor,
       IsMemref, HasShapeOf
<1>8. CASE value.tag = "Tensor" /\ value.elem = "F32" /\ type.kind = "memref"
  <2>1. type \in [kind : {"memref"}, elem : {"f32", "f64", "i64"}, extents : Seq(Nat \cup {-1})]
    BY <1>8 DEF AnyTypes, Memrefs, Scalars, Dynamic
  <2>2. PICK t \in Seq(Nat \cup {-1}) : t = type.extents
    BY <2>1
  <2>3. PICK s : s = value.extents
    OBVIOUS
  <2> DEFINE loosened == [type EXCEPT !.extents = [d \in DOMAIN t |-> IF t[d] = 0 THEN -1 ELSE t[d]]]
  <2>4. loosened.kind = "memref" /\ loosened.extents = [d \in DOMAIN t |-> IF t[d] = 0 THEN -1 ELSE t[d]]
    BY <2>1, <1>8
  <2>5. DOMAIN loosened.extents = DOMAIN t /\ Len(loosened.extents) = Len(t) /\ Len(t) \in Nat
    <3>1. loosened.extents \in Seq(Nat \cup {-1}) /\ Len(loosened.extents) = Len(t)
      BY <2>4
    <3> QED
      BY <3>1, <2>4
  <2>6. AsRead(type).rank = Len(t) /\ AsRead(type).extents = t
    BY <1>8, <2>2, AsReadIs DEF ArgInfo
  <2>7. Passes(value, type) <=> Len(s) = Len(t) /\ \A d \in 1 .. Len(t) : t[d] > 0 => t[d] = s[d]
    BY <1>1, <1>2, <1>8, <2>3, <2>5, <2>6 DEF Passes, CheckRtValueArgTypes, CheckRtValueShapes, IsTensor, IsMemref
  <2>8. LetThrough(value, type) <=> HasShapeOf(value, loosened)
    BY <1>8, <2>2 DEF LetThrough, IsTensor, IsMemref, Dynamic
  <2>9. HasShapeOf(value, loosened)
          <=> Len(s) = Len(t) /\ \A d \in DOMAIN t : (IF t[d] = 0 THEN -1 ELSE t[d]) \in {-1, s[d]}
    BY <1>8, <2>3, <2>4, <2>5 DEF HasShapeOf, Dynamic
  <2>10. HasShapeOf(value, type) => Len(s) = Len(t) /\ \A d \in DOMAIN t : t[d] \in {-1, s[d]}
    BY <1>8, <2>2, <2>3 DEF HasShapeOf, Dynamic
  <2> HIDE DEF loosened
  <2> QED
    BY <2>7, <2>8, <2>9, <2>10, ShapesCompared DEF Conforms
<1> QED
  BY <1>1, <1>3, <1>4, <1>5, <1>6, <1>7, <1>8 DEF IsMemref

\* "Verify user input types and shapes match what the compiler expects": what
\* JITModule::invoke checks against what has been read of the function decides
\* which calls are carried out: those whose arguments are of the parameters'
\* types and shapes and those it lets through, and no others.
THEOREM ArgumentsConformCorrect == Spec => []ArgumentsConform
<1>1. TypeOK /\ MetadataInv /\ CheckedInv /\ RefusedInv => ArgumentsConform
  <2> SUFFICES ASSUME TypeOK, MetadataInv, CheckedInv, RefusedInv PROVE ArgumentsConform
    OBVIOUS
  <2>1. ASSUME NEW i \in DOMAIN Inputs, metadata = Signature(Func), DOMAIN Inputs = DOMAIN Func.inputs,
               Func.inputs[i] \in AnyTypes, Describable(Func.inputs[i])
        PROVE  Checked(i) <=> IsAccepted(i)
    <3>1. metadata.inputArgInfos[i] = AsRead(Func.inputs[i])
      BY <2>1 DEF Signature
    <3>2. Inputs[i] \in RtValues
      BY CallIsWellFormed
    <3>3. Passes(Inputs[i], Func.inputs[i]) <=> Conforms(Inputs[i], Func.inputs[i])
      BY <2>1, <3>2, ChecksAre
    <3> QED
      BY <3>1, <3>3 DEF Checked, Passes, Conforms, IsAccepted
  <2>2. ASSUME pc = "packInputs", NEW i \in DOMAIN Inputs PROVE IsAccepted(i)
    <3>1. /\ metadata = Signature(Func) /\ DOMAIN Inputs = DOMAIN Func.inputs
          /\ Func.inputs[i] \in AnyTypes /\ Describable(Func.inputs[i])
      BY <2>2, SignatureAtCall DEF Running, AfterOutputs
    <3>2. Checked(i)
      BY <2>2 DEF CheckedInv, Running, AfterOutputs
    <3> QED
      BY <2>1, <3>1, <3>2
  <2>3. ASSUME pc = "error", metadata # <<>>, Len(Inputs) = Len(Func.inputs)
        PROVE  \E i \in DOMAIN Inputs : ~ IsAccepted(i)
    <3>1. /\ metadata = Signature(Func) /\ DOMAIN Inputs = DOMAIN Func.inputs
          /\ \A i \in DOMAIN Func.inputs : Func.inputs[i] \in AnyTypes /\ Describable(Func.inputs[i])
          /\ \E i \in DOMAIN Inputs : ~ Checked(i)
      BY <2>3 DEF RefusedInv
    <3> QED
      BY <2>1, <3>1
  <2> QED
    BY <2>2, <2>3 DEF ArgumentsConform
<1> QED
  BY <1>1, InvokeTypeCorrect, MetadataReadCorrect, CheckedCorrect, RefusedCorrect, PTL

-----------------------------------------------------------------------------
\* What the wrapper loads

LEMMA PackedStep == TypeOK /\ PackedInv /\ [Next]_vars => PackedInv'
<1> SUFFICES ASSUME TypeOK, PackedInv, [Next]_vars, pc' \in {"packInputs", "call"},
                    NEW i \in DOMAIN Inputs', pc' = "packInputs" => i < idx'
             PROVE  Packed(i)'
  BY DEF PackedInv
<1>1. UNCHANGED context /\ pc \in {"assertArity", "packInputs", "call"}
  <2>1. ~ CheckArity /\ ~ Compile /\ pc \in {"assertArity", "packInputs", "call"}
    BY StepAt DEF CheckArity, Compile, Stopped, Loops, NextLoop, vars
  <2> QED
    BY <2>1, ContextKept DEF Running, AfterOutputs, AfterCall
<1>2. Inputs' = Inputs /\ i \in 1 .. Len(Inputs) /\ Len(Inputs) \in Nat
  BY <1>1, CallIsWellFormed DEF Inputs, context
<1>3. UNCHANGED packedInputs /\ Packed(i) => Packed(i)'
  BY <1>2 DEF Packed
<1>4. CASE AssertArity
  BY <1>2, <1>4 DEF AssertArity, TypeOK, Stopped, NextLoop
<1>5. CASE EndLoop
  <2>1. pc = "packInputs" /\ ~ (idx <= Len(Inputs)) /\ UNCHANGED packedInputs
    BY <1>1, <1>5 DEF EndLoop, Loops, Iterations, TypeOK
  <2>2. i < idx
    BY <1>2, <2>1 DEF TypeOK
  <2> QED
    BY <1>2, <1>3, <2>1, <2>2 DEF PackedInv
<1>6. CASE PackInput
  <2>1. pc = "packInputs" /\ pc' = pc /\ idx' = idx + 1
    BY <1>6, PackInputDoes DEF Step
  <2>2. CASE i = idx
    <3>1. /\ \/ IsTensor(Inputs[i]) \/ IsScalar(Inputs[i])
          /\ IsTensor(Inputs[i]) => packedInputs' =
               Store(Store(packedInputs, FirstSlot(i), <<"rank", i>>), FirstSlot(i) + 1, <<"descriptor", i>>)
          /\ ~ IsTensor(Inputs[i]) => packedInputs' = Store(packedInputs, FirstSlot(i), <<"scalar", i>>)
      BY <1>6, <2>1, <2>2, PackInputDoes DEF Step
    <3>2. IsScalar(Inputs[i]) => ~ IsTensor(Inputs[i])
      BY DEF IsScalar, IsTensor
    <3>3. FirstSlot(i) # FirstSlot(i) + 1
      BY <1>2 DEF FirstSlot
    <3> QED
      BY <1>2, <3>1, <3>2, <3>3, StoreIs DEF Packed
  <2>3. CASE i < idx
    <3>1. Packed(i)
      BY <1>2, <2>1, <2>3 DEF PackedInv
    <3>2. /\ FirstSlot(i) \notin {FirstSlot(idx), FirstSlot(idx) + 1}
          /\ FirstSlot(i) + 1 \notin {FirstSlot(idx), FirstSlot(idx) + 1}
      BY <1>2, <2>3 DEF FirstSlot, TypeOK
    <3>3. \A k \in DOMAIN packedInputs \ {FirstSlot(idx), FirstSlot(idx) + 1} :
            k \in DOMAIN packedInputs' /\ packedInputs'[k] = packedInputs[k]
      BY <1>6, <2>1, PackInputDoes, StoreIs
    <3> QED
      BY <1>2, <3>1, <3>2, <3>3 DEF Packed
  <2> QED
    BY <1>2, <2>1, <2>2, <2>3 DEF TypeOK
<1>7. CASE UNCHANGED vars
  BY <1>1, <1>2, <1>3, <1>7 DEF vars, PackedInv
<1>8. \/ AssertArity \/ EndLoop \/ PackInput \/ UNCHANGED vars
  BY <1>1, StepAt DEF Stopped
<1> QED
  BY <1>4, <1>5, <1>6, <1>7, <1>8

LEMMA PackedCorrect == Spec => []PackedInv
<1>1. Init => PackedInv
  BY DEF Init, PackedInv
<1> QED
  BY <1>1, InvokeTypeCorrect, PackedStep, PTL DEF Spec

\* Where the arguments are packed, and nowhere else.
SlotsInv ==
  \A m \in DOMAIN packedInputs : \E i \in Nat :
    \/ packedInputs[m] \in {<<"rank", i>>, <<"scalar", i>>} /\ m = FirstSlot(i)
    \/ packedInputs[m] = <<"descriptor", i>> /\ m = FirstSlot(i) + 1

LEMMA SlotsStep == TypeOK /\ SlotsInv /\ [Next]_vars => SlotsInv'
<1> SUFFICES ASSUME TypeOK, SlotsInv, [Next]_vars PROVE SlotsInv'
  OBVIOUS
<1>1. CASE UNCHANGED packedInputs
  BY <1>1 DEF SlotsInv
<1>2. CASE PackInput
  <2>1. idx \in Nat
    BY DEF TypeOK
  <2>2. CASE packedInputs' = Store(Store(packedInputs, FirstSlot(idx), <<"rank", idx>>),
                                   FirstSlot(idx) + 1, <<"descriptor", idx>>)
    <3> SUFFICES ASSUME NEW m \in DOMAIN packedInputs'
                 PROVE  \E i \in Nat :
                          \/ packedInputs'[m] \in {<<"rank", i>>, <<"scalar", i>>} /\ m = FirstSlot(i)
                          \/ packedInputs'[m] = <<"descriptor", i>> /\ m = FirstSlot(i) + 1
      BY DEF SlotsInv
    <3>1. CASE m = FirstSlot(idx) + 1
      BY <2>1, <2>2, <3>1, StoreIs
    <3>2. CASE m = FirstSlot(idx) /\ m # FirstSlot(idx) + 1
      BY <2>1, <2>2, <3>2, StoreIs
    <3>3. CASE m \notin {FirstSlot(idx), FirstSlot(idx) + 1}
      <4>1. m \in DOMAIN packedInputs /\ packedInputs'[m] = packedInputs[m]
        BY <2>2, <3>3, StoreIs
      <4> QED
        BY <4>1 DEF SlotsInv
    <3> QED
      BY <3>1, <3>2, <3>3
  <2>3. CASE packedInputs' = Store(packedInputs, FirstSlot(idx), <<"scalar", idx>>)
    <3> SUFFICES ASSUME NEW m \in DOMAIN packedInputs'
                 PROVE  \E i \in Nat :
                          \/ packedInputs'[m] \in {<<"rank", i>>, <<"scalar", i>>} /\ m = FirstSlot(i)
                          \/ packedInputs'[m] = <<"descriptor", i>> /\ m = FirstSlot(i) + 1
      BY DEF SlotsInv
    <3>1. CASE m = FirstSlot(idx)
      BY <2>1, <2>3, <3>1, StoreIs
    <3>2. CASE m # FirstSlot(idx)
      <4>1. m \in DOMAIN packedInputs /\ packedInputs'[m] = packedInputs[m]
        BY <2>3, <3>2, StoreIs
      <4> QED
        BY <4>1 DEF SlotsInv
    <3> QED
      BY <3>1, <3>2
  <2> QED
    BY <1>1, <1>2, <2>2, <2>3, PackInputDoes
<1>3. PackInput \/ UNCHANGED packedInputs
  BY StepAt, CreateOutputDoes, CopyOutDoes, CallFunctionDoes, FreeOutputBufferDoes, FreeInputBufferDoes,
     FreeOutputDescriptorDoes, FreeInputDescriptorDoes
     DEF vars, EndLoop, Compile, CheckArity, CheckInput, AssertArity
<1> QED
  BY <1>1, <1>2, <1>3

LEMMA SlotsCorrect == Spec => []SlotsInv
<1>1. Init => SlotsInv
  BY DEF Init, SlotsInv
<1> QED
  BY <1>1, InvokeTypeCorrect, SlotsStep, PTL DEF Spec

\* FlattenSeq by the values of its recursive function.
IsFlatten(f, seqs, n) ==
  f = [i \in 1 .. n |-> IF i = 1 THEN seqs[i] ELSE f[i - 1] \o seqs[i]]

LEMMA FlattenExists ==
  ASSUME NEW seqs, NEW n \in Nat
  PROVE  \E f : IsFlatten(f, seqs, n)
<1> DEFINE S == {k \in Nat : \E f : IsFlatten(f, seqs, k)}
<1>1. 0 \in S
  <2>1. IsFlatten([i \in {} |-> 0], seqs, 0)
    BY DEF IsFlatten
  <2> QED
    BY <2>1
<1>2. ASSUME NEW k \in Nat, k \in S PROVE k + 1 \in S
  <2>1. PICK f : IsFlatten(f, seqs, k)
    BY <1>2
  <2>2. \A i \in 1 .. k : f[i] = IF i = 1 THEN seqs[i] ELSE f[i - 1] \o seqs[i]
    BY <2>1, Zenon DEF IsFlatten
  <2> DEFINE last == IF k = 0 THEN seqs[k + 1] ELSE f[k] \o seqs[k + 1]
             g == [i \in 1 .. k + 1 |-> IF i = k + 1 THEN last ELSE f[i]]
             h == [i \in 1 .. k + 1 |-> IF i = 1 THEN seqs[i] ELSE g[i - 1] \o seqs[i]]
  <2>3. ASSUME NEW i \in 1 .. k + 1 PROVE g[i] = h[i]
    <3>1. h[i] = IF i = 1 THEN seqs[i] ELSE g[i - 1] \o seqs[i]
      OBVIOUS
    <3>2. CASE i = k + 1
      <4>1. k + 1 - 1 = k /\ (k # 0 => g[k] = f[k]) /\ (k + 1 = 1 <=> k = 0)
        OBVIOUS
      <4>2. g[i] = last
        BY <3>2
      <4> HIDE DEF g, h
      <4> QED
        BY <3>1, <3>2, <4>1, <4>2
    <3>3. CASE i # k + 1
      <4>1. i \in 1 .. k /\ g[i] = f[i] /\ (i # 1 => i - 1 \in 1 .. k + 1 /\ i - 1 # k + 1 /\ g[i - 1] = f[i - 1])
        BY <3>3
      <4> HIDE DEF g, h
      <4> QED
        BY <2>2, <3>1, <4>1
    <3> QED
      BY <3>2, <3>3
  <2>4. g = h
    <3>1. PICK a, b : a = g /\ b = h
      OBVIOUS
    <3>2. DOMAIN a = 1 .. k + 1 /\ DOMAIN b = 1 .. k + 1 /\ \A i \in 1 .. k + 1 : a[i] = b[i]
      BY <2>3, <3>1
    <3>3. a = [i \in DOMAIN a |-> a[i]] /\ b = [i \in DOMAIN b |-> b[i]]
      BY <3>1
    <3>4. a = b
      BY <3>2, <3>3
    <3> QED
      BY <3>1, <3>4
  <2>5. IsFlatten(g, seqs, k + 1)
    <3>1. g = [i \in 1 .. k + 1 |-> IF i = 1 THEN seqs[i] ELSE g[i - 1] \o seqs[i]]
      BY <2>4
    <3> HIDE DEF g, h
    <3> QED
      BY <3>1 DEF IsFlatten
  <2> HIDE DEF g
  <2> QED
    BY <2>5
<1> HIDE DEF S
<1>3. Nat \subseteq S
  BY <1>1, <1>2, SetInduction
<1> QED
  BY <1>3 DEF S

LEMMA FlattenIs ==
  ASSUME NEW n \in Nat \ {0}, NEW seqs, Len(seqs) = n
  PROVE  \E f : IsFlatten(f, seqs, n) /\ FlattenSeq(seqs) = f[n]
<1> DEFINE flatten == CHOOSE f : IsFlatten(f, seqs, n)
<1>1. FlattenSeq(seqs) = flatten[n]
  BY DEF FlattenSeq, IsFlatten
<1>2. IsFlatten(flatten, seqs, n)
  BY FlattenExists, Zenon
<1> HIDE DEF flatten
<1> QED
  BY <1>1, <1>2

LEMMA ConcatDoes ==
  ASSUME NEW D, NEW u \in Seq(D), NEW v \in Seq(D)
  PROVE  /\ u \o v \in Seq(D) /\ Len(u \o v) = Len(u) + Len(v)
         /\ \A k \in 1 .. Len(u) : (u \o v)[k] = u[k]
         /\ \A m \in 1 .. Len(v) : (u \o v)[Len(u) + m] = v[m]
OBVIOUS

\* Each scalar has one parameter and two slots: argument i's parameters come this
\* many places before its slots.
ScalarsBefore(types, i) == {j \in 1 .. i - 1 : ~ IsMemref(types[j])}
Gap(types, i) == Cardinality(ScalarsBefore(types, i))

LEMMA GapIs ==
  ASSUME NEW types, NEW i \in Nat \ {0}
  PROVE  /\ Gap(types, i) \in Nat /\ (Gap(types, i) = 0 <=> ScalarsBefore(types, i) = {})
         /\ Gap(types, 1) = 0
         /\ Gap(types, i + 1) = Gap(types, i) + (IF IsMemref(types[i]) THEN 0 ELSE 1)
<1>1. \A k \in Nat : IsFiniteSet(ScalarsBefore(types, k))
  <2> SUFFICES ASSUME NEW k \in Nat PROVE IsFiniteSet(ScalarsBefore(types, k))
    OBVIOUS
  <2>1. IsFiniteSet(1 .. k - 1) /\ ScalarsBefore(types, k) \in SUBSET (1 .. k - 1)
    BY FS_Interval DEF ScalarsBefore
  <2> QED
    BY <2>1, FS_Subset
<1>2. ScalarsBefore(types, 1) = {}
  BY DEF ScalarsBefore
<1>3. ScalarsBefore(types, i + 1) = ScalarsBefore(types, i) \cup (IF IsMemref(types[i]) THEN {} ELSE {i})
  BY DEF ScalarsBefore
<1>4. i \notin ScalarsBefore(types, i)
  BY DEF ScalarsBefore
<1>5. Gap(types, i) \in Nat /\ (Gap(types, i) = 0 <=> ScalarsBefore(types, i) = {}) /\ Gap(types, 1) = 0
  BY <1>1, <1>2, FS_CardinalityType, FS_EmptySet DEF Gap
<1>6. CASE IsMemref(types[i])
  <2>1. ScalarsBefore(types, i + 1) = ScalarsBefore(types, i)
    BY <1>3, <1>6
  <2> QED
    BY <1>5, <1>6, <2>1 DEF Gap
<1>7. CASE ~ IsMemref(types[i])
  <2>1. ScalarsBefore(types, i + 1) = ScalarsBefore(types, i) \cup {i}
    BY <1>3, <1>7
  <2>2. Cardinality(ScalarsBefore(types, i + 1)) = Cardinality(ScalarsBefore(types, i)) + 1
    BY <1>1, <1>4, <2>1, FS_AddElement
  <2> QED
    BY <1>5, <1>7, <2>2 DEF Gap
<1> QED
  BY <1>6, <1>7

\* The parameters of the first n arguments: each is where its slot is but for
\* the scalars before.
Loaded(types, i, k, param) ==
  \/ k = 2 * i - 1 - Gap(types, i) /\ param = IF IsMemref(types[i]) THEN <<"rank", i>> ELSE <<"scalar", i>>
  \/ k = 2 * i - Gap(types, i) /\ IsMemref(types[i]) /\ param = <<"descriptor", i>>
AreParams(types, n, w) ==
  /\ w \in Seq({"rank", "descriptor", "scalar"} \X Nat)
  /\ Len(w) = 2 * n - Gap(types, n + 1)
  /\ \A k \in 1 .. Len(w) : \E i \in 1 .. n : Loaded(types, i, k, w[k])

LEMMA ParamsOfNext ==
  ASSUME NEW types, NEW n \in Nat, Describable(types[n + 1]), NEW w, AreParams(types, n, w)
  PROVE  AreParams(types, n + 1, w \o Params(types[n + 1], n + 1))
<1> DEFINE i == n + 1
           D == {"rank", "descriptor", "scalar"} \X Nat
           s == Params(types[i], i)
<1>1. IsMemref(types[i]) <=> ArgType(types[i]) = "kTensor"
  BY DEF Describable, IsMemref, ArgType
<1>2. i \in Nat \ {0} /\ w \in Seq(D) /\ Len(w) \in Nat
  BY DEF AreParams
<1>3. PICK g \in Nat : g = Gap(types, i)
  BY <1>2, GapIs
<1>4. Len(w) = 2 * n - g
  BY <1>3 DEF AreParams
<1>5. Gap(types, i + 1) = g + (IF IsMemref(types[i]) THEN 0 ELSE 1)
  BY <1>2, <1>3, GapIs
<1>6. s = IF IsMemref(types[i]) THEN <<<<"rank", i>>, <<"descriptor", i>>>> ELSE <<<<"scalar", i>>>>
  BY <1>1 DEF Params
<1> HIDE DEF s
<1>7. s \in Seq(D) /\ Len(s) = IF IsMemref(types[i]) THEN 2 ELSE 1
  <2>1. <<"rank", i>> \in D /\ <<"descriptor", i>> \in D /\ <<"scalar", i>> \in D
    BY <1>2
  <2> HIDE DEF D, i
  <2>2. CASE IsMemref(types[i])
    BY <1>6, <2>1, <2>2
  <2>3. CASE ~ IsMemref(types[i])
    BY <1>6, <2>1, <2>3
  <2> QED
    BY <2>2, <2>3
<1>8. ASSUME NEW m \in 1 .. Len(s) PROVE Loaded(types, i, Len(w) + m, s[m])
  <2>1. CASE m = 1
    <3>1. s[m] = IF IsMemref(types[i]) THEN <<"rank", i>> ELSE <<"scalar", i>>
      BY <1>6, <2>1
    <3>2. Len(w) + m = 2 * i - 1 - g
      BY <1>2, <1>4, <2>1
    <3> QED
      BY <1>3, <3>1, <3>2 DEF Loaded
  <2>2. CASE m # 1
    <3>1. m = 2 /\ IsMemref(types[i]) /\ s[m] = <<"descriptor", i>>
      BY <1>6, <1>7, <2>2
    <3>2. Len(w) + m = 2 * i - g
      BY <1>2, <1>4, <3>1
    <3> QED
      BY <1>3, <3>1, <3>2 DEF Loaded
  <2> QED
    BY <2>1, <2>2
<1> DEFINE c == w \o s
<1>9. /\ c \in Seq(D) /\ Len(c) = Len(w) + Len(s)
      /\ \A k \in 1 .. Len(w) : c[k] = w[k]
      /\ \A m \in 1 .. Len(s) : c[Len(w) + m] = s[m]
  <2>1. PICK E : E = D
    OBVIOUS
  <2> HIDE DEF D, i
  <2>2. w \in Seq(E) /\ s \in Seq(E)
    BY <1>2, <1>7, <2>1
  <2> QED
    BY <2>1, <2>2, ConcatDoes
<1>10. \A k \in 1 .. Len(w) : c[k] = w[k]
  BY <1>9
<1>11. \A m \in 1 .. Len(s) : c[Len(w) + m] = s[m]
  BY <1>9
<1> HIDE DEF c
<1>12. Len(c) = 2 * i - Gap(types, i + 1)
  BY <1>2, <1>4, <1>5, <1>7, <1>9
<1>13. ASSUME NEW k \in 1 .. Len(c) PROVE \E j \in 1 .. i : Loaded(types, j, k, c[k])
  <2>1. CASE k \in 1 .. Len(w)
    <3>1. PICK j \in 1 .. n : Loaded(types, j, k, w[k])
      BY <2>1 DEF AreParams
    <3>2. j \in 1 .. i /\ c[k] = w[k]
      BY <1>10, <2>1
    <3> QED
      BY <3>1, <3>2
  <2>2. CASE k \notin 1 .. Len(w)
    <3>1. k - Len(w) \in 1 .. Len(s) /\ Len(w) + (k - Len(w)) = k
      BY <1>2, <1>7, <1>9, <2>2
    <3>2. Loaded(types, i, k, c[k])
      BY <1>8, <1>11, <3>1
    <3> QED
      BY <1>2, <3>2
  <2> QED
    BY <2>1, <2>2
<1>14. AreParams(types, i, c)
  BY <1>9, <1>12, <1>13 DEF AreParams
<1> QED
  BY <1>14 DEF c, s

\* Which argument a parameter is loaded from, and how far its slot is.
LEMMA ArgumentOf ==
  ASSUME NEW types \in Seq(AnyTypes), \A i \in DOMAIN types : Describable(types[i]),
         NEW k \in DOMAIN LLVMParams(types)
  PROVE  k \in Nat /\ \E i \in DOMAIN types : Loaded(types, i, k, LLVMParams(types)[k])
<1>1. PICK n \in Nat : n = Len(types) /\ DOMAIN types = 1 .. n
  OBVIOUS
<1> DEFINE seqs == [i \in DOMAIN types |-> Params(types[i], i)]
<1>2. DOMAIN seqs = 1 .. n /\ Len(seqs) = n /\ LLVMParams(types) = FlattenSeq(seqs)
  BY <1>1 DEF LLVMParams
<1>3. n # 0
  <2> SUFFICES ASSUME n = 0 PROVE FALSE
    OBVIOUS
  <2>1. LLVMParams(types) = seqs
    BY <1>2 DEF FlattenSeq
  <2> QED
    BY <1>2, <2>1
<1>4. PICK f : IsFlatten(f, seqs, n) /\ FlattenSeq(seqs) = f[n]
  <2> HIDE DEF seqs
  <2> QED
    BY <1>2, <1>3, FlattenIs
<1>5. \A i \in 1 .. n : f[i] = IF i = 1 THEN seqs[i] ELSE f[i - 1] \o seqs[i]
  BY <1>4, Zenon DEF IsFlatten
<1>6. \A i \in 1 .. n : seqs[i] = Params(types[i], i) /\ Describable(types[i])
  BY <1>1
<1> HIDE DEF seqs
<1> DEFINE S == {i \in Nat : i \in 1 .. n => AreParams(types, i, f[i])}
<1>7. 0 \in S
  OBVIOUS
<1>8. ASSUME NEW i \in Nat, i \in S PROVE i + 1 \in S
  <2> SUFFICES ASSUME i + 1 \in 1 .. n PROVE AreParams(types, i + 1, f[i + 1])
    OBVIOUS
  <2>1. seqs[i + 1] = Params(types[i + 1], i + 1) /\ Describable(types[i + 1])
    BY <1>6
  <2>2. CASE i = 0
    <3>1. AreParams(types, 0, <<>>)
      BY GapIs DEF AreParams
    <3>2. AreParams(types, 0 + 1, <<>> \o Params(types[0 + 1], 0 + 1))
      BY <2>1, <2>2, <3>1, ParamsOfNext
    <3>3. f[i + 1] = Params(types[0 + 1], 0 + 1)
      BY <1>5, <2>1, <2>2
    <3>4. PICK p : p = Params(types[0 + 1], 0 + 1)
      OBVIOUS
    <3>5. p = <<<<"rank", 1>>, <<"descriptor", 1>>>> \/ p = <<<<"scalar", 1>>>>
      BY <3>4 DEF Params
    <3>7. <<>> \o p = p
      BY <3>5
    <3> QED
      BY <2>2, <3>2, <3>3, <3>4, <3>7
  <2>3. CASE i # 0
    <3>1. i \in 1 .. n /\ i + 1 # 1 /\ i + 1 - 1 = i
      BY <2>3
    <3>2. f[i + 1] = f[i] \o Params(types[i + 1], i + 1)
      <4>1. PICK j : j = i + 1
        OBVIOUS
      <4>2. j \in 1 .. n /\ j # 1 /\ j - 1 = i
        BY <3>1, <4>1
      <4>3. f[j] = f[j - 1] \o seqs[j]
        BY <1>5, <4>2
      <4> QED
        BY <2>1, <4>1, <4>2, <4>3
    <3>3. AreParams(types, i, f[i])
      BY <1>8, <3>1
    <3> QED
      BY <2>1, <3>2, <3>3, ParamsOfNext
  <2> QED
    BY <2>2, <2>3
<1> HIDE DEF S
<1>9. n \in S
  BY <1>7, <1>8, SetInduction
<1>10. n \in 1 .. n
  BY <1>3
<1>11. PICK w : w = LLVMParams(types) /\ AreParams(types, n, w)
  BY <1>2, <1>4, <1>9, <1>10 DEF S
<1>12. k \in 1 .. Len(w) /\ Len(w) \in Nat
  BY <1>11 DEF AreParams
<1>13. \E i \in 1 .. n : Loaded(types, i, k, w[k])
  BY <1>11, <1>12 DEF AreParams
<1> QED
  BY <1>1, <1>11, <1>12, <1>13

\* "Each packedInput pointer corresponds to one LLVM/C ABI argument to the
\* underlying function": for every signature and every arguments, a parameter
\* the wrapper loads is the argument packed for it if, and only if, no parameter
\* before is a scalar and the argument is of the parameter's type.
THEOREM ArgumentsArriveCorrect == Spec => []ArgumentsArrive
<1>1. TypeOK /\ MetadataInv /\ CheckedInv /\ PackedInv /\ SlotsInv => ArgumentsArrive
  <2> SUFFICES ASSUME TypeOK, MetadataInv, CheckedInv, PackedInv, SlotsInv, pc = "call",
                      NEW k \in DOMAIN LLVMParams(Func.inputs), NEW i, i = LLVMParams(Func.inputs)[k][2]
               PROVE  IsPassed(k) <=> /\ \A j \in 1 .. i - 1 : IsMemref(Func.inputs[j])
                                      /\ HasTypeOf(Inputs[i], Func.inputs[i])
    BY DEF ArgumentsArrive
  <2>1. /\ Func.inputs \in Seq(AnyTypes) /\ DOMAIN Inputs = DOMAIN Func.inputs
        /\ \A j \in DOMAIN Func.inputs : Describable(Func.inputs[j])
    BY SignatureAtCall, TypesOf DEF Running, AfterOutputs
  <2>2. PICK param : param = LLVMParams(Func.inputs)[k]
    OBVIOUS
  <2>3. k \in Nat /\ \E j \in DOMAIN Func.inputs : Loaded(Func.inputs, j, k, param)
    BY <2>1, <2>2, ArgumentOf
  <2>4. i \in DOMAIN Func.inputs /\ Loaded(Func.inputs, i, k, param)
    BY <2>2, <2>3 DEF Loaded
  <2>5. i \in Nat \ {0}
    BY <2>1, <2>4
  <2>6. PICK gap \in Nat : /\ gap = Gap(Func.inputs, i)
                           /\ gap = 0 <=> \A j \in 1 .. i - 1 : IsMemref(Func.inputs[j])
    <3>1. ScalarsBefore(Func.inputs, i) = {} <=> \A j \in 1 .. i - 1 : IsMemref(Func.inputs[j])
      BY DEF ScalarsBefore
    <3> QED
      BY <2>5, <3>1, GapIs
  <2>7. IsPassed(k) <=> /\ k - 1 \in DOMAIN packedInputs /\ packedInputs[k - 1] = param
                        /\ HasTypeOf(Inputs[i], Func.inputs[i])
    BY <2>2 DEF IsPassed
  <2>8. \/ param \in {<<"rank", i>>, <<"scalar", i>>} /\ k - 1 = FirstSlot(i) - gap
        \/ param = <<"descriptor", i>> /\ k - 1 = FirstSlot(i) + 1 - gap
    BY <2>3, <2>4, <2>5, <2>6 DEF Loaded, FirstSlot
  <2>9. ASSUME gap = 0, HasTypeOf(Inputs[i], Func.inputs[i])
        PROVE  k - 1 \in DOMAIN packedInputs /\ packedInputs[k - 1] = param
    <3>1. Packed(i)
      BY <2>1, <2>4 DEF PackedInv
    <3>2. CASE IsMemref(Func.inputs[i])
      <4>1. IsTensor(Inputs[i])
        BY <2>9, <3>2 DEF HasTypeOf, ArgType, IsMemref, IsTensor
      <4>2. \/ param = <<"rank", i>> /\ k - 1 = FirstSlot(i)
            \/ param = <<"descriptor", i>> /\ k - 1 = FirstSlot(i) + 1
        BY <2>3, <2>4, <2>5, <2>6, <2>9, <3>2 DEF Loaded, FirstSlot
      <4> QED
        BY <3>1, <4>1, <4>2 DEF Packed
    <3>3. CASE ~ IsMemref(Func.inputs[i])
      <4>1. ArgType(Func.inputs[i]) \in {"kF32", "kF64"}
        BY <2>1, <2>4, <3>3 DEF Describable, ArgType
      <4>2. IsScalar(Inputs[i])
        BY <2>9, <4>1 DEF HasTypeOf, IsScalar
      <4>3. param = <<"scalar", i>> /\ k - 1 = FirstSlot(i)
        BY <2>3, <2>4, <2>5, <2>6, <2>9, <3>3 DEF Loaded, FirstSlot
      <4> QED
        BY <3>1, <4>2, <4>3 DEF Packed
    <3> QED
      BY <3>2, <3>3
  <2>10. ASSUME k - 1 \in DOMAIN packedInputs, packedInputs[k - 1] = param PROVE gap = 0
    <3>1. PICK j \in Nat :
            \/ param \in {<<"rank", j>>, <<"scalar", j>>} /\ k - 1 = FirstSlot(j)
            \/ param = <<"descriptor", j>> /\ k - 1 = FirstSlot(j) + 1
      BY <2>10 DEF SlotsInv
    <3>2. j = i
      BY <2>8, <3>1
    <3> QED
      BY <2>3, <2>5, <2>8, <3>1, <3>2 DEF FirstSlot
  <2> QED
    BY <2>6, <2>7, <2>9, <2>10
<1> QED
  BY <1>1, InvokeTypeCorrect, MetadataReadCorrect, CheckedCorrect, PackedCorrect, SlotsCorrect, PTL

-----------------------------------------------------------------------------
\* Where each output is

LEMMA OutputsStep == TypeOK /\ MetadataInv /\ OutputsInv /\ [Next]_vars => OutputsInv'
<1> SUFFICES ASSUME TypeOK, MetadataInv, OutputsInv, [Next]_vars PROVE OutputsInv'
  OBVIOUS
<1> DEFINE Early == {"compile", "arity", "checkInputs"}
<1>0. /\ outputs \in Seq(OutputValues) /\ idx \in Nat \ {0} /\ TensorOutputs \subseteq 1 .. Len(outputs)
      /\ pc \in Running => Len(metadata.outputArgInfos) \in Nat
  BY SignatureAtCall DEF TypeOK, TensorOutputs
<1>1. CASE UNCHANGED vars
  BY <1>1 DEF vars, OutputsInv, TensorOutputs, Copied, context
<1>2. CASE pc' \in Stopped
  BY <1>2 DEF OutputsInv, Stopped, Running, AfterOutputs, AfterCall
<1>3. CASE pc' \in Early
  <2>1. UNCHANGED outputs /\ pc \in Early
    BY <1>3, StepAt DEF Stopped, Loops, NextLoop, EndLoop, Compile, CheckArity, CheckInput, vars, OutputsInv
  <2>2. outputs' = <<>>
    BY <2>1 DEF OutputsInv
  <2>3. TensorOutputs' = {}
    BY <2>2 DEF TensorOutputs
  <2> QED
    BY <1>3, <2>2, <2>3 DEF OutputsInv, Running, AfterOutputs, AfterCall
<1>4. CASE EndLoop /\ pc' \notin Early
  <2>1. pc \in Loops /\ idx > Iterations(pc) /\ pc' = NextLoop[pc] /\ UNCHANGED <<context, outputs>> /\ idx' = 1
    BY <1>4 DEF EndLoop
  <2>2. UNCHANGED <<TensorOutputs, metadata>>
    BY <2>1 DEF TensorOutputs, context
  <2>3. CASE pc = "checkInputs"
    <3>1. outputs' = <<>> /\ pc' = "createOutputs" /\ TensorOutputs' = {}
      BY <2>1, <2>3 DEF OutputsInv, NextLoop, TensorOutputs
    <3>2. Len(outputs') = 0
      BY <3>1
    <3>3. Len(metadata.outputArgInfos) \in Nat
      BY <1>0, <2>3 DEF Running
    <3> QED
      BY <2>1, <2>2, <3>1, <3>2, <3>3 DEF OutputsInv, AfterOutputs, AfterCall
  <2>4. CASE pc = "createOutputs"
    <3>1. pc' = "assertArity" /\ idx > Len(metadata.outputArgInfos) /\ Len(outputs) = idx - 1
          /\ Len(outputs) <= Len(metadata.outputArgInfos)
      BY <2>1, <2>4 DEF Iterations, NextLoop, OutputsInv
    <3>2. Len(metadata.outputArgInfos) \in Nat
      BY <1>0, <2>4 DEF Running
    <3>3. Len(outputs) = Len(metadata.outputArgInfos)
      BY <1>0, <3>1, <3>2
    <3> QED
      BY <2>1, <2>2, <2>4, <3>1, <3>3 DEF OutputsInv, AfterOutputs, AfterCall, Running
  <2>5. CASE pc \in Loops \cap AfterOutputs
    <3>1. Len(outputs) = Len(metadata.outputArgInfos) /\ Len(outputs) \in Nat
      BY <1>0, <2>5 DEF OutputsInv
    <3>2. pc' \in AfterOutputs \ {"copyOut"} /\ (pc' \in AfterCall <=> pc \in AfterCall)
      BY <2>1, <2>5 DEF NextLoop, Loops, AfterOutputs, AfterCall
    <3>3. ASSUME NEW i \in TensorOutputs, pc \in AfterCall PROVE Copied(i)
      <4>1. i \in 1 .. Len(outputs)
        BY <1>0
      <4>2. CASE pc = "copyOut"
        BY <1>0, <2>1, <3>1, <4>1, <4>2 DEF Iterations, Copied
      <4> QED
        BY <4>2 DEF Copied
    <3>4. ASSUME NEW i \in TensorOutputs
          PROVE  outputs[i].at = IF pc \in AfterCall THEN ResultData(i) ELSE <<"placeholder", i>>
      BY <2>5, <3>3 DEF OutputsInv, Running
    <3>5. ASSUME NEW i \in TensorOutputs' PROVE Copied(i)'
      BY <3>2 DEF Copied
    <3> QED
      BY <2>1, <2>2, <3>1, <3>2, <3>4, <3>5 DEF OutputsInv, AfterOutputs, AfterCall
  <2> QED
    BY <2>1, <2>3, <2>4, <2>5 DEF Loops, NextLoop, AfterOutputs, AfterCall
<1>5. CASE CreateOutput /\ pc' = pc
  <2>1. /\ pc = "createOutputs" /\ idx <= Len(metadata.outputArgInfos) /\ metadata' = metadata /\ idx' = idx + 1
        /\ Len(outputs) = idx - 1
    BY <1>5, CreateOutputDoes DEF Step, context, OutputsInv
  <2>2. ASSUME NEW o \in OutputValues, outputs' = Append(outputs, o), IsTensor(o) => o.at = <<"placeholder", idx>>
        PROVE  OutputsInv'
    <3>1. Len(outputs') = idx /\ DOMAIN outputs' = 1 .. idx /\ outputs'[idx] = o
          /\ \A i \in 1 .. Len(outputs) : i \in DOMAIN outputs /\ outputs'[i] = outputs[i]
      BY <1>0, <2>1, <2>2
    <3>2. ASSUME NEW i \in TensorOutputs' PROVE outputs'[i].at = <<"placeholder", i>>
      <4>1. i = idx \/ i \in 1 .. Len(outputs)
        BY <1>0, <2>1, <3>1 DEF TensorOutputs
      <4>2. CASE i = idx
        BY <2>2, <3>1, <4>2 DEF TensorOutputs
      <4>3. CASE i \in 1 .. Len(outputs)
        <5>1. i \in TensorOutputs
          BY <3>1, <4>3 DEF TensorOutputs
        <5> QED
          BY <2>1, <3>1, <4>3, <5>1 DEF OutputsInv, Running, AfterCall
      <4> QED
        BY <4>1, <4>2, <4>3
    <3>3. Len(outputs') = idx' - 1 /\ Len(outputs') <= Len(metadata'.outputArgInfos)
      BY <1>0, <2>1, <3>1
    <3> QED
      BY <1>5, <2>1, <3>2, <3>3 DEF OutputsInv, AfterOutputs, AfterCall
  <2>3. [tag |-> "Tensor", at |-> <<"placeholder", idx>>] \in OutputValues
    BY <1>0 DEF OutputValues
  <2>4. [tag |-> "Float", val |-> <<"default">>] \in OutputValues
    BY DEF OutputValues
  <2>5. pc' \notin {"undefined", "assert"}
    BY <1>5, <2>1
  <2>6. \/ outputs' = Append(outputs, [tag |-> "Tensor", at |-> <<"placeholder", idx>>])
        \/ outputs' = Append(outputs, [tag |-> "Float", val |-> <<"default">>])
    BY <1>5, <2>5, CreateOutputDoes
  <2> QED
    BY <2>2, <2>3, <2>4, <2>6 DEF IsTensor
<1>6. CASE CallFunction /\ pc' = "copyOut"
  <2>1. /\ pc = "call" /\ UNCHANGED <<metadata, idx>>
        /\ outputs' = [i \in DOMAIN outputs |->
             IF IsTensor(outputs[i]) THEN outputs[i] ELSE [outputs[i] EXCEPT !.val = <<"computed", i>>]]
    BY <1>6, CallFunctionDoes DEF context
  <2>2. \A i \in DOMAIN outputs : outputs[i] \in OutputValues
    BY <1>0
  <2>3. /\ DOMAIN outputs' = DOMAIN outputs /\ Len(outputs') = Len(outputs)
        /\ TensorOutputs' = TensorOutputs /\ \A i \in TensorOutputs : outputs'[i] = outputs[i]
    <3>1. DOMAIN outputs' = DOMAIN outputs
      BY <2>1
    <3>2. outputs' \in Seq(OutputValues)
      BY TypeStep DEF TypeOK
    <3>3. Len(outputs') = Len(outputs)
      BY <1>0, <3>1, <3>2
    <3>4. ASSUME NEW i \in DOMAIN outputs PROVE IsTensor(outputs'[i]) <=> IsTensor(outputs[i])
      BY <2>1, <2>2 DEF IsTensor, OutputValues
    <3> QED
      BY <2>1, <3>1, <3>3, <3>4 DEF TensorOutputs
  <2>4. idx' = 1
    BY <2>1 DEF TypeOK
  <2>5. \A i \in TensorOutputs' : ~ (i < idx')
    BY <1>0, <2>3, <2>4
  <2> QED
    BY <1>6, <2>1, <2>3, <2>5 DEF OutputsInv, Running, AfterOutputs, AfterCall, Copied
<1>7. CASE CopyOut
  <2>1. pc = "copyOut" /\ pc' = pc /\ idx' = idx + 1 /\ metadata' = metadata
    BY <1>7, CopyOutDoes DEF Step, context
  <2>2. outputs' \in Seq(OutputValues)
    BY TypeStep DEF TypeOK
  <2>3. CASE IsTensor(outputs[idx]) /\ outputs' = [outputs EXCEPT ![idx].at = ResultData(idx)]
    <3>1. DOMAIN outputs' = DOMAIN outputs /\ Len(outputs') = Len(outputs)
      BY <1>0, <2>2, <2>3
    <3>2. \A i \in DOMAIN outputs : i # idx => outputs'[i] = outputs[i]
      BY <2>3
    <3>3. idx \in DOMAIN outputs => outputs'[idx].at = ResultData(idx) /\ IsTensor(outputs'[idx])
      <4>1. idx \in DOMAIN outputs => outputs[idx] \in OutputValues
        BY <1>0
      <4> QED
        BY <2>3, <4>1 DEF OutputValues, IsTensor
    <3>4. TensorOutputs' = TensorOutputs
      BY <2>3, <3>1, <3>2, <3>3 DEF TensorOutputs
    <3>5. ASSUME NEW i \in TensorOutputs' PROVE outputs'[i].at = IF i < idx' THEN ResultData(i) ELSE <<"placeholder", i>>
      <4>1. i \in DOMAIN outputs /\ i \in Nat
        BY <1>0, <3>4 DEF TensorOutputs
      <4>2. CASE i = idx
        BY <1>0, <2>1, <3>3, <4>1, <4>2
      <4>3. CASE i # idx
        <5>1. i < idx' <=> i < idx
          BY <1>0, <2>1, <4>1, <4>3
        <5>2. outputs[i].at = IF i < idx THEN ResultData(i) ELSE <<"placeholder", i>>
          BY <2>1, <3>4 DEF OutputsInv, Running, AfterOutputs, AfterCall, Copied
        <5> QED
          BY <3>2, <4>1, <4>3, <5>1, <5>2
      <4> QED
        BY <4>2, <4>3
    <3> QED
      BY <2>1, <3>1, <3>5 DEF OutputsInv, Running, AfterOutputs, AfterCall, Copied
  <2>4. CASE ~ IsTensor(outputs[idx]) /\ UNCHANGED outputs
    <3>1. TensorOutputs' = TensorOutputs /\ idx \notin TensorOutputs
      BY <2>4 DEF TensorOutputs
    <3>2. ASSUME NEW i \in TensorOutputs' PROVE i < idx' <=> i < idx
      BY <1>0, <2>1, <3>1
    <3> QED
      BY <2>1, <2>4, <3>1, <3>2 DEF OutputsInv, Running, AfterOutputs, AfterCall, Copied
  <2> QED
    BY <1>7, <2>3, <2>4, CopyOutDoes
<1>8. CASE AssertArity /\ pc' = "packInputs"
  BY <1>8 DEF AssertArity, OutputsInv, TensorOutputs, Copied, context, Running, AfterOutputs, AfterCall
<1>9. ASSUME UNCHANGED <<outputs, context, pc>>, pc \in AfterOutputs \ {"copyOut"} PROVE OutputsInv'
  BY <1>9 DEF OutputsInv, TensorOutputs, Copied, context, Running, AfterOutputs, AfterCall
<1>10. CASE PackInput /\ pc' = pc
  BY <1>9, <1>10, PackInputDoes DEF context, AfterOutputs
<1>11. CASE FreeOutputBuffer /\ pc' = pc
  BY <1>9, <1>11, FreeOutputBufferDoes DEF context, AfterOutputs, AfterCall
<1>12. CASE FreeInputBuffer /\ pc' = pc
  BY <1>9, <1>12, FreeInputBufferDoes DEF context, AfterOutputs, AfterCall
<1>13. CASE FreeOutputDescriptor /\ pc' = pc
  BY <1>9, <1>13, FreeOutputDescriptorDoes DEF context, AfterOutputs, AfterCall
<1>14. CASE FreeInputDescriptor /\ pc' = pc
  BY <1>9, <1>14, FreeInputDescriptorDoes DEF context, AfterOutputs, AfterCall
<1> QED
  BY StepAt, <1>1, <1>2, <1>3, <1>4, <1>5, <1>6, <1>7, <1>8, <1>10, <1>11, <1>12, <1>13, <1>14

LEMMA OutputsCorrect == Spec => []OutputsInv
<1>1. Init => OutputsInv
  BY DEF Init, OutputsInv, Running, AfterOutputs, AfterCall
<1> QED
  BY <1>1, InvokeTypeCorrect, MetadataReadCorrect, OutputsStep, PTL DEF Spec

-----------------------------------------------------------------------------
\* What a step may change of the memory

Same(x) ==
  /\ x \in DOMAIN mem' <=> x \in DOMAIN mem
  /\ x \in DOMAIN mem => mem'[x] = mem[x]

Buffers == {"inBuffer", "newBuffer"} \X Nat \cup {Static}

LEMMA FreesOnly ==
  ASSUME NEW a, Frees(a), NEW x, x # a
  PROVE  Same(x)
BY RestrictIs DEF Frees, Same

LEMMA Touches ==
  ASSUME TypeOK, OutputsInv, ResultsInv, [Next]_vars, NEW x
  PROVE  \/ Same(x)
         \/ CreateOutput /\ x \in {<<"temporary", idx>>, <<"placeholder", idx>>}
         \/ PackInput /\ IsTensor(Inputs[idx]) /\ Step /\ x \in {InBuffer(idx), InDescriptor(idx)}
         \/ CallFunction /\ pc' = "copyOut" /\ x \in Buffers \cup {OutDescriptor(i) : i \in TensorOutputs}
         \/ CopyOut /\ idx \in TensorOutputs /\ x \in {<<"placeholder", idx>>, ResultData(idx)}
         \/ FreeOutputBuffer /\ x \in Buffers
         \/ FreeInputBuffer /\ x \in Buffers
         \/ FreeOutputDescriptor /\ x = OutDescriptor(idx)
         \/ FreeInputDescriptor /\ x = InDescriptor(idx)
<1>0. /\ idx \in Nat /\ TensorInputs \subseteq Nat
      /\ TensorOutputs \subseteq Nat /\ TensorOutputs \subseteq DOMAIN outputs
  BY CallOfCalls DEF TypeOK, TensorInputs, TensorOutputs, Inputs
<1>1. CASE UNCHANGED mem
  BY <1>1 DEF Same
<1>2. CASE CreateOutput
  <2>1. CASE mem' = Store(Store(mem, <<"temporary", idx>>, <<"zero">>), <<"placeholder", idx>>, <<"zero">>)
    BY <1>2, <2>1, StoreIs DEF Same
  <2> QED
    BY <1>1, <1>2, <2>1, CreateOutputDoes
<1>3. CASE PackInput
  <2>1. ASSUME NEW v, mem' = Store(Store(mem, InBuffer(idx), v), InDescriptor(idx), InBuffer(idx)),
               x \notin {InBuffer(idx), InDescriptor(idx)}
        PROVE  Same(x)
    BY <2>1, StoreIs DEF Same
  <2> QED
    BY <1>1, <1>3, <2>1, PackInputDoes
<1>4. CASE CallFunction
  <2>1. CASE pc' = "copyOut" /\ x \notin Buffers \cup {OutDescriptor(i) : i \in TensorOutputs}
    <3>1. {InBuffer(i) : i \in TensorInputs} \subseteq Buffers /\ {<<"newBuffer", i>> : i \in TensorOutputs} \subseteq Buffers
      BY <1>0 DEF Buffers, InBuffer
    <3>2. /\ outBuffers' \in [TensorOutputs -> Buffers]
          /\ DOMAIN mem' = DOMAIN mem
               \cup ({outBuffers'[i] : i \in TensorOutputs} \ (DOMAIN mem \cup {Static}))
               \cup {OutDescriptor(i) : i \in TensorOutputs}
          /\ \A a \in DOMAIN mem \ {InBuffer(i) : i \in TensorInputs} : mem'[a] = mem[a]
      <4>1. {InBuffer(i) : i \in TensorInputs} \cup {<<"newBuffer", i>> : i \in TensorOutputs} \cup {Static} \subseteq Buffers
        BY <3>1 DEF Buffers
      <4> QED
        BY <1>4, <2>1, <4>1, CallFunctionDoes
    <3> QED
      BY <2>1, <3>1, <3>2 DEF Same
  <2> QED
    BY <1>1, <1>4, <2>1, CallFunctionDoes
<1>5. CASE CopyOut
  <2>1. CASE IsTensor(outputs[idx]) /\ idx \in DOMAIN outputs
    <3>1. outputs[idx].at = <<"placeholder", idx>>
      <4>1. pc = "copyOut" /\ idx \in TensorOutputs /\ ~ (idx < idx)
        BY <1>0, <1>5, <2>1, CopyOutDoes DEF TensorOutputs
      <4> QED
        BY <4>1 DEF OutputsInv, Running, AfterOutputs, AfterCall, Copied
    <3>2. ASSUME NEW v, mem' = Store(Restrict(mem, DOMAIN mem \ {<<"placeholder", idx>>}), ResultData(idx), v),
                 x \notin {<<"placeholder", idx>>, ResultData(idx)}
          PROVE  Same(x)
      BY <3>2, StoreIs, RestrictIs DEF Same
    <3> QED
      BY <1>1, <1>5, <2>1, <3>1, <3>2, CopyOutDoes DEF TensorOutputs
  <2>2. idx \in DOMAIN outputs
    <3>1. Len(outputs) = Len(metadata.outputArgInfos) /\ idx <= Len(metadata.outputArgInfos)
      BY <1>5, CopyOutDoes DEF OutputsInv, AfterOutputs, AfterCall
    <3> QED
      BY <3>1 DEF TypeOK
  <2> QED
    BY <1>1, <1>5, <2>1, <2>2, CopyOutDoes
<1>6. CASE FreeOutputBuffer
  <2>1. idx \in TensorOutputs => outBuffers[idx] \in Buffers
    BY <1>6, FreeOutputBufferDoes DEF ResultsInv, AfterCall, Buffers
  <2> QED
    BY <1>1, <1>6, <2>1, FreeOutputBufferDoes, FreesOnly
<1>7. CASE FreeInputBuffer
  <2>1. InBuffer(idx) \in Buffers
    BY <1>0 DEF Buffers, InBuffer
  <2> QED
    BY <1>1, <1>7, <2>1, FreeInputBufferDoes, FreesOnly
<1>8. CASE FreeOutputDescriptor
  BY <1>1, <1>8, FreeOutputDescriptorDoes, FreesOnly
<1>9. CASE FreeInputDescriptor
  BY <1>1, <1>9, FreeInputDescriptorDoes, FreesOnly
<1> QED
  BY StepAt, <1>1, <1>2, <1>3, <1>4, <1>5, <1>6, <1>7, <1>8, <1>9
     DEF vars, EndLoop, Compile, CheckArity, CheckInput, AssertArity

LEMMA AddressKinds ==
  ASSUME NEW i \in Nat
  PROVE  /\ <<"temporary", i>>[1] = "temporary" /\ <<"placeholder", i>>[1] = "placeholder"
         /\ InBuffer(i)[1] = "inBuffer" /\ InDescriptor(i)[1] = "inDescriptor"
         /\ OutDescriptor(i)[1] = "outDescriptor" /\ ResultData(i)[1] = "result"
         /\ \A b \in Buffers : b[1] \in {"inBuffer", "newBuffer", "static"}
BY DEF InBuffer, InDescriptor, OutDescriptor, ResultData, Buffers, Static

\* No step frees or writes to what the caller passed.
LEMMA CallerTensorsStep == TypeOK /\ OutputsInv /\ ResultsInv /\ CallerTensorsKept /\ [Next]_vars => CallerTensorsKept'
<1> SUFFICES ASSUME TypeOK, OutputsInv, ResultsInv, CallerTensorsKept, [Next]_vars, NEW t \in CallerTensors(call')
             PROVE  t \in DOMAIN mem' /\ mem'[t] = <<"data", t>>
  BY DEF CallerTensorsKept
<1>1. call' = call
  BY ContextKept DEF Compile, CheckArity, context
<1>2. t[1] = "tensor" /\ t \in DOMAIN mem /\ mem[t] = <<"data", t>>
  <2>1. PICK i \in DOMAIN call.inputs : IsTensor(call.inputs[i]) /\ t = call.inputs[i].at
    BY <1>1 DEF CallerTensors
  <2>2. t \in {"tensor"} \X Nat
    BY <2>1, InputValue DEF TypeOK
  <2> QED
    BY <1>1, <2>2 DEF CallerTensorsKept
<1>3. Same(t)
  <2>1. idx \in Nat /\ TensorOutputs \subseteq Nat
    BY DEF TypeOK, TensorOutputs
  <2> QED
    BY <1>2, <2>1, Touches, AddressKinds
<1> QED
  BY <1>2, <1>3 DEF Same

-----------------------------------------------------------------------------
\* The results

LEMMA ResultsStep == TypeOK /\ MetadataInv /\ OutputsInv /\ ResultsInv /\ [Next]_vars => ResultsInv'
<1> SUFFICES ASSUME TypeOK, MetadataInv, OutputsInv, ResultsInv, [Next]_vars, pc' \in AfterCall, NEW i \in TensorOutputs'
             PROVE  /\ outBuffers'[i] \in Buffers
                    /\ IF Copied(i)' THEN /\ ResultData(i) \in DOMAIN mem'
                                          /\ mem'[ResultData(i)] = CopiedAs(Func.outputs[i], returned'[i])
                                    ELSE Read(mem', outBuffers'[i]) = returned'[i]
  <2>1. ASSUME [Next]_vars, pc' \in AfterCall PROVE Func' = Func
    <3>1. ~ Compile /\ ~ CheckArity
      BY <2>1 DEF Compile, CheckArity, CompileVerdict, AfterCall, NextLoop
    <3>2. UNCHANGED context
      BY <2>1, <3>1, ContextKept
    <3>3. call' = call /\ descriptor' = descriptor
      BY <3>2 DEF context
    <3> QED
      BY <3>3 DEF Func
  <2> QED
    BY <2>1 DEF ResultsInv, Buffers, CopiedAs
<1>0. /\ idx \in Nat \ {0} /\ i \in Nat /\ TensorOutputs \subseteq 1 .. Len(outputs) /\ Len(outputs) \in Nat
      /\ OutputsInv' /\ TypeOK'
  BY OutputsStep, TypeStep DEF TypeOK, TensorOutputs
<1>1. CASE CallFunction
  <2>1. pc = "call" /\ pc' = "copyOut" /\ idx' = idx /\ idx = 1
    BY <1>1, CallFunctionDoes DEF AfterCall, TypeOK
  <2>2. i \in TensorOutputs
    <3>1. outputs' = [j \in DOMAIN outputs |->
             IF IsTensor(outputs[j]) THEN outputs[j] ELSE [outputs[j] EXCEPT !.val = <<"computed", j>>]]
      BY <1>1, <2>1, CallFunctionDoes
    <3>2. \A j \in DOMAIN outputs : outputs[j] \in OutputValues
      BY DEF TypeOK
    <3> QED
      BY <3>1, <3>2 DEF TensorOutputs, IsTensor, OutputValues
  <2>3. ~ Copied(i)'
    BY <1>0, <2>1, <2>2 DEF Copied
  <2>4. outBuffers'[i] \in Buffers /\ returned'[i] = Read(mem', outBuffers'[i])
    <3>1. TensorInputs \subseteq Nat /\ TensorOutputs \subseteq Nat
      BY CallOfCalls DEF TypeOK, TensorInputs, TensorOutputs, Inputs
    <3>2. {InBuffer(j) : j \in TensorInputs} \cup {<<"newBuffer", j>> : j \in TensorOutputs} \cup {Static} \subseteq Buffers
      BY <3>1 DEF Buffers, InBuffer
    <3> QED
      BY <1>1, <2>1, <2>2, <3>2, CallFunctionDoes
  <2> QED
    BY <2>3, <2>4
<1>2. CASE CopyOut
  <2>1. pc = "copyOut" /\ pc' = pc /\ idx' = idx + 1 /\ UNCHANGED <<outBuffers, returned>>
    BY <1>2, CopyOutDoes DEF Step
  <2>2. i \in TensorOutputs
    <3>1. outputs' = [outputs EXCEPT ![idx].at = ResultData(idx)] => \A j \in DOMAIN outputs : outputs[j] \in OutputValues
      BY DEF TypeOK
    <3> QED
      BY <1>2, <3>1, CopyOutDoes DEF TensorOutputs, IsTensor, OutputValues
  <2>3. /\ outBuffers[i] \in Buffers
        /\ IF i < idx THEN /\ ResultData(i) \in DOMAIN mem
                           /\ mem[ResultData(i)] = CopiedAs(Func.outputs[i], returned[i])
                      ELSE Read(mem, outBuffers[i]) = returned[i]
    BY <2>1, <2>2 DEF ResultsInv, AfterCall, Copied, Buffers
  <2>4. CASE i = idx
    <3>1. ResultData(i) \in DOMAIN mem' /\ mem'[ResultData(i)] = CopiedAs(Func.outputs[i], Read(mem, outBuffers[idx]))
      <4>1. mem' = Store(Restrict(mem, DOMAIN mem \ {outputs[idx].at}), ResultData(idx),
                         CopiedAs(Func.outputs[idx], Read(mem, outBuffers[idx])))
        BY <1>2, <2>2, <2>4, CopyOutDoes DEF TensorOutputs
      <4> QED
        BY <2>4, <4>1, StoreIs
    <3>2. ~ (i < idx) /\ i < idx'
      BY <1>0, <2>1, <2>4
    <3> QED
      BY <2>1, <2>3, <2>4, <3>1, <3>2 DEF Copied
  <2>5. CASE i # idx
    <3>1. i < idx' <=> i < idx
      BY <1>0, <2>1, <2>5
    <3>2. Same(ResultData(i)) /\ Same(outBuffers[i])
      <4>1. ResultData(i) \notin {<<"placeholder", idx>>, ResultData(idx)}
        BY <2>5 DEF ResultData
      <4>2. outBuffers[i] \notin {<<"placeholder", idx>>, ResultData(idx)}
        BY <1>0, <2>3, AddressKinds
      <4> QED
        BY <1>2, <2>1, <4>1, <4>2, Touches DEF CreateOutput, PackInput, CallFunction, FreeOutputBuffer,
           FreeInputBuffer, FreeOutputDescriptor, FreeInputDescriptor, At
    <3> QED
      BY <2>1, <2>3, <3>1, <3>2 DEF Same, Read, Copied
  <2> QED
    BY <2>4, <2>5
<1>3. CASE ~ CallFunction /\ ~ CopyOut
  <2>1. /\ UNCHANGED <<outputs, outBuffers, returned>> /\ pc \in AfterCall
        /\ \/ pc' = "copyOut" /\ UNCHANGED <<pc, idx, mem>>
           \/ pc' # "copyOut" /\ (pc = "copyOut" => idx > Len(metadata.outputArgInfos) /\ UNCHANGED mem)
    <3>1. CASE EndLoop
      BY <1>3, <3>1 DEF EndLoop, Loops, NextLoop, AfterCall, Iterations
    <3>2. CASE UNCHANGED vars
      BY <3>2 DEF vars
    <3>3. CASE FreeOutputBuffer \/ FreeInputBuffer \/ FreeOutputDescriptor \/ FreeInputDescriptor
      BY <3>3, FreeOutputBufferDoes, FreeInputBufferDoes, FreeOutputDescriptorDoes, FreeInputDescriptorDoes
         DEF AfterCall, Frees, Step
    <3> QED
      BY <1>3, <3>1, <3>2, <3>3, StepAt DEF AfterCall, Stopped
  <2>2. i \in TensorOutputs
    BY <2>1 DEF TensorOutputs
  <2>3. Copied(i)' <=> Copied(i)
    <3>1. pc = "copyOut" /\ pc' # "copyOut" => i < idx
      <4>1. Len(outputs) = Len(metadata.outputArgInfos)
        BY <2>1 DEF OutputsInv, AfterOutputs
      <4> QED
        BY <1>0, <2>1, <2>2, <4>1
    <3> QED
      BY <2>1, <3>1 DEF Copied
  <2>4. Same(ResultData(i))
    BY <1>0, <1>3, <2>1, <2>2, Touches, AddressKinds DEF CreateOutput, PackInput, AfterCall, At
  <2>5. ~ Copied(i) => UNCHANGED mem
    BY <1>0, <2>1, <2>3 DEF Copied
  <2> QED
    BY <2>1, <2>2, <2>3, <2>4, <2>5 DEF ResultsInv, Same, Buffers
<1> QED
  BY <1>1, <1>2, <1>3

LEMMA ResultsCorrect == Spec => []ResultsInv
<1>1. Init => ResultsInv
  BY DEF Init, ResultsInv, AfterCall
<1> QED
  BY <1>1, InvokeTypeCorrect, MetadataReadCorrect, OutputsCorrect, ResultsStep, PTL DEF Spec

-----------------------------------------------------------------------------
\* The descriptors

LEMMA TensorsKept ==
  ASSUME TypeOK, [Next]_vars
  PROVE  /\ TensorInputs' = TensorInputs /\ TensorInputs \subseteq 1 .. Len(Inputs) /\ Len(Inputs) \in Nat
         /\ pc \in {"call"} \cup AfterCall => TensorOutputs' = TensorOutputs
<1>1. call' = call
  BY ContextKept DEF Compile, CheckArity, context
<1>2. TensorInputs \subseteq 1 .. Len(Inputs) /\ Len(Inputs) \in Nat
  BY CallOfCalls DEF TypeOK, TensorInputs, Inputs
<1>3. ASSUME pc \in {"call"} \cup AfterCall PROVE TensorOutputs' = TensorOutputs
  <2>1. \A j \in DOMAIN outputs : outputs[j] \in OutputValues
    BY DEF TypeOK
  <2>2. CASE UNCHANGED outputs
    BY <2>2 DEF TensorOutputs
  <2>3. CASE CopyOut
    BY <2>1, <2>2, <2>3, CopyOutDoes DEF TensorOutputs, IsTensor, OutputValues
  <2>4. CASE CallFunction
    BY <2>1, <2>2, <2>4, CallFunctionDoes DEF TensorOutputs, IsTensor, OutputValues
  <2> QED
    BY <1>3, <2>2, <2>3, <2>4, StepAt, FreeOutputBufferDoes, FreeInputBufferDoes, FreeOutputDescriptorDoes,
       FreeInputDescriptorDoes DEF AfterCall, EndLoop, vars
<1> QED
  BY <1>1, <1>2, <1>3 DEF TensorInputs, Inputs

LEMMA InDescriptorsStep ==
  ASSUME TypeOK, MetadataInv, OutputsInv, ResultsInv, DescriptorsInv, [Next]_vars,
         pc' \in {"compile", "arity"} \cup Running, NEW i \in Nat
  PROVE  InDescriptor(i) \in DOMAIN mem' <=> HoldsIn(i)'
<1>0. /\ idx \in Nat \ {0} /\ TensorInputs' = TensorInputs /\ TensorInputs \subseteq 1 .. Len(Inputs)
      /\ Len(Inputs) \in Nat
  BY TensorsKept DEF TypeOK
<1>1. pc \in {"compile", "arity"} \cup Running /\ pc' \notin Stopped
  BY StepAt DEF Running, AfterOutputs, AfterCall, Stopped, Loops, NextLoop, vars
<1>2. InDescriptor(i) \in DOMAIN mem <=> HoldsIn(i)
  BY <1>1 DEF DescriptorsInv
<1>3. CASE Same(InDescriptor(i))
  <2>1. CASE UNCHANGED vars
    BY <1>0, <1>2, <2>1 DEF vars, HoldsIn
  <2>2. CASE EndLoop
    <3>1. pc \in Loops /\ pc' = NextLoop[pc] /\ idx' = 1 /\ idx > Iterations(pc)
      BY <2>2 DEF EndLoop
    <3>2. ASSUME i \in TensorInputs, pc \in {"packInputs", "freeInDescriptors"} PROVE i < idx /\ ~ (idx <= i)
      BY <1>0, <3>1, <3>2 DEF Iterations
    <3>3. i \in TensorInputs => idx' <= i
      BY <1>0, <3>1
    <3> QED
      BY <1>0, <1>2, <1>3, <3>1, <3>2, <3>3 DEF Same, HoldsIn, Loops, NextLoop, AfterCall
  <2>3. CASE pc \in {"compile", "arity", "checkInputs", "createOutputs"} /\ ~ EndLoop
    BY <1>1, <1>2, <1>3, <2>3, StepAt DEF Same, HoldsIn, AfterCall, Stopped, vars
  <2>4. CASE AssertArity
    <3>1. pc = "assertArity" /\ pc' = "packInputs" /\ idx' = 1
      BY <1>1, <2>4, StepAt DEF AssertArity, TypeOK, NextLoop, Stopped
    <3>2. i \in TensorInputs => ~ (i < idx')
      BY <1>0, <3>1
    <3> QED
      BY <1>0, <1>2, <1>3, <3>1, <3>2 DEF Same, HoldsIn, AfterCall
  <2>5. CASE PackInput
    <3>1. pc = "packInputs" /\ pc' = pc /\ idx' = idx + 1
      BY <1>1, <2>5, PackInputDoes DEF Step, Stopped
    <3>2. ~ (i = idx /\ i \in TensorInputs)
      <4>1. ASSUME i = idx, i \in TensorInputs PROVE FALSE
        <5>1. mem' = Store(Store(mem, InBuffer(idx), mem[Inputs[idx].at]), InDescriptor(idx), InBuffer(idx))
          BY <1>1, <2>5, <4>1, PackInputDoes DEF TensorInputs, Stopped
        <5>2. InDescriptor(i) \in DOMAIN mem'
          BY <4>1, <5>1, StoreIs
        <5>3. ~ HoldsIn(i)
          BY <1>0, <3>1, <4>1 DEF HoldsIn
        <5> QED
          BY <1>2, <1>3, <5>2, <5>3 DEF Same
      <4> QED
        BY <4>1
    <3>3. i \in TensorInputs => (i < idx' <=> i < idx)
      BY <1>0, <3>1, <3>2
    <3> QED
      BY <1>0, <1>2, <1>3, <3>1, <3>3 DEF Same, HoldsIn, AfterCall
  <2>6. CASE pc \in {"call"} \cup (AfterCall \ {"freeInDescriptors"}) /\ ~ EndLoop /\ ~ UNCHANGED vars
    <3>1. /\ pc' \in AfterCall \ {"freeInDescriptors"} /\ (pc' = "done" <=> pc = "done")
      BY <1>1, <2>6, StepAt DEF AfterCall, Stopped, vars
    <3> QED
      BY <1>0, <1>2, <1>3, <2>6, <3>1 DEF Same, HoldsIn, AfterCall
  <2>7. CASE FreeInputDescriptor
    <3>1. pc = "freeInDescriptors" /\ pc' = pc /\ idx' = idx + 1
      BY <1>1, <2>7, FreeInputDescriptorDoes DEF Frees, Step, Stopped
    <3>2. ~ (i = idx /\ i \in TensorInputs)
      <4>1. ASSUME i = idx, i \in TensorInputs PROVE FALSE
        <5>1. HoldsIn(i)
          BY <1>0, <3>1, <4>1 DEF HoldsIn, AfterCall
        <5>2. Frees(InDescriptor(i))
          BY <2>7, <4>1, FreeInputDescriptorDoes
        <5> QED
          BY <1>2, <1>3, <5>1, <5>2, RestrictIs DEF Frees, Same
      <4> QED
        BY <4>1
    <3>3. i \in TensorInputs => (idx' <= i <=> idx <= i)
      BY <1>0, <3>1, <3>2
    <3> QED
      BY <1>0, <1>2, <1>3, <3>1, <3>3 DEF Same, HoldsIn, AfterCall
  <2> QED
    BY <2>1, <2>2, <2>3, <2>4, <2>5, <2>6, <2>7, <1>1, StepAt DEF Running, AfterOutputs, AfterCall
<1>4. CASE ~ Same(InDescriptor(i))
  <2>1. \/ PackInput /\ IsTensor(Inputs[idx]) /\ Step /\ i = idx
        \/ FreeInputDescriptor /\ i = idx
    <3>1. idx \in Nat /\ TensorOutputs \subseteq Nat
      BY DEF TypeOK, TensorOutputs
    <3>2. \A a \in {<<"temporary", idx>>, <<"placeholder", idx>>, InBuffer(idx), ResultData(idx), OutDescriptor(idx)}
              \cup Buffers \cup {OutDescriptor(j) : j \in TensorOutputs} : InDescriptor(i) # a
      BY <3>1, AddressKinds
    <3>3. InDescriptor(i) = InDescriptor(idx) => i = idx
      BY DEF InDescriptor
    <3> QED
      BY <1>4, <3>2, <3>3, Touches
  <2>2. CASE PackInput /\ IsTensor(Inputs[idx]) /\ Step /\ i = idx
    <3>1. mem' = Store(Store(mem, InBuffer(idx), mem[Inputs[idx].at]), InDescriptor(idx), InBuffer(idx))
      BY <1>1, <2>2, PackInputDoes DEF Stopped
    <3>2. InDescriptor(i) \in DOMAIN mem'
      BY <2>2, <3>1, StoreIs
    <3>3. i \in TensorInputs /\ pc' = "packInputs" /\ i < idx'
      <4>1. idx \in DOMAIN Inputs
        <5>1. Inputs \in Seq(RtValues) /\ idx <= Len(Inputs)
          BY <2>2, PackInputDoes, CallOfCalls DEF TypeOK, Inputs
        <5> QED
          BY <1>0, <5>1
      <4> QED
        BY <1>0, <2>2, <4>1, PackInputDoes DEF TensorInputs, Step
    <3> QED
      BY <1>0, <3>2, <3>3 DEF HoldsIn
  <2>3. CASE FreeInputDescriptor /\ i = idx
    <3>1. i \in TensorInputs /\ Frees(InDescriptor(i)) /\ pc = "freeInDescriptors"
      BY <1>4, <2>3, FreeInputDescriptorDoes DEF Same
    <3>2. pc' = "freeInDescriptors" /\ idx' = idx + 1 /\ InDescriptor(i) \notin DOMAIN mem'
      BY <1>1, <3>1, RestrictIs DEF Frees, Step, Stopped
    <3>3. ~ (idx' <= i)
      BY <1>0, <2>3, <3>2
    <3> QED
      BY <3>2, <3>3 DEF HoldsIn
  <2> QED
    BY <2>1, <2>2, <2>3
<1> QED
  BY <1>3, <1>4

LEMMA OutDescriptorsStep ==
  ASSUME TypeOK, MetadataInv, OutputsInv, ResultsInv, DescriptorsInv, [Next]_vars,
         pc' \in {"compile", "arity"} \cup Running, NEW i \in Nat
  PROVE  OutDescriptor(i) \in DOMAIN mem' <=> HoldsOut(i)'
<1>0. /\ idx \in Nat \ {0} /\ TensorOutputs \subseteq 1 .. Len(outputs) /\ Len(outputs) \in Nat
      /\ pc \in {"call"} \cup AfterCall => TensorOutputs' = TensorOutputs
  BY TensorsKept DEF TypeOK, TensorOutputs
<1>1. pc \in {"compile", "arity"} \cup Running /\ pc' \notin Stopped
  BY StepAt DEF Running, AfterOutputs, AfterCall, Stopped, Loops, NextLoop, vars
<1>2. OutDescriptor(i) \in DOMAIN mem <=> HoldsOut(i)
  BY <1>1 DEF DescriptorsInv
<1>3. \/ Same(OutDescriptor(i))
      \/ CallFunction /\ i \in TensorOutputs
      \/ FreeOutputDescriptor /\ i = idx
  <2>1. \A a \in {<<"temporary", idx>>, <<"placeholder", idx>>, InBuffer(idx), ResultData(idx), InDescriptor(idx)}
            \cup Buffers : OutDescriptor(i) # a
    BY <1>0, AddressKinds
  <2>2. \A j : OutDescriptor(i) = OutDescriptor(j) => i = j
    BY DEF OutDescriptor
  <2> QED
    BY <2>1, <2>2, Touches
<1>4. CASE UNCHANGED vars
  BY <1>2, <1>4 DEF vars, HoldsOut, TensorOutputs
<1>5. CASE pc' \notin AfterCall /\ ~ UNCHANGED vars
  <2>1. ~ HoldsOut(i)' /\ ~ HoldsOut(i)
    BY <1>1, <1>5, StepAt DEF HoldsOut, AfterCall, Stopped, Loops, NextLoop
  <2>2. ~ CallFunction /\ ~ FreeOutputDescriptor
    BY <1>1, <1>5, CallFunctionDoes, FreeOutputDescriptorDoes DEF Frees, Step, AfterCall, Stopped
  <2> QED
    BY <1>2, <1>3, <2>1, <2>2 DEF Same
<1>6. CASE CallFunction
  <2>1. pc = "call" /\ pc' = "copyOut"
    BY <1>1, <1>6, CallFunctionDoes DEF Stopped
  <2>2. HoldsOut(i)' <=> i \in TensorOutputs
    BY <1>0, <2>1 DEF HoldsOut, AfterCall
  <2>3. i \in TensorOutputs => OutDescriptor(i) \in DOMAIN mem'
    BY <1>6, <2>1, CallFunctionDoes
  <2>4. ~ HoldsOut(i)
    BY <2>1 DEF HoldsOut, AfterCall
  <2>5. i \notin TensorOutputs => Same(OutDescriptor(i))
    BY <1>3, <2>1, FreeOutputDescriptorDoes
  <2> QED
    BY <1>2, <2>2, <2>3, <2>4, <2>5 DEF Same
<1>7. CASE FreeOutputDescriptor
  <2>1. pc = "freeOutDescriptors" /\ pc' = pc /\ idx' = idx + 1
    BY <1>1, <1>7, FreeOutputDescriptorDoes DEF Frees, Step, Stopped
  <2>2. HoldsOut(i) <=> i \in TensorOutputs /\ idx <= i
    BY <2>1 DEF HoldsOut, AfterCall
  <2>3. HoldsOut(i)' <=> i \in TensorOutputs /\ idx' <= i
    BY <1>0, <2>1 DEF HoldsOut, AfterCall
  <2>4. CASE i = idx /\ i \in TensorOutputs
    <3>1. Frees(OutDescriptor(i))
      BY <1>7, <2>4, FreeOutputDescriptorDoes
    <3>2. OutDescriptor(i) \notin DOMAIN mem' /\ ~ (idx' <= i)
      BY <1>0, <2>1, <2>4, <3>1, RestrictIs DEF Frees
    <3> QED
      BY <2>3, <3>2
  <2>5. CASE ~ (i = idx /\ i \in TensorOutputs)
    <3>1. Same(OutDescriptor(i))
      BY <1>3, <1>7, <2>1, <2>5, CallFunctionDoes, FreeOutputDescriptorDoes DEF Same
    <3>2. i \in TensorOutputs => (idx <= i <=> idx' <= i)
      BY <1>0, <2>1, <2>5
    <3> QED
      BY <1>2, <2>2, <2>3, <3>1, <3>2 DEF Same
  <2> QED
    BY <2>4, <2>5
<1>8. CASE pc' \in AfterCall /\ ~ CallFunction /\ ~ FreeOutputDescriptor /\ ~ UNCHANGED vars
  <2>1. pc \in AfterCall /\ Same(OutDescriptor(i))
    BY <1>1, <1>3, <1>8, StepAt DEF AfterCall, Stopped, Loops, NextLoop
  <2>2. i \in TensorOutputs /\ pc = "freeOutDescriptors" => pc' = "freeInDescriptors" /\ ~ (idx <= i)
    <3>1. pc = "freeOutDescriptors" => EndLoop
      BY <1>8, StepAt
    <3>2. pc = "freeOutDescriptors" => pc' = "freeInDescriptors" /\ idx > Len(metadata.outputArgInfos)
      BY <3>1 DEF EndLoop, NextLoop, Iterations
    <3>3. pc = "freeOutDescriptors" => Len(outputs) = Len(metadata.outputArgInfos)
      BY DEF OutputsInv, AfterOutputs, AfterCall
    <3> QED
      BY <1>0, <3>2, <3>3
  <2>3. pc # "freeOutDescriptors" =>
          /\ pc \in {"freeInDescriptors", "done"} <=> pc' \in {"freeInDescriptors", "done"}
          /\ pc' = "freeOutDescriptors" => idx' = 1
    BY <1>1, <1>8, <2>1, StepAt DEF AfterCall, Stopped, Loops, NextLoop, EndLoop
  <2>4. i \in TensorOutputs => 1 <= i
    BY <1>0
  <2> QED
    BY <1>0, <1>2, <1>8, <2>1, <2>2, <2>3, <2>4 DEF Same, HoldsOut, AfterCall
<1> QED
  BY <1>4, <1>5, <1>6, <1>7, <1>8

LEMMA FreedDescriptors ==
  ASSUME TypeOK, OutputsInv, ResultsInv, DescriptorsInv, [Next]_vars, NEW a \in badFrees'
  PROVE  a[1] \notin {"inDescriptor", "outDescriptor"}
<1>1. CASE a \in badFrees
  BY <1>1 DEF DescriptorsInv
<1>2. CASE a \notin badFrees
  <2>1. idx \in Nat
    BY DEF TypeOK
  <2>2. CASE FreeOutputBuffer
    <3>1. idx \in TensorOutputs /\ a = outBuffers[idx]
      BY <1>2, <2>2, FreeOutputBufferDoes DEF Frees
    <3>2. outBuffers[idx] \in Buffers
      BY <2>2, <3>1, FreeOutputBufferDoes DEF ResultsInv, AfterCall, Buffers
    <3> QED
      BY <2>1, <3>1, <3>2, AddressKinds
  <2>3. CASE FreeInputBuffer
    BY <1>2, <2>1, <2>3, FreeInputBufferDoes, AddressKinds DEF Frees
  <2>4. CASE FreeOutputDescriptor
    <3>1. pc = "freeOutDescriptors" /\ idx \in TensorOutputs /\ OutDescriptor(idx) \notin DOMAIN mem
      BY <1>2, <2>4, FreeOutputDescriptorDoes DEF Frees
    <3>2. HoldsOut(idx)
      BY <2>1, <3>1 DEF HoldsOut, AfterCall
    <3> QED
      BY <2>1, <3>1, <3>2 DEF DescriptorsInv, Running, AfterOutputs, AfterCall
  <2>5. CASE FreeInputDescriptor
    <3>1. pc = "freeInDescriptors" /\ idx \in TensorInputs /\ InDescriptor(idx) \notin DOMAIN mem
      BY <1>2, <2>5, FreeInputDescriptorDoes DEF Frees
    <3>2. HoldsIn(idx)
      BY <2>1, <3>1 DEF HoldsIn, AfterCall
    <3> QED
      BY <2>1, <3>1, <3>2 DEF DescriptorsInv, Running, AfterOutputs, AfterCall
  <2>6. \/ UNCHANGED badFrees
        \/ FreeOutputBuffer \/ FreeInputBuffer \/ FreeOutputDescriptor \/ FreeInputDescriptor
    BY StepAt, CreateOutputDoes, PackInputDoes, CallFunctionDoes, CopyOutDoes
       DEF vars, EndLoop, Compile, CheckArity, CheckInput, AssertArity
  <2> QED
    BY <1>2, <2>2, <2>3, <2>4, <2>5, <2>6
<1> QED
  BY <1>1, <1>2

LEMMA DescriptorsStep ==
  TypeOK /\ MetadataInv /\ OutputsInv /\ ResultsInv /\ DescriptorsInv /\ [Next]_vars => DescriptorsInv'
<1> SUFFICES ASSUME TypeOK, MetadataInv, OutputsInv, ResultsInv, DescriptorsInv, [Next]_vars PROVE DescriptorsInv'
  OBVIOUS
<1>1. \A a \in badFrees' : a[1] \notin {"inDescriptor", "outDescriptor"}
  BY FreedDescriptors
<1>2. ASSUME pc' \in {"compile", "arity"} \cup Running, NEW i \in Nat
      PROVE  /\ InDescriptor(i) \in DOMAIN mem' <=> HoldsIn(i)'
             /\ OutDescriptor(i) \in DOMAIN mem' <=> HoldsOut(i)'
  BY <1>2, InDescriptorsStep, OutDescriptorsStep
<1>3. \A i : InDescriptor(i)' = InDescriptor(i) /\ OutDescriptor(i)' = OutDescriptor(i)
  BY DEF InDescriptor, OutDescriptor
<1> QED
  BY <1>1, <1>2, <1>3 DEF DescriptorsInv

\* Before the call is made, memory holds the caller's tensors and nothing else.
LEMMA MemoryInit ==
  ASSUME Init
  PROVE  CallerTensorsKept /\ DescriptorsInv
<1>1. CallerTensorsKept
  BY DEF Init, CallerTensorsKept
<1>2. \A x \in DOMAIN mem : x[1] = "tensor"
  <2> SUFFICES ASSUME NEW j \in DOMAIN call.inputs, IsTensor(call.inputs[j])
               PROVE  call.inputs[j].at[1] = "tensor"
    BY DEF Init, CallerTensors
  <2>1. call.inputs[j].at \in {"tensor"} \X Nat
    BY InputValue DEF Init
  <2> QED
    BY <2>1
<1>3. \A i \in Nat : ~ HoldsIn(i) /\ ~ HoldsOut(i) /\ InDescriptor(i) \notin DOMAIN mem /\ OutDescriptor(i) \notin DOMAIN mem
  BY <1>2, AddressKinds DEF Init, HoldsIn, HoldsOut, AfterCall
<1> QED
  BY <1>1, <1>3 DEF Init, DescriptorsInv

\* "Deepcopy the refbackrt::Tensor's", "Copy out the result data", "Free the
\* output descriptors": whatever the compiled function writes to its inputs and
\* however what it returns aliases them or itself, for every module, function
\* and arguments: the caller's tensors keep their data, each result of f32 outlives
\* the clean-up, every result is in a tensor of its own, and each descriptor is
\* freed, once.
THEOREM OwnershipKeptCorrect == Spec => []OwnershipKept
<1>1. Init => CallerTensorsKept /\ DescriptorsInv
  BY MemoryInit
<1>2. TypeOK /\ OutputsInv /\ ResultsInv => ResultsSurviveCleanUp
  <2> SUFFICES ASSUME TypeOK, OutputsInv, ResultsInv, pc = "done" PROVE
        /\ \A i \in TensorOutputs : Func.outputs[i].elem = "f32" => Read(mem, outputs[i].at) = returned[i]
        /\ \A i, j \in TensorOutputs : i # j => outputs[i].at # outputs[j].at
    BY DEF ResultsSurviveCleanUp
  <2>1. ASSUME NEW i \in TensorOutputs
        PROVE  /\ outputs[i].at = ResultData(i)
               /\ ResultData(i) \in DOMAIN mem
               /\ mem[ResultData(i)] = CopiedAs(Func.outputs[i], returned[i])
    BY DEF OutputsInv, ResultsInv, Running, AfterOutputs, AfterCall, Copied
  <2>2. \A i : ResultData(i) # Static /\ \A j : i # j => ResultData(i) # ResultData(j)
    BY DEF ResultData, Static
  <2>3. ASSUME NEW i \in TensorOutputs, Func.outputs[i].elem = "f32"
        PROVE  Read(mem, outputs[i].at) = returned[i]
    <3>1. CopiedAs(Func.outputs[i], returned[i]) = returned[i]
      BY <2>3 DEF CopiedAs
    <3> QED
      BY <2>1, <2>2, <3>1 DEF Read
  <2> QED
    BY <2>1, <2>2, <2>3
<1>3. TypeOK /\ DescriptorsInv => DescriptorsFreedOnce
  <2> SUFFICES ASSUME TypeOK, DescriptorsInv, pc = "done", NEW x \in DOMAIN mem
               PROVE  x[1] \notin {"inDescriptor", "outDescriptor"}
    BY DEF DescriptorsFreedOnce, DescriptorsInv
  <2>1. PICK k \in {"tensor", "temporary", "placeholder", "inBuffer", "inDescriptor", "newBuffer", "outDescriptor",
                    "result"}, i \in Nat : x = <<k, i>>
    BY DEF TypeOK, Addresses
  <2>2. ~ HoldsIn(i) /\ ~ HoldsOut(i)
    BY DEF HoldsIn, HoldsOut, AfterCall
  <2>3. InDescriptor(i) \notin DOMAIN mem /\ OutDescriptor(i) \notin DOMAIN mem
    BY <2>2 DEF DescriptorsInv, Running, AfterOutputs, AfterCall
  <2> QED
    BY <2>1, <2>3 DEF InDescriptor, OutDescriptor
<1> QED
  BY <1>1, <1>2, <1>3, CallerTensorsStep, DescriptorsStep, InvokeTypeCorrect, MetadataReadCorrect, OutputsCorrect,
     ResultsCorrect, PTL DEF Spec, OwnershipKept

=============================================================================
