--------------------- MODULE GlobalizeObjectGraphProofs ---------------------
(***************************************************************************)
(* Theorems about torch-globalize-object-graph, for every set of programs. *)
(***************************************************************************)
EXTENDS GlobalizeObjectGraph, SequenceTheorems, InductionLemmas

\* The elements of a sequence after an Append.
LEMMA AppendElements ==
  ASSUME NEW S, NEW s \in Seq(S), NEW e \in S
  PROVE  /\ Append(s, e) \in Seq(S)
         /\ ToSet(Append(s, e)) = ToSet(s) \cup {e}
         /\ Len(Append(s, e)) = Len(s) + 1
         /\ \A k \in 1 .. Len(s) : Append(s, e)[k] = s[k]
         /\ Append(s, e)[Len(s) + 1] = e
BY DEF ToSet

\* A non-empty sequence is its front and its last element.
LEMMA FrontAndLast ==
  ASSUME NEW S, NEW s \in Seq(S), s # <<>>
  PROVE  /\ Front(s) \in Seq(S)
         /\ Last(s) \in S
         /\ ToSet(s) = ToSet(Front(s)) \cup {Last(s)}
         /\ Len(Front(s)) = Len(s) - 1
<1>1. Len(s) \in Nat \ {0} /\ DOMAIN s = 1 .. Len(s)
  BY EmptySeq, LenProperties
<1>2. Front(s) \in Seq(S) /\ Len(Front(s)) = Len(s) - 1
      /\ \A k \in 1 .. Len(s) - 1 : Front(s)[k] = s[k]
  BY <1>1 DEF Front
<1>3. Last(s) \in S
  BY <1>1 DEF Last
<1>4. DOMAIN Front(s) = 1 .. Len(s) - 1
  BY <1>2, LenProperties
<1>5. ToSet(Front(s)) = {s[k] : k \in 1 .. Len(s) - 1}
  BY <1>2, <1>4 DEF ToSet
<1>6. ToSet(s) = {s[k] : k \in 1 .. Len(s)}
  BY <1>1 DEF ToSet
<1>7. 1 .. Len(s) = (1 .. Len(s) - 1) \cup {Len(s)}
  BY <1>1
<1>8. ToSet(s) = ToSet(Front(s)) \cup {Last(s)}
  BY <1>5, <1>6, <1>7 DEF Last
<1> QED
  BY <1>2, <1>3, <1>8

LEMMA EmptyElements == ToSet(<<>>) = {}
BY DEF ToSet

LEMMA AttrsAreSeq ==
  ASSUME NEW p \in Programs, NEW m \in Mods(p)
  PROVE  AttrsOf(p, m) \in Seq(ToSet(AttrsOf(p, m)))
<1>1. p.classOf[m] \in DOMAIN p.classes
  BY ProgramsWellFormed
<1>2. IsClassType(p, p.classOf[m])
  BY <1>1, ProgramsWellFormed
<1> QED
  BY <1>2 DEF IsClassType, AttrsOf

LEMMA CalleeIsFunc ==
  ASSUME NEW p \in Programs, NEW f \in ToSet(p.funcs), NEW op \in ToSet(p.body[f]), op.kind = "call"
  PROVE  IsCallOp(p, f, op) /\ op.callee \in ToSet(p.funcs)
<1>1. IsCallOp(p, f, op)
  BY ProgramsWellFormed
<1> QED
  BY <1>1 DEF IsCallOp

\* A trivial monomorphization is well formed.
LEMMA TrivialIsMono ==
  ASSUME NEW p, NEW f \in ToSet(p.funcs), CanTriviallyMonomorphize(p, f)
  PROVE  TrivialMonomorphization(p, f) \in Monos(p)
<1>1. \A i \in ModuleArgs(p, f) :
        (CHOOSE m \in Mods(p) : InstancesOfClass(p, p.types[f][i]) = {m}) \in Mods(p)
  BY DEF CanTriviallyMonomorphize
<1>2. TrivialMonomorphization(p, f).inst \in [ModuleArgs(p, f) -> Mods(p)]
  BY <1>1 DEF TrivialMonomorphization
<1>3. TrivialMonomorphization(p, f) \in [func : {f}, inst : [ModuleArgs(p, f) -> Mods(p)]]
  BY <1>2 DEF TrivialMonomorphization
<1> QED
  BY <1>3 DEF Monos

\* The assertion of createMonomorphizationForCall makes the callee of a call
\* op well formed.
LEMMA ResolvedIsMono ==
  ASSUME NEW p \in Programs, NEW m, NEW op, op.callee \in ToSet(p.funcs),
         IsResolved(p, MonomorphizationForCall(p, m, op))
  PROVE  MonomorphizationForCall(p, m, op) \in Monos(p)
<1> DEFINE c == MonomorphizationForCall(p, m, op)
<1>1. DOMAIN c.inst = ModuleArgs(p, op.callee)
  BY DEF MonomorphizationForCall
<1>2. c.inst \in [ModuleArgs(p, op.callee) -> Mods(p)]
  BY <1>1 DEF MonomorphizationForCall, IsResolved
<1>3. c \in [func : {op.callee}, inst : [ModuleArgs(p, op.callee) -> Mods(p)]]
  BY <1>2 DEF MonomorphizationForCall
<1> QED
  BY <1>3 DEF Monos

LEMMA MonoFunc ==
  ASSUME NEW p \in Programs, NEW m \in Monos(p)
  PROVE  m.func \in ToSet(p.funcs)
BY DEF Monos

-----------------------------------------------------------------------------

\* The frame whose nn_module is visited.
LEMMA TopFrame ==
  ASSUME TypeOK, pc = "traverse"
  PROVE  /\ Top.mod \in Mods(prog) /\ Top.next \in Nat \ {0}
         /\ Len(frames) \in Nat \ {0}
         /\ Advance \in Seq(Frame(prog))
         /\ Front(frames) \in Seq(Frame(prog))
         /\ Advance # <<>>
         /\ Len(frames) # 1 => Front(frames) # <<>>
<1>1. frames \in Seq(Frame(prog)) /\ frames # <<>>
  BY DEF TypeOK
<1>2. Len(frames) \in Nat \ {0}
  BY <1>1, EmptySeq
<1>3. Top \in Frame(prog)
  BY <1>1, <1>2, FrontAndLast DEF Top
<1>4. /\ [Top EXCEPT !.next = @ + 1] \in Frame(prog)
      /\ Top.mod \in Mods(prog) /\ Top.next \in Nat \ {0}
  BY <1>3 DEF Frame
<1>5. Advance \in Seq(Frame(prog)) /\ Len(Advance) = Len(frames)
  BY <1>1, <1>2, <1>4, ExceptSeq DEF Advance, ReplaceAt
<1>6. Front(frames) \in Seq(Frame(prog)) /\ Len(Front(frames)) = Len(frames) - 1
  BY <1>1, FrontAndLast
<1>7. Advance # <<>>
  BY <1>2, <1>5
<1>8. Len(frames) # 1 => Len(Front(frames)) # 0
  BY <1>2, <1>6
<1> QED
  BY <1>2, <1>4, <1>5, <1>6, <1>7, <1>8

\* Type correctness: the invariant is inductive, one step per action.
LEMMA TypeInit == Init => TypeOK
<1> SUFFICES ASSUME Init PROVE TypeOK
  OBVIOUS
<1>1. frames = <<>> /\ monomorphizations = <<>> /\ dirtyMonomorphizations = <<>>
  BY DEF Init, GraphInit, MonoInit
<1>2. DOMAIN EmptyMap = {}
  BY DEF EmptyMap
<1>3. /\ DOMAIN seenNnModules = {}
      /\ DOMAIN slotToGlobalSlot = {} /\ DOMAIN initializers = {}
      /\ DOMAIN newFuncs = {} /\ rewritten = {}
  BY <1>2 DEF Init, GraphInit
<1>4. /\ prog \in Programs /\ pc = "findRoot" /\ uniquifier = 0
      /\ nextFunc = 1 /\ nextOp = 1 /\ nextClone = 1
  BY DEF Init, MonoInit
<1> QED
  BY <1>1, <1>3, <1>4 DEF TypeOK

LEMMA TypeGraph ==
  TypeOK /\ GraphNext /\ UNCHANGED <<monoVars, newFuncs, nextClone, uniquifier, rewritten>>
    => TypeOK'
<1> SUFFICES ASSUME TypeOK, GraphNext,
                    UNCHANGED <<monoVars, newFuncs, nextClone, uniquifier, rewritten>>
             PROVE  TypeOK'
  OBVIOUS
<1> USE DEF monoVars, Fail, Goto
<1>1. CASE FindRootNnModule
  <2>1. \A root \in Mods(prog) :
          <<[mod |-> root, next |-> 1]>> \in Seq(Frame(prog)) /\ <<[mod |-> root, next |-> 1]>> # <<>>
    BY DEF Frame
  <2> QED
    BY <1>1, <2>1 DEF FindRootNnModule, Put, EmptyMap, TypeOK
<1>2. CASE VisitModuleSlot
  <2> DEFINE child == prog.slots[Top.mod][Top.next]
             pushed == Append(Advance, [mod |-> child, next |-> 1])
  <2>0. pc = "traverse" /\ prog \in Programs
    BY <1>2 DEF VisitModuleSlot, TypeOK
  <2>1. Top.next \in DOMAIN AttrsOf(prog, Top.mod) /\ IsModuleType(prog, AttrsOf(prog, Top.mod)[Top.next].type)
    <3>1. AttrsOf(prog, Top.mod) \in Seq(ToSet(AttrsOf(prog, Top.mod)))
      BY <2>0, TopFrame, AttrsAreSeq
    <3>2. DOMAIN AttrsOf(prog, Top.mod) = 1 .. Len(AttrsOf(prog, Top.mod))
          /\ Len(AttrsOf(prog, Top.mod)) \in Nat
      BY <3>1, LenProperties
    <3>3. Top.next <= Len(AttrsOf(prog, Top.mod)) /\ Top.next \in Nat \ {0}
      BY <1>2, <2>0, TopFrame DEF VisitModuleSlot
    <3>4. Top.next \in DOMAIN AttrsOf(prog, Top.mod)
      BY <3>2, <3>3
    <3> QED
      BY <1>2, <3>4 DEF VisitModuleSlot, TopAttr
  <2>2. child \in Mods(prog)
    BY <2>0, <2>1, TopFrame, ProgramsWellFormed
  <2>3. [mod |-> child, next |-> 1] \in Frame(prog)
    BY <2>2 DEF Frame
  <2>4. pushed \in Seq(Frame(prog)) /\ pushed # <<>>
    BY <2>0, <2>3, TopFrame, AppendProperties
  <2>5. CASE child \in DOMAIN seenNnModules
    BY <1>2, <2>5 DEF VisitModuleSlot, TypeOK
  <2>6. CASE child \notin DOMAIN seenNnModules
    <3>1. DOMAIN seenNnModules' = DOMAIN seenNnModules \cup {child}
      BY <1>2, <2>6 DEF VisitModuleSlot, Put
    <3>2. frames' = pushed /\ pc' = pc
      BY <1>2, <2>6 DEF VisitModuleSlot
    <3> QED
      BY <1>2, <2>2, <2>4, <3>1, <3>2 DEF VisitModuleSlot, TypeOK
  <2> QED
    BY <2>5, <2>6
<1>3. CASE VisitValueSlot
  <2>1. Advance \in Seq(Frame(prog)) /\ Advance # <<>>
    BY <1>3, TopFrame DEF VisitValueSlot
  <2> QED
    BY <1>3, <2>1 DEF VisitValueSlot, Put, TypeOK
<1>4. CASE LeaveModule
  <2>1. Front(frames) \in Seq(Frame(prog)) /\ (Len(frames) # 1 => Front(frames) # <<>>)
    BY <1>4, TopFrame DEF LeaveModule
  <2> QED
    BY <1>4, <2>1 DEF LeaveModule, TypeOK
<1> QED
  BY <1>1, <1>2, <1>3, <1>4 DEF GraphNext

LEMMA TypeMono ==
  TypeOK /\ MonoNext /\ UNCHANGED <<graphVars, newFuncs, nextClone, uniquifier, rewritten>>
    => TypeOK'
<1> SUFFICES ASSUME TypeOK, MonoNext,
                    UNCHANGED <<graphVars, newFuncs, nextClone, uniquifier, rewritten>>
             PROVE  TypeOK'
  OBVIOUS
<1> USE DEF graphVars, monoVars, Abort, Goto
<1>0. prog \in Programs /\ monomorphizations \in Seq(Monos(prog))
      /\ dirtyMonomorphizations \in Seq(Monos(prog))
  BY DEF TypeOK
<1>1. CASE InitializeFunc
  <2> DEFINE f == prog.funcs[nextFunc]
             m == TrivialMonomorphization(prog, f)
  <2>1. f \in ToSet(prog.funcs)
    <3>1. prog.funcs \in Seq(DOMAIN prog.body)
      BY <1>0, ProgramsWellFormed
    <3>2. nextFunc \in 1 .. Len(prog.funcs)
      BY <1>1, <3>1, LenProperties DEF InitializeFunc, TypeOK
    <3> QED
      BY <3>1, <3>2, LenProperties DEF ToSet
  <2>2. CASE CanTriviallyMonomorphize(prog, f)
    <3>1. m \in Monos(prog)
      BY <2>1, <2>2, TrivialIsMono
    <3>2. /\ Append(monomorphizations, m) \in Seq(Monos(prog))
          /\ Append(dirtyMonomorphizations, m) \in Seq(Monos(prog))
      BY <1>0, <3>1, AppendProperties
    <3>3. /\ monomorphizations' = Append(monomorphizations, m)
          /\ dirtyMonomorphizations' = Append(dirtyMonomorphizations, m)
          /\ nextFunc' = nextFunc + 1 /\ UNCHANGED <<prog, pc, cur, nextOp>>
      BY <1>1, <2>2 DEF InitializeFunc
    <3> QED
      BY <3>2, <3>3 DEF TypeOK
  <2>3. CASE ~ CanTriviallyMonomorphize(prog, f)
    BY <1>1, <2>3 DEF InitializeFunc, TypeOK
  <2> QED
    BY <2>2, <2>3
<1>2. CASE InitializeDone
  BY <1>2 DEF InitializeDone, TypeOK
<1>3. CASE PopDirty
  <2>1. /\ Front(dirtyMonomorphizations) \in Seq(Monos(prog))
        /\ Last(dirtyMonomorphizations) \in Monos(prog)
    BY <1>0, <1>3, FrontAndLast DEF PopDirty
  <2> QED
    BY <1>3, <2>1 DEF PopDirty, TypeOK
<1>4. CASE VisitOp
  <2> DEFINE op == prog.body[cur.func][nextOp]
             m  == MonomorphizationForCall(prog, cur, op)
  <2>1. cur \in Monos(prog) /\ nextOp \in Nat \ {0}
    BY <1>4 DEF VisitOp, TypeOK
  <2>2. op \in ToSet(prog.body[cur.func]) /\ cur.func \in ToSet(prog.funcs)
    <3>1. cur.func \in ToSet(prog.funcs)
      BY <1>0, <2>1, MonoFunc
    <3>2. prog.body[cur.func] \in Seq(ToSet(prog.body[cur.func]))
      BY <1>0, <3>1, ProgramsWellFormed
    <3>3. nextOp \in 1 .. Len(prog.body[cur.func])
      BY <1>4, <2>1, <3>2, LenProperties DEF VisitOp
    <3> QED
      BY <3>1, <3>2, <3>3, LenProperties DEF ToSet
  <2>3. CASE op.kind = "call" /\ IsResolved(prog, m) /\ m \notin ToSet(monomorphizations)
    <3>1. m \in Monos(prog)
      BY <1>0, <2>2, <2>3, CalleeIsFunc, ResolvedIsMono
    <3>2. /\ Append(monomorphizations, m) \in Seq(Monos(prog))
          /\ Append(dirtyMonomorphizations, m) \in Seq(Monos(prog))
      BY <1>0, <3>1, AppendProperties
    <3>3. /\ monomorphizations' = Append(monomorphizations, m)
          /\ dirtyMonomorphizations' = Append(dirtyMonomorphizations, m)
          /\ nextOp' = nextOp + 1 /\ UNCHANGED <<prog, pc, cur, nextFunc>>
      BY <1>4, <2>3 DEF VisitOp
    <3> QED
      BY <2>1, <3>2, <3>3 DEF TypeOK
  <2>4. CASE ~ (op.kind = "call" /\ IsResolved(prog, m) /\ m \notin ToSet(monomorphizations))
    <3>1. /\ UNCHANGED <<prog, monomorphizations, dirtyMonomorphizations, cur, nextFunc>>
          /\ nextOp' = nextOp + 1 \/ nextOp' = nextOp
          /\ pc' = pc \/ pc' = "assert"
      BY <1>4, <2>4 DEF VisitOp
    <3> QED
      BY <2>1, <3>1 DEF TypeOK
  <2> QED
    BY <2>3, <2>4
<1>5. CASE FinishMonomorphization
  BY <1>5 DEF FinishMonomorphization, TypeOK
<1>6. CASE WorklistDone
  BY <1>6 DEF WorklistDone, TypeOK
<1> QED
  BY <1>1, <1>2, <1>3, <1>4, <1>5, <1>6 DEF MonoNext

LEMMA TypeNext == TypeOK /\ [Next]_vars => TypeOK'
<1> SUFFICES ASSUME TypeOK, [Next]_vars PROVE TypeOK'
  OBVIOUS
<1> USE DEF graphVars, monoVars, Fail, Abort, Goto
<1>1. CASE GraphNext /\ UNCHANGED <<monoVars, newFuncs, nextClone, uniquifier, rewritten>>
  BY <1>1, TypeGraph
<1>2. CASE MonoNext /\ UNCHANGED <<graphVars, newFuncs, nextClone, uniquifier, rewritten>>
  BY <1>2, TypeMono
<1>3. CASE VerifyFuncsConformToSubset
  BY <1>3 DEF VerifyFuncsConformToSubset, TypeOK
<1>4. CASE VerifyPublicMonomorphizations
  BY <1>4 DEF VerifyPublicMonomorphizations, TypeOK
<1>5. CASE CloneFunc
  <2>1. monomorphizations \in Seq(Monos(prog)) /\ nextClone \in 1 .. Len(monomorphizations)
    BY <1>5, LenProperties DEF CloneFunc, TypeOK
  <2>2. monomorphizations[nextClone] \in Monos(prog)
    BY <2>1, ElementOfSeq
  <2>3. DOMAIN newFuncs' = DOMAIN newFuncs \cup {monomorphizations[nextClone]}
    BY <1>5 DEF CloneFunc, Put
  <2>4. /\ nextClone' = nextClone + 1
        /\ uniquifier' = uniquifier \/ uniquifier' = uniquifier + 1
        /\ UNCHANGED <<prog, pc, graphVars, monoVars, rewritten>>
    BY <1>5 DEF CloneFunc
  <2> QED
    BY <2>2, <2>3, <2>4 DEF TypeOK
<1>6. CASE AllCloned
  BY <1>6 DEF AllCloned, TypeOK
<1>7. ASSUME NEW m \in DOMAIN newFuncs, RewriteMonomorphizedFuncClone(m)
      PROVE  TypeOK'
  <2>1. DOMAIN newFuncs' = DOMAIN newFuncs /\ rewritten' \subseteq DOMAIN newFuncs
        /\ (pc' = pc \/ pc' = "assert")
    BY <1>7 DEF RewriteMonomorphizedFuncClone, TypeOK
  <2> QED
    BY <1>7, <2>1 DEF RewriteMonomorphizedFuncClone, TypeOK
<1>8. CASE CleanUpObjectGraph
  BY <1>8 DEF CleanUpObjectGraph, TypeOK, Goto, Fail
<1>9. CASE UNCHANGED vars
  BY <1>9 DEF vars, TypeOK
<1> QED
  BY <1>1, <1>2, <1>3, <1>4, <1>5, <1>6, <1>7, <1>8, <1>9 DEF Next, PassNext, Return

\* Every state the pass can be in has the shape TypeOK describes; in
\* particular every instance recorded for an argument is a real one.
THEOREM TypeCorrect == Spec => []TypeOK
BY TypeInit, TypeNext, PTL DEF Spec

-----------------------------------------------------------------------------
\* Closure under calls.

LEMMA WorklistInit == Init => WorklistInv
<1> SUFFICES ASSUME Init PROVE WorklistInv
  OBVIOUS
<1>1. monomorphizations = <<>> /\ pc = "findRoot"
  BY DEF Init, MonoInit
<1> QED
  BY <1>1, EmptyElements DEF WorklistInv, MonoSet

\* Steps that leave the tracker's variables alone.
LEMMA WorklistUnchanged ==
  ASSUME WorklistInv, UNCHANGED <<prog, monoVars>>, pc # "generate", pc # "assert",
         pc' # "generate",
         pc' \in {"verifyPublic", "clone", "rewrite", "done"} =>
           dirtyMonomorphizations = <<>>
  PROVE  WorklistInv'
BY DEF WorklistInv, MonoSet, monoVars

LEMMA WorklistMono ==
  TypeOK /\ WorklistInv /\ MonoNext => WorklistInv'
<1> SUFFICES ASSUME TypeOK, WorklistInv, MonoNext PROVE WorklistInv'
  OBVIOUS
<1> USE DEF Abort, Goto
<1>0. prog \in Programs /\ monomorphizations \in Seq(Monos(prog))
      /\ dirtyMonomorphizations \in Seq(Monos(prog))
  BY DEF TypeOK
\* Both lists grow by the same monomorphization.
<1>a. ASSUME NEW m \in Monos(prog), UNCHANGED prog,
             monomorphizations' = Append(monomorphizations, m),
             dirtyMonomorphizations' = Append(dirtyMonomorphizations, m)
      PROVE  /\ MonoSet' = MonoSet \cup {m}
             /\ ToSet(dirtyMonomorphizations') = ToSet(dirtyMonomorphizations) \cup {m}
  BY <1>0, <1>a, AppendElements DEF MonoSet
<1>1. CASE InitializeFunc
  <2> DEFINE f == prog.funcs[nextFunc]
             m == TrivialMonomorphization(prog, f)
  <2>1. f \in ToSet(prog.funcs)
    <3>1. prog.funcs \in Seq(DOMAIN prog.body)
      BY <1>0, ProgramsWellFormed
    <3>2. nextFunc \in 1 .. Len(prog.funcs)
      BY <1>1, <3>1, LenProperties DEF InitializeFunc, TypeOK
    <3> QED
      BY <3>1, <3>2, LenProperties DEF ToSet
  <2>2. pc = "initialize" /\ pc' = pc /\ UNCHANGED <<prog, cur, nextOp>>
    BY <1>1 DEF InitializeFunc
  <2>3. CASE CanTriviallyMonomorphize(prog, f)
    <3>1. m \in Monos(prog)
      BY <2>1, <2>3, TrivialIsMono
    <3>2. /\ MonoSet' = MonoSet \cup {m}
          /\ ToSet(dirtyMonomorphizations') = ToSet(dirtyMonomorphizations) \cup {m}
      BY <1>1, <1>a, <2>2, <2>3, <3>1 DEF InitializeFunc
    <3> QED
      BY <2>2, <3>2 DEF WorklistInv
  <2>4. CASE ~ CanTriviallyMonomorphize(prog, f)
    BY <1>1, <2>2, <2>4 DEF InitializeFunc, WorklistInv, MonoSet
  <2> QED
    BY <2>3, <2>4
<1>2. CASE InitializeDone
  BY <1>2 DEF InitializeDone, WorklistInv, MonoSet, monoVars
<1>3. CASE PopDirty
  <2>1. ToSet(dirtyMonomorphizations) = ToSet(dirtyMonomorphizations') \cup {cur'}
    BY <1>0, <1>3, FrontAndLast DEF PopDirty
  <2>2. /\ UNCHANGED <<prog, monomorphizations>> /\ nextOp' = 1
        /\ pc = "monomorphize" /\ pc' \in {"generate", "assert"}
    BY <1>3 DEF PopDirty
  <2>3. \A k \in CallOps(prog, cur'.func) : ~ (k < 1)
    <3>1. cur' \in Monos(prog)
      BY <1>0, <1>3, FrontAndLast DEF PopDirty
    <3>2. prog.body[cur'.func] \in Seq(ToSet(prog.body[cur'.func]))
      BY <1>0, <3>1, MonoFunc, ProgramsWellFormed
    <3> QED
      BY <3>2, LenProperties DEF CallOps
  <2> QED
    BY <2>1, <2>2, <2>3 DEF WorklistInv, MonoSet
<1>4. CASE VisitOp
  <2> DEFINE body == prog.body[cur.func]
             op   == body[nextOp]
             m    == MonomorphizationForCall(prog, cur, op)
  <2>1. /\ cur \in Monos(prog) /\ nextOp \in Nat \ {0}
        /\ pc = "generate" /\ nextOp <= Len(body) /\ UNCHANGED <<prog, cur>>
    BY <1>4 DEF VisitOp, TypeOK
  <2>2. cur.func \in ToSet(prog.funcs) /\ body \in Seq(ToSet(body))
    BY <1>0, <2>1, MonoFunc, ProgramsWellFormed
  <2>3. op \in ToSet(body) /\ CallOps(prog, cur.func) \subseteq Nat
    BY <2>1, <2>2, LenProperties DEF ToSet, CallOps
  <2>4. \A k \in CallOps(prog, cur.func) : k < nextOp + 1 => k < nextOp \/ k = nextOp
    BY <2>1, <2>3
  <2>5. CASE op.kind # "call"
    <3>1. /\ nextOp' = nextOp + 1
          /\ UNCHANGED <<pc, monomorphizations, dirtyMonomorphizations>>
      BY <1>4, <2>5 DEF VisitOp
    <3>2. nextOp \notin CallOps(prog, cur.func)
      BY <2>5 DEF CallOps
    <3> QED
      BY <2>1, <2>4, <3>1, <3>2 DEF WorklistInv, MonoSet
  <2>6. CASE op.kind = "call" /\ ~ IsResolved(prog, m)
    BY <1>4, <2>6 DEF VisitOp, WorklistInv, MonoSet
  <2>7. CASE op.kind = "call" /\ IsResolved(prog, m) /\ m \in ToSet(monomorphizations)
    <3>1. /\ nextOp' = nextOp + 1
          /\ UNCHANGED <<pc, monomorphizations, dirtyMonomorphizations>>
      BY <1>4, <2>7 DEF VisitOp
    <3> QED
      BY <2>1, <2>4, <2>7, <3>1 DEF WorklistInv, MonoSet
  <2>8. CASE op.kind = "call" /\ IsResolved(prog, m) /\ m \notin ToSet(monomorphizations)
    <3>1. m \in Monos(prog)
      BY <1>0, <2>2, <2>3, <2>8, CalleeIsFunc, ResolvedIsMono
    <3>2. /\ nextOp' = nextOp + 1 /\ pc' = pc
          /\ monomorphizations' = Append(monomorphizations, m)
          /\ dirtyMonomorphizations' = Append(dirtyMonomorphizations, m)
      BY <1>4, <2>8 DEF VisitOp
    <3>3. /\ MonoSet' = MonoSet \cup {m}
          /\ ToSet(dirtyMonomorphizations') = ToSet(dirtyMonomorphizations) \cup {m}
      BY <1>a, <2>1, <3>1, <3>2
    <3> QED
      BY <2>1, <2>4, <3>2, <3>3 DEF WorklistInv
  <2> QED
    BY <2>5, <2>6, <2>7, <2>8
<1>5. CASE FinishMonomorphization
  <2>1. CalleesOf(prog, cur) \subseteq MonoSet
    <3>1. cur \in Monos(prog) /\ nextOp \in Nat \ {0} /\ nextOp > Len(prog.body[cur.func])
          /\ pc = "generate"
      BY <1>5 DEF FinishMonomorphization, TypeOK
    <3>2. prog.body[cur.func] \in Seq(ToSet(prog.body[cur.func]))
      BY <1>0, <3>1, MonoFunc, ProgramsWellFormed
    <3>3. \A k \in CallOps(prog, cur.func) : k < nextOp
      BY <3>1, <3>2, LenProperties DEF CallOps
    <3> QED
      BY <3>1, <3>3 DEF CalleesOf, WorklistInv
  <2> QED
    BY <1>5, <2>1 DEF FinishMonomorphization, WorklistInv, MonoSet
<1>6. CASE WorklistDone
  BY <1>6 DEF WorklistDone, WorklistInv, MonoSet, monoVars
<1> QED
  BY <1>1, <1>2, <1>3, <1>4, <1>5, <1>6 DEF MonoNext

LEMMA WorklistNext == TypeOK /\ WorklistInv /\ [Next]_vars => WorklistInv'
<1> SUFFICES ASSUME TypeOK, WorklistInv, [Next]_vars PROVE WorklistInv'
  OBVIOUS
<1> USE DEF Fail, Abort, Goto
<1>1. CASE GraphNext /\ UNCHANGED <<monoVars, newFuncs, nextClone, uniquifier, rewritten>>
  <2>1. /\ UNCHANGED <<prog, monoVars>> /\ pc \in {"findRoot", "traverse"}
        /\ pc' \in {"findRoot", "traverse", "verifyFuncs", "error"}
    BY <1>1 DEF GraphNext, FindRootNnModule, VisitModuleSlot, VisitValueSlot, LeaveModule
  <2> QED
    BY <2>1, WorklistUnchanged
<1>2. CASE MonoNext /\ UNCHANGED <<graphVars, newFuncs, nextClone, uniquifier, rewritten>>
  BY <1>2, WorklistMono
<1>3. CASE VerifyFuncsConformToSubset
  BY <1>3, WorklistUnchanged DEF VerifyFuncsConformToSubset
<1>4. CASE VerifyPublicMonomorphizations
  BY <1>4, WorklistUnchanged DEF VerifyPublicMonomorphizations, WorklistInv
<1>5. CASE CloneFunc
  BY <1>5, WorklistUnchanged DEF CloneFunc, WorklistInv
<1>6. CASE AllCloned
  BY <1>6, WorklistUnchanged DEF AllCloned, WorklistInv
<1>7. ASSUME NEW m \in DOMAIN newFuncs, RewriteMonomorphizedFuncClone(m)
      PROVE  WorklistInv'
  <2>1. UNCHANGED <<prog, monoVars>> /\ pc = "rewrite" /\ pc' \in {"rewrite", "assert"}
    BY <1>7 DEF RewriteMonomorphizedFuncClone
  <2> QED
    BY <2>1, WorklistUnchanged DEF WorklistInv
<1>8. CASE CleanUpObjectGraph
  BY <1>8, WorklistUnchanged DEF CleanUpObjectGraph, WorklistInv
<1>9. CASE UNCHANGED vars
  BY <1>9 DEF vars, monoVars, WorklistInv, MonoSet
<1> QED
  BY <1>1, <1>2, <1>3, <1>4, <1>5, <1>6, <1>7, <1>8, <1>9 DEF Next, PassNext, Return

\* When MonomorphizationTracker::initialize returns, the set is closed under
\* calls, for every program: no callee is ever missing.
THEOREM ClosedUnderCalls == Spec => []MonomorphizationsClosed
<1>1. WorklistInv => MonomorphizationsClosed
  BY EmptyElements DEF WorklistInv, MonomorphizationsClosed
<1> QED
  BY <1>1, TypeInit, TypeNext, WorklistInit, WorklistNext, PTL DEF Spec

-----------------------------------------------------------------------------
\* Every call finds its clone.

LEMMA ClonesInit == Init => ClonesInv
<1> SUFFICES ASSUME Init PROVE ClonesInv
  OBVIOUS
<1>1. monomorphizations = <<>> /\ nextClone = 1 /\ DOMAIN newFuncs = {} /\ pc = "findRoot"
  BY DEF Init, MonoInit, EmptyMap
<1>2. Len(monomorphizations) = 0 /\ 1 .. nextClone - 1 = {}
  BY <1>1
<1> QED
  BY <1>1, <1>2 DEF ClonesInv

\* The tracker only appends, so the clones made so far stay the prefix.
LEMMA ClonesMono ==
  TypeOK /\ ClonesInv /\ MonoNext /\ UNCHANGED <<newFuncs, nextClone>> => ClonesInv'
<1> SUFFICES ASSUME TypeOK, ClonesInv, MonoNext, UNCHANGED <<newFuncs, nextClone>>
             PROVE  ClonesInv'
  OBVIOUS
<1>1. monomorphizations \in Seq(Monos(prog)) /\ nextClone \in Nat \ {0}
  BY DEF TypeOK
<1>2. pc' \notin {"rewrite", "done"}
  BY DEF MonoNext, InitializeFunc, InitializeDone, PopDirty, VisitOp,
         FinishMonomorphization, WorklistDone, Abort, Goto
<1>3. \/ monomorphizations' = monomorphizations
      \/ \E m : monomorphizations' = Append(monomorphizations, m)
  BY DEF MonoNext, InitializeFunc, InitializeDone, PopDirty, VisitOp,
         FinishMonomorphization, WorklistDone, monoVars
<1>4. Len(monomorphizations) \in Nat /\ Len(monomorphizations) <= Len(monomorphizations')
      /\ \A k \in 1 .. Len(monomorphizations) : monomorphizations'[k] = monomorphizations[k]
  BY <1>1, <1>3
<1>5. nextClone <= Len(monomorphizations) + 1
  BY DEF ClonesInv
<1>6. nextClone - 1 <= Len(monomorphizations) /\ nextClone <= Len(monomorphizations') + 1
  BY <1>1, <1>3, <1>4, <1>5
<1>7. {monomorphizations'[k] : k \in 1 .. nextClone - 1}
        = {monomorphizations[k] : k \in 1 .. nextClone - 1}
  BY <1>1, <1>4, <1>6
<1> QED
  BY <1>2, <1>6, <1>7 DEF ClonesInv

LEMMA ClonesNext == TypeOK /\ ClonesInv /\ [Next]_vars => ClonesInv'
<1> SUFFICES ASSUME TypeOK, ClonesInv, [Next]_vars PROVE ClonesInv'
  OBVIOUS
<1> USE DEF Fail, Abort, Goto
\* Steps that change none of the variables involved.
<1>a. ASSUME UNCHANGED <<monomorphizations, nextClone>>, DOMAIN newFuncs' = DOMAIN newFuncs,
             pc' \in {"rewrite", "done"} => pc = "rewrite" \/ pc = "done"
      PROVE  ClonesInv'
  BY <1>a DEF ClonesInv
<1>1. CASE GraphNext /\ UNCHANGED <<monoVars, newFuncs, nextClone, uniquifier, rewritten>>
  <2>1. pc' \in {"findRoot", "traverse", "verifyFuncs", "error"}
    BY <1>1 DEF GraphNext, FindRootNnModule, VisitModuleSlot, VisitValueSlot, LeaveModule
  <2> QED
    BY <1>1, <1>a, <2>1 DEF monoVars
<1>2. CASE MonoNext /\ UNCHANGED <<graphVars, newFuncs, nextClone, uniquifier, rewritten>>
  BY <1>2, ClonesMono
<1>3. CASE VerifyFuncsConformToSubset
  BY <1>3, <1>a DEF VerifyFuncsConformToSubset, monoVars
<1>4. CASE VerifyPublicMonomorphizations
  BY <1>4, <1>a DEF VerifyPublicMonomorphizations, monoVars
<1>5. CASE CloneFunc
  <2>1. nextClone \in Nat \ {0} /\ Len(monomorphizations) \in Nat
    BY LenProperties DEF TypeOK
  <2>2. /\ nextClone <= Len(monomorphizations) /\ nextClone' = nextClone + 1
        /\ UNCHANGED monomorphizations /\ pc = "clone" /\ pc' = pc
        /\ DOMAIN newFuncs' = DOMAIN newFuncs \cup {monomorphizations[nextClone]}
    BY <1>5 DEF CloneFunc, Put, monoVars
  <2>3. 1 .. nextClone' - 1 = (1 .. nextClone - 1) \cup {nextClone}
    BY <2>1, <2>2
  <2>4. {monomorphizations[k] : k \in 1 .. nextClone' - 1}
          = {monomorphizations[k] : k \in 1 .. nextClone - 1} \cup {monomorphizations[nextClone]}
    BY <2>3
  <2>5. nextClone' <= Len(monomorphizations) + 1
    BY <2>1, <2>2
  <2> QED
    BY <2>2, <2>4, <2>5 DEF ClonesInv
<1>6. CASE AllCloned
  <2>1. nextClone \in Nat \ {0} /\ Len(monomorphizations) \in Nat
    BY LenProperties DEF TypeOK
  <2>2. nextClone > Len(monomorphizations) /\ UNCHANGED <<monomorphizations, nextClone, newFuncs>>
    BY <1>6 DEF AllCloned, monoVars
  <2>3. nextClone = Len(monomorphizations) + 1
    BY <2>1, <2>2 DEF ClonesInv
  <2> QED
    BY <2>2, <2>3 DEF ClonesInv
<1>7. ASSUME NEW m \in DOMAIN newFuncs, RewriteMonomorphizedFuncClone(m)
      PROVE  ClonesInv'
  BY <1>7, <1>a DEF RewriteMonomorphizedFuncClone, monoVars
<1>8. CASE CleanUpObjectGraph
  BY <1>8, <1>a DEF CleanUpObjectGraph, monoVars
<1>9. CASE UNCHANGED vars
  BY <1>9, <1>a DEF vars, monoVars
<1> QED
  BY <1>1, <1>2, <1>3, <1>4, <1>5, <1>6, <1>7, <1>8, <1>9 DEF Next, PassNext, Return

\* Every callee of a clone has its clone, once all are made.
LEMMA CalleesCloned ==
  ASSUME TypeOK, WorklistInv, ClonesInv, pc \in {"rewrite", "done"}
  PROVE  DOMAIN newFuncs = MonoSet /\ \A m \in DOMAIN newFuncs : CalleesOf(prog, m) \subseteq DOMAIN newFuncs
<1>1. monomorphizations \in Seq(Monos(prog)) /\ nextClone = Len(monomorphizations) + 1
  BY DEF TypeOK, ClonesInv
<1>2. Len(monomorphizations) \in Nat /\ DOMAIN monomorphizations = 1 .. Len(monomorphizations)
  BY <1>1, LenProperties
<1>3. 1 .. nextClone - 1 = DOMAIN monomorphizations
  BY <1>1, <1>2
<1>4. DOMAIN newFuncs = MonoSet
  BY <1>3 DEF ClonesInv, MonoSet, ToSet
<1>5. dirtyMonomorphizations = <<>>
  BY DEF WorklistInv
<1> QED
  BY <1>4, <1>5, EmptyElements DEF WorklistInv

\* The assertion of handleCall, "newFuncs.find(monomorphization) !=
\* newFuncs.end()", cannot fail, whatever the program and in whatever order
\* the DenseMap of clones is walked.
THEOREM HandleCallFindsClone == Spec => []CallTargetsCloned
<1>1. TypeOK /\ WorklistInv /\ ClonesInv => CallTargetsCloned
  BY CalleesCloned DEF CallTargetsCloned
<1> QED
  BY <1>1, TypeInit, TypeNext, WorklistInit, WorklistNext, ClonesInit, ClonesNext, PTL DEF Spec

-----------------------------------------------------------------------------
\* No monomorphization without a reason.

LEMMA NeededInit == Init => NeededInv
<1> SUFFICES ASSUME Init PROVE NeededInv
  OBVIOUS
<1>1. monomorphizations = <<>> /\ dirtyMonomorphizations = <<>> /\ pc = "findRoot"
  BY DEF Init, MonoInit
<1>2. DOMAIN monomorphizations = {}
  BY <1>1
<1> QED
  BY <1>1, <1>2, EmptyElements DEF NeededInv, MonomorphizationsNeeded, MonoSet

\* Both lists grow by a monomorphization that is trivial or a callee of one
\* recorded before.
LEMMA NeededAppend ==
  ASSUME TypeOK, NeededInv, NEW m \in Monos(prog), UNCHANGED prog,
         monomorphizations' = Append(monomorphizations, m),
         dirtyMonomorphizations' = Append(dirtyMonomorphizations, m),
         pc' = pc, UNCHANGED cur,
         \/ \E f \in ToSet(prog.funcs) :
              CanTriviallyMonomorphize(prog, f) /\ m = TrivialMonomorphization(prog, f)
         \/ \E c \in MonoSet : m \in CalleesOf(prog, c)
  PROVE  NeededInv'
<1>1. monomorphizations \in Seq(Monos(prog)) /\ dirtyMonomorphizations \in Seq(Monos(prog))
  BY DEF TypeOK
<1> DEFINE n == Len(monomorphizations)
<1>2. n \in Nat /\ DOMAIN monomorphizations = 1 .. n
  BY <1>1, LenProperties
<1>3. /\ monomorphizations' \in Seq(Monos(prog))
      /\ Len(monomorphizations') = n + 1
      /\ \A k \in 1 .. n : monomorphizations'[k] = monomorphizations[k]
      /\ monomorphizations'[n + 1] = m
  BY <1>1, AppendElements
<1>4. DOMAIN monomorphizations' = 1 .. n + 1
  BY <1>3, LenProperties
<1>5. ASSUME NEW k \in 1 .. n + 1
      PROVE  \/ \E f \in ToSet(prog.funcs) :
                  /\ CanTriviallyMonomorphize(prog, f)
                  /\ monomorphizations'[k] = TrivialMonomorphization(prog, f)
             \/ \E j \in 1 .. k - 1 : monomorphizations'[k] \in CalleesOf(prog, monomorphizations'[j])
  <2>1. CASE k = n + 1
    <3>1. ASSUME NEW c \in MonoSet, m \in CalleesOf(prog, c)
          PROVE  \E j \in 1 .. n : m \in CalleesOf(prog, monomorphizations'[j])
      BY <1>2, <1>3, <3>1 DEF MonoSet, ToSet
    <3>2. k - 1 = n /\ monomorphizations'[k] = m
      BY <1>2, <1>3, <2>1
    <3> QED
      BY <3>1, <3>2
  <2>2. CASE k \in 1 .. n
    <3>1. \/ \E f \in ToSet(prog.funcs) :
               /\ CanTriviallyMonomorphize(prog, f)
               /\ monomorphizations[k] = TrivialMonomorphization(prog, f)
          \/ \E j \in 1 .. k - 1 : monomorphizations[k] \in CalleesOf(prog, monomorphizations[j])
      BY <1>2, <2>2 DEF NeededInv, MonomorphizationsNeeded
    <3>2. \A j \in 1 .. k - 1 : j \in 1 .. n
      BY <1>2, <2>2
    <3> QED
      BY <1>3, <2>2, <3>1, <3>2
  <2> QED
    BY <1>2, <2>1, <2>2
<1>6. MonomorphizationsNeeded'
  BY <1>4, <1>5 DEF MonomorphizationsNeeded
<1>7. /\ MonoSet' = MonoSet \cup {m}
      /\ ToSet(dirtyMonomorphizations') = ToSet(dirtyMonomorphizations) \cup {m}
  BY <1>1, AppendElements DEF MonoSet
<1> QED
  BY <1>6, <1>7 DEF NeededInv

LEMMA NeededMono == TypeOK /\ NeededInv /\ MonoNext => NeededInv'
<1> SUFFICES ASSUME TypeOK, NeededInv, MonoNext PROVE NeededInv'
  OBVIOUS
<1> USE DEF Abort, Goto
<1>0. prog \in Programs /\ monomorphizations \in Seq(Monos(prog))
      /\ dirtyMonomorphizations \in Seq(Monos(prog))
  BY DEF TypeOK
\* Steps that record nothing.
<1>a. ASSUME UNCHANGED <<prog, monomorphizations>>,
             ToSet(dirtyMonomorphizations') \subseteq ToSet(dirtyMonomorphizations),
             pc' = "generate" => cur' \in MonoSet
      PROVE  NeededInv'
  BY <1>a DEF NeededInv, MonomorphizationsNeeded, MonoSet
<1>1. CASE InitializeFunc
  <2> DEFINE f == prog.funcs[nextFunc]
             m == TrivialMonomorphization(prog, f)
  <2>1. f \in ToSet(prog.funcs)
    <3>1. prog.funcs \in Seq(DOMAIN prog.body)
      BY <1>0, ProgramsWellFormed
    <3>2. nextFunc \in 1 .. Len(prog.funcs)
      BY <1>1, <3>1, LenProperties DEF InitializeFunc, TypeOK
    <3> QED
      BY <3>1, <3>2, LenProperties DEF ToSet
  <2>2. CASE CanTriviallyMonomorphize(prog, f)
    <3>1. m \in Monos(prog)
      BY <2>1, <2>2, TrivialIsMono
    <3>2. /\ monomorphizations' = Append(monomorphizations, m)
          /\ dirtyMonomorphizations' = Append(dirtyMonomorphizations, m)
          /\ UNCHANGED <<prog, pc, cur>>
      BY <1>1, <2>2 DEF InitializeFunc
    <3> QED
      BY <2>1, <2>2, <3>1, <3>2, NeededAppend
  <2>3. CASE ~ CanTriviallyMonomorphize(prog, f)
    BY <1>1, <1>a, <2>3 DEF InitializeFunc
  <2> QED
    BY <2>2, <2>3
<1>2. CASE InitializeDone
  BY <1>2, <1>a DEF InitializeDone, monoVars
<1>3. CASE PopDirty
  <2>1. ToSet(dirtyMonomorphizations) = ToSet(dirtyMonomorphizations') \cup {cur'}
    BY <1>0, <1>3, FrontAndLast DEF PopDirty
  <2> QED
    BY <1>3, <1>a, <2>1 DEF PopDirty, NeededInv
<1>4. CASE VisitOp
  <2> DEFINE body == prog.body[cur.func]
             op   == body[nextOp]
             m    == MonomorphizationForCall(prog, cur, op)
  <2>1. /\ cur \in Monos(prog) /\ cur \in MonoSet /\ nextOp \in Nat \ {0}
        /\ pc = "generate" /\ nextOp <= Len(body) /\ UNCHANGED <<prog, cur>>
    BY <1>4 DEF VisitOp, TypeOK, NeededInv
  <2>2. cur.func \in ToSet(prog.funcs) /\ body \in Seq(ToSet(body))
    BY <1>0, <2>1, MonoFunc, ProgramsWellFormed
  <2>3. nextOp \in DOMAIN body /\ op \in ToSet(body)
    BY <2>1, <2>2, LenProperties DEF ToSet
  <2>4. CASE op.kind = "call" /\ IsResolved(prog, m) /\ m \notin ToSet(monomorphizations)
    <3>1. m \in Monos(prog)
      BY <1>0, <2>2, <2>3, <2>4, CalleeIsFunc, ResolvedIsMono
    <3>2. m \in CalleesOf(prog, cur)
      BY <2>3, <2>4 DEF CalleesOf, CallOps
    <3>3. /\ monomorphizations' = Append(monomorphizations, m)
          /\ dirtyMonomorphizations' = Append(dirtyMonomorphizations, m)
          /\ pc' = pc
      BY <1>4, <2>4 DEF VisitOp
    <3> QED
      BY <2>1, <3>1, <3>2, <3>3, NeededAppend
  <2>5. CASE ~ (op.kind = "call" /\ IsResolved(prog, m) /\ m \notin ToSet(monomorphizations))
    <3>1. UNCHANGED <<monomorphizations, dirtyMonomorphizations>>
      BY <1>4, <2>5 DEF VisitOp
    <3> QED
      BY <1>a, <2>1, <3>1
  <2> QED
    BY <2>4, <2>5
<1>5. CASE FinishMonomorphization
  BY <1>5, <1>a DEF FinishMonomorphization
<1>6. CASE WorklistDone
  BY <1>6, <1>a DEF WorklistDone, monoVars
<1> QED
  BY <1>1, <1>2, <1>3, <1>4, <1>5, <1>6 DEF MonoNext

LEMMA NeededNext == TypeOK /\ NeededInv /\ [Next]_vars => NeededInv'
<1> SUFFICES ASSUME TypeOK, NeededInv, [Next]_vars PROVE NeededInv'
  OBVIOUS
<1>1. CASE MonoNext /\ UNCHANGED <<graphVars, newFuncs, nextClone, uniquifier, rewritten>>
  BY <1>1, NeededMono
<1>2. CASE UNCHANGED <<prog, monoVars>> /\ (pc' = "generate" => pc = "generate")
  BY <1>2 DEF NeededInv, MonomorphizationsNeeded, MonoSet, monoVars
<1>3. \/ MonoNext /\ UNCHANGED <<graphVars, newFuncs, nextClone, uniquifier, rewritten>>
      \/ UNCHANGED <<prog, monoVars>> /\ (pc' = "generate" => pc = "generate")
  <2>1. GraphNext => UNCHANGED prog /\ pc' # "generate"
    BY DEF GraphNext, FindRootNnModule, VisitModuleSlot, VisitValueSlot, LeaveModule, Fail, Goto
  <2>2. CloneFunc \/ AllCloned \/ CleanUpObjectGraph \/ VerifyFuncsConformToSubset
          \/ VerifyPublicMonomorphizations
          => UNCHANGED <<prog, monoVars>> /\ pc' # "generate"
    BY DEF CloneFunc, AllCloned, CleanUpObjectGraph, VerifyFuncsConformToSubset,
           VerifyPublicMonomorphizations, Fail, Goto
  <2>3. \A m \in DOMAIN newFuncs : RewriteMonomorphizedFuncClone(m)
          => UNCHANGED <<prog, monoVars>> /\ pc' # "generate"
    BY DEF RewriteMonomorphizedFuncClone, Abort
  <2> QED
    BY <2>1, <2>2, <2>3 DEF Next, PassNext, Return, vars
<1> QED
  BY <1>1, <1>2, <1>3

\* Every monomorphization is trivial or called by an earlier one.  Together
\* with ClosedUnderCalls: the tracker computes the least set that holds the
\* trivial monomorphizations and is closed under calls.
THEOREM LeastFixpoint == Spec => []MonomorphizationsLeast
<1>1. NeededInv => MonomorphizationsNeeded
  BY DEF NeededInv
<1>2. MonomorphizationsClosed /\ MonomorphizationsNeeded => MonomorphizationsLeast
  BY DEF MonomorphizationsLeast
<1> QED
  BY <1>1, <1>2, ClosedUnderCalls, TypeInit, TypeNext, NeededInit, NeededNext, PTL DEF Spec

-----------------------------------------------------------------------------
\* Initializers do not alias.

LEMMA AliasInit == Init => AliasInv
<1> SUFFICES ASSUME Init PROVE AliasInv
  OBVIOUS
<1>1. DOMAIN initializers = {}
  BY DEF Init, GraphInit, EmptyMap
<1> QED
  BY <1>1 DEF AliasInv

LEMMA AliasNext == TypeOK /\ AliasInv /\ [Next]_vars => AliasInv'
<1> SUFFICES ASSUME TypeOK, AliasInv, [Next]_vars PROVE AliasInv'
  OBVIOUS
<1>1. CASE VisitValueSlot
  <2> DEFINE slot   == <<Top.mod, TopAttr.name>>
             cloned == NeedToClone(prog, prog.slots[Top.mod][Top.next])
             shared == {v \in cloned : HasMeaningfulObjectIdentity(prog, v)}
  <2>1. CASE shared \cap identityCopied # {}
    <3>1. pc' = "error"
      BY <1>1, <2>1 DEF VisitValueSlot, Fail
    <3> QED
      BY <3>1 DEF AliasInv
  <2>2. CASE shared \cap identityCopied = {}
    <3> SUFFICES ASSUME NEW s \in DOMAIN initializers', NEW v \in initializers'[s],
                        HasMeaningfulObjectIdentity(prog, v)
                 PROVE  /\ v \in identityCopied'
                        /\ \A t \in DOMAIN initializers' : v \in initializers'[t] => t = s
      BY <1>1 DEF VisitValueSlot, AliasInv
    <3>1. /\ DOMAIN initializers' = DOMAIN initializers \cup {slot}
          /\ initializers'[slot] = cloned
          /\ \A t \in DOMAIN initializers : t # slot => initializers'[t] = initializers[t]
          /\ identityCopied' = identityCopied \cup shared
          /\ pc # "error" /\ UNCHANGED prog
      BY <1>1 DEF VisitValueSlot, Put
    <3>2. \A t \in DOMAIN initializers : \A w \in initializers[t] :
            HasMeaningfulObjectIdentity(prog, w) =>
              /\ w \in identityCopied
              /\ \A u \in DOMAIN initializers : w \in initializers[u] => u = t
      BY <3>1 DEF AliasInv
    <3>3. CASE s = slot
      BY <2>2, <3>1, <3>2, <3>3
    <3>4. CASE s # slot
      BY <2>2, <3>1, <3>2, <3>4
    <3> QED
      BY <3>3, <3>4
  <2> QED
    BY <2>1, <2>2
<1>2. CASE UNCHANGED <<prog, initializers, identityCopied>> /\ (pc = "error" => pc' = "error")
  BY <1>2 DEF AliasInv
<1>3. \/ VisitValueSlot
      \/ UNCHANGED <<prog, initializers, identityCopied>> /\ (pc = "error" => pc' = "error")
  <2>1. FindRootNnModule \/ VisitModuleSlot \/ LeaveModule
          => UNCHANGED <<prog, initializers, identityCopied>> /\ pc # "error"
    BY DEF FindRootNnModule, VisitModuleSlot, LeaveModule
  <2>2. MonoNext => UNCHANGED prog /\ pc # "error"
    BY DEF MonoNext, InitializeFunc, InitializeDone, PopDirty, VisitOp, FinishMonomorphization,
           WorklistDone
  <2>3. CloneFunc \/ AllCloned \/ CleanUpObjectGraph \/ VerifyFuncsConformToSubset
          \/ VerifyPublicMonomorphizations
          => UNCHANGED <<prog, graphVars>> /\ pc # "error"
    BY DEF CloneFunc, AllCloned, CleanUpObjectGraph, VerifyFuncsConformToSubset,
           VerifyPublicMonomorphizations
  <2>4. \A m \in DOMAIN newFuncs : RewriteMonomorphizedFuncClone(m)
          => UNCHANGED <<prog, graphVars>> /\ pc # "error"
    BY DEF RewriteMonomorphizedFuncClone
  <2> QED
    BY <2>1, <2>2, <2>3, <2>4 DEF Next, PassNext, GraphNext, Return, vars, graphVars
<1> QED
  BY <1>1, <1>2, <1>3

\* "Two slots cannot have initial values that alias each other": a program
\* the pass accepts has no object with identity in two initializers.
THEOREM NoAliasing == Spec => []InitializersDoNotAlias
<1>1. AliasInv => InitializersDoNotAlias
  BY DEF AliasInv, InitializersDoNotAlias
<1> QED
  BY <1>1, TypeInit, TypeNext, AliasInit, AliasNext, PTL DEF Spec

-----------------------------------------------------------------------------
\* Sequences.

\* What is appended to what can be told from the result.
LEMMA AppendIsOne ==
  ASSUME NEW S, NEW s \in Seq(S), NEW t \in Seq(S), NEW a \in S, NEW b \in S, Append(s, a) = Append(t, b)
  PROVE  s = t /\ a = b
<1>1. PICK n \in Nat : n = Len(s)
  OBVIOUS
<1>2. /\ Len(Append(s, a)) = n + 1 /\ Append(s, a)[n + 1] = a
      /\ \A k \in 1 .. n : Append(s, a)[k] = s[k]
  BY <1>1
<1>3. /\ Len(Append(t, b)) = Len(t) + 1 /\ Append(t, b)[Len(t) + 1] = b
      /\ \A k \in 1 .. Len(t) : Append(t, b)[k] = t[k] /\ Len(t) \in Nat
  OBVIOUS
<1>4. Len(t) = n /\ Len(t) \in Nat
  BY <1>2, <1>3
<1>5. a = b /\ \A k \in 1 .. n : s[k] = t[k]
  BY <1>2, <1>3, <1>4
<1> QED
  BY <1>1, <1>4, <1>5, SeqEqual
-----------------------------------------------------------------------------
\* The traversal and the names it gives.

AttrNames(p) == UNION {{AttrsOf(p, m)[i].name : i \in DOMAIN AttrsOf(p, m)} : m \in Mods(p)}

\* No frame of the stack has slot i of instance m still to visit.
Visited(fs, m, i) == \A k \in 1 .. Len(fs) : fs[k].mod = m => i < fs[k].next

\* The traversal has come from instance m to instance c through slot i.
Leads(p, fs, seen, m, i, c) ==
  /\ IsModuleType(p, AttrsOf(p, m)[i].type) /\ p.slots[m][i] = c
  /\ seen[c] = Append(seen[m], AttrsOf(p, m)[i].name)
  /\ Visited(fs, m, i)

\* An instance that has been seen is the root or has been come to from one that
\* has, and no two have one path.
SeenOK(p, fs, seen) ==
  /\ \A c \in DOMAIN seen : c \in Mods(p) /\ seen[c] \in Seq(AttrNames(p))
  /\ \A c \in DOMAIN seen :
       seen[c] = <<>> \/ \E m \in DOMAIN seen : \E i \in DOMAIN AttrsOf(p, m) : Leads(p, fs, seen, m, i, c)
  /\ \A c, d \in DOMAIN seen : seen[c] = seen[d] => c = d

\* What a slot that has been visited holds has been seen, or is a global slot.
VisitedOK(p, fs, seen, slots) ==
  \A m \in DOMAIN seen : \A i \in DOMAIN AttrsOf(p, m) : Visited(fs, m, i) =>
    IF IsModuleType(p, AttrsOf(p, m)[i].type)
    THEN p.slots[m][i] \in DOMAIN seen /\ seen[p.slots[m][i]] = Append(seen[m], AttrsOf(p, m)[i].name)
    ELSE <<m, AttrsOf(p, m)[i].name>> \in DOMAIN slots

\* The stack is a path from the root.
StackOK(p, fs, seen) ==
  /\ fs \in Seq(Frame(p))
  /\ \A k \in 1 .. Len(fs) : fs[k].mod \in DOMAIN seen
  /\ \A j, k \in 1 .. Len(fs) : fs[j].mod = fs[k].mod => j = k
  /\ \A k \in 1 .. Len(fs) - 1 : \E a \in AttrNames(p) : seen[fs[k + 1].mod] = Append(seen[fs[k].mod], a)

\* Global slots and methods have the path of their instance and their own name.
SlotsOK(seen, slots) ==
  \A s \in DOMAIN slots :
    /\ s = <<s[1], s[2]>> /\ s[1] \in DOMAIN seen
    /\ slots[s].name = Append(seen[s[1]], s[2])

MethodsOK(p, seen, info) ==
  \A key \in DOMAIN info :
    /\ key[1] \in DOMAIN seen
    /\ \E k \in DOMAIN MethodsOf(p, key[1]) :
         /\ MethodsOf(p, key[1])[k].func = key[2]
         /\ info[key].name = Append(seen[key[1]], MethodsOf(p, key[1])[k].name)

GraphInv ==
  /\ pc = "findRoot" => /\ frames = <<>> /\ nameStack = <<>>
                        /\ DOMAIN slotToGlobalSlot = {} /\ DOMAIN funcLinkageInfo = {}
  /\ pc \notin {"findRoot", "error"} =>
       /\ Root \in DOMAIN seenNnModules /\ seenNnModules[Root] = <<>>
       /\ SeenOK(prog, frames, seenNnModules)
       /\ VisitedOK(prog, frames, seenNnModules, slotToGlobalSlot)
       /\ StackOK(prog, frames, seenNnModules)
       /\ SlotsOK(seenNnModules, slotToGlobalSlot)
       /\ MethodsOK(prog, seenNnModules, funcLinkageInfo)
       /\ IF pc = "traverse" THEN frames # <<>> /\ nameStack = seenNnModules[Top.mod] ELSE frames = <<>>

\* The stack is one of n frames, of n different instances.
IsStack(p, fs, n) ==
  /\ fs \in Seq(Frame(p)) /\ n \in Nat \ {0} /\ n = Len(fs)
  /\ \A k \in 1 .. n : fs[k].next \in Nat \ {0} /\ fs[k].mod \in Mods(p)
  /\ \A j, k \in 1 .. n : fs[j].mod = fs[k].mod => j = k

\* Its last frame goes one slot further.
Advanced(fs, fs2, n) ==
  /\ Len(fs2) = n
  /\ \A k \in 1 .. n : fs2[k].mod = fs[k].mod
  /\ \A k \in 1 .. n - 1 : fs2[k].next = fs[k].next
  /\ fs2[n].next = fs[n].next + 1

\* The same, and instance child is entered.
Pushed(fs, fs2, n, child) ==
  /\ Len(fs2) = n + 1
  /\ \A k \in 1 .. n : fs2[k].mod = fs[k].mod
  /\ \A k \in 1 .. n - 1 : fs2[k].next = fs[k].next
  /\ fs2[n].next = fs[n].next + 1
  /\ fs2[n + 1].mod = child /\ fs2[n + 1].next = 1

\* The stack of the traversal is one.
LEMMA StackIs ==
  ASSUME NEW p, NEW fs, NEW seen, StackOK(p, fs, seen), fs # <<>>
  PROVE  \E n : IsStack(p, fs, n)
<1>1. fs \in Seq(Frame(p))
  BY DEF StackOK
<1>2. PICK n \in Nat : n = Len(fs)
  BY <1>1
<1>3. n # 0
  BY <1>1, <1>2
<1>4. ASSUME NEW k \in 1 .. n PROVE fs[k].next \in Nat \ {0} /\ fs[k].mod \in Mods(p)
  <2>1. fs[k] \in Frame(p)
    BY <1>1, <1>2
  <2> QED
    BY <2>1 DEF Frame
<1>5. \A j, k \in 1 .. n : fs[j].mod = fs[k].mod => j = k
  BY <1>2 DEF StackOK
<1> QED
  BY <1>1, <1>2, <1>3, <1>4, <1>5 DEF IsStack

\* What has been visited after the stack advances, is pushed on, and is popped.
LEMMA VisitedAdvanced ==
  ASSUME NEW p, NEW fs, NEW fs2, NEW n, IsStack(p, fs, n), Advanced(fs, fs2, n), NEW m, NEW i \in Nat
  PROVE  Visited(fs2, m, i) <=> Visited(fs, m, i) \/ (m = fs[n].mod /\ i = fs[n].next)
<1>1. n \in Nat \ {0} /\ n = Len(fs) /\ n = Len(fs2) /\ n \in 1 .. n
  BY DEF IsStack, Advanced
<1>2. \A k \in 1 .. n : fs[k].next \in Nat /\ fs2[k].mod = fs[k].mod /\ (k = n \/ k \in 1 .. n - 1)
  BY <1>1 DEF IsStack, Advanced
<1>3. \A j, k \in 1 .. n : fs[j].mod = fs[k].mod => j = k
  BY DEF IsStack
<1>4. (\A k \in 1 .. n - 1 : fs2[k].next = fs[k].next) /\ fs2[n].next = fs[n].next + 1
  BY DEF Advanced
<1>5. ASSUME Visited(fs, m, i) PROVE Visited(fs2, m, i)
  <2> SUFFICES ASSUME NEW k \in 1 .. n, fs2[k].mod = m PROVE i < fs2[k].next
    BY <1>1 DEF Visited
  <2>1. i < fs[k].next /\ fs[k].next \in Nat
    BY <1>1, <1>2, <1>5 DEF Visited
  <2>2. fs2[k].next = fs[k].next \/ fs2[k].next = fs[k].next + 1
    BY <1>2, <1>4
  <2> QED
    BY <2>1, <2>2
<1>6. ASSUME m = fs[n].mod, i = fs[n].next PROVE Visited(fs2, m, i)
  <2> SUFFICES ASSUME NEW k \in 1 .. n, fs2[k].mod = m PROVE i < fs2[k].next
    BY <1>1 DEF Visited
  <2>1. k = n
    BY <1>1, <1>2, <1>3, <1>6
  <2> QED
    BY <1>2, <1>4, <1>6, <2>1
<1>7. ASSUME Visited(fs2, m, i), ~ (m = fs[n].mod /\ i = fs[n].next) PROVE Visited(fs, m, i)
  <2> SUFFICES ASSUME NEW k \in 1 .. n, fs[k].mod = m PROVE i < fs[k].next
    BY <1>1 DEF Visited
  <2>1. i < fs2[k].next
    BY <1>1, <1>2, <1>7 DEF Visited
  <2>2. CASE k = n
    BY <1>2, <1>4, <1>7, <2>1, <2>2
  <2>3. CASE k # n
    BY <1>2, <1>4, <2>1, <2>3
  <2> QED
    BY <2>2, <2>3
<1> QED
  BY <1>5, <1>6, <1>7

LEMMA VisitedPushed ==
  ASSUME NEW p, NEW fs, NEW fs3, NEW n, IsStack(p, fs, n), NEW child, Pushed(fs, fs3, n, child),
         NEW m, NEW i \in Nat \ {0}
  PROVE  Visited(fs3, m, i) <=> m # child /\ (Visited(fs, m, i) \/ (m = fs[n].mod /\ i = fs[n].next))
<1>1. n \in Nat \ {0} /\ i \in Nat
  BY DEF IsStack
<1>2. \A k : k \in 1 .. n + 1 <=> k = n + 1 \/ k \in 1 .. n
  BY <1>1
<1> DEFINE fs2 == [k \in 1 .. n |-> fs3[k]]
<1>3. Len(fs2) = n
  BY <1>1
<1>4. Advanced(fs, fs2, n)
  BY <1>1, <1>3 DEF Advanced, Pushed
<1>5. /\ Len(fs3) = n + 1 /\ fs3[n + 1].mod = child /\ fs3[n + 1].next = 1 /\ ~ (i < 1)
      /\ \A k \in 1 .. n : fs2[k] = fs3[k]
  BY <1>1 DEF Pushed
<1> HIDE DEF fs2
<1>6. Visited(fs3, m, i) <=> m # child /\ Visited(fs2, m, i)
  BY <1>2, <1>3, <1>5 DEF Visited
<1>7. \A j \in Nat : Visited(fs2, m, j) <=> Visited(fs, m, j) \/ (m = fs[n].mod /\ j = fs[n].next)
  BY <1>4, VisitedAdvanced
<1>8. Visited(fs2, m, i) <=> Visited(fs, m, i) \/ (m = fs[n].mod /\ i = fs[n].next)
  BY <1>1, <1>7
<1> QED
  BY <1>6, <1>8

LEMMA VisitedPopped ==
  ASSUME NEW p, NEW fs, NEW n, IsStack(p, fs, n), NEW m, NEW i
  PROVE  Visited(Front(fs), m, i) <=> m = fs[n].mod \/ Visited(fs, m, i)
<1>1. n \in Nat \ {0} /\ n = Len(fs) /\ n \notin 1 .. n - 1 /\ fs \in Seq(Frame(p))
  BY DEF IsStack
<1>2. Len(Front(fs)) = n - 1 /\ \A k \in 1 .. n - 1 : Front(fs)[k] = fs[k]
  BY <1>1 DEF Front
<1>3. \A k : k \in 1 .. n <=> k = n \/ k \in 1 .. n - 1
  BY <1>1
<1>4. \A j, k \in 1 .. n : fs[j].mod = fs[k].mod => j = k
  BY DEF IsStack
<1> QED
  BY <1>1, <1>2, <1>3, <1>4 DEF Visited

LEMMA NotVisited ==
  ASSUME NEW p, NEW fs, NEW n, IsStack(p, fs, n)
  PROVE  ~ Visited(fs, fs[n].mod, fs[n].next)
<1>1. n \in 1 .. n /\ n = Len(fs) /\ fs[n].next \in Nat
  BY DEF IsStack
<1> QED
  BY <1>1 DEF Visited

LEMMA AttrIndex ==
  ASSUME NEW p \in Programs, NEW m \in Mods(p)
  PROVE  /\ Len(AttrsOf(p, m)) \in Nat
         /\ DOMAIN AttrsOf(p, m) = 1 .. Len(AttrsOf(p, m))
         /\ \A i \in DOMAIN AttrsOf(p, m) :
              /\ i \in Nat \ {0}
              /\ AttrsOf(p, m)[i].name \in AttrNames(p)
              /\ \A j \in DOMAIN AttrsOf(p, m) : AttrsOf(p, m)[i].name = AttrsOf(p, m)[j].name => i = j
              /\ IsModuleType(p, AttrsOf(p, m)[i].type) => p.slots[m][i] \in Mods(p)
<1>1. AttrsOf(p, m) \in Seq(ToSet(AttrsOf(p, m)))
  BY AttrsAreSeq
<1>2. Len(AttrsOf(p, m)) \in Nat /\ DOMAIN AttrsOf(p, m) = 1 .. Len(AttrsOf(p, m))
  BY <1>1, LenProperties
<1>3. IsClassType(p, p.classOf[m])
  BY ProgramsWellFormed
<1>4. \A i, j \in DOMAIN AttrsOf(p, m) : AttrsOf(p, m)[i].name = AttrsOf(p, m)[j].name => i = j
  BY <1>3 DEF IsClassType, AttrsOf
<1>5. \A i \in DOMAIN AttrsOf(p, m) : IsModuleType(p, AttrsOf(p, m)[i].type) => p.slots[m][i] \in Mods(p)
  BY ProgramsWellFormed
<1>6. \A i \in DOMAIN AttrsOf(p, m) : AttrsOf(p, m)[i].name \in AttrNames(p)
  BY DEF AttrNames
<1> QED
  BY <1>2, <1>4, <1>5, <1>6

\* The instance seen first is not seen on another path: the path is new.
LEMMA NewPath ==
  ASSUME NEW p \in Programs, NEW fs, NEW seen, SeenOK(p, fs, seen), NEW t \in DOMAIN seen,
         NEW x \in DOMAIN AttrsOf(p, t), ~ Visited(fs, t, x), NEW c \in DOMAIN seen
  PROVE  seen[c] # Append(seen[t], AttrsOf(p, t)[x].name)
<1> SUFFICES ASSUME seen[c] = Append(seen[t], AttrsOf(p, t)[x].name) PROVE FALSE
  OBVIOUS
<1>1. /\ \A d \in DOMAIN seen : d \in Mods(p) /\ seen[d] \in Seq(AttrNames(p))
      /\ \A d, e \in DOMAIN seen : seen[d] = seen[e] => d = e
  BY DEF SeenOK
<1>2. PICK a \in AttrNames(p) : a = AttrsOf(p, t)[x].name
  BY <1>1, AttrIndex
<1>3. seen[c] # <<>>
  <2>1. seen[t] \in Seq(AttrNames(p))
    BY <1>1
  <2> QED
    BY <1>2, <2>1
<1>4. PICK m \in DOMAIN seen : \E i \in DOMAIN AttrsOf(p, m) : Leads(p, fs, seen, m, i, c)
  BY <1>3 DEF SeenOK
<1>5. PICK i \in DOMAIN AttrsOf(p, m) : Leads(p, fs, seen, m, i, c)
  BY <1>4
<1>6. PICK b \in AttrNames(p) : b = AttrsOf(p, m)[i].name
  BY <1>1, AttrIndex
<1>7. Append(seen[m], b) = Append(seen[t], a) /\ Visited(fs, m, i)
  BY <1>2, <1>5, <1>6 DEF Leads
<1>8. seen[m] = seen[t] /\ b = a
  <2>1. seen[m] \in Seq(AttrNames(p)) /\ seen[t] \in Seq(AttrNames(p))
    BY <1>1
  <2>2. PICK S : S = AttrNames(p)
    OBVIOUS
  <2>3. PICK u \in Seq(S) : u = seen[m]
    BY <2>1, <2>2
  <2>4. PICK v \in Seq(S) : v = seen[t]
    BY <2>1, <2>2
  <2>5. a \in S /\ b \in S /\ Append(u, b) = Append(v, a)
    BY <1>7, <2>2, <2>3, <2>4
  <2>6. u = v /\ b = a
    BY <2>5, AppendIsOne, SMTT(20)
  <2> QED
    BY <2>3, <2>4, <2>6
<1>9. m = t
  BY <1>1, <1>8
<1>10. i = x
  <2>1. t \in Mods(p)
    BY <1>1
  <2>2. i \in DOMAIN AttrsOf(p, t) /\ AttrsOf(p, t)[i].name = AttrsOf(p, t)[x].name
    BY <1>2, <1>6, <1>8, <1>9
  <2> QED
    BY <2>1, <2>2, AttrIndex
<1> QED
  BY <1>7, <1>9, <1>10

\* An instance is seen that has not been before.
Saw(seen, seen2, child, path) ==
  /\ DOMAIN seen2 = DOMAIN seen \cup {child} /\ child \notin DOMAIN seen
  /\ seen2[child] = path
  /\ \A c \in DOMAIN seen : seen2[c] = seen[c]

\* Slot x of the innermost instance t holds the instance child.
Enters(p, fs, n, t, x, child) ==
  /\ t = fs[n].mod /\ x = fs[n].next
  /\ t \in Mods(p) /\ child \in Mods(p)
  /\ x \in DOMAIN AttrsOf(p, t)
  /\ IsModuleType(p, AttrsOf(p, t)[x].type)
  /\ p.slots[t][x] = child

\* The parts of the invariant when an instance is entered.
LEMMA SeenPushed ==
  ASSUME NEW p \in Programs, NEW fs, NEW fs3, NEW seen, NEW seen2, NEW n, NEW t, NEW x, NEW child,
         IsStack(p, fs, n), SeenOK(p, fs, seen), t \in DOMAIN seen, Enters(p, fs, n, t, x, child),
         Saw(seen, seen2, child, Append(seen[t], AttrsOf(p, t)[x].name)), Pushed(fs, fs3, n, child)
  PROVE  SeenOK(p, fs3, seen2)
<1>1. /\ \A c \in DOMAIN seen : c \in Mods(p) /\ seen[c] \in Seq(AttrNames(p))
      /\ \A c, d \in DOMAIN seen : seen[c] = seen[d] => c = d
  BY DEF SeenOK
<1>2. /\ DOMAIN seen2 = DOMAIN seen \cup {child} /\ child \notin DOMAIN seen
      /\ \A c \in DOMAIN seen : seen2[c] = seen[c]
  BY DEF Saw
<1>3. x \in DOMAIN AttrsOf(p, t) /\ t \in Mods(p) /\ child \in Mods(p) /\ x = fs[n].next /\ t = fs[n].mod
  BY DEF Enters
<1>4. PICK path : path = seen2[child]
  OBVIOUS
<1>5. path = Append(seen[t], AttrsOf(p, t)[x].name)
  BY <1>4 DEF Saw
<1>6. path \in Seq(AttrNames(p))
  <2>1. AttrsOf(p, t)[x].name \in AttrNames(p) /\ seen[t] \in Seq(AttrNames(p))
    BY <1>1, <1>3, AttrIndex
  <2> QED
    BY <1>5, <2>1
<1>7. \A c \in DOMAIN seen : seen[c] # path
  <2>1. ~ Visited(fs, t, x)
    BY <1>3, NotVisited
  <2> QED
    BY <1>3, <1>5, <2>1, NewPath, Zenon
<1>8. \A c, d \in DOMAIN seen2 : seen2[c] = seen2[d] => c = d
  BY <1>1, <1>2, <1>4, <1>7
<1>9. \A c \in DOMAIN seen2 : c \in Mods(p) /\ seen2[c] \in Seq(AttrNames(p))
  BY <1>1, <1>2, <1>3, <1>4, <1>6
<1>10. ASSUME NEW m \in DOMAIN seen, NEW i \in DOMAIN AttrsOf(p, m), Visited(fs, m, i) \/ (m = t /\ i = x)
       PROVE  Visited(fs3, m, i)
  <2>1. i \in Nat \ {0} /\ m # child
    BY <1>1, <1>2, AttrIndex
  <2>2. Visited(fs3, m, i) <=> m # child /\ (Visited(fs, m, i) \/ (m = fs[n].mod /\ i = fs[n].next))
    BY <2>1, VisitedPushed
  <2> QED
    BY <1>3, <1>10, <2>1, <2>2, Zenon
<1>11. ASSUME NEW c \in DOMAIN seen2
       PROVE  seen2[c] = <<>> \/ \E m \in DOMAIN seen2 : \E i \in DOMAIN AttrsOf(p, m) : Leads(p, fs3, seen2, m, i, c)
  <2>1. CASE c = child
    <3>1. Visited(fs3, t, x)
      BY <1>3, <1>10
    <3>2. Leads(p, fs3, seen2, t, x, c)
      BY <1>2, <1>4, <1>5, <2>1, <3>1 DEF Leads, Enters
    <3> QED
      BY <1>2, <1>3, <3>2
  <2>2. CASE c \in DOMAIN seen /\ seen[c] # <<>>
    <3>1. PICK m \in DOMAIN seen : \E i \in DOMAIN AttrsOf(p, m) : Leads(p, fs, seen, m, i, c)
      BY <2>2 DEF SeenOK
    <3>2. PICK i \in DOMAIN AttrsOf(p, m) : Leads(p, fs, seen, m, i, c)
      BY <3>1
    <3>3. Visited(fs3, m, i)
      BY <1>10, <3>2 DEF Leads
    <3>4. Leads(p, fs3, seen2, m, i, c)
      BY <1>2, <2>2, <3>2, <3>3 DEF Leads
    <3> QED
      BY <1>2, <3>4
  <2> QED
    BY <1>2, <2>1, <2>2
<1> QED
  BY <1>8, <1>9, <1>11 DEF SeenOK

LEMMA StackPushed ==
  ASSUME NEW p \in Programs, NEW fs, NEW fs3 \in Seq(Frame(p)), NEW seen, NEW seen2, NEW n, NEW t, NEW x, NEW child,
         IsStack(p, fs, n), StackOK(p, fs, seen), Enters(p, fs, n, t, x, child),
         Saw(seen, seen2, child, Append(seen[t], AttrsOf(p, t)[x].name)), Pushed(fs, fs3, n, child)
  PROVE  StackOK(p, fs3, seen2)
<1>1. n \in Nat \ {0} /\ n = Len(fs) /\ n \in 1 .. n
  BY DEF IsStack
<1>2. \A k : k \in 1 .. n + 1 <=> k = n + 1 \/ k \in 1 .. n
  BY <1>1
<1>3. \A k : k \in 1 .. n => k = n \/ (k \in 1 .. n - 1 /\ k + 1 \in 1 .. n)
  BY <1>1
<1>4. \A k \in 1 .. n : fs[k].mod \in DOMAIN seen
  BY <1>1 DEF StackOK
<1>5. /\ DOMAIN seen2 = DOMAIN seen \cup {child} /\ child \notin DOMAIN seen
      /\ \A c \in DOMAIN seen : seen2[c] = seen[c]
      /\ seen2[child] = Append(seen[t], AttrsOf(p, t)[x].name)
  BY DEF Saw
<1>6. Len(fs3) = n + 1 /\ fs3[n + 1].mod = child /\ \A k \in 1 .. n : fs3[k].mod = fs[k].mod
  BY DEF Pushed
<1>7. \A k \in 1 .. n + 1 : fs3[k].mod \in DOMAIN seen2
  BY <1>2, <1>4, <1>5, <1>6
<1>8. \A j, k \in 1 .. n + 1 : fs3[j].mod = fs3[k].mod => j = k
  <2>1. \A j, k \in 1 .. n : fs[j].mod = fs[k].mod => j = k
    BY DEF IsStack
  <2> QED
    BY <1>2, <1>4, <1>5, <1>6, <2>1
<1>9. ASSUME NEW k \in 1 .. n
      PROVE  \E b \in AttrNames(p) : seen2[fs3[k + 1].mod] = Append(seen2[fs3[k].mod], b)
  <2>1. CASE k = n
    <3>1. t \in Mods(p) /\ x \in DOMAIN AttrsOf(p, t) /\ t = fs[n].mod
      BY DEF Enters
    <3>2. PICK b \in AttrNames(p) : b = AttrsOf(p, t)[x].name
      BY <3>1, AttrIndex
    <3>3. fs3[k + 1].mod = child /\ fs3[k].mod = t /\ t \in DOMAIN seen
      BY <1>1, <1>4, <1>6, <2>1, <3>1
    <3>4. seen2[child] = Append(seen[t], b) /\ seen2[t] = seen[t]
      BY <1>5, <3>2, <3>3
    <3> QED
      BY <3>3, <3>4
  <2>2. CASE k # n
    <3>1. k \in 1 .. n - 1 /\ k + 1 \in 1 .. n
      BY <1>3, <2>2
    <3>2. PICK b \in AttrNames(p) : seen[fs[k + 1].mod] = Append(seen[fs[k].mod], b)
      BY <1>1, <3>1 DEF StackOK
    <3>3. /\ fs3[k + 1].mod = fs[k + 1].mod /\ fs[k + 1].mod \in DOMAIN seen
          /\ fs3[k].mod = fs[k].mod /\ fs[k].mod \in DOMAIN seen
      BY <1>4, <1>6, <3>1
    <3>4. seen2[fs[k + 1].mod] = seen[fs[k + 1].mod] /\ seen2[fs[k].mod] = seen[fs[k].mod]
      BY <1>5, <3>3
    <3> QED
      BY <3>2, <3>3, <3>4, Zenon
  <2> QED
    BY <2>1, <2>2
<1>10. Len(fs3) - 1 = n
  BY <1>1, <1>6
<1> QED
  BY <1>6, <1>7, <1>8, <1>9, <1>10 DEF StackOK

LEMMA SlotsPushed ==
  ASSUME NEW p \in Programs, NEW fs, NEW fs3, NEW seen, NEW seen2, NEW slots, NEW n, NEW t, NEW x, NEW child,
         IsStack(p, fs, n), SeenOK(p, fs, seen), VisitedOK(p, fs, seen, slots), t \in DOMAIN seen,
         Enters(p, fs, n, t, x, child),
         Saw(seen, seen2, child, Append(seen[t], AttrsOf(p, t)[x].name)), Pushed(fs, fs3, n, child)
  PROVE  VisitedOK(p, fs3, seen2, slots)
<1>1. \A c \in DOMAIN seen : c \in Mods(p)
  BY DEF SeenOK
<1>2. /\ DOMAIN seen2 = DOMAIN seen \cup {child} /\ child \notin DOMAIN seen
      /\ \A c \in DOMAIN seen : seen2[c] = seen[c]
      /\ seen2[child] = Append(seen[t], AttrsOf(p, t)[x].name)
  BY DEF Saw
<1>3. /\ t \in Mods(p) /\ child \in Mods(p) /\ x = fs[n].next /\ t = fs[n].mod /\ p.slots[t][x] = child
      /\ IsModuleType(p, AttrsOf(p, t)[x].type)
  BY DEF Enters
<1> SUFFICES ASSUME NEW m \in DOMAIN seen2, NEW i \in DOMAIN AttrsOf(p, m), Visited(fs3, m, i)
             PROVE  IF IsModuleType(p, AttrsOf(p, m)[i].type)
                    THEN p.slots[m][i] \in DOMAIN seen2 /\ seen2[p.slots[m][i]] = Append(seen2[m], AttrsOf(p, m)[i].name)
                    ELSE <<m, AttrsOf(p, m)[i].name>> \in DOMAIN slots
  BY DEF VisitedOK
<1>4. i \in Nat \ {0}
  BY <1>1, <1>2, <1>3, AttrIndex
<1>5. m # child /\ (Visited(fs, m, i) \/ (m = t /\ i = x))
  <2>1. Visited(fs3, m, i) <=> m # child /\ (Visited(fs, m, i) \/ (m = fs[n].mod /\ i = fs[n].next))
    BY <1>4, VisitedPushed
  <2> QED
    BY <1>3, <2>1, Zenon
<1>6. CASE m = t /\ i = x
  BY <1>2, <1>3, <1>6
<1>7. CASE Visited(fs, m, i)
  BY <1>2, <1>5, <1>7 DEF VisitedOK
<1> QED
  BY <1>5, <1>6, <1>7

LEMMA FrontIs ==
  ASSUME NEW S, NEW s \in Seq(S), NEW a \in S
  PROVE  Front(Append(s, a)) = s
<1>1. PICK n \in Nat : n = Len(s)
  OBVIOUS
<1>2. PICK r : r = Append(s, a)
  OBVIOUS
<1>3. Len(r) = n + 1 /\ \A k \in 1 .. n : r[k] = s[k]
  BY <1>1, <1>2, AppendElements
<1>4. Front(r) = [k \in 1 .. n |-> r[k]]
  BY <1>1, <1>3 DEF Front
<1>5. Front(r) = [k \in 1 .. n |-> s[k]]
  BY <1>3, <1>4
<1> QED
  BY <1>1, <1>2, <1>5

\* The parts of the invariant when a value slot has been visited.
LEMMA SeenAdvanced ==
  ASSUME NEW p \in Programs, NEW fs, NEW fs2, NEW seen, NEW n,
         IsStack(p, fs, n), SeenOK(p, fs, seen), Advanced(fs, fs2, n)
  PROVE  SeenOK(p, fs2, seen)
<1>1. \A c \in DOMAIN seen : c \in Mods(p)
  BY DEF SeenOK
<1>2. ASSUME NEW m \in DOMAIN seen, NEW i \in DOMAIN AttrsOf(p, m), NEW c, Leads(p, fs, seen, m, i, c)
      PROVE  Leads(p, fs2, seen, m, i, c)
  <2>1. i \in Nat
    BY <1>1, AttrIndex
  <2>2. Visited(fs2, m, i) <=> Visited(fs, m, i) \/ (m = fs[n].mod /\ i = fs[n].next)
    BY <2>1, VisitedAdvanced
  <2> QED
    BY <1>2, <2>2 DEF Leads
<1> QED
  BY <1>2 DEF SeenOK

LEMMA StackAdvanced ==
  ASSUME NEW p, NEW fs, NEW fs2 \in Seq(Frame(p)), NEW seen, NEW n,
         IsStack(p, fs, n), StackOK(p, fs, seen), Advanced(fs, fs2, n)
  PROVE  StackOK(p, fs2, seen)
<1>1. n \in Nat \ {0} /\ n = Len(fs) /\ n = Len(fs2) /\ \A k \in 1 .. n : fs2[k].mod = fs[k].mod
  BY DEF IsStack, Advanced
<1>2. \A k \in 1 .. n - 1 : k \in 1 .. n /\ k + 1 \in 1 .. n
  BY <1>1
<1>3. \A k \in 1 .. n : fs2[k].mod \in DOMAIN seen
  BY <1>1 DEF StackOK
<1>4. \A j, k \in 1 .. n : fs2[j].mod = fs2[k].mod => j = k
  BY <1>1 DEF StackOK
<1>5. \A k \in 1 .. n - 1 : \E a \in AttrNames(p) : seen[fs2[k + 1].mod] = Append(seen[fs2[k].mod], a)
  BY <1>1, <1>2 DEF StackOK
<1> QED
  BY <1>1, <1>3, <1>4, <1>5 DEF StackOK

LEMMA SlotsAdvanced ==
  ASSUME NEW p \in Programs, NEW fs, NEW fs2, NEW seen, NEW slots, NEW slots2, NEW n, NEW t, NEW x,
         IsStack(p, fs, n), SeenOK(p, fs, seen), VisitedOK(p, fs, seen, slots), Advanced(fs, fs2, n),
         t = fs[n].mod, x = fs[n].next, ~ IsModuleType(p, AttrsOf(p, t)[x].type),
         DOMAIN slots2 = DOMAIN slots \cup {<<t, AttrsOf(p, t)[x].name>>}
  PROVE  VisitedOK(p, fs2, seen, slots2)
<1>1. \A c \in DOMAIN seen : c \in Mods(p)
  BY DEF SeenOK
<1> SUFFICES ASSUME NEW m \in DOMAIN seen, NEW i \in DOMAIN AttrsOf(p, m), Visited(fs2, m, i)
             PROVE  IF IsModuleType(p, AttrsOf(p, m)[i].type)
                    THEN p.slots[m][i] \in DOMAIN seen /\ seen[p.slots[m][i]] = Append(seen[m], AttrsOf(p, m)[i].name)
                    ELSE <<m, AttrsOf(p, m)[i].name>> \in DOMAIN slots2
  BY DEF VisitedOK
<1>2. i \in Nat
  BY <1>1, AttrIndex
<1>3. Visited(fs2, m, i) <=> Visited(fs, m, i) \/ (m = fs[n].mod /\ i = fs[n].next)
  BY <1>2, VisitedAdvanced
<1>4. CASE m = t /\ i = x
  BY <1>4
<1>5. CASE Visited(fs, m, i)
  BY <1>5 DEF VisitedOK
<1> QED
  BY <1>3, <1>4, <1>5

\* A frame is left when it has no slot still to visit.
LEMMA VisitedLeft ==
  ASSUME NEW p \in Programs, NEW fs, NEW n, IsStack(p, fs, n), fs[n].next > Len(AttrsOf(p, fs[n].mod)),
         NEW m \in Mods(p), NEW i \in DOMAIN AttrsOf(p, m)
  PROVE  Visited(Front(fs), m, i) <=> Visited(fs, m, i)
<1>1. Visited(Front(fs), m, i) <=> m = fs[n].mod \/ Visited(fs, m, i)
  BY VisitedPopped
<1>2. ASSUME m = fs[n].mod PROVE Visited(fs, m, i)
  <2>1. i \in Nat /\ Len(AttrsOf(p, m)) \in Nat /\ i <= Len(AttrsOf(p, m))
    BY AttrIndex
  <2>2. n = Len(fs) /\ n \in 1 .. n /\ fs[n].next \in Nat /\ \A j, k \in 1 .. n : fs[j].mod = fs[k].mod => j = k
    BY DEF IsStack
  <2>3. i < fs[n].next
    BY <1>2, <2>1, <2>2
  <2> QED
    BY <1>2, <2>2, <2>3 DEF Visited
<1> QED
  BY <1>1, <1>2

LEMMA GraphLeft ==
  ASSUME NEW p \in Programs, NEW fs, NEW n, NEW seen, NEW slots, IsStack(p, fs, n),
         fs[n].next > Len(AttrsOf(p, fs[n].mod)),
         SeenOK(p, fs, seen), VisitedOK(p, fs, seen, slots), StackOK(p, fs, seen)
  PROVE  SeenOK(p, Front(fs), seen) /\ VisitedOK(p, Front(fs), seen, slots) /\ StackOK(p, Front(fs), seen)
<1>1. \A c \in DOMAIN seen : c \in Mods(p)
  BY DEF SeenOK
<1>2. \A m \in DOMAIN seen : \A i \in DOMAIN AttrsOf(p, m) : Visited(Front(fs), m, i) <=> Visited(fs, m, i)
  BY <1>1, VisitedLeft
<1>3. SeenOK(p, Front(fs), seen)
  <2>1. ASSUME NEW m \in DOMAIN seen, NEW i \in DOMAIN AttrsOf(p, m), NEW c, Leads(p, fs, seen, m, i, c)
        PROVE  Leads(p, Front(fs), seen, m, i, c)
    BY <1>2, <2>1 DEF Leads
  <2> QED
    BY <2>1 DEF SeenOK
<1>4. VisitedOK(p, Front(fs), seen, slots)
  BY <1>2 DEF VisitedOK
<1>5. StackOK(p, Front(fs), seen)
  <2>1. n \in Nat \ {0} /\ n = Len(fs) /\ fs \in Seq(Frame(p))
    BY DEF IsStack
  <2>2. Front(fs) \in Seq(Frame(p)) /\ Len(Front(fs)) = n - 1 /\ \A k \in 1 .. n - 1 : Front(fs)[k] = fs[k]
    BY <2>1 DEF Front
  <2>3. \A k \in 1 .. n - 1 : k \in 1 .. n
    BY <2>1
  <2>4. \A k \in 1 .. (n - 1) - 1 : k \in 1 .. n - 1 /\ k + 1 \in 1 .. n - 1
    BY <2>1
  <2>5. \A k \in 1 .. n - 1 : Front(fs)[k].mod \in DOMAIN seen
    BY <2>1, <2>2, <2>3 DEF StackOK
  <2>6. \A j, k \in 1 .. n - 1 : Front(fs)[j].mod = Front(fs)[k].mod => j = k
    BY <2>1, <2>2, <2>3 DEF StackOK
  <2>7. \A k \in 1 .. (n - 1) - 1 : \E a \in AttrNames(p) :
          seen[Front(fs)[k + 1].mod] = Append(seen[Front(fs)[k].mod], a)
    BY <2>1, <2>2, <2>4 DEF StackOK
  <2> QED
    BY <2>2, <2>5, <2>6, <2>7 DEF StackOK
<1> QED
  BY <1>3, <1>4, <1>5

-----------------------------------------------------------------------------
\* The steps of the traversal.

\* The frame on top, and how Advance and the entry of an instance change the stack.
LEMMA TraverseStack ==
  ASSUME TypeOK, GraphInv, pc = "traverse"
  PROVE  \E n : /\ IsStack(prog, frames, n) /\ Top = frames[n]
                /\ Advanced(frames, Advance, n) /\ Advance \in Seq(Frame(prog))
                /\ \A c \in Mods(prog) :
                     LET pushed == Append(Advance, [mod |-> c, next |-> 1])
                     IN Pushed(frames, pushed, n, c) /\ pushed \in Seq(Frame(prog))
<1>1. StackOK(prog, frames, seenNnModules) /\ frames # <<>>
  BY DEF GraphInv
<1>2. PICK n : IsStack(prog, frames, n)
  BY <1>1, StackIs, Zenon
<1>3. n \in Nat \ {0} /\ n = Len(frames) /\ n \in 1 .. n /\ frames \in Seq(Frame(prog)) /\ DOMAIN frames = 1 .. n
  BY <1>2 DEF IsStack
<1>4. Top = frames[n]
  BY <1>3 DEF Top, Last
<1>5. frames[n] \in Frame(prog)
  BY <1>3
<1>6. PICK f : f = [frames[n] EXCEPT !.next = @ + 1]
  OBVIOUS
<1>7. f.mod = frames[n].mod /\ f.next = frames[n].next + 1 /\ f \in Frame(prog)
  BY <1>5, <1>6 DEF Frame
<1>8. Advance = [frames EXCEPT ![n] = f]
  BY <1>3, <1>4, <1>6 DEF Advance, ReplaceAt
<1>9. Advance \in Seq(Frame(prog))
  BY <1>3, <1>7, <1>8, ExceptSeq
<1>10. /\ Len(Advance) = n /\ Advance[n] = f
       /\ \A k \in 1 .. n : k # n => Advance[k] = frames[k]
  BY <1>3, <1>7, <1>8, ExceptSeq
<1>11. \A k \in 1 .. n - 1 : k \in 1 .. n /\ k # n
  BY <1>3
<1>12. Advanced(frames, Advance, n)
  BY <1>7, <1>10, <1>11 DEF Advanced
<1>13. ASSUME NEW c \in Mods(prog), NEW g, g = [mod |-> c, next |-> 1], NEW pushed, pushed = Append(Advance, g)
       PROVE  Pushed(frames, pushed, n, c) /\ pushed \in Seq(Frame(prog))
  <2>1. g \in Frame(prog) /\ g.mod = c /\ g.next = 1
    BY <1>13 DEF Frame
  <2>2. pushed \in Seq(Frame(prog)) /\ Len(pushed) = n + 1 /\ pushed[n + 1] = g
        /\ \A k \in 1 .. n : pushed[k] = Advance[k]
    BY <1>9, <1>10, <1>13, <2>1, AppendElements
  <2> QED
    BY <1>3, <1>7, <1>10, <1>11, <2>1, <2>2 DEF Pushed
<1>14. \A c \in Mods(prog) :
         LET pushed == Append(Advance, [mod |-> c, next |-> 1])
         IN Pushed(frames, pushed, n, c) /\ pushed \in Seq(Frame(prog))
  BY <1>13
<1> QED
  BY <1>2, <1>4, <1>9, <1>12, <1>14

\* The slot being visited is one of its instance's.
LEMMA TraverseAttr ==
  ASSUME TypeOK, pc = "traverse", Top.next <= Len(AttrsOf(prog, Top.mod))
  PROVE  Top.mod \in Mods(prog) /\ Top.next \in DOMAIN AttrsOf(prog, Top.mod)
<1>1. prog \in Programs /\ Top.mod \in Mods(prog) /\ Top.next \in Nat \ {0}
  BY TopFrame DEF TypeOK
<1>2. Len(AttrsOf(prog, Top.mod)) \in Nat /\ DOMAIN AttrsOf(prog, Top.mod) = 1 .. Len(AttrsOf(prog, Top.mod))
  BY <1>1, AttrIndex
<1> QED
  BY <1>1, <1>2

LEMMA GraphInvInit == Init => GraphInv
<1> SUFFICES ASSUME Init PROVE GraphInv
  OBVIOUS
<1>1. pc = "findRoot" /\ frames = <<>> /\ nameStack = <<>>
      /\ DOMAIN slotToGlobalSlot = {} /\ DOMAIN funcLinkageInfo = {}
  BY DEF Init, GraphInit, EmptyMap
<1> QED
  BY <1>1 DEF GraphInv

LEMMA RootIs ==
  ASSUME NEW root \in Mods(prog), {m \in Mods(prog) : ~ HasUses(prog, m)} = {root}
  PROVE  Root = root
BY DEF Root

LEMMA RootFound == TypeOK /\ GraphInv /\ FindRootNnModule => GraphInv'
<1> SUFFICES ASSUME TypeOK, GraphInv, FindRootNnModule PROVE GraphInv'
  OBVIOUS
<1>1. CASE pc' = "error"
  BY <1>1 DEF GraphInv
<1>2. CASE pc' # "error"
  <2>1. PICK root \in Mods(prog) :
          /\ {m \in Mods(prog) : ~ HasUses(prog, m)} = {root}
          /\ frames' = <<[mod |-> root, next |-> 1]>>
          /\ seenNnModules' = Put(EmptyMap, root, <<>>)
          /\ pc' = "traverse"
    BY <1>2 DEF FindRootNnModule, Fail, Goto
  <2>2. /\ nameStack' = <<>> /\ DOMAIN slotToGlobalSlot' = {} /\ DOMAIN funcLinkageInfo' = {}
        /\ prog' = prog /\ prog \in Programs
    BY DEF FindRootNnModule, GraphInv, TypeOK
  <2>3. DOMAIN seenNnModules' = {root} /\ seenNnModules'[root] = <<>>
    BY <2>1 DEF Put, EmptyMap
  <2>4. Root' = root
    BY <2>1, <2>2, RootIs DEF Root
  <2>5. frames' \in Seq(Frame(prog)) /\ Len(frames') = 1 /\ frames'[1].mod = root /\ frames'[1].next = 1 /\ frames' # <<>>
    BY <2>1 DEF Frame
  <2>6. \A m : 1 .. 1 = {1} /\ (m \in 1 .. 1 - 1 => FALSE)
    OBVIOUS
  <2>7. StackOK(prog, frames', seenNnModules')
    BY <2>3, <2>5, <2>6 DEF StackOK
  <2>8. SeenOK(prog, frames', seenNnModules')
    BY <2>3 DEF SeenOK
  <2>9. VisitedOK(prog, frames', seenNnModules', slotToGlobalSlot')
    <3>1. ASSUME NEW i \in DOMAIN AttrsOf(prog, root) PROVE ~ Visited(frames', root, i)
      <4>1. i \in Nat \ {0}
        BY <2>2, AttrIndex
      <4> QED
        BY <2>5, <2>6, <4>1 DEF Visited
    <3> QED
      BY <2>3, <3>1 DEF VisitedOK
  <2>10. SlotsOK(seenNnModules', slotToGlobalSlot') /\ MethodsOK(prog, seenNnModules', funcLinkageInfo')
    BY <2>2 DEF SlotsOK, MethodsOK
  <2>11. Top'.mod = root
    BY <2>5 DEF Top, Last
  <2> QED
    BY <2>1, <2>2, <2>3, <2>4, <2>5, <2>7, <2>8, <2>9, <2>10, <2>11 DEF GraphInv
<1> QED
  BY <1>1, <1>2

LEMMA ModuleSlotVisited == TypeOK /\ GraphInv /\ VisitModuleSlot => GraphInv'
<1> SUFFICES ASSUME TypeOK, GraphInv, VisitModuleSlot PROVE GraphInv'
  OBVIOUS
<1>1. CASE pc' = "error"
  BY <1>1 DEF GraphInv
<1>2. CASE pc' # "error"
  <2> DEFINE t == Top.mod
             x == Top.next
             child == prog.slots[t][x]
             path == Append(seenNnModules[t], AttrsOf(prog, t)[x].name)
  <2>1. pc = "traverse" /\ Top.next <= Len(AttrsOf(prog, Top.mod)) /\ IsModuleType(prog, TopAttr.type)
    BY DEF VisitModuleSlot
  <2>2. prog \in Programs /\ t \in Mods(prog) /\ x \in DOMAIN AttrsOf(prog, t)
    BY <2>1, TraverseAttr DEF TypeOK
  <2>3. IsModuleType(prog, AttrsOf(prog, t)[x].type) /\ child \in Mods(prog)
    BY <2>1, <2>2, AttrIndex DEF TopAttr
  <2>4. PICK n : /\ IsStack(prog, frames, n) /\ Top = frames[n]
                 /\ Pushed(frames, Append(Advance, [mod |-> child, next |-> 1]), n, child)
                 /\ Append(Advance, [mod |-> child, next |-> 1]) \in Seq(Frame(prog))
    BY <2>1, <2>3, TraverseStack
  <2>5. /\ nameStack = seenNnModules[t]
        /\ Root \in DOMAIN seenNnModules /\ seenNnModules[Root] = <<>>
        /\ SeenOK(prog, frames, seenNnModules)
        /\ VisitedOK(prog, frames, seenNnModules, slotToGlobalSlot)
        /\ StackOK(prog, frames, seenNnModules)
        /\ SlotsOK(seenNnModules, slotToGlobalSlot)
        /\ MethodsOK(prog, seenNnModules, funcLinkageInfo)
    BY <2>1 DEF GraphInv
  <2>6. /\ child \notin DOMAIN seenNnModules
        /\ nameStack' = path /\ seenNnModules' = Put(seenNnModules, child, path)
        /\ frames' = Append(Advance, [mod |-> child, next |-> 1])
        /\ UNCHANGED <<pc, prog, slotToGlobalSlot, funcLinkageInfo>>
    BY <1>2, <2>5 DEF VisitModuleSlot, Fail, TopAttr
  <2>7. Saw(seenNnModules, seenNnModules', child, path)
    BY <2>6 DEF Saw, Put
  <2>8. t \in DOMAIN seenNnModules
    <3>1. n = Len(frames) /\ n \in 1 .. n
      BY <2>4 DEF IsStack
    <3> QED
      BY <2>4, <2>5, <3>1 DEF StackOK
  <2>9. Enters(prog, frames, n, t, x, child)
    BY <2>2, <2>3, <2>4 DEF Enters
  <2>10. Pushed(frames, frames', n, child) /\ frames' \in Seq(Frame(prog))
    BY <2>4, <2>6
  <2>11. \A c \in DOMAIN seenNnModules : c \in DOMAIN seenNnModules' /\ seenNnModules'[c] = seenNnModules[c]
    BY <2>7 DEF Saw
  <2>12. Root' = Root
    BY <2>6 DEF Root
  <2> HIDE DEF t, x, child, path
  <2>13. SeenOK(prog, frames', seenNnModules')
    BY <2>2, <2>4, <2>5, <2>7, <2>8, <2>9, <2>10, SeenPushed DEF path
  <2>14. StackOK(prog, frames', seenNnModules')
    BY <2>2, <2>4, <2>5, <2>7, <2>8, <2>9, <2>10, StackPushed DEF path
  <2>15. VisitedOK(prog, frames', seenNnModules', slotToGlobalSlot)
    BY <2>2, <2>4, <2>5, <2>7, <2>8, <2>9, <2>10, SlotsPushed DEF path
  <2>16. SlotsOK(seenNnModules', slotToGlobalSlot)
    BY <2>5, <2>11 DEF SlotsOK
  <2>17. MethodsOK(prog, seenNnModules', funcLinkageInfo)
    BY <2>5, <2>11 DEF MethodsOK
  <2>18. frames' # <<>> /\ Top'.mod = child /\ seenNnModules'[child] = path
    <3>1. n \in Nat
      BY <2>4 DEF IsStack
    <3>2. Len(frames') = n + 1 /\ frames'[n + 1].mod = child
      BY <2>10 DEF Pushed
    <3> QED
      BY <2>7, <3>1, <3>2 DEF Top, Last, Saw
  <2> QED
    BY <2>1, <2>5, <2>6, <2>11, <2>12, <2>13, <2>14, <2>15, <2>16, <2>17, <2>18 DEF GraphInv
<1> QED
  BY <1>1, <1>2

LEMMA ValueSlotVisited == TypeOK /\ GraphInv /\ VisitValueSlot => GraphInv'
<1> SUFFICES ASSUME TypeOK, GraphInv, VisitValueSlot PROVE GraphInv'
  OBVIOUS
<1>1. CASE pc' = "error"
  BY <1>1 DEF GraphInv
<1>2. CASE pc' # "error"
  <2> DEFINE t == Top.mod
             x == Top.next
             slot == <<t, AttrsOf(prog, t)[x].name>>
  <2>1. pc = "traverse" /\ Top.next <= Len(AttrsOf(prog, Top.mod)) /\ ~ IsModuleType(prog, TopAttr.type)
    BY DEF VisitValueSlot
  <2>2. prog \in Programs /\ t \in Mods(prog) /\ x \in DOMAIN AttrsOf(prog, t)
        /\ ~ IsModuleType(prog, AttrsOf(prog, t)[x].type)
    BY <2>1, TraverseAttr DEF TypeOK, TopAttr
  <2>3. PICK n : /\ IsStack(prog, frames, n) /\ Top = frames[n]
                 /\ Advanced(frames, Advance, n) /\ Advance \in Seq(Frame(prog))
    BY <2>1, TraverseStack
  <2>4. /\ nameStack = seenNnModules[t]
        /\ Root \in DOMAIN seenNnModules /\ seenNnModules[Root] = <<>>
        /\ SeenOK(prog, frames, seenNnModules)
        /\ VisitedOK(prog, frames, seenNnModules, slotToGlobalSlot)
        /\ StackOK(prog, frames, seenNnModules)
        /\ SlotsOK(seenNnModules, slotToGlobalSlot)
        /\ MethodsOK(prog, seenNnModules, funcLinkageInfo)
    BY <2>1 DEF GraphInv
  <2>5. /\ DOMAIN slotToGlobalSlot' = DOMAIN slotToGlobalSlot \cup {slot}
        /\ slotToGlobalSlot'[slot].name = Append(seenNnModules[t], AttrsOf(prog, t)[x].name)
        /\ \A s \in DOMAIN slotToGlobalSlot : s # slot => slotToGlobalSlot'[s] = slotToGlobalSlot[s]
    BY <2>4 DEF VisitValueSlot, Put, TopAttr
  <2>6. frames' = Advance /\ UNCHANGED <<pc, prog, nameStack, seenNnModules, funcLinkageInfo>>
    BY <1>2 DEF VisitValueSlot, Fail
  <2>7. n = Len(frames) /\ n = Len(Advance) /\ n \in 1 .. n /\ Advance # <<>> /\ Advance[n].mod = t
    BY <2>3 DEF IsStack, Advanced
  <2>8. t \in DOMAIN seenNnModules
    BY <2>3, <2>4, <2>7 DEF StackOK
  <2>9. SeenOK(prog, Advance, seenNnModules)
    BY <2>2, <2>3, <2>4, SeenAdvanced
  <2>10. StackOK(prog, Advance, seenNnModules)
    BY <2>2, <2>3, <2>4, StackAdvanced
  <2>11. VisitedOK(prog, Advance, seenNnModules, slotToGlobalSlot')
    BY <2>2, <2>3, <2>4, <2>5, SlotsAdvanced
  <2>12. SlotsOK(seenNnModules, slotToGlobalSlot')
    <3> SUFFICES ASSUME NEW s \in DOMAIN slotToGlobalSlot'
                 PROVE  /\ s = <<s[1], s[2]>> /\ s[1] \in DOMAIN seenNnModules
                        /\ slotToGlobalSlot'[s].name = Append(seenNnModules[s[1]], s[2])
      BY DEF SlotsOK
    <3>1. CASE s = slot
      BY <2>5, <2>8, <3>1
    <3>2. CASE s # slot
      BY <2>4, <2>5, <3>2 DEF SlotsOK
    <3> QED
      BY <3>1, <3>2
  <2>13. Root' = Root /\ Top'.mod = t
    BY <2>6, <2>7 DEF Root, Top, Last
  <2> HIDE DEF t, x, slot
  <2> QED
    BY <2>1, <2>4, <2>6, <2>7, <2>9, <2>10, <2>11, <2>12, <2>13 DEF GraphInv
<1> QED
  BY <1>1, <1>2

\* A set of indices has a greatest one.
LEMMA GreatestIndex ==
  ASSUME NEW n \in Nat, NEW T \in SUBSET (1 .. n), T # {}
  PROVE  \E k \in T : \A j \in T : j <= k
<1> DEFINE U == {m \in Nat : \A j \in T : j <= m}
<1>1. U \in SUBSET Nat /\ n \in U
  OBVIOUS
<1> HIDE DEF U
<1>2. PICK m \in U : \A k \in U : m <= k
  BY <1>1, LeastNatural
<1>3. m \in Nat /\ \A j \in T : j <= m
  BY <1>2 DEF U
<1>4. m \in T
  <2> SUFFICES ASSUME m \notin T PROVE FALSE
    OBVIOUS
  <2>1. PICK e \in T : TRUE
    OBVIOUS
  <2>2. m # 0
    BY <1>3, <2>1
  <2>3. m - 1 \in Nat /\ \A j \in T : j <= m - 1
    BY <1>3, <2>2
  <2>4. m - 1 \in U
    BY <2>3 DEF U
  <2> QED
    BY <1>2, <1>3, <2>4
<1> QED
  BY <1>3, <1>4

LEMMA MethodsAreSeq ==
  ASSUME NEW p \in Programs, NEW m \in Mods(p)
  PROVE  /\ Len(MethodsOf(p, m)) \in Nat /\ DOMAIN MethodsOf(p, m) = 1 .. Len(MethodsOf(p, m))
         /\ \A i, j \in DOMAIN MethodsOf(p, m) : MethodsOf(p, m)[i].name = MethodsOf(p, m)[j].name => i = j
<1>1. IsClassType(p, p.classOf[m])
  BY ProgramsWellFormed
<1>2. MethodsOf(p, m) \in Seq(ToSet(MethodsOf(p, m)))
  BY <1>1 DEF IsClassType, MethodsOf
<1>3. \A i, j \in DOMAIN MethodsOf(p, m) : MethodsOf(p, m)[i].name = MethodsOf(p, m)[j].name => i = j
  BY <1>1 DEF IsClassType, MethodsOf
<1> QED
  BY <1>2, <1>3, LenProperties

\* The linkage of a function is that of the last method it is used for.
LEMMA LastMethod ==
  ASSUME NEW p \in Programs, NEW m \in Mods(p), NEW i \in DOMAIN MethodsOf(p, m), NEW f, f = MethodsOf(p, m)[i].func
  PROVE  LET methods == MethodsOf(p, m)
             k == CHOOSE k \in DOMAIN methods :
                    methods[k].func = f /\ \A j \in DOMAIN methods : methods[j].func = f => j <= k
         IN k \in DOMAIN methods /\ methods[k].func = f
<1> DEFINE T == {k \in DOMAIN MethodsOf(p, m) : MethodsOf(p, m)[k].func = f}
<1>1. PICK n \in Nat : n = Len(MethodsOf(p, m)) /\ DOMAIN MethodsOf(p, m) = 1 .. n
  BY MethodsAreSeq
<1>2. T \in SUBSET (1 .. n) /\ T # {}
  BY <1>1
<1>3. PICK k \in T : \A j \in T : j <= k
  BY <1>2, GreatestIndex
<1> QED
  BY <1>3

LEMMA ModuleLeft == TypeOK /\ GraphInv /\ LeaveModule => GraphInv'
<1> SUFFICES ASSUME TypeOK, GraphInv, LeaveModule PROVE GraphInv'
  OBVIOUS
<1> DEFINE t == Top.mod
<1>1. pc = "traverse" /\ Top.next > Len(AttrsOf(prog, Top.mod)) /\ prog \in Programs
  BY DEF LeaveModule, TypeOK
<1>2. PICK n : IsStack(prog, frames, n) /\ Top = frames[n]
  BY <1>1, TraverseStack
<1>3. /\ nameStack = seenNnModules[t]
      /\ Root \in DOMAIN seenNnModules /\ seenNnModules[Root] = <<>>
      /\ SeenOK(prog, frames, seenNnModules)
      /\ VisitedOK(prog, frames, seenNnModules, slotToGlobalSlot)
      /\ StackOK(prog, frames, seenNnModules)
      /\ SlotsOK(seenNnModules, slotToGlobalSlot)
      /\ MethodsOK(prog, seenNnModules, funcLinkageInfo)
  BY <1>1 DEF GraphInv
<1>4. /\ SeenOK(prog, Front(frames), seenNnModules)
      /\ VisitedOK(prog, Front(frames), seenNnModules, slotToGlobalSlot)
      /\ StackOK(prog, Front(frames), seenNnModules)
  BY <1>1, <1>2, <1>3, GraphLeft
<1>5. frames' = Front(frames) /\ UNCHANGED <<prog, seenNnModules, slotToGlobalSlot>>
  BY DEF LeaveModule
<1>6. n \in Nat \ {0} /\ n = Len(frames) /\ frames \in Seq(Frame(prog)) /\ n \in 1 .. n
  BY <1>2 DEF IsStack
<1>7. t \in DOMAIN seenNnModules /\ t \in Mods(prog)
  BY <1>2, <1>3, <1>6 DEF StackOK, SeenOK
<1>8. MethodsOK(prog, seenNnModules, funcLinkageInfo')
  <2> DEFINE methods == MethodsOf(prog, t)
             last(f) == CHOOSE k \in DOMAIN methods :
                          methods[k].func = f /\ \A j \in DOMAIN methods : methods[j].func = f => j <= k
             keys == {<<t, methods[k].func>> : k \in DOMAIN methods}
  <2>1. /\ DOMAIN funcLinkageInfo' = DOMAIN funcLinkageInfo \cup keys
        /\ \A key \in keys : funcLinkageInfo'[key].name = Append(nameStack, methods[last(key[2])].name)
        /\ \A key \in DOMAIN funcLinkageInfo : key \notin keys => funcLinkageInfo'[key] = funcLinkageInfo[key]
    BY DEF LeaveModule
  <2> SUFFICES ASSUME NEW key \in DOMAIN funcLinkageInfo'
               PROVE  /\ key[1] \in DOMAIN seenNnModules
                      /\ \E k \in DOMAIN MethodsOf(prog, key[1]) :
                           /\ MethodsOf(prog, key[1])[k].func = key[2]
                           /\ funcLinkageInfo'[key].name
                                = Append(seenNnModules[key[1]], MethodsOf(prog, key[1])[k].name)
    BY DEF MethodsOK
  <2>2. CASE key \in keys
    <3>1. PICK i \in DOMAIN methods : key = <<t, methods[i].func>>
      BY <2>2
    <3>2. last(key[2]) \in DOMAIN methods /\ methods[last(key[2])].func = key[2]
      BY <1>1, <1>7, <3>1, LastMethod
    <3> HIDE DEF last
    <3> QED
      BY <1>3, <1>7, <2>1, <2>2, <3>1, <3>2
  <2>3. CASE key \notin keys
    BY <1>3, <2>1, <2>3 DEF MethodsOK
  <2> QED
    BY <2>2, <2>3
<1>9. Root' = Root
  BY <1>5 DEF Root
<1>10. CASE n = 1
  <2>1. frames' = <<>>
    BY <1>5, <1>6, <1>10 DEF Front
  <2>2. pc' = "verifyFuncs"
    BY <1>6, <1>10 DEF LeaveModule, Goto
  <2> QED
    BY <1>3, <1>4, <1>5, <1>8, <1>9, <2>1, <2>2 DEF GraphInv
<1>11. CASE n # 1
  <2>1. pc' = pc /\ nameStack' = Front(nameStack)
    BY <1>6, <1>11 DEF LeaveModule
  <2>2. n - 1 \in 1 .. Len(frames) - 1 /\ n - 1 \in 1 .. Len(frames) /\ (n - 1) + 1 = n
    BY <1>6, <1>11
  <2>3. Len(Front(frames)) = n - 1 /\ Front(frames)[n - 1] = frames[n - 1]
    BY <1>6, <1>11 DEF Front
  <2>4. Front(frames) # <<>> /\ Top' = frames[n - 1]
    BY <1>5, <1>6, <1>11, <2>3 DEF Top, Last
  <2>5. PICK a \in AttrNames(prog) : seenNnModules[t] = Append(seenNnModules[frames[n - 1].mod], a)
    BY <1>2, <1>3, <2>2 DEF StackOK
  <2>6. seenNnModules[frames[n - 1].mod] \in Seq(AttrNames(prog))
    BY <1>3, <2>2 DEF StackOK, SeenOK
  <2>7. Front(Append(seenNnModules[frames[n - 1].mod], a)) = seenNnModules[frames[n - 1].mod]
    BY <2>6, FrontIs
  <2> QED
    BY <1>1, <1>3, <1>4, <1>5, <1>8, <1>9, <2>1, <2>4, <2>5, <2>7 DEF GraphInv
<1> QED
  BY <1>10, <1>11

\* The steps of the other phases leave the graph alone.
LEMMA GraphUnchanged ==
  ASSUME GraphInv, UNCHANGED <<prog, graphVars>>, pc # "error" => pc \notin {"findRoot", "traverse"},
         pc' \notin {"findRoot", "traverse"}, pc = "error" => pc' = "error"
  PROVE  GraphInv'
<1>1. Root' = Root
  BY DEF Root
<1>2. UNCHANGED <<prog, frames, nameStack, seenNnModules, slotToGlobalSlot, funcLinkageInfo>>
  BY DEF graphVars
<1> QED
  BY <1>1, <1>2 DEF GraphInv

LEMMA GraphInvNext == TypeOK /\ GraphInv /\ [Next]_vars => GraphInv'
<1> SUFFICES ASSUME TypeOK, GraphInv, [Next]_vars PROVE GraphInv'
  OBVIOUS
<1>1. CASE GraphNext
  BY <1>1, RootFound, ModuleSlotVisited, ValueSlotVisited, ModuleLeft DEF GraphNext
<1>2. CASE MonoNext /\ UNCHANGED <<graphVars, newFuncs, nextClone, uniquifier, rewritten>>
  <2>1. UNCHANGED prog /\ pc \in {"initialize", "monomorphize", "generate"}
        /\ pc' \in {"initialize", "monomorphize", "generate", "verifyPublic", "assert"}
    BY <1>2 DEF MonoNext, InitializeFunc, InitializeDone, PopDirty, VisitOp, FinishMonomorphization,
                WorklistDone, Abort, Goto
  <2> QED
    BY <1>2, <2>1, GraphUnchanged
<1>3. CASE VerifyFuncsConformToSubset \/ VerifyPublicMonomorphizations \/ CloneFunc \/ AllCloned \/ CleanUpObjectGraph
  <2>1. /\ UNCHANGED <<prog, graphVars>> /\ pc \in {"verifyFuncs", "verifyPublic", "clone", "rewrite"}
        /\ pc' \in {"initialize", "error", "clone", "rewrite", "done"}
    BY <1>3 DEF VerifyFuncsConformToSubset, VerifyPublicMonomorphizations, CloneFunc, AllCloned,
                CleanUpObjectGraph, Fail, Goto
  <2> QED
    BY <2>1, GraphUnchanged
<1>4. CASE \E m \in DOMAIN newFuncs : RewriteMonomorphizedFuncClone(m)
  <2>1. UNCHANGED <<prog, graphVars>> /\ pc = "rewrite" /\ pc' \in {"rewrite", "assert"}
    BY <1>4 DEF RewriteMonomorphizedFuncClone, Abort
  <2> QED
    BY <2>1, GraphUnchanged
<1>5. CASE UNCHANGED vars
  <2>1. Root' = Root
    BY <1>5 DEF Root, vars
  <2> QED
    BY <1>5, <2>1 DEF GraphInv, vars, graphVars, Top
<1> QED
  BY <1>1, <1>2, <1>3, <1>4, <1>5 DEF Next, PassNext, Return

-----------------------------------------------------------------------------
\* The path of an instance leads to it.

\* The instances on the path to c, from the root on.
IsWalk(p, path, W, root, c) ==
  /\ DOMAIN W = 0 .. Len(path) /\ W[0] = root /\ W[Len(path)] = c
  /\ \A k \in 1 .. Len(path) : W[k] = SlotValue(p, W[k - 1], path[k])

LEMMA SlotValueIs ==
  ASSUME NEW p \in Programs, NEW m \in Mods(p), NEW i \in DOMAIN AttrsOf(p, m)
  PROVE  SlotValue(p, m, AttrsOf(p, m)[i].name) = p.slots[m][i]
<1>1. SlotIndex(p, m, AttrsOf(p, m)[i].name) = i
  BY AttrIndex DEF SlotIndex
<1> QED
  BY <1>1 DEF SlotValue

\* A walk goes on through a slot.
LEMMA WalkExtends ==
  ASSUME NEW p, NEW S, NEW path \in Seq(S), NEW a \in S, NEW W, NEW root, NEW m, NEW c,
         IsWalk(p, path, W, root, m), SlotValue(p, m, a) = c
  PROVE  \E V : IsWalk(p, Append(path, a), V, root, c)
<1>1. PICK n \in Nat : n = Len(path)
  OBVIOUS
<1>2. PICK r : r = Append(path, a)
  OBVIOUS
<1>3. Len(r) = n + 1 /\ r[n + 1] = a /\ \A k \in 1 .. n : r[k] = path[k]
  BY <1>1, <1>2, AppendElements
<1> DEFINE V == [k \in 0 .. n + 1 |-> IF k = n + 1 THEN c ELSE W[k]]
<1>4. DOMAIN V = 0 .. n + 1 /\ V[n + 1] = c /\ \A k \in 0 .. n : V[k] = W[k]
  BY <1>1
<1> HIDE DEF V
<1>5. W[0] = root /\ W[n] = m /\ \A k \in 1 .. n : W[k] = SlotValue(p, W[k - 1], path[k])
  BY <1>1 DEF IsWalk
<1>6. \A k \in 1 .. n + 1 : k = n + 1 \/ (k \in 1 .. n /\ k \in 0 .. n /\ k - 1 \in 0 .. n)
  BY <1>1
<1>7. 0 \in 0 .. n /\ n \in 0 .. n /\ (n + 1) - 1 = n
  BY <1>1
<1>8. ASSUME NEW k \in 1 .. n + 1 PROVE V[k] = SlotValue(p, V[k - 1], r[k])
  <2>1. CASE k = n + 1
    BY <1>3, <1>4, <1>5, <1>7, <2>1
  <2>2. CASE k # n + 1
    BY <1>3, <1>4, <1>5, <1>6, <2>2
  <2> QED
    BY <2>1, <2>2
<1>9. IsWalk(p, r, V, root, c)
  BY <1>3, <1>4, <1>5, <1>7, <1>8 DEF IsWalk
<1> QED
  BY <1>2, <1>9

\* Every instance that has been seen has a walk along its path.
LEMMA WalkExists ==
  ASSUME NEW p \in Programs, NEW fs, NEW seen, SeenOK(p, fs, seen), NEW root \in DOMAIN seen, seen[root] = <<>>
  PROVE  \A c \in DOMAIN seen : \E W : IsWalk(p, seen[c], W, root, c)
<1>1. /\ \A c \in DOMAIN seen : c \in Mods(p) /\ seen[c] \in Seq(AttrNames(p))
      /\ \A c, d \in DOMAIN seen : seen[c] = seen[d] => c = d
  BY DEF SeenOK
<1> DEFINE S == {n \in Nat : \A c \in DOMAIN seen : Len(seen[c]) = n => \E W : IsWalk(p, seen[c], W, root, c)}
<1>2. 0 \in S
  <2> SUFFICES ASSUME NEW c \in DOMAIN seen, Len(seen[c]) = 0 PROVE \E W : IsWalk(p, seen[c], W, root, c)
    OBVIOUS
  <2>1. seen[c] = <<>>
    BY <1>1, EmptySeq
  <2>2. c = root
    BY <1>1, <2>1
  <2>3. IsWalk(p, seen[c], [k \in 0 .. 0 |-> root], root, c)
    BY <2>1, <2>2 DEF IsWalk
  <2> QED
    BY <2>3
<1>3. ASSUME NEW n \in Nat, n \in S PROVE n + 1 \in S
  <2> SUFFICES ASSUME NEW c \in DOMAIN seen, Len(seen[c]) = n + 1 PROVE \E W : IsWalk(p, seen[c], W, root, c)
    BY DEF S
  <2>1. seen[c] # <<>>
    <3>1. Len(seen[c]) # 0
      OBVIOUS
    <3> QED
      BY <3>1
  <2>2. PICK m \in DOMAIN seen : \E i \in DOMAIN AttrsOf(p, m) : Leads(p, fs, seen, m, i, c)
    BY <2>1 DEF SeenOK
  <2>3. PICK i \in DOMAIN AttrsOf(p, m) : Leads(p, fs, seen, m, i, c)
    BY <2>2
  <2>4. PICK a \in AttrNames(p) : a = AttrsOf(p, m)[i].name
    BY <1>1, AttrIndex
  <2>5. seen[c] = Append(seen[m], a) /\ p.slots[m][i] = c
    BY <2>3, <2>4 DEF Leads
  <2>6. SlotValue(p, m, a) = c
    BY <1>1, <2>4, <2>5, SlotValueIs
  <2>7. Len(seen[m]) = n
    <3>1. seen[m] \in Seq(AttrNames(p)) /\ Len(seen[m]) \in Nat
      BY <1>1
    <3>2. Len(Append(seen[m], a)) = Len(seen[m]) + 1
      BY <3>1
    <3> QED
      BY <2>5, <3>1, <3>2
  <2>8. PICK W : IsWalk(p, seen[m], W, root, m)
    BY <1>3, <2>7
  <2> HIDE DEF S
  <2>9. seen[m] \in Seq(AttrNames(p))
    BY <1>1
  <2> QED
    BY <2>5, <2>6, <2>8, <2>9, WalkExtends
<1> HIDE DEF S
<1>4. Nat \subseteq S
  BY <1>2, <1>3, SetInduction
<1>5. \A c \in DOMAIN seen : Len(seen[c]) \in Nat
  BY <1>1
<1> QED
  BY <1>4, <1>5 DEF S

\* The recursive function of ObjectAt is the walk.
LEMMA ObjectAtWalk ==
  ASSUME NEW S, NEW path \in Seq(S), NEW W, NEW c, IsWalk(prog, path, W, Root, c)
  PROVE  ObjectAt(path) = c
<1>1. PICK n \in Nat : n = Len(path)
  OBVIOUS
<1> DEFINE IsAt(at) == at = [k \in 0 .. n |-> IF k = 0 THEN Root ELSE SlotValue(prog, at[k - 1], path[k])]
           at == CHOOSE at : IsAt(at)
<1>2. DOMAIN W = 0 .. n /\ W[0] = Root /\ W[n] = c /\ \A k \in 1 .. n : W[k] = SlotValue(prog, W[k - 1], path[k])
  BY <1>1 DEF IsWalk
<1>3. \A k \in 0 .. n : k = 0 \/ k \in 1 .. n
  BY <1>1
<1>4. ObjectAt(path) = at[n]
  BY <1>1 DEF ObjectAt
<1>5. IsAt(at)
  <2>1. PICK V : V = [k \in 0 .. n |-> IF k = 0 THEN Root ELSE SlotValue(prog, W[k - 1], path[k])]
    OBVIOUS
  <2>2. \A k \in 0 .. n : V[k] = W[k]
    BY <1>2, <1>3, <2>1
  <2>3. ASSUME NEW k \in 0 .. n, k # 0 PROVE V[k - 1] = W[k - 1]
    <3>1. k - 1 \in 0 .. n
      BY <1>1, <2>3
    <3> QED
      BY <2>2, <3>1
  <2>4. IsAt(V)
    BY <2>1, <2>3
  <2> HIDE DEF IsAt
  <2> QED
    BY <2>4
<1> HIDE DEF at
<1>6. at[0] = Root /\ \A k \in 1 .. n : at[k] = SlotValue(prog, at[k - 1], path[k])
  <2>1. \A k \in 0 .. n : at[k] = IF k = 0 THEN Root ELSE SlotValue(prog, at[k - 1], path[k])
    BY <1>5
  <2>2. 0 \in 0 .. n /\ \A k \in 1 .. n : k \in 0 .. n /\ k # 0
    BY <1>1
  <2> QED
    BY <2>1, <2>2
<1> HIDE DEF IsAt
<1> DEFINE T == {k \in Nat : k <= n => at[k] = W[k]}
<1>7. 0 \in T
  BY <1>2, <1>6
<1>8. ASSUME NEW k \in Nat, k \in T PROVE k + 1 \in T
  <2> SUFFICES ASSUME k + 1 <= n PROVE at[k + 1] = W[k + 1]
    BY DEF T
  <2>1. k + 1 \in 1 .. n /\ (k + 1) - 1 = k /\ k <= n
    BY <1>1
  <2>2. at[k] = W[k]
    BY <1>8, <2>1
  <2> QED
    BY <1>2, <1>6, <2>1, <2>2
<1> HIDE DEF T
<1>9. Nat \subseteq T
  BY <1>7, <1>8, SetInduction
<1> QED
  BY <1>1, <1>2, <1>4, <1>9 DEF T

-----------------------------------------------------------------------------
\* What an initializer holds.

UsedBy(p) == {e \in TopLevelValues(p) \X TopLevelValues(p) : e[2] \in OperandsOf(p, e[1])}

\* NeedToClone is what a value is built from, itself included.
LEMMA NeedToCloneClosure ==
  ASSUME NEW p \in Programs, NEW v \in TopLevelValues(p)
  PROVE  IsClosure(TopLevelValues(p), UsedBy(p), {v}, NeedToClone(p, v))
<1> DEFINE V == TopLevelValues(p)
           More(S) == UNION {OperandsOf(p, w) : w \in S}
           visited == CHOOSE visited : visited = [n \in Nat |->
                        IF n = 0 THEN {v} ELSE visited[n - 1] \cup More(visited[n - 1])]
<1>1. IsFiniteSet(V) /\ \A w \in V : OperandsOf(p, w) \in SUBSET V
  BY ProgramsWellFormed DEF TopLevelValues, OperandsOf
<1>2. \A S \in SUBSET V : More(S) = {x \in V : \E m \in S : <<m, x>> \in UsedBy(p)}
  <2> TAKE S \in SUBSET V
  <2>1. \A m \in S : \A x : <<m, x>> \in UsedBy(p) <=> x \in V /\ x \in OperandsOf(p, m)
    BY DEF UsedBy
  <2>2. \A x : x \in More(S) <=> \E m \in S : x \in OperandsOf(p, m)
    OBVIOUS
  <2> HIDE DEF More, V
  <2> QED
    BY <1>1, <2>1, <2>2
<1>3. \A S \in SUBSET V : More(S) \in SUBSET V
  BY <1>2
<1> HIDE DEF More
<1>4. PICK f \in [Nat -> SUBSET V] : IsSearch(V, UsedBy(p), {v}, f)
  BY SearchExists
<1>5. f = [n \in Nat |-> IF n = 0 THEN {v} ELSE f[n - 1] \cup More(f[n - 1])]
  <2>1. ASSUME NEW n \in Nat, n # 0 PROVE f[n] = f[n - 1] \cup More(f[n - 1])
    <3>1. n - 1 \in Nat /\ (n - 1) + 1 = n /\ f[n - 1] \in SUBSET V
      BY <1>4, <2>1
    <3> QED
      BY <1>2, <1>4, <3>1 DEF IsSearch
  <2> QED
    BY <1>4, <2>1 DEF IsSearch
<1>6. visited = [n \in Nat |-> IF n = 0 THEN {v} ELSE visited[n - 1] \cup More(visited[n - 1])]
  BY <1>5
<1>7. NeedToClone(p, v) = visited[Cardinality(V)]
  BY DEF NeedToClone, More
<1> HIDE DEF visited
<1>8. visited[0] = {v} /\ \A n \in Nat : visited[n + 1] = visited[n] \cup More(visited[n])
  <2>1. visited[0] = {v}
    BY <1>6
  <2>2. ASSUME NEW n \in Nat PROVE visited[n + 1] = visited[n] \cup More(visited[n])
    <3>1. n + 1 \in Nat /\ n + 1 # 0 /\ (n + 1) - 1 = n
      OBVIOUS
    <3> QED
      BY <1>6, <3>1
  <2> QED
    BY <2>1, <2>2
<1>9. \A n \in Nat : visited[n] \in SUBSET V
  <2> DEFINE S == {n \in Nat : visited[n] \in SUBSET V}
  <2>1. 0 \in S
    BY <1>8
  <2>2. ASSUME NEW n \in Nat, visited[n] \in SUBSET V PROVE visited[n + 1] \in SUBSET V
    BY <1>3, <1>8, <2>2
  <2>3. \A n \in Nat : n \in S => n + 1 \in S
    BY <2>2
  <2> HIDE DEF S
  <2>4. Nat \subseteq S
    BY <2>1, <2>3, SetInduction
  <2> QED
    BY <2>4 DEF S
<1>10. IsSearch(V, UsedBy(p), {v}, visited)
  BY <1>2, <1>8, <1>9 DEF IsSearch
<1>11. IsClosure(V, UsedBy(p), {v}, visited[Cardinality(V)])
  BY <1>1, <1>10, SearchEnds
<1> QED
  BY <1>7, <1>11

\* Every element of such a closure but the first is led to by another.
LEMMA ClosureIsReached ==
  ASSUME NEW V, NEW R, NEW base, NEW B, IsClosure(V, R, base, B), NEW x \in B, x \notin base
  PROVE  \E w \in B : <<w, x>> \in R
<1> SUFFICES ASSUME \A w \in B : <<w, x>> \notin R PROVE FALSE
  OBVIOUS
<1>1. B \ {x} \in SUBSET V /\ base \subseteq B \ {x}
  BY DEF IsClosure
<1>2. \A m \in B \ {x}, y \in V : <<m, y>> \in R => y \in B \ {x}
  BY DEF IsClosure
<1>3. B \subseteq B \ {x}
  BY <1>1, <1>2 DEF IsClosure
<1> QED
  BY <1>3

InitializersInv ==
  \A s \in DOMAIN initializers :
    /\ SlotValue(prog, s[1], s[2]) \in TopLevelValues(prog)
    /\ initializers[s] = NeedToClone(prog, SlotValue(prog, s[1], s[2]))

LEMMA InitializersInit == Init => InitializersInv
<1> SUFFICES ASSUME Init PROVE InitializersInv
  OBVIOUS
<1>1. DOMAIN initializers = {}
  BY DEF Init, GraphInit, EmptyMap
<1> QED
  BY <1>1 DEF InitializersInv

LEMMA InitializersNext == TypeOK /\ InitializersInv /\ [Next]_vars => InitializersInv'
<1> SUFFICES ASSUME TypeOK, InitializersInv, [Next]_vars PROVE InitializersInv'
  OBVIOUS
<1>1. CASE VisitValueSlot
  <2> DEFINE slot == <<Top.mod, TopAttr.name>>
             held == prog.slots[Top.mod][Top.next]
  <2>1. prog \in Programs /\ Top.mod \in Mods(prog) /\ Top.next \in DOMAIN AttrsOf(prog, Top.mod)
    BY <1>1, TraverseAttr DEF TypeOK, VisitValueSlot
  <2>2. SlotValue(prog, slot[1], slot[2]) = held
    BY <2>1, SlotValueIs DEF TopAttr
  <2>3. held \in TopLevelValues(prog)
    BY <2>1, ProgramsWellFormed
  <2>4. /\ DOMAIN initializers' = DOMAIN initializers \cup {slot}
        /\ initializers'[slot] = NeedToClone(prog, held)
        /\ \A t \in DOMAIN initializers : t # slot => initializers'[t] = initializers[t]
        /\ prog' = prog
    BY <1>1 DEF VisitValueSlot, Put
  <2> SUFFICES ASSUME NEW s \in DOMAIN initializers'
               PROVE  /\ SlotValue(prog, s[1], s[2]) \in TopLevelValues(prog)
                      /\ initializers'[s] = NeedToClone(prog, SlotValue(prog, s[1], s[2]))
    BY <2>4 DEF InitializersInv
  <2>5. CASE s = slot
    BY <2>2, <2>3, <2>4, <2>5
  <2>6. CASE s # slot
    BY <2>4, <2>6 DEF InitializersInv
  <2> QED
    BY <2>5, <2>6
<1>2. CASE UNCHANGED <<prog, initializers>>
  BY <1>2 DEF InitializersInv
<1>3. VisitValueSlot \/ UNCHANGED <<prog, initializers>>
  <2>1. FindRootNnModule \/ VisitModuleSlot \/ LeaveModule => UNCHANGED <<prog, initializers>>
    BY DEF FindRootNnModule, VisitModuleSlot, LeaveModule
  <2>2. MonoNext => UNCHANGED prog
    BY DEF MonoNext, InitializeFunc, InitializeDone, PopDirty, VisitOp, FinishMonomorphization,
           WorklistDone
  <2>3. CloneFunc \/ AllCloned \/ CleanUpObjectGraph \/ VerifyFuncsConformToSubset
          \/ VerifyPublicMonomorphizations => UNCHANGED <<prog, graphVars>>
    BY DEF CloneFunc, AllCloned, CleanUpObjectGraph, VerifyFuncsConformToSubset,
           VerifyPublicMonomorphizations
  <2>4. \A m \in DOMAIN newFuncs : RewriteMonomorphizedFuncClone(m) => UNCHANGED <<prog, graphVars>>
    BY DEF RewriteMonomorphizedFuncClone
  <2> QED
    BY <2>1, <2>2, <2>3, <2>4 DEF Next, PassNext, GraphNext, Return, vars, graphVars
<1> QED
  BY <1>1, <1>2, <1>3

LEMMA InitializersHeld == TypeOK /\ InitializersInv => InitializersHoldTheirValues
<1> SUFFICES ASSUME TypeOK, InitializersInv, NEW s \in DOMAIN initializers,
                    NEW held, held = SlotValue(prog, s[1], s[2])
             PROVE  /\ held \in initializers[s]
                    /\ \A v \in initializers[s] : OperandsOf(prog, v) \subseteq initializers[s]
                    /\ \A v \in initializers[s] \ {held} :
                         \E w \in initializers[s] : v \in OperandsOf(prog, w)
  BY DEF InitializersHoldTheirValues
<1>1. prog \in Programs /\ held \in TopLevelValues(prog) /\ initializers[s] = NeedToClone(prog, held)
  BY DEF TypeOK, InitializersInv
<1>2. PICK B : B = initializers[s]
  OBVIOUS
<1>3. IsClosure(TopLevelValues(prog), UsedBy(prog), {held}, B)
  BY <1>1, <1>2, NeedToCloneClosure
<1>4. \A w \in TopLevelValues(prog) : OperandsOf(prog, w) \subseteq TopLevelValues(prog)
  BY <1>1, ProgramsWellFormed DEF TopLevelValues, OperandsOf
<1>5. held \in B /\ B \subseteq TopLevelValues(prog)
  BY <1>3 DEF IsClosure
<1>6. ASSUME NEW v \in B, NEW x \in OperandsOf(prog, v) PROVE x \in B
  <2>1. <<v, x>> \in UsedBy(prog) /\ x \in TopLevelValues(prog)
    BY <1>4, <1>5, <1>6 DEF UsedBy
  <2> QED
    BY <1>3, <2>1 DEF IsClosure
<1>7. ASSUME NEW v \in B, v # held PROVE \E w \in B : v \in OperandsOf(prog, w)
  <2>1. PICK V, R, base : V = TopLevelValues(prog) /\ R = UsedBy(prog) /\ base = {held}
    OBVIOUS
  <2>2. IsClosure(V, R, base, B) /\ v \in B /\ v \notin base
    BY <1>3, <1>7, <2>1
  <2>3. \E w \in B : <<w, v>> \in R
    BY <2>2, ClosureIsReached
  <2>4. PICK w \in B : <<w, v>> \in UsedBy(prog)
    BY <2>1, <2>3
  <2> QED
    BY <2>4 DEF UsedBy
<1> QED
  BY <1>2, <1>5, <1>6, <1>7

LEMMA GraphMirrored == TypeOK /\ GraphInv /\ InitializersInv => GlobalSlotsMirrorObjectGraph
<1> SUFFICES ASSUME TypeOK, GraphInv, InitializersInv, pc = "done" PROVE GlobalSlotsMirrorObjectGraph
  BY DEF GlobalSlotsMirrorObjectGraph, AcceptedGraphIsTree, InitializersHoldTheirValues
<1>1. /\ prog \in Programs /\ frames = <<>>
      /\ Root \in DOMAIN seenNnModules /\ seenNnModules[Root] = <<>>
      /\ SeenOK(prog, frames, seenNnModules)
      /\ VisitedOK(prog, frames, seenNnModules, slotToGlobalSlot)
      /\ SlotsOK(seenNnModules, slotToGlobalSlot)
  BY DEF GraphInv, TypeOK
<1>2. /\ \A c \in DOMAIN seenNnModules : c \in Mods(prog) /\ seenNnModules[c] \in Seq(AttrNames(prog))
      /\ \A c, d \in DOMAIN seenNnModules : seenNnModules[c] = seenNnModules[d] => c = d
  BY <1>1 DEF SeenOK
<1>3. \A m, i : Visited(frames, m, i)
  BY <1>1 DEF Visited
<1>4. \A m \in DOMAIN seenNnModules : \A i \in DOMAIN AttrsOf(prog, m) :
        IF IsModuleType(prog, AttrsOf(prog, m)[i].type)
        THEN /\ prog.slots[m][i] \in DOMAIN seenNnModules
             /\ seenNnModules[prog.slots[m][i]] = Append(seenNnModules[m], AttrsOf(prog, m)[i].name)
        ELSE <<m, AttrsOf(prog, m)[i].name>> \in DOMAIN slotToGlobalSlot
  BY <1>1, <1>3 DEF VisitedOK
<1>5. AcceptedGraphIsTree
  <2> SUFFICES ASSUME NEW m \in DOMAIN seenNnModules, NEW n \in DOMAIN seenNnModules,
                      NEW i \in DOMAIN AttrsOf(prog, m), NEW j \in DOMAIN AttrsOf(prog, n),
                      IsModuleType(prog, AttrsOf(prog, m)[i].type),
                      IsModuleType(prog, AttrsOf(prog, n)[j].type),
                      prog.slots[m][i] = prog.slots[n][j]
               PROVE  m = n /\ i = j
    BY DEF AcceptedGraphIsTree
  <2>1. PICK a \in AttrNames(prog) : a = AttrsOf(prog, m)[i].name
    BY <1>1, <1>2, AttrIndex
  <2>2. PICK b \in AttrNames(prog) : b = AttrsOf(prog, n)[j].name
    BY <1>1, <1>2, AttrIndex
  <2>3. Append(seenNnModules[m], a) = Append(seenNnModules[n], b)
    BY <1>4, <2>1, <2>2
  <2>4. seenNnModules[m] \in Seq(AttrNames(prog)) /\ seenNnModules[n] \in Seq(AttrNames(prog))
    BY <1>2
  <2>5. seenNnModules[m] = seenNnModules[n] /\ a = b
    BY <2>3, <2>4, AppendIsOne
  <2>6. m = n /\ m \in Mods(prog)
    BY <1>2, <2>5
  <2> QED
    BY <1>1, <2>1, <2>2, <2>5, <2>6, AttrIndex
<1>6. ASSUME NEW s \in DOMAIN slotToGlobalSlot
      PROVE  LET name == slotToGlobalSlot[s].name IN s = <<ObjectAt(Front(name)), Last(name)>>
  <2>1. s = <<s[1], s[2]>> /\ s[1] \in DOMAIN seenNnModules
        /\ slotToGlobalSlot[s].name = Append(seenNnModules[s[1]], s[2])
    BY <1>1 DEF SlotsOK
  <2>2. PICK path : path = seenNnModules[s[1]]
    OBVIOUS
  <2>3. PICK S : S = AttrNames(prog) \cup {s[2]}
    OBVIOUS
  <2>4. path \in Seq(S) /\ s[2] \in S
    BY <1>2, <2>1, <2>2, <2>3
  <2>5. Front(Append(path, s[2])) = path
    BY <2>4, FrontIs
  <2>6. Last(Append(path, s[2])) = s[2]
    BY <2>4, AppendElements DEF Last
  <2>7. ObjectAt(path) = s[1]
    <3>1. PICK W : IsWalk(prog, path, W, Root, s[1])
      BY <1>1, <2>1, <2>2, WalkExists
    <3> QED
      BY <2>4, <3>1, ObjectAtWalk
  <2> QED
    BY <2>1, <2>2, <2>5, <2>6, <2>7
<1>7. \A s \in DOMAIN slotToGlobalSlot : \A i \in DOMAIN AttrsOf(prog, s[1]) :
        ~ IsModuleType(prog, AttrsOf(prog, s[1])[i].type)
          => <<s[1], AttrsOf(prog, s[1])[i].name>> \in DOMAIN slotToGlobalSlot
  BY <1>1, <1>4 DEF SlotsOK
<1>8. \A m \in DOMAIN seenNnModules : \A i \in DOMAIN AttrsOf(prog, m) :
        IF IsModuleType(prog, AttrsOf(prog, m)[i].type)
        THEN prog.slots[m][i] \in DOMAIN seenNnModules
        ELSE <<m, AttrsOf(prog, m)[i].name>> \in DOMAIN slotToGlobalSlot
  BY <1>4
<1> QED
  BY <1>5, <1>6, <1>7, <1>8, InitializersHeld DEF GlobalSlotsMirrorObjectGraph

\* The object graph of an accepted program is a tree, every global slot's name
\* leads from the root to the slot it was made for, every value slot of an
\* instance that the root holds has its global slot, and its initializer is a
\* copy of the whole value the slot holds.
THEOREM SlotsMirrorGraph == Spec => []GlobalSlotsMirrorObjectGraph
BY TypeInit, TypeNext, GraphInvInit, GraphInvNext, InitializersInit, InitializersNext, GraphMirrored, PTL DEF Spec

-----------------------------------------------------------------------------
\* What Filter returns.

\* The prefixes of s, filtered.
Filters(s, T, U) ==
  /\ DOMAIN U = 0 .. Len(s) /\ U[0] = <<>>
  /\ \A k \in 1 .. Len(s) : U[k] = IF s[k] \in T THEN Append(U[k - 1], s[k]) ELSE U[k - 1]

LEMMA FiltersExtends ==
  ASSUME NEW S, NEW s \in Seq(S), NEW a \in S, NEW T, NEW U, Filters(s, T, U)
  PROVE  \E V : /\ Filters(Append(s, a), T, V)
                /\ V[Len(s) + 1] = IF a \in T THEN Append(U[Len(s)], a) ELSE U[Len(s)]
<1>1. PICK n \in Nat : n = Len(s)
  OBVIOUS
<1>2. PICK r : r = Append(s, a)
  OBVIOUS
<1>3. Len(r) = n + 1 /\ r[n + 1] = a /\ \A k \in 1 .. n : r[k] = s[k]
  BY <1>1, <1>2, AppendElements
<1>4. PICK last : last = IF a \in T THEN Append(U[n], a) ELSE U[n]
  OBVIOUS
<1> DEFINE V == [k \in 0 .. n + 1 |-> IF k = n + 1 THEN last ELSE U[k]]
<1>5. DOMAIN V = 0 .. n + 1 /\ V[n + 1] = last /\ \A k \in 0 .. n : V[k] = U[k]
  BY <1>1
<1> HIDE DEF V
<1>6. U[0] = <<>> /\ \A k \in 1 .. n : U[k] = IF s[k] \in T THEN Append(U[k - 1], s[k]) ELSE U[k - 1]
  BY <1>1 DEF Filters
<1>7. \A k \in 1 .. n + 1 : k = n + 1 \/ (k \in 1 .. n /\ k \in 0 .. n /\ k - 1 \in 0 .. n)
  BY <1>1
<1>8. 0 \in 0 .. n /\ n \in 0 .. n /\ (n + 1) - 1 = n
  BY <1>1
<1>9. ASSUME NEW k \in 1 .. n + 1 PROVE V[k] = IF r[k] \in T THEN Append(V[k - 1], r[k]) ELSE V[k - 1]
  <2>1. CASE k = n + 1
    BY <1>3, <1>4, <1>5, <1>8, <2>1
  <2>2. CASE k # n + 1
    BY <1>3, <1>5, <1>6, <1>7, <2>2
  <2> QED
    BY <2>1, <2>2
<1>10. Filters(r, T, V)
  BY <1>3, <1>5, <1>6, <1>8, <1>9 DEF Filters
<1> QED
  BY <1>1, <1>2, <1>4, <1>5, <1>10

\* A sequence that is not empty is shorter by its last element.
LEMMA SeqGrows ==
  ASSUME NEW S, NEW n \in Nat, NEW s \in Seq(S), Len(s) = n + 1
  PROVE  \E r \in Seq(S) : \E a \in S : s = Append(r, a) /\ Len(r) = n
<1>1. PICK r : r = [k \in 1 .. n |-> s[k]]
  OBVIOUS
<1>2. r \in Seq(S) /\ Len(r) = n /\ s[n + 1] \in S
  BY <1>1
<1>3. PICK q \in Seq(S) : q = Append(r, s[n + 1])
  BY <1>2, AppendElements
<1>4. Len(q) = n + 1 /\ q[n + 1] = s[n + 1] /\ \A k \in 1 .. n : q[k] = s[k]
  BY <1>1, <1>2, <1>3, AppendElements
<1>5. q = s
  <2>1. \A k \in 1 .. n + 1 : k = n + 1 \/ k \in 1 .. n
    OBVIOUS
  <2> QED
    BY <1>4, <2>1, SeqEqual
<1> QED
  BY <1>2, <1>3, <1>5

LEMMA FiltersExists ==
  ASSUME NEW S, NEW T
  PROVE  \A s \in Seq(S) : \E U : Filters(s, T, U)
<1> DEFINE N == {n \in Nat : \A s \in Seq(S) : Len(s) = n => \E U : Filters(s, T, U)}
<1>1. 0 \in N
  <2> SUFFICES ASSUME NEW s \in Seq(S), Len(s) = 0 PROVE \E U : Filters(s, T, U)
    OBVIOUS
  <2>1. Filters(s, T, [k \in 0 .. 0 |-> <<>>])
    BY DEF Filters
  <2> QED
    BY <2>1
<1>2. ASSUME NEW n \in Nat, n \in N PROVE n + 1 \in N
  <2> SUFFICES ASSUME NEW s \in Seq(S), Len(s) = n + 1 PROVE \E U : Filters(s, T, U)
    BY DEF N
  <2>1. PICK r \in Seq(S) : \E a \in S : s = Append(r, a) /\ Len(r) = n
    BY SeqGrows
  <2>2. PICK a \in S : s = Append(r, a)
    BY <2>1
  <2>3. PICK U : Filters(r, T, U)
    BY <1>2, <2>1
  <2> QED
    BY <2>2, <2>3, FiltersExtends
<1> HIDE DEF N
<1>3. Nat \subseteq N
  BY <1>1, <1>2, SetInduction
<1>4. \A s \in Seq(S) : Len(s) \in Nat
  OBVIOUS
<1> QED
  BY <1>3, <1>4 DEF N

\* The recursive function of Filter is the sequence of the filtered prefixes.
LEMMA FilterIs ==
  ASSUME NEW S, NEW s \in Seq(S), NEW T, NEW U, Filters(s, T, U)
  PROVE  Filter(s, T) = U[Len(s)]
<1>1. PICK n \in Nat : n = Len(s)
  OBVIOUS
<1> DEFINE Is(up) == up = [k \in 0 .. n |-> IF k = 0 THEN <<>>
                                           ELSE IF s[k] \in T THEN Append(up[k - 1], s[k]) ELSE up[k - 1]]
           upTo == CHOOSE up : Is(up)
<1>2. DOMAIN U = 0 .. n /\ U[0] = <<>>
      /\ \A k \in 1 .. n : U[k] = IF s[k] \in T THEN Append(U[k - 1], s[k]) ELSE U[k - 1]
  BY <1>1 DEF Filters
<1>3. \A k \in 0 .. n : k = 0 \/ k \in 1 .. n
  BY <1>1
<1>4. Filter(s, T) = upTo[n]
  BY <1>1 DEF Filter
<1>5. Is(upTo)
  <2>1. PICK V : V = [k \in 0 .. n |-> IF k = 0 THEN <<>>
                                     ELSE IF s[k] \in T THEN Append(U[k - 1], s[k]) ELSE U[k - 1]]
    OBVIOUS
  <2>2. \A k \in 0 .. n : V[k] = U[k]
    BY <1>2, <1>3, <2>1
  <2>3. ASSUME NEW k \in 0 .. n, k # 0 PROVE V[k - 1] = U[k - 1]
    <3>1. k - 1 \in 0 .. n
      BY <1>1, <2>3
    <3> QED
      BY <2>2, <3>1
  <2>4. Is(V)
    BY <2>1, <2>3
  <2> HIDE DEF Is
  <2> QED
    BY <2>4
<1> HIDE DEF upTo
<1>6. upTo[0] = <<>>
      /\ \A k \in 1 .. n : upTo[k] = IF s[k] \in T THEN Append(upTo[k - 1], s[k]) ELSE upTo[k - 1]
  <2>1. \A k \in 0 .. n : upTo[k] = IF k = 0 THEN <<>>
                                    ELSE IF s[k] \in T THEN Append(upTo[k - 1], s[k]) ELSE upTo[k - 1]
    BY <1>5
  <2>2. 0 \in 0 .. n /\ \A k \in 1 .. n : k \in 0 .. n /\ k # 0
    BY <1>1
  <2> QED
    BY <2>1, <2>2
<1> HIDE DEF Is
<1> DEFINE N == {k \in Nat : k <= n => upTo[k] = U[k]}
<1>7. 0 \in N
  BY <1>2, <1>6
<1>8. ASSUME NEW k \in Nat, k \in N PROVE k + 1 \in N
  <2> SUFFICES ASSUME k + 1 <= n PROVE upTo[k + 1] = U[k + 1]
    BY DEF N
  <2>1. k + 1 \in 1 .. n /\ (k + 1) - 1 = k /\ k <= n
    BY <1>1
  <2>2. upTo[k] = U[k]
    BY <1>8, <2>1
  <2> QED
    BY <1>2, <1>6, <2>1, <2>2
<1> HIDE DEF N
<1>9. Nat \subseteq N
  BY <1>7, <1>8, SetInduction
<1> QED
  BY <1>1, <1>4, <1>9 DEF N

LEMMA FilterEmpty == ASSUME NEW T PROVE Filter(<<>>, T) = <<>>
<1>1. Filters(<<>>, T, [k \in 0 .. 0 |-> <<>>])
  BY DEF Filters
<1>2. <<>> \in Seq({}) /\ Len(<<>>) = 0
  OBVIOUS
<1> QED
  BY <1>1, <1>2, FilterIs

LEMMA FilterAppend ==
  ASSUME NEW S, NEW s \in Seq(S), NEW a \in S, NEW T
  PROVE  Filter(Append(s, a), T) = IF a \in T THEN Append(Filter(s, T), a) ELSE Filter(s, T)
<1>1. PICK U : Filters(s, T, U)
  BY FiltersExists
<1>2. PICK V : /\ Filters(Append(s, a), T, V)
               /\ V[Len(s) + 1] = IF a \in T THEN Append(U[Len(s)], a) ELSE U[Len(s)]
  BY <1>1, FiltersExtends
<1>3. Append(s, a) \in Seq(S) /\ Len(Append(s, a)) = Len(s) + 1
  BY AppendElements
<1>4. Filter(s, T) = U[Len(s)]
  BY <1>1, FilterIs
<1>5. Filter(Append(s, a), T) = V[Len(s) + 1]
  BY <1>2, <1>3, FilterIs
<1> QED
  BY <1>2, <1>4, <1>5

\* What is kept is in T.
LEMMA FilterIn ==
  ASSUME NEW S, NEW T, NEW Q, \A x \in S : x \in T => x \in Q
  PROVE  \A s \in Seq(S) : Filter(s, T) \in Seq(Q)
<1> DEFINE N == {n \in Nat : \A s \in Seq(S) : Len(s) = n => Filter(s, T) \in Seq(Q)}
<1>1. 0 \in N
  <2> SUFFICES ASSUME NEW s \in Seq(S), Len(s) = 0 PROVE Filter(s, T) \in Seq(Q)
    OBVIOUS
  <2>1. s = <<>>
    BY EmptySeq
  <2>2. Filter(s, T) = <<>>
    BY <2>1, FilterEmpty
  <2> QED
    BY <2>2
<1>2. ASSUME NEW n \in Nat, n \in N PROVE n + 1 \in N
  <2> SUFFICES ASSUME NEW s \in Seq(S), Len(s) = n + 1 PROVE Filter(s, T) \in Seq(Q)
    BY DEF N
  <2>1. PICK r \in Seq(S) : \E a \in S : s = Append(r, a) /\ Len(r) = n
    BY SeqGrows
  <2>2. PICK a \in S : s = Append(r, a)
    BY <2>1
  <2>3. Filter(r, T) \in Seq(Q)
    BY <1>2, <2>1
  <2>4. Filter(s, T) = IF a \in T THEN Append(Filter(r, T), a) ELSE Filter(r, T)
    BY <2>2, FilterAppend
  <2>5. a \in T => Append(Filter(r, T), a) \in Seq(Q)
    BY <2>3, AppendElements
  <2> QED
    BY <2>3, <2>4, <2>5
<1> HIDE DEF N
<1>3. Nat \subseteq N
  BY <1>1, <1>2, SetInduction
<1>4. \A s \in Seq(S) : Len(s) \in Nat
  OBVIOUS
<1> QED
  BY <1>3, <1>4 DEF N

LEMMA FilterIsSeq ==
  ASSUME NEW S, NEW T
  PROVE  \A s \in Seq(S) : Filter(s, T) \in Seq(S)
BY FilterIn

\* Filter asks of the elements of s only.
LEMMA FilterSame ==
  ASSUME NEW S, NEW A, NEW B, \A x \in S : x \in A <=> x \in B
  PROVE  \A s \in Seq(S) : Filter(s, A) = Filter(s, B)
<1> DEFINE N == {n \in Nat : \A s \in Seq(S) : Len(s) = n => Filter(s, A) = Filter(s, B)}
<1>1. 0 \in N
  <2> SUFFICES ASSUME NEW s \in Seq(S), Len(s) = 0 PROVE Filter(s, A) = Filter(s, B)
    OBVIOUS
  <2>1. s = <<>>
    BY EmptySeq
  <2> QED
    BY <2>1, FilterEmpty
<1>2. ASSUME NEW n \in Nat, n \in N PROVE n + 1 \in N
  <2> SUFFICES ASSUME NEW s \in Seq(S), Len(s) = n + 1 PROVE Filter(s, A) = Filter(s, B)
    BY DEF N
  <2>1. PICK r \in Seq(S) : \E a \in S : s = Append(r, a) /\ Len(r) = n
    BY SeqGrows
  <2>2. PICK a \in S : s = Append(r, a)
    BY <2>1
  <2>3. Filter(r, A) = Filter(r, B)
    BY <1>2, <2>1
  <2>4. Filter(s, A) = IF a \in A THEN Append(Filter(r, A), a) ELSE Filter(r, A)
    BY <2>2, FilterAppend
  <2>5. Filter(s, B) = IF a \in B THEN Append(Filter(r, B), a) ELSE Filter(r, B)
    BY <2>2, FilterAppend
  <2> QED
    BY <2>3, <2>4, <2>5
<1> HIDE DEF N
<1>3. Nat \subseteq N
  BY <1>1, <1>2, SetInduction
<1>4. \A s \in Seq(S) : Len(s) \in Nat
  OBVIOUS
<1> QED
  BY <1>3, <1>4 DEF N

\* Two sequences lose the same number of elements when they lose them at the
\* same places.
LEMMA FilterLength ==
  ASSUME NEW S, NEW R, NEW A, NEW B
  PROVE  \A s \in Seq(S), t \in Seq(R) :
           Len(s) = Len(t) /\ (\A k \in 1 .. Len(s) : s[k] \in A <=> t[k] \in B)
             => Len(Filter(s, A)) = Len(Filter(t, B))
<1> DEFINE Alike(s, t, n) == Len(s) = n /\ Len(t) = n /\ \A k \in 1 .. n : s[k] \in A <=> t[k] \in B
           N == {n \in Nat : \A s \in Seq(S), t \in Seq(R) :
                   Alike(s, t, n) => Len(Filter(s, A)) = Len(Filter(t, B))}
<1>1. 0 \in N
  <2> SUFFICES ASSUME NEW s \in Seq(S), NEW t \in Seq(R), Alike(s, t, 0)
               PROVE  Len(Filter(s, A)) = Len(Filter(t, B))
    OBVIOUS
  <2>1. s = <<>> /\ t = <<>>
    BY EmptySeq
  <2> QED
    BY <2>1, FilterEmpty
<1>2. ASSUME NEW n \in Nat, n \in N PROVE n + 1 \in N
  <2> SUFFICES ASSUME NEW s \in Seq(S), NEW t \in Seq(R), Alike(s, t, n + 1)
               PROVE  Len(Filter(s, A)) = Len(Filter(t, B))
    BY DEF N
  <2>1. PICK s0 \in Seq(S) : \E a \in S : s = Append(s0, a) /\ Len(s0) = n
    BY SeqGrows
  <2>2. PICK a \in S : s = Append(s0, a)
    BY <2>1
  <2>3. PICK t0 \in Seq(R) : \E b \in R : t = Append(t0, b) /\ Len(t0) = n
    BY SeqGrows
  <2>4. PICK b \in R : t = Append(t0, b)
    BY <2>3
  <2>5. /\ s[n + 1] = a /\ t[n + 1] = b
        /\ \A k \in 1 .. n : s[k] = s0[k] /\ t[k] = t0[k]
    <3>1. \A k \in 1 .. Len(s0) : Append(s0, a)[k] = s0[k]
      BY AppendElements
    <3>2. \A k \in 1 .. Len(t0) : Append(t0, b)[k] = t0[k]
      BY AppendElements
    <3>3. Append(s0, a)[Len(s0) + 1] = a /\ Append(t0, b)[Len(t0) + 1] = b
      BY AppendElements
    <3> QED
      BY <2>1, <2>2, <2>3, <2>4, <3>1, <3>2, <3>3
  <2>6. n + 1 \in 1 .. n + 1 /\ \A k \in 1 .. n : k \in 1 .. n + 1
    OBVIOUS
  <2>7. a \in A <=> b \in B
    BY <2>5, <2>6
  <2>8. Alike(s0, t0, n)
    BY <2>1, <2>3, <2>5, <2>6
  <2>9. Len(Filter(s0, A)) = Len(Filter(t0, B))
    BY <1>2, <2>8
  <2>10. Filter(s, A) = IF a \in A THEN Append(Filter(s0, A), a) ELSE Filter(s0, A)
    BY <2>2, FilterAppend
  <2>11. Filter(t, B) = IF b \in B THEN Append(Filter(t0, B), b) ELSE Filter(t0, B)
    BY <2>4, FilterAppend
  <2>12. Filter(s0, A) \in Seq(S) /\ Filter(t0, B) \in Seq(R)
    BY FilterIsSeq
  <2>13. /\ Len(Append(Filter(s0, A), a)) = Len(Filter(s0, A)) + 1
         /\ Len(Append(Filter(t0, B), b)) = Len(Filter(t0, B)) + 1
    BY <2>12
  <2> QED
    BY <2>7, <2>9, <2>10, <2>11, <2>13
<1> HIDE DEF N
<1>3. Nat \subseteq N
  BY <1>1, <1>2, SetInduction
<1>4. \A s \in Seq(S) : Len(s) \in Nat
  OBVIOUS
<1> QED
  BY <1>3, <1>4 DEF N

\* F applied to every element of s.
Mapped(s, F) == [k \in DOMAIN s |-> F[s[k]]]

IsMap(F, S, R) == F \in [S -> R]

LEMMA MappedAppend ==
  ASSUME NEW S, NEW R, NEW F, IsMap(F, S, R)
  PROVE  \A s \in Seq(S), a \in S :
           Mapped(s, F) \in Seq(R) /\ Mapped(Append(s, a), F) = Append(Mapped(s, F), F[a])
<1> USE DEF IsMap
<1> TAKE s \in Seq(S), a \in S
<1>1. PICK n \in Nat : n = Len(s) /\ DOMAIN s = 1 .. n
  BY LenProperties
<1>2. \A k \in 1 .. n : s[k] \in S
  BY <1>1, ElementOfSeq
<1>3. PICK q : q = Mapped(s, F)
  OBVIOUS
<1>4. q \in Seq(R) /\ Len(q) = n /\ \A k \in 1 .. n : q[k] = F[s[k]]
  <2>1. q = [k \in 1 .. n |-> F[s[k]]]
    BY <1>1, <1>3 DEF Mapped
  <2>2. q \in [1 .. n -> R]
    BY <1>2, <2>1
  <2> QED
    BY <1>1, <2>1, <2>2
<1>5. PICK r \in Seq(S) : r = Append(s, a)
  BY AppendElements
<1>6. Len(r) = n + 1 /\ r[n + 1] = a /\ (\A k \in 1 .. n : r[k] = s[k]) /\ DOMAIN r = 1 .. n + 1
  BY <1>1, <1>5, AppendElements, LenProperties
<1>7. PICK u : u = Mapped(r, F)
  OBVIOUS
<1>8. \A k \in 1 .. n + 1 : r[k] \in S
  BY <1>5, <1>6, ElementOfSeq
<1>9. u \in Seq(R) /\ Len(u) = n + 1 /\ \A k \in 1 .. n + 1 : u[k] = F[r[k]]
  <2>1. u = [k \in 1 .. n + 1 |-> F[r[k]]]
    BY <1>6, <1>7 DEF Mapped
  <2>2. u \in [1 .. n + 1 -> R]
    BY <1>8, <2>1
  <2> QED
    BY <1>1, <2>1, <2>2
<1>10. PICK v \in Seq(R) : v = Append(q, F[a])
  BY <1>4, AppendElements
<1>11. Len(v) = n + 1 /\ v[n + 1] = F[a] /\ \A k \in 1 .. n : v[k] = q[k]
  BY <1>4, <1>10, AppendElements
<1>12. \A k \in 1 .. n + 1 : k = n + 1 \/ k \in 1 .. n
  BY <1>1
<1>13. \A k \in 1 .. n + 1 : u[k] = v[k]
  BY <1>4, <1>6, <1>9, <1>11, <1>12
<1>14. u = v
  BY <1>9, <1>10, <1>11, <1>13, SeqEqual
<1> QED
  BY <1>3, <1>4, <1>5, <1>7, <1>10, <1>14

\* To keep K, apply F and keep D is to keep C and apply F.
LEMMA FilterOfMapped ==
  ASSUME NEW S, NEW R, NEW F, IsMap(F, S, R), NEW K, NEW C, NEW D,
         \A x \in S : x \in C <=> x \in K /\ F[x] \in D
  PROVE  \A s \in Seq(S) : Filter(Mapped(Filter(s, K), F), D) = Mapped(Filter(s, C), F)
<1> DEFINE N == {n \in Nat : \A s \in Seq(S) : Len(s) = n =>
                   Filter(Mapped(Filter(s, K), F), D) = Mapped(Filter(s, C), F)}
<1>0. \A u \in Seq(S), b \in S : Mapped(u, F) \in Seq(R) /\ Mapped(Append(u, b), F) = Append(Mapped(u, F), F[b])
  BY MappedAppend
<1>1. 0 \in N
  <2> SUFFICES ASSUME NEW s \in Seq(S), Len(s) = 0
               PROVE  Filter(Mapped(Filter(s, K), F), D) = Mapped(Filter(s, C), F)
    OBVIOUS
  <2>1. s = <<>>
    BY EmptySeq
  <2>2. Filter(s, K) = <<>> /\ Filter(s, C) = <<>>
    BY <2>1, FilterEmpty
  <2>3. Mapped(<<>>, F) = <<>>
    BY DEF Mapped
  <2> QED
    BY <2>2, <2>3, FilterEmpty
<1>2. ASSUME NEW n \in Nat, n \in N PROVE n + 1 \in N
  <2> SUFFICES ASSUME NEW s \in Seq(S), Len(s) = n + 1
               PROVE  Filter(Mapped(Filter(s, K), F), D) = Mapped(Filter(s, C), F)
    BY DEF N
  <2>1. PICK r \in Seq(S) : \E a \in S : s = Append(r, a) /\ Len(r) = n
    BY SeqGrows
  <2>2. PICK a \in S : s = Append(r, a)
    BY <2>1
  <2>3. PICK q \in Seq(S) : q = Filter(r, K)
    BY FilterIsSeq
  <2>4. PICK c \in Seq(S) : c = Filter(r, C)
    BY FilterIsSeq
  <2>5. Filter(Mapped(q, F), D) = Mapped(c, F)
    BY <1>2, <2>1, <2>3, <2>4
  <2>6. /\ Filter(s, K) = IF a \in K THEN Append(q, a) ELSE q
        /\ Filter(s, C) = IF a \in C THEN Append(c, a) ELSE c
    BY <2>2, <2>3, <2>4, FilterAppend
  <2>7. /\ Mapped(q, F) \in Seq(R) /\ Mapped(Append(q, a), F) = Append(Mapped(q, F), F[a])
        /\ Mapped(Append(c, a), F) = Append(Mapped(c, F), F[a])
    BY <1>0
  <2>8. F[a] \in R
    BY DEF IsMap
  <2>9. Filter(Append(Mapped(q, F), F[a]), D)
          = IF F[a] \in D THEN Append(Filter(Mapped(q, F), D), F[a]) ELSE Filter(Mapped(q, F), D)
    <3>1. PICK u \in Seq(R) : u = Mapped(q, F)
      BY <2>7
    <3>2. PICK e \in R : e = F[a]
      BY <2>8
    <3>3. Filter(Append(u, e), D) = IF e \in D THEN Append(Filter(u, D), e) ELSE Filter(u, D)
      BY FilterAppend
    <3> QED
      BY <3>1, <3>2, <3>3
  <2>10. a \in C <=> a \in K /\ F[a] \in D
    OBVIOUS
  <2>11. CASE a \in K
    BY <2>5, <2>6, <2>7, <2>9, <2>10, <2>11, Zenon
  <2>12. CASE a \notin K
    BY <2>5, <2>6, <2>10, <2>12, Zenon
  <2> QED
    BY <2>11, <2>12
<1> HIDE DEF N
<1>3. Nat \subseteq N
  BY <1>1, <1>2, SetInduction
<1>4. \A s \in Seq(S) : Len(s) \in Nat
  OBVIOUS
<1> QED
  BY <1>3, <1>4 DEF N

-----------------------------------------------------------------------------
\* The calls of a clone that has been rewritten.

\* The call that RewriteOp makes of the call op of m's function.
BoundCall(m, op, call) ==
  /\ call.callee = newFuncs[MonomorphizationForCall(prog, m, op)].name
  /\ call.args = Filter(op.args, {v \in ToSet(op.args) : ~ IsModuleValue(prog, m.func, v)})

LEMMA RewriteOpKind ==
  ASSUME NEW m, NEW op
  PROVE  /\ RewriteOp(m, op).kind = "call" <=> op.kind = "call"
         /\ op.kind = "call" => BoundCall(m, op, RewriteOp(m, op))
BY DEF RewriteOp, BoundCall

\* The calls of a rewritten body are the calls of the body, in order, rewritten.
LEMMA CallsOfRewritten ==
  ASSUME NEW m, NEW S, NEW body \in Seq(S), S = ToSet(body)
  PROVE  LET before == Calls(body)
             after  == Calls(RewriteBody(m, body))
         IN /\ before \in Seq({op \in S : op.kind = "call"})
            /\ Len(after) = Len(before)
            /\ \A k \in DOMAIN before : BoundCall(m, before[k], after[k])
<1> DEFINE R == {RewriteOp(m, op) : op \in S}
           F == [op \in S |-> RewriteOp(m, op)]
           K == {op \in S : ~ IsErased(m, op)}
           C == {op \in S : op.kind = "call"}
           D == {op \in R : op.kind = "call"}
<1>1. IsMap(F, S, R)
  BY DEF IsMap
<1>2. \A x \in S : x \in C <=> x \in K /\ F[x] \in D
  <2>1. \A x \in S : x \in C => x \in K
    BY DEF IsErased
  <2>2. \A x \in S : F[x] = RewriteOp(m, x) /\ (F[x] \in D <=> RewriteOp(m, x).kind = "call")
    OBVIOUS
  <2> QED
    BY <2>1, <2>2, RewriteOpKind
<1>3. PICK kept \in Seq(S) : kept = Filter(body, K)
  BY FilterIsSeq
<1>4. RewriteBody(m, body) = Mapped(kept, F)
  <2>1. \A k \in DOMAIN kept : kept[k] \in S
    BY <1>3, LenProperties, ElementOfSeq
  <2> QED
    BY <1>3, <2>1 DEF RewriteBody, Mapped
<1>5. Mapped(kept, F) \in Seq(R)
  <2>1. CASE S = {}
    <3>1. kept = <<>>
      BY <1>3, <2>1
    <3> QED
      BY <3>1 DEF Mapped
  <2>2. CASE S # {}
    BY <1>1, <1>3, <2>2, MappedAppend
  <2> QED
    BY <2>1, <2>2
<1> HIDE DEF F, K
<1>6. Calls(RewriteBody(m, body)) = Filter(Mapped(kept, F), D)
  <2>1. PICK rb : rb = Mapped(kept, F)
    OBVIOUS
  <2>2. rb \in Seq(R) /\ rb \in Seq(ToSet(rb)) /\ ToSet(rb) \subseteq R
    <3>1. rb \in Seq(R)
      BY <1>5, <2>1
    <3>2. PICK n \in Nat : n = Len(rb) /\ DOMAIN rb = 1 .. n
      BY <3>1, LenProperties
    <3>3. ToSet(rb) = {rb[k] : k \in 1 .. n} /\ \A k \in 1 .. n : rb[k] \in R
      BY <3>1, <3>2, ElementOfSeq DEF ToSet
    <3> HIDE DEF R
    <3> QED
      BY <3>1, <3>2, <3>3
  <2>3. \A x \in ToSet(rb) : x \in {op \in ToSet(rb) : op.kind = "call"} <=> x \in D
    BY <2>2
  <2>4. Filter(rb, {op \in ToSet(rb) : op.kind = "call"}) = Filter(rb, D)
    BY <2>2, <2>3, FilterSame
  <2> QED
    BY <1>4, <2>1, <2>4 DEF Calls
<1>7. Calls(body) = Filter(body, C)
  BY DEF Calls
<1> HIDE DEF R, D
<1>8. Filter(Mapped(Filter(body, K), F), D) = Mapped(Filter(body, C), F)
  BY <1>1, <1>2, FilterOfMapped
<1>9. PICK before \in Seq(C) : before = Calls(body)
  BY <1>7, FilterIn
<1>10. PICK after : after = Calls(RewriteBody(m, body))
  OBVIOUS
<1>11. after = [k \in DOMAIN before |-> F[before[k]]]
  BY <1>3, <1>6, <1>7, <1>8, <1>9, <1>10 DEF Mapped
<1>12. DOMAIN before = 1 .. Len(before) /\ Len(before) \in Nat /\ \A k \in DOMAIN before : before[k] \in C
  BY <1>9, LenProperties, ElementOfSeq
<1>13. Len(after) = Len(before)
  BY <1>11, <1>12
<1>14. ASSUME NEW k \in DOMAIN before PROVE BoundCall(m, before[k], after[k])
  <2>1. before[k] \in S /\ before[k].kind = "call"
    BY <1>12
  <2>2. after[k] = RewriteOp(m, before[k])
    BY <1>11, <2>1 DEF F
  <2> QED
    BY <2>1, <2>2, RewriteOpKind
<1> QED
  BY <1>9, <1>10, <1>13, <1>14

-----------------------------------------------------------------------------
\* Names, bodies and monomorphizations while clones are made and rewritten.

\* A clone has the name of its method, or a free name of its own.
NamesInv ==
  /\ \A m \in DOMAIN newFuncs :
       IF IsMethod(m) THEN newFuncs[m].name = LinkageName(funcLinkageInfo[<<m.inst[1], m.func>>].name)
                      ELSE newFuncs[m].name.uniq \in Nat /\ newFuncs[m].name.uniq < uniquifier
  /\ \A m, n \in DOMAIN newFuncs :
       ~ IsMethod(m) /\ ~ IsMethod(n) /\ newFuncs[m].name.uniq = newFuncs[n].name.uniq => m = n

\* A clone has the arguments and calls of its function until it is rewritten.
Arguments(f) == [i \in 1 .. prog.arity[f] |-> i]

CallsBound(m) ==
  LET before == Calls(prog.body[m.func])
      after  == Calls(newFuncs[m].body)
  IN Len(after) = Len(before) /\ \A k \in DOMAIN before : BoundCall(m, before[k], after[k])

BodiesInv ==
  /\ \A m \in DOMAIN newFuncs \ rewritten :
       newFuncs[m].params = Arguments(m.func) /\ newFuncs[m].body = prog.body[m.func]
  /\ \A m \in rewritten :
       /\ newFuncs[m].params = Filter(Arguments(m.func), ToSet(Arguments(m.func)) \ ModuleArgs(prog, m.func))
       /\ CallsBound(m)

\* The clones are made before any is rewritten, and all are.
PhasesInv ==
  /\ pc \notin {"clone", "rewrite", "done", "error", "assert"} => DOMAIN newFuncs = {}
  /\ pc \notin {"rewrite", "done", "error", "assert"} => rewritten = {}
  /\ pc = "done" => rewritten = DOMAIN newFuncs

\* A public method's function has been monomorphized once at most.
PublicInv ==
  pc \in {"clone", "rewrite", "done"} =>
    \A c \in DOMAIN prog.classes : \A k \in DOMAIN prog.classes[c].methods :
      ~ prog.classes[c].methods[k].priv =>
        \A m, n \in MonoSet : m.func = prog.classes[c].methods[k].func /\ n.func = m.func => m = n

LEMMA NamesInit == Init => NamesInv
<1> SUFFICES ASSUME Init PROVE NamesInv
  OBVIOUS
<1>1. DOMAIN newFuncs = {}
  BY DEF Init, EmptyMap
<1> QED
  BY <1>1 DEF NamesInv

LEMMA NamesUnchanged ==
  ASSUME NamesInv, UNCHANGED <<uniquifier, funcLinkageInfo>>, DOMAIN newFuncs' = DOMAIN newFuncs,
         \A m \in DOMAIN newFuncs : newFuncs'[m].name = newFuncs[m].name
  PROVE  NamesInv'
<1>1. \A m : IsMethod(m)' <=> IsMethod(m)
  BY DEF IsMethod
<1> QED
  BY <1>1 DEF NamesInv

LEMMA NamesCloned ==
  ASSUME TypeOK, NamesInv, CloneFunc
  PROVE  NamesInv'
<1> DEFINE m == monomorphizations[nextClone]
<1>1. uniquifier \in Nat /\ \A k : IsMethod(k)' <=> IsMethod(k)
  BY DEF TypeOK, CloneFunc, IsMethod, graphVars
<1>2. /\ DOMAIN newFuncs' = DOMAIN newFuncs \cup {m}
      /\ newFuncs'[m].name = IF IsMethod(m) THEN LinkageName(funcLinkageInfo[<<m.inst[1], m.func>>].name)
                                            ELSE FreeName(m.func, uniquifier)
      /\ \A k \in DOMAIN newFuncs : k # m => newFuncs'[k] = newFuncs[k]
      /\ uniquifier' = IF IsMethod(m) THEN uniquifier ELSE uniquifier + 1
      /\ UNCHANGED funcLinkageInfo
  BY DEF CloneFunc, Put, graphVars
<1> HIDE DEF m
<1>3. FreeName(m.func, uniquifier).uniq = uniquifier
  BY DEF FreeName
<1>4. \A k \in DOMAIN newFuncs : IF IsMethod(k) THEN newFuncs[k].name = LinkageName(funcLinkageInfo[<<k.inst[1], k.func>>].name)
                                 ELSE newFuncs[k].name.uniq \in Nat /\ newFuncs[k].name.uniq < uniquifier
  BY DEF NamesInv
<1>5. uniquifier' \in Nat /\ uniquifier <= uniquifier' /\ (~ IsMethod(m) => uniquifier < uniquifier')
  BY <1>1, <1>2
<1>6. ASSUME NEW k \in DOMAIN newFuncs'
      PROVE  IF IsMethod(k) THEN newFuncs'[k].name = LinkageName(funcLinkageInfo[<<k.inst[1], k.func>>].name)
                            ELSE newFuncs'[k].name.uniq \in Nat /\ newFuncs'[k].name.uniq < uniquifier'
  <2>1. CASE k = m
    BY <1>1, <1>2, <1>3, <1>5, <2>1
  <2>2. CASE k # m
    <3>1. newFuncs'[k] = newFuncs[k] /\ k \in DOMAIN newFuncs
      BY <1>2, <2>2
    <3> QED
      BY <1>1, <1>4, <1>5, <3>1
  <2> QED
    BY <2>1, <2>2
<1>7. ASSUME NEW k \in DOMAIN newFuncs', NEW n \in DOMAIN newFuncs', ~ IsMethod(k), ~ IsMethod(n),
             newFuncs'[k].name.uniq = newFuncs'[n].name.uniq
      PROVE  k = n
  <2>1. CASE k # m /\ n # m
    BY <1>2, <1>7, <2>1 DEF NamesInv
  <2>2. ASSUME NEW j \in DOMAIN newFuncs, ~ IsMethod(j) PROVE newFuncs[j].name.uniq # uniquifier
    <3>1. newFuncs[j].name.uniq \in Nat /\ newFuncs[j].name.uniq < uniquifier
      BY <1>4, <2>2
    <3> QED
      BY <1>1, <3>1
  <2>3. CASE k = m \/ n = m
    BY <1>2, <1>3, <1>7, <2>2, <2>3
  <2> QED
    BY <2>1, <2>3
<1> QED
  BY <1>1, <1>2, <1>6, <1>7 DEF NamesInv

LEMMA NamesNext == TypeOK /\ PhasesInv /\ NamesInv /\ [Next]_vars => NamesInv'
<1> SUFFICES ASSUME TypeOK, PhasesInv, NamesInv, [Next]_vars PROVE NamesInv'
  OBVIOUS
<1>1. CASE GraphNext /\ UNCHANGED <<monoVars, newFuncs, nextClone, uniquifier, rewritten>>
  <2>1. DOMAIN newFuncs = {}
    BY <1>1 DEF GraphNext, FindRootNnModule, VisitModuleSlot, VisitValueSlot, LeaveModule, PhasesInv
  <2> QED
    BY <1>1, <2>1 DEF NamesInv
<1>2. CASE MonoNext /\ UNCHANGED <<graphVars, newFuncs, nextClone, uniquifier, rewritten>>
  BY <1>2, NamesUnchanged DEF graphVars
<1>3. CASE VerifyFuncsConformToSubset \/ VerifyPublicMonomorphizations \/ AllCloned \/ CleanUpObjectGraph
  BY <1>3, NamesUnchanged DEF VerifyFuncsConformToSubset, VerifyPublicMonomorphizations, AllCloned,
                              CleanUpObjectGraph, graphVars
<1>4. CASE CloneFunc
  BY <1>4, NamesCloned
<1>5. ASSUME NEW m \in DOMAIN newFuncs, RewriteMonomorphizedFuncClone(m) PROVE NamesInv'
  <2>1. UNCHANGED <<uniquifier, funcLinkageInfo>>
    BY <1>5 DEF RewriteMonomorphizedFuncClone, graphVars
  <2>2. DOMAIN newFuncs' = DOMAIN newFuncs /\ \A k \in DOMAIN newFuncs : newFuncs'[k].name = newFuncs[k].name
    BY <1>5 DEF RewriteMonomorphizedFuncClone
  <2> QED
    BY <2>1, <2>2, NamesUnchanged
<1>6. CASE UNCHANGED vars
  BY <1>6, NamesUnchanged DEF vars, graphVars
<1> QED
  BY <1>1, <1>2, <1>3, <1>4, <1>5, <1>6 DEF Next, PassNext, Return

LEMMA PhasesInit == Init => PhasesInv
<1> SUFFICES ASSUME Init PROVE PhasesInv
  OBVIOUS
<1>1. DOMAIN newFuncs = {} /\ rewritten = {} /\ pc = "findRoot"
  BY DEF Init, EmptyMap
<1> QED
  BY <1>1 DEF PhasesInv

LEMMA PhasesNext == PhasesInv /\ [Next]_vars => PhasesInv'
<1> SUFFICES ASSUME PhasesInv, [Next]_vars PROVE PhasesInv'
  OBVIOUS
<1> USE DEF Fail, Goto, Abort
<1>1. CASE GraphNext /\ UNCHANGED <<monoVars, newFuncs, nextClone, uniquifier, rewritten>>
  <2>1. pc \in {"findRoot", "traverse"} /\ pc' \in {"traverse", "verifyFuncs", "error"}
    BY <1>1 DEF GraphNext, FindRootNnModule, VisitModuleSlot, VisitValueSlot, LeaveModule
  <2> QED
    BY <1>1, <2>1 DEF PhasesInv
<1>2. CASE MonoNext /\ UNCHANGED <<graphVars, newFuncs, nextClone, uniquifier, rewritten>>
  <2>1. pc \in {"initialize", "monomorphize", "generate"}
        /\ pc' \in {"initialize", "monomorphize", "generate", "verifyPublic", "assert"}
    BY <1>2 DEF MonoNext, InitializeFunc, InitializeDone, PopDirty, VisitOp, FinishMonomorphization, WorklistDone
  <2> QED
    BY <1>2, <2>1 DEF PhasesInv
<1>3. CASE VerifyFuncsConformToSubset
  BY <1>3 DEF VerifyFuncsConformToSubset, PhasesInv
<1>4. CASE VerifyPublicMonomorphizations
  BY <1>4 DEF VerifyPublicMonomorphizations, PhasesInv
<1>5. CASE CloneFunc
  <2>1. pc = "clone" /\ pc' = "clone" /\ rewritten' = rewritten
    BY <1>5 DEF CloneFunc
  <2> QED
    BY <2>1 DEF PhasesInv
<1>6. CASE AllCloned
  BY <1>6 DEF AllCloned, PhasesInv
<1>7. ASSUME NEW m \in DOMAIN newFuncs, RewriteMonomorphizedFuncClone(m) PROVE PhasesInv'
  <2>1. pc = "rewrite" /\ pc' \in {"rewrite", "assert"}
    BY <1>7 DEF RewriteMonomorphizedFuncClone
  <2> QED
    BY <2>1 DEF PhasesInv
<1>8. CASE CleanUpObjectGraph
  BY <1>8 DEF CleanUpObjectGraph, PhasesInv
<1>9. CASE UNCHANGED vars
  BY <1>9 DEF vars, PhasesInv
<1> QED
  BY <1>1, <1>2, <1>3, <1>4, <1>5, <1>6, <1>7, <1>8, <1>9 DEF Next, PassNext, Return

\* What VerifyPublicMonomorphizations counts.
LEMMA OneMonomorphization ==
  ASSUME TypeOK, NEW f, ~ (NumMonomorphizations(f) > 1), NEW m \in MonoSet, NEW n \in MonoSet,
         m.func = f, n.func = f
  PROVE  m = n
<1> DEFINE S == {k \in MonoSet : k.func = f}
<1>1. IsFiniteSet(MonoSet)
  <2>1. monomorphizations \in Seq(Monos(prog))
    BY DEF TypeOK
  <2>2. PICK l \in Nat : DOMAIN monomorphizations = 1 .. l
    BY <2>1, LenProperties
  <2>3. MonoSet = {monomorphizations[k] : k \in 1 .. l}
    BY <2>2 DEF MonoSet, ToSet
  <2>4. [k \in 1 .. l |-> monomorphizations[k]] \in Surjection(1 .. l, MonoSet)
    BY <2>3 DEF Surjection
  <2>5. ExistsSurjection(1 .. l, MonoSet)
    BY <2>4 DEF ExistsSurjection
  <2> QED
    BY <2>5, FS_NatSurjection
<1>2. S \in SUBSET MonoSet
  OBVIOUS
<1>3. IsFiniteSet(S) /\ Cardinality(S) \in Nat
  BY <1>1, <1>2, FS_Subset, FS_CardinalityType
<1>4. Cardinality(S) <= 1
  BY <1>3 DEF NumMonomorphizations, MonoSet
<1>5. m \in S /\ n \in S
  OBVIOUS
<1> HIDE DEF S
<1>6. Cardinality(S) # 0
  BY <1>3, <1>5, FS_EmptySet
<1>7. Cardinality(S) = 1
  BY <1>3, <1>4, <1>6
<1>8. PICK x : S = {x}
  BY <1>3, <1>7, FS_Singleton
<1> QED
  BY <1>5, <1>8

LEMMA PublicInit == Init => PublicInv
BY DEF Init, PublicInv

LEMMA PublicNext == TypeOK /\ PublicInv /\ [Next]_vars => PublicInv'
<1> SUFFICES ASSUME TypeOK, PublicInv, [Next]_vars PROVE PublicInv'
  OBVIOUS
<1> USE DEF Fail, Goto, Abort
<1>1. CASE VerifyPublicMonomorphizations
  <2>1. UNCHANGED <<prog, monomorphizations>>
    BY <1>1 DEF VerifyPublicMonomorphizations, monoVars
  <2>2. ASSUME pc' \in {"clone", "rewrite", "done"}, NEW c \in DOMAIN prog.classes,
               NEW k \in DOMAIN prog.classes[c].methods, ~ prog.classes[c].methods[k].priv
        PROVE  ~ (NumMonomorphizations(prog.classes[c].methods[k].func) > 1)
    BY <1>1, <2>2 DEF VerifyPublicMonomorphizations
  <2>3. ASSUME pc' \in {"clone", "rewrite", "done"}, NEW c \in DOMAIN prog.classes,
               NEW k \in DOMAIN prog.classes[c].methods, ~ prog.classes[c].methods[k].priv,
               NEW m \in MonoSet, NEW n \in MonoSet, m.func = prog.classes[c].methods[k].func, n.func = m.func
        PROVE  m = n
    BY <2>2, <2>3, OneMonomorphization
  <2> QED
    BY <2>1, <2>3 DEF PublicInv, MonoSet
<1>2. CASE /\ UNCHANGED <<prog, monomorphizations>>
           /\ pc' \in {"clone", "rewrite", "done"} => pc \in {"clone", "rewrite", "done"}
  BY <1>2 DEF PublicInv, MonoSet
<1>3. CASE pc' \notin {"clone", "rewrite", "done"}
  BY <1>3 DEF PublicInv
<1>4. GraphNext \/ MonoNext \/ VerifyFuncsConformToSubset => pc' \notin {"clone", "rewrite", "done"}
  BY DEF GraphNext, FindRootNnModule, VisitModuleSlot, VisitValueSlot, LeaveModule, MonoNext, InitializeFunc,
         InitializeDone, PopDirty, VisitOp, FinishMonomorphization, WorklistDone, VerifyFuncsConformToSubset
<1>5. CloneFunc \/ AllCloned \/ CleanUpObjectGraph =>
        UNCHANGED <<prog, monomorphizations>> /\ pc \in {"clone", "rewrite", "done"}
  BY DEF CloneFunc, AllCloned, CleanUpObjectGraph, monoVars
<1>6. \A m \in DOMAIN newFuncs : RewriteMonomorphizedFuncClone(m) =>
        UNCHANGED <<prog, monomorphizations>> /\ pc \in {"clone", "rewrite", "done"}
  BY DEF RewriteMonomorphizedFuncClone, monoVars
<1>7. CASE UNCHANGED vars
  BY <1>2, <1>7 DEF vars, monoVars
<1> QED
  BY <1>1, <1>2, <1>3, <1>4, <1>5, <1>6, <1>7 DEF Next, PassNext, Return

-----------------------------------------------------------------------------
\* The bodies.

LEMMA BodiesInit == Init => BodiesInv
<1> SUFFICES ASSUME Init PROVE BodiesInv
  OBVIOUS
<1>1. DOMAIN newFuncs = {} /\ rewritten = {}
  BY DEF Init, EmptyMap
<1> QED
  BY <1>1 DEF BodiesInv

LEMMA BodiesUnchanged ==
  ASSUME BodiesInv, UNCHANGED <<prog, newFuncs, rewritten>>
  PROVE  BodiesInv'
<1>1. (\A f : Arguments(f)' = Arguments(f)) /\ \A m : CallsBound(m)' <=> CallsBound(m)
  BY DEF Arguments, CallsBound, BoundCall
<1> QED
  BY <1>1 DEF BodiesInv

LEMMA BodiesCloned ==
  ASSUME PhasesInv, BodiesInv, CloneFunc
  PROVE  BodiesInv'
<1> DEFINE m == monomorphizations[nextClone]
<1>1. rewritten = {} /\ rewritten' = {} /\ prog' = prog
  BY DEF CloneFunc, PhasesInv
<1>2. /\ DOMAIN newFuncs' = DOMAIN newFuncs \cup {m}
      /\ newFuncs'[m].params = Arguments(m.func)
      /\ newFuncs'[m].body = prog.body[m.func]
      /\ \A k \in DOMAIN newFuncs : k # m => newFuncs'[k] = newFuncs[k]
  BY DEF CloneFunc, Put, Arguments
<1>3. \A f : Arguments(f)' = Arguments(f)
  BY <1>1 DEF Arguments
<1> HIDE DEF m
<1> QED
  BY <1>1, <1>2, <1>3 DEF BodiesInv

\* A clone is rewritten: its calls are bound, and those of the others stay bound,
\* since no clone changes its name.
LEMMA BodiesRewritten ==
  ASSUME TypeOK, WorklistInv, ClonesInv, PhasesInv, BodiesInv, NEW m \in DOMAIN newFuncs,
         RewriteMonomorphizedFuncClone(m)
  PROVE  BodiesInv'
<1>1. pc = "rewrite" /\ m \in DOMAIN newFuncs \ rewritten /\ prog' = prog /\ prog \in Programs
  BY DEF RewriteMonomorphizedFuncClone, TypeOK
<1>2. CASE pc' = "assert"
  <2>1. UNCHANGED <<prog, newFuncs, rewritten>>
    BY <1>1, <1>2 DEF RewriteMonomorphizedFuncClone
  <2> QED
    BY <2>1, BodiesUnchanged
<1>3. CASE pc' # "assert"
  <2> DEFINE body == prog.body[m.func]
             args == Arguments(m.func)
  <2>1. newFuncs[m].params = args /\ newFuncs[m].body = body
    BY <1>1 DEF BodiesInv
  <2>2. /\ newFuncs' = [newFuncs EXCEPT ![m] =
               [name |-> @.name, priv |-> @.priv,
                params |-> Filter(@.params, ToSet(@.params) \ ModuleArgs(prog, m.func)),
                body |-> RewriteBody(m, @.body)]]
        /\ rewritten' = rewritten \cup {m}
    BY <1>3 DEF RewriteMonomorphizedFuncClone, Abort
  <2>3. /\ DOMAIN newFuncs' = DOMAIN newFuncs
        /\ newFuncs'[m].name = newFuncs[m].name
        /\ newFuncs'[m].params = Filter(args, ToSet(args) \ ModuleArgs(prog, m.func))
        /\ newFuncs'[m].body = RewriteBody(m, body)
        /\ \A k \in DOMAIN newFuncs : k # m => newFuncs'[k] = newFuncs[k]
    BY <2>1, <2>2
  <2>4. \A k \in DOMAIN newFuncs : newFuncs'[k].name = newFuncs[k].name
    BY <2>3
  <2>5. (\A f : Arguments(f)' = Arguments(f)) /\ \A k : DOMAIN newFuncs = DOMAIN newFuncs'
    BY <1>1, <2>3 DEF Arguments
  <2> HIDE DEF args
  <2>6. ASSUME NEW n \in DOMAIN newFuncs, NEW op \in ToSet(prog.body[n.func]), op.kind = "call", NEW new,
               BoundCall(n, op, new)
        PROVE  BoundCall(n, op, new)'
    <3>1. MonomorphizationForCall(prog, n, op) \in CalleesOf(prog, n)
      BY <2>6 DEF CalleesOf, CallOps, ToSet
    <3>2. MonomorphizationForCall(prog, n, op) \in DOMAIN newFuncs
      BY <1>1, <3>1, CalleesCloned
    <3> QED
      BY <1>1, <2>4, <2>6, <3>2 DEF BoundCall
  <2>7. \A n \in DOMAIN newFuncs : prog.body[n.func] \in Seq(ToSet(prog.body[n.func]))
    <3> TAKE n \in DOMAIN newFuncs
    <3>1. n.func \in ToSet(prog.funcs)
      BY <1>1, MonoFunc DEF TypeOK
    <3> QED
      BY <1>1, <3>1, ProgramsWellFormed
  <2>8. \A n \in DOMAIN newFuncs : \A k \in DOMAIN Calls(prog.body[n.func]) :
          /\ Calls(prog.body[n.func])[k] \in ToSet(prog.body[n.func])
          /\ Calls(prog.body[n.func])[k].kind = "call"
    <3> SUFFICES ASSUME NEW n \in DOMAIN newFuncs, NEW k \in DOMAIN Calls(prog.body[n.func])
                 PROVE  /\ Calls(prog.body[n.func])[k] \in ToSet(prog.body[n.func])
                        /\ Calls(prog.body[n.func])[k].kind = "call"
      OBVIOUS
    <3>1. PICK b \in Seq(ToSet(prog.body[n.func])) : b = prog.body[n.func]
      BY <2>7
    <3>2. PICK S : S = ToSet(b)
      OBVIOUS
    <3>3. Calls(b) \in Seq({op \in S : op.kind = "call"})
      BY <3>1, <3>2, CallsOfRewritten
    <3>4. Calls(b)[k] \in {op \in S : op.kind = "call"}
      BY <3>1, <3>3, LenProperties, ElementOfSeq
    <3> QED
      BY <3>1, <3>2, <3>4
  <2>9. ASSUME NEW n \in rewritten, n # m PROVE CallsBound(n)'
    <3>1. n \in DOMAIN newFuncs /\ newFuncs'[n] = newFuncs[n]
      BY <2>3, <2>9 DEF TypeOK
    <3>2. CallsBound(n)
      BY <2>9 DEF BodiesInv
    <3> QED
      BY <1>1, <2>6, <2>8, <3>1, <3>2 DEF CallsBound
  <2>10. CallsBound(m)'
    <3>1. PICK b \in Seq(ToSet(body)) : b = body
      BY <2>7
    <3>2. /\ Len(Calls(RewriteBody(m, b))) = Len(Calls(b))
          /\ \A k \in DOMAIN Calls(b) : BoundCall(m, Calls(b)[k], Calls(RewriteBody(m, b))[k])
      BY <3>1, CallsOfRewritten
    <3> QED
      BY <1>1, <2>3, <2>6, <2>8, <3>1, <3>2 DEF CallsBound
  <2>11. ASSUME NEW n \in rewritten'
         PROVE  /\ newFuncs'[n].params = Filter(Arguments(n.func), ToSet(Arguments(n.func)) \ ModuleArgs(prog, n.func))
                /\ CallsBound(n)'
    <3>1. CASE n = m
      BY <2>3, <2>10, <3>1 DEF args
    <3>2. CASE n # m
      <4>1. n \in rewritten /\ n \in DOMAIN newFuncs
        BY <2>2, <2>11, <3>2 DEF TypeOK
      <4> QED
        BY <2>3, <2>9, <3>2, <4>1 DEF BodiesInv
    <3> QED
      BY <3>1, <3>2
  <2>12. \A n \in DOMAIN newFuncs' \ rewritten' :
           newFuncs'[n].params = Arguments(n.func) /\ newFuncs'[n].body = prog.body[n.func]
    BY <2>2, <2>3 DEF BodiesInv
  <2> QED
    BY <1>1, <2>5, <2>11, <2>12 DEF BodiesInv
<1> QED
  BY <1>2, <1>3

LEMMA BodiesNext ==
  TypeOK /\ WorklistInv /\ ClonesInv /\ PhasesInv /\ BodiesInv /\ [Next]_vars => BodiesInv'
<1> SUFFICES ASSUME TypeOK, WorklistInv, ClonesInv, PhasesInv, BodiesInv, [Next]_vars PROVE BodiesInv'
  OBVIOUS
<1>1. CASE GraphNext /\ UNCHANGED <<monoVars, newFuncs, nextClone, uniquifier, rewritten>>
  <2>1. UNCHANGED prog
    BY <1>1 DEF GraphNext, FindRootNnModule, VisitModuleSlot, VisitValueSlot, LeaveModule
  <2> QED
    BY <1>1, <2>1, BodiesUnchanged
<1>2. CASE MonoNext /\ UNCHANGED <<graphVars, newFuncs, nextClone, uniquifier, rewritten>>
  <2>1. UNCHANGED prog
    BY <1>2 DEF MonoNext, InitializeFunc, InitializeDone, PopDirty, VisitOp, FinishMonomorphization, WorklistDone
  <2> QED
    BY <1>2, <2>1, BodiesUnchanged
<1>3. CASE VerifyFuncsConformToSubset \/ VerifyPublicMonomorphizations \/ AllCloned \/ CleanUpObjectGraph
  BY <1>3, BodiesUnchanged DEF VerifyFuncsConformToSubset, VerifyPublicMonomorphizations, AllCloned, CleanUpObjectGraph
<1>4. CASE CloneFunc
  BY <1>4, BodiesCloned
<1>5. CASE \E m \in DOMAIN newFuncs : RewriteMonomorphizedFuncClone(m)
  BY <1>5, BodiesRewritten
<1>6. CASE UNCHANGED vars
  BY <1>6, BodiesUnchanged DEF vars
<1> QED
  BY <1>1, <1>2, <1>3, <1>4, <1>5, <1>6 DEF Next, PassNext, Return

\* Two clones of one name are of one private method and one receiver.
LEMMA NamesClash ==
  ASSUME TypeOK, ClonesInv, GraphInv, NamesInv, PublicInv, pc = "rewrite",
         NEW m \in DOMAIN newFuncs, NEW n \in DOMAIN newFuncs, newFuncs[m].name = newFuncs[n].name, m # n
  PROVE  /\ IsMethod(m) /\ m.func = n.func /\ m.inst[1] = n.inst[1]
         /\ \A method \in ToSet(MethodsOf(prog, m.inst[1])) : method.func = m.func => method.priv
<1>1. prog \in Programs /\ m \in Monos(prog) /\ n \in Monos(prog) /\ m \in MonoSet /\ n \in MonoSet
  BY DEF TypeOK, ClonesInv, MonoSet, ToSet
<1>2. /\ \A f, u : FreeName(f, u).uniq = u
      /\ \A path : LinkageName(path).uniq = -1 /\ LinkageName(path).path = path
  BY DEF FreeName, LinkageName
<1>3. CASE ~ IsMethod(m) /\ ~ IsMethod(n)
  BY <1>3 DEF NamesInv
<1>4. ASSUME NEW k \in DOMAIN newFuncs, NEW l \in DOMAIN newFuncs, IsMethod(k), ~ IsMethod(l)
      PROVE  newFuncs[k].name # newFuncs[l].name
  <2>1. newFuncs[k].name.uniq = -1 /\ newFuncs[l].name.uniq \in Nat
    BY <1>2, <1>4 DEF NamesInv
  <2> QED
    BY <2>1
<1>5. CASE IsMethod(m) /\ IsMethod(n)
  <2> DEFINE i == m.inst[1]
             j == n.inst[1]
  <2>1. funcLinkageInfo[<<i, m.func>>].name = funcLinkageInfo[<<j, n.func>>].name
    BY <1>2, <1>5 DEF NamesInv
  <2>2. <<i, m.func>> \in DOMAIN funcLinkageInfo /\ <<j, n.func>> \in DOMAIN funcLinkageInfo
        /\ 1 \in DOMAIN m.inst /\ 1 \in DOMAIN n.inst
    BY <1>5 DEF IsMethod
  <2>3. MethodsOK(prog, seenNnModules, funcLinkageInfo) /\ SeenOK(prog, frames, seenNnModules)
    BY DEF GraphInv
  <2>4. i \in DOMAIN seenNnModules /\ j \in DOMAIN seenNnModules
    BY <2>2, <2>3 DEF MethodsOK
  <2>5. PICK k \in DOMAIN MethodsOf(prog, i) :
          /\ MethodsOf(prog, i)[k].func = m.func
          /\ funcLinkageInfo[<<i, m.func>>].name = Append(seenNnModules[i], MethodsOf(prog, i)[k].name)
    BY <2>2, <2>3 DEF MethodsOK
  <2>6. PICK l \in DOMAIN MethodsOf(prog, j) :
          /\ MethodsOf(prog, j)[l].func = n.func
          /\ funcLinkageInfo[<<j, n.func>>].name = Append(seenNnModules[j], MethodsOf(prog, j)[l].name)
    BY <2>2, <2>3 DEF MethodsOK
  <2>7. PICK a : a = MethodsOf(prog, i)[k].name
    OBVIOUS
  <2>8. PICK b : b = MethodsOf(prog, j)[l].name
    OBVIOUS
  <2>9. seenNnModules[i] = seenNnModules[j] /\ a = b
    <3>1. PICK S : S = AttrNames(prog) \cup {a, b}
      OBVIOUS
    <3>2. a \in S /\ b \in S
      BY <3>1
    <3>3. PICK u \in Seq(S) : u = seenNnModules[i]
      BY <2>3, <2>4, <3>1 DEF SeenOK
    <3>4. PICK v \in Seq(S) : v = seenNnModules[j]
      BY <2>3, <2>4, <3>1 DEF SeenOK
    <3>5. Append(u, a) = Append(v, b)
      BY <2>1, <2>5, <2>6, <2>7, <2>8, <3>3, <3>4
    <3> HIDE DEF i, j
    <3>6. u = v /\ a = b
      BY <3>2, <3>5, AppendIsOne, SMTT(20)
    <3> QED
      BY <3>3, <3>4, <3>6
  <2>10. i = j /\ i \in Mods(prog)
    BY <2>3, <2>4, <2>9 DEF SeenOK
  <2>11. k = l
    BY <1>1, <2>7, <2>8, <2>9, <2>10, MethodsAreSeq
  <2>12. m.func = n.func
    BY <2>5, <2>6, <2>10, <2>11
  <2>13. PICK c \in DOMAIN prog.classes : c = prog.classOf[i]
    BY <1>1, <2>10, ProgramsWellFormed
  <2>14. ASSUME NEW method \in ToSet(MethodsOf(prog, i)), method.func = m.func PROVE method.priv
    <3>1. PICK l2 \in DOMAIN prog.classes[c].methods : prog.classes[c].methods[l2] = method
      BY <2>13 DEF MethodsOf, ToSet
    <3> QED
      BY <1>1, <2>12, <2>14, <3>1 DEF PublicInv
  <2> QED
    BY <1>5, <2>10, <2>12, <2>14
<1> QED
  BY <1>3, <1>4, <1>5

\* A call passes as many values as the clone of its callee takes.
LEMMA ArgumentsMatch ==
  ASSUME TypeOK, NEW m \in Monos(prog), NEW op \in ToSet(prog.body[m.func]), op.kind = "call"
  PROVE  Len(Filter(op.args, {v \in ToSet(op.args) : ~ IsModuleValue(prog, m.func, v)}))
           = Len(Filter(Arguments(op.callee), ToSet(Arguments(op.callee)) \ ModuleArgs(prog, op.callee)))
<1> DEFINE A == {v \in ToSet(op.args) : ~ IsModuleValue(prog, m.func, v)}
           B == ToSet(Arguments(op.callee)) \ ModuleArgs(prog, op.callee)
<1>1. prog \in Programs /\ m.func \in ToSet(prog.funcs)
  BY MonoFunc DEF TypeOK
<1>2. IsCallOp(prog, m.func, op) /\ op.callee \in ToSet(prog.funcs)
  BY <1>1, CalleeIsFunc
<1>3. PICK n \in Nat : n = prog.arity[op.callee]
  BY <1>1, <1>2, ProgramsWellFormed
<1>4. PICK S : S = DOMAIN prog.types[m.func]
  OBVIOUS
<1>5. op.args \in Seq(S) /\ Len(op.args) = n
      /\ \A i \in DOMAIN op.args : prog.types[m.func][op.args[i]] = prog.types[op.callee][i]
  BY <1>2, <1>3, <1>4 DEF IsCallOp
<1>6. DOMAIN op.args = 1 .. n
  BY <1>5, LenProperties
<1>7. PICK t : t = Arguments(op.callee)
  OBVIOUS
<1>8. t \in Seq(Nat) /\ Len(t) = n /\ DOMAIN t = 1 .. n /\ \A k \in 1 .. n : t[k] = k
  <2>1. t = [k \in 1 .. n |-> k]
    BY <1>3, <1>7 DEF Arguments
  <2> QED
    BY <1>3, <2>1
<1>9. ASSUME NEW k \in 1 .. n PROVE op.args[k] \in A <=> t[k] \in B
  <2>1. op.args[k] \in ToSet(op.args) /\ t[k] \in ToSet(t) /\ t[k] = k
    BY <1>6, <1>8 DEF ToSet
  <2>2. op.args[k] \in A <=> ~ IsModuleType(prog, prog.types[m.func][op.args[k]])
    BY <2>1 DEF IsModuleValue
  <2>3. t[k] \in B <=> ~ IsModuleType(prog, prog.types[op.callee][k])
    BY <1>3, <1>7, <2>1 DEF IsModuleValue, ModuleArgs
  <2> QED
    BY <1>5, <1>6, <2>2, <2>3
<1> HIDE DEF A, B
<1>10. Len(Filter(op.args, A)) = Len(Filter(t, B))
  BY <1>5, <1>8, <1>9, FilterLength
<1> QED
  BY <1>7, <1>10 DEF A, B

\* What the verifier has let through.
UniqueInv == pc = "done" => SymbolsAreUnique

LEMMA UniqueInit == Init => UniqueInv
BY DEF Init, UniqueInv

LEMMA UniqueNext == UniqueInv /\ [Next]_vars => UniqueInv'
<1> SUFFICES ASSUME UniqueInv, [Next]_vars PROVE UniqueInv'
  OBVIOUS
<1> USE DEF Fail, Goto, Abort
<1>1. CASE CleanUpObjectGraph
  BY <1>1 DEF CleanUpObjectGraph, UniqueInv, SymbolsAreUnique
<1>2. CASE UNCHANGED vars
  BY <1>2 DEF vars, UniqueInv, SymbolsAreUnique
<1>3. CASE pc' # "done"
  BY <1>3 DEF UniqueInv
<1>4. GraphNext \/ MonoNext \/ VerifyFuncsConformToSubset \/ VerifyPublicMonomorphizations => pc' # "done"
  BY DEF GraphNext, FindRootNnModule, VisitModuleSlot, VisitValueSlot, LeaveModule, MonoNext, InitializeFunc,
         InitializeDone, PopDirty, VisitOp, FinishMonomorphization, WorklistDone, VerifyFuncsConformToSubset,
         VerifyPublicMonomorphizations
<1>5. CloneFunc \/ AllCloned \/ (\E m \in DOMAIN newFuncs : RewriteMonomorphizedFuncClone(m)) => pc' # "done"
  BY DEF CloneFunc, AllCloned, RewriteMonomorphizedFuncClone
<1> QED
  BY <1>1, <1>2, <1>3, <1>4, <1>5 DEF Next, PassNext, Return

BindInv ==
  WorklistInv /\ ClonesInv /\ PhasesInv /\ BodiesInv /\ NamesInv /\ PublicInv /\ UniqueInv /\ GraphInv

LEMMA BoundAtEnd ==
  ASSUME TypeOK, BindInv
  PROVE  CallsBindToTheirCallee
<1> USE DEF BindInv
<1>1. CallTargetsCloned
  BY CalleesCloned DEF CallTargetsCloned
<1>2. ASSUME pc = "done", NEW m \in DOMAIN newFuncs, NEW k \in DOMAIN Calls(prog.body[m.func]),
             NEW op, op = Calls(prog.body[m.func])[k], NEW new, new = Calls(newFuncs[m].body)[k],
             NEW callee, callee = MonomorphizationForCall(prog, m, op)
      PROVE  /\ {n \in DOMAIN newFuncs : newFuncs[n].name = new.callee} = {callee}
             /\ Len(new.args) = Len(newFuncs[callee].params)
  <2>1. prog \in Programs /\ m \in Monos(prog) /\ m \in rewritten /\ rewritten = DOMAIN newFuncs
    BY <1>2 DEF TypeOK, PhasesInv
  <2>2. BoundCall(m, op, new)
    BY <1>2, <2>1 DEF BodiesInv, CallsBound
  <2>3. op \in ToSet(prog.body[m.func]) /\ op.kind = "call"
    <3>1. m.func \in ToSet(prog.funcs)
      BY <2>1, MonoFunc
    <3>2. PICK b \in Seq(ToSet(prog.body[m.func])) : b = prog.body[m.func]
      BY <2>1, <3>1, ProgramsWellFormed
    <3>3. PICK S : S = ToSet(b)
      OBVIOUS
    <3>4. Calls(b) \in Seq({o \in S : o.kind = "call"})
      BY <3>2, <3>3, CallsOfRewritten
    <3>5. Calls(b)[k] \in {o \in S : o.kind = "call"}
      BY <1>2, <3>2, <3>4, LenProperties, ElementOfSeq
    <3> QED
      BY <1>2, <3>2, <3>3, <3>5
  <2>4. callee \in DOMAIN newFuncs
    <3>1. callee \in CalleesOf(prog, m)
      BY <1>2, <2>3 DEF CalleesOf, CallOps, ToSet
    <3> QED
      BY <1>2, <3>1, CalleesCloned
  <2>5. new.callee = newFuncs[callee].name
    BY <1>2, <2>2 DEF BoundCall
  <2>6. {n \in DOMAIN newFuncs : newFuncs[n].name = new.callee} = {callee}
    BY <1>2, <2>4, <2>5 DEF UniqueInv, SymbolsAreUnique
  <2>7. callee.func = op.callee
    BY <1>2 DEF MonomorphizationForCall
  <2>8. newFuncs[callee].params
          = Filter(Arguments(op.callee), ToSet(Arguments(op.callee)) \ ModuleArgs(prog, op.callee))
    BY <2>1, <2>4, <2>7 DEF BodiesInv
  <2>9. new.args = Filter(op.args, {v \in ToSet(op.args) : ~ IsModuleValue(prog, m.func, v)})
    BY <2>2 DEF BoundCall
  <2>10. Len(new.args) = Len(newFuncs[callee].params)
    BY <2>1, <2>3, <2>8, <2>9, ArgumentsMatch
  <2> QED
    BY <2>6, <2>10
<1>3. OnlyPrivateMethodsClash
  BY NamesClash DEF OnlyPrivateMethodsClash
<1> QED
  BY <1>1, <1>2, <1>3 DEF CallsBindToTheirCallee

\* Every call of a rewritten clone names one clone, the one made for the function
\* and the instances the call passed, and passes the arguments that are left of
\* it.  Programs in which a name could be that of two clones are refused; they
\* are those that call a private method with one receiver and several other
\* instances.
THEOREM CallsBind == Spec => []CallsBindToTheirCallee
<1>1. Init => TypeOK /\ BindInv
  BY TypeInit, WorklistInit, ClonesInit, PhasesInit, BodiesInit, NamesInit, PublicInit, UniqueInit, GraphInvInit DEF BindInv
<1>2. TypeOK /\ BindInv /\ [Next]_vars => TypeOK' /\ BindInv'
  BY TypeNext, WorklistNext, ClonesNext, PhasesNext, BodiesNext, NamesNext, PublicNext, UniqueNext, GraphInvNext DEF BindInv
<1>3. TypeOK /\ BindInv => CallsBindToTheirCallee
  BY BoundAtEnd
<1> QED
  BY <1>1, <1>2, <1>3, PTL DEF Spec

=============================================================================
