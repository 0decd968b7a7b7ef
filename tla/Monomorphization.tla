-------------------------- MODULE Monomorphization --------------------------
(***************************************************************************)
(* class MonomorphizationTracker and the helpers it uses.  A               *)
(* monomorphization is [func, inst]: a function together with the          *)
(* instance each of its module-typed arguments stands for (argInstances,   *)
(* keyed by the index of the argument).                                    *)
(***************************************************************************)
EXTENDS TorchProgram

VARIABLES
  monomorphizations,       \* the SetVector: insertion order, no duplicates
  dirtyMonomorphizations,  \* the LIFO worklist
  nextFunc,                \* initialize's loop over the funcs
  cur,                     \* the argument of generateNewMonomorphizations
  nextOp                   \* the op of cur's function to visit next

monoVars == <<monomorphizations, dirtyMonomorphizations, nextFunc, cur, nextOp>>

\* The well-formed monomorphizations of a program.
Monos(p) ==
  UNION {[func : {f}, inst : [ModuleArgs(p, f) -> Mods(p)]] : f \in ToSet(p.funcs)}

MonoInit ==
  /\ monomorphizations = <<>>
  /\ dirtyMonomorphizations = <<>>
  /\ nextFunc = 1
  /\ cur = Null
  /\ nextOp = 1

\* analyzeInstances: the instance every SSA value of m.func denotes, Null for
\* a value the analysis does not know.
AnalyzeInstances(p, m) ==
  LET args == [v \in DOMAIN p.types[m.func] |->
                 IF v \in DOMAIN m.inst THEN m.inst[v] ELSE Null]
      visit(mapping, op) ==
        IF op.kind = "get" /\ IsModuleValue(p, m.func, op.dst)
             /\ mapping[op.recv] # Null
        THEN [mapping EXCEPT ![op.dst] = SlotValue(p, mapping[op.recv], op.attr)]
        ELSE mapping
  IN FoldLeft(visit, args, p.body[m.func])

\* The assertion of analyzeInstances: a module-typed GetAttr whose receiver
\* is not mapped.
AnalysisAborts(p, m) ==
  \E op \in ToSet(p.body[m.func]) :
    /\ op.kind = "get"
    /\ IsModuleValue(p, m.func, op.dst)
    /\ AnalyzeInstances(p, m)[op.recv] = Null

\* createMonomorphizationForCall: what a call op of m's function calls.
MonomorphizationForCall(p, m, op) ==
  [func |-> op.callee,
   inst |-> [i \in ModuleArgs(p, op.callee) |-> AnalyzeInstances(p, m)[op.args[i]]]]

\* Faulty: the assertion is compiled out.
IsResolvedUnchecked(p, m) == TRUE

\* Its assertion: every module-typed operand is mapped.
IsResolved(p, m) == \A i \in DOMAIN m.inst : m.inst[i] \in Mods(p)

\* Every monomorphization that m's function calls.
CallOps(p, f) == {k \in DOMAIN p.body[f] : p.body[f][k].kind = "call"}
CalleesOf(p, m) ==
  {MonomorphizationForCall(p, m, p.body[m.func][k]) : k \in CallOps(p, m.func)}

\* Functions each of whose instance arguments can only be one instance.
CanTriviallyMonomorphize(p, f) ==
  \A i \in ModuleArgs(p, f) : \E m \in Mods(p) : InstancesOfClass(p, p.types[f][i]) = {m}

TrivialMonomorphization(p, f) ==
  [func |-> f,
   inst |-> [i \in ModuleArgs(p, f) |->
               CHOOSE m \in Mods(p) : InstancesOfClass(p, p.types[f][i]) = {m}]]

InitializeFunc ==
  /\ pc = "initialize"
  /\ nextFunc <= Len(prog.funcs)
  /\ nextFunc' = nextFunc + 1
  /\ LET f == prog.funcs[nextFunc]
         m == TrivialMonomorphization(prog, f)
     IN IF CanTriviallyMonomorphize(prog, f)
        THEN /\ monomorphizations' = Append(monomorphizations, m)
             /\ dirtyMonomorphizations' = Append(dirtyMonomorphizations, m)
        ELSE UNCHANGED <<monomorphizations, dirtyMonomorphizations>>
  /\ UNCHANGED <<prog, pc, diag, cur, nextOp>>

InitializeDone ==
  /\ pc = "initialize"
  /\ nextFunc > Len(prog.funcs)
  /\ Goto("monomorphize")
  /\ UNCHANGED <<prog, monoVars>>

\* Faulty: the oldest is analyzed, the newest popped.
PopDirtyOldest ==
  /\ pc = "monomorphize"
  /\ dirtyMonomorphizations # <<>>
  /\ dirtyMonomorphizations' = Front(dirtyMonomorphizations)
  /\ cur' = Head(dirtyMonomorphizations)
  /\ nextOp' = 1
  /\ IF AnalysisAborts(prog, Head(dirtyMonomorphizations)) THEN Abort ELSE Goto("generate")
  /\ UNCHANGED <<prog, monomorphizations, nextFunc>>

\* Faulty: it is analyzed and not popped.
PopDirtyKeep ==
  /\ pc = "monomorphize"
  /\ dirtyMonomorphizations # <<>>
  /\ cur' = Last(dirtyMonomorphizations)
  /\ nextOp' = 1
  /\ IF AnalysisAborts(prog, Last(dirtyMonomorphizations)) THEN Abort ELSE Goto("generate")
  /\ UNCHANGED <<prog, monomorphizations, dirtyMonomorphizations, nextFunc>>

\* Pop the newest dirty monomorphization and analyze its function.
PopDirty ==
  /\ pc = "monomorphize"
  /\ dirtyMonomorphizations # <<>>
  /\ dirtyMonomorphizations' = Front(dirtyMonomorphizations)
  /\ cur' = Last(dirtyMonomorphizations)
  /\ nextOp' = 1
  /\ IF AnalysisAborts(prog, Last(dirtyMonomorphizations)) THEN Abort ELSE Goto("generate")
  /\ UNCHANGED <<prog, monomorphizations, nextFunc>>

\* Walk over an op: the callee of a call that is not known yet becomes dirty.
VisitOp ==
  /\ pc = "generate"
  /\ nextOp <= Len(prog.body[cur.func])
  /\ LET op == prog.body[cur.func][nextOp]
         m  == MonomorphizationForCall(prog, cur, op)
     IN \/ /\ op.kind # "call"
           /\ nextOp' = nextOp + 1
           /\ UNCHANGED <<pc, diag, monomorphizations, dirtyMonomorphizations>>
        \/ /\ op.kind = "call"
           /\ ~ IsResolved(prog, m)
           /\ Abort
           /\ UNCHANGED <<nextOp, monomorphizations, dirtyMonomorphizations>>
        \/ /\ op.kind = "call"
           /\ IsResolved(prog, m)
           /\ nextOp' = nextOp + 1
           /\ IF m \in ToSet(monomorphizations)
              THEN UNCHANGED <<monomorphizations, dirtyMonomorphizations>>
              ELSE /\ monomorphizations' = Append(monomorphizations, m)
                   /\ dirtyMonomorphizations' = Append(dirtyMonomorphizations, m)
           /\ UNCHANGED <<pc, diag>>
  /\ UNCHANGED <<prog, nextFunc, cur>>

FinishMonomorphization ==
  /\ pc = "generate"
  /\ nextOp > Len(prog.body[cur.func])
  /\ cur' = Null
  /\ Goto("monomorphize")
  /\ UNCHANGED <<prog, monomorphizations, dirtyMonomorphizations, nextFunc, nextOp>>

WorklistDone ==
  /\ pc = "monomorphize"
  /\ dirtyMonomorphizations = <<>>
  /\ Goto("verifyPublic")
  /\ UNCHANGED <<prog, monoVars>>

MonoNext ==
  InitializeFunc \/ InitializeDone \/ PopDirty \/ VisitOp \/ FinishMonomorphization
    \/ WorklistDone

=============================================================================
