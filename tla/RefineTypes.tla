------------------------------ MODULE RefineTypes ------------------------------
(***************************************************************************)
(* The pass torch-refine-types: a forward dataflow analysis attaches facts *)
(* (ValueKnowledge) to the values of a function, then `optimize` changes   *)
(* result types to the facts and casts where a user cannot take the change.*)
(*                                                                         *)
(* A program is [args : types of the function's arguments, ops : Seq].  An *)
(* op is [kind, args, dims, type]: the numbers of its operands (arguments  *)
(* first, then results in program order), its constant int operands, the   *)
(* type of its result (an op without a result has one nobody uses).  Where *)
(* control flow meets, an op joins its operands:                           *)
(*   "block_arg"  argument of a block, an operand for each branch to it    *)
(*   "if"         result of prim.If, operands: the values of the two yields*)
(*   "loop_arg"   argument of a prim.Loop body, <<initial value, yielded>> *)
(*   "loop"       result of that prim.Loop, the same operands; dims of     *)
(*                both is <<the op number of the other>>                   *)
(* MLIR's ForwardDataFlowAnalysis, which drives the analysis, is external: *)
(* it visits what a changed fact is used by, in an order not modelled.     *)
(***************************************************************************)
EXTENDS ValueKnowledge, FiniteSets

CONSTANTS
  Programs,
  Null       \* the fact of a value the analysis has not reached

VARIABLES
  prog,
  pc,        \* "analyze", "optimize", "done"
  lattice,   \* value -> the fact found, or Null
  pending,   \* <<op, 0>> to be visited, <<joining op, operand>> to be joined
  nextOp,    \* the walk of optimize
  types,     \* value -> its type in the IR
  form       \* use <<op, operand>> -> the value itself, the cast of it that
             \* adds the facts, or the cast back to the original type

vars == <<prog, pc, lattice, pending, nextOp, types, form>>

Joining == {"block_arg", "if", "loop_arg", "loop"}

Ops(p) == DOMAIN p.ops
Result(p, n) == Len(p.args) + n
Values(p) == 1 .. Len(p.args) + Len(p.ops)
Uses(p) == UNION {{<<n, i>> : i \in DOMAIN p.ops[n].args} : n \in Ops(p)}
UsesOf(p, v) == {use \in Uses(p) : p.ops[use[1]].args[use[2]] = v}

\* The type a value is declared with.
DeclaredType(p, v) == IF v <= Len(p.args) THEN p.args[v] ELSE p.ops[v - Len(p.args)].type

ASSUME NullAssumption == Null \notin Knowledge

\* Operands are values of the program, an op has the operands its definition
\* asks for, and constant operands are integers.
ASSUME ProgramsWellFormed ==
  \A p \in Programs :
    /\ p.args \in Seq(Knowledge)
    /\ DOMAIN p.ops = 1 .. Len(p.ops) /\ Len(p.ops) \in Nat
    /\ \A n \in Ops(p) :
         LET op == p.ops[n]
         IN /\ op.args \in Seq(Values(p)) /\ op.dims \in Seq(Int) /\ op.type \in Knowledge
            /\ op.kind \in Understood \cup Joining => op.args # <<>>
            /\ op.kind \in {"loop_arg", "loop"} => Len(op.args) = 2 /\ op.dims[1] \in Ops(p)
            /\ op.kind \in SameAsOperand => Len(op.args) = 1
            /\ op.kind \in {"mm", "conv2d", "add"} => Len(op.args) = 2
            /\ op.kind \in {"linear", "lerp"} => Len(op.args) = 3
            /\ op.kind = "flatten" => Len(op.dims) \in {0, 2}

\* getSuccessorRegions: which operands flow into the result.  The result of a
\* loop gets what the body yields; the initial value enters the body only.
Incoming(op) == IF op.kind = "loop" THEN {2} ELSE DOMAIN op.args

\* What has to be visited when the fact of v has changed.
Users(p, v) ==
  {IF p.ops[use[1]].kind \in Joining THEN use ELSE <<use[1], 0>> :
     use \in {u \in UsesOf(p, v) : p.ops[u[1]].kind \in Joining => u[2] \in Incoming(p.ops[u[1]])}}

\* The arguments are all that is known: their types.  What can be visited is
\* what uses them, and the ops without operands.
Init ==
  /\ prog \in Programs
  /\ pc = "analyze"
  /\ lattice = [v \in Values(prog) |-> IF v <= Len(prog.args) THEN DeclaredType(prog, v) ELSE Null]
  /\ pending = {<<n, 0>> : n \in {m \in Ops(prog) : prog.ops[m].args = <<>>}} \cup
                 UNION {Users(prog, v) : v \in 1 .. Len(prog.args)}
  /\ nextOp = 1
  /\ types = [v \in Values(prog) |-> DeclaredType(prog, v)]
  /\ form = [use \in Uses(prog) |-> "itself"]

-----------------------------------------------------------------------------
\* The analysis

\* LatticeElement::join: nothing changes once the fact is that of the declared
\* type ("at fixpoint"); the first fact is taken as it is.
LatticeJoin(v, fact) ==
  CASE lattice[v] = Null                  -> fact
    [] lattice[v] = DeclaredType(prog, v) -> lattice[v]
    [] OTHER                              -> Join(lattice[v], fact)

\* Faulty: the users of a changed fact are not visited.
UpdateQuietly(visit, v, fact) ==
  /\ lattice' = [lattice EXCEPT ![v] = LatticeJoin(v, fact)]
  /\ pending' = pending \ {visit}

\* Faulty: they are visited whether or not it has.
UpdateAlways(visit, v, fact) ==
  /\ lattice' = [lattice EXCEPT ![v] = LatticeJoin(v, fact)]
  /\ pending' = (pending \ {visit}) \cup Users(prog, v)

Update(visit, v, fact) ==
  /\ lattice' = [lattice EXCEPT ![v] = LatticeJoin(v, fact)]
  /\ pending' = (pending \ {visit}) \cup
       (IF lattice'[v] = lattice[v] THEN {} ELSE Users(prog, v))

OperandFacts(n) == [i \in DOMAIN prog.ops[n].args |-> lattice[prog.ops[n].args[i]]]

\* visitOperation; an op that is not understood is marked as having reached
\* a pessimistic fixpoint.  An op waits for all its operands.
VisitOperation(n) ==
  LET op == prog.ops[n]
      k  == OperandFacts(n)
  IN /\ pc = "analyze"
     /\ <<n, 0>> \in pending
     /\ IF \E i \in DOMAIN k : k[i] = Null
        THEN pending' = pending \ {<<n, 0>>} /\ UNCHANGED lattice
        ELSE Update(<<n, 0>>, Result(prog, n),
               IF op.kind \in Understood THEN Transfer(op.kind, k, op.dims) ELSE op.type)
     /\ UNCHANGED <<prog, pc, nextOp, types, form>>

\* A branch or a yield forwards operand i to the value it flows into.
VisitSuccessor(n, i) ==
  LET fact == lattice[prog.ops[n].args[i]]
  IN /\ pc = "analyze"
     /\ <<n, i>> \in pending
     /\ i # 0
     /\ IF fact = Null
        THEN pending' = pending \ {<<n, i>>} /\ UNCHANGED lattice
        ELSE Update(<<n, i>>, Result(prog, n), fact)
     /\ UNCHANGED <<prog, pc, nextOp, types, form>>

AnalysisDone ==
  /\ pc = "analyze"
  /\ pending = {}
  /\ pc' = "optimize"
  /\ UNCHANGED <<prog, lattice, pending, nextOp, types, form>>

-----------------------------------------------------------------------------
\* The rewriting

\* allowsTypeRefinementOrWillBeOtherwiseSafelyRefined: ops with the trait
\* AllowsTypeRefinement, and the copies.
AllowsTypeRefinement(kind) == kind \in Understood \cup {"literal"}

\* Faulty: every user takes the change.
RefineUsesAll(v, new) ==
  form' = [use \in Uses(prog) |-> IF use \in UsesOf(prog, v) THEN new ELSE form[use]]

\* "If the use can be updated to the new type directly, do it!"  Other users
\* get a value of the original type.
RefineUses(v, new) ==
  form' = [use \in Uses(prog) |->
             IF use \notin UsesOf(prog, v) THEN form[use]
             ELSE IF AllowsTypeRefinement(prog.ops[use[1]].kind) THEN new ELSE "erased"]

\* Faulty: the type of a copy is not changed in place, its operand's is.
OptimizeResultTraitOnly ==
  /\ pc = "optimize"
  /\ nextOp <= Len(prog.ops)
  /\ nextOp' = nextOp + 1
  /\ LET v    == Result(prog, nextOp)
         kind == prog.ops[nextOp].kind
     IN IF kind \in {"block_arg", "loop_arg"} \/ lattice[v] \in {Null, types[v]}
        THEN UNCHANGED <<types, form>>
        ELSE IF AllowsTypeRefinement(kind) /\ kind # "copy"
             THEN types' = [types EXCEPT ![v] = lattice[v]] /\ RefineUses(v, "itself")
             ELSE RefineUses(v, "refined") /\ UNCHANGED types
  /\ UNCHANGED <<prog, pc, lattice, pending>>

\* optimize for the result of one op.  Arguments of blocks are no results.
OptimizeResult ==
  /\ pc = "optimize"
  /\ nextOp <= Len(prog.ops)
  /\ nextOp' = nextOp + 1
  /\ LET v    == Result(prog, nextOp)
         kind == prog.ops[nextOp].kind
     IN IF kind \in {"block_arg", "loop_arg"} \/ lattice[v] \in {Null, types[v]}
        THEN UNCHANGED <<types, form>>
        ELSE IF AllowsTypeRefinement(kind)
             THEN types' = [types EXCEPT ![v] = lattice[v]] /\ RefineUses(v, "itself")
             ELSE RefineUses(v, "refined") /\ UNCHANGED types
  /\ UNCHANGED <<prog, pc, lattice, pending>>

OptimizeDone ==
  /\ pc = "optimize"
  /\ nextOp > Len(prog.ops)
  /\ pc' = "done"
  /\ UNCHANGED <<prog, lattice, pending, nextOp, types, form>>

Terminated == pc = "done" /\ UNCHANGED vars

PassNext ==
  \/ \E visit \in pending : VisitOperation(visit[1]) \/ VisitSuccessor(visit[1], visit[2])
  \/ AnalysisDone
  \/ OptimizeResult
  \/ OptimizeDone

Next == PassNext \/ Terminated

\* The pass is one thread that runs until it returns.
Spec == Init /\ [][Next]_vars /\ WF_vars(PassNext)

-----------------------------------------------------------------------------
\* Properties

TypeOK ==
  /\ pc \in {"analyze", "optimize", "done"}
  /\ DOMAIN lattice = Values(prog) /\ DOMAIN types = Values(prog)
  /\ \A v \in Values(prog) : lattice[v] = Null \/ lattice[v] \in Knowledge
  /\ \A v \in Values(prog) : types[v] \in Knowledge
  /\ pending \subseteq (Ops(prog) \X {0}) \cup Uses(prog)
  /\ nextOp \in 1 .. Len(prog.ops) + 1
  /\ form \in [Uses(prog) -> {"itself", "refined", "erased"}]

\* The type a user finds at its operand.
TypeSeen(use) ==
  LET v == prog.ops[use[1]].args[use[2]]
  IN CASE form[use] = "itself"  -> types[v]
       [] form[use] = "refined" -> lattice[v]
       [] form[use] = "erased"  -> DeclaredType(prog, v)

\* The verifier of an op that does not allow refinement (a return, a call, a
\* branch, a yield) still accepts it: its operands have the types they had.
UsersKeepTheirTypes ==
  pc = "done" =>
    \A use \in Uses(prog) :
      ~ AllowsTypeRefinement(prog.ops[use[1]].kind) =>
        TypeSeen(use) = DeclaredType(prog, prog.ops[use[1]].args[use[2]])

\* Where a fact is a guess: different facts meet; the dtype of one operand is
\* taken for that of both; lerp does not look at its third operand.
IsGuess(n) ==
  LET op == prog.ops[n]
      k  == OperandFacts(n)
  IN \/ op.kind \in Joining /\ Cardinality(ToSet(k)) > 1
     \/ op.kind = "add" /\ NoDtype \in {k[1].dtype, k[2].dtype} /\ k[1].dtype # k[2].dtype
     \/ op.kind = "lerp"

\* The values that do not depend on one.
Certain ==
  LET tainted[j \in Nat] ==
        IF j = 0 THEN {Result(prog, n) : n \in {m \in Ops(prog) : IsGuess(m)}}
        ELSE LET before == tainted[j - 1]
             IN before \cup {Result(prog, n) : n \in
                  {m \in Ops(prog) : ToSet(prog.ops[m].args) \cap before # {}}}
  IN Values(prog) \ tainted[Len(prog.ops)]

\* When the analysis is over every value has a fact, and no fact is left
\* behind: that of a result is the one its operands' final facts give, in
\* whatever order they were found.
FactsAreUpToDate ==
  pc # "analyze" =>
    /\ \A v \in Values(prog) : lattice[v] # Null
    /\ \A n \in Ops(prog) :
         Result(prog, n) \in Certain =>
           LET op == prog.ops[n]
           IN lattice[Result(prog, n)] =
                CASE op.kind \in Joining    -> lattice[op.args[1]]
                  [] op.kind \in Understood -> Transfer(op.kind, OperandFacts(n), op.dims)
                  [] OTHER                  -> op.type

\* "Their operand and result types must have the same shape and dtype -- we
\* know that our transfer functions and updating logic will do the right
\* thing for those ops": copy.to_tensor and copy.to_vtensor.
CopyTypesAgree ==
  pc = "done" =>
    \A n \in Ops(prog) :
      prog.ops[n].kind = "copy" => TypeSeen(<<n, 1>>) = types[Result(prog, n)]

\* ... which holds when what is copied is no block argument.
CopiedResultTypesAgree ==
  pc = "done" =>
    \A n \in Ops(prog) :
      LET v == prog.ops[n].args[1]
          ofBlock == v > Len(prog.args) /\ prog.ops[v - Len(prog.args)].kind \in {"block_arg", "loop_arg"}
      IN prog.ops[n].kind = "copy" /\ v \in Certain /\ ~ ofBlock =>
           TypeSeen(<<n, 1>>) = types[Result(prog, n)]

\* The analysis comes to an end.
Termination == <>(pc = "done")

=============================================================================
