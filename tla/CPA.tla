-------------------------------- MODULE CPA --------------------------------
(***************************************************************************)
(* The pass npcomp-cpa-type-inference: constraints between type nodes are  *)
(* collected from the ops of a function, the value types that flow into    *)
(* each node are propagated along them (Context), the constraints are      *)
(* closed under transitivity (PropagationWorklist), and each type variable *)
(* is resolved to the one value type found for it.                         *)
(*                                                                         *)
(* A constraint `from <: to` is the pair <<from, to>>.  Nodes are type     *)
(* variables (an IR value of unknown type, an unknown dtype), IR types     *)
(* (uniqued: one node per type) and array objects with one field, the      *)
(* node of their dtype.                                                    *)
(***************************************************************************)
EXTENDS Integers, Sequences, FiniteSets, SequencesExt

CONSTANTS
  TypeVars, IRTypes, Arrays,
  Field,      \* array -> its dtype's node
  Funcs  \* the functions: [values, equations], the nodes of the IR values
              \* and the constraints the ops give rise to, in walk order

ValueTypes == IRTypes \cup Arrays
Nodes == TypeVars \cup ValueTypes

ASSUME CPAAssumption ==
  /\ IsFiniteSet(TypeVars) /\ IsFiniteSet(ValueTypes)
  /\ TypeVars \cap ValueTypes = {} /\ IRTypes \cap Arrays = {}
  /\ Field \in [Arrays -> TypeVars \cup IRTypes]
  /\ \A f \in Funcs : f.values \subseteq Nodes /\ f.equations \in Seq(Nodes \X Nodes)

\* mapValueToType enters a value's node in the environment before a constraint
\* is made of it, or of the dtype it has.
ASSUME EquationsRelateValues ==
  \A f \in Funcs : \A i \in 1 .. Len(f.equations) :
    LET Known == f.values \cup {Field[a] : a \in f.values \cap Arrays}
    IN f.equations[i][1] \in Known /\ f.equations[i][2] \in Known

VARIABLES
  func,                       \* the function being inferred
  pc,
  nextEquation,               \* the walk over the ops
  constraints,                \* the constraint graph, env.getConstraints()
  typeNodeMembers,            \* node -> the value types known to flow into it
  pendingConstraints,
  pendingConstraintWorklist,
  caller,                     \* the pc getConstraint returns to
  currentConstraints,         \* PropagationWorklist's set
  join,                       \* the pairs propagateTransitivity goes over
  newConstraintCount,
  unresolved                  \* the values whose type is still to be resolved

propVars == <<typeNodeMembers, pendingConstraints, pendingConstraintWorklist>>
vars == <<func, pc, nextEquation, constraints, propVars, caller, currentConstraints,
          join, newConstraintCount, unresolved>>

Init ==
  /\ func \in Funcs
  /\ pc = "walk"
  /\ nextEquation = 1
  /\ constraints = {}
  /\ typeNodeMembers = [n \in Nodes |-> {}]
  /\ pendingConstraints = {}
  /\ pendingConstraintWorklist = {}
  /\ caller = "walk"
  /\ currentConstraints = {}
  /\ join = {}
  /\ newConstraintCount = 0
  /\ unresolved = {}

-----------------------------------------------------------------------------
\* Context

\* getConstraint: a constraint that is not in the graph yet is added to it and
\* propagated before the caller goes on.
GetConstraint(c, label) ==
  IF c \in constraints
  THEN pc' = label /\ UNCHANGED <<constraints, pendingConstraints, caller>>
  ELSE /\ constraints' = constraints \cup {c}
       /\ pendingConstraints' = pendingConstraints \cup {c}
       /\ pc' = "propagate"
       /\ caller' = label

\* Swap for stable iteration; return when nothing is pending.
SwapWorklist ==
  /\ pc = "propagate"
  /\ pendingConstraintWorklist = {}
  /\ IF pendingConstraints = {}
     THEN /\ pc' = caller
          /\ UNCHANGED <<pendingConstraints, pendingConstraintWorklist>>
     ELSE /\ pendingConstraintWorklist' = pendingConstraints
          /\ pendingConstraints' = {}
          /\ UNCHANGED pc
  /\ UNCHANGED <<func, nextEquation, constraints, typeNodeMembers, caller, currentConstraints,
                 join, newConstraintCount, unresolved>>

\* Faulty: the 'to' is part of its own set.
IdentityOfTo(c) == {c[2]} \cap ValueTypes

\* "If the 'from' is a ValueType, consider it part of its own set."
Identity(c) == {c[1]} \cap ValueTypes

\* The flag `modified`: the insertion of the identity overwrites what the
\* insertion of the members has set.
Modified(c) ==
  IF Identity(c) # {}
  THEN ~ Identity(c) \subseteq typeNodeMembers[c[2]] \cup typeNodeMembers[c[1]]
  ELSE ~ typeNodeMembers[c[1]] \subseteq typeNodeMembers[c[2]]

\* One iteration; the order of the set of pointers is unspecified.
PropagateConstraint(c) ==
  /\ pc = "propagate"
  /\ c \in pendingConstraintWorklist
  /\ pendingConstraintWorklist' = pendingConstraintWorklist \ {c}
  /\ typeNodeMembers' = [typeNodeMembers EXCEPT ![c[2]] = @ \cup typeNodeMembers[c[1]] \cup Identity(c)]
  /\ pendingConstraints' =
       IF Modified(c) THEN pendingConstraints \cup {d \in constraints : d[1] = c[2]}
                      ELSE pendingConstraints
  /\ UNCHANGED <<func, pc, nextEquation, constraints, caller, currentConstraints, join,
                 newConstraintCount, unresolved>>

-----------------------------------------------------------------------------
\* InitialConstraintGenerator

WalkOp ==
  /\ pc = "walk"
  /\ nextEquation <= Len(func.equations)
  /\ nextEquation' = nextEquation + 1
  /\ GetConstraint(func.equations[nextEquation], "walk")
  /\ UNCHANGED <<func, typeNodeMembers, pendingConstraintWorklist, currentConstraints, join,
                 newConstraintCount, unresolved>>

WalkDone ==
  /\ pc = "walk"
  /\ nextEquation > Len(func.equations)
  /\ pc' = "transitivity"
  /\ currentConstraints' = constraints
  /\ UNCHANGED <<func, nextEquation, constraints, propVars, caller, join, newConstraintCount,
                 unresolved>>

-----------------------------------------------------------------------------
\* PropagationWorklist

\* propagateTransitivity: a value type below a variable is below what the
\* variable is below.
PrepareJoin ==
  /\ pc = "transitivity"
  /\ join' = {<<p[1][1], p[2][2]>> :
                p \in {q \in currentConstraints \X currentConstraints :
                       q[1][1] \in ValueTypes /\ q[1][2] \in TypeVars /\ q[2][1] = q[1][2]}}
  /\ pc' = "expand"
  /\ UNCHANGED <<func, nextEquation, constraints, propVars, caller, currentConstraints,
                 newConstraintCount, unresolved>>

\* The maps are DenseMaps: their order is unspecified.
ExpandJoin(c) ==
  /\ pc = "expand"
  /\ c \in join
  /\ join' = join \ {c}
  /\ currentConstraints' = currentConstraints \cup {c}
  /\ newConstraintCount' = newConstraintCount + (IF c \in currentConstraints THEN 0 ELSE 1)
  /\ GetConstraint(c, "expand")
  /\ UNCHANGED <<func, nextEquation, typeNodeMembers, pendingConstraintWorklist, unresolved>>

\* Faulty: the count is not reset.
CommitNoReset ==
  /\ pc = "expand" /\ join = {}
  /\ IF newConstraintCount > 0
     THEN pc' = "transitivity" /\ UNCHANGED unresolved
     ELSE pc' = "resolve" /\ unresolved' = func.values
  /\ UNCHANGED <<func, nextEquation, constraints, propVars, caller, currentConstraints, join,
                 newConstraintCount>>

Commit ==
  /\ pc = "expand" /\ join = {}
  /\ newConstraintCount' = 0
  /\ IF newConstraintCount > 0
     THEN pc' = "transitivity" /\ UNCHANGED unresolved
     ELSE pc' = "resolve" /\ unresolved' = func.values
  /\ UNCHANGED <<func, nextEquation, constraints, propVars, caller, currentConstraints, join>>

-----------------------------------------------------------------------------
\* GreedyTypeNodeVarResolver

\* collectDependentTypeVars
DependentTypeVars(n) ==
  (IF n \in Arrays THEN {Field[n]} ELSE {n}) \cap TypeVars

\* Faulty: the first of several candidates is taken.
HasTypeFirst(t) == typeNodeMembers[t] # {}

\* unionCandidateTypes: exactly one candidate.
HasType(t) == Cardinality(typeNodeMembers[t]) = 1
Mapping(t) == CHOOSE v \in typeNodeMembers[t] : TRUE

\* The variables analyzeTypeNode gets to from node n.
AnalyzedVars(n) ==
  LET reached[k \in Nat] ==
        IF k = 0 THEN DependentTypeVars(n)
        ELSE LET seen == reached[k - 1]
             IN seen \cup UNION {DependentTypeVars(Mapping(t)) : t \in {u \in seen : HasType(u)}}
  IN reached[Cardinality(TypeVars)]

\* analyzeTypeNode of one value after the other, in the order of a DenseMap;
\* the type of a value all of whose variables are mapped is constructed.
ResolveValue(n) ==
  /\ pc = "resolve"
  /\ n \in unresolved
  /\ IF \A t \in AnalyzedVars(n) : HasType(t)
     THEN unresolved' = unresolved \ {n} /\ UNCHANGED pc
     ELSE pc' = "failure" /\ UNCHANGED unresolved
  /\ UNCHANGED <<func, nextEquation, constraints, propVars, caller, currentConstraints, join,
                 newConstraintCount>>

ResolveDone ==
  /\ pc = "resolve"
  /\ unresolved = {}
  /\ pc' = "success"
  /\ UNCHANGED <<func, nextEquation, constraints, propVars, caller, currentConstraints, join,
                 newConstraintCount, unresolved>>

Terminated == pc \in {"success", "failure"}

Return == Terminated /\ UNCHANGED vars

PassNext ==
  \/ WalkOp \/ WalkDone
  \/ SwapWorklist \/ \E c \in pendingConstraintWorklist : PropagateConstraint(c)
  \/ PrepareJoin \/ (\E c \in join : ExpandJoin(c)) \/ Commit
  \/ (\E n \in unresolved : ResolveValue(n)) \/ ResolveDone

Next == PassNext \/ Return

\* The pass is one thread that runs until it returns.
Spec == Init /\ [][Next]_vars /\ WF_vars(PassNext)

-----------------------------------------------------------------------------
\* Properties

\* The state is of the expected shape; only value types are members.
TypeOK ==
  /\ func \in Funcs
  /\ pc \in {"walk", "propagate", "transitivity", "expand", "resolve", "success", "failure"}
  /\ caller \in {"walk", "expand"}
  /\ nextEquation \in 1 .. Len(func.equations) + 1
  /\ constraints \subseteq Nodes \X Nodes
  /\ typeNodeMembers \in [Nodes -> SUBSET ValueTypes]
  /\ pendingConstraints \subseteq constraints
  /\ pendingConstraintWorklist \subseteq constraints
  /\ currentConstraints \subseteq constraints
  /\ join \subseteq Nodes \X Nodes
  /\ newConstraintCount \in Nat
  /\ unresolved \subseteq Nodes

\* The value types that flow into node n along the constraints of set C: those
\* from which a path of constraints leads to n.
FlowsInto(C, n) ==
  LET Below(ns) == {c[1] : c \in {d \in C : d[2] \in ns}}
      below[k \in Nat] ==
        IF k = 0 THEN Below({n}) ELSE LET ns == below[k - 1] IN ns \cup Below(ns)
  IN below[Cardinality(Nodes)] \cap ValueTypes

Equations == ToSet(func.equations)

\* No type is made up: what is a member of a node flows into it along the
\* constraints of the ops, whatever was added and propagated in whatever order.
MembersFlow ==
  \A n \in Nodes : typeNodeMembers[n] \subseteq FlowsInto(Equations, n)

\* "The default hook will only allow memberships of 1": a variable is given a
\* type that flows into it; the pass fails only if the types that flow into
\* some variable are none or several; and, provided that nothing flows into a
\* known type (propagation may then stop early), the pass succeeds only if each
\* variable's type is the one that flows into it.
VerdictRight ==
  LET Vars == UNION {DependentTypeVars(n) : n \in func.values}
      IntoKnownType == \E c \in Equations : c[2] \in ValueTypes
  IN /\ pc = "success" => \A t \in Vars : Mapping(t) \in FlowsInto(Equations, t)
     /\ pc = "success" /\ ~ IntoKnownType => \A t \in Vars : FlowsInto(Equations, t) = {Mapping(t)}
     /\ pc = "failure" => \E t \in Vars : Cardinality(FlowsInto(Equations, t)) # 1

\* The pass returns: neither propagation nor the closure goes on for ever.
Termination == <> Terminated

=============================================================================
