------------------------------ MODULE CPAProofs ------------------------------
(***************************************************************************)
(* Theorems about the CPA pass, for any functions, type variables and      *)
(* types.                                                                  *)
(***************************************************************************)
EXTENDS CPA, InductionLemmas

\* The relations that a flow of types from node to node has to respect: those
\* that hold wherever an op says so, and are transitive.
FlowRelations ==
  {R \in SUBSET (Nodes \X Nodes) :
     /\ Equations \subseteq R
     /\ \A a, b, c \in Nodes : <<a, b>> \in R /\ <<b, c>> \in R => <<a, c>> \in R}

\* What is derived is in the least of them: every constraint that the closure
\* has added or is about to add, and every membership.
Derived ==
  \A R \in FlowRelations :
    /\ constraints \subseteq R
    /\ join \subseteq R
    /\ \A n \in Nodes : \A v \in typeNodeMembers[n] : <<v, n>> \in R

-----------------------------------------------------------------------------
\* Type correctness

LEMMA GetConstraintTypes ==
  ASSUME TypeOK, NEW c \in Nodes \X Nodes, NEW label \in {"walk", "expand"}, GetConstraint(c, label)
  PROVE  /\ constraints' = constraints \cup {c}
         /\ constraints' \subseteq Nodes \X Nodes
         /\ pendingConstraints' \subseteq constraints'
         /\ pendingConstraintWorklist \subseteq constraints'
         /\ pc' \in {"propagate", "walk", "expand"}
         /\ caller' \in {"walk", "expand"}
BY DEF GetConstraint, TypeOK

LEMMA EquationTypes ==
  ASSUME NEW f \in Funcs
  PROVE  /\ Len(f.equations) \in Nat
         /\ \A i \in 1 .. Len(f.equations) : f.equations[i] \in Nodes \X Nodes
         /\ ToSet(f.equations) = {f.equations[i] : i \in 1 .. Len(f.equations)}
         /\ f.values \subseteq Nodes
<1>1. f.equations \in Seq(Nodes \X Nodes) /\ f.values \subseteq Nodes
  BY CPAAssumption
<1> QED
  BY <1>1 DEF ToSet

LEMMA InitTypes == Init => TypeOK
<1> SUFFICES ASSUME Init PROVE TypeOK
  OBVIOUS
<1>1. 1 \in 1 .. Len(func.equations) + 1
  BY EquationTypes DEF Init
<1> QED
  BY <1>1 DEF Init, TypeOK

LEMMA NextTypes == TypeOK /\ [Next]_vars => TypeOK'
<1> SUFFICES ASSUME TypeOK, [Next]_vars PROVE TypeOK'
  OBVIOUS
<1>1. CASE UNCHANGED vars
  BY <1>1 DEF TypeOK, vars, propVars
<1>2. CASE WalkOp
  <2>1. nextEquation \in 1 .. Len(func.equations) /\ func.equations[nextEquation] \in Nodes \X Nodes
        /\ Len(func.equations) \in Nat
    BY <1>2, EquationTypes DEF WalkOp, TypeOK
  <2>2. GetConstraint(func.equations[nextEquation], "walk") /\ nextEquation' = nextEquation + 1
        /\ UNCHANGED <<func, typeNodeMembers, pendingConstraintWorklist, currentConstraints, join,
                       newConstraintCount, unresolved>>
    BY <1>2 DEF WalkOp
  <2>3. PICK c \in Nodes \X Nodes : c = func.equations[nextEquation]
    BY <2>1
  <2>4. /\ constraints' = constraints \cup {c} /\ constraints' \subseteq Nodes \X Nodes
        /\ pendingConstraints' \subseteq constraints' /\ pendingConstraintWorklist \subseteq constraints'
        /\ pc' \in {"propagate", "walk", "expand"} /\ caller' \in {"walk", "expand"}
    BY <2>2, <2>3, GetConstraintTypes
  <2> QED
    BY <2>1, <2>2, <2>4 DEF TypeOK
<1>3. CASE WalkDone
  BY <1>3 DEF TypeOK, WalkDone, propVars
<1>4. CASE SwapWorklist
  BY <1>4 DEF TypeOK, SwapWorklist
<1>5. ASSUME NEW c \in pendingConstraintWorklist, PropagateConstraint(c) PROVE TypeOK'
  <2>1. c \in constraints /\ c[1] \in Nodes /\ c[2] \in Nodes
    BY DEF TypeOK
  <2>2. Identity(c) \subseteq ValueTypes
    BY DEF Identity
  <2>3. typeNodeMembers' \in [Nodes -> SUBSET ValueTypes]
    BY <1>5, <2>1, <2>2 DEF PropagateConstraint, TypeOK
  <2>4. pendingConstraints' \subseteq constraints
    BY <1>5 DEF PropagateConstraint, TypeOK
  <2> QED
    BY <1>5, <2>3, <2>4 DEF PropagateConstraint, TypeOK
<1>6. CASE PrepareJoin
  <2>1. join' \subseteq Nodes \X Nodes
    BY <1>6 DEF PrepareJoin, TypeOK
  <2> QED
    BY <1>6, <2>1 DEF PrepareJoin, TypeOK, propVars
<1>7. ASSUME NEW c \in join, ExpandJoin(c) PROVE TypeOK'
  <2>1. c \in Nodes \X Nodes
    BY DEF TypeOK
  <2>2. GetConstraint(c, "expand")
    BY <1>7 DEF ExpandJoin
  <2>3. /\ constraints' = constraints \cup {c} /\ constraints' \subseteq Nodes \X Nodes
        /\ pendingConstraints' \subseteq constraints' /\ pendingConstraintWorklist \subseteq constraints'
        /\ pc' \in {"propagate", "walk", "expand"} /\ caller' \in {"walk", "expand"}
    BY <2>1, <2>2, GetConstraintTypes
  <2>4. newConstraintCount' \in Nat
    BY <1>7 DEF ExpandJoin, TypeOK
  <2> QED
    BY <1>7, <2>3, <2>4 DEF ExpandJoin, TypeOK
<1>8. CASE Commit
  <2>1. func.values \subseteq Nodes
    BY EquationTypes DEF TypeOK
  <2> QED
    BY <1>8, <2>1 DEF Commit, TypeOK, propVars
<1>9. ASSUME NEW n \in unresolved, ResolveValue(n) PROVE TypeOK'
  BY <1>9 DEF ResolveValue, TypeOK, propVars
<1>10. CASE ResolveDone
  BY <1>10 DEF ResolveDone, TypeOK, propVars
<1> QED
  BY <1>1, <1>2, <1>3, <1>4, <1>5, <1>6, <1>7, <1>8, <1>9, <1>10 DEF Next, PassNext, Return

\* Every state of the pass is of the expected shape; in particular only value
\* types become members, and what is pending are constraints of the graph.
THEOREM CPATypeCorrect == Spec => []TypeOK
BY InitTypes, NextTypes, PTL DEF Spec

-----------------------------------------------------------------------------
\* Nothing is made up

LEMMA InitDerived == Init => Derived
BY DEF Init, Derived

LEMMA NextDerived == TypeOK /\ Derived /\ [Next]_vars => Derived'
<1> SUFFICES ASSUME TypeOK, Derived, [Next]_vars,
                    NEW R \in FlowRelations', NEW S \in SUBSET (Nodes \X Nodes), S = R
             PROVE  /\ (constraints \subseteq S)'
                    /\ (join \subseteq S)'
                    /\ \A n \in Nodes : \A v \in typeNodeMembers'[n] : <<v, n>> \in S
  BY DEF Derived, FlowRelations
<1>1. func' = func
  BY DEF Next, PassNext, Return, vars, WalkOp, WalkDone, SwapWorklist, PropagateConstraint, PrepareJoin,
         ExpandJoin, Commit, ResolveValue, ResolveDone
<1>2. S \in FlowRelations
  BY <1>1 DEF FlowRelations, Equations
<1>3. /\ constraints \subseteq S /\ join \subseteq S
      /\ \A n \in Nodes : \A v \in typeNodeMembers[n] : <<v, n>> \in S
  BY <1>2 DEF Derived
<1>4. /\ Equations \subseteq S
      /\ \A a, b, c \in Nodes : <<a, b>> \in S /\ <<b, c>> \in S => <<a, c>> \in S
  BY <1>2 DEF FlowRelations
<1>5. CASE UNCHANGED vars
  BY <1>3, <1>5 DEF vars, propVars
<1>6. CASE WalkOp
  <2>1. PICK c \in Nodes \X Nodes : c = func.equations[nextEquation] /\ c \in Equations
    BY <1>6, EquationTypes DEF WalkOp, TypeOK, Equations
  <2>2. constraints' = constraints \cup {c}
    BY <1>6, <2>1, GetConstraintTypes DEF WalkOp
  <2> QED
    BY <1>3, <1>4, <1>6, <2>1, <2>2 DEF WalkOp
<1>7. CASE WalkDone \/ SwapWorklist \/ Commit \/ ResolveDone \/ \E n \in unresolved : ResolveValue(n)
  <2>1. UNCHANGED <<constraints, join, typeNodeMembers>>
    BY <1>7 DEF WalkDone, SwapWorklist, Commit, ResolveDone, ResolveValue, propVars
  <2> QED
    BY <1>3, <2>1
<1>8. ASSUME NEW c \in pendingConstraintWorklist, PropagateConstraint(c)
      PROVE  /\ constraints' \subseteq S /\ join' \subseteq S
             /\ \A n \in Nodes : \A v \in typeNodeMembers'[n] : <<v, n>> \in S
  <2>1. PICK a \in Nodes, b \in Nodes : c = <<a, b>> /\ <<a, b>> \in S
    <3>1. c \in S /\ c \in Nodes \X Nodes
      BY <1>3 DEF TypeOK
    <3>2. c = <<c[1], c[2]>> /\ c[1] \in Nodes /\ c[2] \in Nodes
      BY <3>1
    <3> QED
      BY <3>1, <3>2
  <2>2. typeNodeMembers' = [typeNodeMembers EXCEPT ![b] = @ \cup typeNodeMembers[a] \cup ({a} \cap ValueTypes)]
    BY <1>8, <2>1 DEF PropagateConstraint, Identity
  <2>3. typeNodeMembers \in [Nodes -> SUBSET ValueTypes] /\ ValueTypes \subseteq Nodes
    BY DEF TypeOK, Nodes
  <2>4. ASSUME NEW n \in Nodes, NEW v \in typeNodeMembers'[n] PROVE <<v, n>> \in S
    <3>1. \/ v \in typeNodeMembers[n]
          \/ n = b /\ v \in typeNodeMembers[a]
          \/ n = b /\ v = a
      BY <2>2, <2>3, <2>4
    <3>2. v \in Nodes
      BY <2>1, <2>3, <3>1
    <3> QED
      BY <1>3, <1>4, <2>1, <3>1, <3>2
  <2> QED
    BY <1>3, <1>8, <2>4 DEF PropagateConstraint
<1>9. CASE PrepareJoin
  <2>1. ASSUME NEW e \in join' PROVE e \in S
    <3>1. PICK p \in currentConstraints \X currentConstraints :
            e = <<p[1][1], p[2][2]>> /\ p[2][1] = p[1][2]
      BY <1>9, <2>1 DEF PrepareJoin
    <3>2. p[1] \in constraints /\ p[2] \in constraints
      BY DEF TypeOK
    <3>3. PICK a \in Nodes, b \in Nodes, c \in Nodes : p[1] = <<a, b>> /\ p[2] = <<b, c>>
      BY <3>1, <3>2 DEF TypeOK
    <3>4. <<a, b>> \in S /\ <<b, c>> \in S /\ e = <<a, c>>
      BY <1>3, <3>1, <3>2, <3>3
    <3> QED
      BY <1>4, <3>4
  <2> QED
    BY <1>3, <1>9, <2>1 DEF PrepareJoin, propVars
<1>10. ASSUME NEW c \in join, ExpandJoin(c)
       PROVE  /\ constraints' \subseteq S /\ join' \subseteq S
              /\ \A n \in Nodes : \A v \in typeNodeMembers'[n] : <<v, n>> \in S
  <2>1. c \in Nodes \X Nodes /\ c \in S
    BY <1>3 DEF TypeOK
  <2>2. constraints' = constraints \cup {c}
    BY <1>10, <2>1, GetConstraintTypes DEF ExpandJoin
  <2> QED
    BY <1>3, <1>10, <2>1, <2>2 DEF ExpandJoin
<1> QED
  BY <1>5, <1>6, <1>7, <1>8, <1>9, <1>10 DEF Next, PassNext, Return

\* No type is made up: however constraints are ordered, propagated and closed
\* under transitivity, a value type is a member of a node only if the ops'
\* constraints and their transitivity alone say that it flows there, and so is
\* every constraint in the graph a consequence of them.
THEOREM NothingMadeUp == Spec => []Derived
BY InitTypes, NextTypes, InitDerived, NextDerived, PTL DEF Spec

-----------------------------------------------------------------------------
\* What flows into a node, by its definition

LEMMA NodesFinite == IsFiniteSet(Nodes) /\ IsFiniteSet(TypeVars) /\ IsFiniteSet(ValueTypes)
BY CPAAssumption, FS_Union DEF Nodes

\* The pairs of a set of constraints, against the direction in which types flow.
Against(C) == {<<c[2], c[1]>> : c \in C}

LEMMA AgainstPairs ==
  ASSUME NEW C \in SUBSET (Nodes \X Nodes)
  PROVE  \A m, p : <<m, p>> \in Against(C) <=> <<p, m>> \in C
<1>1. \A d \in C : d = <<d[1], d[2]>>
  OBVIOUS
<1>2. ASSUME NEW m, NEW p, <<m, p>> \in Against(C) PROVE <<p, m>> \in C
  BY <1>1, <1>2 DEF Against
<1>3. ASSUME NEW m, NEW p, <<p, m>> \in C PROVE <<m, p>> \in Against(C)
  BY <1>3 DEF Against
<1> QED
  BY <1>2, <1>3

LEMMA FlowsIntoClosure ==
  ASSUME NEW C \in SUBSET (Nodes \X Nodes), NEW n \in Nodes
  PROVE  \E B : /\ IsClosure(Nodes, Against(C), {p \in Nodes : <<p, n>> \in C}, B)
                /\ FlowsInto(C, n) = B \cap ValueTypes
<1> DEFINE Below(ns) == {c[1] : c \in {d \in C : d[2] \in ns}}
           below == CHOOSE below : below = [k \in Nat |->
                      IF k = 0 THEN Below({n}) ELSE LET ns == below[k - 1] IN ns \cup Below(ns)]
           base == {p \in Nodes : <<p, n>> \in C}
<1>1. \A ns : Below(ns) = {p \in Nodes : \E m \in ns : <<m, p>> \in Against(C)}
  <2>1. \A d \in C : d = <<d[1], d[2]>> /\ d[1] \in Nodes
    OBVIOUS
  <2>2. ASSUME NEW ns, NEW p, p \in Below(ns) PROVE p \in Nodes /\ \E m \in ns : <<p, m>> \in C
    <3>1. PICK d \in C : p = d[1] /\ d[2] \in ns
      BY <2>2
    <3> QED
      BY <2>1, <3>1
  <2>3. ASSUME NEW ns, NEW p, NEW m \in ns, <<p, m>> \in C PROVE p \in Below(ns)
    BY <2>3
  <2> HIDE DEF Below
  <2> QED
    BY <2>2, <2>3, AgainstPairs
<1>2. Below({n}) = base
  BY <1>1, AgainstPairs
<1> HIDE DEF Below
<1>3. PICK f \in [Nat -> SUBSET Nodes] : IsSearch(Nodes, Against(C), base, f)
  BY SearchExists
<1>4. f = [k \in Nat |-> IF k = 0 THEN Below({n}) ELSE LET ns == f[k - 1] IN ns \cup Below(ns)]
  <2>1. ASSUME NEW k \in Nat, k # 0 PROVE f[k] = f[k - 1] \cup Below(f[k - 1])
    <3>1. k - 1 \in Nat /\ (k - 1) + 1 = k
      BY <2>1
    <3> QED
      BY <1>1, <1>3, <3>1 DEF IsSearch
  <2> QED
    BY <1>2, <1>3, <2>1 DEF IsSearch
<1>5. below = [k \in Nat |-> IF k = 0 THEN Below({n}) ELSE LET ns == below[k - 1] IN ns \cup Below(ns)]
  BY <1>4
<1>6. FlowsInto(C, n) = below[Cardinality(Nodes)] \cap ValueTypes
  BY DEF FlowsInto, Below
<1> HIDE DEF below
<1>7. IsSearch(Nodes, Against(C), base, below)
  <2>1. below[0] = base
    BY <1>2, <1>5
  <2>2. ASSUME NEW k \in Nat PROVE below[k + 1] = below[k] \cup Below(below[k])
    <3>1. k + 1 \in Nat /\ k + 1 # 0 /\ (k + 1) - 1 = k
      OBVIOUS
    <3> QED
      BY <1>5, <3>1
  <2> QED
    BY <1>1, <2>1, <2>2 DEF IsSearch
<1>8. IsClosure(Nodes, Against(C), base, below[Cardinality(Nodes)])
  BY <1>7, NodesFinite, SearchEnds
<1> QED
  BY <1>6, <1>8

LEMMA EquationsTyped ==
  ASSUME func \in Funcs
  PROVE  Equations \in SUBSET (Nodes \X Nodes)
BY EquationTypes DEF Equations

\* Flowing along the constraints of the ops is a flow relation.
LEMMA FlowIsFlowRelation ==
  ASSUME func \in Funcs
  PROVE  \E R \in FlowRelations :
           \A n \in Nodes : \A v \in ValueTypes : <<v, n>> \in R => v \in FlowsInto(Equations, n)
<1> DEFINE Pred(n) == {p \in Nodes : <<p, n>> \in Equations}
           IsBelow(n, B) == /\ IsClosure(Nodes, Against(Equations), Pred(n), B)
                            /\ FlowsInto(Equations, n) = B \cap ValueTypes
           Below == [n \in Nodes |-> CHOOSE B : IsBelow(n, B)]
           R == {p \in Nodes \X Nodes : p[1] \in Below[p[2]]}
<1>1. ASSUME NEW n \in Nodes PROVE IsBelow(n, Below[n])
  <2>1. \E B : IsBelow(n, B)
    BY EquationsTyped, FlowsIntoClosure
  <2> HIDE DEF IsBelow
  <2> QED
    BY <2>1
<1> HIDE DEF Below
<1>2. \A a, b \in Nodes : <<a, b>> \in R <=> a \in Below[b]
  OBVIOUS
<1>3. Equations \subseteq R
  <2> SUFFICES ASSUME NEW e \in Equations PROVE e \in R
    OBVIOUS
  <2>1. PICK a \in Nodes, b \in Nodes : e = <<a, b>>
    BY EquationsTyped
  <2>2. a \in Below[b]
    BY <1>1, <2>1 DEF IsClosure
  <2> QED
    BY <1>2, <2>1, <2>2
<1>4. ASSUME NEW a \in Nodes, NEW b \in Nodes, NEW c \in Nodes, <<a, b>> \in R, <<b, c>> \in R
      PROVE  <<a, c>> \in R
  <2>1. a \in Below[b] /\ b \in Below[c]
    BY <1>2, <1>4
  <2>2. \A m \in Below[c], p \in Nodes : <<p, m>> \in Equations => p \in Below[c]
    BY <1>1, AgainstPairs, EquationsTyped DEF IsClosure
  <2>3. Pred(b) \subseteq Below[c] /\ Below[c] \in SUBSET Nodes
    BY <1>1, <2>1, <2>2 DEF IsClosure
  <2>4. \A m \in Below[c], p \in Nodes : <<m, p>> \in Against(Equations) => p \in Below[c]
    BY <2>2, AgainstPairs, EquationsTyped
  <2>5. Below[b] \subseteq Below[c]
    BY <1>1, <2>3, <2>4 DEF IsClosure
  <2> QED
    BY <1>2, <2>1, <2>5
<1>5. \A n \in Nodes : \A v \in ValueTypes : <<v, n>> \in R => v \in FlowsInto(Equations, n)
  <2> TAKE n \in Nodes
  <2> TAKE v \in ValueTypes
  <2>1. v \in Nodes
    BY DEF Nodes
  <2> QED
    BY <1>1, <1>2, <2>1
<1> HIDE DEF R
<1>6. R \in SUBSET (Nodes \X Nodes)
  BY DEF R
<1>7. R \in FlowRelations
  BY <1>3, <1>4, <1>6 DEF FlowRelations
<1> QED
  BY <1>5, <1>7

LEMMA DerivedFlows ==
  ASSUME TypeOK, Derived
  PROVE  MembersFlow
<1>1. PICK R \in FlowRelations :
        \A n \in Nodes : \A v \in ValueTypes : <<v, n>> \in R => v \in FlowsInto(Equations, n)
  BY FlowIsFlowRelation DEF TypeOK
<1>2. \A n \in Nodes : \A v \in typeNodeMembers[n] : <<v, n>> \in R
  BY <1>1 DEF Derived
<1>3. \A n \in Nodes : typeNodeMembers[n] \subseteq ValueTypes
  BY DEF TypeOK
<1> QED
  BY <1>1, <1>2, <1>3 DEF MembersFlow

\* No type is made up, in terms of paths: a member of a node is a value type from
\* which constraints of the ops lead to it.
THEOREM MembersFlowCorrect == Spec => []MembersFlow
BY CPATypeCorrect, NothingMadeUp, DerivedFlows, PTL

-----------------------------------------------------------------------------
\* Nothing is left out

WalkingOps == pc = "walk" \/ (pc = "propagate" /\ caller = "walk")

\* A value type has been told of every node it is below, or will be; when
\* nothing is being propagated, nothing is left to be.
Propagated ==
  /\ pc # "propagate" => pendingConstraints = {} /\ pendingConstraintWorklist = {}
  /\ \A c \in constraints :
       \/ c \in pendingConstraints
       \/ c \in pendingConstraintWorklist
       \/ Identity(c) \subseteq typeNodeMembers[c[2]]

\* Every op that has been walked over is in the graph, and the closure works on
\* the whole of it.
Collected ==
  /\ \A i \in 1 .. nextEquation - 1 : func.equations[i] \in constraints
  /\ ~ WalkingOps => nextEquation > Len(func.equations) /\ currentConstraints = constraints

\* What transitivity asks for is in the graph or in `extra`.
ClosedBut(extra) ==
  \A v \in ValueTypes, x \in TypeVars, y \in Nodes :
    <<v, x>> \in constraints /\ <<x, y>> \in constraints => <<v, y>> \in constraints \cup extra

\* A round that has added nothing so far has only `join` left to look at; the
\* last round has added nothing.
Closing ==
  /\ (pc = "expand" \/ (pc = "propagate" /\ caller = "expand")) /\ newConstraintCount = 0
       => ClosedBut(join)
  /\ pc \in {"resolve", "success", "failure"} => ClosedBut({})

\* A value is resolved when all that analyzeTypeNode gets to has a type.
Resolves(n) == \A x \in AnalyzedVars(n) : HasType(x)

Resolved ==
  /\ pc = "resolve" => \A n \in func.values \ unresolved : Resolves(n)
  /\ pc = "resolve" => unresolved \subseteq func.values
  /\ pc = "success" => \A n \in func.values : Resolves(n)
  /\ pc = "failure" => \E n \in func.values : ~ Resolves(n)

CompleteInv == TypeOK /\ Propagated /\ Collected /\ Closing /\ Resolved

LEMMA InitComplete == Init => CompleteInv
<1> SUFFICES ASSUME Init PROVE CompleteInv
  OBVIOUS
<1>1. TypeOK
  BY InitTypes
<1> QED
  BY <1>1 DEF Init, CompleteInv, Propagated, Collected, Closing, Resolved, WalkingOps

LEMMA PropagatedStep == CompleteInv /\ [Next]_vars => Propagated'
<1> SUFFICES ASSUME CompleteInv, [Next]_vars PROVE Propagated'
  OBVIOUS
<1>0. TypeOK /\ Propagated
  BY DEF CompleteInv
<1>1. CASE UNCHANGED vars
  BY <1>0, <1>1 DEF Propagated, vars, propVars, Identity
<1>2. CASE WalkOp \/ \E c \in join : ExpandJoin(c)
  <2>1. PICK c \in Nodes \X Nodes, label \in {"walk", "expand"} :
          /\ GetConstraint(c, label) /\ pc # "propagate"
          /\ UNCHANGED <<typeNodeMembers, pendingConstraintWorklist>>
    BY <1>0, <1>2, EquationTypes DEF WalkOp, ExpandJoin, TypeOK
  <2>2. /\ pendingConstraints = {} /\ pendingConstraintWorklist = {}
        /\ \A d \in constraints : Identity(d) \subseteq typeNodeMembers[d[2]]
    BY <1>0, <2>1 DEF Propagated
  <2> QED
    BY <2>1, <2>2 DEF Propagated, GetConstraint, Identity
<1>3. CASE SwapWorklist
  <2>1. caller \in {"walk", "expand"}
    BY <1>0 DEF TypeOK
  <2> QED
    BY <1>0, <1>3, <2>1 DEF SwapWorklist, Propagated, Identity
<1>4. ASSUME NEW c \in pendingConstraintWorklist, PropagateConstraint(c) PROVE Propagated'
  <2>1. c \in constraints /\ c[2] \in Nodes /\ Identity(c) \subseteq ValueTypes
    BY <1>0 DEF TypeOK, Identity
  <2>2. /\ Identity(c) \subseteq typeNodeMembers'[c[2]]
        /\ \A n \in Nodes : typeNodeMembers[n] \subseteq typeNodeMembers'[n]
    BY <1>0, <1>4, <2>1 DEF PropagateConstraint, TypeOK
  <2>3. pendingConstraints \subseteq pendingConstraints'
    BY <1>4 DEF PropagateConstraint
  <2>4. ASSUME NEW d \in constraints
        PROVE  \/ d \in pendingConstraints' \/ d \in pendingConstraintWorklist'
               \/ Identity(d) \subseteq typeNodeMembers'[d[2]]
    <3>1. d[2] \in Nodes
      BY <1>0 DEF TypeOK
    <3> QED
      BY <1>0, <1>4, <2>2, <2>3, <3>1 DEF Propagated, PropagateConstraint
  <2> QED
    BY <1>4, <2>4 DEF Propagated, PropagateConstraint, Identity
<1>5. CASE WalkDone \/ PrepareJoin \/ Commit \/ ResolveDone \/ \E n \in unresolved : ResolveValue(n)
  <2>1. pc # "propagate" /\ pc' # "propagate" /\ UNCHANGED <<constraints, propVars>>
    BY <1>5 DEF WalkDone, PrepareJoin, Commit, ResolveDone, ResolveValue
  <2> QED
    BY <1>0, <2>1 DEF Propagated, propVars, Identity
<1> QED
  BY <1>1, <1>2, <1>3, <1>4, <1>5 DEF Next, PassNext, Return

LEMMA CollectedStep == CompleteInv /\ [Next]_vars => Collected'
<1> SUFFICES ASSUME CompleteInv, [Next]_vars PROVE Collected'
  OBVIOUS
<1>0. TypeOK /\ Collected
  BY DEF CompleteInv
<1>1. CASE WalkOp
  <2>1. /\ nextEquation \in 1 .. Len(func.equations) /\ Len(func.equations) \in Nat
        /\ func.equations[nextEquation] \in Nodes \X Nodes
        /\ nextEquation' = nextEquation + 1 /\ func' = func
        /\ GetConstraint(func.equations[nextEquation], "walk")
    BY <1>0, <1>1, EquationTypes DEF WalkOp, TypeOK
  <2>2. constraints' = constraints \cup {func.equations[nextEquation]}
        /\ (pc' = "walk" \/ (pc' = "propagate" /\ caller' = "walk"))
    BY <1>0, <2>1, GetConstraintTypes DEF GetConstraint
  <2>3. WalkingOps'
    BY <2>2 DEF WalkingOps
  <2> QED
    BY <1>0, <2>1, <2>2, <2>3 DEF Collected
<1>2. ASSUME NEW c \in join, ExpandJoin(c) PROVE Collected'
  <2>1. /\ c \in Nodes \X Nodes /\ pc = "expand" /\ GetConstraint(c, "expand")
        /\ currentConstraints' = currentConstraints \cup {c} /\ UNCHANGED <<func, nextEquation>>
    BY <1>0, <1>2 DEF ExpandJoin, TypeOK
  <2>2. constraints' = constraints \cup {c}
    BY <1>0, <2>1, GetConstraintTypes
  <2> QED
    BY <1>0, <2>1, <2>2 DEF Collected, WalkingOps
<1>3. CASE WalkDone
  BY <1>0, <1>3 DEF WalkDone, Collected, WalkingOps
<1>4. CASE SwapWorklist
  BY <1>0, <1>4 DEF SwapWorklist, Collected, WalkingOps, TypeOK
<1>5. CASE \/ UNCHANGED vars \/ PrepareJoin \/ Commit \/ ResolveDone
           \/ (\E c \in pendingConstraintWorklist : PropagateConstraint(c))
           \/ (\E n \in unresolved : ResolveValue(n))
  <2>1. UNCHANGED <<func, nextEquation, constraints, currentConstraints, caller>>
    BY <1>5 DEF vars, PrepareJoin, Commit, ResolveDone, PropagateConstraint, ResolveValue
  <2>2. WalkingOps' = WalkingOps
    BY <1>5 DEF vars, PrepareJoin, Commit, ResolveDone, PropagateConstraint, ResolveValue, WalkingOps
  <2> QED
    BY <1>0, <2>1, <2>2 DEF Collected
<1> QED
  BY <1>1, <1>2, <1>3, <1>4, <1>5 DEF Next, PassNext, Return

LEMMA ClosingStep == CompleteInv /\ [Next]_vars => Closing'
<1> SUFFICES ASSUME CompleteInv, [Next]_vars PROVE Closing'
  OBVIOUS
<1>0. TypeOK /\ Closing /\ Collected
  BY DEF CompleteInv
<1>1. CASE WalkOp \/ WalkDone
  BY <1>0, <1>1 DEF WalkOp, WalkDone, Closing, GetConstraint, TypeOK
<1>2. ASSUME NEW c \in join, ExpandJoin(c) PROVE Closing'
  <2>1. /\ pc = "expand" /\ pc' \in {"expand", "propagate"} /\ join' = join \ {c}
        /\ newConstraintCount \in Nat /\ currentConstraints = constraints
        /\ newConstraintCount' = newConstraintCount + (IF c \in currentConstraints THEN 0 ELSE 1)
    BY <1>0, <1>2 DEF ExpandJoin, GetConstraint, Collected, WalkingOps, TypeOK
  <2>2. CASE newConstraintCount' = 0
    <3>1. newConstraintCount = 0 /\ c \in constraints
      BY <2>1, <2>2
    <3>2. constraints' = constraints
      BY <1>2, <3>1 DEF ExpandJoin, GetConstraint
    <3>3. ClosedBut(join)
      BY <1>0, <2>1, <3>1 DEF Closing
    <3> QED
      BY <2>1, <3>1, <3>2, <3>3 DEF Closing, ClosedBut
  <2> QED
    BY <2>1, <2>2 DEF Closing
<1>3. CASE PrepareJoin
  <2>1. /\ pc' = "expand" /\ constraints' = constraints /\ currentConstraints = constraints
    BY <1>0, <1>3 DEF PrepareJoin, Collected, WalkingOps
  <2>2. ASSUME NEW v \in ValueTypes, NEW x \in TypeVars, NEW y \in Nodes,
               <<v, x>> \in constraints, <<x, y>> \in constraints
        PROVE  <<v, y>> \in join'
    <3> DEFINE p == <<<<v, x>>, <<x, y>>>>
    <3>1. p \in currentConstraints \X currentConstraints
          /\ p[1][1] \in ValueTypes /\ p[1][2] \in TypeVars /\ p[2][1] = p[1][2]
      BY <2>1, <2>2
    <3>2. <<p[1][1], p[2][2]>> \in join'
      BY <1>3, <3>1 DEF PrepareJoin
    <3> QED
      BY <3>2
  <2> QED
    BY <2>1, <2>2 DEF Closing, ClosedBut
<1>4. CASE Commit
  <2>1. pc = "expand" /\ join = {} /\ constraints' = constraints
        /\ (pc' = "transitivity" \/ (pc' = "resolve" /\ ~ newConstraintCount > 0))
    BY <1>4 DEF Commit
  <2>2. pc' = "resolve" => ClosedBut({})
    BY <1>0, <2>1 DEF Closing, TypeOK
  <2> QED
    BY <2>1, <2>2 DEF Closing, ClosedBut
<1>5. CASE SwapWorklist
  <2>1. UNCHANGED <<constraints, join, newConstraintCount, caller>> /\ pc = "propagate"
        /\ pc' \in {"propagate", caller} /\ caller \in {"walk", "expand"}
    BY <1>0, <1>5 DEF SwapWorklist, TypeOK
  <2> QED
    BY <1>0, <2>1 DEF Closing, ClosedBut
<1>6. CASE \/ UNCHANGED vars \/ ResolveDone
           \/ (\E c \in pendingConstraintWorklist : PropagateConstraint(c))
           \/ (\E n \in unresolved : ResolveValue(n))
  <2>1. /\ UNCHANGED <<constraints, join, newConstraintCount, caller>>
        /\ \/ pc' = pc
           \/ pc = "resolve" /\ pc' \in {"resolve", "success", "failure"}
    BY <1>6 DEF vars, ResolveDone, PropagateConstraint, ResolveValue
  <2> QED
    BY <1>0, <2>1 DEF Closing, ClosedBut
<1> QED
  BY <1>1, <1>2, <1>3, <1>4, <1>5, <1>6 DEF Next, PassNext, Return

LEMMA ResolvedStep == CompleteInv /\ [Next]_vars => Resolved'
<1> SUFFICES ASSUME CompleteInv, [Next]_vars PROVE Resolved'
  OBVIOUS
<1>0. TypeOK /\ Resolved
  BY DEF CompleteInv
<1>1. CASE \/ WalkOp \/ WalkDone \/ SwapWorklist \/ PrepareJoin
           \/ (\E c \in join : ExpandJoin(c)) \/ (\E c \in pendingConstraintWorklist : PropagateConstraint(c))
  <2>1. pc' \notin {"resolve", "success", "failure"}
    BY <1>0, <1>1 DEF WalkOp, WalkDone, SwapWorklist, PrepareJoin, ExpandJoin, PropagateConstraint,
                      GetConstraint, TypeOK
  <2> QED
    BY <2>1 DEF Resolved
<1>2. CASE UNCHANGED vars
  <2>1. UNCHANGED <<func, pc, unresolved, typeNodeMembers>>
    BY <1>2 DEF vars, propVars
  <2>2. \A m : Resolves(m)' = Resolves(m)
    BY <2>1 DEF Resolves, AnalyzedVars, HasType, Mapping
  <2> QED
    BY <1>0, <2>1, <2>2 DEF Resolved
<1>3. CASE Commit
  BY <1>0, <1>3 DEF Commit, Resolved
<1>4. ASSUME NEW n \in unresolved, ResolveValue(n) PROVE Resolved'
  <2>1. pc = "resolve" /\ UNCHANGED <<func, typeNodeMembers>>
    BY <1>4 DEF ResolveValue, propVars
  <2>2. \A m : Resolves(m)' = Resolves(m)
    BY <2>1 DEF Resolves, AnalyzedVars, HasType, Mapping
  <2>3. n \in func.values
    BY <1>0, <2>1 DEF Resolved
  <2>4. CASE Resolves(n)
    <3>1. unresolved' = unresolved \ {n} /\ pc' = pc
      BY <1>4, <2>4 DEF ResolveValue, Resolves
    <3> QED
      BY <1>0, <2>1, <2>2, <2>4, <3>1 DEF Resolved
  <2>5. CASE ~ Resolves(n)
    <3>1. pc' = "failure"
      BY <1>4, <2>5 DEF ResolveValue, Resolves
    <3> QED
      BY <2>1, <2>2, <2>3, <2>5, <3>1 DEF Resolved
  <2> QED
    BY <2>4, <2>5
<1>5. CASE ResolveDone
  <2>1. pc = "resolve" /\ pc' = "success" /\ unresolved = {} /\ UNCHANGED <<func, typeNodeMembers>>
    BY <1>5 DEF ResolveDone, propVars
  <2>2. \A m : Resolves(m)' = Resolves(m)
    BY <2>1 DEF Resolves, AnalyzedVars, HasType, Mapping
  <2> QED
    BY <1>0, <2>1, <2>2 DEF Resolved
<1> QED
  BY <1>1, <1>2, <1>3, <1>4, <1>5 DEF Next, PassNext, Return

LEMMA Complete == Spec => []CompleteInv
<1>1. CompleteInv /\ [Next]_vars => CompleteInv'
  BY NextTypes, PropagatedStep, CollectedStep, ClosingStep, ResolvedStep DEF CompleteInv
<1> QED
  BY <1>1, InitComplete, PTL DEF Spec

-----------------------------------------------------------------------------
\* The verdict

\* The type variables analyzeTypeNode gets to in one step.
LeadsTo == {e \in TypeVars \X TypeVars : HasType(e[1]) /\ e[2] \in DependentTypeVars(Mapping(e[1]))}

LEMMA AnalyzedVarsClosure ==
  ASSUME NEW n
  PROVE  IsClosure(TypeVars, LeadsTo, DependentTypeVars(n), AnalyzedVars(n))
<1> DEFINE More(seen) == UNION {DependentTypeVars(Mapping(x)) : x \in {u \in seen : HasType(u)}}
           reached == CHOOSE reached : reached = [k \in Nat |->
                        IF k = 0 THEN DependentTypeVars(n)
                        ELSE LET seen == reached[k - 1] IN seen \cup More(seen)]
           base == DependentTypeVars(n)
<1>1. \A m : DependentTypeVars(m) \in SUBSET TypeVars
  BY DEF DependentTypeVars
<1>2. \A seen \in SUBSET TypeVars : More(seen) = {p \in TypeVars : \E m \in seen : <<m, p>> \in LeadsTo}
  <2> TAKE seen \in SUBSET TypeVars
  <2>1. \A m \in TypeVars : \A p : <<m, p>> \in LeadsTo <=>
          p \in TypeVars /\ HasType(m) /\ p \in DependentTypeVars(Mapping(m))
    BY DEF LeadsTo
  <2>2. \A p : p \in More(seen) <=> \E m \in seen : HasType(m) /\ p \in DependentTypeVars(Mapping(m))
    OBVIOUS
  <2> HIDE DEF More
  <2> QED
    BY <1>1, <2>1, <2>2
<1> HIDE DEF More
<1>3. PICK f \in [Nat -> SUBSET TypeVars] : IsSearch(TypeVars, LeadsTo, base, f)
  BY <1>1, SearchExists
<1>4. f = [k \in Nat |-> IF k = 0 THEN DependentTypeVars(n)
                         ELSE LET seen == f[k - 1] IN seen \cup More(seen)]
  <2>1. ASSUME NEW k \in Nat, k # 0 PROVE f[k] = f[k - 1] \cup More(f[k - 1])
    <3>1. k - 1 \in Nat /\ (k - 1) + 1 = k /\ f[k - 1] \in SUBSET TypeVars
      BY <1>3, <2>1
    <3> QED
      BY <1>2, <1>3, <3>1 DEF IsSearch
  <2> QED
    BY <1>3, <2>1 DEF IsSearch
<1>5. reached = [k \in Nat |-> IF k = 0 THEN DependentTypeVars(n)
                               ELSE LET seen == reached[k - 1] IN seen \cup More(seen)]
  BY <1>4
<1>6. AnalyzedVars(n) = reached[Cardinality(TypeVars)]
  BY DEF AnalyzedVars, More
<1> HIDE DEF reached
<1>7. reached[0] = base /\ \A k \in Nat : reached[k + 1] = reached[k] \cup More(reached[k])
  <2>1. reached[0] = base
    BY <1>5
  <2>2. ASSUME NEW k \in Nat PROVE reached[k + 1] = reached[k] \cup More(reached[k])
    <3>1. k + 1 \in Nat /\ k + 1 # 0 /\ (k + 1) - 1 = k
      OBVIOUS
    <3> QED
      BY <1>5, <3>1
  <2> QED
    BY <2>1, <2>2
<1>8. \A k \in Nat : reached[k] \in SUBSET TypeVars
  <2> DEFINE S == {k \in Nat : reached[k] \in SUBSET TypeVars}
  <2>1. 0 \in S
    BY <1>1, <1>7
  <2>2. ASSUME NEW k \in Nat, reached[k] \in SUBSET TypeVars PROVE reached[k + 1] \in SUBSET TypeVars
    <3>1. More(reached[k]) \in SUBSET TypeVars
      BY <1>2, <2>2
    <3> QED
      BY <1>7, <2>2, <3>1
  <2>3. \A k \in Nat : k \in S => k + 1 \in S
    BY <2>2
  <2> HIDE DEF S
  <2>4. Nat \subseteq S
    BY <2>1, <2>3, SetInduction
  <2> QED
    BY <2>4 DEF S
<1>9. IsSearch(TypeVars, LeadsTo, base, reached)
  BY <1>2, <1>7, <1>8 DEF IsSearch
<1>10. IsClosure(TypeVars, LeadsTo, base, reached[Cardinality(TypeVars)])
  BY <1>1, <1>9, NodesFinite, SearchEnds
<1> QED
  BY <1>6, <1>10

\* When the constraints are closed and propagated ...
Finished ==
  /\ \A v \in ValueTypes, y \in Nodes : <<v, y>> \in constraints => v \in typeNodeMembers[y]
  /\ ClosedBut({})
  /\ Equations \subseteq constraints

LEMMA ResolvingIsFinished ==
  ASSUME CompleteInv, pc \in {"resolve", "success", "failure"}
  PROVE  Finished
<1>1. TypeOK /\ Propagated /\ Collected /\ Closing
  BY DEF CompleteInv
<1>2. ASSUME NEW v \in ValueTypes, NEW y \in Nodes, <<v, y>> \in constraints
      PROVE  v \in typeNodeMembers[y]
  <2>1. Identity(<<v, y>>) \subseteq typeNodeMembers[y]
    BY <1>1, <1>2 DEF Propagated
  <2>2. v \in Identity(<<v, y>>)
    BY DEF Identity
  <2> QED
    BY <2>1, <2>2
<1>3. Equations \subseteq constraints
  <2>1. nextEquation > Len(func.equations) /\ nextEquation \in Nat /\ Len(func.equations) \in Nat
    BY <1>1, EquationTypes DEF Collected, WalkingOps, TypeOK
  <2> QED
    BY <1>1, <2>1, EquationTypes DEF Collected, Equations, TypeOK
<1> QED
  BY <1>1, <1>2, <1>3 DEF Finished, Closing

\* ... a variable without a member has nothing that flows into it: the closure
\* goes through variables only, and so does a path from the last value type on it.
LEMMA NoMemberNoFlow ==
  ASSUME TypeOK, Finished, NEW x \in TypeVars, typeNodeMembers[x] = {}
  PROVE  FlowsInto(Equations, x) = {}
<1> DEFINE S == {p \in TypeVars : \A v \in ValueTypes : <<v, p>> \notin constraints}
<1>1. x \in Nodes /\ Equations \in SUBSET (Nodes \X Nodes) /\ Nodes = TypeVars \cup ValueTypes
      /\ TypeVars \cap ValueTypes = {}
  BY EquationsTyped, CPAAssumption DEF TypeOK, Nodes
<1>2. PICK B : /\ IsClosure(Nodes, Against(Equations), {p \in Nodes : <<p, x>> \in Equations}, B)
               /\ FlowsInto(Equations, x) = B \cap ValueTypes
  BY <1>1, FlowsIntoClosure
<1>3. \A v \in ValueTypes : <<v, x>> \notin constraints
  BY <1>1 DEF Finished
<1>4. x \in S
  BY <1>3
<1>5. ASSUME NEW m \in S, NEW p \in Nodes, <<p, m>> \in Equations PROVE p \in S
  <2>1. <<p, m>> \in constraints /\ m \in Nodes
    BY <1>1, <1>5 DEF Finished
  <2>2. p \in TypeVars
    BY <1>1, <1>5, <2>1
  <2>3. ASSUME NEW v \in ValueTypes, <<v, p>> \in constraints PROVE FALSE
    <3>1. <<v, m>> \in constraints
      BY <2>1, <2>2, <2>3 DEF Finished, ClosedBut
    <3> QED
      BY <1>5, <3>1
  <2> QED
    BY <2>2, <2>3
<1>6. S \in SUBSET Nodes /\ {p \in Nodes : <<p, x>> \in Equations} \subseteq S
  BY <1>1, <1>4, <1>5
<1>7. \A m \in S, p \in Nodes : <<m, p>> \in Against(Equations) => p \in S
  BY <1>1, <1>5, AgainstPairs
<1>8. B \subseteq S
  BY <1>2, <1>6, <1>7 DEF IsClosure
<1> QED
  BY <1>1, <1>2, <1>8

\* ... and if no op says that something flows into a known type, everything that
\* flows into a variable is a member of it.
LEMMA FlowsAreMembers ==
  ASSUME TypeOK, Finished, \A c \in Equations : c[2] \notin ValueTypes, NEW x \in TypeVars
  PROVE  FlowsInto(Equations, x) \subseteq typeNodeMembers[x]
<1> DEFINE S == {p \in Nodes : /\ p \in ValueTypes => <<p, x>> \in constraints
                               /\ \A v \in ValueTypes : <<v, p>> \in constraints /\ p \in TypeVars
                                    => <<v, x>> \in constraints}
<1>1. x \in Nodes /\ Equations \in SUBSET (Nodes \X Nodes) /\ Nodes = TypeVars \cup ValueTypes
      /\ TypeVars \cap ValueTypes = {}
  BY EquationsTyped, CPAAssumption DEF TypeOK, Nodes
<1>2. PICK B : /\ IsClosure(Nodes, Against(Equations), {p \in Nodes : <<p, x>> \in Equations}, B)
               /\ FlowsInto(Equations, x) = B \cap ValueTypes
  BY <1>1, FlowsIntoClosure
<1>3. x \in S
  BY <1>1
<1>4. ASSUME NEW m \in S, NEW p \in Nodes, m \in TypeVars, <<p, m>> \in Equations PROVE p \in S
  <2>1. <<p, m>> \in constraints
    BY <1>4 DEF Finished
  <2>2. p \in ValueTypes => <<p, x>> \in constraints
    BY <1>4, <2>1
  <2>3. ASSUME NEW v \in ValueTypes, <<v, p>> \in constraints, p \in TypeVars
        PROVE  <<v, x>> \in constraints
    <3>1. m \in Nodes
      BY <1>1, <1>4
    <3>2. <<v, m>> \in constraints
      BY <2>1, <2>3, <3>1 DEF Finished, ClosedBut
    <3> QED
      BY <1>4, <3>2
  <2> QED
    BY <2>2, <2>3
<1>5. \A p, m \in Nodes : <<p, m>> \in Equations => m \in TypeVars
  <2> TAKE p, m \in Nodes
  <2>1. <<p, m>>[2] = m
    OBVIOUS
  <2> QED
    BY <1>1, <2>1
<1>6. S \in SUBSET Nodes /\ {p \in Nodes : <<p, x>> \in Equations} \subseteq S
  BY <1>1, <1>3, <1>4
<1>7. \A m \in S, p \in Nodes : <<m, p>> \in Against(Equations) => p \in S
  BY <1>1, <1>4, <1>5, AgainstPairs
<1>8. B \subseteq S
  BY <1>2, <1>6, <1>7 DEF IsClosure
<1>9. ASSUME NEW v \in B \cap ValueTypes PROVE v \in typeNodeMembers[x]
  BY <1>1, <1>8 DEF Finished
<1> QED
  BY <1>2, <1>9

LEMMA MembersFinite ==
  ASSUME TypeOK, NEW n \in Nodes
  PROVE  IsFiniteSet(typeNodeMembers[n]) /\ IsFiniteSet(FlowsInto(Equations, n))
<1>1. typeNodeMembers[n] \in SUBSET ValueTypes /\ FlowsInto(Equations, n) \in SUBSET ValueTypes
  BY DEF TypeOK, FlowsInto
<1> QED
  BY <1>1, NodesFinite, FS_Subset

\* What flows somewhere is one of the ends of a constraint.
LEMMA FlowsFromEquations ==
  ASSUME TypeOK, NEW n \in Nodes, NEW v \in FlowsInto(Equations, n)
  PROVE  \E c \in Equations : v = c[1]
<1> DEFINE S == {p \in Nodes : \E c \in Equations : p = c[1]}
<1>1. Equations \in SUBSET (Nodes \X Nodes)
  BY EquationsTyped DEF TypeOK
<1>2. PICK B : /\ IsClosure(Nodes, Against(Equations), {p \in Nodes : <<p, n>> \in Equations}, B)
               /\ FlowsInto(Equations, n) = B \cap ValueTypes
  BY <1>1, FlowsIntoClosure
<1>3. \A m, p \in Nodes : <<p, m>> \in Equations => p \in S
  <2> TAKE m, p \in Nodes
  <2>1. <<p, m>>[1] = p
    OBVIOUS
  <2> QED
    BY <2>1
<1>4. S \in SUBSET Nodes /\ {p \in Nodes : <<p, n>> \in Equations} \subseteq S
  BY <1>3
<1>5. \A m \in S, p \in Nodes : <<m, p>> \in Against(Equations) => p \in S
  BY <1>1, <1>3, AgainstPairs
<1>6. B \subseteq S
  BY <1>2, <1>4, <1>5 DEF IsClosure
<1> QED
  BY <1>2, <1>6

LEMMA TypeIsTheMember ==
  ASSUME TypeOK, NEW x \in TypeVars, HasType(x)
  PROVE  typeNodeMembers[x] = {Mapping(x)} /\ Mapping(x) \in ValueTypes
<1>1. x \in Nodes
  BY DEF Nodes
<1>2. IsFiniteSet(typeNodeMembers[x]) /\ Cardinality(typeNodeMembers[x]) = 1
  BY <1>1, MembersFinite DEF HasType
<1>3. PICK v : typeNodeMembers[x] = {v}
  BY <1>2, FS_Singleton
<1> QED
  BY <1>1, <1>3 DEF Mapping, TypeOK

\* The variables of the values, and what the resolver gets to from them.
ValueVars == UNION {DependentTypeVars(n) : n \in func.values}

LEMMA AnalyzedAreOfValues ==
  ASSUME TypeOK, MembersFlow, NEW n \in func.values
  PROVE  AnalyzedVars(n) \subseteq ValueVars
<1>1. ValueVars \in SUBSET TypeVars /\ DependentTypeVars(n) \subseteq ValueVars
  BY DEF ValueVars, DependentTypeVars
<1>2. ASSUME NEW x \in ValueVars, NEW y \in TypeVars, <<x, y>> \in LeadsTo PROVE y \in ValueVars
  <2>1. HasType(x) /\ y \in DependentTypeVars(Mapping(x)) /\ x \in TypeVars /\ x \in Nodes
    BY <1>1, <1>2 DEF LeadsTo, Nodes
  <2>2. Mapping(x) \in FlowsInto(Equations, x) /\ Mapping(x) \in ValueTypes
    BY <2>1, TypeIsTheMember DEF MembersFlow
  <2>3. Mapping(x) \in Arrays
    BY <2>1, <2>2, CPAAssumption DEF DependentTypeVars
  <2>4. PICK i \in 1 .. Len(func.equations) : Mapping(x) = func.equations[i][1]
    BY <2>1, <2>2, FlowsFromEquations, EquationTypes DEF Equations, TypeOK
  <2>5. Mapping(x) \in func.values \cup {Field[a] : a \in func.values \cap Arrays}
    BY <2>4, EquationsRelateValues DEF TypeOK
  <2>6. \A a \in Arrays : Field[a] \notin Arrays
    BY CPAAssumption DEF ValueTypes
  <2>7. Mapping(x) \in func.values
    BY <2>3, <2>5, <2>6
  <2> QED
    BY <2>1, <2>7 DEF ValueVars
<1>3. IsClosure(TypeVars, LeadsTo, DependentTypeVars(n), AnalyzedVars(n))
  BY AnalyzedVarsClosure
<1> QED
  BY <1>1, <1>2, <1>3 DEF IsClosure

LEMMA ValueVarsAnalyzed ==
  ASSUME NEW n \in func.values
  PROVE  DependentTypeVars(n) \subseteq AnalyzedVars(n)
BY AnalyzedVarsClosure DEF IsClosure

LEMMA VerdictOfComplete ==
  ASSUME CompleteInv, MembersFlow
  PROVE  VerdictRight
<1>1. TypeOK /\ Resolved
  BY DEF CompleteInv
<1>2. ValueVars \in SUBSET TypeVars /\ TypeVars \subseteq Nodes
  BY DEF ValueVars, DependentTypeVars, Nodes
<1>3. ASSUME pc = "success", NEW x \in ValueVars
      PROVE  /\ Mapping(x) \in FlowsInto(Equations, x)
             /\ ~ (\E c \in Equations : c[2] \in ValueTypes) => FlowsInto(Equations, x) = {Mapping(x)}
  <2>1. PICK n \in func.values : x \in DependentTypeVars(n)
    BY DEF ValueVars
  <2>2. HasType(x)
    BY <1>1, <1>3, <2>1, ValueVarsAnalyzed DEF Resolved, Resolves
  <2>3. typeNodeMembers[x] = {Mapping(x)}
    BY <1>1, <1>2, <2>2, TypeIsTheMember
  <2>4. Mapping(x) \in FlowsInto(Equations, x)
    BY <1>2, <2>3 DEF MembersFlow
  <2>5. ASSUME \A c \in Equations : c[2] \notin ValueTypes
        PROVE  FlowsInto(Equations, x) \subseteq {Mapping(x)}
    BY <1>1, <1>2, <1>3, <2>3, <2>5, ResolvingIsFinished, FlowsAreMembers
  <2> QED
    BY <2>4, <2>5
<1>4. ASSUME pc = "failure" PROVE \E x \in ValueVars : Cardinality(FlowsInto(Equations, x)) # 1
  <2>1. PICK n \in func.values : ~ Resolves(n)
    BY <1>1, <1>4 DEF Resolved
  <2>2. PICK x \in AnalyzedVars(n) : ~ HasType(x)
    BY <2>1 DEF Resolves
  <2>3. x \in ValueVars /\ x \in TypeVars /\ x \in Nodes
    BY <1>1, <1>2, <2>2, AnalyzedAreOfValues
  <2>4. SUFFICES ASSUME Cardinality(FlowsInto(Equations, x)) = 1 PROVE FALSE
    BY <2>3
  <2>5. PICK v : FlowsInto(Equations, x) = {v}
    BY <1>1, <2>3, <2>4, MembersFinite, FS_Singleton
  <2>6. typeNodeMembers[x] # {}
    BY <1>1, <1>4, <2>3, <2>5, NoMemberNoFlow, ResolvingIsFinished
  <2>7. typeNodeMembers[x] \subseteq {v}
    BY <2>3, <2>5 DEF MembersFlow
  <2>8. typeNodeMembers[x] = {v}
    BY <2>6, <2>7
  <2> QED
    BY <2>2, <2>8, FS_Singleton DEF HasType
<1> QED
  BY <1>3, <1>4 DEF VerdictRight, ValueVars

\* The verdict on a function is right, for any constraints: a variable is given
\* a type that flows into it (the only one, if nothing flows into a known type),
\* and the pass fails only where none or several do.
THEOREM VerdictCorrect == Spec => []VerdictRight
BY Complete, MembersFlowCorrect, VerdictOfComplete, PTL

=============================================================================
