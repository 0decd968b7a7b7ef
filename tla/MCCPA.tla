------------------------------- MODULE MCCPA -------------------------------
(***************************************************************************)
(* Functions for TLC: two unknown values t and u, two IR types, an array   *)
(* of unknown and one of known dtype.  An op relates two values, or the    *)
(* dtypes of two arrays; the dtype of array B is the node of the IR type.  *)
(***************************************************************************)
EXTENDS CPA

CONSTANTS t, u, tA, i32, f64, A, B, MaxEquations

FieldDef == [a \in {A, B} |-> IF a = A THEN tA ELSE f64]

ValuePairs(values) == values \X values
DtypePairs(values) == {<<Field[a], Field[b]>> : <<a, b>> \in (values \cap Arrays) \X (values \cap Arrays)}

FunctionsOver(values, max) ==
  LET pairs == {p \in ValuePairs(values) \cup DtypePairs(values) : p[1] # p[2]}
  IN {[values |-> values, equations |-> eqs] :
        eqs \in UNION {[1 .. n -> pairs] : n \in 0 .. max}}

ScalarFunctions == FunctionsOver({t, u, i32, f64}, MaxEquations)
ArrayFunctions == FunctionsOver({t, f64, A, B}, MaxEquations)
AllFunctions == ScalarFunctions \cup ArrayFunctions

=============================================================================
