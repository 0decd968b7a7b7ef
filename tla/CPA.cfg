CONSTANTS
  t = t
  u = u
  tA = tA
  i32 = i32
  f64 = f64
  A = A
  B = B
  TypeVars = {t, u, tA}
  IRTypes = {i32, f64}
  Arrays = {A, B}
  Field <- FieldDef
  Funcs <- AllFunctions
  MaxEquations = 3
SPECIFICATION Spec
INVARIANTS
  MembersFlow
  VerdictRight
PROPERTIES
  Termination
