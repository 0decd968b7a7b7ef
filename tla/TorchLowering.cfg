SPECIFICATION Spec
CONSTANTS
  f32 = f32
  Dtypes = {f32}
  NoDtype = NoDtype
  LiteralKnow <- KnownLiterals
  Modules <- AllModules
INVARIANTS
  ModuleIsValid
  MeaningPreserved
PROPERTIES
  LoweringEnds
