SPECIFICATION Spec
CONSTANTS
  f32 = f32
  si64 = si64
  Dtypes = {f32, si64}
  FloatDtypes = {f32}
  NoDtype = NoDtype
  RuntimeSizes = {1, 2}
  Functions <- WithoutBias
INVARIANTS
  CompilerDoesNotCrash
