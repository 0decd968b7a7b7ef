CONSTANTS
  f32 = f32
  f64 = f64
  Dtypes = {f32, f64}
  NoDtype = NoDtype
  Null = Null
  Programs <- KnownOrUnknownRank
  Tensors <- AllTensors
  Others <- SomeTensors
  Dims <- AllDims
  MaxSteps = 9
SPECIFICATION Spec
INVARIANTS
  ClaimsAreTrue
