CONSTANTS
  Calls <- OneVectorCall
  MaxArity = 4
SPECIFICATION Spec
INVARIANTS
  BuffersFreedOnce
