CONSTANTS
  Calls <- SoundCalls
  MaxArity = 4
SPECIFICATION Spec
INVARIANTS
  ArgumentsArrive
  MetadataArrives
  OwnershipKept
  ArgumentsConform
