CONSTANTS
  Null = Null
  Programs <- AllPrograms
  MaxCallDepth = 3
SPECIFICATION Spec
INVARIANTS
  TypeOK
  MonomorphizationsLeast
  GlobalSlotsMirrorObjectGraph
  InitializersDoNotAlias
  CallsBindToTheirCallee
  ExecutionPreserved
PROPERTIES
  Termination
