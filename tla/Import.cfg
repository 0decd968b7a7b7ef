\* Object graphs with shared, aliased and unsupported data; annotations.
SPECIFICATION Spec
CONSTANTS
  Worlds <- MCWorlds
  MaxCalls = 3
  None = None
  NotADtype = NotADtype
  Unit1 = Unit1
  Unit2 = Unit2
  F32 = F32
INVARIANTS
  TypeOK
  ImportedGraphIsIsomorphic
  SharedStorageIsRejected
  ModulesVerify
  AnnotationsAreAsAsked
  DiagnosticPathLeads
  FunctionsStandForTheirGraphs
PROPERTIES
  Termination
