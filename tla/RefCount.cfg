CONSTANTS
  Threads = {t1, t2}
  Handles = {h1, h2, h3}
  Objects = {o1, o2}
  Null = Null
SPECIFICATION Spec
INVARIANTS
  RefCountExact
PROPERTIES
  ImplementsSharedReferences
  NoLeak
