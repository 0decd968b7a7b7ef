CONSTANTS
    t1 = t1
    t2 = t2
    c1 = c1
    c2 = c2
    Thread = {t1, t2}
    Controller = {c1, c2}
    InitialHeap <- MCInitialHeap
    Importable <- MCImportable
    ArgumentLists <- MCArgumentLists
    Calls <- MCCalls
    Composite <- MCComposite
    MaxKernels = 2
    MaxDepth = 2
SYMMETRY MCSymmetry
SPECIFICATION Spec
INVARIANTS
    BlockIsWellFormed
    CaptureFaithful
PROPERTIES
    CapturesIntoTheInnermost
