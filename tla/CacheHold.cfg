SPECIFICATION Spec
CONSTANTS
    t1 = t1  t2 = t2
    o1 = o1  o2 = o2  o3 = o3
    NULL = NULL
    gNoValue = gNoValue
    Threads <- TwoThreads
    Keys <- ThreeKeys
    Objects <- ThreeObjects
    Parent <- FallbackToDe
    Use <- HoldAndDrop
    MaxFlushes = 1
SYMMETRY Symmetry
INVARIANTS
    IInv
    NoDanglingPointer
    NoLeak
    WaitersHaveCreator
PROPERTIES
    HeldValuesStay
    FlushLeavesOnlyReferenced
