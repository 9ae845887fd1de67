SPECIFICATION FairSpec
CONSTANTS
    t1 = t1  t2 = t2
    o1 = o1  o2 = o2  o3 = o3
    NULL = NULL
    gNoValue = gNoValue
    Threads <- TwoThreads
    Keys <- TwoKeys
    Objects <- TwoObjects
    Parent <- FallbackToDe
    Use <- ReturnIt
    MaxFlushes = 1
INVARIANTS
    RefCountsExact
    ReturnedIsCached
PROPERTIES
    GetsReturn
