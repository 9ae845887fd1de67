SPECIFICATION Spec
CONSTANTS
    Threads = {t1, t2}
    Requests <- MCRequests
    Packages <- MCPackages
    Types <- MCTypes
    SearchTypes = {"searchjl"}
    NoType = ""
    NULL = NULL
    MaxFaults = 1
    InProgress = InProgress
    ERROR = ERROR
INVARIANTS
    NoCyclicWait
    CachedTailoringIsReference
    ActualLocaleReopens
PROPERTIES
    LoadsReturn
