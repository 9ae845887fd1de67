SPECIFICATION Spec
CONSTANTS
    Files <- MCFiles
    Names <- MCNames
    DefaultLocales <- MCDefaultLocales
    Handles = {h1, h2}
    MaxFailures = 1
    MaxLateOpens = 1
    NULL = NULL
SYMMETRY HandleSymmetry
INVARIANTS
    
    NothingLeaks
    ChainIsInherits
    OpenHasData
