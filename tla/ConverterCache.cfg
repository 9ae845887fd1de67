SPECIFICATION Spec
CONSTANTS
    Threads = {t1, t2}
    Converters = {1, 2}
    Data = {1, 2, 3}
    Files <- MCFiles
    Tables <- MCTables
    Default = "ext"
    NULL = NULL
SYMMETRY ThreadSymmetry
INVARIANTS
    CountsExact
    NothingLeaks
    OneUser
PROPERTIES
    FlushFreesUnused
