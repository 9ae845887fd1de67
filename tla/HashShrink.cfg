SPECIFICATION ShrinkSpec
CONSTANTS
    v1 = v1  v2 = v2  v3 = v3  v4 = v4
    NULL = NULL
    Keys <- ManyKeys
    Ids <- ManyKeys
    KeyOf <- Identity
    Hash <- Identity
    Values = {v1}
    PRIMES <- RealPrimes
    LowPercent = 10
    Policies = {"U_GROW", "U_GROW_AND_SHRINK", "U_FIXED"}
    Deleters = FALSE
    ClientCalls = {}
INVARIANTS
    FindNeverFails
