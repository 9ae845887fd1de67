SPECIFICATION Spec
CONSTANTS
    v1 = v1  v2 = v2  v3 = v3  v4 = v4
    NULL = NULL
    Keys <- ThreeKeys
    Ids <- FourIds
    KeyOf <- Itself
    Hash <- Colliding
    Values = {v1}
    PRIMES <- SmallPrimes
    LowPercent = 30
    Policies = {"U_GROW", "U_GROW_AND_SHRINK", "U_FIXED"}
    Deleters = FALSE
    ClientCalls = {"put NULL", "put 0"}
INVARIANTS
    TypeOK
    FindNeverFails
    ElementsAreFound
PROPERTIES
    ImplementsHashMap
