SPECIFICATION FairSpec
CONSTANTS
    t1 = t1  t2 = t2  t3 = t3
    NULL = NULL
    Threads = {t1, t2, t3}
INVARIANTS
    CountExact
    NoLostWakeup
PROPERTIES
    OncePerBroadcast
    ImplementsCondVar
CHECK_DEADLOCK FALSE
