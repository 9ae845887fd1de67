SPECIFICATION EitherSpec
CONSTANTS
    Threads = {t1, t2, t3}
    Status <- MCStatus
    Failures <- MCFailures
    ZeroError = "zero"
    MaxResets = 1
INVARIANTS
    OneInitializer
    DoneWhenToldNotToInit
    NoMissedBroadcast
PROPERTIES
    ImplementsInitOnce
    CallsReturn
