SPECIFICATION Spec
CONSTANTS
    Thread = {t1, t2, t3}
    Tool = {"weather"}
    MaxAttempts = 2
    MaxCalls = 3
    MaxFaults = 1
CHECK_DEADLOCK FALSE
INVARIANT CacheFailureIsAMiss
