SPECIFICATION Spec
CONSTANTS
    Thread = {t1, t2}
    MaxPerInterval = 2
    Interval = 3
    MaxIdle = 6
    MaxDelay = 1
    MaxOverdraft = 2
INVARIANT NeverOverfilled
INVARIANT WaitIsBounded
INVARIANT BucketInRange
INVARIANT RateHolds
