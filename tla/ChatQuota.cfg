SPECIFICATION FairSpec
CONSTANTS
    Client = {c1, c2, c3}
    Limit = 3
    FaultKind = {"redis", "crash"}
INVARIANT QuotaHolds
INVARIANT WindowWillEnd
PROPERTY ThrottlingEnds
PROPERTY IsAWindowQuota
