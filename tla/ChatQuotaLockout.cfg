SPECIFICATION RecoveredSpec
CONSTANTS
    Client = {c1, c2, c3}
    Limit = 3
    FaultKind = {"redis"}
PROPERTY ThrottlingEndsAfterFaults
