SPECIFICATION Spec
CONSTANTS
    Request = {r1, r2}
    Kind = {"live"}
    Flaws = {{}}
    MaxBody = 1
    MaxChunk = 1
    EdgeLimit = 1
    MaxStops = 1
CHECK_DEADLOCK FALSE
INVARIANT LivenessNeedsNoRedis
