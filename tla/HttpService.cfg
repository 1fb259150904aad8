SPECIFICATION Spec
CONSTANTS
    Request = {r1, r2}
    Kind = {"live", "ready", "session", "provider", "chat"}
    Flaws = {{}, {"session", "fields"}, {"fields"}}
    MaxBody = 1
    MaxChunk = 1
    EdgeLimit = 1
    MaxStops = 1
CHECK_DEADLOCK FALSE
INVARIANT BodyIsLimited
INVARIANT EdgeLimitOutlivesTheProcess
INVARIANT ReadinessIsHonest
INVARIANT OpenRequestsHaveAClient
PROPERTY RecoversWithRedis
PROPERTY EveryBodyIsAnswered
