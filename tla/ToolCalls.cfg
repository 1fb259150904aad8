SPECIFICATION Spec
CONSTANTS
    Thread = {t1, t2}
    Tool = {"travel_brief", "weather", "news_search", "city_risk", "route_planner"}
    MaxAttempts = 2
    MaxCalls = 2
    MaxFaults = 1
CHECK_DEADLOCK FALSE
INVARIANT CacheHoldsNoErrors
INVARIANT CacheFailureIsAMissAlone
PROPERTY CachedAnswersAreFree
PROPERTY EveryCallEnds
