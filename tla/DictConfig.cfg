SPECIFICATION Spec
CONSTANTS
    GlobalKeys = {"cap"}
    AgentKeys = {"words"}
    Values = {2, 3}
    Default = 2
    Processes = {"api", "worker"}
    Api = "api"
    Readers = {"request", "job"}
    ProcessOf <- MCProcessOf
    Writers = {"w1", "w2"}
    NoKey = "none"
    TTL = 2
    QueryTicks = 1
    MaxPuts = 2
    MaxRestarts = 1
INVARIANTS TypeOK EffectiveUnlessCrossed BoundedStale
CHECK_DEADLOCK FALSE
