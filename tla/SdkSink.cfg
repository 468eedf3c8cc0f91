\* A heartbeat and two events, one too large, in two lives of the process
SPECIFICATION FairSpec
CONSTANTS
    Items = {"a", "big", "beat"}
    Beats = {"beat"}
    Oversize = {"big"}
    QUEUE_MAX = 2
    flush_batch = 1
    SEND_RETRY = 2
    MaxFaults = 2
    MaxLives = 2
INVARIANTS TypeOK Accounted
PROPERTIES SpoolKept MemoryDrains SpoolDrains
CHECK_DEADLOCK FALSE
