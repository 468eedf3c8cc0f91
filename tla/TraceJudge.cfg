\* Two traces, two loops of each job; every event was sent at the end
SPECIFICATION FairSpec
CONSTANTS
    Traces = {"t1", "t2"}
    LLM_ERR_TYPES <- MCLLM
    L2_ERR_TYPES <- MCL2
    NoType = "none"
    Events <- MCFewEvents
    InterfaceLLM = FALSE
    JudgeWorkers = {"j1"}
    ClusterWorkers = {"c1", "c2"}
    MaxEvents = 3
    MaxCrashes = 1
    MaxGeneration = 2
INVARIANTS TypeOK MergedOncePerSource
PROPERTIES LateNeverReopens Processed
CHECK_DEADLOCK FALSE
