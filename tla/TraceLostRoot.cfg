\* One trace, one loop of each job
SPECIFICATION Spec
CONSTANTS
    Traces = {"t1"}
    LLM_ERR_TYPES <- MCLLM
    L2_ERR_TYPES <- MCL2
    NoType = "none"
    Events <- MCEvents
    InterfaceLLM = FALSE
    JudgeWorkers = {"j1"}
    ClusterWorkers = {"c1"}
    MaxEvents = 2
    MaxCrashes = 0
    MaxGeneration = 1
INVARIANT RootErrorJudged
CHECK_DEADLOCK FALSE
