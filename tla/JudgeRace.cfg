SPECIFICATION RaceSpec
CONSTANTS
    v1 = v1
    v2 = v2
    k1 = k1
    none = none
    push1 = push1
    push2 = push2
    Pushes = {push1, push2}
    rejudge1 = rejudge1
    assemble1 = assemble1
    assemble2 = assemble2
    Rejudgers = {rejudge1}
    Assemblers = {assemble1, assemble2}
    Versions <- MCVersions
    VersionRank <- MCVersionRank
    Suffixed = {}
    PrefixRank <- MCPrefixRank
    NoVersion = none
    CaseLevelTypes <- MCCaseLevelTypes
    Keys = {k1}
    AgentOf <- MCAgentOf
    ClaimK = 1
    RequeueCap = 0
    Batch = 200
    Occurrences <- MCOccurrences
    Outcomes <- MCOutcomes
    Reruns = "any"
    MaxClusters = 1
    MaxLinks = 2
    MaxRuns = 3
INVARIANTS
    OnePending
    RecordsOncePerRun
    FixedOnce
PROPERTY VerdictFinal
CHECK_DEADLOCK FALSE
