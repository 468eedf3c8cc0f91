SPECIFICATION Spec
CONSTANTS
    v1 = v1
    v2 = v2
    v3 = v3
    k1 = k1
    k2 = k2
    none = none
    Versions <- MCVersions
    VersionRank <- MCVersionRank
    Suffixed <- MCVersions
    PrefixRank <- MCPrefixRank
    NoVersion = none
    CaseLevelTypes <- MCCaseLevelTypes
    Keys = {k1}
    AgentOf <- MCTwoAgents
    ClaimK = 2
    RequeueCap = 1
    Batch = 1
    Occurrences <- MCOccurrences
    Outcomes <- MCPassFailPolluted
    Reruns = "none"
    MaxClusters = 2
    MaxLinks = 2
    MaxRuns = 3
INVARIANTS
    TypeOK
    LinkClusterAgree
    GenerationChain
    AuditMatches
    FailedOnEvidence
    NoFalseFix
PROPERTIES
    TerminalReadOnly
    ImplementsLifecycle
CHECK_DEADLOCK FALSE
