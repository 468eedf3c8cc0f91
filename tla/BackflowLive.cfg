SPECIFICATION FairSpec
CONSTANTS
    v1 = v1
    v2 = v2
    v3 = v3
    k1 = k1
    k2 = k2
    none = none
    Versions <- MCVersions
    VersionRank <- MCVersionRank
    Suffixed = {}
    PrefixRank <- MCPrefixRank
    NoVersion = none
    CaseLevelTypes <- MCCaseLevelTypes
    Keys = {k1, k2}
    AgentOf <- MCOneAgent
    ClaimK = 1
    RequeueCap = 1
    Batch = 200
    Occurrences <- MCSnapshotOnly
    Outcomes <- MCPassFail
    Reruns = "any"
    MaxClusters = 2
    MaxLinks = 2
    MaxRuns = 1
PROPERTIES
    VerdictDelivered
    Reassembled
    Reoffered
CHECK_DEADLOCK FALSE
