SPECIFICATION KernelSpec
CONSTANTS
    v1 = v1
    v2 = v2
    v3 = v3
    none = none
    Versions <- MCVersions
    VersionRank <- MCVersionRank
    Suffixed = {v1, v2}
    PrefixRank <- MCPrefixRank
    NoVersion = none
    CaseLevelTypes <- MCCaseLevelTypes
    Results <- MCResults
    Previous <- MCPrevious
    MaxRows = 3
    MaxK = 3
INVARIANTS
    KernelMatchesReference
    OrderIndependent
    GapOnlyDelays
    GapViewAgrees
CHECK_DEADLOCK FALSE
