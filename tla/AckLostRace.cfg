SPECIFICATION FairSpec
CONSTANTS
    Links <- MCLinks
    Workers <- MCWorkers
    Answered <- MCAnswered
    MaxAcks = 2
    Reasons = {"offline_cap_gap", "online_content_gap"}
    RequeueCap = 1
    RequeueBatch = 2
    Debounce = 2
    TxnTicks = 1
    PageLimit = 1
    MaxClock = 4
PROPERTY AnswerIsTheRow
