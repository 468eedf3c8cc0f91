SPECIFICATION Spec
CONSTANTS
    Events = {1, 2, 3}
    GroupOf <- MCGroupOf
    LateK = 4
    Page = 1
    RoundHours = 1
    WindowHours = 3
    Busy = {2, 3}
    MaxHour = 7
    MaxEvents = 2
    MaxRaises = 1
    MaxDeaths = 1
INVARIANTS TypeOK MetaTells SettledComplete CoveredComplete NoGap
CHECK_DEADLOCK FALSE
