\* two concurrent calls; a window admits one request, a day one look-up
CONSTANTS
    Calls = {c1, c2}
    RateLimit = 1
    DailyLimit = 1
    FailureLimit = 2
    WindowsPerDay = 1
    MaxWindow = 2
    MaxCount = 2
SPECIFICATION Spec
INVARIANTS
    TypeOK
    LimitsKept
    CountersAgeOut
