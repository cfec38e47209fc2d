SPECIFICATION MCSpec
CONSTANTS
    w1 = w1
    w2 = w2
    once = once
    once2 = once2
    daily = daily
    bad = bad
    Workers = {w1, w2}
    Tasks = {once, once2, daily, bad}
    Once = {once, once2}
    Poison = {bad}
    DueAt <- MCDueAt
    FiresOn <- MCFiresOn
    MinutesPerDay = 2
    LastMinute = 2
    MaxRetries = 1
    MaxFaults = 1
INVARIANTS
    TypeOK
    RetiredOnlyAfterDelivery
    DuplicatesNeedRescans
    OnceSentOnce
    EveryScanDelivers
PROPERTY WorkDrains
CHECK_DEADLOCK FALSE
