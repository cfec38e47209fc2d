SPECIFICATION RedisSpec
CONSTANTS
    c1 = c1
    c2 = c2
    Callers <- MCCallers
    Limit = 2
    Window = 3
    MaxPerTick = 3
    MaxRestarts = 1
    k1 = k1
    k2 = k2
    Checkers <- MCCheckers
    Ttl = 3
    MaxFlight = 2
INVARIANTS
    TypeOK
    NoImmortalKey
    BurstBound
    GateTypeOK
PROPERTIES
    DenialsAreEarned
    ForgivenEventually
    AnswersAreFresh
