SPECIFICATION Spec
CONSTANTS
    b1 = b1
    b2 = b2
    x1 = x1
    u1 = u1
    u2 = u2
    u3 = u3
    n1 = n1
    n2 = n2
    Bots = {b1, b2}
    Users = {x1}
    Updates = {u1, u2, u3}
    Names = {n1, n2}
    BotOf <- MCBotOf
    From <- MCFrom
    NameIn <- MCNameIn
    MaxFaults = 1
INVARIANTS
    TypeOK
    RefusedLeaveNoTrace
    FailureNeedsWinner
    HandledIsStored
PROPERTIES
    NamesAreKept
    EveryUpdateEnds
CHECK_DEADLOCK FALSE
