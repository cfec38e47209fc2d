SPECIFICATION Spec
SYMMETRY Symmetry
CONSTANTS
    c1 = c1
    c2 = c2
    Calls = {c1, c2}
    Used <- MCUsed
    BadUrls <- MCBadUrls
    Threshold = 2
    MaxRetries = 1
INVARIANTS
    TypeOK
    TokenIsJudgedRightly
    BreakersFollowTheirHosts
    CloseClosesAll
