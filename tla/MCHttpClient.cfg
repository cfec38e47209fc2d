SPECIFICATION Spec
CONSTANTS
    r1 = r1
    r2 = r2
    Requests <- MCRequests
    MaxRetries = 2
    MaxConnections = 1
    MaxClosers = 1
    FailureThreshold = 2
    ResetTimeout = 2
INVARIANTS
    TypeOK
    NothingLeaks
PROPERTIES
    OpenBreakerAdmitsNothing
    AnswersAreTrue
    EveryRequestEnds
