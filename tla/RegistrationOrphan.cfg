SPECIFICATION FairSpec
CONSTANTS
    r1 = r1
    r2 = r2
    r3 = r3
    NoSaga = NoSaga
    Request <- Requests2
    Email <- Emails
    EmailOf <- SameEmail
    WithCity <- OneCity
    StoreFaults = FALSE
    DatabaseFaults = FALSE
    SlowCore = TRUE
    Crashes = FALSE
CHECK_DEADLOCK FALSE
INVARIANTS NoOrphanAssignment
