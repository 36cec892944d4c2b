SPECIFICATION FairSpec
CONSTANTS
    r1 = r1
    r2 = r2
    r3 = r3
    NoSaga = NoSaga
    Request <- Requests3
    Email <- Emails
    EmailOf <- AllSame
    WithCity <- TwoCities
    StoreFaults = FALSE
    DatabaseFaults = FALSE
    SlowCore = FALSE
    Crashes = FALSE
INVARIANTS TypeOK NoOrphanAssignment
PROPERTIES ImplementsSaga
CHECK_DEADLOCK FALSE
