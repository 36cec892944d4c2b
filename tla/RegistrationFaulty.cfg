SPECIFICATION FairSpec
CONSTANTS
    r1 = r1
    r2 = r2
    r3 = r3
    NoSaga = NoSaga
    Request <- Requests2
    Email <- Emails
    EmailOf <- SameEmail
    WithCity <- TwoCities
    StoreFaults = TRUE
    DatabaseFaults = TRUE
    SlowCore = TRUE
    Crashes = TRUE
CHECK_DEADLOCK FALSE
INVARIANTS OneOwnerPerEmail CreatedMeansRegistered AnnouncedUsersExist FailureLeavesNoUser
PROPERTIES EveryCallAnswered
