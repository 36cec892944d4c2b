SPECIFICATION FairSpec
CONSTANTS
    NSteps = 3
    NoSaga = NoSaga
    Compensable = {0, 1, 2}
    Undoable = {0, 1, 2}
    Ambiguous = {0, 1, 2}
    StoreFaults = TRUE
    UndoFaults = TRUE
    Crashes = FALSE
CHECK_DEADLOCK FALSE
INVARIANTS CompletedMeansAllApplied
PROPERTIES UndoneInReverse CallEnds
