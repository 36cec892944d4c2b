SPECIFICATION FairSpec
CONSTANTS
    NSteps = 8
    NoSaga = NoSaga
    Compensable = {0, 1, 2, 3, 4, 5, 6, 7}
    Undoable = {0, 1, 2, 3, 4, 5, 6, 7}
    Ambiguous = {}
    StoreFaults = FALSE
    UndoFaults = FALSE
    Crashes = TRUE
CHECK_DEADLOCK FALSE
INVARIANTS TypeOK RolledBackIsClean RecordedStepsStand
PROPERTIES ImplementsAtomicSaga
