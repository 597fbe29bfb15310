\* Two moves with retries, a crash and a cleared cache; one name is unknown.
CONSTANTS
    Families = {fa, fb}
    Names = {fa, fb, ghost}
    Datatypes = {d1}
    First = m1
    Second = m2
    Sagas = {m1, m2}
    Order <- FirstThenSecond
    MaxAttempts = 2
    MaxMishaps = 2
    MaxCrashes = 1
    MaxResets = 1
SPECIFICATION SequentialSpec
SYMMETRY Symmetry
INVARIANTS
    TypeOK
    NoJobIsLeftSuspended
PROPERTIES
    CompletedMoveIsWhole
    SuspendRightAfterSavepoint
    RollbackNamesDeviations
    ImplementsContract
CHECK_DEADLOCK FALSE
