\* Two moves, one after the other, that find the same actors.
CONSTANTS
    Families = {fa, fb}
    Names = {fa, fb}
    Datatypes = {d1}
    Sagas = {m1, m2}
    MaxAttempts = 2
    MaxMishaps = 2
    MaxEndedRuns = 1
    MaxTries = 2
    MaxTimeouts = 1
    Source = fa
SPECIFICATION IsolatedOneOwnerSpec
SYMMETRY Symmetry
INVARIANTS
    TypeOK
    NoCommandRunsTwice
PROPERTIES
    CompletedMoveIsWhole
    SuspendRightAfterSavepoint
CHECK_DEADLOCK FALSE
