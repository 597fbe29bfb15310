\* Two moves at the same time, in opposite directions, with a fault.
CONSTANTS
    Families = {fa, fb}
    Names = {fa, fb}
    Datatypes = {d1, d2}
    Sagas = {m1, m2}
    MaxAttempts = 1
    MaxMishaps = 1
    MaxCrashes = 0
    MaxResets = 0
    First = m1
    Source = fa
    Moved = d1
SPECIFICATION FairOppositeSpec
INVARIANTS
    StaleCacheIsOwedOrReported
    SuspensionsWereThereBefore
PROPERTIES
    EveryMoveEnds
CHECK_DEADLOCK FALSE
