\* One move: faults, timeouts, a rollover or a terminated actor.
CONSTANTS
    Families = {fa, fb}
    Names = {fa, fb}
    Datatypes = {d1}
    Sagas = {m1}
    MaxAttempts = 1
    MaxMishaps = 1
    MaxEndedRuns = 1
    MaxTries = 1
    MaxTimeouts = 2
    Source = fa
SPECIFICATION FairSpecFromSource
INVARIANTS
    StaleCacheIsOwedOrReported
    DeviationsStayNamed
PROPERTIES
    EveryMoveEnds
CHECK_DEADLOCK FALSE
