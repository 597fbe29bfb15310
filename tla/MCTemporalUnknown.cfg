\* A move that names a family the cluster does not have.
CONSTANTS
    Families = {fa, fb}
    Names = {fa, fb, ghost}
    Datatypes = {d1}
    Sagas = {m1}
    MaxAttempts = 1
    MaxMishaps = 0
    MaxEndedRuns = 0
    MaxTries = 2
    MaxTimeouts = 0
    Source = fa
SPECIFICATION FairSpecFromSource
PROPERTIES
    EveryMoveEnds
CHECK_DEADLOCK FALSE
