\* Two moves at the same time, without a fault.
CONSTANTS
    Families = {fa, fb}
    Names = {fa, fb}
    Datatypes = {d1, d2}
    Sagas = {m1, m2}
    MaxAttempts = 1
    MaxMishaps = 0
    MaxCrashes = 0
    MaxResets = 0
SPECIFICATION OneOwnerSpec
INVARIANTS
    EveryDatatypeHasOneOwner
CHECK_DEADLOCK FALSE
