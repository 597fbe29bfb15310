\* Two moves one after the other, two faults.
CONSTANTS
    Families = {fa, fb}
    Names = {fa, fb}
    Datatypes = {d1}
    Sagas = {m1, m2}
    MaxAttempts = 1
    MaxMishaps = 2
    MaxCrashes = 0
    MaxResets = 0
SPECIFICATION IsolatedOneOwnerSpec
PROPERTIES
    ForwardPatchesSuspendedJobs
CHECK_DEADLOCK FALSE
