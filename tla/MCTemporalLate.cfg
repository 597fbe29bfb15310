\* One move, two timeouts, and requests that arrive late.
CONSTANTS
    Families = {fa, fb}
    Names = {fa, fb}
    Datatypes = {d1}
    Sagas = {m1}
    MaxAttempts = 1
    MaxMishaps = 0
    MaxEndedRuns = 0
    MaxTries = 2
    MaxTimeouts = 2
    Source = fa
SPECIFICATION OneOwnerSpec
INVARIANTS
    DeviationsStayNamed
CHECK_DEADLOCK FALSE
