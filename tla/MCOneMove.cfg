\* One move with retries and an unknown name.
CONSTANTS
    Families = {fa, fb}
    Names = {fa, fb, ghost}
    Datatypes = {d1, d2}
    MaxAttempts = 2
    MaxSagas = 1
    Source = fa
    Moved = d1
SPECIFICATION FairSpecOfOneMove
INVARIANTS
    ErrorsNameEveryDeviation
    ReportAccountsForEveryIntent
    CompletedMovesDatatype
    VerdictReachesCaller
PROPERTIES
    SuspendRightAfterSavepoint
    EverySagaEnds
CHECK_DEADLOCK FALSE
