\* A retry budget of 3 and one rule of up to 7 strikes: below and at the budget,
\* below, at and above twice the budget.  Two moves, with the rules kept or
\* changed between them, and a death at any point.
CONSTANTS
    Families = {fa, fb}
    Names = {fa, fb, ghost}
    Datatypes = {d1}
    MaxAttempts = 3
    MaxSagas = 2
    MaxFaults = 1
    MaxTimes = 7
SPECIFICATION ChaosSpec
SYMMETRY Symmetry
INVARIANTS
    IInv
PROPERTIES
    PatchOnlyWhileSuspended
    ResumeOnlyAfterRevert
    ImplementsContract
    SingleFaultVerdict
    ShortFaultsAreAbsorbed
    ScenariosEndAsDescribed
CHECK_DEADLOCK FALSE
