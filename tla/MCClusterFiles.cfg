\* Three attempts of two families, up to two faulty operations, one crash.
CONSTANTS
    Families = {fa, fb}
    Names = {fa, fb}
    Datatypes = {d1}
    MaxFaults = 2
    MaxTimes = 1
    MaxCalls = 3
    MaxCrashes = 1
    Pausing = fa
    Patching = fb
    Calls <- CallsOfTwoMoves
SPECIFICATION SpecOfTwoMoves
INVARIANTS
    FilesTypeOK
    LogAccountsForChanges
    LinesOfAFamilyAreOrdered
    SavepointIsStored
    UnreadableOnlyAfterCrash
PROPERTIES
    RulesOfOneFamilyAreExact
    ImplementsAtomicCluster
CHECK_DEADLOCK FALSE
