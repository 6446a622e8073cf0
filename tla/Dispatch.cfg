SPECIFICATION FairSpec
CONSTANTS
    Ops = {o1}
    MaxAttempts = 2
    MaxCrashes = 1
INVARIANTS
    OneReceipt
PROPERTIES
    VerdictFinal
    QueuedNeverRuns
    DispatchSettles
CHECK_DEADLOCK FALSE
