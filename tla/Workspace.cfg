SPECIFICATION MCSpec
CONSTANTS
    s1 = s1
    s2 = s2
    s3 = s3
    w1 = w1
    w2 = w2
    Sessions = {s1, s2, s3}
    Workspaces = {w1, w2}
    NoSession = NoSession
    WorkspaceOf <- MCWorkspaceOf
    ExecutionLimit = 2
    ResidentLimit = 1
    RestoreLimit = 2
    MaxLeases = 2
    MaxCrashes = 1
INVARIANTS
    WriterHoldsLease
    WriterHasCheckout
    BudgetHeld
PROPERTIES
    DetachUnleased
    LeaseEnds
CHECK_DEADLOCK FALSE
