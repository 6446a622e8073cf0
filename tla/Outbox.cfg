SPECIFICATION FairSpec
CONSTANTS
    s1 = s1
    s2 = s2
    Ids = {i1, i2}
    Sessions = {s1, s2}
    Bodies = {b1}
    Tokens = {t1, t2, t3}
    None = None
    MaxAttempts = 2
    ClaimLimit = 2
    GroupOf <- MCGroupOf
INVARIANTS
    RetryBudget
PROPERTIES
    DeliveredByHolder
    AdmittedOnce
    ImplementsLine
    EverythingSettles
CHECK_DEADLOCK FALSE
