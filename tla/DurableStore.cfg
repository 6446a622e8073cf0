SPECIFICATION FairSpec
CONSTANTS
    k1 = k1
    k2 = k2
    m0 = m0
    m1 = m1
    m2 = m2
    Procs = {p1, p2}
    Keys = {k1, k2}
    Calls = {m0, m1, m2}
    Touches <- MCTouches
    Imported = {m0}
    Absent = Absent
    MaxFaults = 2
    MaxCrashes = 1
INVARIANTS
    ReadsCommitted
PROPERTIES
    ImplementsAtomic
    CallsAnswered
CHECK_DEADLOCK FALSE
