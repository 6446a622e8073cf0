SPECIFICATION FairSpec
CONSTANTS
    Wrappers = {p1, p2}
    NoWrapper = NoWrapper
    MaxCrashes = 1
INVARIANTS
    RunsOnce
    OneResult
    VerdictTrue
PROPERTIES
    JobSettles
CHECK_DEADLOCK FALSE
