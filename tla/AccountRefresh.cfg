SPECIFICATION FairSpec
CONSTANTS
    MaxCreds = 3
    MaxProbes = 1
    ParkAfter = 3
    Budget <- MCBudget
INVARIANTS
    LoginSurvives
    NeverSpentTwice
    ProbesBounded
PROPERTIES
    ServesCurrent
    LapseSettles
CHECK_DEADLOCK FALSE
