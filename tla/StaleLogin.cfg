SPECIFICATION Spec
CONSTANTS
    MaxCreds = 3
    MaxProbes = 1
    ParkAfter = 3
    Budget <- MCLogin
PROPERTY LoginKept
CHECK_DEADLOCK FALSE
