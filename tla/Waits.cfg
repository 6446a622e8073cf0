SPECIFICATION FairSpec
CONSTANTS
    cb = cb
    poll = poll
    msg = msg
    s1 = s1
    s2 = s2
    Ids = {cb, poll, msg}
    Sessions = {s1, s2}
    Payloads = {p1, p2}
    None = None
    SessionOf <- MCSessionOf
    ModeOf <- MCModeOf
    MaxChecks = 2
    MaxFaults = 1
    MaxCrashes = 1
    MaxAfter = 1
INVARIANTS
    OneStory
    GuardExact
PROPERTIES
    FirstEndingWins
    GuardHeals
    WaitEnds
