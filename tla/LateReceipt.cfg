SPECIFICATION Spec
CONSTANTS
    Ops = {o1}
    MaxAttempts = 2
    MaxCrashes = 0
PROPERTIES
    LateReceiptCounts
CHECK_DEADLOCK FALSE
