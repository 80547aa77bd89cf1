SPECIFICATION FairSpec
CONSTANTS
    r3 = r3  n1 = n1  n2 = n2
    None = None
    Requests = {r1, r2, r3}
    Names = {n1, n2}
    NameOf <- SharedName
    MaxConcurrent = 2
    Threshold = 1
    MaxAge = 2
    HealthAttempts = 2
    MaxTime = 3
INVARIANTS Accounting NoFalseAlarm StuckSeen ImageKept
PROPERTIES Answered
CHECK_DEADLOCK FALSE
