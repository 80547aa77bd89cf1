CONSTANTS
    b1 = b1
    q1 = q1
    q2 = q2
    Tabs = {b1}
    Requests = {q1, q2}
    TabOf <- OneTab
    MaxPairs = 3
CONSTRAINT Bounded
SPECIFICATION FairSpec
INVARIANTS RefreshedOnce AccountedFor
PROPERTIES RequestsEnd
CHECK_DEADLOCK FALSE
