SPECIFICATION Spec
CONSTANTS
    u1 = u1  c2 = c2  r1 = r1  r2 = r2
    Users = {u1, root}
    Admins = {root}
    Clients = {c1, c2}
    Signings <- OneIsUser
    Home <- Homes
    Replicas = {r1, r2}
    Skew <- Clocks
    Keys = {k1}
    NoKey = NoKey
    FailOpen <- OpenAtOne
    Capacity = 1
    Window = 1
    MaxActive = 1
    MaxRows = 2
    MaxTime = 2
    MaxBack = 1
CHECK_DEADLOCK FALSE
INVARIANTS RateBounded QuotaBounded InsertsOnlyNew
