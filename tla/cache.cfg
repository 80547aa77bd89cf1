SPECIFICATION FairSpec
CONSTANTS
    p1 = p1  p2 = p2  r1 = r1  r2 = r2
    None = None
    Replicas = {r1, r2}
    Threads = {p1, p2}
    Home <- TwoReplicas
    MaxWrites = 2
    MaxResets = 1
    MaxFaults = 1
INVARIANTS TypeOK ListsFresh
PROPERTY CacheConverges
