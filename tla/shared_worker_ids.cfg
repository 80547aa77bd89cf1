SPECIFICATION Spec
CONSTANTS
    w1 = w1  w2 = w2  c1 = c1  c2 = c2  r1 = r1  r2 = r2
    NoWorker = NoWorker
    MaxTasks = 1
    Replicas = {r1, r2}
    Workers = {w1, w2}
    Clients = {c1}
    Home <- TwoReplicas
    WorkerId <- SharedIds
    RedisAtStart <- AllRedis
    Bodies <- PlainBodies
    HealthAttempts = 2
    MaxFaults = 0
INVARIANT Fencing
