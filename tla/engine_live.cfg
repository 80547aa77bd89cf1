SPECIFICATION FairSpec
CONSTANTS
    w1 = w1  w2 = w2  c1 = c1  c2 = c2  r1 = r1  r2 = r2
    NoWorker = NoWorker
    MaxTasks = 1
    Replicas = {r1}
    Workers = {w1}
    Clients = {c1}
    Home <- OneReplica
    WorkerId <- OwnIds
    RedisAtStart <- EitherRedis
    Bodies <- LateBodies
    HealthAttempts = 2
    MaxFaults = 2
PROPERTY EveryTaskSettles
