SPECIFICATION Spec
CONSTANTS
    w1 = w1  w2 = w2  c1 = c1  c2 = c2  r1 = r1  r2 = r2
    NoWorker = NoWorker
    MaxTasks = 1
    Replicas = {r1}
    Workers = {w1, w2}
    Clients = {c1}
    Home <- OneReplica
    WorkerId <- OwnIds
    RedisAtStart <- AllRedis
    Bodies <- AnyBodies
    HealthAttempts = 2
    MaxFaults = 1
SYMMETRY Symmetry
INVARIANTS TypeOK Fencing RetriesBounded ClaimsRecoverable ClaimsPaidFor
PROPERTIES ResultOfCurrentClaim LifecycleSpec
