SPECIFICATION BootSpec
CONSTANTS
    b1 = b1  b2 = b2  h1 = h1  h2 = h2
    Backends = {b1, b2}
    Handlers = {h1, h2}
    Server <- AllByFirst
    Settings <- SomeSettings
    Insecure = {"CHANGE_ME"}
    Production = TRUE
    WorkerCount = 1
    Migrations = 1
    Pings <- SomePings
    MinioAttempts = 2
    Unset = Unset  Unreadable = Unreadable
    MaxFailures = 1
    MaxChanges = 1
INVARIANTS WorkersOnce WorkersStarted TokensSafe SameCache SchemaReady OnceHeld
