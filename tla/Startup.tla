------------------------------- MODULE Startup -------------------------------
(***************************************************************************)
(* How a backend process comes up (main.cpp, Backend.cpp): settings are    *)
(* loaded and checked, Redis, the cache, the database, the task engine and *)
(* MinIO are set up, each with its own way of failing, and the process     *)
(* listens.  What main could not do is done by the first request that      *)
(* needs it: the engine is bootstrapped by enqueue, the table of images    *)
(* migrated by the first statement, the settings loaded a second time by   *)
(* cachedConfig.  Two of these are behind a std::call_once that is open    *)
(* again when it ends with an exception, and processes share the table.    *)
(* Defined for TaskEngineProofs to extend: no name of TaskEngine is used.  *)
(***************************************************************************)
EXTENDS Integers

CONSTANTS Backends,         \* backend processes; also their main threads
          Handlers,         \* HTTP threads of all processes
          Server,           \* Server[h]: the process of HTTP thread h
          Settings,         \* what files and environment can say
          Insecure,         \* secrets main refuses
          Production,       \* ENV is production
          WorkerCount,      \* task_engine.workers
          Migrations,       \* columns and indices an old table may lack
          MinioAttempts,    \* kMinioMaxAttempts
          Pings,            \* Pings[r]: outcomes of the startup pings of r
          Unset, Unreadable,
          MaxFailures,      \* bound: bootstraps in which a thread does not start
          MaxChanges        \* bound: changes of the settings

Threads == Backends \cup Handlers
Process == [t \in Threads |-> IF t \in Backends THEN t ELSE Server[t]]
Indices == 1..(WorkerCount + 1)   \* of worker ids; without settings there is one worker
Objects == 0..Migrations          \* 0 is the table itself

ASSUME StartupAssumption ==
    /\ Backends \cap Handlers = {}
    /\ Server \in [Handlers -> Backends]
    /\ WorkerCount \in Nat /\ Migrations \in Nat /\ MinioAttempts \in Nat \ {0}
    /\ MaxFailures \in Nat /\ MaxChanges \in Nat
    /\ Production \in BOOLEAN
    /\ Pings \in [Backends -> SUBSET [redis : BOOLEAN, cache : BOOLEAN]]
    /\ \A s \in Settings : {"json", "env", "file", "unsafeCors"} = DOMAIN s

VARIABLES
    settings,  \* what files and environment say now
    schema,    \* what there is of the table of images
    process,   \* what a process has set up
    engine,    \* its task engine
    table,     \* its call_once in ensureTable: "open", "running", "done"
    thread,    \* what its main thread and its HTTP threads are doing
    changes    \* changes of the settings so far

bootVars == <<settings, schema, process, engine, table, thread, changes>>

\* main's own copy of the settings is "loaded"; "changed" is history: the
\* settings have changed since, before cachedConfig loaded its copy.
NewProcess == [loaded |-> Unset, cached |-> Unset, redis |-> FALSE, cache |-> FALSE,
               missed |-> FALSE, changed |-> FALSE]

\* "failures" is history: how often bootstrap ended with an exception.
NewEngine == [config |-> "none", cache |-> FALSE, once |-> "open",
              threads |-> [i \in Indices |-> 0], failures |-> 0]

Idle(pc) == [pc |-> pc, at |-> 0, bootstrapping |-> FALSE]

-----------------------------------------------------------------------------
(***************************************************************************)
(* Backend.cpp: a named secret file is read or loading fails, the          *)
(* environment goes before the configuration file.                         *)
(***************************************************************************)
readEnvOrSecretFile(s) == IF s.file # Unset THEN s.file ELSE s.env

overrideSecretString(value, override) == IF override # Unset THEN override ELSE value

canLoad(s) == s.json # Unset /\ s.file # Unreadable

loadConfig(s) ==
    [secret |-> overrideSecretString(s.json, readEnvOrSecretFile(s)),
     unsafeCors |-> s.unsafeCors]

\* Mutant of cachedConfig: the settings are loaded whenever they are read.
configOfNow(r) == IF canLoad(settings) THEN loadConfig(settings) ELSE process[r].cached

\* The copy of process r for all reads but those of main, loaded at its first use.
cachedConfig(r) ==
    IF process[r].cached = Unset /\ canLoad(settings) THEN loadConfig(settings)
                                                      ELSE process[r].cached

Configs == {loadConfig(s) : s \in Settings}

ASSUME UnsetAssumption == Unset \notin Configs

insecureSecret(c) == c.secret \in Insecure

\* Origins that are "*" or local.
validateProductionCors(c) == Production => ~c.unsafeCors

-----------------------------------------------------------------------------
BootInit ==
    /\ settings \in Settings
    /\ schema \in {{}, {0}, Objects}
    /\ process = [r \in Backends |-> NewProcess]
    /\ engine = [r \in Backends |-> NewEngine]
    /\ table = [r \in Backends |-> "open"]
    /\ thread = [t \in Threads |-> Idle(IF t \in Backends THEN "exited" ELSE "idle")]
    /\ changes = 0

At(t, pc) == thread[t].pc = pc

Proceed(t, pc) == thread' = [thread EXCEPT ![t] = [@ EXCEPT !.pc = pc]]

\* The thread leaves bootstrap.
Leaves(t, pc) == thread' = [thread EXCEPT ![t] = Idle(pc)]

\* main goes on, a request is answered.
Returns(t) == Leaves(t, IF t \in Backends THEN "minio" ELSE "answered")

\* The thread enters a loop, or goes on with its next round.
Round(t, pc, n) == thread' = [thread EXCEPT ![t] = [@ EXCEPT !.pc = pc, !.at = n]]

\* The process ends and forgets everything.
Exits(r) ==
    /\ process' = [process EXCEPT ![r] = NewProcess]
    /\ engine' = [engine EXCEPT ![r] = NewEngine]
    /\ table' = [table EXCEPT ![r] = "open"]
    /\ thread' = [t \in Threads |-> IF Process[t] # r THEN thread[t]
                                    ELSE Idle(IF t \in Backends THEN "exited" ELSE "idle")]
    /\ UNCHANGED <<settings, schema, changes>>

-----------------------------------------------------------------------------
(***************************************************************************)
(* main.                                                                   *)
(***************************************************************************)
Start(r) ==
    /\ At(r, "exited") /\ Proceed(r, "load")
    /\ UNCHANGED <<settings, schema, process, engine, table, changes>>

Load(r) ==
    /\ At(r, "load") /\ canLoad(settings)
    /\ process' = [process EXCEPT ![r] = [@ EXCEPT !.loaded = loadConfig(settings)]]
    /\ Proceed(r, "check")
    /\ UNCHANGED <<settings, schema, engine, table, changes>>

LoadFails(r) == At(r, "load") /\ ~canLoad(settings) /\ Exits(r)

Check(r) ==
    /\ At(r, "check")
    /\ IF insecureSecret(process[r].loaded) \/ ~validateProductionCors(process[r].loaded)
       THEN Exits(r)
       ELSE /\ Proceed(r, "redis")
            /\ UNCHANGED <<settings, schema, process, engine, table, changes>>

\* The ping decides for the lifetime of the process.  The limiter, which is
\* configured next, is started in ImageCreate.
InitRedis(r) ==
    /\ At(r, "redis") /\ Proceed(r, "cache")
    /\ \E ping \in Pings[r] : process' = [process EXCEPT ![r] = [@ EXCEPT !.redis = ping.redis]]
    /\ UNCHANGED <<settings, schema, engine, table, changes>>

\* setDefaultCache: a client that is connected, or one that caches nothing.
InitCache(r) ==
    /\ At(r, "cache") /\ Proceed(r, "database")
    /\ \E ping \in Pings[r] :
          /\ ping.redis = process[r].redis
          /\ process' = [process EXCEPT ![r] = [@ EXCEPT !.cache = ping.cache]]
    /\ UNCHANGED <<settings, schema, engine, table, changes>>

\* The engine of process r is constructed at its first use, with the settings
\* cachedConfig has or the defaults.
Constructed(r) ==
    IF engine[r].config # "none" THEN engine[r].config
    ELSE IF cachedConfig(r) = Unset THEN "defaults" ELSE "configured"

\* Mutant of WithCache: main keeps the cache client to itself.
ConstructedOnly(r) == [engine[r] EXCEPT !.config = Constructed(r)]

\* bootstrapWorkers hands main's cache client to the engine.
WithCache(r) == [engine[r] EXCEPT !.config = Constructed(r), !.cache = process[r].cache]

InitDatabase(r) ==
    /\ At(r, "database") /\ Proceed(r, "bootstrap")
    /\ process' = [process EXCEPT ![r] = [@ EXCEPT !.cached = cachedConfig(r)]]
    /\ engine' = [engine EXCEPT ![r] = WithCache(r)]
    /\ UNCHANGED <<settings, schema, table, changes>>

\* There is no session: main warns and goes on, without a task engine.
DatabaseMissing(r) ==
    /\ At(r, "database") /\ Proceed(r, "minio")
    /\ process' = [process EXCEPT ![r] = [@ EXCEPT !.missed = TRUE]]
    /\ UNCHANGED <<settings, schema, engine, table, changes>>

\* Ten attempts, and the process listens whether there is a bucket or not.
EnsureBucket(r) ==
    /\ At(r, "minio")
    /\ \/ Proceed(r, "listening")
       \/ thread[r].at + 1 < MinioAttempts /\ Round(r, "minio", thread[r].at + 1)
    /\ UNCHANGED <<settings, schema, process, engine, table, changes>>

-----------------------------------------------------------------------------
(***************************************************************************)
(* TaskEngine::bootstrap, by main or by a request.                         *)
(***************************************************************************)
\* Mutants of Reopened: the error is logged only, so that it counts as done; or a
\* flag set at the start of what runs once stays.
DoneAnyway == "done"
StaysRunning == "running"

\* A call_once that ends with an exception is open again.
Reopened == "open"

OnceEngine(r, once) == engine' = [engine EXCEPT ![r] = [@ EXCEPT !.once = once]]

WorkersOf(r) == IF engine[r].config = "configured" THEN WorkerCount ELSE 1

\* The thread that runs call_once finds the engine disabled, recovers the
\* queue first, or starts threads; one that finds it done goes on.
Bootstrap(t) ==
    LET r == Process[t] IN
    /\ At(t, "bootstrap")
    /\ \/ /\ engine[r].once = "done"
          /\ Returns(t) /\ UNCHANGED engine
       \/ /\ engine[r].once = "open" /\ WorkersOf(r) = 0
          /\ Returns(t) /\ OnceEngine(r, "done")
       \/ /\ engine[r].once = "open" /\ WorkersOf(r) > 0
          /\ thread' = [thread EXCEPT ![t] = [@ EXCEPT !.bootstrapping = TRUE,
                            !.pc = IF process[r].redis THEN "ensure" ELSE "spawn"]]
          /\ OnceEngine(r, "running")
    /\ UNCHANGED <<settings, schema, process, table, changes>>

\* The first n workers are started.
Spawned(r, n) == [i \in Indices |-> engine[r].threads[i] + (IF i <= n THEN 1 ELSE 0)]

\* Mutant of AllSpawned: the workers are started without a call_once.
AllSpawnedAgain(r) == [engine[r] EXCEPT !.once = "open", !.threads = Spawned(r, WorkersOf(r))]

AllSpawned(r) == [engine[r] EXCEPT !.once = "done", !.threads = Spawned(r, WorkersOf(r))]

Spawn(t) ==
    LET r == Process[t] IN
    /\ At(t, "spawn")
    /\ engine' = [engine EXCEPT ![r] = AllSpawned(r)]
    /\ Returns(t)
    /\ UNCHANGED <<settings, schema, process, table, changes>>

\* A thread cannot be created, the scanner's last of all: call_once is open
\* again, and the threads there are go on.  main warns, a request fails.
SpawnFails(t, n) ==
    LET r == Process[t] IN
    /\ At(t, "spawn") /\ n <= WorkersOf(r) /\ engine[r].failures < MaxFailures
    /\ engine' = [engine EXCEPT ![r] = [@ EXCEPT !.once = Reopened, !.threads = Spawned(r, n),
                                                 !.failures = engine[r].failures + 1]]
    /\ Leaves(t, IF t \in Backends THEN "minio" ELSE "refused")
    /\ UNCHANGED <<settings, schema, process, table, changes>>

-----------------------------------------------------------------------------
(***************************************************************************)
(* ImageRepo::ensureTable, before the first statement of a process.        *)
(***************************************************************************)
OnceTable(r, once) == table' = [table EXCEPT ![r] = once]

\* With the table complete the statement goes on.  An error refuses the
\* request; recoverOrphanedTasks logs it, and bootstrap starts its threads.
EnsureReturns(t) == Round(t, IF thread[t].bootstrapping THEN "spawn" ELSE "insert", 0)
EnsureThrows(t) == Round(t, IF thread[t].bootstrapping THEN "spawn" ELSE "refused", 0)

Migrating(t) == thread[t].pc \in {"look", "alter"}

EnsureDone(t) ==
    /\ At(t, "ensure") /\ table[Process[t]] = "done"
    /\ EnsureReturns(t)
    /\ UNCHANGED <<settings, schema, process, engine, table, changes>>

\* CREATE TABLE IF NOT EXISTS.
CreateTable(t) ==
    /\ At(t, "ensure") /\ table[Process[t]] = "open"
    /\ schema' = IF 0 \in schema THEN schema ELSE Objects
    /\ OnceTable(Process[t], "running")
    /\ Round(t, "look", 1)
    /\ UNCHANGED <<settings, process, engine, changes>>

\* columnExists, indexExists.
Look(t) ==
    /\ At(t, "look") /\ thread[t].at <= Migrations
    /\ IF thread[t].at \in schema THEN Round(t, "look", thread[t].at + 1)
                                  ELSE Proceed(t, "alter")
    /\ UNCHANGED <<settings, schema, process, engine, table, changes>>

Added(t) == schema \cup {thread[t].at}

Alter(t) ==
    /\ At(t, "alter") /\ thread[t].at \notin schema
    /\ schema' = Added(t)
    /\ Round(t, "look", thread[t].at + 1)
    /\ UNCHANGED <<settings, process, engine, table, changes>>

Migrated(t) ==
    /\ At(t, "look") /\ thread[t].at > Migrations
    /\ OnceTable(Process[t], "done")
    /\ EnsureReturns(t)
    /\ UNCHANGED <<settings, schema, process, engine, changes>>

\* A call fails, at the latest the ALTER of what another process has added
\* since; that of an ALTER may have been executed.
EnsureFails(t) ==
    /\ \/ At(t, "ensure") /\ table[Process[t]] = "open"
       \/ At(t, "look") /\ thread[t].at <= Migrations
       \/ At(t, "alter")
    /\ \/ UNCHANGED schema
       \/ At(t, "alter") /\ schema' = Added(t)
    /\ OnceTable(Process[t], Reopened)
    /\ EnsureThrows(t)
    /\ UNCHANGED <<settings, process, engine, changes>>

-----------------------------------------------------------------------------
(***************************************************************************)
(* Requests that enqueue a task (create, retry), on an HTTP thread.        *)
(***************************************************************************)
Resting == {"idle", "answered", "refused"}

\* verifyToken loads the secret at its first use; without one no token is good.
Authenticate(h) ==
    LET r == Server[h] IN
    /\ thread[h].pc \in Resting /\ At(r, "listening")
    /\ process' = [process EXCEPT ![r] = [@ EXCEPT !.cached = cachedConfig(r)]]
    /\ Proceed(h, IF cachedConfig(r) = Unset THEN "refused" ELSE "ensure")
    /\ UNCHANGED <<settings, schema, engine, table, changes>>

\* Mutant of Insert: enqueue pushes the task and leaves the engine to main.
InsertOnly(h) ==
    /\ At(h, "insert") /\ Proceed(h, "answered")
    /\ UNCHANGED <<settings, schema, process, engine, table, changes>>

\* The row is written, and enqueue bootstraps an engine nobody has bootstrapped.
Insert(h) ==
    LET r == Server[h] IN
    /\ At(h, "insert") /\ Proceed(h, "bootstrap")
    /\ engine' = [engine EXCEPT ![r] = [@ EXCEPT !.config = Constructed(r)]]
    /\ UNCHANGED <<settings, schema, process, table, changes>>

InsertFails(h) ==
    /\ At(h, "insert") /\ Proceed(h, "refused")
    /\ UNCHANGED <<settings, schema, process, engine, table, changes>>

-----------------------------------------------------------------------------
\* A worker that generates reads the settings too.
WorkerReadsConfig(r) ==
    /\ \E i \in Indices : engine[r].threads[i] > 0
    /\ process' = [process EXCEPT ![r] = [@ EXCEPT !.cached = cachedConfig(r)]]
    /\ UNCHANGED <<settings, schema, engine, table, thread, changes>>

\* Files change under running processes; their environment does not.
Change(s) ==
    /\ changes < MaxChanges /\ changes' = changes + 1
    /\ s # settings /\ s.env = settings.env
    /\ settings' = s
    /\ process' = [r \in Backends |-> [process[r] EXCEPT !.changed =
                       @ \/ (process[r].loaded # Unset /\ process[r].cached = Unset)]]
    /\ UNCHANGED <<schema, engine, table, thread>>

ProcessEnds(r) == ~At(r, "exited") /\ Exits(r)

MainStep(r) ==
    \/ Load(r) \/ LoadFails(r) \/ Check(r) \/ InitRedis(r) \/ InitCache(r)
    \/ InitDatabase(r) \/ DatabaseMissing(r) \/ EnsureBucket(r)

ThreadStep(t) ==
    \/ Bootstrap(t) \/ Spawn(t) \/ (\E n \in 0..(WorkerCount + 1) : SpawnFails(t, n))
    \/ EnsureDone(t) \/ CreateTable(t) \/ Look(t) \/ Alter(t) \/ Migrated(t) \/ EnsureFails(t)

RequestStep(h) == Insert(h) \/ InsertFails(h)

BootNext ==
    \/ \E r \in Backends : Start(r) \/ MainStep(r) \/ WorkerReadsConfig(r) \/ ProcessEnds(r)
    \/ \E t \in Threads : ThreadStep(t)
    \/ \E h \in Handlers : Authenticate(h) \/ RequestStep(h)
    \/ \E s \in Settings : Change(s)

BootSpec == BootInit /\ [][BootNext]_bootVars

-----------------------------------------------------------------------------
ProcessStates ==
    [loaded : Configs \cup {Unset}, cached : Configs \cup {Unset}, redis : BOOLEAN,
     cache : BOOLEAN, missed : BOOLEAN, changed : BOOLEAN]

EngineStates ==
    [config : {"none", "configured", "defaults"}, cache : BOOLEAN,
     once : {"open", "running", "done"}, threads : [Indices -> Nat], failures : Nat]

ThreadStates ==
    [pc : {"exited", "load", "check", "redis", "cache", "database", "minio", "listening"}
          \cup Resting \cup {"insert", "bootstrap", "spawn", "ensure", "look", "alter"},
     at : Nat, bootstrapping : BOOLEAN]

BootTypeOK ==
    /\ settings \in Settings /\ schema \subseteq Objects
    /\ process \in [Backends -> ProcessStates]
    /\ engine \in [Backends -> EngineStates]
    /\ table \in [Backends -> {"open", "running", "done"}]
    /\ thread \in [Threads -> ThreadStates]
    /\ changes \in 0..MaxChanges

\* The ids <worker_prefix>-<i> of a process are distinct, whoever bootstraps
\* the engine and however often: there is one thread of each id, and one more
\* for each bootstrap in which a thread could not be created, since call_once
\* is open again and the next request starts all of them (task_engine.cpp:400).
WorkersOnce ==
    \A r \in Backends : \A i \in Indices :
        engine[r].threads[i] <= engine[r].failures + (IF engine[r].once = "done" THEN 1 ELSE 0)

\* Workers run once the process listens, unless the database or a thread was
\* missing at its start, and then as soon as a request was answered: "Without
\* this ... the task would sit in the queue forever" (task_engine.cpp:436).
WorkersStarted ==
    \A t \in Threads :
        LET r == Process[t]
        IN At(t, "answered") \/ (At(t, "listening") /\ ~process[r].missed /\ engine[r].failures = 0)
           => \A i \in Indices : i <= WorkersOf(r) => engine[r].threads[i] > 0

\* Tokens are never signed or accepted with a secret that main would refuse,
\* unless the settings changed between main's loadConfig and cachedConfig.
TokensSafe ==
    \A r \in Backends :
        process[r].cached # Unset => process[r].changed \/ ~insecureSecret(process[r].cached)

\* The engine evicts from the cache that requests are served from, unless it
\* was bootstrapped by a request because the database was missing at the start.
SameCache ==
    \A r \in Backends :
        engine[r].once # "open" => process[r].missed \/ engine[r].cache = process[r].cache

\* However many processes and threads migrate the table at the same time, and
\* wherever they fail, no statement of a process runs before it is complete.
SchemaReady ==
    /\ \A t \in Threads :
          At(t, "insert") \/ (At(t, "bootstrap") /\ t \in Handlers) => schema = Objects
    /\ \A r \in Backends : table[r] = "done" => schema = Objects

\* Both call_once are run by one thread of the process at a time, and there is
\* one that runs them whenever they are: however calls fail in them, no main
\* thread and no request waits for a call_once that nobody will end.
OneRuns(r) ==
    /\ engine[r].once = "running" <=> \E t \in Threads : Process[t] = r /\ thread[t].bootstrapping
    /\ table[r] = "running" <=> \E t \in Threads : Process[t] = r /\ Migrating(t)
    /\ \A t, u \in Threads :
          Process[t] = r /\ Process[u] = r
          => /\ thread[t].bootstrapping /\ thread[u].bootstrapping => t = u
             /\ Migrating(t) /\ Migrating(u) => t = u

OnceHeld == \A r \in Backends : OneRuns(r)
=============================================================================
