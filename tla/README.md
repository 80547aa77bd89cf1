# A TLA+ model of ZImage

ZImage generates images from text. A Vue frontend talks to a C++ backend (Drogon), which keeps
users and tasks in MySQL, hands tasks to worker threads through Redis, calls a Python model
service over HTTP and stores images in MinIO. This directory holds TLA+ modules for the parts of
the three programs whose correctness depends on order, failure and concurrency, the TLC
configurations that check them on small instances, and proofs that TLAPS checks for every value of
the constants.
Paths below are relative to the repository.

## 1. Inventory

| Part | State | Operations | What is hard |
|---|---|---|---|
| Task engine (`Backend/src/services/task_engine.cpp`) | worker threads, a lease keeper per running task, one scanner per replica | claim, health gate, generate, finish, release; renew; expire, requeue, rebuild the list | threads of several replicas on the same rows, crashes, late answers |
| Image repository (`Backend/src/database/ImageRepo.cpp`) | the image table: status, worker_id, lease_expires_at, retry_count, storage_key | insert, two kinds of claim, renew, finish, defer, cancel, retry, expire, delete | guards in WHERE clauses are the only mutual exclusion there is |
| Redis client (`redis_client.cpp`) | list of task ids, lease key per task, availability decided at startup | LPUSH, BRPOP, LREM, rebuild script, SET NX EX, compare-and-delete, DEL | at-most-once delivery, calls that fail half-way |
| Model health gate (`model_health_gate.cpp`) | none | Proceed, Defer or Fail from a health report and retry_count | decides on a count read earlier |
| Generation client (`generation_client.cpp`) | none | generate, checkHealth, cleanupOrphanedStoredImage | the object outlives the attempt that stored it |
| Image storage (`image_storage.cpp`, `minio_client.cpp`) | one object per task, key `images/<user>/<request>.<ext>` | put, get, remove | key shared by all attempts |
| Image service (`image_service.cpp`) | none of its own; cache entries | create, list, get, cancel, retry, delete | check-then-act on idempotency key, quota, cache |
| Response cache (`cache_client.cpp`) | metadata entries, list pages under a version number | get, setex, del, bumpVersion | stale write after eviction, version key that expires |
| Authentication (`auth_service.cpp`, `refresh_token_store.cpp`) | users, refresh tokens, set of tokens per user | register, login, refresh, logout, change password | two-step writes, rotation races |
| Rate limiter (`rate_limiter.cpp`) | token bucket per caller in Redis, a flag per replica | tryAcquire | clocks of several replicas, read before the script runs; the flag that is cleared for good |
| Event hub (`task_event_hub.cpp`, `task_ws_controller.cpp`) | connections by user, per process | accept, publish, close | sends after the lock is released, to connections that end |
| Startup (`main.cpp`, `Backend.cpp`) | two copies of the settings, what was found at the start, two `call_once` flags per process | load, check, set up Redis, cache, database, engine and bucket, listen | each part may fail and is then done by a request, later and by several threads; processes that migrate one table |
| Model service (`ModelService/model_service_app`) | pipeline, load lock, start times, semaphore, files | load, generate, health, clean-up | threads against the event loop; start times that are not matched with generations |
| Browser session (`utils/request.js`, `stores/auth.js`, `router`) | token pair in localStorage, a copy per tab, one refresh per tab | login, requests, refresh, logout, checkAuth | requests that share a refresh; answers that come after a logout; tabs |
| Task socket (`utils/taskSocket.js`) | one socket, one reconnect timer, the listeners of a tab | subscribe, unsubscribe, reconnect, close | ends that are reported late |
| Generator view (`ImageGenerator.vue`) | token of the active task, waiter, timeout, poll timer | generate, cancel, reset, push, poll | answers of calls that were abandoned |

Requests enter through the controllers, which call the services. `ImageService::create` and
`retryById` commit a row as `queued` and then push its id onto the Redis list; a worker pops the
id, takes the Redis lease, claims the row, asks the model's health, generates and writes the
result. Without Redis the workers poll MySQL. Nothing but the WHERE clauses and the two leases
keeps two workers apart. `PROJECT.json` lists the hazards of this code line by line.

What makes the core correct: a worker writes only into the claim it holds; whatever is lost on
the way, every task comes to an end; retries are counted and bounded; a finished task moves only
when its user says so; stored images that are referred to exist. Around the core: a refresh token
is good for one successor, ends with its logout and with the password it was obtained with; what
the cache serves is not older than what was announced, and never stale for ever; buckets, quotas
and idempotency keys bound what a user can ask for; the model's health reports lead the backend to
the right decision; and a browser gets each update of its user, once, keeps one session, and tells
its user what really became of a task.

## 2. Modules

| Module | Models |
|---|---|
| `TaskStatus` | the status enum and `canCancel`, `canRetry`, `canDelete`, `isTerminal` |
| `ModelHealthGate` | `decideForGenerate` and its helpers |
| `ImageRepo` | each statement that moves a task: the guard of its WHERE clause and the row its SET clause leaves |
| `TaskEngine` | the composition: workers, lease keepers, scanners, API requests, Redis, MinIO, time and failures |
| `TaskLifecycle` | what the backend promises of one task: an abstract specification |
| `Startup` | how a process comes up, and what its first requests do instead of `main` |
| `TaskEngineProofs` | theorems about `TaskEngine` and, in its second part, `Startup` |
| `AuthSessions`, `AuthSessionsProofs` | login, refresh, logout and change of password of one account over the refresh tokens in Redis; theorems |
| `AuthSessionsHistory` | the same with a history variable for what overlapped a change of password; its theorem is in `AuthSessionsProofs` |
| `ImageCache`, `ImageCacheProofs` | the metadata entry of a task and the list pages of its user in front of the database; theorems |
| `ImageCreate`, `ImageCreateProofs` | `POST /api/images`: token bucket, quota, idempotency key, insert; theorems |
| `ModelService`, `ModelServiceProofs` | the model service, composed with `ModelHealthGate`; theorems |
| `TaskSocket`, `TaskSocketProofs` | event hubs, WebSocket connections and the socket of a tab; theorems |
| `ImageGenerator`, `ImageGeneratorProofs` | the view that waits for a task, composed with `TaskStatus`; theorems |
| `BrowserSession`, `BrowserSessionProofs` | the token pair of a browser and the requests of its tabs; theorems |
| `MC...` | instances for TLC |

How they fit together: `TaskEngine` uses `ModelHealthGate`, `ImageRepo` and `TaskStatus` and
implements `TaskLifecycle`. The others meet it at an interface that is narrow in the code as well.
`ImageCreate` ends where a row is inserted and `TaskEngine` begins there. `ImageGenerator` sees of a
task what `TaskLifecycle` promises, and its fairness to the backend is `EveryTaskSettles`.
`ModelService` produces the reports `TaskEngine` takes as arbitrary. `Startup` ends where the workers
of an engine run, which `TaskEngine` begins with, and justifies what the latter takes for granted:
one set of workers with distinct ids and a complete table. `BrowserSession` takes from the
server what `AuthSessions` promises: a refresh token is consumed once.

### State and steps of TaskEngine

`row` is the image table restricted to the columns decisions are made on, `queue` the Redis list,
`lock` the Redis lease keys, `up[r]` what `RedisClient::isAvailable()` answers in replica `r`,
`object[t]` whether the object of task `t` exists. `job[w]`, `scan[r]` and `api[c]` are the
program counters and locals of worker threads, scanners and API requests. `attempt`, in a row and
in a job, is a history variable: it numbers the claims of a task so that properties can tell them
apart, and no guard reads it. `faults` counts failures.

Every call to MySQL, Redis or MinIO is a step of its own. A handler that makes several calls is a
sequence of actions driven by its program counter, so that others come in between where the code
lets them; what a handler does between two calls is part of the step of the earlier one. Examples:
`processClaimedTask` is `GateProceed/GateFail/GateDefer`, `Generate`, `Finish`, `Release` and then
`EnqueueDeferred` or `Cleanup`; `cancelById` is `Cancel`, `CancelRemove`, `CancelUnlock`; one round
of `leaseExpiryLoop` is `ScanSelect`, `ScanExpire`, one `ScanEnqueue` per expired task,
`RecoverRead`, `RecoverWrite`.

Choices that deserve a word:

- *Time.* A lease is `live` or `expired`. A lease nobody is renewing lapses by itself; one that is
  being renewed (the keeper renews at half the lease time) lapses only as a fault, `LeaseOverrun`.
- *Failures.* A call that fails may or may not have been executed, where that makes a difference.
  The reply of an INSERT or of a retry's UPDATE being lost leaves the same state as the enqueue
  after it failing, which is modelled.
- *The two UPDATEs of the scanner* are one step: they use one timestamp and touch disjoint sets of
  rows (`retry_count` below or not below `max_retries`); a failure between them is modelled.
- *Read-back.* Both claims end with a SELECT guarded by worker id and status. That of
  `claimNextTask` finds its row by `lease_expires_at` as well, which selects the same row as long as
  no two rows of one worker share a lease time (a hazard of its own, not covered).
- *`pending`* is accepted by every guard but written by no code.
- *What the client's body says.* `fromJson` takes `retryCount`, `maxRetries`, `workerId`,
  `leaseExpiresAt` and `storageKey` from the body of a request to create a task, `create` resets none
  of them and `insert` binds them (`image_generation.cpp:123`, `ImageRepo.cpp:318`). `Bodies` is the
  set of what a body can say of them, any integers included; a row carries its own `max_retries`, and
  `first` remembers the `retry_count` it was inserted with (history). `max_retries` of the engine's
  configuration (`task_engine.cpp:50`) is read by nothing. `stored` says whether `storage_key`
  names the object of this task: a body can also name another task's, whose removal by a
  delete or by the cleanup is not modelled.
- *Deletion* removes the row; ids are not reused.
- *Listings* (`findQueuedTaskIds`) are ordered by `created_at, id`, which the model takes to be the
  order of ids.
- *Crash* restarts the replica: its threads and requests are gone, the startup ping decides again
  whether it uses Redis, and the server listens only after `recoverOrphanedTasks` has run.

### AuthSessions

`token` is the set of jtis whose key `zimage:refresh:<jti>` exists, `members` the set
`zimage:refresh:user:<id>`, `password` numbers the hashes the users row has held. `req[c]` is the
program counter and the locals of a request. Every Redis call and every SQL statement is a step:
`store` is `StoreSetex`, `StoreSadd`, `StoreExpire`; `consume` is `Consume` (the GETDEL script) and
`ConsumeSrem`; `revoke` is `RevokeGet`, `RevokeSrem`, `RevokeDel`; `revokeUser` is
`RevokeUserRead`, one `RevokeUserDel` per member, `RevokeUserDone`. A call that fails may have been
executed. `issued`, `origin` and `logout` are history: what clients were answered, from which jti
and under which password a token came about, and how far its logout got. Accounts share no key, so
there is one. A request that is refused changes nothing and is not a step. `UserRepo::findById`
never loads `enabled`, which keeps its default, so the check of it in `refresh` always passes. Not
modelled: the set of an account expires as a whole, with the TTL that every `store` renews.

### ImageCache

`db` is the number of writes committed to the task, which is all a cached copy has to be compared
by: a copy is the `db` that was read for it. `meta` is the entry of the task, `page[v]` a page of
the list under version `v`, `version` the version key (0 when it is missing), `available[r]` the
flag that a cache client clears for good at its first error. Writers commit, then fill (`create`)
or evict (all others), then bump; readers follow `getById` and `listMy` call by call. A thread may
die between its write and the invalidation; writes of the scanner to rows that it had not selected
are of the same kind. `settled` is history: the newest write whose bump was executed.
`listMyByStatus` takes the steps of `listMy` on a key of its own.

### AuthSessionsHistory

`overlapped` holds the jtis that some request had in its hands while a change of password was
between reading the set of the account and writing the hash, and those rotated from them. It
observes `AuthSessions` and guards nothing.

### ImageCreate

`bucket[u]` is the Redis hash of a user's bucket with its fill in units of 1/`Window` token, so
that the refill is a whole number; the code computes it in floating point, and rounding is
abstracted. `up[r]` is `available_` of the limiter in replica `r`, whose clock is `Skew[r]` ahead.
`req[c]` is the program counter of a request: `Begin` (limiter or not; the clock is read here, as
`evalTokenBucket` does before the call), `Acquire`, `Refuse` or `LimiterFails` (the script, which may
have run), `CountActive`, `FindByRequestId`, `Insert`. `TaskEnds`, `RetryById` and `DeleteById` are the
rest of the program as far as rows of a user go. `granted`, `back` and `before` (in `req`) are
history: requests that found a token, how far calls have set back the time of a bucket, and the
rows of the key that were there when the request began. Requests that carry no key get a generated
one that matches nothing.

### ModelService

`pipe`, `loader` (who holds `_load_lock`), `loading` and `starts` are the fields of the service and of
`GenerationState`; `req[r].pc` is where the thread of a request is. `load_model` is five steps, since
`/health` and other requests run between any two of them: `LockLoad`, `BeginLoad` (the second look at
`pipe` and `set_loading(True)`), `LoadModel`, `EndLoad` (`set_loading(False)`) and `UnlockLoad`. `file[n]` is when the temporary
file of that name was written; `cleaner` is `cleanup_temp_files_once` with its cutoff, the files it has
yet to look at and the one between `stat` and `unlink`. `Snapshot(loaded)` is the report of `/health`:
`loaded` is what `pipe` said before the lock was taken, which may be out of date (`Seen`). `Decision`
feeds it to the gate of the backend. Time is whole ticks; `int(...)` of the code truncates seconds.
A request is made once; loads with `force` have no caller. The event loop's default thread pool, in
which requests queue before they start, is not modelled.

### TaskSocket

`conn[s]` is a WebSocket of the tab with the messages under way, `socket`, `reconnectTimer`,
`manualClose` and `listeners` the variables of `taskSocket.js`, `hub[r]` the subscribers in backend
process `r`, `sending[e]` those an update has been copied for and not yet been sent to. `session` is
the user of what localStorage holds, which is not the tab's own: `Login` is the answer of a login or
another tab's refresh, stored at any time, `ClearedElsewhere` another tab's logout, and the tab's own
refresh (`refreshing`) begins for the session that is stored and is stored over whatever is there when
its answer comes (`RefreshStored`). None of these touches the socket; only `Logout` and `RefreshFails`
in this tab close it. Closing by hand and the report of it are two steps, as in the browser; the
server notices in a third. A connecting socket may be refused at any time, since the token in its url
may have expired since it was read; when it expires is left open. An update published in a process to
which the tab is not connected reaches nobody, which is the code's behaviour with several replicas:
`ImageGenerator` polls for it. `refused`, `swapped` (the session has changed since the tab opened or
closed its socket) and `overtaken` are history.

### ImageGenerator

`status[t]` and `told[t]` are the task in the backend and what has been pushed of it; a push may come
late, again, out of order or never. `token` is `activeTaskToken`, `waiter` the call whose promise
`taskResolve` settles, `timeout` the call `taskTimeoutId` was set for, `call[g]` a `handleGenerate` with
its poll, `cancels[k]` a `handleCancelCurrentTask`. The flag `cancelling` is reset by the end of a wait
as well, so that a second cancel can be on its way together with the first. Every action is a callback of the browser with all that runs
before the next one, including what the settled promise resumes. `announced` and `crossed` are
history: what the user was told, and that an answer was applied to a view that had moved on.

### BrowserSession

`stored` is the token pair in localStorage, `copy[b]` the one in the store of tab `b`, `refresh[b]` its
`refreshPromise`, `req[q]` a request from interceptor to interceptor, `leave[b]` a logout, `logins[b]`
the pairs in answers to logins that are on their way to tab `b`. A login is `ServeLogin` at the server
and `LoginAnswered`, which stores the pair over whatever is there by then, or `LoginLost`; one that is
refused (`LoginRefused`) is a 401 and clears the storage. Several may be under way, since the Enter key
of `Login.vue` sends the form again without looking at `isLoggingIn`.
`alive` is what the server would accept. A pair is one number, since access and refresh token are
issued and stored together. A call is answered in one step by the server and in another by the
browser, and may be lost on either way. `presented`, `again`, `loose` (live tokens the
browser has given up) and `ended` (what was stored at a logout and not being refreshed) are history.
Not modelled: a
refresh token that has expired by the browser's clock, which is a refresh that is denied without
being asked for, and the calls to change a password.

### Startup

`settings` is what files and environment say, `schema` the set of columns and indices of the image
table there are (0 is the table itself). `process[r]` holds main's copy of the settings, the one
`cachedConfig` keeps for everybody else, and what the pings have shown; `engine[r]` the settings the
`TaskEngine` was constructed with, its cache, its `start_once` and how many threads run under each
worker id; `table[r]` the `call_once` of `ensureTable`. `thread[t]` is where a main thread or an HTTP
thread is. `main` is `Load`, `Check`, `InitRedis`, `InitCache`, `InitDatabase` or `DatabaseMissing`,
`Bootstrap`, `EnsureBucket`; a request is `Authenticate`, `ensureTable`, `Insert`, `Bootstrap`. Both
go through the same actions in between, as in the code: `recoverOrphanedTasks` and every request
begin with `ensureTable`, which looks every column up in one statement and adds it in another. A
`call_once` that ends with an exception is open again (`Reopened`): that is what a failed statement
and a thread that cannot be created do. Of the settings only the secret, with its file, its variable
and its default, and whether an origin is unsafe matter. `missed`, `changed` and `failures` are history:
the database was missing at the start, the settings changed between the two loads, and how many
bootstraps failed. What the requests of other kinds do, the limiter (`ImageCreate`) and the queue
(`TaskEngine`) are left out.

## 3. Properties

| Property | Says |
|---|---|
| `TypeOK` | types, with the relations between program counters and locals that make them hold (checked by the runs of `TaskEngine`, `AuthSessions`, `ImageCache` and `TaskSocket`; proved for all modules) |
| `Fencing` | if `status = 'generating' AND worker_id = ?` lets a worker through, the row is still in the claim that worker read back, with the `retry_count` it decided on |
| `ClaimsRecoverable` | a generating row has the worker that claimed it and a lease, so the scanner finds every dead claim; no other row has either, but for one that is queued as its body inserted it |
| `RetriesBounded` | scanner, user and health gate together never count past the largest of the row's `max_retries`, `kMaxModelHealthAttempts - 1` and the count it was inserted with |
| `ClaimsPaidFor` | every claim beyond the first was paid for by a retry counted on top of the count the row was inserted with |
| `ResultOfCurrentClaim` | a row turns to success only by the worker that generated for its current claim |
| `LifecycleSpec` | the engine implements `TaskLifecycle` |
| `EveryTaskSettles` | every waiting or generating task eventually is neither |
| `RemovesOnlyOrphans` | an object is removed only when no row refers to it (violated) |
| `OneSuccessor` | at most one request that presents a refresh token is answered with a successor |
| `LogoutIsFinal` | a token whose logout succeeded never works again |
| `ChangeEndsSessions` | a refresh token that works was obtained with the password that is valid now, unless it was being issued or rotated while the password was changed |
| `ListsFresh` | until the version key expires, a list request is never answered from before a write announced when it began |
| `CacheConverges` | once writes stop, the cache agrees with the database for good |
| `RateBounded` | a bucket gives out its capacity and the refill of the time passed, and beyond that only the lead of the fastest clock and the time it was set back by |
| `QuotaBounded` | the quota is exceeded by no more than the other requests in flight, apart from retries |
| `InsertsOnlyNew` | a second row for an idempotency key comes only from a request that ran at the same time as the first |
| `Accounting` | what `/health` reports is what is running, within the capacity and on a model that is there; one thread at a time loads, with the flag up, and only while there is no model; the flag does not outlive the lock |
| `NoFalseAlarm` | the gate turns a task away only if the model was missing, the slots were taken, or a generation is stuck |
| `StuckSeen` | the gate lets a task through only to a model and a free slot, and past a stuck generation only if that was overtaken |
| `ImageKept` | the cleanup deletes no image before its age, unless two requests have its name |
| `Answered` | every request of the model service is answered |
| `OneChannel` | a tab has one live connection, the one it knows of, of the stored session's user unless that session has changed behind the tab; unless an old end was reported late |
| `OwnUpdatesOnce` | an update waits only at a connection of its own user, whatever has become of the session; unless an old end was reported late, it waits once and is not dispatched twice |
| `NeverSilent` | while a view listens in a session there is a socket or a reconnect is due, unless the server has refused the last one or the session has changed behind the tab |
| `Delivered` | an update is dispatched unless its connection ends |
| `AnnouncedIsReal` | what the user is told is what became of the task, unless an answer has crossed |
| `Watched` | with the same exception, a wait has its timeout and its poll, and belongs to what is shown |
| `WaitEnds` | with the same exception, a wait ends without any push and without the timeout |
| `RefreshedOnce` | a tab presents a refresh token once |
| `AccountedFor` | a live refresh token is in the storage, on its way there in the answer of a login or a refresh, or one of those the browser is known to give up; what a logout has ended is never stored or refreshed again, unless a refresh was under way for it |
| `RequestsEnd` | every request of the browser ends |
| `WorkersOnce` | a process has one thread of each worker id, and one more for each bootstrap in which a thread could not be created |
| `WorkersStarted` | all workers run when a process listens that found its database, and in any other once it has answered a request to enqueue |
| `TokensSafe` | no token is signed or accepted under a secret that `main` refuses, unless the settings changed between its load and that of `cachedConfig` |
| `SameCache` | the engine evicts from the cache requests are served from, unless the database was missing at the start |
| `SchemaReady` | no statement of a process runs before the table is complete |
| `OnceHeld` | a `call_once` is run by one thread of its process, and never left running by none |

The exceptions are behaviours of the code, not of the models; each is named at the line where it
comes from, in the comment of the property and among the hazards of `PROJECT.json`.

## 4. Runs

| Run | Deployment | Bounds | Result |
|---|---|---|---|
| `engine_redis` | one replica with Redis, two workers, one request at a time | 1 task, health attempts 2, 1 fault; the body says nothing (max_retries 1), or retry_count 2 past a max_retries of 0, a worker, a lapsed lease and an image, or both counts -1 | all safety properties and the refinement hold (about 530 000 states) |
| `engine_live` | one worker; every start of the replica finds Redis or does not | 2 faults; the body says nothing, or retry_count 2 past a max_retries of 0, the worker, a lapsed lease and an image | `EveryTaskSettles` holds (about 230 000) |
| `shared_worker_ids` | two replicas with one worker prefix | no fault | `Fencing` violated |
| `orphan_cleanup` | Redis, two workers | no fault | `RemovesOnlyOrphans` violated |
| `auth` | two requests at a time | 3 jtis, 1 change of password, 1 fault | the four invariants hold (about 1 460 000) |
| `cache` | two threads on two replicas | 2 writes, 1 expiry of the version, 1 fault | `ListsFresh` and `CacheConverges` hold (about 270 000) |
| `image_create` | two requests at a time, two replicas, clocks one tick apart, one fails open; a user and an administrator | 2 rows, 2 ticks, quota 1, capacity 1, 1 tick set back | holds |
| `model_service` | three requests, two of one name, two slots | 3 ticks, threshold 1, age 2 | holds |
| `task_socket` | a tab with two views, two users, two backend processes; refreshes and other tabs change the session at any time | 2 connections at a time, 1 update | holds (about 790 000) |
| `image_generator` | one view | 2 submissions, 3 values of the token, 2 cancels under way at a time | holds (about 570 000) |
| `browser_session` | one tab, two requests | 3 token pairs, 1 answer to a login under way at a time | holds (about 490 000) |
| `startup` | two processes, one with two HTTP threads; the first finds Redis and the cache or neither, the second no cache; secret file good, unreadable or forgotten, or a local origin | 1 worker and the scanner, 1 migration, 2 attempts for the bucket, 1 failed bootstrap, 1 change of the settings; crashes and failing statements unbounded | holds (about 1 090 000) |

**Why the bounds are enough.** Tasks meet only in the list and in the threads' time, so one task with
two workers shows the races on a row. One retry is enough for a second and a third claim by the user,
by the scanner and by a deferral, which is what stale workers can disturb; a body puts the count below
0 or past every limit before the first claim. Replicas that use Redis
next to replicas that do not, several workers without Redis, and budgets in any order are covered by
the theorems of section 5, which say nothing of how the startup pings turn out. Every fault the
model knows (a failed call, a lost reply, an overrun lease, a crash) can be the one that happens.
Three jtis are a login and two rotations, or two sessions and one rotation; two requests are enough
for every pair of calls to meet. Two writes are a creation and a change; two threads on two replicas
let a reader be overtaken by a writer, with a second reader after it, and one replica give up its
cache while the other goes on. In `image_create` the second request can overtake the first between
any two of its calls, at a different clock; larger numbers are left to the theorems. In
`model_service` the third request waits for a slot, and finishes after or before one that started
later; three ticks take a generation past the threshold and a file past its age. Two connections
are one that is being opened while the end of another is under way; one update follows a user
through all of that. Two submissions are one that is abandoned and the one after it, and the
third value of the token is a reset or an invalid form between them. In `startup` two threads are
what races within a process and two processes what races for the table; one migration separates
looking up from adding, one worker and the scanner are a first and a last thread to fail. `image_generator` has the
constraint `Bounded`: what follows a crossed answer is not explored, because each of its properties
excuses it (the crossing states themselves are checked), and two cancels are under way together only
before the last value of the token. Three pairs are a login, a rotation and either another rotation
or another login; a login whose answer is late meets a refresh, a logout or a rotation, and two late
answers at a time are left to the theorems.

Workers are interchangeable in `engine_redis`, as are requests in `auth`, and are declared symmetric
there; runs with a liveness property use no symmetry. `CHECK_DEADLOCK FALSE` is set where the bounds
let the model stop: time, submissions, rows and pairs are used up.

**Fairness**, which only the runs with a liveness property assume:

- *TaskEngine*: threads keep running (weak fairness of every worker, keeper and scanner), a request
  that has been accepted is carried on, and a lease nobody renews runs out. Requests, failures and
  overruns are never required. The loops of `workerLoop` and `leaseExpiryLoop` catch every exception
  and go on, which is what justifies the first; the others are time passing.
- *ImageCache*: what was begun goes on, and the TTLs of entries and pages run out. The expiry of the
  version key, failures and requests are never required.
- *ModelService*: a thread that can go on does; a load and a pipeline call end. Nothing is assumed of
  the order in which waiting threads get the semaphore.
- *TaskSocket*: the hub's loop ends and the browser handles what has arrived. Connecting and
  reconnecting are never required.
- *ImageGenerator*: submissions are answered or fail (axios has a timeout), tasks settle
  (`EveryTaskSettles`), timers fire, answers are handled, and polls do not fail for ever (strong
  fairness of the answered poll). Pushes and the long timeout are never required.
- *BrowserSession*: a request and a refresh end, if only by their timeout. Logins, logouts and new
  requests are never required.

`startup` assumes no fairness and checks safety only. That nobody waits for ever for a `call_once` is
stated as `OnceHeld`: there is always a thread that runs it.

**Findings.** The two violations are behaviours of the code, each against a line of the repository
(`findings` in `PROJECT.json`):

1. The object key belongs to the task, so the cleanup of a stale attempt deletes the image a later
   attempt has stored.
2. Worker ids are unique in one process only. `docker-compose.prod.yml` starts two replicas with
   one prefix, and the fencing of claims is lost.

Ten more behaviours have no run of their own, because a property states them as its exception or a
theorem as its assumption:

- *An uncounted claim.* Without Redis a worker takes an expired claim over before the scanner sees
  it, with `retry_count` unchanged (`ImageRepo.cpp:495`). A task that kills its worker is then tried
  for ever; `ClaimsPaidFor` needs `RedisEverywhere`.
- *The client's columns.* A body can start a task past every limit, or so far below 0 that it is
  generated as often as one likes (`image_generation.cpp:134`), and a queued row can name a worker and
  a lease. `first` and `AsInserted` are that.
- *A change of password* revokes the refresh tokens first and writes the hash last
  (`auth_service.cpp:184`): a login or a refresh in between keeps its session. `overlapped` is that.
- *The version key* of a user's lists has a TTL (`cache_client.cpp:142`). After it has run out,
  versions start again at 1 and a page cached under that number within the last minute is current.
  `ListsFresh` holds until then, `CacheConverges` always.
- *Answers without a token.* The answer of an abandoned submission and that of a cancel are applied
  to a view that has moved on (`ImageGenerator.vue:530` and `614`). `crossed` is that.
- *A session that changes behind the socket.* A refresh stores its pair whatever is stored by then
  (`request.js:95`), as does a login (`stores/auth.js:68`), and other tabs write to the same storage, to
  which nobody listens: the socket goes on with the updates of the former user, or a session is there
  with views and no socket. `swapped` is that.
- *Logout after a refresh.* A refresh leaves the copy in the auth store as it was, and logout prefers
  that copy (`stores/auth.js:98`): until the next navigation it revokes a token that is consumed
  already, and the open session stays valid on the server, where `plan.md:840` says that logout
  revokes it. The exception `loose` of `AccountedFor` contains it.
- *A thread that cannot be created* leaves the workers started before it running and the `call_once`
  open (`task_engine.cpp:400`): the next request starts them all again, under the same ids.
  `failures` is that; with it the fencing of claims is lost within one process.
- *An engine that a request bootstraps* has no cache (`task_engine.cpp:442`), since only `main` hands it
  one: where the database was missing at the start, its workers evict nothing. `missed` is that.
- *The second load.* What `main` checked is not what `cachedConfig` loads later (`Backend.cpp:382`) if
  the files have changed. `changed` is that.

## 5. Proofs

### Task engine

All for arbitrary numbers of tasks, workers, replicas, requests and faults, and whatever retries,
budgets, workers and leases the bodies of the clients name.
`UniqueWorkerIds` says that no two threads of the deployment write the same worker_id; finding 2
shows that it is needed. `RedisEverywhere` says that every startup ping succeeds; without Redis
expired claims are taken over uncounted.

| Theorem | Statement |
|---|---|
| `TypeCorrect` | `Spec => []TypeOK` |
| `FencingHolds` | `UniqueWorkerIds => (Spec => []Fencing)` |
| `ClaimsStayRecoverable` | `Spec => []ClaimsRecoverable` |
| `RetriesStayBounded` | `UniqueWorkerIds => (Spec => []RetriesBounded)` |
| `ResultsAreCurrent` | `UniqueWorkerIds => (Spec => ResultOfCurrentClaim)` |
| `ClaimsStayPaidFor` | `RedisEverywhere => (Spec => []ClaimsPaidFor)` |
| `EngineImplementsLifecycle` | `UniqueWorkerIds => (Spec => LifecycleSpec)` |

The argument. `RowMoves` shows once that every step changes every row by one of the repository's
statements or not at all; what those statements do to a row is then proved without the engine.
`JobMoves` and `ClaimKeptOrTaken` do the same for the threads: a worker that holds a task keeps the
attempt and the count it read. `Fencing` itself is inductive with types: a claim gives the row a
higher attempt and the claimer's own id, and every statement that takes a claim away also clears
`worker_id` or replaces it, so with unique ids the guard can hold only for the claim that was read.
`RetriesBounded` follows from `Fencing`, since the deferral counts on from the number that passed
the gate. `ClaimsPaidFor` is not inductive: `PaidInv` adds that a row that is waiting has been
claimed at most `retry - first` times, because a claim consumes what a requeue, deferral or retry paid. The
abstract life of a task has its `max_retries` too and may be created with any. The refinement needs
`Fencing`, for the deferral, and `Fresh`: ids from `nextId` on have no row, so a row that is absent below `nextId`
was deleted.

### Startup

In `TaskEngineProofs` as well, for any numbers of processes, HTTP threads, workers, migrations,
failures and changes.

| Theorem | Statement |
|---|---|
| `StartupTypeCorrect` | `BootSpec => []BootTypeOK` |
| `WorkerIdsDistinct` | `BootSpec => []WorkersOnce` |
| `AcceptedHasWorkers` | `BootSpec => []WorkersStarted` |
| `SecretAccepted` | `BootSpec => []TokensSafe` |
| `CacheShared` | `BootSpec => []SameCache` |
| `TableMigrated` | `BootSpec => []SchemaReady` |
| `OnceAlwaysHeld` | `BootSpec => []OnceHeld` |

`BootTypeOK` is the type invariant of `Startup`. One invariant, `StartupInv`, carries all seven. Who runs a `call_once` is unique (`OneRuns`), which is
`OnceHeld` and makes the others inductive: while a thread bootstraps, no other adds to the threads of
its engine (`EngineInv`), and a thread that migrates has seen every column before the one it is at
(`ThreadInv`), whatever other processes add, because columns are only ever added. `MainInv` says how
far `main` has come by what it has set up, `SecretInv` that what `cachedConfig` has yet to load is what
`main` has checked unless the settings changed, `HandlerInv` that a request past `ensureTable` has a complete table. The
assumptions are `StartupAssumption`, which types the constants, and that `Unset` is not a loaded
configuration.

### Sessions and lists

| Theorem | Statement |
|---|---|
| `SessionsTyped` | `Spec => []TypeOK` |
| `RotationIsSingleUse` | `Spec => []OneSuccessor` |
| `LogoutStaysFinal` | `Spec => []LogoutIsFinal` |
| `ChangeEndsOldSessions` | `HSpec => []ChangeEndsSessions` |
| `ListsStayFresh` | `Spec => []ListsFresh` |
| `TypeCorrect` (`ImageCacheProofs`) | `Spec => []TypeOK` |

For arbitrary numbers of requests, jtis, changes of password and faults, and of replicas, threads,
writes and faults. In `AuthSessionsProofs` the invariant says that a jti being stored belongs to
one request and is not issued yet, so that the key of an issued jti can only disappear; that a
refresh past its GETDEL is the only one with that jti and nobody is its successor yet; and that
what has a successor, or a finished logout, is issued and gone. `ChangeEndsSessions` needs the
history of `AuthSessionsHistory`: a jti that no request holds while a change of password is under
way was in the set when the change read it, so its key is deleted before the hash is written, and
what is in some request's hands is in `overlapped`. In `ImageCacheProofs` it says that
a page of the current version is not older than what was announced and no page of a later version
exists, and, for a reader that has seen version `v` and whose client works, that what is cached
under `v`, and what any other reader will still put there, is not below its floor. All of this is
lost when the version key expires. That `TypeOK` bounds `version` is not inductive: every write
bumps once, so the version and the writes that have not bumped yet are together at most `db`, also
when the key expires and starts again.

### Creation of tasks

| Theorem (`ImageCreateProofs`) | Statement |
|---|---|
| `TypeCorrect` | `Spec => []TypeOK` |
| `TokenBucket` | `Spec => []RateBounded` |
| `IdempotentAfterwards` | `Spec => []InsertsOnlyNew` |
| `Quota` | `Spec => []QuotaBounded` |

For any numbers of users, replicas, requests, rows and ticks, any clocks, capacities, windows and
quotas. The bucket needs a potential: what was granted and what the bucket still holds, refilled up
to its own time, never exceed the capacity and the refill of that time and of the time it was set
back by; no call knows a time later than the fastest clock; and a call that is under way carries a
time that was true when it was read. The quota is counted in sets: the requests that have been
counted and the tasks created are fewer than the quota and the requests of the user together, since
a request is counted only below the quota and each insert turns a counted request into a task. The
idempotency key needs that the rows seen at the beginning can only disappear, and that a request
that has looked found none of them.

### Model service

| Theorem (`ModelServiceProofs`) | Statement |
|---|---|
| `TypeCorrect` | `Spec => []TypeOK` |
| `AccountingHolds` | `Spec => []Accounting` |
| `NoFalseAlarms` | `Spec => []NoFalseAlarm` |
| `StuckIsSeen` | `Spec => []StuckSeen` |
| `ImagesKept` | `Spec => []ImageKept` |

For any numbers of requests and slots and any threshold. `Accounting` adds to itself that who is
between the lock and its release is its holder, that the flag is down where it takes and gives back
the lock, and that who is past `load_model` found a pipeline. The start times are in the order of time, never in the future, and for
every position there are enough running generations that started no later: this is what keeps the
oldest entry from being older than the oldest generation, although entries are not matched with
generations. In the other direction, the entry that has the rank of a generation nobody overtook is
no later than its start. For the files it says that each was written by a request that is past its
pipeline call, and that the one about to be deleted was old when it was looked at, unless a second
request has written it since.

### Browser

| Theorem (`BrowserSessionProofs`) | Statement |
|---|---|
| `TypeCorrect` | `Spec => []TypeOK` |
| `RefreshOnce` | `Spec => []RefreshedOnce` |
| `NothingLeftOpen` | `Spec => []AccountedFor` |

For any numbers of tabs, requests, token pairs and answers to logins on their way. The invariant says
that what is stored, copied, presented or expired was issued; that a pair in the answer of a refresh
or a login is in no other answer, and neither stored nor presented yet; that what is stored has been
presented only by tabs whose refresh is under way, so that a tab that begins a refresh presents
something new; that what was answered or revoked is not alive; and that what a logout has ended is
not stored, not being refreshed and in no answer.

| Theorem (`TaskSocketProofs`) | Statement |
|---|---|
| `TypeCorrect` | `Spec => []TypeOK` |
| `OneChannelHolds` | `Spec => []OneChannel` |
| `UpdatesOnce` | `Spec => []OwnUpdatesOnce` |
| `NeverLeftSilent` | `Spec => []NeverSilent` |

For any numbers of users, views, backend processes, updates and connections. `StepCases` reduces the
steps to a few kinds: the connections rest, one is opened in place of none, the socket is closed by
hand, a connection ends, or a message goes one step further. `OneChannel` is inductive with
`ClosedByHand` (after a close by hand there is no socket, and no view or no session but one that has
come since). `OwnUpdatesOnce`
follows one update through the hub: the server knows a connection only by its user, an update is
sent to connections of its user only, what is still to be sent to an open connection is new to the
tab, and what waits in a socket waits there once and has not been dispatched. A second connection in
which the same update could wait is excluded by `OneChannel`.

| Theorem (`ImageGeneratorProofs`) | Statement |
|---|---|
| `TypeCorrect` | `Spec => []TypeOK` |
| `OutcomesReal` | `Spec => []AnnouncedIsReal` |
| `WaitsWatched` | `Spec => []Watched` |

For any number of submissions and any values of the token. What was pushed, read by a poll or answered to
a cancel as an outcome is final, whenever it arrives. Until an answer crosses, the token tells apart
whose answer it is: no two calls carry the same one, a current call that is being submitted has
nothing shown and nothing waiting, the timeout belongs to the waiter, and what is being cancelled
under the current token is what waits.

Every invariant and action property that the runs check is proved. The type invariants of
`ImageCreate`, `ModelService`, `ImageGenerator`, `BrowserSession` and `Startup` are left to the proofs. Only model-checked are
`EveryTaskSettles`, `CacheConverges`, `Answered`, `Delivered`, `WaitEnds` and `RequestsEnd`: liveness
under fairness is out of the prover's reach.

## 6. Not modelled

Graceful shutdown of the engine, metrics and logs; cache entries that do not parse, and the cache of
presigned URLs; HTTP parsing and validation; the database session pool; presigned URLs and
downloads; the merging of a remote answer into an outcome of `generate`, which is a pure translation;
`AsyncImageQueue`, which nothing but its tests constructs; `ImageHistory.vue` and `stores/image.js`; the
metrics panel; training scripts. Lease times are `live` or `expired`, so that two leases of equal time
(`ImageRepo.cpp:514`) are out of reach, as is the data race on `script_sha_` (`rate_limiter.cpp:250`)
beyond a call that fails.

## 7. Plan

Done: the task engine with its refinement of the life cycle, sessions, the cache, the creation of
tasks, the startup of a process, the model service, the channel of updates, the view that waits, and
the browser's session, each with its runs and its theorems.

Left, in this order:

1. `ClaimNext`: the read-back of `claimNextTask` with lease times of limited precision.
2. `ImageHistory.vue`, whose list is updated by pushes and by answers of pages asked for earlier.
