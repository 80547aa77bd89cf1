----------------------------- MODULE TaskEngine -----------------------------
(***************************************************************************)
(* The task engine of the backend: the rows of the image table, the Redis  *)
(* list and leases that hand rows to workers, the worker and lease-keeper  *)
(* threads, the lease-expiry scanner of every replica, the API requests    *)
(* that create, cancel, retry and delete tasks, and the object each task   *)
(* owns in MinIO.                                                          *)
(*                                                                         *)
(* Every call to MySQL, Redis or MinIO is a step of its own, so that the   *)
(* threads interleave where the code lets them.  A call may fail, and a    *)
(* replica may crash: MaxFaults bounds how often in one behaviour.  Cache  *)
(* eviction, WebSocket events, metrics and logging are not part of this    *)
(* module's state.                                                         *)
(***************************************************************************)
EXTENDS ImageRepo, ModelHealthGate, Sequences, FiniteSets

CONSTANTS MaxTasks,       \* bound: rows ever inserted
          Replicas,       \* backend processes
          Workers,        \* worker threads of all replicas
          Home,           \* Home[x]: the replica of worker or request x
          WorkerId,       \* WorkerId[w]: "<worker_prefix>-<i>" of thread w
          Clients,        \* API requests that can be in flight at once
          RedisAtStart,   \* RedisAtStart[r]: outcomes of the startup ping of r
          MaxFaults       \* bound: failed calls, overruns and crashes

Tasks == 1..MaxTasks      \* AUTO_INCREMENT ids
Ids == {WorkerId[w] : w \in Workers}

ASSUME ConstantsAssumption ==
    /\ MaxTasks \in Nat \ {0}
    /\ MaxFaults \in Nat
    /\ Home \in [Workers \cup Clients -> Replicas]
    /\ NoWorker \notin Ids
    /\ RedisAtStart \in [Replicas -> SUBSET BOOLEAN]

\* What makes worker_id a fencing token: no two threads of the deployment,
\* in the same replica or in two, write the same worker_id.
UniqueWorkerIds == \A v, w \in Workers : WorkerId[v] = WorkerId[w] => v = w

VARIABLES
    row,      \* [Tasks -> row of the image table]
    nextId,   \* the next AUTO_INCREMENT id
    object,   \* object[t]: the key images/<user>/<request>.<ext> of t exists
    queue,    \* the Redis list, next id to be popped first
    lock,     \* lock[t]: value of the Redis lease key of t
    up,       \* up[r]: RedisClient::isAvailable() in replica r
    job,      \* what every worker thread is doing
    scan,     \* what every replica's lease-expiry scanner is doing
    api,      \* what every API request is doing
    faults    \* failures so far

vars == <<row, nextId, object, queue, lock, up, job, scan, api, faults>>

-----------------------------------------------------------------------------
Row == [status : Status, worker : Ids \cup {NoWorker} \cup {b.worker : b \in Bodies},
        lease : {"none", "live", "expired"}, retry : Int, max : Int,
        stored : BOOLEAN, first : Int, attempt : Nat]

\* A worker between two calls: task, and of the claimed ImageGeneration the
\* retry_count it read (attempt identifies the claim it read it from), whether
\* its storage_key names the object of the task and the status generate()
\* returned; what follows releaseRedisLease, and whether its lease-keeper
\* thread is still there.
Job == [pc : {"idle", "dequeued", "leased", "readback", "claimed", "generate",
              "finish", "release", "enqueue", "cleanup"},
        task : Tasks \cup {0}, attempt : Nat, retry : Int, stored : BOOLEAN,
        result : Terminal, then : {"idle", "enqueue", "cleanup"}, keeper : BOOLEAN]
\* A worker with a task and nothing of its claim.
TaskJob(pc, t, next, keeper) ==
    [pc |-> pc, task |-> t, attempt |-> 0, retry |-> 0, stored |-> FALSE,
     result |-> "failed", then |-> next, keeper |-> keeper]
IdleJob == TaskJob("idle", 0, "idle", FALSE)

\* due: expired tasks still to be enqueued; ids: the ids findQueuedTaskIds read.
Scan == [pc : {"boot", "bootWrite", "sleep", "expire", "enqueue", "write"},
         due : SUBSET Tasks, ids : Seq(Tasks)]
BootScan == [pc |-> "boot", due |-> {}, ids |-> <<>>]
SleepScan == [BootScan EXCEPT !.pc = "sleep"]

Request == [pc : {"idle", "enqueue", "lrem", "unlock", "delete", "remove"},
            task : Tasks \cup {0}, stored : BOOLEAN]
IdleRequest == [pc |-> "idle", task |-> 0, stored |-> FALSE]

JobsOK == /\ job \in [Workers -> Job]
          /\ \A w \in Workers : job[w].pc # "idle" => job[w].task \in Tasks
ApiOK == /\ api \in [Clients -> Request]
         /\ \A c \in Clients : api[c].pc # "idle" => api[c].task \in Tasks

\* The types of the variables; a thread or request that is busy has a task.
TypeOK ==
    /\ row \in [Tasks -> Row]
    /\ nextId \in 1..(MaxTasks + 1)
    /\ object \in [Tasks -> BOOLEAN]
    /\ queue \in Seq(Tasks)
    /\ lock \in [Tasks -> Ids \cup {NoWorker}]
    /\ up \in [Replicas -> BOOLEAN]
    /\ JobsOK
    /\ scan \in [Replicas -> Scan]
    /\ ApiOK
    /\ faults \in 0..MaxFaults

Init ==
    /\ row = [t \in Tasks |-> AbsentRow]
    /\ nextId = 1
    /\ object = [t \in Tasks |-> FALSE]
    /\ queue = <<>>
    /\ lock = [t \in Tasks |-> NoWorker]
    /\ up \in {u \in [Replicas -> BOOLEAN] : \A r \in Replicas : u[r] \in RedisAtStart[r]}
    /\ job = [w \in Workers |-> IdleJob]
    /\ scan = [r \in Replicas |-> BootScan]
    /\ api = [c \in Clients |-> IdleRequest]
    /\ faults = 0

-----------------------------------------------------------------------------
(***************************************************************************)
(* Redis: the task list and the lease keys (redis_client.cpp), with the    *)
(* handling of an unavailable or failing Redis of its callers.             *)
(***************************************************************************)
Fault == faults < MaxFaults /\ faults' = faults + 1
NoFault == UNCHANGED faults

\* The one ascending listing of a finite set of numbers.
Listings(S) == {f \in [1..Cardinality(S) -> S] :
                    \A i, j \in 1..Cardinality(S) : i < j => f[i] < f[j]}

\* TaskEngine::enqueue.  Without Redis, or when LPUSH throws, the row stays
\* queued in MySQL only and the workers waiting on the condition variable are
\* woken.
Enqueue(r, t) ==
    \/ up[r] /\ queue' = Append(queue, t) /\ NoFault
    \/ up[r] /\ UNCHANGED queue /\ Fault
    \/ ~up[r] /\ UNCHANGED queue /\ NoFault

\* LREM key 0 id: every occurrence goes.
RemoveFromQueue(t) ==
    \E kept \in Listings({i \in DOMAIN queue : queue[i] # t}) :
        queue' = [k \in DOMAIN kept |-> queue[kept[k]]]

\* releaseLease: delete the lease key if it still holds this worker's id.
ReleaseLease(r, t, id) ==
    \/ /\ lock' = IF up[r] /\ lock[t] = id
                  THEN [lock EXCEPT ![t] = NoWorker] ELSE lock
       /\ NoFault
    \/ up[r] /\ UNCHANGED lock /\ Fault

-----------------------------------------------------------------------------
(***************************************************************************)
(* Worker threads: workerLoop, applyModelHealthGate, processClaimedTask.   *)
(***************************************************************************)
Update(t, r) == row' = [row EXCEPT ![t] = r]
Goto(w, j) == job' = [job EXCEPT ![w] = j]

\* Mutant of ReleaseThen: the task to release is not handed on.
ReleaseNothing(w, next) ==
    Goto(w, TaskJob("release", 0, next, job[w].keeper))

ReleaseThen(w, next) ==
    Goto(w, TaskJob("release", job[w].task, next, job[w].keeper))

Started(r) == scan[r].pc \notin {"boot", "bootWrite"}

\* BRPOP.  A pop whose reply is lost takes the id off the list for nobody.
Dequeue(w) ==
    /\ job[w].pc = "idle" /\ Started(Home[w]) /\ up[Home[w]]
    /\ queue # <<>>
    /\ queue' = Tail(queue)
    /\ \/ /\ Goto(w, TaskJob("dequeued", Head(queue), "idle", FALSE))
          /\ NoFault
       \/ UNCHANGED job /\ Fault
    /\ UNCHANGED <<row, nextId, object, lock, up, scan, api>>

\* SET NX EX.  A worker that does not get the lease drops the message.
AcquireLease(w) ==
    LET t == job[w].task IN
    /\ job[w].pc = "dequeued"
    /\ \/ /\ lock[t] = NoWorker
          /\ lock' = [lock EXCEPT ![t] = WorkerId[w]]
          /\ Goto(w, [job[w] EXCEPT !.pc = "leased"])
          /\ NoFault
       \/ /\ lock[t] # NoWorker
          /\ Goto(w, IdleJob)
          /\ UNCHANGED lock /\ NoFault
       \/ /\ lock' \in {lock, [lock EXCEPT ![t] = IF @ = NoWorker
                                                THEN WorkerId[w] ELSE @]}
          /\ Goto(w, IdleJob)
          /\ Fault
    /\ UNCHANGED <<row, nextId, object, queue, up, scan, api>>

ClaimTaskById(w) ==
    LET t == job[w].task IN
    /\ job[w].pc = "leased"
    /\ \/ /\ ClaimableById(row[t])
          /\ Update(t, Claimed(row[t], WorkerId[w]))
          /\ Goto(w, [job[w] EXCEPT !.pc = "readback"])
          /\ NoFault
       \/ ~ClaimableById(row[t]) /\ ReleaseThen(w, "idle") /\ UNCHANGED row /\ NoFault
       \/ ReleaseThen(w, "idle") /\ UNCHANGED row /\ Fault
    /\ UNCHANGED <<nextId, object, queue, lock, up, scan, api>>

\* Without Redis: the oldest claimable row, taken by UPDATE with a subquery.
ClaimNextTask(w) ==
    /\ job[w].pc = "idle" /\ Started(Home[w]) /\ ~up[Home[w]]
    /\ \E t \in Tasks :
          /\ ClaimableNext(row[t])
          /\ \A s \in Tasks : ClaimableNext(row[s]) => t <= s
          /\ Update(t, Claimed(row[t], WorkerId[w]))
          /\ Goto(w, TaskJob("readback", t, "idle", FALSE))
    /\ UNCHANGED <<nextId, object, queue, lock, up, scan, api, faults>>

\* The SELECT that ends both claims; a cancel may have come in between.
ReadBack(w) ==
    LET t == job[w].task IN
    /\ job[w].pc = "readback"
    /\ \/ /\ OwnedBy(row[t], WorkerId[w])
          /\ Goto(w, [job[w] EXCEPT !.pc = "claimed", !.retry = row[t].retry,
                                    !.attempt = row[t].attempt,
                                    !.stored = row[t].stored])
          /\ NoFault
       \/ ~OwnedBy(row[t], WorkerId[w]) /\ ReleaseThen(w, "idle") /\ NoFault
       \/ ReleaseThen(w, "idle") /\ Fault
    /\ UNCHANGED <<row, nextId, object, queue, lock, up, scan, api>>

\* The health reports a worker can meet, one for each way through the gate.
HealthReports ==
    {[status |-> s, kind |-> k, active |-> 1, capacity |-> c] :
        s \in {"healthy", "loading", "busy", "unhealthy"},
        k \in BOOLEAN, c \in {0, 1, 2}}

GateProceed(w) ==
    /\ job[w].pc = "claimed"
    /\ \E h \in HealthReports : decideForGenerate(h, job[w].retry) = "Proceed"
    /\ Goto(w, [job[w] EXCEPT !.pc = "generate", !.keeper = TRUE])
    /\ UNCHANGED <<row, nextId, object, queue, lock, up, scan, api, faults>>

\* A statement whose guard is OwnedBy: whether it applies, and what the worker
\* does when it did, when it did not, and when the call failed, in which case
\* nobody knows whether it was executed.
OwnedUpdate(w, r, done, refused, failed) ==
    LET t == job[w].task  own == OwnedBy(row[t], WorkerId[w]) IN
    \/ own /\ Update(t, r) /\ ReleaseThen(w, done) /\ NoFault
    \/ ~own /\ UNCHANGED row /\ ReleaseThen(w, refused) /\ NoFault
    \/ /\ UNCHANGED row \/ (own /\ Update(t, r))
       /\ ReleaseThen(w, failed) /\ Fault

GateFail(w) ==
    /\ job[w].pc = "claimed"
    /\ \E h \in HealthReports : decideForGenerate(h, job[w].retry) = "Fail"
    /\ OwnedUpdate(w, Finished(row[job[w].task], "failed", job[w].stored),
                   "idle", "idle", "idle")
    /\ UNCHANGED <<nextId, object, queue, lock, up, scan, api>>

GateDefer(w) ==
    /\ job[w].pc = "claimed"
    /\ \E h \in HealthReports : decideForGenerate(h, job[w].retry) = "Defer"
    /\ OwnedUpdate(w, Deferred(row[job[w].task]), "enqueue", "idle", "idle")
    /\ UNCHANGED <<nextId, object, queue, lock, up, scan, api>>

\* GenerationClient::generate.  Only a success stores the image and sets the
\* storage_key; without one the key stays what the row said.  A PUT that failed
\* clears it, and may have left the object behind all the same.
Generated(w, result, stored) ==
    Goto(w, [job[w] EXCEPT !.pc = "finish", !.result = result, !.stored = stored])
Generate(w) ==
    LET t == job[w].task IN
    /\ job[w].pc = "generate"
    /\ \/ /\ Generated(w, "success", TRUE)
          /\ object' = [object EXCEPT ![t] = TRUE] /\ NoFault
       \/ /\ \E result \in Terminal \ {"success"} : Generated(w, result, job[w].stored)
          /\ UNCHANGED object /\ NoFault
       \/ /\ Generated(w, "failed", FALSE)
          /\ object' \in {object, [object EXCEPT ![t] = TRUE]} /\ Fault
    /\ UNCHANGED <<row, nextId, queue, lock, up, scan, api>>

\* cleanupOrphanedStoredImage looks only at the storage_key.
Finish(w) ==
    LET orphan == IF job[w].stored THEN "cleanup" ELSE "idle" IN
    /\ job[w].pc = "finish"
    /\ OwnedUpdate(w, Finished(row[job[w].task], job[w].result, job[w].stored),
                   "idle", orphan, orphan)
    /\ UNCHANGED <<nextId, object, queue, lock, up, scan, api>>

Release(w) ==
    /\ job[w].pc = "release"
    /\ ReleaseLease(Home[w], job[w].task, WorkerId[w])
    /\ Goto(w, IF job[w].then = "idle" THEN IdleJob
               ELSE TaskJob(job[w].then, job[w].task, "idle", job[w].keeper))
    /\ UNCHANGED <<row, nextId, object, queue, up, scan, api>>

EnqueueDeferred(w) ==
    /\ job[w].pc = "enqueue"
    /\ Enqueue(Home[w], job[w].task)
    /\ Goto(w, IdleJob)
    /\ UNCHANGED <<row, nextId, object, lock, up, scan, api>>

\* cleanupOrphanedStoredImage removes the key every attempt of the task shares.
Cleanup(w) ==
    /\ job[w].pc = "cleanup"
    /\ \/ object' = [object EXCEPT ![job[w].task] = FALSE] /\ NoFault
       \/ UNCHANGED object /\ Fault
    /\ Goto(w, IdleJob)
    /\ UNCHANGED <<row, nextId, queue, lock, up, scan, api>>

\* One round of the lease keeper; renewing the Redis key leaves lock alone.  The
\* keeper is told to stop after the finish and joined when the worker is done
\* with the task, so its last round can come after the finish.
KeeperRunning(w) ==
    job[w].keeper /\ job[w].pc \in {"generate", "finish", "release", "cleanup"}

KeeperRenews(w) ==
    /\ KeeperRunning(w)
    /\ OwnedBy(row[job[w].task], WorkerId[w])
    /\ Update(job[w].task, Renewed(row[job[w].task]))
    /\ UNCHANGED <<nextId, object, queue, lock, up, job, scan, api, faults>>

KeeperStops(w) ==
    /\ KeeperRunning(w)
    /\ ~OwnedBy(row[job[w].task], WorkerId[w])
    /\ Goto(w, [job[w] EXCEPT !.keeper = FALSE])
    /\ UNCHANGED <<row, nextId, object, queue, lock, up, scan, api, faults>>

-----------------------------------------------------------------------------
(***************************************************************************)
(* The lease-expiry scanner of a replica: leaseExpiryLoop and, at startup, *)
(* the recoverOrphanedTasks of bootstrap.                                  *)
(***************************************************************************)
ScanGoto(r, s) == scan' = [scan EXCEPT ![r] = s]
AfterExpiry(due) == [BootScan EXCEPT !.pc = "enqueue", !.due = due]

\* expireLeasesReturningExpired, first the SELECTs ...
ScanSelect(r) ==
    /\ scan[r].pc = "sleep"
    /\ \/ /\ ScanGoto(r, [SleepScan EXCEPT !.pc = "expire", !.due =
                {t \in Tasks : LeaseExpired(row[t]) /\ row[t].retry < row[t].max}])
          /\ NoFault
       \/ ScanGoto(r, AfterExpiry({})) /\ Fault
    /\ UNCHANGED <<row, nextId, object, queue, lock, up, job, api>>

\* ... then the UPDATEs, which look at the rows again.  An error can come
\* before, between or after the two; the selected ids are lost with it.
ScanExpire(r) ==
    LET requeued == [t \in Tasks |-> RequeueExpired(row[t])]
        both == [t \in Tasks |-> TimeoutExpired(requeued[t])] IN
    /\ scan[r].pc = "expire"
    /\ \/ row' = both /\ ScanGoto(r, AfterExpiry(scan[r].due)) /\ NoFault
       \/ row' \in {row, requeued, both} /\ ScanGoto(r, AfterExpiry({})) /\ Fault
    /\ UNCHANGED <<nextId, object, queue, lock, up, job, api>>

ScanEnqueue(r) ==
    /\ scan[r].pc = "enqueue"
    /\ \E t \in scan[r].due :
          /\ Enqueue(r, t)
          /\ ScanGoto(r, [scan[r] EXCEPT !.due = @ \ {t}])
    /\ UNCHANGED <<row, nextId, object, lock, up, job, api>>

\* recoverOrphanedTasks, first findQueuedTaskIds ...
RecoverRead(r) ==
    /\ \/ scan[r].pc = "boot"
       \/ scan[r].pc = "enqueue" /\ scan[r].due = {}
    /\ \/ /\ up[r]
          /\ \E ids \in Listings({t \in Tasks : row[t].status \in Waiting}) :
                ScanGoto(r, [pc |-> IF scan[r].pc = "boot" THEN "bootWrite" ELSE "write",
                             due |-> {}, ids |-> ids])
          /\ NoFault
       \/ ~up[r] /\ ScanGoto(r, SleepScan) /\ NoFault
       \/ up[r] /\ ScanGoto(r, SleepScan) /\ Fault
    /\ UNCHANGED <<row, nextId, object, queue, lock, up, job, api>>

\* ... then rebuildTaskQueue, which replaces the list in one script.
RecoverWrite(r) ==
    /\ scan[r].pc \in {"bootWrite", "write"}
    /\ \/ queue' = scan[r].ids /\ NoFault
       \/ UNCHANGED queue /\ Fault
    /\ ScanGoto(r, SleepScan)
    /\ UNCHANGED <<row, nextId, object, lock, up, job, api>>

-----------------------------------------------------------------------------
(***************************************************************************)
(* API requests (image_service.cpp).  The status a request reads first is  *)
(* checked again by the WHERE clause of its UPDATE or DELETE and only      *)
(* chooses the error it answers; what deleteById keeps of it is the        *)
(* storage key.                                                            *)
(***************************************************************************)
ApiGoto(c, q) == api' = [api EXCEPT ![c] = q]
Ask(c, pc, t) == ApiGoto(c, [IdleRequest EXCEPT !.pc = pc, !.task = t])

\* The server listens only after the task engine has been bootstrapped.
CanStart(c) == api[c].pc = "idle" /\ Started(Home[c])

\* An INSERT or UPDATE whose reply is lost leaves the same state behind as an
\* enqueue that fails right after it.
Create(c) ==
    /\ CanStart(c) /\ nextId \in Tasks
    /\ \E b \in Bodies : Update(nextId, InsertedRow(b))
    /\ nextId' = nextId + 1
    /\ Ask(c, "enqueue", nextId)
    /\ UNCHANGED <<object, queue, lock, up, job, scan, faults>>

Retry(c, t) ==
    /\ CanStart(c) /\ Retriable(row[t])
    /\ Update(t, Retried(row[t]))
    /\ Ask(c, "enqueue", t)
    /\ UNCHANGED <<nextId, object, queue, lock, up, job, scan, faults>>

EnqueueRequested(c) ==
    /\ api[c].pc = "enqueue"
    /\ Enqueue(Home[c], api[c].task)
    /\ ApiGoto(c, IdleRequest)
    /\ UNCHANGED <<row, nextId, object, lock, up, job, scan>>

Cancel(c, t) ==
    /\ CanStart(c) /\ canCancel(row[t].status)
    /\ Update(t, Cancelled(row[t]))
    /\ \/ up[Home[c]] /\ Ask(c, "lrem", t) /\ NoFault
       \/ ~up[Home[c]] /\ ApiGoto(c, IdleRequest) /\ NoFault
       \/ ApiGoto(c, IdleRequest) /\ Fault
    /\ UNCHANGED <<nextId, object, queue, lock, up, job, scan>>

CancelRemove(c) ==
    /\ api[c].pc = "lrem"
    /\ \/ RemoveFromQueue(api[c].task) /\ NoFault
       \/ UNCHANGED queue /\ Fault
    /\ Ask(c, "unlock", api[c].task)
    /\ UNCHANGED <<row, nextId, object, lock, up, job, scan>>

\* forceReleaseLease deletes the key whoever holds it by now.
CancelUnlock(c) ==
    /\ api[c].pc = "unlock"
    /\ \/ lock' = [lock EXCEPT ![api[c].task] = NoWorker] /\ NoFault
       \/ UNCHANGED lock /\ Fault
    /\ ApiGoto(c, IdleRequest)
    /\ UNCHANGED <<row, nextId, object, queue, up, job, scan>>

DeleteRead(c, t) ==
    /\ CanStart(c) /\ canDelete(row[t].status)
    /\ ApiGoto(c, [pc |-> "delete", task |-> t, stored |-> row[t].stored])
    /\ UNCHANGED <<row, nextId, object, queue, lock, up, job, scan, faults>>

DeleteRow(c) ==
    LET t == api[c].task IN
    /\ api[c].pc = "delete"
    /\ \/ /\ canDelete(row[t].status)
          /\ Update(t, AbsentRow)
          /\ \/ api[c].stored /\ Ask(c, "remove", t) /\ NoFault
             \/ ~api[c].stored /\ ApiGoto(c, IdleRequest) /\ NoFault
             \/ ApiGoto(c, IdleRequest) /\ Fault
       \/ /\ ~canDelete(row[t].status) /\ UNCHANGED row
          /\ ApiGoto(c, IdleRequest) /\ NoFault
    /\ UNCHANGED <<nextId, object, queue, lock, up, job, scan>>

DeleteObject(c) ==
    /\ api[c].pc = "remove"
    /\ \/ object' = [object EXCEPT ![api[c].task] = FALSE] /\ NoFault
       \/ UNCHANGED object /\ Fault
    /\ ApiGoto(c, IdleRequest)
    /\ UNCHANGED <<row, nextId, queue, lock, up, job, scan>>

-----------------------------------------------------------------------------
(***************************************************************************)
(* Time and failures.  A lease that somebody is renewing lapses only when  *)
(* the renewals fail or come too late, which counts as a fault; one that   *)
(* nobody renews lapses by itself.                                         *)
(***************************************************************************)
Renewing(w) == job[w].pc \in {"generate", "finish"} /\ job[w].keeper

LeaseKept(t) == \E w \in Workers :
    /\ job[w].task = t /\ OwnedBy(row[t], WorkerId[w])
    /\ job[w].pc \in {"readback", "claimed"} \/ Renewing(w)

LockKept(t) == \E w \in Workers :
    /\ job[w].task = t /\ lock[t] = WorkerId[w]
    /\ job[w].pc \in {"leased", "readback", "claimed", "release"} \/ Renewing(w)

LeaseLapses(t) ==
    /\ row[t].lease = "live"
    /\ Update(t, [row[t] EXCEPT !.lease = "expired"])
    /\ ~LeaseKept(t) /\ NoFault
    /\ UNCHANGED <<nextId, object, queue, lock, up, job, scan, api>>

LeaseOverrun(t) ==
    /\ row[t].lease = "live"
    /\ Update(t, [row[t] EXCEPT !.lease = "expired"])
    /\ LeaseKept(t) /\ Fault
    /\ UNCHANGED <<nextId, object, queue, lock, up, job, scan, api>>

LockLapses(t) ==
    /\ lock[t] # NoWorker
    /\ lock' = [lock EXCEPT ![t] = NoWorker]
    /\ ~LockKept(t) /\ NoFault
    /\ UNCHANGED <<row, nextId, object, queue, up, job, scan, api>>

LockOverrun(t) ==
    /\ lock[t] # NoWorker
    /\ lock' = [lock EXCEPT ![t] = NoWorker]
    /\ LockKept(t) /\ Fault
    /\ UNCHANGED <<row, nextId, object, queue, up, job, scan, api>>

\* A replica dies and is started again: its threads and requests are gone, and
\* the startup ping decides anew whether this process uses Redis.
Crash(r) ==
    /\ Fault
    /\ job' = [w \in Workers |-> IF Home[w] = r THEN IdleJob ELSE job[w]]
    /\ api' = [c \in Clients |-> IF Home[c] = r THEN IdleRequest ELSE api[c]]
    /\ ScanGoto(r, BootScan)
    /\ \E ping \in RedisAtStart[r] : up' = [up EXCEPT ![r] = ping]
    /\ UNCHANGED <<row, nextId, object, queue, lock>>

-----------------------------------------------------------------------------
WorkerStep(w) ==
    \/ Dequeue(w) \/ AcquireLease(w) \/ ClaimTaskById(w) \/ ClaimNextTask(w)
    \/ ReadBack(w) \/ GateProceed(w) \/ GateFail(w) \/ GateDefer(w)
    \/ Generate(w) \/ Finish(w) \/ Release(w) \/ EnqueueDeferred(w)
    \/ Cleanup(w)

KeeperStep(w) == KeeperRenews(w) \/ KeeperStops(w)

ScanStep(r) ==
    \/ ScanSelect(r) \/ ScanExpire(r) \/ ScanEnqueue(r)
    \/ RecoverRead(r) \/ RecoverWrite(r)

\* The rest of a request that has made its first change.
ApiStep(c) ==
    \/ EnqueueRequested(c) \/ CancelRemove(c) \/ CancelUnlock(c)
    \/ DeleteRow(c) \/ DeleteObject(c)

ApiStart(c) ==
    \/ Create(c)
    \/ \E t \in Tasks : Retry(c, t) \/ Cancel(c, t) \/ DeleteRead(c, t)

Next ==
    \/ \E w \in Workers : WorkerStep(w) \/ KeeperStep(w)
    \/ \E r \in Replicas : ScanStep(r) \/ Crash(r)
    \/ \E c \in Clients : ApiStep(c) \/ ApiStart(c)
    \/ \E t \in Tasks : \/ LeaseLapses(t) \/ LeaseOverrun(t)
                         \/ LockLapses(t) \/ LockOverrun(t)

Spec == Init /\ [][Next]_vars

\* Threads keep running, requests that were begun are carried on, and a lease
\* nobody renews runs out.  Nobody has to make a request, and nothing has to fail.
Fairness ==
    /\ \A w \in Workers : WF_vars(WorkerStep(w)) /\ WF_vars(KeeperStep(w))
    /\ \A r \in Replicas : WF_vars(ScanStep(r))
    /\ \A c \in Clients : WF_vars(ApiStep(c))
    /\ \A t \in Tasks : WF_vars(LeaseLapses(t)) /\ WF_vars(LockLapses(t))

FairSpec == Spec /\ Fairness

-----------------------------------------------------------------------------
(***************************************************************************)
(* What is checked and proved of the engine.                               *)
(***************************************************************************)

\* A worker between its claim and its finish.
Holding(w) == job[w].pc \in {"claimed", "generate", "finish"}

\* Fencing.  If the guard "status = 'generating' AND worker_id = ?" lets a
\* worker's finish, defer or renewal through, the row is still in the claim
\* that worker read back, with the retry_count it decided on: a worker that
\* lost its task (cancelled, retried, expired, claimed by another, processed
\* after a restart) can never write into a later claim of it.
Fencing ==
    \A w \in Workers :
        Holding(w) /\ OwnedBy(row[job[w].task], WorkerId[w]) =>
            /\ row[job[w].task].attempt = job[w].attempt
            /\ row[job[w].task].retry = job[w].retry

\* The budget of retries.  The scanner and the user stop at the max_retries of
\* the row, the health gate at kMaxModelHealthAttempts - 1 on the retry_count
\* the worker read before it asked the model; together they never count past
\* the larger, whatever retry_count the row was inserted with.
RetriesBounded ==
    \A t \in Tasks : \E limit \in {row[t].first, row[t].max, HealthAttempts - 1} :
        row[t].retry <= limit

\* A generating row names the worker that claimed it and has a lease, so that
\* the scanner, which looks for lease_expires_at < now, finds every dead claim;
\* and no other row does, but for one that is queued as the client's body
\* inserted it: a claim that is over is over in all three columns.
AsInserted(r) == r.status = "queued" /\ r.attempt = 0
ClaimsRecoverable ==
    \A t \in Tasks :
        IF row[t].status = "generating"
        THEN row[t].worker \in Ids /\ row[t].lease # "none"
        ELSE AsInserted(row[t]) \/ (row[t].worker = NoWorker /\ row[t].lease = "none")

\* Every claim of a task beyond the first was paid for with a retry counted on
\* top of the retry_count the row was inserted with: "Within retry budget ->
\* requeue. Over budget -> mark timeout" (README.md).  With RetriesBounded a
\* task that starts at 0 is generated at most max_retries (or the health
\* attempts) + 1 times, where max_retries is what the client asked for.
ClaimsPaidFor == \A t \in Tasks : row[t].attempt <= row[t].retry - row[t].first + 1

\* The result a task ends with is the one that its current claim produced: when
\* a row turns to success, a worker that finished generating for exactly this
\* claim and got a success is there.
SuccessOfCurrentClaim ==
    \A t \in Tasks :
        row[t].status # "success" /\ row'[t].status = "success" =>
            \E w \in Workers : /\ job[w].pc = "finish" /\ job[w].task = t
                              /\ job[w].result = "success"
                              /\ job[w].attempt = row[t].attempt
ResultOfCurrentClaim == [][SuccessOfCurrentClaim]_vars

\* An object is removed only as an orphan: no row refers to its key any more.
\* This is what cleanupOrphanedStoredImage is named and logs for.
RemovesOnlyOrphans ==
    [][\A t \in Tasks : object[t] /\ ~object'[t] => ~row[t].stored]_vars

\* No task is left behind: whatever is lost on the way (a message popped for
\* nobody, an enqueue that failed, a rebuild from a stale list, a lease or a
\* claim whose owner died), every task created or retried comes to an end.
EveryTaskSettles ==
    \A t \in Tasks : canCancel(row[t].status) ~> ~canCancel(row[t].status)

\* The engine implements the task life cycle.  A task is what its row says, and
\* an id that was given out and has no row any more is a deleted task.
LifeOf(t) == [status |-> IF row[t].status = "absent" /\ t < nextId
                         THEN "deleted" ELSE row[t].status,
              retry |-> row[t].retry, max |-> row[t].max]
Lifecycle == INSTANCE TaskLifecycle WITH
    HealthBudget <- HealthAttempts - 1, life <- [t \in Tasks |-> LifeOf(t)]
LifecycleSpec == Lifecycle!Spec
=============================================================================
