-------------------------- MODULE TaskEngineProofs --------------------------
(***************************************************************************)
(* Type correctness and safety of TaskEngine, and that it implements       *)
(* TaskLifecycle, proved for every number of tasks, replicas, workers,     *)
(* requests and faults, whatever retries and budgets the clients ask for   *)
(* and every outcome of the startup pings; and the safety of Startup, for  *)
(* all processes, threads, settings, migrations and failures.              *)
(***************************************************************************)
EXTENDS TaskEngine, Startup, FiniteSetTheorems, TLAPS

-----------------------------------------------------------------------------
(***************************************************************************)
(* What the statements of ImageRepo make of a row.                         *)
(***************************************************************************)

\* The statements of a worker turn a row into a row.
LEMMA RowTypes ==
    ASSUME NEW r \in Row, NEW id \in Ids, NEW s \in Terminal, NEW b \in BOOLEAN
    PROVE  /\ Claimed(r, id) \in Row
           /\ Renewed(r) \in Row
           /\ Finished(r, s, b) \in Row
           /\ Deferred(r) \in Row
  <1> USE DEF Row, Status, Waiting, Terminal
  <1>0. r.retry + 1 \in Int /\ r.attempt + 1 \in Nat
    OBVIOUS
  <1>1. Claimed(r, id) \in Row
    BY <1>0 DEF Claimed
  <1>2. Renewed(r) \in Row
    BY DEF Renewed
  <1>3. Finished(r, s, b) \in Row
    BY DEF Finished
  <1>4. Deferred(r) \in Row
    BY <1>0 DEF Deferred
  <1> QED
    BY <1>1, <1>2, <1>3, <1>4

\* So do those of a request ...
LEMMA UserRowTypes ==
    ASSUME NEW r \in Row
    PROVE  Cancelled(r) \in Row /\ Retried(r) \in Row
  <1>1. r.retry + 1 \in Int
    BY DEF Row
  <1> QED
    BY <1>1 DEF Cancelled, Retried, Row, Status, Waiting, Terminal

\* ... and those of the scanner.
LEMMA ExpiredRowTypes ==
    ASSUME NEW r \in Row
    PROVE  RequeueExpired(r) \in Row /\ TimeoutExpired(r) \in Row
  <1>1. r.retry + 1 \in Int
    BY DEF Row
  <1> QED
    BY <1>1 DEF RequeueExpired, TimeoutExpired, Row, Status, Waiting, Terminal

\* The row of an id that is not in the table, and the row create() inserts.
LEMMA NewRowTypes == AbsentRow \in Row /\ \A b \in Bodies : InsertedRow(b) \in Row
  <1>1. AbsentRow \in Row
    BY DEF Row, Status, Waiting, Terminal, AbsentRow
  <1>2. ASSUME NEW b \in Bodies PROVE InsertedRow(b) \in Row
    BY <1>2, BodiesAssumption DEF Row, Status, Waiting, Terminal, AbsentRow, InsertedRow
  <1> QED
    BY <1>1, <1>2

\* Functions on an initial segment of the naturals are sequences.
LEMMA SegmentIsSeq ==
    ASSUME NEW n \in Nat, NEW T, NEW f \in [1..n -> T]
    PROVE  f \in Seq(T)
  OBVIOUS

\* Sets of positions, and of task ids, are finite.
LEMMA SegmentSubsetCard ==
    ASSUME NEW n \in Nat, NEW S \in SUBSET (1..n)
    PROVE  Cardinality(S) \in Nat
  <1>1. IsFiniteSet(1..n)
    BY FS_Interval
  <1>2. IsFiniteSet(S)
    BY <1>1, FS_Subset
  <1> QED
    BY <1>2, FS_CardinalityType

\* The ascending listing of a set of task ids is a sequence of task ids.
LEMMA ListingsType ==
    ASSUME NEW S \in SUBSET Tasks, NEW f \in Listings(S)
    PROVE  f \in Seq(Tasks)
  <1>1. Cardinality(S) \in Nat
    BY SegmentSubsetCard, ConstantsAssumption DEF Tasks
  <1>2. f \in [1..Cardinality(S) -> Tasks]
    BY DEF Listings
  <1> QED
    BY <1>1, <1>2, SegmentIsSeq

\* So is what LREM leaves of the queue.
LEMMA RemoveFromQueueType ==
    ASSUME queue \in Seq(Tasks), NEW t, RemoveFromQueue(t)
    PROVE  queue' \in Seq(Tasks)
  <1> DEFINE S == {i \in DOMAIN queue : queue[i] # t}
             n == Cardinality(S)
  <1>1. PICK kept \in Listings(S) : queue' = [k \in DOMAIN kept |-> queue[kept[k]]]
    BY DEF RemoveFromQueue
  <1>2. Len(queue) \in Nat /\ S \in SUBSET (1..Len(queue))
    OBVIOUS
  <1>3. n \in Nat
    BY <1>2, SegmentSubsetCard
  <1>4. kept \in [1..n -> S]
    BY DEF Listings
  <1>5. \A i \in S : queue[i] \in Tasks
    BY <1>2
  <1> HIDE DEF n, S
  <1>6. queue' \in [1..n -> Tasks]
    BY <1>1, <1>4, <1>5
  <1> QED
    BY <1>3, <1>6, SegmentIsSeq

-----------------------------------------------------------------------------
(***************************************************************************)
(* Types: what the helpers the actions are built from do to each variable. *)
(***************************************************************************)

\* The count of failures stays within its bound.
LEMMA FaultType ==
    ASSUME TypeOK, Fault \/ NoFault
    PROVE  faults' \in 0..MaxFaults
  BY ConstantsAssumption DEF TypeOK, Fault, NoFault

\* Writing a row into the table.
LEMMA UpdateType ==
    ASSUME TypeOK, NEW t \in Tasks, NEW r \in Row, Update(t, r)
    PROVE  row' \in [Tasks -> Row]
  BY DEF TypeOK, Update

\* A worker that moves on with a well-formed job.
LEMMA GotoType ==
    ASSUME TypeOK, NEW w \in Workers, NEW j \in Job, Goto(w, j),
           j.pc # "idle" => j.task \in Tasks
    PROVE  JobsOK'
  BY DEF TypeOK, JobsOK, Goto

\* An idle worker is well formed.
LEMMA IdleJobType == IdleJob \in Job /\ IdleJob.pc = "idle"
  BY DEF IdleJob, TaskJob, Job, Terminal

\* So is one with a task.
LEMMA TaskJobType ==
    ASSUME NEW pc \in {"dequeued", "readback", "release", "enqueue", "cleanup"},
           NEW t \in Tasks, NEW next \in {"idle", "enqueue", "cleanup"},
           NEW keeper \in BOOLEAN
    PROVE  TaskJob(pc, t, next, keeper) \in Job /\ TaskJob(pc, t, next, keeper).task = t
  BY DEF TaskJob, Job, Terminal

\* A busy worker that turns to releasing its lease.
LEMMA ReleaseThenType ==
    ASSUME TypeOK, NEW w \in Workers, job[w].pc # "idle",
           NEW next \in {"idle", "enqueue", "cleanup"}, ReleaseThen(w, next)
    PROVE  JobsOK'
  <1> DEFINE j == TaskJob("release", job[w].task, next, job[w].keeper)
  <1>1. job[w].task \in Tasks /\ job[w].keeper \in BOOLEAN
    BY DEF TypeOK, JobsOK, Job
  <1>2. j \in Job /\ j.task \in Tasks
    BY <1>1, TaskJobType
  <1>3. Goto(w, j)
    BY DEF ReleaseThen
  <1> HIDE DEF j
  <1> QED
    BY <1>2, <1>3, GotoType

\* A request that moves on.
LEMMA ApiGotoType ==
    ASSUME TypeOK, NEW c \in Clients, NEW q \in Request, ApiGoto(c, q),
           q.pc # "idle" => q.task \in Tasks
    PROVE  ApiOK'
  BY DEF TypeOK, ApiOK, ApiGoto

\* A request that asks for the next call, and one that is done.
LEMMA AskType ==
    ASSUME TypeOK, NEW c \in Clients, NEW t \in Tasks,
           NEW pc \in {"enqueue", "lrem", "unlock", "remove"}, Ask(c, pc, t)
    PROVE  ApiOK'
  <1> DEFINE q == [IdleRequest EXCEPT !.pc = pc, !.task = t]
  <1>1. q \in Request /\ q.task \in Tasks
    BY DEF IdleRequest, Request
  <1>2. ApiGoto(c, q)
    BY DEF Ask
  <1> HIDE DEF q
  <1> QED
    BY <1>1, <1>2, ApiGotoType

LEMMA ApiDoneType ==
    ASSUME TypeOK, NEW c \in Clients, ApiGoto(c, IdleRequest)
    PROVE  ApiOK'
  BY ApiGotoType DEF IdleRequest, Request

\* A scanner that moves on.
LEMMA ScanGotoType ==
    ASSUME TypeOK, NEW r \in Replicas, NEW s \in Scan, ScanGoto(r, s)
    PROVE  scan' \in [Replicas -> Scan]
  BY DEF TypeOK, ScanGoto

LEMMA ScanTypes ==
    /\ BootScan \in Scan /\ SleepScan \in Scan
    /\ \A due \in SUBSET Tasks : AfterExpiry(due) \in Scan
  <1>1. <<>> \in Seq(Tasks)
    OBVIOUS
  <1> QED
    BY <1>1 DEF Scan, BootScan, SleepScan, AfterExpiry

\* enqueue() and releaseRedisLease(), whether Redis is there and whether it fails.
LEMMA EnqueueType ==
    ASSUME TypeOK, NEW r, NEW t \in Tasks, Enqueue(r, t)
    PROVE  queue' \in Seq(Tasks) /\ faults' \in 0..MaxFaults
  BY FaultType DEF TypeOK, Enqueue

LEMMA ReleaseLeaseType ==
    ASSUME TypeOK, NEW r, NEW t \in Tasks, NEW id, ReleaseLease(r, t, id)
    PROVE  lock' \in [Tasks -> Ids \cup {NoWorker}] /\ faults' \in 0..MaxFaults
  BY FaultType DEF TypeOK, ReleaseLease

\* A statement guarded by OwnedBy, in all its outcomes.
LEMMA OwnedUpdateType ==
    ASSUME TypeOK, NEW w \in Workers, job[w].pc # "idle", NEW r \in Row,
           NEW done \in {"idle", "enqueue", "cleanup"},
           NEW refused \in {"idle", "enqueue", "cleanup"},
           NEW failed \in {"idle", "enqueue", "cleanup"},
           OwnedUpdate(w, r, done, refused, failed)
    PROVE  row' \in [Tasks -> Row] /\ JobsOK' /\ faults' \in 0..MaxFaults
  <1>1. job[w].task \in Tasks
    BY DEF TypeOK, JobsOK
  <1>2. row' \in [Tasks -> Row]
    BY <1>1, UpdateType DEF OwnedUpdate, TypeOK
  <1>3. JobsOK'
    BY ReleaseThenType DEF OwnedUpdate
  <1>4. faults' \in 0..MaxFaults
    BY FaultType DEF OwnedUpdate
  <1> QED
    BY <1>2, <1>3, <1>4

-----------------------------------------------------------------------------
(***************************************************************************)
(* Types: every step of every process.                                     *)
(***************************************************************************)

\* However generate() ends, the worker has a result and a storage_key or none.
LEMMA GenerateEnds ==
    ASSUME NEW w \in Workers, job[w] \in Job, Generate(w)
    PROVE  \E result \in Terminal, stored \in BOOLEAN : Generated(w, result, stored)
  <1>1. job[w].stored \in BOOLEAN /\ {"success", "failed"} \subseteq Terminal
    BY DEF Job, Terminal
  <1>2. \/ Generated(w, "success", TRUE)
        \/ \E result \in Terminal : Generated(w, result, job[w].stored)
        \/ Generated(w, "failed", FALSE)
    BY DEF Generate
  <1> QED
    BY <1>1, <1>2

\* Steps of a worker thread and of its lease keeper.
LEMMA WorkerTypeStep ==
    ASSUME TypeOK, NEW w \in Workers, WorkerStep(w) \/ KeeperStep(w)
    PROVE  TypeOK'
  <1> DEFINE t == job[w].task
  <1>1. WorkerId[w] \in Ids
    BY DEF Ids
  <1>2. job[w] \in Job /\ (job[w].pc # "idle" => t \in Tasks)
    BY DEF TypeOK, JobsOK
  <1>3. CASE Dequeue(w)
    <2>1. queue \in Seq(Tasks) /\ queue # <<>>
      BY <1>3 DEF Dequeue, TypeOK
    <2>2. Head(queue) \in Tasks /\ queue' \in Seq(Tasks)
      BY <1>3, <2>1 DEF Dequeue
    <2> DEFINE j == TaskJob("dequeued", Head(queue), "idle", FALSE)
    <2>3. j \in Job /\ j.task \in Tasks
      BY <2>2, TaskJobType
    <2>4. Goto(w, j) \/ UNCHANGED job
      BY <1>3 DEF Dequeue
    <2> HIDE DEF j
    <2>5. JobsOK'
      BY <2>3, <2>4, GotoType DEF TypeOK, JobsOK
    <2> QED
      BY <1>3, <2>2, <2>5, FaultType DEF Dequeue, TypeOK, ApiOK
  <1>4. CASE AcquireLease(w)
    <2>1. t \in Tasks
      BY <1>2, <1>4 DEF AcquireLease
    <2>2. [job[w] EXCEPT !.pc = "leased"] \in Job
      BY <1>2 DEF Job
    <2>3. JobsOK'
      BY <1>4, <2>1, <2>2, GotoType, IdleJobType DEF AcquireLease, Job
    <2>4. lock' \in [Tasks -> Ids \cup {NoWorker}]
      BY <1>1, <1>4 DEF AcquireLease, TypeOK
    <2> QED
      BY <1>4, <2>3, <2>4, FaultType DEF AcquireLease, TypeOK, ApiOK
  <1>5. CASE ClaimTaskById(w)
    <2>1. t \in Tasks /\ job[w].pc # "idle"
      BY <1>2, <1>5 DEF ClaimTaskById
    <2>2. Claimed(row[t], WorkerId[w]) \in Row
      BY <1>1, <2>1, RowTypes DEF TypeOK, Terminal
    <2>3. row' \in [Tasks -> Row]
      BY <1>5, <2>1, <2>2, UpdateType DEF ClaimTaskById, TypeOK
    <2>4. [job[w] EXCEPT !.pc = "readback"] \in Job
      BY <1>2 DEF Job
    <2>5. JobsOK'
      BY <1>5, <2>1, <2>4, GotoType, ReleaseThenType DEF ClaimTaskById, Job
    <2> QED
      BY <1>5, <2>3, <2>5, FaultType DEF ClaimTaskById, TypeOK, ApiOK
  <1>6. CASE ClaimNextTask(w)
    <2>1. PICK s \in Tasks :
             /\ Update(s, Claimed(row[s], WorkerId[w]))
             /\ Goto(w, TaskJob("readback", s, "idle", FALSE))
      BY <1>6 DEF ClaimNextTask
    <2>2. Claimed(row[s], WorkerId[w]) \in Row
      BY <1>1, RowTypes DEF TypeOK, Terminal
    <2> DEFINE j == TaskJob("readback", s, "idle", FALSE)
    <2>3. j \in Job /\ j.task \in Tasks
      BY TaskJobType
    <2> HIDE DEF j
    <2>4. row' \in [Tasks -> Row] /\ JobsOK'
      BY <2>1, <2>2, <2>3, UpdateType, GotoType DEF j
    <2> QED
      BY <1>6, <2>4 DEF ClaimNextTask, TypeOK, ApiOK
  <1>7. CASE ReadBack(w)
    <2>1. t \in Tasks /\ job[w].pc # "idle"
      BY <1>2, <1>7 DEF ReadBack
    <2>2. row[t].retry \in Int /\ row[t].attempt \in Nat /\ row[t].stored \in BOOLEAN
      BY <2>1 DEF TypeOK, Row
    <2>3. [job[w] EXCEPT !.pc = "claimed", !.retry = row[t].retry,
                         !.attempt = row[t].attempt, !.stored = row[t].stored] \in Job
      BY <1>2, <2>2 DEF Job
    <2>4. JobsOK'
      BY <1>7, <2>1, <2>3, GotoType, ReleaseThenType DEF ReadBack, Job
    <2> QED
      BY <1>7, <2>4, FaultType DEF ReadBack, TypeOK, ApiOK
  <1>8. CASE GateProceed(w)
    <2>1. [job[w] EXCEPT !.pc = "generate", !.keeper = TRUE] \in Job
      BY <1>2 DEF Job
    <2>2. JobsOK'
      BY <1>2, <1>8, <2>1, GotoType DEF GateProceed, Job
    <2> QED
      BY <1>8, <2>2 DEF GateProceed, TypeOK, ApiOK
  <1>9. CASE GateFail(w)
    <2>1. t \in Tasks /\ job[w].pc # "idle" /\ job[w].stored \in BOOLEAN
      BY <1>2, <1>9 DEF GateFail, Job
    <2>2. Finished(row[t], "failed", job[w].stored) \in Row
      BY <1>1, <2>1, RowTypes DEF TypeOK, Terminal
    <2>3. row' \in [Tasks -> Row] /\ JobsOK' /\ faults' \in 0..MaxFaults
      BY <1>9, <2>1, <2>2, OwnedUpdateType DEF GateFail
    <2> QED
      BY <1>9, <2>3 DEF GateFail, TypeOK, ApiOK
  <1>10. CASE GateDefer(w)
    <2>1. t \in Tasks /\ job[w].pc # "idle"
      BY <1>2, <1>10 DEF GateDefer
    <2>2. Deferred(row[t]) \in Row
      BY <1>1, <2>1, RowTypes DEF TypeOK, Terminal
    <2>3. row' \in [Tasks -> Row] /\ JobsOK' /\ faults' \in 0..MaxFaults
      BY <1>10, <2>1, <2>2, OwnedUpdateType DEF GateDefer
    <2> QED
      BY <1>10, <2>3 DEF GateDefer, TypeOK, ApiOK
  <1>11. CASE Generate(w)
    <2>1. PICK result \in Terminal, stored \in BOOLEAN : Generated(w, result, stored)
      BY <1>2, <1>11, GenerateEnds
    <2> DEFINE j == [job[w] EXCEPT !.pc = "finish", !.result = result, !.stored = stored]
    <2>2. j \in Job /\ j.task = t
      BY <1>2 DEF Job
    <2>3. t \in Tasks /\ Goto(w, j)
      BY <1>2, <1>11, <2>1 DEF Generate, Generated
    <2> HIDE DEF j
    <2>5. JobsOK'
      BY <2>2, <2>3, GotoType
    <2>4. object' \in [Tasks -> BOOLEAN] /\ faults' \in 0..MaxFaults
      BY <1>11, FaultType DEF Generate, TypeOK
    <2> QED
      BY <1>11, <2>5, <2>4 DEF Generate, TypeOK, ApiOK
  <1>12. CASE Finish(w)
    <2>1. t \in Tasks /\ job[w].pc # "idle" /\ job[w].result \in Terminal
          /\ job[w].stored \in BOOLEAN
      BY <1>2, <1>12 DEF Finish, Job
    <2>2. Finished(row[t], job[w].result, job[w].stored) \in Row
      BY <1>1, <2>1, RowTypes DEF TypeOK
    <2>3. row' \in [Tasks -> Row] /\ JobsOK' /\ faults' \in 0..MaxFaults
      BY <1>12, <2>1, <2>2, OwnedUpdateType DEF Finish
    <2> QED
      BY <1>12, <2>3 DEF Finish, TypeOK, ApiOK
  <1>13. CASE Release(w)
    <2> DEFINE j == TaskJob(job[w].then, t, "idle", job[w].keeper)
    <2>1. /\ t \in Tasks /\ job[w].then \in {"idle", "enqueue", "cleanup"}
          /\ job[w].keeper \in BOOLEAN
      BY <1>2, <1>13 DEF Release, Job
    <2>2. job[w].then # "idle" => j \in Job /\ j.task \in Tasks
      BY <2>1, TaskJobType
    <2>3. (job[w].then # "idle" /\ Goto(w, j)) \/ Goto(w, IdleJob)
      BY <1>13 DEF Release
    <2> HIDE DEF j
    <2>4. JobsOK'
      BY <2>2, <2>3, GotoType, IdleJobType
    <2>6. lock' \in [Tasks -> Ids \cup {NoWorker}] /\ faults' \in 0..MaxFaults
      BY <1>13, <2>1, ReleaseLeaseType DEF Release
    <2> QED
      BY <1>13, <2>4, <2>6 DEF Release, TypeOK, ApiOK
  <1>14. CASE EnqueueDeferred(w)
    <2>1. queue' \in Seq(Tasks) /\ faults' \in 0..MaxFaults
      BY <1>2, <1>14, EnqueueType DEF EnqueueDeferred
    <2>2. JobsOK'
      BY <1>14, GotoType, IdleJobType DEF EnqueueDeferred
    <2> QED
      BY <1>14, <2>1, <2>2 DEF EnqueueDeferred, TypeOK, ApiOK
  <1>15. CASE Cleanup(w)
    <2>1. JobsOK'
      BY <1>15, GotoType, IdleJobType DEF Cleanup
    <2>2. object' \in [Tasks -> BOOLEAN] /\ faults' \in 0..MaxFaults
      BY <1>15, FaultType DEF Cleanup, TypeOK
    <2> QED
      BY <1>15, <2>1, <2>2 DEF Cleanup, TypeOK, ApiOK
  <1>16. CASE KeeperRenews(w)
    <2>1. t \in Tasks
      BY <1>2, <1>16 DEF KeeperRenews, KeeperRunning
    <2>2. Renewed(row[t]) \in Row
      BY <1>1, <2>1, RowTypes DEF TypeOK, Terminal
    <2>3. row' \in [Tasks -> Row]
      BY <1>16, <2>1, <2>2, UpdateType DEF KeeperRenews
    <2> QED
      BY <1>16, <2>3 DEF KeeperRenews, TypeOK, JobsOK, ApiOK
  <1>17. CASE KeeperStops(w)
    <2>1. [job[w] EXCEPT !.keeper = FALSE] \in Job
      BY <1>2 DEF Job
    <2>2. JobsOK'
      BY <1>2, <1>17, <2>1, GotoType DEF KeeperStops, KeeperRunning, Job
    <2> QED
      BY <1>17, <2>2 DEF KeeperStops, TypeOK, ApiOK
  <1> QED
    BY <1>3, <1>4, <1>5, <1>6, <1>7, <1>8, <1>9, <1>10, <1>11, <1>12, <1>13,
       <1>14, <1>15, <1>16, <1>17 DEF WorkerStep, KeeperStep

\* Steps of a replica's scanner, and its crash.
LEMMA ScanTypeStep ==
    ASSUME TypeOK, NEW r \in Replicas, ScanStep(r) \/ Crash(r)
    PROVE  TypeOK'
  <1>1. scan[r] \in Scan
    BY DEF TypeOK
  <1>2. CASE ScanSelect(r)
    <2> DEFINE due == {t \in Tasks : LeaseExpired(row[t]) /\ row[t].retry < row[t].max}
    <2>1. due \in SUBSET Tasks
      OBVIOUS
    <2>2. ScanGoto(r, [SleepScan EXCEPT !.pc = "expire", !.due = due])
             \/ ScanGoto(r, AfterExpiry({}))
      BY <1>2 DEF ScanSelect
    <2> HIDE DEF due
    <2>3. [SleepScan EXCEPT !.pc = "expire", !.due = due] \in Scan
      BY <2>1, ScanTypes DEF Scan
    <2>4. scan' \in [Replicas -> Scan]
      BY <2>2, <2>3, ScanTypes, ScanGotoType
    <2> QED
      BY <1>2, <2>4, FaultType DEF ScanSelect, TypeOK, JobsOK, ApiOK
  <1>3. CASE ScanExpire(r)
    <2> DEFINE requeued == [t \in Tasks |-> RequeueExpired(row[t])]
               both == [t \in Tasks |-> TimeoutExpired(requeued[t])]
    <2>1. row \in [Tasks -> Row]
      BY DEF TypeOK
    <2>2. \A x \in Row : RequeueExpired(x) \in Row /\ TimeoutExpired(x) \in Row
      BY ExpiredRowTypes
    <2>3. requeued \in [Tasks -> Row]
      BY <2>1, <2>2
    <2>4. both \in [Tasks -> Row]
      BY <2>2, <2>3
    <2>5. row' \in {row, requeued, both}
      BY <1>3 DEF ScanExpire
    <2> HIDE DEF requeued, both
    <2>6. row' \in [Tasks -> Row]
      BY <2>1, <2>3, <2>4, <2>5
    <2>7. scan[r].due \in SUBSET Tasks
      BY <1>1 DEF Scan
    <2>8. scan' \in [Replicas -> Scan]
      BY <1>3, <2>7, ScanTypes, ScanGotoType DEF ScanExpire
    <2> QED
      BY <1>3, <2>6, <2>8, FaultType DEF ScanExpire, TypeOK, JobsOK, ApiOK
  <1>4. CASE ScanEnqueue(r)
    <2>1. PICK t \in scan[r].due :
             Enqueue(r, t) /\ ScanGoto(r, [scan[r] EXCEPT !.due = @ \ {t}])
      BY <1>4 DEF ScanEnqueue
    <2>2. t \in Tasks /\ [scan[r] EXCEPT !.due = @ \ {t}] \in Scan
      BY <1>1 DEF Scan
    <2>3. scan' \in [Replicas -> Scan] /\ queue' \in Seq(Tasks) /\ faults' \in 0..MaxFaults
      BY <2>1, <2>2, ScanGotoType, EnqueueType
    <2> QED
      BY <1>4, <2>3 DEF ScanEnqueue, TypeOK, JobsOK, ApiOK
  <1>5. CASE RecoverRead(r)
    <2> DEFINE S == {t \in Tasks : row[t].status \in Waiting}
               s(ids) == [pc |-> IF scan[r].pc = "boot" THEN "bootWrite" ELSE "write",
                          due |-> {}, ids |-> ids]
    <2>1. S \in SUBSET Tasks
      OBVIOUS
    <2>2. \/ \E ids \in Listings(S) : ScanGoto(r, s(ids))
          \/ ScanGoto(r, SleepScan)
      BY <1>5 DEF RecoverRead
    <2>3. \A ids \in Seq(Tasks) : s(ids) \in Scan
      BY DEF Scan
    <2> HIDE DEF S, s
    <2>4. scan' \in [Replicas -> Scan]
      BY <2>1, <2>2, <2>3, ListingsType, ScanTypes, ScanGotoType
    <2> QED
      BY <1>5, <2>4, FaultType DEF RecoverRead, TypeOK, JobsOK, ApiOK
  <1>6. CASE RecoverWrite(r)
    <2>1. scan' \in [Replicas -> Scan]
      BY <1>6, ScanTypes, ScanGotoType DEF RecoverWrite
    <2>2. queue' \in Seq(Tasks)
      BY <1>1, <1>6 DEF RecoverWrite, Scan, TypeOK
    <2> QED
      BY <1>6, <2>1, <2>2, FaultType DEF RecoverWrite, TypeOK, JobsOK, ApiOK
  <1>7. CASE Crash(r)
    <2>1. scan' \in [Replicas -> Scan]
      BY <1>7, ScanTypes, ScanGotoType DEF Crash
    <2>2. up' \in [Replicas -> BOOLEAN]
      <3>1. PICK ping \in RedisAtStart[r] : up' = [up EXCEPT ![r] = ping]
        BY <1>7 DEF Crash
      <3>2. ping \in BOOLEAN
        BY <3>1, ConstantsAssumption
      <3>3. up \in [Replicas -> BOOLEAN]
        BY DEF TypeOK
      <3> QED
        BY <3>1, <3>2, <3>3
    <2>3. JobsOK'
      BY <1>7, IdleJobType DEF Crash, TypeOK, JobsOK
    <2>4. ApiOK'
      BY <1>7 DEF Crash, TypeOK, ApiOK, IdleRequest, Request
    <2> QED
      BY <1>7, <2>1, <2>2, <2>3, <2>4, FaultType DEF Crash, TypeOK
  <1> QED
    BY <1>2, <1>3, <1>4, <1>5, <1>6, <1>7 DEF ScanStep

\* Steps of an API request.
LEMMA ApiTypeStep ==
    ASSUME TypeOK, NEW c \in Clients, ApiStep(c) \/ ApiStart(c)
    PROVE  TypeOK'
  <1>1. api[c] \in Request /\ (api[c].pc # "idle" => api[c].task \in Tasks)
    BY DEF TypeOK, ApiOK
  <1>2. CASE EnqueueRequested(c)
    <2>1. queue' \in Seq(Tasks) /\ faults' \in 0..MaxFaults
      BY <1>1, <1>2, EnqueueType DEF EnqueueRequested
    <2>2. ApiOK'
      BY <1>2, ApiDoneType DEF EnqueueRequested
    <2> QED
      BY <1>2, <2>1, <2>2 DEF EnqueueRequested, TypeOK, JobsOK
  <1>3. CASE CancelRemove(c)
    <2>1. queue' \in Seq(Tasks)
      BY <1>3, RemoveFromQueueType DEF CancelRemove, TypeOK
    <2>2. ApiOK'
      BY <1>1, <1>3, AskType DEF CancelRemove
    <2> QED
      BY <1>3, <2>1, <2>2, FaultType DEF CancelRemove, TypeOK, JobsOK
  <1>4. CASE CancelUnlock(c)
    <2>1. ApiOK'
      BY <1>4, ApiDoneType DEF CancelUnlock
    <2>2. lock' \in [Tasks -> Ids \cup {NoWorker}]
      BY <1>4 DEF CancelUnlock, TypeOK
    <2> QED
      BY <1>4, <2>1, <2>2, FaultType DEF CancelUnlock, TypeOK, JobsOK
  <1>5. CASE DeleteRow(c)
    <2>1. api[c].task \in Tasks
      BY <1>1, <1>5 DEF DeleteRow
    <2>2. row' \in [Tasks -> Row]
      BY <1>5, <2>1, NewRowTypes, UpdateType DEF DeleteRow, TypeOK
    <2>3. ApiOK'
      BY <1>5, <2>1, AskType, ApiDoneType DEF DeleteRow
    <2> QED
      BY <1>5, <2>2, <2>3, FaultType DEF DeleteRow, TypeOK, JobsOK
  <1>6. CASE DeleteObject(c)
    <2>1. ApiOK'
      BY <1>6, ApiDoneType DEF DeleteObject
    <2>2. object' \in [Tasks -> BOOLEAN]
      BY <1>6 DEF DeleteObject, TypeOK
    <2> QED
      BY <1>6, <2>1, <2>2, FaultType DEF DeleteObject, TypeOK, JobsOK
  <1>7. CASE Create(c)
    <2>1. nextId \in Tasks /\ nextId' = nextId + 1
      BY <1>7 DEF Create
    <2>2. nextId' \in 1..(MaxTasks + 1)
      BY <2>1, ConstantsAssumption DEF Tasks
    <2>3. row' \in [Tasks -> Row] /\ ApiOK'
      BY <1>7, <2>1, NewRowTypes, UpdateType, AskType DEF Create
    <2> QED
      BY <1>7, <2>2, <2>3 DEF Create, TypeOK, JobsOK
  <1>8. ASSUME NEW t \in Tasks, Retry(c, t)
        PROVE  TypeOK'
    <2>1. Retried(row[t]) \in Row
      BY UserRowTypes DEF TypeOK
    <2>2. row' \in [Tasks -> Row] /\ ApiOK'
      BY <1>8, <2>1, UpdateType, AskType DEF Retry
    <2> QED
      BY <1>8, <2>2 DEF Retry, TypeOK, JobsOK
  <1>9. ASSUME NEW t \in Tasks, Cancel(c, t)
        PROVE  TypeOK'
    <2>1. Cancelled(row[t]) \in Row
      BY UserRowTypes DEF TypeOK
    <2>2. row' \in [Tasks -> Row] /\ ApiOK'
      BY <1>9, <2>1, UpdateType, AskType, ApiDoneType DEF Cancel
    <2> QED
      BY <1>9, <2>2, FaultType DEF Cancel, TypeOK, JobsOK
  <1>10. ASSUME NEW t \in Tasks, DeleteRead(c, t)
         PROVE  TypeOK'
    <2> DEFINE q == [pc |-> "delete", task |-> t, stored |-> row[t].stored]
    <2>1. q \in Request /\ q.task \in Tasks
      BY DEF TypeOK, Row, Request
    <2>2. ApiGoto(c, q)
      BY <1>10 DEF DeleteRead
    <2> HIDE DEF q
    <2>3. ApiOK'
      BY <2>1, <2>2, ApiGotoType
    <2> QED
      BY <1>10, <2>3 DEF DeleteRead, TypeOK, JobsOK
  <1> QED
    BY <1>2, <1>3, <1>4, <1>5, <1>6, <1>7, <1>8, <1>9, <1>10 DEF ApiStep, ApiStart

\* The passing of time.
LEMMA TimeTypeStep ==
    ASSUME TypeOK, NEW t \in Tasks,
           LeaseLapses(t) \/ LeaseOverrun(t) \/ LockLapses(t) \/ LockOverrun(t)
    PROVE  TypeOK'
  <1>1. [row[t] EXCEPT !.lease = "expired"] \in Row
    BY DEF TypeOK, Row
  <1>2. CASE LeaseLapses(t) \/ LeaseOverrun(t)
    <2>1. row' \in [Tasks -> Row]
      BY <1>1, <1>2, UpdateType DEF LeaseLapses, LeaseOverrun
    <2> QED
      BY <1>2, <2>1, FaultType DEF LeaseLapses, LeaseOverrun, TypeOK, JobsOK, ApiOK
  <1>3. CASE LockLapses(t) \/ LockOverrun(t)
    <2>1. lock' \in [Tasks -> Ids \cup {NoWorker}]
      BY <1>3 DEF LockLapses, LockOverrun, TypeOK
    <2> QED
      BY <1>3, <2>1, FaultType DEF LockLapses, LockOverrun, TypeOK, JobsOK, ApiOK
  <1> QED
    BY <1>2, <1>3

LEMMA TypeInit == Init => TypeOK
  <1> SUFFICES ASSUME Init PROVE TypeOK
    OBVIOUS
  <1>1. row \in [Tasks -> Row]
    BY NewRowTypes DEF Init
  <1>2. nextId \in 1..(MaxTasks + 1) /\ faults \in 0..MaxFaults
    BY ConstantsAssumption DEF Init
  <1>3. queue \in Seq(Tasks)
    BY DEF Init
  <1>4. JobsOK
    BY IdleJobType DEF Init, JobsOK
  <1>5. ApiOK
    BY DEF Init, ApiOK, IdleRequest, Request
  <1>6. scan \in [Replicas -> Scan]
    BY ScanTypes DEF Init
  <1>7. up \in [Replicas -> BOOLEAN]
    BY DEF Init
  <1> QED
    BY <1>1, <1>2, <1>3, <1>4, <1>5, <1>6, <1>7 DEF Init, TypeOK

LEMMA TypeNext == TypeOK /\ [Next]_vars => TypeOK'
  <1> SUFFICES ASSUME TypeOK, [Next]_vars PROVE TypeOK'
    OBVIOUS
  <1>1. CASE UNCHANGED vars
    BY <1>1 DEF vars, TypeOK, JobsOK, ApiOK
  <1>2. CASE Next
    BY <1>2, WorkerTypeStep, ScanTypeStep, ApiTypeStep, TimeTypeStep DEF Next
  <1> QED
    BY <1>1, <1>2

\* Type correctness of the engine: every variable keeps its type, and a worker
\* or request in the middle of a task always has one.
THEOREM TypeCorrect == Spec => []TypeOK
  <1> QED
    BY TypeInit, TypeNext, PTL DEF Spec


-----------------------------------------------------------------------------
(***************************************************************************)
(* How a step moves a row and a worker.  The safety theorems below follow  *)
(* from these two lemmas and no longer look at the actions.                *)
(***************************************************************************)

\* Worker w takes row t, and is about to read its claim back.
Claiming(w, t) ==
    /\ row'[t] = Claimed(row[t], WorkerId[w])
    /\ job'[w].pc = "readback"
    /\ ClaimableById(row[t]) \/ ~up[Home[w]]
    /\ ClaimableNext(row[t])

\* Worker w ends or defers the claim of row t it holds.
Ending(w, t) ==
    /\ OwnedBy(row[t], WorkerId[w]) /\ job[w].task = t
    /\ \/ job[w].pc = "claimed" /\ row'[t] = Finished(row[t], "failed", job[w].stored)
       \/ /\ job[w].pc = "finish"
          /\ row'[t] = Finished(row[t], job[w].result, job[w].stored)
       \/ /\ job[w].pc = "claimed" /\ ~hasExceededAttemptBudget(job[w].retry)
          /\ row'[t] = Deferred(row[t])

\* Row t is inserted, as the body of the request says.
Inserted(t) == \E b \in Bodies : row'[t] = InsertedRow(b)

LEMMA InsertedColumns ==
    ASSUME NEW t \in Tasks, Inserted(t)
    PROVE  /\ row'[t].status = "queued" /\ row'[t].attempt = 0
           /\ row'[t].retry \in Int /\ row'[t].max \in Int
           /\ row'[t].first = row'[t].retry
  <1>1. PICK b \in Bodies : row'[t] = InsertedRow(b)
    BY DEF Inserted
  <1> QED
    BY <1>1, BodiesAssumption DEF InsertedRow

\* What can happen to row t in one step.
RowMove(t) ==
    \/ row'[t] = row[t]
    \/ t = nextId /\ nextId' = nextId + 1 /\ Inserted(t)
    \/ \E w \in Workers : Claiming(w, t)
    \/ \E w \in Workers : Ending(w, t)
    \/ row[t].status = "generating" /\ row'[t] = Renewed(row[t])
    \/ row[t].lease = "live" /\ row'[t] = [row[t] EXCEPT !.lease = "expired"]
    \/ Retriable(row[t]) /\ row'[t] = Retried(row[t])
    \/ canCancel(row[t].status) /\ row'[t] = Cancelled(row[t])
    \/ row'[t] = RequeueExpired(row[t])
    \/ row'[t] = TimeoutExpired(RequeueExpired(row[t]))
    \/ canDelete(row[t].status) /\ row'[t] = AbsentRow

\* A row is touched only by an Update of it.
LEMMA UpdateRow ==
    ASSUME TypeOK, NEW s \in Tasks, NEW r, Update(s, r), NEW t \in Tasks
    PROVE  row'[t] = IF t = s THEN r ELSE row[t]
  BY DEF TypeOK, Update

\* A worker's own entry, and the others', after Goto.
LEMMA GotoJob ==
    ASSUME TypeOK, NEW w \in Workers, NEW j, Goto(w, j), NEW v \in Workers
    PROVE  job'[v] = IF v = w THEN j ELSE job[v]
  BY DEF TypeOK, JobsOK, Goto

\* A statement guarded by OwnedBy writes its row or none.
LEMMA OwnedUpdateRow ==
    ASSUME TypeOK, NEW w \in Workers, job[w].task \in Tasks, NEW r,
           NEW done, NEW refused, NEW failed,
           OwnedUpdate(w, r, done, refused, failed), NEW t \in Tasks
    PROVE  \/ row'[t] = row[t]
           \/ t = job[w].task /\ OwnedBy(row[t], WorkerId[w]) /\ row'[t] = r
  BY UpdateRow DEF OwnedUpdate

LEMMA WorkerRowMoves ==
    ASSUME TypeOK, NEW w \in Workers, WorkerStep(w) \/ KeeperStep(w), NEW t \in Tasks
    PROVE  RowMove(t)
  <1>0. job[w] \in Job /\ (job[w].pc # "idle" => job[w].task \in Tasks)
    BY DEF TypeOK, JobsOK
  <1>1. CASE row' = row
    BY <1>1 DEF RowMove
  <1>2. CASE ClaimTaskById(w)
    <2> DEFINE s == job[w].task  j == [job[w] EXCEPT !.pc = "readback"]
    <2>1. s \in Tasks
      BY <1>0, <1>2 DEF ClaimTaskById
    <2>2. CASE UNCHANGED row
      BY <2>2 DEF RowMove
    <2>3. CASE ClaimableById(row[s]) /\ Update(s, Claimed(row[s], WorkerId[w])) /\ Goto(w, j)
      <3>1. j.pc = "readback"
        BY <1>0 DEF Job
      <3> HIDE DEF j
      <3>2. job'[w].pc = "readback"
        BY <2>3, <3>1, GotoJob
      <3>3. ClaimableNext(row[s])
        BY <2>3 DEF ClaimableById, ClaimableNext
      <3> QED
        BY <2>1, <2>3, <3>2, <3>3, UpdateRow DEF RowMove, Claiming
    <2> QED
      BY <1>2, <2>2, <2>3 DEF ClaimTaskById
  <1>3. CASE ClaimNextTask(w)
    <2>1. PICK s \in Tasks :
             /\ ClaimableNext(row[s])
             /\ Update(s, Claimed(row[s], WorkerId[w]))
             /\ Goto(w, TaskJob("readback", s, "idle", FALSE))
      BY <1>3 DEF ClaimNextTask
    <2> DEFINE j == TaskJob("readback", s, "idle", FALSE)
    <2>2. job'[w].pc = "readback"
      <3>1. j.pc = "readback"
        BY DEF TaskJob
      <3> HIDE DEF j
      <3> QED
        BY <2>1, <3>1, GotoJob DEF j
    <2>3. ~up[Home[w]]
      BY <1>3 DEF ClaimNextTask
    <2> QED
      BY <2>1, <2>2, <2>3, UpdateRow DEF RowMove, Claiming
  <1>4. CASE GateFail(w)
    <2>1. job[w].pc = "claimed" /\ job[w].task \in Tasks
      BY <1>0, <1>4 DEF GateFail
    <2>2. \/ row'[t] = row[t]
          \/ /\ t = job[w].task /\ OwnedBy(row[t], WorkerId[w])
             /\ row'[t] = Finished(row[job[w].task], "failed", job[w].stored)
      BY <1>4, <2>1, OwnedUpdateRow DEF GateFail
    <2> QED
      BY <2>1, <2>2 DEF RowMove, Ending
  <1>5. CASE GateDefer(w)
    <2>1. job[w].pc = "claimed" /\ job[w].task \in Tasks
      BY <1>0, <1>5 DEF GateDefer
    <2>2. ~hasExceededAttemptBudget(job[w].retry)
      BY <1>5 DEF GateDefer, decideForGenerate, deferOrFail
    <2>3. \/ row'[t] = row[t]
          \/ /\ t = job[w].task /\ OwnedBy(row[t], WorkerId[w])
             /\ row'[t] = Deferred(row[job[w].task])
      BY <1>5, <2>1, OwnedUpdateRow DEF GateDefer
    <2> QED
      BY <2>1, <2>2, <2>3 DEF RowMove, Ending
  <1>6. CASE Finish(w)
    <2>1. job[w].pc = "finish" /\ job[w].task \in Tasks
      BY <1>0, <1>6 DEF Finish
    <2>2. \/ row'[t] = row[t]
          \/ /\ t = job[w].task /\ OwnedBy(row[t], WorkerId[w])
             /\ row'[t] = Finished(row[job[w].task], job[w].result, job[w].stored)
      BY <1>6, <2>1, OwnedUpdateRow DEF Finish
    <2> QED
      BY <2>1, <2>2 DEF RowMove, Ending
  <1>7. CASE KeeperRenews(w)
    <2>1. job[w].task \in Tasks
      BY <1>0, <1>7 DEF KeeperRenews, KeeperRunning
    <2> QED
      BY <1>7, <2>1, UpdateRow DEF KeeperRenews, RowMove, OwnedBy
  <1>8. ASSUME Dequeue(w) \/ AcquireLease(w) \/ ReadBack(w) \/ GateProceed(w)
               \/ Generate(w) \/ Release(w) \/ EnqueueDeferred(w) \/ Cleanup(w)
               \/ KeeperStops(w)
        PROVE  row' = row
    BY <1>8 DEF Dequeue, AcquireLease, ReadBack, GateProceed, Generate, Release,
                EnqueueDeferred, Cleanup, KeeperStops
  <1> QED
    BY <1>1, <1>2, <1>3, <1>4, <1>5, <1>6, <1>7, <1>8 DEF WorkerStep, KeeperStep

\* Every step moves every row by one of the statements.
LEMMA RowMoves ==
    ASSUME TypeOK, [Next]_vars, NEW t \in Tasks
    PROVE  RowMove(t)
  <1>1. CASE row' = row
    BY <1>1 DEF RowMove
  <1>2. ASSUME NEW w \in Workers, WorkerStep(w) \/ KeeperStep(w)
        PROVE  RowMove(t)
    BY <1>2, WorkerRowMoves
  <1>3. ASSUME NEW r \in Replicas, ScanStep(r) \/ Crash(r)
        PROVE  RowMove(t)
    <2>1. CASE ScanExpire(r)
      BY <2>1 DEF ScanExpire, RowMove
    <2>2. ASSUME ~ScanExpire(r) PROVE row' = row
      BY <1>3, <2>2 DEF ScanStep, ScanSelect, ScanEnqueue, RecoverRead, RecoverWrite, Crash
    <2> QED
      BY <1>1, <2>1, <2>2
  <1>4. ASSUME NEW c \in Clients, ApiStep(c) \/ ApiStart(c)
        PROVE  RowMove(t)
    <2>1. CASE Create(c)
      BY <2>1, UpdateRow DEF Create, RowMove, Inserted
    <2>2. ASSUME NEW s \in Tasks, Retry(c, s) PROVE RowMove(t)
      BY <2>2, UpdateRow DEF Retry, RowMove
    <2>3. ASSUME NEW s \in Tasks, Cancel(c, s) PROVE RowMove(t)
      BY <2>3, UpdateRow DEF Cancel, RowMove
    <2>4. CASE DeleteRow(c)
      <3>1. api[c].task \in Tasks
        BY <2>4 DEF DeleteRow, TypeOK, ApiOK
      <3> QED
        BY <2>4, <3>1, UpdateRow DEF DeleteRow, RowMove
    <2>5. ASSUME \/ EnqueueRequested(c) \/ CancelRemove(c) \/ CancelUnlock(c)
                 \/ DeleteObject(c) \/ \E s \in Tasks : DeleteRead(c, s)
          PROVE  row' = row
      BY <2>5 DEF EnqueueRequested, CancelRemove, CancelUnlock, DeleteObject, DeleteRead
    <2> QED
      BY <1>1, <1>4, <2>1, <2>2, <2>3, <2>4, <2>5 DEF ApiStep, ApiStart
  <1>5. ASSUME NEW s \in Tasks,
               LeaseLapses(s) \/ LeaseOverrun(s) \/ LockLapses(s) \/ LockOverrun(s)
        PROVE  RowMove(t)
    <2>1. CASE LeaseLapses(s) \/ LeaseOverrun(s)
      BY <2>1, UpdateRow DEF LeaseLapses, LeaseOverrun, RowMove
    <2>2. CASE LockLapses(s) \/ LockOverrun(s)
      BY <1>1, <2>2 DEF LockLapses, LockOverrun
    <2> QED
      BY <1>5, <2>1, <2>2
  <1> QED
    BY <1>1, <1>2, <1>3, <1>4, <1>5 DEF Next, vars

\* A worker that holds a claim held it before the step, or has just read it back
\* from a row that this step does not touch.
LEMMA JobMoves ==
    ASSUME TypeOK, [Next]_vars, NEW v \in Workers, Holding(v)'
    PROVE  /\ job'[v].task \in Tasks
           /\ \/ /\ Holding(v) /\ job'[v].task = job[v].task
                 /\ job'[v].attempt = job[v].attempt
                 /\ job'[v].retry = job[v].retry
              \/ /\ row' = row
                 /\ job'[v].attempt = row[job'[v].task].attempt
                 /\ job'[v].retry = row[job'[v].task].retry
  <1>1. TypeOK'
    BY TypeNext
  <1>2. job'[v].task \in Tasks
    BY <1>1 DEF TypeOK, JobsOK, Holding
  <1>3. job[v] \in Job
    BY DEF TypeOK, JobsOK
  <1>4. CASE job'[v] = job[v]
    BY <1>2, <1>4 DEF Holding
  <1>5. CASE ReadBack(v)
    <2> DEFINE s == job[v].task
               j == [job[v] EXCEPT !.pc = "claimed", !.retry = row[s].retry,
                                   !.attempt = row[s].attempt,
                                   !.stored = row[s].stored]
    <2>1. Goto(v, j) \/ ReleaseThen(v, "idle")
      BY <1>5 DEF ReadBack
    <2>2. CASE ReleaseThen(v, "idle")
      BY <2>2 DEF ReleaseThen, Goto, TaskJob, Holding, TypeOK, JobsOK
    <2>3. CASE Goto(v, j)
      <3>1. j.task = s /\ j.retry = row[s].retry /\ j.attempt = row[s].attempt
        BY <1>3 DEF Job
      <3> HIDE DEF j
      <3>2. job'[v] = j
        BY <2>3, GotoJob
      <3> QED
        BY <1>2, <1>5, <3>1, <3>2 DEF ReadBack
    <2> QED
      BY <2>1, <2>2, <2>3
  <1>6. CASE GateProceed(v)
    <2> DEFINE j == [job[v] EXCEPT !.pc = "generate", !.keeper = TRUE]
    <2>1. j.task = job[v].task /\ j.attempt = job[v].attempt /\ j.retry = job[v].retry
      BY <1>3 DEF Job
    <2>2. Goto(v, j) /\ Holding(v)
      BY <1>6 DEF GateProceed, Holding
    <2> HIDE DEF j
    <2>3. job'[v] = j
      BY <2>2, GotoJob
    <2> QED
      BY <1>2, <2>1, <2>2, <2>3
  <1>7. CASE Generate(v)
    <2>1. PICK result \in Terminal, stored \in BOOLEAN : Generated(v, result, stored)
      BY <1>3, <1>7, GenerateEnds
    <2> DEFINE j == [job[v] EXCEPT !.pc = "finish", !.result = result, !.stored = stored]
    <2>2. j.task = job[v].task /\ j.attempt = job[v].attempt /\ j.retry = job[v].retry
      BY <1>3 DEF Job
    <2>3. Holding(v)
      BY <1>7 DEF Generate, Holding
    <2> HIDE DEF j
    <2>4. job'[v] = j
      BY <2>1, GotoJob DEF j, Generated
    <2> QED
      BY <1>2, <2>2, <2>3, <2>4
  <1>8. CASE KeeperStops(v)
    BY <1>2, <1>3, <1>8, GotoJob DEF KeeperStops, Holding, Job
  <1>9. ASSUME \/ Dequeue(v) \/ AcquireLease(v) \/ ClaimTaskById(v) \/ ClaimNextTask(v)
               \/ GateFail(v) \/ GateDefer(v) \/ Finish(v) \/ Release(v)
               \/ EnqueueDeferred(v) \/ Cleanup(v),
               job'[v] # job[v]
        PROVE  FALSE
    <2>1. ASSUME NEW next, ReleaseThen(v, next) PROVE FALSE
      BY <2>1 DEF ReleaseThen, Goto, TaskJob, Holding, TypeOK, JobsOK
    <2>2. ASSUME NEW j, Goto(v, j), j.pc \notin {"claimed", "generate", "finish"}
          PROVE  FALSE
      BY <2>2, GotoJob DEF Holding
    <2>3. CASE Dequeue(v)
      <3> DEFINE j == TaskJob("dequeued", Head(queue), "idle", FALSE)
      <3>1. j.pc = "dequeued"
        BY DEF TaskJob
      <3>2. Goto(v, j)
        BY <1>9, <2>3 DEF Dequeue
      <3> HIDE DEF j
      <3> QED
        BY <2>2, <3>1, <3>2
    <2>4. CASE AcquireLease(v)
      BY <1>3, <2>2, <2>4 DEF AcquireLease, IdleJob, TaskJob, Job
    <2>5. CASE ClaimTaskById(v)
      BY <1>3, <2>1, <2>2, <2>5 DEF ClaimTaskById, Job
    <2>6. CASE ClaimNextTask(v)
      <3>1. PICK s \in Tasks : Goto(v, TaskJob("readback", s, "idle", FALSE))
        BY <2>6 DEF ClaimNextTask
      <3> DEFINE j == TaskJob("readback", s, "idle", FALSE)
      <3>2. j.pc = "readback"
        BY DEF TaskJob
      <3> HIDE DEF j
      <3> QED
        BY <2>2, <3>1, <3>2 DEF j
    <2>7. CASE GateFail(v) \/ GateDefer(v) \/ Finish(v)
      BY <2>1, <2>7 DEF GateFail, GateDefer, Finish, OwnedUpdate
    <2>8. CASE Release(v)
      <3> DEFINE j == IF job[v].then = "idle" THEN IdleJob
                      ELSE TaskJob(job[v].then, job[v].task, "idle", job[v].keeper)
      <3>1. j.pc \notin {"claimed", "generate", "finish"}
        BY <1>3 DEF TaskJob, IdleJob, Job
      <3>2. Goto(v, j)
        BY <2>8 DEF Release
      <3> HIDE DEF j
      <3> QED
        BY <2>2, <3>1, <3>2
    <2>9. CASE EnqueueDeferred(v) \/ Cleanup(v)
      BY <2>2, <2>9 DEF EnqueueDeferred, Cleanup, IdleJob, TaskJob
    <2> QED
      BY <1>9, <2>3, <2>4, <2>5, <2>6, <2>7, <2>8, <2>9
  <1>10. ASSUME job'[v] # job[v]
         PROVE  WorkerStep(v) \/ KeeperStep(v)
    <2>1. ASSUME NEW w \in Workers, w # v, WorkerStep(w) \/ KeeperStep(w)
          PROVE  job'[v] = job[v]
      <3>1. ASSUME NEW j, Goto(w, j) PROVE job'[v] = job[v]
        BY <2>1, <3>1, GotoJob
      <3>2. ASSUME NEW next, ReleaseThen(w, next) PROVE job'[v] = job[v]
        BY <3>1, <3>2 DEF ReleaseThen
      <3>3. CASE Dequeue(w) \/ AcquireLease(w) \/ ClaimTaskById(w) \/ ClaimNextTask(w)
                 \/ ReadBack(w) \/ GateProceed(w)
        BY <3>1, <3>2, <3>3 DEF Dequeue, AcquireLease, ClaimTaskById, ClaimNextTask,
                                ReadBack, GateProceed
      <3>4. CASE GateFail(w) \/ GateDefer(w) \/ Finish(w)
        BY <3>2, <3>4 DEF GateFail, GateDefer, Finish, OwnedUpdate
      <3>5. CASE Generate(w) \/ Release(w) \/ EnqueueDeferred(w) \/ Cleanup(w) \/ KeeperStep(w)
        BY <3>1, <3>5 DEF Generate, Generated, Release, EnqueueDeferred, Cleanup, KeeperStep,
                          KeeperRenews, KeeperStops
      <3> QED
        BY <2>1, <3>3, <3>4, <3>5 DEF WorkerStep
    <2>2. ASSUME NEW r \in Replicas, ScanStep(r) PROVE job'[v] = job[v]
      BY <2>2 DEF ScanStep, ScanSelect, ScanExpire, ScanEnqueue, RecoverRead, RecoverWrite
    <2>3. ASSUME NEW r \in Replicas, Crash(r) PROVE job'[v] = job[v]
      BY <2>3 DEF Crash, IdleJob, TaskJob, Holding
    <2>4. ASSUME NEW c \in Clients, ApiStep(c) \/ ApiStart(c) PROVE job'[v] = job[v]
      BY <2>4 DEF ApiStep, ApiStart, EnqueueRequested, CancelRemove, CancelUnlock,
                  DeleteRow, DeleteObject, Create, Retry, Cancel, DeleteRead
    <2>5. ASSUME NEW t \in Tasks,
                 LeaseLapses(t) \/ LeaseOverrun(t) \/ LockLapses(t) \/ LockOverrun(t)
          PROVE  job'[v] = job[v]
      BY <2>5 DEF LeaseLapses, LeaseOverrun, LockLapses, LockOverrun
    <2> QED
      BY <1>10, <2>1, <2>2, <2>3, <2>4, <2>5 DEF Next, vars
  <1>11. CASE KeeperRenews(v)
    BY <1>2, <1>4, <1>11 DEF KeeperRenews
  <1> QED
    BY <1>2, <1>4, <1>5, <1>6, <1>7, <1>8, <1>9, <1>10, <1>11 DEF WorkerStep, KeeperStep

-----------------------------------------------------------------------------
(***************************************************************************)
(* Fencing.  A row that is generating after a step was generating in the   *)
(* same claim before it, or was claimed by a worker that now reads back;   *)
(* with ids of its own, that worker is nobody who holds a claim.           *)
(***************************************************************************)

LEMMA ClaimKeptOrTaken ==
    ASSUME TypeOK, NEW t \in Tasks, RowMove(t), row'[t].status = "generating"
    PROVE  \/ /\ row[t].status = "generating"
              /\ row'[t].worker = row[t].worker
              /\ row'[t].attempt = row[t].attempt
              /\ row'[t].retry = row[t].retry
           \/ \E w \in Workers : row'[t].worker = WorkerId[w] /\ job'[w].pc = "readback"
  <1>0. row[t] \in Row /\ \A w \in Workers : job[w].result \in Terminal
    BY DEF TypeOK, JobsOK, Job
  <1> USE DEF Row
  <1>1. CASE row'[t] = row[t]
    BY <1>1
  <1>2. CASE \E w \in Workers : Claiming(w, t)
    BY <1>0, <1>2 DEF Claiming, Claimed
  <1>3. CASE row[t].status = "generating" /\ row'[t] = Renewed(row[t])
    BY <1>0, <1>3 DEF Renewed
  <1>4. CASE row'[t] = [row[t] EXCEPT !.lease = "expired"]
    BY <1>0, <1>4
  <1>5. CASE row'[t] = RequeueExpired(row[t]) \/ row'[t] = TimeoutExpired(RequeueExpired(row[t]))
    <2>1. row'[t] = row[t] \/ row'[t].status \in {"queued", "timeout"}
      BY <1>0, <1>5 DEF RequeueExpired, TimeoutExpired, LeaseExpired
    <2> QED
      BY <1>1, <2>1
  <1>6. CASE Inserted(t) \/ row'[t] = AbsentRow
    BY <1>6, InsertedColumns DEF AbsentRow
  <1>7. CASE \E w \in Workers : Ending(w, t)
    BY <1>0, <1>7 DEF Ending, Finished, Deferred, Terminal
  <1>8. CASE row'[t] = Retried(row[t]) \/ row'[t] = Cancelled(row[t])
    BY <1>0, <1>8 DEF Retried, Cancelled
  <1> QED
    BY <1>1, <1>2, <1>3, <1>4, <1>5, <1>6, <1>7, <1>8 DEF RowMove

LEMMA FencingNext ==
    ASSUME UniqueWorkerIds, TypeOK, Fencing, [Next]_vars
    PROVE  Fencing'
  <1> SUFFICES ASSUME NEW v \in Workers, Holding(v)',
                      OwnedBy(row[job[v].task], WorkerId[v])'
               PROVE  /\ row'[job'[v].task].attempt = job'[v].attempt
                      /\ row'[job'[v].task].retry = job'[v].retry
    BY DEF Fencing
  <1> DEFINE t == job'[v].task
  <1>1. t \in Tasks
    BY JobMoves
  <1>2. row'[t].status = "generating" /\ row'[t].worker = WorkerId[v]
    BY DEF OwnedBy
  <1>3. \/ /\ Holding(v) /\ t = job[v].task
           /\ job'[v].attempt = job[v].attempt /\ job'[v].retry = job[v].retry
        \/ /\ row' = row
           /\ job'[v].attempt = row[t].attempt /\ job'[v].retry = row[t].retry
    BY JobMoves
  <1> HIDE DEF t
  <1>4. \/ /\ row[t].status = "generating" /\ row'[t].worker = row[t].worker
           /\ row'[t].attempt = row[t].attempt /\ row'[t].retry = row[t].retry
        \/ \E w \in Workers : row'[t].worker = WorkerId[w] /\ job'[w].pc = "readback"
    BY <1>1, <1>2, RowMoves, ClaimKeptOrTaken
  <1>5. ASSUME NEW w \in Workers, row'[t].worker = WorkerId[w], job'[w].pc = "readback"
        PROVE  FALSE
    <2>1. w = v
      BY <1>2, <1>5 DEF UniqueWorkerIds
    <2> QED
      BY <1>5, <2>1 DEF Holding
  <1>6. /\ row'[t].attempt = job'[v].attempt /\ row'[t].retry = job'[v].retry
    BY <1>2, <1>3, <1>4, <1>5 DEF Fencing, OwnedBy
  <1> QED
    BY <1>6 DEF t

\* Fencing, for every deployment in which no two workers share an id: whatever
\* crashes, expires, is cancelled, retried or claimed anew in the meantime, a
\* worker whose finish, defer or renewal is let through writes into the very
\* claim it read back.
THEOREM FencingHolds == UniqueWorkerIds => (Spec => []Fencing)
  <1> SUFFICES ASSUME UniqueWorkerIds PROVE Spec => []Fencing
    OBVIOUS
  <1>1. Init => Fencing
    BY DEF Init, Fencing, Holding, IdleJob, TaskJob
  <1>2. TypeOK /\ Fencing /\ [Next]_vars => Fencing'
    BY FencingNext
  <1> QED
    BY <1>1, <1>2, TypeCorrect, PTL DEF Spec

-----------------------------------------------------------------------------
(***************************************************************************)
(* Claims and leases.                                                      *)
(***************************************************************************)

\* One row: while it is generating it has the id of a worker and a lease, and
\* otherwise neither, unless it is as it was inserted.
ClaimedRow(r) == IF r.status = "generating"
                 THEN r.worker \in Ids /\ r.lease # "none"
                 ELSE AsInserted(r) \/ (r.worker = NoWorker /\ r.lease = "none")

LEMMA ClaimedRowNext ==
    ASSUME TypeOK, NEW t \in Tasks, ClaimedRow(row[t]), RowMove(t)
    PROVE  ClaimedRow(row'[t])
  <1>0. /\ row[t] \in Row
        /\ \A w \in Workers : job[w].result \in Terminal /\ WorkerId[w] \in Ids
    BY DEF TypeOK, JobsOK, Job, Ids
  <1> USE DEF Row, ClaimedRow, AsInserted
  <1>1. CASE row'[t] = row[t]
    BY <1>1
  <1>2. CASE \E w \in Workers : Claiming(w, t)
    BY <1>0, <1>2 DEF Claiming, Claimed
  <1>3. CASE row[t].status = "generating" /\ row'[t] = Renewed(row[t])
    BY <1>0, <1>3 DEF Renewed
  <1>4. CASE row[t].lease = "live" /\ row'[t] = [row[t] EXCEPT !.lease = "expired"]
    BY <1>0, <1>4
  <1>5. CASE row'[t] = RequeueExpired(row[t]) \/ row'[t] = TimeoutExpired(RequeueExpired(row[t]))
    <2>1. ASSUME NEW r \in Row, ClaimedRow(r)
          PROVE  ClaimedRow(RequeueExpired(r)) /\ ClaimedRow(TimeoutExpired(r))
      BY <2>1 DEF RequeueExpired, TimeoutExpired, LeaseExpired
    <2>2. RequeueExpired(row[t]) \in Row
      BY <1>0, ExpiredRowTypes
    <2> QED
      BY <1>0, <1>5, <2>1, <2>2
  <1>6. CASE Inserted(t) \/ row'[t] = AbsentRow
    BY <1>6, InsertedColumns DEF AbsentRow
  <1>7. CASE \E w \in Workers : Ending(w, t)
    <2>1. PICK w \in Workers : Ending(w, t)
      BY <1>7
    <2>2. ASSUME NEW st \in Terminal, NEW b, row'[t] = Finished(row[t], st, b)
          PROVE  ClaimedRow(row'[t])
      BY <1>0, <2>2 DEF Finished, Terminal
    <2>3. CASE row'[t] = Deferred(row[t])
      BY <1>0, <2>3 DEF Deferred
    <2>4. "failed" \in Terminal
      BY DEF Terminal
    <2> QED
      BY <1>0, <2>1, <2>2, <2>3, <2>4 DEF Ending
  <1>8. CASE row'[t] = Retried(row[t]) \/ row'[t] = Cancelled(row[t])
    BY <1>0, <1>8 DEF Retried, Cancelled
  <1> QED
    BY <1>1, <1>2, <1>3, <1>4, <1>5, <1>6, <1>7, <1>8 DEF RowMove

\* Every claim can be found and taken back: no step leaves a row generating
\* without the id of a worker and a lease that can run out, nor a lease or a
\* worker on a row that was claimed and is not generating any more, whatever
\* worker and lease the row was inserted with.
THEOREM ClaimsStayRecoverable == Spec => []ClaimsRecoverable
  <1>1. Init => ClaimsRecoverable
    BY DEF Init, ClaimsRecoverable, AbsentRow
  <1>2. TypeOK /\ ClaimsRecoverable /\ [Next]_vars => ClaimsRecoverable'
    <2> SUFFICES ASSUME TypeOK, ClaimsRecoverable, [Next]_vars, NEW t \in Tasks
                 PROVE  ClaimedRow(row'[t])
      BY DEF ClaimsRecoverable, ClaimedRow
    <2>1. ClaimedRow(row[t])
      BY DEF ClaimsRecoverable, ClaimedRow
    <2> QED
      BY <2>1, RowMoves, ClaimedRowNext
  <1> QED
    BY <1>1, <1>2, TypeCorrect, PTL DEF Spec

-----------------------------------------------------------------------------
(***************************************************************************)
(* Retries.  The gate decides on the retry_count the worker read when it   *)
(* claimed the task; Fencing is what makes that count the row's own.       *)
(***************************************************************************)

\* The ways a row can move, as its user sees them.
RowLife(t) ==
    \/ t = nextId /\ nextId' = nextId + 1 /\ Inserted(t)
    \/ row[t].status \in Terminal /\ row'[t] = AbsentRow
    \/ /\ row'[t].max = row[t].max /\ row'[t].first = row[t].first
       /\ row'[t].retry = row[t].retry
       /\ \/ row'[t].status = row[t].status
          \/ row[t].status \in Waiting /\ row'[t].status \in {"generating", "cancelled"}
          \/ row[t].status = "generating" /\ row'[t].status \in Terminal
    \/ /\ row'[t].max = row[t].max /\ row'[t].first = row[t].first
       /\ row'[t].retry = row[t].retry + 1 /\ row'[t].status = "queued"
       /\ \/ row[t].status = "generating" /\ row[t].retry < HealthAttempts - 1
          \/ /\ row[t].status \in {"generating", "failed", "timeout", "cancelled"}
             /\ row[t].retry < row[t].max

LEMMA RowLives ==
    ASSUME TypeOK, Fencing, NEW t \in Tasks, RowMove(t)
    PROVE  RowLife(t)
  <1>0. /\ row[t] \in Row
        /\ \A w \in Workers : job[w].result \in Terminal
    BY DEF TypeOK, JobsOK, Job
  <1>1. CASE \E w \in Workers : Claiming(w, t)
    BY <1>0, <1>1 DEF Claiming, Claimed, ClaimableNext, Row, RowLife
  <1>2. CASE \E w \in Workers : Ending(w, t)
    <2>1. PICK w \in Workers : Ending(w, t)
      BY <1>2
    <2>2. row[t].status = "generating"
      BY <2>1 DEF Ending, OwnedBy
    <2>3. CASE /\ row'[t] = Deferred(row[t]) /\ job[w].pc = "claimed"
               /\ ~hasExceededAttemptBudget(job[w].retry)
      <3>1. row[t].retry = job[w].retry
        BY <2>1, <2>3 DEF Fencing, Holding, Ending
      <3>2. row[t].retry < HealthAttempts - 1
        BY <1>0, <2>3, <3>1, HealthAttemptsAssumption DEF hasExceededAttemptBudget, Row
      <3> QED
        BY <1>0, <2>2, <2>3, <3>2 DEF Deferred, Row, RowLife
    <2>4. CASE \E st \in Terminal : row'[t] = Finished(row[t], st, job[w].stored)
      BY <1>0, <2>2, <2>4 DEF Finished, Row, RowLife
    <2> QED
      BY <1>0, <2>1, <2>3, <2>4 DEF Ending, Terminal
  <1>3. CASE row'[t] \in {row[t], Renewed(row[t]), [row[t] EXCEPT !.lease = "expired"]}
    <2>1. /\ row'[t].status = row[t].status /\ row'[t].retry = row[t].retry
          /\ row'[t].max = row[t].max /\ row'[t].first = row[t].first
      BY <1>0, <1>3 DEF Renewed, Row
    <2> QED
      BY <2>1 DEF RowLife
  <1>4. CASE Retriable(row[t]) /\ row'[t] = Retried(row[t])
    BY <1>0, <1>4 DEF Retriable, canRetry, Retried, Row, RowLife
  <1>5. CASE canCancel(row[t].status) /\ row'[t] = Cancelled(row[t])
    BY <1>0, <1>5 DEF canCancel, Cancelled, Terminal, Row, RowLife
  <1>6. CASE row'[t] = RequeueExpired(row[t])
    BY <1>0, <1>6 DEF RequeueExpired, LeaseExpired, Row, RowLife
  <1>7. CASE row'[t] = TimeoutExpired(RequeueExpired(row[t]))
    <2>1. CASE RequeueExpired(row[t]) = row[t]
      BY <1>0, <1>7, <2>1 DEF TimeoutExpired, LeaseExpired, Terminal, Row, RowLife
    <2>2. CASE RequeueExpired(row[t]) # row[t]
      <3>1. RequeueExpired(row[t]).status = "queued"
        BY <1>0, <2>2 DEF RequeueExpired, Row
      <3>2. TimeoutExpired(RequeueExpired(row[t])) = RequeueExpired(row[t])
        BY <3>1 DEF TimeoutExpired, LeaseExpired
      <3> QED
        BY <1>6, <1>7, <3>2
    <2> QED
      BY <2>1, <2>2
  <1> QED
    BY <1>1, <1>2, <1>3, <1>4, <1>5, <1>6, <1>7 DEF RowMove, RowLife, canDelete, isTerminal

\* One row within its budgets.
Within(r) == \E limit \in {r.first, r.max, HealthAttempts - 1} : r.retry <= limit

LEMMA RetryNext ==
    ASSUME TypeOK, NEW t \in Tasks, Within(row[t]), RowLife(t)
    PROVE  Within(row'[t])
  <1>0. row[t].retry \in Int /\ row[t].max \in Int /\ row[t].first \in Int
    BY DEF TypeOK, Row
  <1>1. CASE Inserted(t)
    BY <1>1, InsertedColumns DEF Within
  <1>2. CASE row'[t] = AbsentRow
    BY <1>2 DEF AbsentRow, Within
  <1>3. CASE /\ row'[t].max = row[t].max /\ row'[t].first = row[t].first
             /\ row'[t].retry = row[t].retry
    BY <1>3 DEF Within
  <1>4. CASE /\ row'[t].max = row[t].max /\ row'[t].retry = row[t].retry + 1
             /\ row[t].retry < HealthAttempts - 1 \/ row[t].retry < row[t].max
    BY <1>0, <1>4, HealthAttemptsAssumption DEF Within
  <1> QED
    BY <1>1, <1>2, <1>3, <1>4 DEF RowLife

\* The retries a task is given, by its user, by the scanner and by the health
\* gate together, stay within the larger of their budgets, or where the client
\* has put them from the start.
THEOREM RetriesStayBounded == UniqueWorkerIds => (Spec => []RetriesBounded)
  <1> SUFFICES ASSUME UniqueWorkerIds PROVE Spec => []RetriesBounded
    OBVIOUS
  <1>1. Init => RetriesBounded
    BY DEF Init, RetriesBounded, AbsentRow
  <1>2. TypeOK /\ Fencing /\ RetriesBounded /\ [Next]_vars => RetriesBounded'
    <2> SUFFICES ASSUME TypeOK, Fencing, RetriesBounded, [Next]_vars, NEW t \in Tasks
                 PROVE  Within(row'[t])
      BY DEF RetriesBounded, Within
    <2>1. Within(row[t])
      BY DEF RetriesBounded, Within
    <2> QED
      BY <2>1, RowMoves, RowLives, RetryNext
  <1>3. Spec => []Fencing
    BY FencingHolds
  <1> QED
    BY <1>1, <1>2, <1>3, TypeCorrect, PTL DEF Spec

-----------------------------------------------------------------------------
(***************************************************************************)
(* Results.                                                                *)
(***************************************************************************)

LEMMA ResultStep ==
    ASSUME TypeOK, Fencing, [Next]_vars, NEW t \in Tasks,
           row[t].status # "success", row'[t].status = "success"
    PROVE  \E w \in Workers : /\ job[w].pc = "finish" /\ job[w].task = t
                              /\ job[w].result = "success"
                              /\ job[w].attempt = row[t].attempt
  <1>0. row[t] \in Row
    BY DEF TypeOK
  <1>1. RowMove(t)
    BY RowMoves
  <1>2. \A r \in Row : /\ r.status # "success"
                       => /\ RequeueExpired(r).status # "success"
                          /\ TimeoutExpired(r).status # "success"
    BY DEF RequeueExpired, TimeoutExpired, Row
  <1>3. ASSUME row'[t] = RequeueExpired(row[t]) \/ row'[t] = TimeoutExpired(RequeueExpired(row[t]))
        PROVE  FALSE
    BY <1>0, <1>2, <1>3, ExpiredRowTypes
  <1>4. ASSUME \/ Inserted(t)
               \/ row'[t] \in {row[t], AbsentRow, Renewed(row[t]), Cancelled(row[t]),
                               Retried(row[t]), [row[t] EXCEPT !.lease = "expired"]}
        PROVE  FALSE
    <2>1. /\ Inserted(t) => row'[t].status = "queued"
          /\ AbsentRow.status = "absent"
          /\ Cancelled(row[t]).status = "cancelled" /\ Retried(row[t]).status = "queued"
      BY <1>0, InsertedColumns DEF AbsentRow, Cancelled, Retried, Row
    <2>2. /\ Renewed(row[t]).status = row[t].status
          /\ [row[t] EXCEPT !.lease = "expired"].status = row[t].status
      BY <1>0 DEF Renewed, Row
    <2> QED
      BY <1>4, <2>1, <2>2
  <1>5. ASSUME NEW w \in Workers, Claiming(w, t)
        PROVE  FALSE
    BY <1>0, <1>5 DEF Claiming, Claimed, Row
  <1>6. PICK w \in Workers : Ending(w, t)
    BY <1>1, <1>3, <1>4, <1>5 DEF RowMove
  <1>7. job[w].pc = "finish" /\ job[w].result = "success" /\ job[w].task = t
    BY <1>0, <1>6 DEF Ending, Finished, Deferred, Row
  <1>8. job[w].attempt = row[t].attempt
    BY <1>6, <1>7 DEF Ending, Fencing, Holding
  <1> QED
    BY <1>7, <1>8

\* A row turns to success only with the success its current claim produced,
\* never with that of an attempt that was cancelled, expired or superseded.
THEOREM ResultsAreCurrent == UniqueWorkerIds => (Spec => ResultOfCurrentClaim)
  <1> SUFFICES ASSUME UniqueWorkerIds PROVE Spec => ResultOfCurrentClaim
    OBVIOUS
  <1>1. TypeOK /\ Fencing /\ [Next]_vars => [SuccessOfCurrentClaim]_vars
    BY ResultStep DEF SuccessOfCurrentClaim
  <1>2. Spec => []Fencing
    BY FencingHolds
  <1> QED
    BY <1>1, <1>2, TypeCorrect, PTL DEF Spec, ResultOfCurrentClaim

-----------------------------------------------------------------------------
(***************************************************************************)
(* With Redis at every start, claims go through claimTaskById alone and    *)
(* every claim after the first is paid for with a counted retry.           *)
(***************************************************************************)
RedisEverywhere == \A r \in Replicas : RedisAtStart[r] \subseteq {TRUE}

\* A waiting row still has the claim to spend that its last retry was for.
PaidRow(r) == /\ r.attempt <= r.retry - r.first + 1
              /\ r.status \in Waiting => r.attempt <= r.retry - r.first
PaidInv == (\A r \in Replicas : up[r]) /\ (\A t \in Tasks : PaidRow(row[t]))

LEMMA PaidNext ==
    ASSUME TypeOK, PaidInv, NEW t \in Tasks, RowMove(t)
    PROVE  PaidRow(row'[t])
  <1>0. /\ row[t] \in Row /\ PaidRow(row[t])
        /\ \A w \in Workers : job[w].result \in Terminal /\ up[Home[w]]
    BY ConstantsAssumption DEF TypeOK, JobsOK, Job, PaidInv
  <1> USE DEF Row, PaidRow, Waiting
  <1>1. CASE \E w \in Workers : Claiming(w, t)
    <2>1. ClaimableById(row[t]) /\ \E w \in Workers : row'[t] = Claimed(row[t], WorkerId[w])
      BY <1>0, <1>1 DEF Claiming
    <2> QED
      BY <1>0, <2>1 DEF ClaimableById, Claimed
  <1>5. CASE Inserted(t)
    BY <1>5, InsertedColumns
  <1>2. CASE row'[t] \in {row[t], AbsentRow, Renewed(row[t]), Cancelled(row[t]),
                          Retried(row[t]), [row[t] EXCEPT !.lease = "expired"]}
    <2>1. PaidRow(AbsentRow)
      BY DEF AbsentRow
    <2>2. PaidRow(Cancelled(row[t])) /\ PaidRow(Retried(row[t]))
      BY <1>0 DEF Cancelled, Retried
    <2>3. PaidRow(Renewed(row[t])) /\ PaidRow([row[t] EXCEPT !.lease = "expired"])
      BY <1>0 DEF Renewed
    <2> QED
      BY <1>0, <1>2, <2>1, <2>2, <2>3
  <1>3. CASE row'[t] = RequeueExpired(row[t]) \/ row'[t] = TimeoutExpired(RequeueExpired(row[t]))
    <2>1. ASSUME NEW r \in Row, PaidRow(r)
          PROVE  PaidRow(RequeueExpired(r)) /\ PaidRow(TimeoutExpired(r))
      BY <2>1 DEF RequeueExpired, TimeoutExpired
    <2>2. RequeueExpired(row[t]) \in Row
      BY <1>0, ExpiredRowTypes
    <2> QED
      BY <1>0, <1>3, <2>1, <2>2
  <1>4. CASE \E w \in Workers : Ending(w, t)
    <2>1. \A st \in Terminal : \A b : PaidRow(Finished(row[t], st, b))
      BY <1>0 DEF Finished, Terminal
    <2>2. PaidRow(Deferred(row[t]))
      BY <1>0 DEF Deferred
    <2>3. /\ "failed" \in Terminal
          /\ \/ row'[t] = Deferred(row[t])
             \/ \E st \in Terminal : \E b : row'[t] = Finished(row[t], st, b)
      BY <1>0, <1>4 DEF Ending, Terminal
    <2> QED
      BY <2>1, <2>2, <2>3
  <1> QED
    BY <1>1, <1>2, <1>3, <1>4, <1>5 DEF RowMove

LEMMA RedisStaysUp ==
    ASSUME RedisEverywhere, TypeOK, PaidInv, [Next]_vars, NEW r \in Replicas
    PROVE  up'[r]
  <1>1. ASSUME NEW s \in Replicas, Crash(s) PROVE up'[r]
    BY <1>1 DEF Crash, RedisEverywhere, PaidInv, TypeOK
  <1>2. ASSUME NEW w \in Workers, WorkerStep(w) \/ KeeperStep(w) PROVE up' = up
    BY <1>2 DEF WorkerStep, KeeperStep, Dequeue, AcquireLease, ClaimTaskById,
                ClaimNextTask, ReadBack, GateProceed, GateFail, GateDefer, Generate,
                Finish, Release, EnqueueDeferred, Cleanup, KeeperRenews, KeeperStops
  <1>3. ASSUME NEW s \in Replicas, ScanStep(s) PROVE up' = up
    BY <1>3 DEF ScanStep, ScanSelect, ScanExpire, ScanEnqueue, RecoverRead, RecoverWrite
  <1>4. ASSUME NEW c \in Clients, ApiStep(c) \/ ApiStart(c) PROVE up' = up
    BY <1>4 DEF ApiStep, ApiStart, EnqueueRequested, CancelRemove, CancelUnlock,
                DeleteRow, DeleteObject, Create, Retry, Cancel, DeleteRead
  <1>5. ASSUME NEW t \in Tasks,
               LeaseLapses(t) \/ LeaseOverrun(t) \/ LockLapses(t) \/ LockOverrun(t)
        PROVE  up' = up
    BY <1>5 DEF LeaseLapses, LeaseOverrun, LockLapses, LockOverrun
  <1> QED
    BY <1>1, <1>2, <1>3, <1>4, <1>5 DEF Next, vars, PaidInv

\* In a deployment whose replicas all found Redis at every start, a task is
\* claimed at most once more than the retries counted since it was inserted.  (Without Redis this is
\* false: claimNextTask takes an expired row again and counts nothing.)
THEOREM ClaimsStayPaidFor == RedisEverywhere => (Spec => []ClaimsPaidFor)
  <1> SUFFICES ASSUME RedisEverywhere PROVE Spec => []ClaimsPaidFor
    OBVIOUS
  <1>1. Init => PaidInv
    <2> SUFFICES ASSUME Init PROVE PaidInv
      OBVIOUS
    <2>1. \A r \in Replicas : up[r]
      BY DEF Init, RedisEverywhere
    <2>2. PaidRow(AbsentRow)
      BY DEF PaidRow, AbsentRow, Waiting
    <2> QED
      BY <2>1, <2>2 DEF Init, PaidInv
  <1>2. TypeOK /\ PaidInv /\ [Next]_vars => PaidInv'
    <2> SUFFICES ASSUME TypeOK, PaidInv, [Next]_vars PROVE PaidInv'
      OBVIOUS
    <2>1. \A r \in Replicas : up'[r]
      BY RedisStaysUp
    <2>2. \A t \in Tasks : PaidRow(row'[t])
      BY RowMoves, PaidNext
    <2> QED
      BY <2>1, <2>2 DEF PaidInv, PaidRow
  <1>3. PaidInv => ClaimsPaidFor
    BY DEF PaidInv, PaidRow, ClaimsPaidFor
  <1> QED
    BY <1>1, <1>2, <1>3, TypeCorrect, PTL DEF Spec

-----------------------------------------------------------------------------
(***************************************************************************)
(* TaskEngine implements TaskLifecycle in deployments with unique ids.     *)
(***************************************************************************)

\* What the mapping needs to know of the rows: ids that were not given out have
\* no row, a missing row counts nothing, and no statement writes "pending".
Fresh == \A t \in Tasks : /\ row[t].status # "pending"
                          /\ row[t].status = "absent"
                             => row[t].retry = 0 /\ row[t].max = 0
                          /\ t >= nextId => row[t].status = "absent"

\* AUTO_INCREMENT moves on only when a row is inserted.
LEMMA NextIdMoves ==
    ASSUME TypeOK, [Next]_vars
    PROVE  \/ nextId' = nextId
           \/ nextId \in Tasks /\ nextId' = nextId + 1 /\ Inserted(nextId)
  <1>1. ASSUME NEW w \in Workers, WorkerStep(w) \/ KeeperStep(w) PROVE nextId' = nextId
    BY <1>1 DEF WorkerStep, KeeperStep, Dequeue, AcquireLease, ClaimTaskById,
                ClaimNextTask, ReadBack, GateProceed, GateFail, GateDefer, Generate,
                Finish, Release, EnqueueDeferred, Cleanup, KeeperRenews, KeeperStops
  <1>2. ASSUME NEW r \in Replicas, ScanStep(r) \/ Crash(r) PROVE nextId' = nextId
    BY <1>2 DEF ScanStep, ScanSelect, ScanExpire, ScanEnqueue, RecoverRead,
                RecoverWrite, Crash
  <1>3. ASSUME NEW c \in Clients, Create(c)
        PROVE  nextId \in Tasks /\ nextId' = nextId + 1 /\ Inserted(nextId)
    BY <1>3, UpdateRow DEF Create, Inserted
  <1>4. ASSUME NEW c \in Clients, ApiStep(c) \/ ApiStart(c), ~Create(c)
        PROVE  nextId' = nextId
    BY <1>4 DEF ApiStep, ApiStart, EnqueueRequested, CancelRemove, CancelUnlock,
                DeleteRow, DeleteObject, Retry, Cancel, DeleteRead
  <1>5. ASSUME NEW t \in Tasks,
               LeaseLapses(t) \/ LeaseOverrun(t) \/ LockLapses(t) \/ LockOverrun(t)
        PROVE  nextId' = nextId
    BY <1>5 DEF LeaseLapses, LeaseOverrun, LockLapses, LockOverrun
  <1> QED
    BY <1>1, <1>2, <1>3, <1>4, <1>5 DEF Next, vars

LEMMA FreshNext ==
    ASSUME TypeOK, Fencing, Fresh, [Next]_vars
    PROVE  Fresh'
  <1> SUFFICES ASSUME NEW t \in Tasks
               PROVE  /\ row'[t].status # "pending"
                      /\ row'[t].status = "absent" => row'[t].retry = 0 /\ row'[t].max = 0
                      /\ t >= nextId' => row'[t].status = "absent"
    BY DEF Fresh
  <1>1. RowLife(t)
    BY RowMoves, RowLives
  <1>2. /\ row[t].status # "pending"
        /\ row[t].status = "absent" => row[t].retry = 0 /\ row[t].max = 0
        /\ t >= nextId => row[t].status = "absent"
    BY DEF Fresh
  <1>3. t \in Nat /\ nextId \in Nat /\ nextId' \in {nextId, nextId + 1}
    BY NextIdMoves DEF TypeOK, Tasks
  <1>4. CASE t = nextId /\ nextId' = nextId + 1 /\ Inserted(t)
    BY <1>3, <1>4, InsertedColumns
  <1>5. CASE row[t].status \in Terminal /\ row'[t] = AbsentRow
    BY <1>5 DEF AbsentRow
  <1>6. CASE row'[t].retry = row[t].retry /\ row'[t].max = row[t].max
             /\ row'[t].status = row[t].status
    BY <1>2, <1>3, <1>6
  <1>7. CASE /\ row[t].status # "absent"
             /\ row'[t].status \in Terminal \cup {"generating", "queued"}
    BY <1>2, <1>3, <1>7 DEF Terminal
  <1> QED
    BY <1>1, <1>4, <1>5, <1>6, <1>7 DEF RowLife, Waiting, Terminal

LEMMA LifeStep ==
    ASSUME TypeOK, Fresh, Fencing, [Next]_vars, NEW t \in Tasks
    PROVE  Lifecycle!Step(t) \/ LifeOf(t)' = LifeOf(t)
  <1> DEFINE L == [s \in Tasks |-> LifeOf(s)]
  <1>0. /\ t \in Nat /\ nextId \in Nat
        /\ row[t].retry \in Int /\ row[t].max \in Int
    BY DEF TypeOK, Tasks, Row
  <1>1. RowLife(t)
    BY RowMoves, RowLives
  <1>2. /\ row[t].status # "pending"
        /\ row[t].status = "absent" => row[t].retry = 0 /\ row[t].max = 0
        /\ t >= nextId => row[t].status = "absent"
    BY DEF Fresh
  <1>3. \/ nextId' = nextId
        \/ nextId' = nextId + 1 /\ (t = nextId => Inserted(t))
    BY NextIdMoves
  <1>5. /\ L[t].retry = row[t].retry /\ L'[t].retry = row'[t].retry
        /\ L[t].max = row[t].max /\ L'[t].max = row'[t].max
        /\ L[t] = LifeOf(t) /\ L'[t] = LifeOf(t)'
        /\ L[t].status = IF row[t].status = "absent" /\ t < nextId
                         THEN "deleted" ELSE row[t].status
        /\ L'[t].status = IF row'[t].status = "absent" /\ t < nextId'
                          THEN "deleted" ELSE row'[t].status
    BY DEF LifeOf
  <1>6. CASE /\ row'[t].status = row[t].status /\ row'[t].retry = row[t].retry
             /\ row'[t].max = row[t].max
    <2>1. (row[t].status = "absent" /\ t < nextId) <=> (row'[t].status = "absent" /\ t < nextId')
      BY <1>0, <1>3, <1>6, InsertedColumns
    <2> QED
      BY <1>6, <2>1 DEF LifeOf
  <1>7. CASE t = nextId /\ nextId' = nextId + 1 /\ Inserted(t)
    <2>1. L[t].status = "absent"
      BY <1>0, <1>2, <1>5, <1>7
    <2>2. L'[t].status = "queued" /\ L'[t].retry \in Int /\ L'[t].max \in Int
      BY <1>5, <1>7, InsertedColumns
    <2> HIDE DEF L
    <2> QED
      BY <2>1, <2>2 DEF Lifecycle!Step, Lifecycle!Created, L
  <1>8. ASSUME row[t].status # "absent", row'[t].status # "absent"
        PROVE  L[t].status = row[t].status /\ L'[t].status = row'[t].status
    BY <1>5, <1>8
  <1> HIDE DEF L
  <1>9. CASE /\ row[t].status \in Waiting /\ row'[t].status \in {"generating", "cancelled"}
             /\ row'[t].retry = row[t].retry /\ row'[t].max = row[t].max
    <2>1. L[t].status = "queued" /\ L'[t].status \in {"generating", "cancelled"}
      BY <1>2, <1>8, <1>9 DEF Waiting
    <2>2. L'[t].retry = L[t].retry /\ L'[t].max = L[t].max
      BY <1>5, <1>9
    <2>3. CASE L'[t].status = "generating"
      BY <2>1, <2>2, <2>3 DEF Lifecycle!Step, Lifecycle!Moves, L
    <2>4. CASE L'[t].status = "cancelled"
      BY <2>1, <2>2, <2>4 DEF Lifecycle!Step, Lifecycle!Moves, L
    <2> QED
      BY <2>1, <2>3, <2>4
  <1>10. CASE /\ row[t].status = "generating" /\ row'[t].status \in Terminal
              /\ row'[t].retry = row[t].retry /\ row'[t].max = row[t].max
    <2>1. L[t].status = "generating" /\ L'[t].status \in Terminal
      BY <1>8, <1>10 DEF Terminal
    <2> QED
      BY <1>5, <1>10, <2>1 DEF Lifecycle!Step, Lifecycle!Moves, L, Terminal,
                               Lifecycle!Terminal
  <1>11. CASE /\ row[t].status = "generating" /\ row'[t].status = "queued"
              /\ row'[t].retry = row[t].retry + 1 /\ row'[t].max = row[t].max
              /\ row[t].retry < HealthAttempts - 1
    <2>1. L[t].status = "generating" /\ L'[t].status = "queued"
      BY <1>8, <1>11
    <2> QED
      BY <1>5, <1>11, <2>1 DEF Lifecycle!Step, Lifecycle!Again, L
  <1>12. CASE /\ row[t].status \in {"generating", "failed", "timeout", "cancelled"}
              /\ row[t].retry < row[t].max /\ row'[t].max = row[t].max
              /\ row'[t].status = "queued" /\ row'[t].retry = row[t].retry + 1
    <2>1. /\ L[t].status \in {"generating", "failed", "timeout", "cancelled"}
          /\ L'[t].status = "queued"
      BY <1>8, <1>12
    <2> QED
      BY <1>5, <1>12, <2>1 DEF Lifecycle!Step, Lifecycle!Again, L
  <1>13. CASE row[t].status \in Terminal /\ row'[t] = AbsentRow
    <2>1. t < nextId' /\ row[t].status # "absent"
      BY <1>0, <1>2, <1>3, <1>13 DEF Terminal
    <2>2. L[t].status \in Terminal
      BY <1>5, <1>13, <2>1
    <2>3. LifeOf(t)' = Lifecycle!Gone
      BY <1>13, <2>1 DEF LifeOf, AbsentRow, Lifecycle!Gone
    <2>4. LifeOf(t).status \in Terminal
      BY <1>5, <2>2
    <2> QED
      BY <2>3, <2>4 DEF Lifecycle!Step, Terminal, Lifecycle!Terminal
  <1> QED
    BY <1>1, <1>6, <1>7, <1>9, <1>10, <1>11, <1>12, <1>13 DEF RowLife

\* Every behaviour of the engine is a behaviour of the task life cycle: crashes,
\* lost messages, overrun leases and cancellations in any order never move a
\* task in a way its user was not promised.
THEOREM EngineImplementsLifecycle == UniqueWorkerIds => (Spec => LifecycleSpec)
  <1> SUFFICES ASSUME UniqueWorkerIds PROVE Spec => LifecycleSpec
    OBVIOUS
  <1>1. Init => Lifecycle!Init
    BY DEF Init, Lifecycle!Init, Lifecycle!New, LifeOf, AbsentRow, Tasks
  <1>2. Init => Fresh
    BY DEF Init, Fresh, AbsentRow
  <1>3. TypeOK /\ Fencing /\ Fresh /\ [Next]_vars => Fresh'
    BY FreshNext
  <1>4. TypeOK /\ Fresh /\ Fencing /\ [Next]_vars
        => [Lifecycle!Next]_[t \in Tasks |-> LifeOf(t)]
    <2> SUFFICES ASSUME TypeOK, Fresh, Fencing, [Next]_vars
                 PROVE  Lifecycle!Next
      OBVIOUS
    <2>1. \A t \in Tasks : Lifecycle!Step(t) \/ LifeOf(t)' = LifeOf(t)
      BY LifeStep
    <2> QED
      BY <2>1 DEF Lifecycle!Next
  <1>5. Spec => []Fencing
    BY FencingHolds
  <1> QED
    BY <1>1, <1>2, <1>3, <1>4, <1>5, TypeCorrect, PTL
       DEF Spec, LifecycleSpec, Lifecycle!Spec

-----------------------------------------------------------------------------
(***************************************************************************)
(* Startup.  A process has one thread of each once, the secret that main   *)
(* has accepted and a table that is complete, because of how far its main  *)
(* thread has come (MainInv), what loadConfig will find (SecretInv), what  *)
(* a finished call_once has left (EngineInv) and where a thread is in      *)
(* ensureTable (ThreadInv), and because a request runs only in a process   *)
(* that listens (HandlerInv).                                              *)
(***************************************************************************)

\* A thread belongs to a process, a main thread to its own.
LEMMA Processes ==
    /\ \A t \in Threads : Process[t] \in Backends
    /\ \A r \in Backends : r \in Threads /\ Process[r] = r
    /\ \A h \in Handlers : h \in Threads /\ h \notin Backends /\ Process[h] = Server[h]
  BY StartupAssumption DEF Process, Threads

\* An ALTER adds one of the columns and indices there are.
AltersKnown == \A t \in Threads : At(t, "alter") => thread[t].at <= Migrations

LEMMA NewIsTyped ==
    /\ NewProcess \in ProcessStates
    /\ NewEngine \in EngineStates
    /\ Idle("exited") \in ThreadStates /\ Idle("idle") \in ThreadStates
  BY StartupAssumption
         DEF NewProcess, NewEngine, Idle, ProcessStates, EngineStates, ThreadStates, Resting

\* What happens to one thread leaves the threads typed.
LEMMA ThreadTyped ==
    ASSUME BootTypeOK, NEW t \in Threads, NEW n \in ThreadStates,
           thread' = [thread EXCEPT ![t] = n]
    PROVE  thread' \in [Threads -> ThreadStates]
  BY DEF BootTypeOK

PCs == {"exited", "load", "check", "redis", "cache", "database", "minio", "listening",
        "idle", "answered", "refused", "insert", "bootstrap", "spawn", "ensure", "look", "alter"}

LEMMA ProceedTyped ==
    ASSUME BootTypeOK, NEW t \in Threads, NEW pc \in PCs, Proceed(t, pc)
    PROVE  thread' \in [Threads -> ThreadStates]
<1>1. thread[t] \in ThreadStates BY DEF BootTypeOK
<1>2. [thread[t] EXCEPT !.pc = pc] \in ThreadStates BY <1>1 DEF ThreadStates, PCs, Resting
<1> QED BY <1>2 DEF Proceed, BootTypeOK

LEMMA RoundTyped ==
    ASSUME BootTypeOK, NEW t \in Threads, NEW pc \in PCs, NEW n \in Nat, Round(t, pc, n)
    PROVE  thread' \in [Threads -> ThreadStates]
<1>1. thread[t] \in ThreadStates BY DEF BootTypeOK
<1>2. [thread[t] EXCEPT !.pc = pc, !.at = n] \in ThreadStates BY <1>1
       DEF ThreadStates, PCs, Resting
<1> QED BY <1>2 DEF Round, BootTypeOK

LEMMA LeavesTyped ==
    ASSUME BootTypeOK, NEW t \in Threads, NEW pc \in PCs, Leaves(t, pc)
    PROVE  thread' \in [Threads -> ThreadStates]
<1>1. Idle(pc) \in ThreadStates BY DEF ThreadStates, PCs, Resting, Idle
<1> QED BY <1>1 DEF Leaves, BootTypeOK

\* Every kind of step leaves the state typed.
LEMMA ExitsTyped == ASSUME BootTypeOK, NEW r \in Backends, Exits(r) PROVE BootTypeOK'
<1>1. process' \in [Backends -> ProcessStates] BY NewIsTyped DEF BootTypeOK, Exits
<1>2. engine' \in [Backends -> EngineStates] BY NewIsTyped DEF BootTypeOK, Exits
<1>3. table' \in [Backends -> {"open", "running", "done"}] BY DEF BootTypeOK, Exits
<1>4. thread' \in [Threads -> ThreadStates] BY NewIsTyped DEF BootTypeOK, Exits
<1> QED BY <1>1, <1>2, <1>3, <1>4 DEF BootTypeOK, Exits

LEMMA CachedTyped ==
    ASSUME BootTypeOK, NEW r \in Backends
    PROVE  /\ cachedConfig(r) \in Configs \cup {Unset}
           /\ [process[r] EXCEPT !.cached = cachedConfig(r)] \in ProcessStates
<1>1. process[r] \in ProcessStates BY DEF BootTypeOK
<1>2. cachedConfig(r) \in Configs \cup {Unset} BY <1>1
       DEF BootTypeOK, cachedConfig, Configs, ProcessStates
<1> QED BY <1>1, <1>2 DEF ProcessStates

LEMMA EngineTyped ==
    ASSUME BootTypeOK, NEW r \in Backends
    PROVE  /\ \A once \in {"open", "running", "done"} :
                 [engine[r] EXCEPT !.once = once] \in EngineStates
           /\ [engine[r] EXCEPT !.config = Constructed(r)] \in EngineStates
           /\ \A n \in Nat : Spawned(r, n) \in [Indices -> Nat]
<1>1. engine[r] \in EngineStates BY DEF BootTypeOK
<1>2. Constructed(r) \in {"configured", "defaults"} BY <1>1 DEF Constructed, EngineStates
<1>3. ASSUME NEW n \in Nat PROVE Spawned(r, n) \in [Indices -> Nat]
  <2>1. \A i \in Indices : engine[r].threads[i] \in Nat BY <1>1 DEF EngineStates
  <2> QED BY <2>1, StartupAssumption DEF Spawned, Indices
<1> QED BY <1>1, <1>2, <1>3 DEF EngineStates

LEMMA MainTyped ==
    ASSUME BootTypeOK, NEW r \in Backends, Start(r) \/ MainStep(r) PROVE BootTypeOK'
<1> r \in Threads BY DEF Threads
<1>p. process[r] \in ProcessStates /\ engine[r] \in EngineStates /\ thread[r] \in ThreadStates
  BY DEF BootTypeOK
<1>1. CASE Start(r)
  BY <1>1, ProceedTyped DEF Start, BootTypeOK, PCs
<1>2. CASE Load(r)
  <2>1. loadConfig(settings) \in Configs BY DEF BootTypeOK, Configs
  <2>2. [process[r] EXCEPT !.loaded = loadConfig(settings)] \in ProcessStates
    BY <1>p, <2>1 DEF ProcessStates
  <2>3. process' \in [Backends -> ProcessStates] BY <1>2, <2>2 DEF Load, BootTypeOK
  <2>4. thread' \in [Threads -> ThreadStates] BY <1>2, ProceedTyped DEF Load, PCs
  <2> QED BY <1>2, <2>3, <2>4 DEF Load, BootTypeOK
<1>3. CASE LoadFails(r)
  BY <1>3, ExitsTyped DEF LoadFails
<1>4. CASE Check(r)
  <2>1. CASE Exits(r) BY <2>1, ExitsTyped
  <2>2. CASE Proceed(r, "redis") /\ UNCHANGED <<settings, schema, process, engine, table, changes>>
    BY <2>2, ProceedTyped DEF BootTypeOK, PCs
  <2> QED BY <1>4, <2>1, <2>2 DEF Check
<1>5. CASE InitRedis(r)
  <2>1. PICK ping \in Pings[r] :
            process' = [process EXCEPT ![r] = [@ EXCEPT !.redis = ping.redis]]
    BY <1>5 DEF InitRedis
  <2>2. ping.redis \in BOOLEAN BY <2>1, StartupAssumption
  <2>3. [process[r] EXCEPT !.redis = ping.redis] \in ProcessStates
    BY <1>p, <2>2 DEF ProcessStates
  <2>4. process' \in [Backends -> ProcessStates] BY <2>1, <2>3 DEF BootTypeOK
  <2>5. thread' \in [Threads -> ThreadStates] BY <1>5, ProceedTyped DEF InitRedis, PCs
  <2> QED BY <1>5, <2>4, <2>5 DEF InitRedis, BootTypeOK
<1>6. CASE InitCache(r)
  <2>1. PICK ping \in Pings[r] :
            process' = [process EXCEPT ![r] = [@ EXCEPT !.cache = ping.cache]]
    BY <1>6 DEF InitCache
  <2>2. ping.cache \in BOOLEAN BY <2>1, StartupAssumption
  <2>3. [process[r] EXCEPT !.cache = ping.cache] \in ProcessStates
    BY <1>p, <2>2 DEF ProcessStates
  <2>4. process' \in [Backends -> ProcessStates] BY <2>1, <2>3 DEF BootTypeOK
  <2>5. thread' \in [Threads -> ThreadStates] BY <1>6, ProceedTyped DEF InitCache, PCs
  <2> QED BY <1>6, <2>4, <2>5 DEF InitCache, BootTypeOK
<1>7. CASE InitDatabase(r)
  <2>1. process' \in [Backends -> ProcessStates] BY <1>7, CachedTyped
         DEF InitDatabase, BootTypeOK
  <2>2. Constructed(r) \in {"configured", "defaults"} BY <1>p DEF Constructed, EngineStates
  <2>3. [engine[r] EXCEPT !.config = Constructed(r), !.cache = process[r].cache] \in EngineStates
    BY <1>p, <2>2 DEF EngineStates, ProcessStates
  <2>4. engine' \in [Backends -> EngineStates]
    BY <1>7, <2>3 DEF InitDatabase, WithCache, BootTypeOK
  <2>5. thread' \in [Threads -> ThreadStates] BY <1>7, ProceedTyped DEF InitDatabase, PCs
  <2> QED BY <1>7, <2>1, <2>4, <2>5 DEF InitDatabase, BootTypeOK
<1>8. CASE DatabaseMissing(r)
  <2>1. [process[r] EXCEPT !.missed = TRUE] \in ProcessStates BY <1>p DEF ProcessStates
  <2>2. process' \in [Backends -> ProcessStates] BY <1>8, <2>1 DEF DatabaseMissing, BootTypeOK
  <2>3. thread' \in [Threads -> ThreadStates] BY <1>8, ProceedTyped DEF DatabaseMissing, PCs
  <2> QED BY <1>8, <2>2, <2>3 DEF DatabaseMissing, BootTypeOK
<1>9. CASE EnsureBucket(r)
  <2>1. thread[r].at + 1 \in Nat BY <1>p DEF ThreadStates
  <2>2. thread' \in [Threads -> ThreadStates]
    BY <1>9, <2>1, ProceedTyped, RoundTyped DEF EnsureBucket, PCs
  <2> QED BY <1>9, <2>2 DEF EnsureBucket, BootTypeOK
<1> QED BY <1>1, <1>2, <1>3, <1>4, <1>5, <1>6, <1>7, <1>8, <1>9 DEF MainStep

LEMMA EngineStepTyped ==
    ASSUME BootTypeOK, NEW t \in Threads, NEW n \in Nat,
           Bootstrap(t) \/ Spawn(t) \/ SpawnFails(t, n)
    PROVE  BootTypeOK'
<1> DEFINE r == Process[t]
<1>p. r \in Backends /\ engine[r] \in EngineStates /\ thread[t] \in ThreadStates
  BY Processes DEF BootTypeOK
<1>1. CASE Bootstrap(t)
  <2>1. CASE Returns(t) /\ UNCHANGED engine
    BY <1>1, <2>1, LeavesTyped DEF Bootstrap, Returns, PCs, BootTypeOK
  <2>2. CASE Returns(t) /\ OnceEngine(r, "done")
    <3>1. engine' \in [Backends -> EngineStates]
      BY <1>p, <2>2, EngineTyped DEF OnceEngine, BootTypeOK
    <3>2. thread' \in [Threads -> ThreadStates] BY <2>2, LeavesTyped DEF Returns, PCs
    <3> QED BY <1>1, <3>1, <3>2 DEF Bootstrap, BootTypeOK
  <2>3. CASE /\ thread' = [thread EXCEPT ![t] = [@ EXCEPT !.bootstrapping = TRUE,
                               !.pc = IF process[r].redis THEN "ensure" ELSE "spawn"]]
             /\ OnceEngine(r, "running")
    <3>1. engine' \in [Backends -> EngineStates]
      BY <1>p, <2>3, EngineTyped DEF OnceEngine, BootTypeOK
    <3>2. [thread[t] EXCEPT !.bootstrapping = TRUE,
                            !.pc = IF process[r].redis THEN "ensure" ELSE "spawn"] \in ThreadStates
      BY <1>p DEF ThreadStates
    <3>3. thread' \in [Threads -> ThreadStates] BY <2>3, <3>2, ThreadTyped
    <3> QED BY <1>1, <3>1, <3>3 DEF Bootstrap, BootTypeOK
  <2> QED BY <1>1, <2>1, <2>2, <2>3 DEF Bootstrap
<1>2. CASE Spawn(t)
  <2>1. WorkersOf(r) \in Nat BY StartupAssumption DEF WorkersOf
  <2>2. [engine[r] EXCEPT !.once = "done", !.threads = Spawned(r, WorkersOf(r))] \in EngineStates
    BY <1>p, <2>1, EngineTyped DEF EngineStates
  <2>3. engine' \in [Backends -> EngineStates] BY <1>2, <2>2 DEF Spawn, AllSpawned, BootTypeOK
  <2>4. thread' \in [Threads -> ThreadStates] BY <1>2, LeavesTyped DEF Spawn, Returns, PCs
  <2> QED BY <1>2, <2>3, <2>4 DEF Spawn, BootTypeOK
<1>3. CASE SpawnFails(t, n)
  <2>0. engine[r].failures + 1 \in Nat
    <3> engine[r].failures \in Nat BY <1>p DEF EngineStates
    <3> QED OBVIOUS
  <2>a. ASSUME NEW w \in [Indices -> Nat], NEW f \in Nat
        PROVE  [engine[r] EXCEPT !.once = "open", !.threads = w, !.failures = f] \in EngineStates
    BY <1>p DEF EngineStates
  <2>1. [engine[r] EXCEPT !.once = "open", !.threads = Spawned(r, n),
                          !.failures = engine[r].failures + 1] \in EngineStates
    BY <1>p, <2>0, <2>a, EngineTyped
  <2>2. engine' \in [Backends -> EngineStates] BY <1>3, <2>1 DEF SpawnFails, Reopened, BootTypeOK
  <2>3. thread' \in [Threads -> ThreadStates] BY <1>3, LeavesTyped DEF SpawnFails, PCs
  <2> QED BY <1>3, <2>2, <2>3 DEF SpawnFails, BootTypeOK
<1> QED BY <1>1, <1>2, <1>3

LEMMA TableStepTyped ==
    ASSUME BootTypeOK, AltersKnown, NEW t \in Threads,
           \/ EnsureDone(t) \/ CreateTable(t) \/ Look(t)
           \/ Alter(t) \/ Migrated(t) \/ EnsureFails(t)
    PROVE  BootTypeOK'
<1>p. /\ Process[t] \in Backends /\ thread[t] \in ThreadStates
      /\ thread[t].at \in Nat /\ thread[t].at + 1 \in Nat /\ Migrations \in Nat
  BY Processes, StartupAssumption DEF BootTypeOK, ThreadStates
<1>1. /\ EnsureReturns(t) => thread' \in [Threads -> ThreadStates]
      /\ EnsureThrows(t) => thread' \in [Threads -> ThreadStates]
  BY RoundTyped DEF EnsureReturns, EnsureThrows, PCs
<1>2. \A once \in {"open", "running", "done"} :
          OnceTable(Process[t], once) => table' \in [Backends -> {"open", "running", "done"}]
  BY DEF OnceTable, BootTypeOK
<1>3. CASE EnsureDone(t)
  BY <1>1, <1>3 DEF EnsureDone, BootTypeOK
<1>4. CASE CreateTable(t)
  <2>1. thread' \in [Threads -> ThreadStates] BY <1>4, RoundTyped DEF CreateTable, PCs
  <2> QED BY <1>2, <1>4, <2>1 DEF CreateTable, BootTypeOK
<1>5. CASE Look(t)
  <2>1. thread' \in [Threads -> ThreadStates]
    BY <1>5, <1>p, RoundTyped, ProceedTyped DEF Look, PCs
  <2> QED BY <1>5, <2>1 DEF Look, BootTypeOK
<1>6. At(t, "alter") => thread[t].at \in Objects
  BY <1>p DEF AltersKnown, At, Objects
<1>7. CASE Alter(t)
  <2>1. thread' \in [Threads -> ThreadStates] BY <1>7, <1>p, RoundTyped DEF Alter, PCs
  <2> QED BY <1>6, <1>7, <2>1 DEF Alter, Added, BootTypeOK
<1>8. CASE Migrated(t)
  BY <1>1, <1>2, <1>8 DEF Migrated, BootTypeOK
<1>9. CASE EnsureFails(t)
  <2>1. schema' \subseteq Objects BY <1>6, <1>9 DEF EnsureFails, Added, BootTypeOK
  <2> QED BY <1>1, <1>2, <1>9, <2>1 DEF EnsureFails, Reopened, BootTypeOK
<1> QED BY <1>3, <1>4, <1>5, <1>7, <1>8, <1>9

LEMMA RequestTyped ==
    ASSUME BootTypeOK, NEW h \in Handlers, Authenticate(h) \/ RequestStep(h) PROVE BootTypeOK'
<1>p. h \in Threads /\ Server[h] \in Backends BY StartupAssumption DEF Threads
<1>1. CASE Authenticate(h)
  <2>1. process' \in [Backends -> ProcessStates] BY <1>p, <1>1, CachedTyped
         DEF Authenticate, BootTypeOK
  <2>2. thread' \in [Threads -> ThreadStates] BY <1>p, <1>1, ProceedTyped DEF Authenticate, PCs
  <2> QED BY <1>1, <2>1, <2>2 DEF Authenticate, BootTypeOK
<1>2. CASE Insert(h)
  <2>1. engine' \in [Backends -> EngineStates] BY <1>p, <1>2, EngineTyped DEF Insert, BootTypeOK
  <2>2. thread' \in [Threads -> ThreadStates] BY <1>p, <1>2, ProceedTyped DEF Insert, PCs
  <2> QED BY <1>2, <2>1, <2>2 DEF Insert, BootTypeOK
<1>3. CASE InsertFails(h)
  BY <1>p, <1>3, ProceedTyped DEF InsertFails, PCs, BootTypeOK
<1> QED BY <1>1, <1>2, <1>3 DEF RequestStep

LEMMA OtherTyped ==
    ASSUME BootTypeOK, NEW r \in Backends, WorkerReadsConfig(r) \/ ProcessEnds(r)
    PROVE  BootTypeOK'
<1>1. CASE WorkerReadsConfig(r)
  BY <1>1, CachedTyped DEF WorkerReadsConfig, BootTypeOK
<1>2. CASE ProcessEnds(r)
  BY <1>2, ExitsTyped DEF ProcessEnds
<1> QED BY <1>1, <1>2

LEMMA ChangeTyped == ASSUME BootTypeOK, NEW s \in Settings, Change(s) PROVE BootTypeOK'
<1> DEFINE Changed(p) ==
              process[p].changed \/ (process[p].loaded # Unset /\ process[p].cached = Unset)
<1>1. ASSUME NEW p \in Backends PROVE [process[p] EXCEPT !.changed = Changed(p)] \in ProcessStates
  <2>1. process[p] \in ProcessStates BY DEF BootTypeOK
  <2>2. Changed(p) \in BOOLEAN BY <2>1 DEF ProcessStates
  <2> HIDE DEF Changed
  <2> QED BY <2>1, <2>2 DEF ProcessStates
<1>2. process' = [p \in Backends |-> [process[p] EXCEPT !.changed = Changed(p)]]
  BY DEF Change
<1>3. process' \in [Backends -> ProcessStates]
  <2> HIDE DEF Changed
  <2> QED BY <1>1, <1>2
<1>4. changes' \in 0..MaxChanges BY StartupAssumption DEF Change, BootTypeOK
<1> QED BY <1>3, <1>4 DEF Change, BootTypeOK

Early == {"exited", "load", "check", "redis", "cache", "database"}
Inside == {"ensure", "look", "alter", "spawn"}

\* What main has done, by how far it has come.
MainInv(r) ==
    /\ thread[r].pc \in Early \cup Inside \cup {"bootstrap", "minio", "listening"}
    /\ thread[r].pc \in Early
       => engine[r] = NewEngine /\ table[r] = "open" /\ process[r].cached = Unset
    /\ thread[r].pc \notin Early => process[r].missed \/ engine[r].cache = process[r].cache
    /\ thread[r].pc \in {"minio", "listening"}
       => process[r].missed \/ engine[r].failures > 0 \/ engine[r].once = "done"
    /\ thread[r].pc \in Inside => thread[r].bootstrapping
    /\ thread[r].pc = "bootstrap" => engine[r].config # "none"

\* The secret main has accepted is the one that cachedConfig has or will load.
SecretInv(r) ==
    /\ thread[r].pc \notin {"exited", "load"} => process[r].loaded # Unset
    /\ thread[r].pc \notin {"exited", "load", "check"} => ~insecureSecret(process[r].loaded)
    /\ process[r].loaded # Unset /\ process[r].cached = Unset /\ ~process[r].changed
       => canLoad(settings) /\ process[r].loaded = loadConfig(settings)
    /\ process[r].cached # Unset => process[r].changed \/ ~insecureSecret(process[r].cached)

EngineInv(r) ==
    /\ engine[r].once # "open" => engine[r].config # "none"
    /\ engine[r].once = "done"
       => \A i \in Indices : i <= WorkersOf(r) => engine[r].threads[i] > 0
    /\ \A i \in Indices :
          engine[r].threads[i] <= engine[r].failures + (IF engine[r].once = "done" THEN 1 ELSE 0)
    /\ table[r] = "done" => schema = Objects

ThreadInv(t) ==
    /\ thread[t].bootstrapping => thread[t].pc \in Inside
    /\ thread[t].pc = "spawn" => thread[t].bootstrapping
    /\ thread[t].pc \in {"look", "alter"}
       => thread[t].at \in 1..(Migrations + 1) /\ 0..(thread[t].at - 1) \subseteq schema
    /\ thread[t].pc = "alter" => thread[t].at <= Migrations

\* A request runs only in a process that listens.
HandlerInv(h) ==
    /\ thread[h].pc \in Resting \cup {"insert", "bootstrap"} \cup Inside
    /\ thread[h].pc # "idle" => thread[Server[h]].pc = "listening"
    /\ thread[h].pc \in {"insert", "bootstrap"} => schema = Objects
    /\ thread[h].pc = "bootstrap" => engine[Server[h]].config # "none"
    /\ thread[h].pc = "answered" => engine[Server[h]].once = "done"

StartupInv ==
    /\ \A r \in Backends : MainInv(r) /\ SecretInv(r) /\ EngineInv(r) /\ OneRuns(r)
    /\ \A t \in Threads : ThreadInv(t)
    /\ \A h \in Handlers : HandlerInv(h)

\* What the moves of a thread leave behind.
Others(t) == \A u \in Threads : u # t => thread'[u] = thread[u]

LEMMA ThreadMoves ==
    ASSUME BootTypeOK, NEW t \in Threads, NEW pc, NEW n
    PROVE  /\ Proceed(t, pc) => /\ Others(t) /\ thread'[t].pc = pc /\ thread'[t].at = thread[t].at
                                /\ thread'[t].bootstrapping = thread[t].bootstrapping
           /\ Round(t, pc, n) => /\ Others(t) /\ thread'[t].pc = pc /\ thread'[t].at = n
                                 /\ thread'[t].bootstrapping = thread[t].bootstrapping
           /\ Leaves(t, pc) => /\ Others(t) /\ thread'[t].pc = pc /\ thread'[t].at = 0
                               /\ thread'[t].bootstrapping = FALSE
<1>1. thread \in [Threads -> ThreadStates] BY DEF BootTypeOK
<1>2. ASSUME Proceed(t, pc)
      PROVE  /\ Others(t) /\ thread'[t].pc = pc /\ thread'[t].at = thread[t].at
             /\ thread'[t].bootstrapping = thread[t].bootstrapping
  BY <1>1, <1>2 DEF Proceed, Others, ThreadStates
<1>3. ASSUME Round(t, pc, n)
      PROVE  /\ Others(t) /\ thread'[t].pc = pc /\ thread'[t].at = n
             /\ thread'[t].bootstrapping = thread[t].bootstrapping
  BY <1>1, <1>3 DEF Round, Others, ThreadStates
<1>4. ASSUME Leaves(t, pc)
      PROVE  /\ Others(t) /\ thread'[t].pc = pc /\ thread'[t].at = 0
             /\ thread'[t].bootstrapping = FALSE
  BY <1>1, <1>4 DEF Leaves, Others, Idle
<1> QED BY <1>2, <1>3, <1>4

\* A step of process r: the others, and their threads, stay as they are.
Apart(r) ==
    /\ \A p \in Backends : p # r => /\ process'[p] = process[p] /\ engine'[p] = engine[p]
                                    /\ table'[p] = table[p]
    /\ \A u \in Threads : Process[u] # r => thread'[u] = thread[u]
    /\ schema \subseteq schema' /\ schema' \subseteq Objects /\ settings' = settings

LEMMA OthersKeep ==
    ASSUME BootTypeOK, StartupInv, NEW r \in Backends, Apart(r)
    PROVE  /\ \A p \in Backends : p # r
                 => MainInv(p)' /\ SecretInv(p)' /\ EngineInv(p)' /\ OneRuns(p)'
           /\ \A u \in Threads : Process[u] # r => ThreadInv(u)'
           /\ \A h \in Handlers : Server[h] # r => HandlerInv(h)'
<1>1. ASSUME NEW p \in Backends, p # r PROVE MainInv(p)'
  <2>1. MainInv(p) BY DEF StartupInv
  <2>2. process'[p] = process[p] /\ engine'[p] = engine[p] /\ table'[p] = table[p]
    BY <1>1 DEF Apart
  <2>3. thread'[p] = thread[p] BY <1>1, Processes DEF Apart
  <2> QED BY <2>1, <2>2, <2>3 DEF MainInv, NewEngine
<1>2. ASSUME NEW p \in Backends, p # r PROVE SecretInv(p)'
  BY <1>2, Processes DEF StartupInv, SecretInv, Apart, canLoad, loadConfig, insecureSecret,
                         readEnvOrSecretFile, overrideSecretString
<1>3. ASSUME NEW p \in Backends, p # r PROVE EngineInv(p)'
  <2>1. EngineInv(p) BY DEF StartupInv
  <2>2. schema = Objects => schema' = Objects BY DEF Apart
  <2>3. engine'[p] = engine[p] /\ table'[p] = table[p] BY <1>3 DEF Apart
  <2> QED BY <2>1, <2>2, <2>3 DEF EngineInv, WorkersOf
<1>4. ASSUME NEW p \in Backends, p # r PROVE OneRuns(p)'
  <2>1. OneRuns(p) BY DEF StartupInv
  <2>2. \A u \in Threads : Process[u] = p => thread'[u] = thread[u] BY <1>4 DEF Apart
  <2>3. engine'[p] = engine[p] /\ table'[p] = table[p] BY <1>4 DEF Apart
  <2> QED BY <2>1, <2>2, <2>3 DEF OneRuns, Migrating
<1>5. ASSUME NEW u \in Threads, Process[u] # r PROVE ThreadInv(u)'
  BY <1>5 DEF StartupInv, ThreadInv, Apart
<1>6. ASSUME NEW h \in Handlers, Server[h] # r PROVE HandlerInv(h)'
  <2>1. HandlerInv(h) BY DEF StartupInv
  <2>2. thread'[h] = thread[h] /\ thread'[Server[h]] = thread[Server[h]]
    BY <1>6, Processes DEF Apart
  <2>3. engine'[Server[h]] = engine[Server[h]] BY <1>6, Processes DEF Apart
  <2>4. schema = Objects => schema' = Objects BY DEF Apart
  <2> QED BY <2>1, <2>2, <2>3, <2>4 DEF HandlerInv
<1> QED BY <1>1, <1>2, <1>3, <1>4, <1>5, <1>6

\* A step of thread t in its process, which main no longer does once it listens.
Alone(t) ==
    /\ \A p \in Backends : p # Process[t] => /\ process'[p] = process[p] /\ engine'[p] = engine[p]
                                             /\ table'[p] = table[p]
    /\ Others(t)
    /\ schema \subseteq schema' /\ schema' \subseteq Objects /\ settings' = settings
    /\ engine[Process[t]].config # "none" => engine'[Process[t]].config # "none"
    /\ engine[Process[t]].once = "done" => engine'[Process[t]].once = "done"
    /\ t \in Backends => thread[t].pc # "listening"

LEMMA StepKeeps ==
    ASSUME BootTypeOK, StartupInv, NEW t \in Threads, Alone(t),
           MainInv(Process[t])', SecretInv(Process[t])', EngineInv(Process[t])',
           OneRuns(Process[t])', ThreadInv(t)', t \in Handlers => HandlerInv(t)'
    PROVE  StartupInv'
<1> DEFINE r == Process[t]
<1>1. r \in Backends BY Processes
<1>2. Apart(r) BY DEF Alone, Apart, Others
<1>3. ASSUME NEW u \in Threads, u # t PROVE ThreadInv(u)'
  BY <1>3 DEF StartupInv, ThreadInv, Alone, Others
<1>4. ASSUME NEW h \in Handlers, h # t, Server[h] = r PROVE HandlerInv(h)'
  <2>1. HandlerInv(h) /\ h \in Threads /\ thread'[h] = thread[h]
    BY <1>4, Processes DEF StartupInv, Alone, Others
  <2>2. schema = Objects => schema' = Objects BY DEF Alone
  <2>3. CASE t \in Backends
    <3>1. r = t BY <2>3, Processes
    <3>2. thread[h].pc = "idle" BY <1>4, <2>1, <2>3, <3>1 DEF HandlerInv, Alone
    <3> QED BY <2>1, <3>2 DEF HandlerInv, Resting, Inside
  <2>4. CASE t \notin Backends
    <3>1. thread'[r] = thread[r] BY <1>1, <2>4, Processes DEF Alone, Others
    <3> QED BY <1>4, <2>1, <2>2, <3>1 DEF HandlerInv, Alone
  <2> QED BY <2>3, <2>4
<1> QED BY <1>1, <1>2, <1>3, <1>4, OthersKeep, Processes DEF StartupInv

\* Every kind of step keeps the inductive invariant: the end of a process, main
\* before it comes to the engine, and the threads in the engine and the table.
LEMMA ExitsKeeps ==
    ASSUME BootTypeOK, StartupInv, NEW r \in Backends, Exits(r) PROVE StartupInv'
<1>1. Apart(r) BY Processes DEF Apart, Exits, BootTypeOK
<1>2. /\ process'[r] = NewProcess /\ engine'[r] = NewEngine /\ table'[r] = "open"
      /\ thread'[r] = Idle("exited") /\ schema' = schema
      /\ \A h \in Handlers : Server[h] = r => thread'[h] = Idle("idle")
  BY Processes DEF Exits, BootTypeOK
<1>3. \A t \in Threads : Process[t] = r => /\ thread'[t].bootstrapping = FALSE
                                          /\ thread'[t].pc \in {"exited", "idle"}
  BY DEF Exits, Idle
<1>4. /\ NewEngine.config = "none" /\ NewEngine.once = "open" /\ NewEngine.failures = 0
      /\ \A i \in Indices : NewEngine.threads[i] = 0
  BY DEF NewEngine
<1>5. MainInv(r)'
  BY <1>2 DEF MainInv, Early, Inside, NewEngine, NewProcess, Idle
<1>6. SecretInv(r)'
  BY <1>2 DEF SecretInv, NewProcess, Idle
<1>7. EngineInv(r)'
  BY <1>2, <1>4 DEF EngineInv
<1>8. OneRuns(r)'
  BY <1>2, <1>3, <1>4 DEF OneRuns, Migrating
<1>9. ASSUME NEW t \in Threads, Process[t] = r PROVE ThreadInv(t)'
  BY <1>3, <1>9 DEF ThreadInv, Inside
<1>10. ASSUME NEW h \in Handlers, Server[h] = r PROVE HandlerInv(h)'
  BY <1>2, <1>10 DEF HandlerInv, Resting, Idle
<1> QED BY <1>1, <1>5, <1>6, <1>7, <1>8, <1>9, <1>10, OthersKeep, Processes DEF StartupInv

\* What holds of the process while main has not come to bootstrap.
LEMMA EarlyProcess ==
    ASSUME BootTypeOK, StartupInv, NEW r \in Backends, thread[r].pc \in Early
    PROVE  /\ r \in Threads /\ r \notin Handlers /\ Process[r] = r
           /\ engine[r] = NewEngine /\ table[r] = "open" /\ process[r].cached = Unset
           /\ \A t \in Threads : Process[t] = r => ~thread[t].bootstrapping /\ ~Migrating(t)
<1>1. /\ r \in Threads /\ r \notin Handlers /\ Process[r] = r BY Processes
<1>2. engine[r] = NewEngine /\ table[r] = "open" /\ process[r].cached = Unset
  BY DEF StartupInv, MainInv
<1>3. engine[r].once # "running" /\ table[r] # "running" BY <1>2 DEF NewEngine
<1>4. thread[r] \in ThreadStates /\ \A t \in Threads : thread[t].bootstrapping \in BOOLEAN
  BY <1>1 DEF BootTypeOK, ThreadStates
<1> QED BY <1>1, <1>2, <1>3, <1>4 DEF StartupInv, OneRuns

\* A step of main before bootstrap, which leaves its engine and its table new.
LEMMA EarlyKeeps ==
    ASSUME BootTypeOK, StartupInv, NEW r \in Backends, thread[r].pc \in Early,
           NEW pc \in Early \cup {"minio"}, Proceed(r, pc),
           UNCHANGED <<settings, schema, engine, table>>,
           \A p \in Backends : p # r => process'[p] = process[p],
           process'[r].cached = Unset, SecretInv(r)', pc = "minio" => process'[r].missed
    PROVE  StartupInv'
<1>1. /\ r \in Threads /\ r \notin Handlers /\ Process[r] = r
      /\ engine[r] = NewEngine /\ table[r] = "open"
      /\ \A t \in Threads : Process[t] = r => ~thread[t].bootstrapping /\ ~Migrating(t)
  BY EarlyProcess
<1>2. /\ Others(r) /\ thread'[r].pc = pc
      /\ thread'[r].bootstrapping = thread[r].bootstrapping
  BY <1>1, ThreadMoves
<1>3. Alone(r) BY <1>1, <1>2 DEF Alone, BootTypeOK, Early
<1>4. MainInv(r)'
  BY <1>1, <1>2 DEF MainInv, Early, Inside, NewEngine
<1>5. EngineInv(r)'
  BY <1>1 DEF EngineInv, StartupInv, WorkersOf
<1>6. OneRuns(r)'
  <2>1. \A t \in Threads : Process[t] = r => ~thread'[t].bootstrapping /\ ~Migrating(t)'
    BY <1>1, <1>2 DEF Others, Migrating, Early
  <2>2. engine'[r].once = "open" /\ table'[r] = "open" BY <1>1 DEF NewEngine
  <2> QED BY <2>1, <2>2 DEF OneRuns
<1>7. ThreadInv(r)'
  BY <1>1, <1>2 DEF ThreadInv, Early
<1> QED BY <1>1, <1>3, <1>4, <1>5, <1>6, <1>7, StepKeeps

LEMMA MainKeeps ==
    ASSUME BootTypeOK, StartupInv, NEW r \in Backends, Start(r) \/ MainStep(r) PROVE StartupInv'
<1>p. /\ r \in Threads /\ r \notin Handlers /\ Process[r] = r
      /\ process[r] \in ProcessStates /\ engine[r] \in EngineStates /\ thread[r] \in ThreadStates
      /\ process \in [Backends -> ProcessStates] /\ engine \in [Backends -> EngineStates]
      /\ MainInv(r) /\ SecretInv(r) /\ EngineInv(r) /\ OneRuns(r) /\ ThreadInv(r)
  BY Processes DEF BootTypeOK, StartupInv
<1>e. thread[r].pc \in Early => process[r].cached = Unset
  BY EarlyProcess
<1>1. CASE Start(r)
  <2>1. thread[r].pc \in Early BY <1>1 DEF Start, At, Early
  <2>2. thread'[r].pc = "load" BY <1>p, <1>1, ThreadMoves DEF Start
  <2>3. SecretInv(r)'
    BY <1>1, <1>p, <2>2 DEF Start, SecretInv, canLoad, loadConfig, insecureSecret,
                            readEnvOrSecretFile, overrideSecretString
  <2> QED BY <1>1, <1>e, <2>1, <2>3, EarlyKeeps DEF Start, Early
<1>2. CASE Load(r)
  <2>1. thread[r].pc \in Early BY <1>2 DEF Load, At, Early
  <2>2. thread'[r].pc = "check" BY <1>p, <1>2, ThreadMoves DEF Load
  <2>3. /\ process'[r] = [process[r] EXCEPT !.loaded = loadConfig(settings)]
        /\ \A p \in Backends : p # r => process'[p] = process[p]
    BY <1>2, <1>p DEF Load
  <2>4. /\ process'[r].loaded = loadConfig(settings) /\ process'[r].cached = process[r].cached
        /\ process'[r].changed = process[r].changed
    BY <2>3, <1>p DEF ProcessStates
  <2>5. canLoad(settings) /\ loadConfig(settings) # Unset
    BY <1>2, UnsetAssumption DEF Load, BootTypeOK, Configs
  <2>6. SecretInv(r)'
    BY <1>2, <1>e, <2>1, <2>2, <2>4, <2>5
       DEF Load, SecretInv, canLoad, loadConfig, insecureSecret,
           readEnvOrSecretFile, overrideSecretString
  <2> QED BY <1>2, <1>e, <2>1, <2>3, <2>4, <2>6, EarlyKeeps DEF Load, Early
<1>3. CASE LoadFails(r)
  BY <1>3, ExitsKeeps DEF LoadFails
<1>4. CASE Check(r)
  <2>1. CASE Exits(r) BY <2>1, ExitsKeeps
  <2>2. CASE ~Exits(r)
    <3>1. /\ thread[r].pc \in Early /\ thread[r].pc = "check" /\ Proceed(r, "redis")
          /\ ~insecureSecret(process[r].loaded)
          /\ UNCHANGED <<settings, schema, process, engine, table, changes>>
      BY <1>4, <2>2 DEF Check, At, Early
    <3>2. thread'[r].pc = "redis" BY <1>p, <3>1, ThreadMoves
    <3>3. SecretInv(r)'
      BY <1>p, <3>1, <3>2 DEF SecretInv, canLoad, loadConfig, insecureSecret,
                              readEnvOrSecretFile, overrideSecretString
    <3> QED BY <1>e, <3>1, <3>3, EarlyKeeps DEF Early
  <2> QED BY <2>1, <2>2
<1>5. CASE InitRedis(r)
  <2>1. thread[r].pc \in Early /\ thread[r].pc = "redis" BY <1>5 DEF InitRedis, At, Early
  <2>2. thread'[r].pc = "cache" BY <1>p, <1>5, ThreadMoves DEF InitRedis
  <2>3. PICK ping \in Pings[r] :
            process' = [process EXCEPT ![r] = [@ EXCEPT !.redis = ping.redis]]
    BY <1>5 DEF InitRedis
  <2>4. process'[r] = [process[r] EXCEPT !.redis = ping.redis] BY <2>3, <1>p
  <2>5. /\ process'[r].loaded = process[r].loaded /\ process'[r].cached = process[r].cached
        /\ process'[r].changed = process[r].changed
    BY <2>4, <1>p DEF ProcessStates
  <2>6. SecretInv(r)'
    BY <1>5, <1>p, <2>1, <2>2, <2>5
       DEF InitRedis, SecretInv, canLoad, loadConfig, insecureSecret,
           readEnvOrSecretFile, overrideSecretString
  <2> QED BY <1>5, <1>e, <2>1, <2>3, <2>5, <2>6, EarlyKeeps DEF InitRedis, Early
<1>6. CASE InitCache(r)
  <2>1. thread[r].pc \in Early /\ thread[r].pc = "cache" BY <1>6 DEF InitCache, At, Early
  <2>2. thread'[r].pc = "database" BY <1>p, <1>6, ThreadMoves DEF InitCache
  <2>3. PICK ping \in Pings[r] :
            process' = [process EXCEPT ![r] = [@ EXCEPT !.cache = ping.cache]]
    BY <1>6 DEF InitCache
  <2>4. process'[r] = [process[r] EXCEPT !.cache = ping.cache] BY <2>3, <1>p
  <2>5. /\ process'[r].loaded = process[r].loaded /\ process'[r].cached = process[r].cached
        /\ process'[r].changed = process[r].changed
    BY <2>4, <1>p DEF ProcessStates
  <2>6. SecretInv(r)'
    BY <1>6, <1>p, <2>1, <2>2, <2>5
       DEF InitCache, SecretInv, canLoad, loadConfig, insecureSecret,
           readEnvOrSecretFile, overrideSecretString
  <2> QED BY <1>6, <1>e, <2>1, <2>3, <2>5, <2>6, EarlyKeeps DEF InitCache, Early
<1>7. CASE DatabaseMissing(r)
  <2>1. thread[r].pc \in Early /\ thread[r].pc = "database"
    BY <1>7 DEF DatabaseMissing, At, Early
  <2>2. thread'[r].pc = "minio" BY <1>p, <1>7, ThreadMoves DEF DatabaseMissing
  <2>3. process'[r] = [process[r] EXCEPT !.missed = TRUE] BY <1>7, <1>p DEF DatabaseMissing
  <2>4. /\ process'[r].loaded = process[r].loaded /\ process'[r].cached = process[r].cached
        /\ process'[r].changed = process[r].changed /\ process'[r].missed
    BY <2>3, <1>p DEF ProcessStates
  <2>5. SecretInv(r)'
    BY <1>7, <1>p, <2>1, <2>2, <2>4
       DEF DatabaseMissing, SecretInv, canLoad, loadConfig, insecureSecret,
           readEnvOrSecretFile, overrideSecretString
  <2> QED BY <1>7, <1>e, <2>1, <2>4, <2>5, EarlyKeeps DEF DatabaseMissing
<1>8. CASE InitDatabase(r)
  <2>1. thread[r].pc \in Early /\ thread[r].pc = "database" BY <1>8 DEF InitDatabase, At, Early
  <2>2. /\ Others(r) /\ thread'[r].pc = "bootstrap"
        /\ thread'[r].bootstrapping = thread[r].bootstrapping
    BY <1>p, <1>8, ThreadMoves DEF InitDatabase
  <2>3. /\ engine[r] = NewEngine /\ table[r] = "open" /\ process[r].cached = Unset
        /\ \A t \in Threads : Process[t] = r => ~thread[t].bootstrapping /\ ~Migrating(t)
    BY <2>1, EarlyProcess
  <2>4. /\ process'[r] = [process[r] EXCEPT !.cached = cachedConfig(r)]
        /\ engine'[r] = [engine[r] EXCEPT !.config = Constructed(r), !.cache = process[r].cache]
    BY <1>8, <1>p DEF InitDatabase, WithCache
  <2>5. /\ process'[r].loaded = process[r].loaded /\ process'[r].cached = cachedConfig(r)
        /\ process'[r].changed = process[r].changed /\ process'[r].cache = process[r].cache
    BY <2>4, <1>p DEF ProcessStates
  <2>6. /\ engine'[r].config = Constructed(r) /\ engine'[r].cache = process[r].cache
        /\ engine'[r].once = "open" /\ engine'[r].threads = NewEngine.threads
        /\ engine'[r].failures = 0
    BY <2>3, <2>4, <1>p DEF EngineStates, NewEngine
  <2>7. Constructed(r) # "none" BY DEF Constructed
  <2>8. Alone(r)
    BY <1>8, <1>p, <2>1, <2>2, <2>3, <2>6, <2>7 DEF Alone, InitDatabase, BootTypeOK, NewEngine
  <2>9. MainInv(r)'
    BY <2>2, <2>5, <2>6, <2>7 DEF MainInv, Early, Inside
  <2>10. SecretInv(r)'
    BY <1>8, <1>p, <2>1, <2>2, <2>3, <2>5
       DEF InitDatabase, SecretInv, cachedConfig, canLoad, loadConfig, insecureSecret,
           readEnvOrSecretFile, overrideSecretString
  <2>11. EngineInv(r)'
    BY <1>8, <2>3, <2>6 DEF EngineInv, InitDatabase, NewEngine
  <2>12. OneRuns(r)'
    <3>1. \A t \in Threads : Process[t] = r => ~thread'[t].bootstrapping /\ ~Migrating(t)'
      BY <1>p, <2>2, <2>3 DEF Others, Migrating
    <3> QED BY <1>8, <2>3, <2>6, <3>1 DEF OneRuns, InitDatabase
  <2>13. ThreadInv(r)' BY <1>p, <2>2, <2>3 DEF ThreadInv
  <2> QED BY <1>p, <2>8, <2>9, <2>10, <2>11, <2>12, <2>13, StepKeeps
<1>9. CASE EnsureBucket(r)
  <2>1. /\ thread[r].pc = "minio" /\ Others(r) /\ thread'[r].pc \in {"minio", "listening"}
        /\ thread'[r].bootstrapping = thread[r].bootstrapping
    BY <1>9, <1>p, ThreadMoves DEF EnsureBucket, At
  <2>2. ~thread[r].bootstrapping BY <1>p, <2>1 DEF ThreadInv, Inside
  <2>3. Alone(r) BY <1>9, <2>1 DEF Alone, EnsureBucket, BootTypeOK
  <2>4. MainInv(r)' BY <1>9, <1>p, <2>1 DEF MainInv, EnsureBucket, Early, Inside, NewEngine
  <2>5. SecretInv(r)'
    BY <1>9, <1>p, <2>1 DEF EnsureBucket, SecretInv, canLoad, loadConfig, insecureSecret,
                            readEnvOrSecretFile, overrideSecretString
  <2>6. EngineInv(r)' BY <1>9, <1>p DEF EngineInv, EnsureBucket, WorkersOf
  <2>7. OneRuns(r)'
    <3>1. \A t \in Threads : /\ thread'[t].bootstrapping = thread[t].bootstrapping
                             /\ Migrating(t)' <=> Migrating(t)
      BY <1>p, <2>1 DEF Others, Migrating
    <3> QED BY <1>9, <1>p, <3>1 DEF OneRuns, EnsureBucket
  <2>8. ThreadInv(r)' BY <2>1, <2>2 DEF ThreadInv
  <2> QED BY <1>p, <2>3, <2>4, <2>5, <2>6, <2>7, <2>8, StepKeeps
<1> QED BY <1>1, <1>2, <1>3, <1>4, <1>5, <1>6, <1>7, <1>8, <1>9 DEF MainStep

\* Main is done with its settings when it or a request comes to the engine or the table.
LEMMA Working ==
    ASSUME BootTypeOK, StartupInv, NEW t \in Threads,
           thread[t].pc \in Inside \cup {"bootstrap", "insert"}
    PROVE  /\ Process[t] \in Backends /\ Process[t] \in Threads
           /\ thread[Process[t]].pc \notin Early
           /\ t \in Backends => Process[t] = t /\ t \notin Handlers /\ thread[t].pc # "insert"
           /\ t \notin Backends => /\ t \in Handlers /\ Process[t] = Server[t] /\ Process[t] # t
                                   /\ thread[Process[t]].pc = "listening"
           /\ engine[Process[t]] \in EngineStates /\ thread[t] \in ThreadStates
           /\ EngineInv(Process[t]) /\ OneRuns(Process[t]) /\ ThreadInv(t)
<1>1. /\ Process[t] \in Backends /\ Process[t] \in Threads
      /\ t \in Backends => Process[t] = t /\ t \notin Handlers
      /\ t \notin Backends => t \in Handlers /\ Process[t] = Server[t] /\ Process[t] # t
  BY Processes DEF Threads
<1>2. t \in Backends => thread[t].pc # "insert" /\ thread[t].pc \notin Early
  BY DEF StartupInv, MainInv, Early, Inside
<1>3. t \notin Backends => thread[Process[t]].pc = "listening"
  BY <1>1 DEF StartupInv, HandlerInv, Inside
<1>4. engine[Process[t]] \in EngineStates /\ thread[t] \in ThreadStates
  BY <1>1 DEF BootTypeOK
<1> QED BY <1>1, <1>2, <1>3, <1>4 DEF StartupInv, Early

\* A step of such a thread.
LEMMA WorkKeeps ==
    ASSUME BootTypeOK, StartupInv, NEW t \in Threads,
           thread[t].pc \in Inside \cup {"bootstrap", "insert"},
           Others(t), UNCHANGED <<settings, process>>,
           schema \subseteq schema', schema' \subseteq Objects,
           \A p \in Backends : p # Process[t] => engine'[p] = engine[p] /\ table'[p] = table[p],
           engine'[Process[t]].cache = engine[Process[t]].cache,
           engine[Process[t]].config # "none"
               => engine'[Process[t]].config = engine[Process[t]].config,
           engine[Process[t]].once = "done" => engine'[Process[t]].once = "done",
           engine[Process[t]].failures > 0 => engine'[Process[t]].failures > 0,
           t \in Backends => /\ thread'[t].pc \in Inside \cup {"minio"}
                             /\ thread'[t].pc \in Inside => thread'[t].bootstrapping
                             /\ thread'[t].pc = "minio" => \/ engine'[t].failures > 0
                                                           \/ engine'[t].once = "done",
           EngineInv(Process[t])', OneRuns(Process[t])', ThreadInv(t)',
           t \in Handlers => HandlerInv(t)'
    PROVE  StartupInv'
<1> DEFINE r == Process[t]
<1>1. /\ r \in Backends /\ r \in Threads /\ thread[r].pc \notin Early
      /\ t \in Backends => r = t /\ thread[t].pc # "insert"
      /\ t \notin Backends => r # t /\ thread[r].pc = "listening"
  BY Working
<1>2. thread'[r].pc \notin Early
  <2>1. CASE t \in Backends BY <1>1, <2>1 DEF Early, Inside
  <2>2. CASE t \notin Backends BY <1>1, <2>2 DEF Others
  <2> QED BY <2>1, <2>2
<1>3. Alone(t) BY <1>1 DEF Alone, Inside
<1>4. MainInv(r)'
  <2>1. MainInv(r) BY <1>1 DEF StartupInv
  <2>2. process'[r].missed \/ engine'[r].cache = process'[r].cache
    BY <1>1, <2>1 DEF MainInv
  <2>3. CASE t \in Backends BY <1>1, <1>2, <2>2, <2>3 DEF MainInv, Inside
  <2>4. CASE t \notin Backends
    <3>1. thread'[r] = thread[r] /\ thread[r].pc = "listening" BY <1>1, <2>4 DEF Others
    <3> QED BY <2>1, <2>2, <3>1 DEF MainInv, Early, Inside
  <2> QED BY <2>3, <2>4
<1>5. SecretInv(r)'
  <2>1. SecretInv(r) BY <1>1 DEF StartupInv
  <2> QED BY <1>1, <1>2, <2>1 DEF SecretInv, Early, canLoad, loadConfig, insecureSecret,
                                  readEnvOrSecretFile, overrideSecretString
<1> QED BY <1>3, <1>4, <1>5, StepKeeps

\* OneRuns looks at who is inside a call_once, and at nothing else.
LEMMA RunsAsBefore ==
    ASSUME NEW r \in Backends, OneRuns(r),
           engine'[r].once = "running" <=> engine[r].once = "running",
           table'[r] = "running" <=> table[r] = "running",
           \A u \in Threads : Process[u] = r
               => /\ thread'[u].bootstrapping <=> thread[u].bootstrapping
                  /\ Migrating(u)' <=> Migrating(u)
    PROVE  OneRuns(r)'
  BY DEF OneRuns

LEMMA EngineKeeps ==
    ASSUME BootTypeOK, StartupInv, NEW t \in Threads, NEW n \in Nat,
           Bootstrap(t) \/ Spawn(t) \/ SpawnFails(t, n)
    PROVE  StartupInv'
<1> DEFINE r == Process[t]
<1>0. thread[t].pc \in {"bootstrap", "spawn"} BY DEF Bootstrap, Spawn, SpawnFails, At
<1>p. /\ r \in Backends /\ r \in Threads
      /\ t \in Backends => r = t /\ t \notin Handlers
      /\ t \notin Backends => t \in Handlers /\ r = Server[t] /\ r # t /\ thread[r].pc = "listening"
      /\ engine[r] \in EngineStates /\ thread[t] \in ThreadStates
      /\ engine \in [Backends -> EngineStates]
      /\ EngineInv(r) /\ OneRuns(r) /\ ThreadInv(t)
      /\ t \in Handlers => HandlerInv(t)
  BY <1>0, Working DEF Inside, BootTypeOK, StartupInv
<1>c. engine[r].config # "none"
  <2>1. CASE thread[t].pc = "bootstrap"
    BY <1>p, <2>1 DEF StartupInv, MainInv, HandlerInv
  <2>2. CASE thread[t].pc = "spawn"
    <3>1. thread[t].bootstrapping BY <1>p, <2>2 DEF ThreadInv
    <3>2. engine[r].once = "running" BY <1>p, <3>1 DEF OneRuns
    <3> QED BY <1>p, <3>2 DEF EngineInv
  <2> QED BY <1>0, <2>1, <2>2
<1>m. ~Migrating(t) BY <1>0 DEF Migrating
<1>h. t \in Handlers => thread'[t] = thread[t] \/ (Others(t) => thread'[r].pc = "listening")
  BY <1>p DEF Others
<1>1. CASE Bootstrap(t)
  <2>0. thread[t].pc = "bootstrap" /\ ~thread[t].bootstrapping
    BY <1>1, <1>p DEF Bootstrap, At, ThreadInv, Inside
  <2>1. CASE engine[r].once = "done" /\ Returns(t) /\ UNCHANGED engine
    <3>1. /\ Others(t) /\ thread'[t].bootstrapping = FALSE
          /\ thread'[t].pc = IF t \in Backends THEN "minio" ELSE "answered"
      BY <2>1, ThreadMoves DEF Returns
    <3>2. EngineInv(r)' BY <1>1, <1>p, <2>1 DEF EngineInv, Bootstrap, WorkersOf
    <3>3. OneRuns(r)'
      <4>1. ~Migrating(t)' BY <3>1 DEF Migrating
      <4>2. \A u \in Threads : /\ thread'[u].bootstrapping <=> thread[u].bootstrapping
                               /\ Migrating(u)' <=> Migrating(u)
        BY <1>m, <2>0, <3>1, <4>1 DEF Others, Migrating
      <4> QED BY <1>1, <1>p, <2>1, <4>2, RunsAsBefore DEF Bootstrap, Migrating
    <3>4. ThreadInv(t)' BY <3>1 DEF ThreadInv
    <3>5. t \in Handlers => HandlerInv(t)'
      BY <1>p, <1>h, <2>0, <2>1, <3>1 DEF HandlerInv, Resting, Others
    <3> QED BY <1>1, <1>p, <1>0, <2>1, <3>1, <3>2, <3>3, <3>4, <3>5, WorkKeeps
            DEF Bootstrap, BootTypeOK, Inside
  <2>2. CASE /\ engine[r].once = "open" /\ WorkersOf(r) = 0
             /\ Returns(t) /\ OnceEngine(r, "done")
    <3>1. /\ Others(t) /\ thread'[t].bootstrapping = FALSE
          /\ thread'[t].pc = IF t \in Backends THEN "minio" ELSE "answered"
      BY <2>2, ThreadMoves DEF Returns
    <3>2. /\ engine'[r] = [engine[r] EXCEPT !.once = "done"]
          /\ \A p \in Backends : p # r => engine'[p] = engine[p]
      BY <1>p, <2>2 DEF OnceEngine
    <3>3. /\ engine'[r].once = "done" /\ engine'[r].cache = engine[r].cache
          /\ engine'[r].config = engine[r].config /\ engine'[r].threads = engine[r].threads
          /\ engine'[r].failures = engine[r].failures
      BY <1>p, <3>2 DEF EngineStates
    <3>4. EngineInv(r)'
      <4>1. \A i \in Indices : /\ engine[r].threads[i] \in Nat /\ engine[r].failures \in Nat
                               /\ engine[r].threads[i] <= engine[r].failures
        BY <1>p, <2>2 DEF EngineInv, EngineStates
      <4>2. \A i \in Indices : ~(i <= WorkersOf(r)')
        BY <2>2, <3>3, StartupAssumption DEF WorkersOf, Indices
      <4> QED BY <1>1, <1>p, <1>c, <3>3, <4>1, <4>2 DEF EngineInv, Bootstrap
    <3>5. OneRuns(r)'
      <4>1. ~Migrating(t)' BY <3>1 DEF Migrating
      <4>2. \A u \in Threads : /\ thread'[u].bootstrapping <=> thread[u].bootstrapping
                               /\ Migrating(u)' <=> Migrating(u)
        BY <1>m, <2>0, <3>1, <4>1 DEF Others, Migrating
      <4> QED BY <1>1, <1>p, <2>2, <3>3, <4>2, RunsAsBefore DEF Bootstrap, Migrating
    <3>6. ThreadInv(t)' BY <3>1 DEF ThreadInv
    <3>7. t \in Handlers => HandlerInv(t)'
      BY <1>p, <3>1, <3>3 DEF HandlerInv, Resting, Others
    <3> QED BY <1>1, <1>p, <1>0, <3>1, <3>2, <3>3, <3>4, <3>5, <3>6, <3>7, WorkKeeps
            DEF Bootstrap, BootTypeOK, Inside
  <2>3. CASE /\ engine[r].once = "open" /\ WorkersOf(r) > 0
             /\ thread' = [thread EXCEPT ![t] = [@ EXCEPT !.bootstrapping = TRUE,
                               !.pc = IF process[r].redis THEN "ensure" ELSE "spawn"]]
             /\ OnceEngine(r, "running")
    <3>1. /\ thread \in [Threads -> ThreadStates]
          /\ thread'[t] = [thread[t] EXCEPT !.bootstrapping = TRUE,
                               !.pc = IF process[r].redis THEN "ensure" ELSE "spawn"]
          /\ Others(t)
      BY <2>3 DEF BootTypeOK, Others
    <3>2. thread'[t].bootstrapping = TRUE /\ thread'[t].pc \in {"ensure", "spawn"}
      BY <1>p, <3>1 DEF ThreadStates
    <3>3. /\ engine'[r] = [engine[r] EXCEPT !.once = "running"]
          /\ \A p \in Backends : p # r => engine'[p] = engine[p]
      BY <1>p, <2>3 DEF OnceEngine
    <3>4. /\ engine'[r].once = "running" /\ engine'[r].cache = engine[r].cache
          /\ engine'[r].config = engine[r].config /\ engine'[r].threads = engine[r].threads
          /\ engine'[r].failures = engine[r].failures
      BY <1>p, <3>3 DEF EngineStates
    <3>5. EngineInv(r)' BY <1>1, <1>p, <1>c, <2>3, <3>4 DEF EngineInv, Bootstrap
    <3>6. OneRuns(r)'
      <4>1. \A u \in Threads : Process[u] = r => ~thread[u].bootstrapping
        BY <1>p, <2>3 DEF OneRuns
      <4>2. \A u \in Threads : Process[u] = r /\ thread'[u].bootstrapping <=> u = t
        BY <1>p, <3>1, <3>2, <4>1 DEF Others
      <4>3. \A u \in Threads : Migrating(u)' <=> Migrating(u)
        BY <1>m, <3>1, <3>2 DEF Others, Migrating
      <4> QED BY <1>1, <1>p, <3>4, <4>2, <4>3 DEF OneRuns, Bootstrap
    <3>7. ThreadInv(t)' BY <3>2 DEF ThreadInv, Inside
    <3>8. t \in Handlers => HandlerInv(t)'
      BY <1>p, <3>1, <3>2 DEF HandlerInv, Inside, Resting, Others
    <3> QED BY <1>1, <1>p, <1>0, <2>3, <3>1, <3>2, <3>3, <3>4, <3>5, <3>6, <3>7, <3>8, WorkKeeps
            DEF Bootstrap, BootTypeOK, Inside
  <2> QED BY <1>1, <2>1, <2>2, <2>3 DEF Bootstrap
<1>2. ASSUME NEW m \in Nat, NEW pc \in {"minio", "answered", "refused"},
             NEW once \in {"open", "done"}, NEW f \in Nat,
             At(t, "spawn"), Leaves(t, pc),
             engine' = [engine EXCEPT ![r] = [@ EXCEPT !.once = once, !.threads = Spawned(r, m),
                                                       !.failures = f]],
             f >= engine[r].failures,
             once = "done" => m = WorkersOf(r),
             once = "open" => f = engine[r].failures + 1,
             t \in Backends => pc = "minio", t \notin Backends => pc # "minio",
             pc = "answered" => once = "done",
             UNCHANGED <<settings, schema, process, table, changes>>
      PROVE  StartupInv'
  <2>1. thread[t].pc = "spawn" /\ thread[t].bootstrapping BY <1>2, <1>p DEF At, ThreadInv
  <2>2. engine[r].once = "running" BY <1>p, <2>1 DEF OneRuns
  <2>3. /\ Others(t) /\ thread'[t].pc = pc /\ thread'[t].bootstrapping = FALSE
    BY <1>2, ThreadMoves
  <2>4. /\ engine'[r] = [engine[r] EXCEPT !.once = once, !.threads = Spawned(r, m), !.failures = f]
        /\ \A p \in Backends : p # r => engine'[p] = engine[p]
    BY <1>p, <1>2
  <2>5. /\ engine'[r].once = once /\ engine'[r].cache = engine[r].cache
        /\ engine'[r].config = engine[r].config /\ engine'[r].threads = Spawned(r, m)
        /\ engine'[r].failures = f
    BY <1>p, <2>4 DEF EngineStates
  <2>6. EngineInv(r)'
    <3>1. WorkersOf(r)' = WorkersOf(r) BY <2>5 DEF WorkersOf
    <3>2. \A i \in Indices : /\ i \in Nat /\ engine[r].threads[i] \in Nat
                             /\ engine[r].threads[i] <= engine[r].failures
      BY <1>p, <2>2, StartupAssumption DEF EngineInv, EngineStates, Indices
    <3>3. engine[r].failures \in Nat BY <1>p DEF EngineStates
    <3>4. \A i \in Indices : Spawned(r, m)[i] = engine[r].threads[i] + (IF i <= m THEN 1 ELSE 0)
      BY DEF Spawned
    <3>5. once = "done" => \A i \in Indices : i <= WorkersOf(r) => Spawned(r, m)[i] > 0
      BY <1>2, <3>2, <3>4
    <3>6. \A i \in Indices : Spawned(r, m)[i] <= f + (IF once = "done" THEN 1 ELSE 0)
      BY <1>2, <3>2, <3>3, <3>4
    <3> QED BY <1>2, <1>p, <1>c, <2>5, <3>1, <3>5, <3>6 DEF EngineInv
  <2>7. OneRuns(r)'
    <3>1. \A u \in Threads : Process[u] = r => ~thread'[u].bootstrapping
      BY <1>p, <2>1, <2>3 DEF Others, OneRuns
    <3>2. \A u \in Threads : Migrating(u)' <=> Migrating(u)
      BY <1>m, <2>3 DEF Others, Migrating
    <3> QED BY <1>2, <1>p, <2>5, <3>1, <3>2 DEF OneRuns
  <2>8. ThreadInv(t)' BY <2>3 DEF ThreadInv
  <2>9. t \in Handlers => HandlerInv(t)'
    <3>1. t \in Handlers => thread'[r].pc = "listening" BY <1>p, <2>3 DEF Others
    <3> QED BY <1>2, <1>p, <2>3, <2>5, <3>1, Processes DEF HandlerInv, Resting
  <2>10. engine'[r].failures > 0 \/ engine'[r].once = "done"
    <3>1. engine[r].failures \in Nat BY <1>p DEF EngineStates
    <3> QED BY <1>2, <2>5, <3>1
  <2>11. engine[r].failures > 0 => engine'[r].failures > 0
    <3>1. engine[r].failures \in Nat BY <1>p DEF EngineStates
    <3> QED BY <1>2, <2>5, <3>1
  <2> QED
    BY <1>2, <1>p, <1>0, <2>2, <2>3, <2>4, <2>5, <2>6, <2>7, <2>8, <2>9, <2>10, <2>11, WorkKeeps
          DEF BootTypeOK, Inside
<1>3. CASE Spawn(t)
  <2> DEFINE pc == IF t \in Backends THEN "minio" ELSE "answered"
  <2>1. WorkersOf(r) \in Nat BY StartupAssumption DEF WorkersOf
  <2>2. engine[r].failures \in Nat BY <1>p DEF EngineStates
  <2>3. [engine[r] EXCEPT !.once = "done", !.threads = Spawned(r, WorkersOf(r))]
        = [engine[r] EXCEPT !.once = "done", !.threads = Spawned(r, WorkersOf(r)),
                            !.failures = engine[r].failures]
    BY <1>p DEF EngineStates
  <2>4. engine' = [engine EXCEPT ![r] = [engine[r] EXCEPT
                      !.once = "done", !.threads = Spawned(r, WorkersOf(r)),
                      !.failures = engine[r].failures]]
    BY <1>3, <2>3 DEF Spawn, AllSpawned
  <2>5. pc \in {"minio", "answered", "refused"} /\ Leaves(t, pc) BY <1>3 DEF Spawn, Returns
  <2>6. engine[r].failures >= engine[r].failures BY <2>2
  <2>7. t \in Backends => pc = "minio" OBVIOUS
  <2>8. t \notin Backends => pc # "minio" OBVIOUS
  <2> HIDE DEF pc
  <2> QED BY <1>2, <1>3, <2>1, <2>2, <2>4, <2>5, <2>6, <2>7, <2>8 DEF Spawn
<1>4. CASE SpawnFails(t, n)
  <2> DEFINE pc == IF t \in Backends THEN "minio" ELSE "refused"
  <2>1. engine[r].failures \in Nat BY <1>p DEF EngineStates
  <2>2. engine[r].failures + 1 \in Nat /\ engine[r].failures + 1 >= engine[r].failures BY <2>1
  <2>3. pc \in {"minio", "answered", "refused"} /\ Leaves(t, pc) BY <1>4 DEF SpawnFails
  <2> QED BY <1>2, <1>4, <2>2, <2>3 DEF SpawnFails, Reopened
<1> QED BY <1>1, <1>3, <1>4

\* A step of a thread in ensureTable: it alone runs that call_once, or nobody does.
LEMMA TableStepKeeps ==
    ASSUME BootTypeOK, StartupInv, NEW t \in Threads, thread[t].pc \in {"ensure", "look", "alter"},
           Others(t), thread'[t].bootstrapping = thread[t].bootstrapping,
           thread'[t].pc \in {"look", "alter", "spawn", "insert", "refused"},
           thread'[t].pc = "spawn" => thread[t].bootstrapping,
           thread'[t].pc \in {"insert", "refused"} => ~thread[t].bootstrapping,
           thread'[t].pc = "insert" => schema' = Objects,
           table[Process[t]] = "running" => Migrating(t),
           table'[Process[t]] = "running" <=> thread'[t].pc \in {"look", "alter"},
           table'[Process[t]] = "done" => schema' = Objects,
           \A p \in Backends : p # Process[t] => table'[p] = table[p],
           UNCHANGED <<settings, process, engine>>,
           schema \subseteq schema', schema' \subseteq Objects, ThreadInv(t)'
    PROVE  StartupInv'
<1> DEFINE r == Process[t]
<1>p. /\ r \in Backends /\ r \in Threads
      /\ t \in Backends => r = t /\ t \notin Handlers
      /\ t \notin Backends => t \in Handlers /\ r = Server[t] /\ r # t /\ thread[r].pc = "listening"
      /\ EngineInv(r) /\ OneRuns(r) /\ ThreadInv(t)
      /\ thread[t].bootstrapping \in BOOLEAN
  BY Working DEF Inside, ThreadStates
<1>b. t \in Backends => thread[t].bootstrapping
  BY DEF StartupInv, MainInv, Inside
<1>1. EngineInv(r)' BY <1>p DEF EngineInv, WorkersOf
<1>2. OneRuns(r)'
  <2>1. \A u \in Threads : thread'[u].bootstrapping <=> thread[u].bootstrapping
    BY DEF Others
  <2>2. \A u \in Threads : Process[u] = r /\ Migrating(u) => u = t
    BY <1>p DEF OneRuns
  <2>3. \A u \in Threads : Process[u] = r /\ Migrating(u)' => u = t
    BY <2>2 DEF Others, Migrating
  <2>4. Migrating(t)' <=> table'[r] = "running" BY DEF Migrating
  <2> QED BY <1>p, <2>1, <2>3, <2>4 DEF OneRuns
<1>3. t \in Handlers => HandlerInv(t)'
  <2>1. t \in Handlers => thread'[r] = thread[r] /\ r = Server[t] /\ thread[r].pc = "listening"
    BY <1>p, Processes DEF Others
  <2> QED BY <2>1 DEF HandlerInv, Resting, Inside
<1>4. t \in Backends => thread'[t].pc \in Inside /\ thread'[t].bootstrapping
  BY <1>b DEF Inside
<1>5. thread[t].pc \in Inside \cup {"bootstrap", "insert"} BY DEF Inside
<1> QED BY <1>p, <1>1, <1>2, <1>3, <1>4, <1>5, WorkKeeps DEF BootTypeOK, Inside

LEMMA TableKeeps ==
    ASSUME BootTypeOK, StartupInv, NEW t \in Threads,
           \/ EnsureDone(t) \/ CreateTable(t) \/ Look(t)
           \/ Alter(t) \/ Migrated(t) \/ EnsureFails(t)
    PROVE  StartupInv'
<1> DEFINE r == Process[t]
<1>0. thread[t].pc \in {"ensure", "look", "alter"}
  BY DEF EnsureDone, CreateTable, Look, Alter, Migrated, EnsureFails, At
<1>p. /\ r \in Backends /\ table \in [Backends -> {"open", "running", "done"}]
      /\ EngineInv(r) /\ OneRuns(r) /\ ThreadInv(t)
      /\ thread[t] \in ThreadStates /\ thread[t].at \in Nat /\ thread[t].bootstrapping \in BOOLEAN
      /\ schema \subseteq Objects /\ Migrations \in Nat
  BY <1>0, Working, StartupAssumption DEF Inside, BootTypeOK, ThreadStates
<1>m. /\ thread[t].pc \in {"look", "alter"} => table[r] = "running" /\ Migrating(t)
      /\ thread[t].pc = "alter" => thread[t].at \in Objects /\ thread[t].at <= Migrations
  BY <1>p DEF OneRuns, Migrating, ThreadInv, Objects
<1>r. /\ EnsureReturns(t) => /\ Others(t) /\ thread'[t].bootstrapping = thread[t].bootstrapping
                             /\ thread'[t].pc = IF thread[t].bootstrapping THEN "spawn" ELSE "insert"
      /\ EnsureThrows(t) => /\ Others(t) /\ thread'[t].bootstrapping = thread[t].bootstrapping
                            /\ thread'[t].pc = IF thread[t].bootstrapping THEN "spawn" ELSE "refused"
  BY ThreadMoves DEF EnsureReturns, EnsureThrows
<1>o. \A once : OnceTable(r, once) => /\ table'[r] = once
                                     /\ \A p \in Backends : p # r => table'[p] = table[p]
  BY <1>p DEF OnceTable
<1>1. CASE EnsureDone(t)
  <2>1. /\ EnsureReturns(t) /\ table[r] = "done" /\ thread[t].pc = "ensure"
        /\ UNCHANGED <<settings, schema, process, engine, table>>
    BY <1>1 DEF EnsureDone, At
  <2>2. schema = Objects BY <1>p, <2>1 DEF EngineInv
  <2>3. ThreadInv(t)' BY <1>r, <2>1, <1>p DEF ThreadInv, Inside
  <2> QED BY <1>0, <1>p, <1>r, <2>1, <2>2, <2>3, TableStepKeeps
<1>2. CASE CreateTable(t)
  <2>1. /\ thread[t].pc = "ensure" /\ table[r] = "open" /\ OnceTable(r, "running")
        /\ schema' = IF 0 \in schema THEN schema ELSE Objects
        /\ UNCHANGED <<settings, process, engine>>
    BY <1>2 DEF CreateTable, At
  <2>2. /\ Others(t) /\ thread'[t].pc = "look" /\ thread'[t].at = 1
        /\ thread'[t].bootstrapping = thread[t].bootstrapping
    BY <1>2, ThreadMoves DEF CreateTable
  <2>3. 0 \in schema' /\ schema \subseteq schema' /\ schema' \subseteq Objects
    <3>1. 0 \in Objects BY <1>p DEF Objects
    <3> QED BY <1>p, <2>1, <3>1
  <2>4. ThreadInv(t)'
    <3>1. 0..(thread'[t].at - 1) \subseteq schema' BY <2>2, <2>3
    <3>2. thread'[t].at \in 1..(Migrations + 1) BY <1>p, <2>2
    <3> QED BY <1>p, <2>2, <3>1, <3>2 DEF ThreadInv, Inside
  <2> QED BY <1>0, <1>p, <1>o, <2>1, <2>2, <2>3, <2>4, TableStepKeeps
<1>3. CASE Look(t)
  <2>1. /\ thread[t].pc = "look" /\ thread[t].at <= Migrations
        /\ UNCHANGED <<settings, schema, process, engine, table>>
    BY <1>3 DEF Look, At
  <2>2. /\ thread[t].at \in 1..(Migrations + 1) /\ 0..(thread[t].at - 1) \subseteq schema
    BY <1>p, <2>1 DEF ThreadInv
  <2>3. /\ Others(t) /\ thread'[t].bootstrapping = thread[t].bootstrapping
        /\ \/ /\ thread[t].at \in schema /\ thread'[t].pc = "look" /\ thread'[t].at = thread[t].at + 1
           \/ thread'[t].pc = "alter" /\ thread'[t].at = thread[t].at
    <3> DEFINE n == thread[t].at + 1
    <3>1. \/ thread[t].at \in schema /\ Round(t, "look", n)
          \/ Proceed(t, "alter")
      BY <1>3 DEF Look
    <3> HIDE DEF n
    <3>2. /\ Others(t) /\ thread'[t].bootstrapping = thread[t].bootstrapping
          /\ \/ thread[t].at \in schema /\ thread'[t].pc = "look" /\ thread'[t].at = n
             \/ thread'[t].pc = "alter" /\ thread'[t].at = thread[t].at
      BY <3>1, ThreadMoves
    <3> QED BY <3>2 DEF n
  <2>4. ThreadInv(t)'
    <3>1. CASE thread[t].at \in schema /\ thread'[t].pc = "look" /\ thread'[t].at = thread[t].at + 1
      <4>1. 0..(thread'[t].at - 1) \subseteq schema BY <1>p, <2>2, <3>1
      <4>2. thread'[t].at \in 1..(Migrations + 1) BY <1>p, <2>1, <2>2, <3>1
      <4> QED BY <2>1, <2>3, <3>1, <4>1, <4>2 DEF ThreadInv, Inside
    <3>2. CASE thread'[t].pc = "alter" /\ thread'[t].at = thread[t].at
      BY <2>1, <2>2, <2>3, <3>2 DEF ThreadInv, Inside
    <3> QED BY <2>3, <3>1, <3>2
  <2>5. thread'[t].pc \in {"look", "alter"} BY <2>3
  <2>6. table[r] = "running" /\ Migrating(t) BY <1>m, <2>1
  <2> QED BY <1>0, <1>p, <2>1, <2>3, <2>4, <2>5, <2>6, TableStepKeeps
<1>4. CASE Alter(t)
  <2>1. /\ thread[t].pc = "alter" /\ schema' = schema \cup {thread[t].at}
        /\ UNCHANGED <<settings, process, engine, table>>
    BY <1>4 DEF Alter, Added, At
  <2>2. /\ thread[t].at \in 1..(Migrations + 1) /\ 0..(thread[t].at - 1) \subseteq schema
        /\ thread[t].at <= Migrations
    BY <1>p, <2>1 DEF ThreadInv
  <2>3. /\ Others(t) /\ thread'[t].bootstrapping = thread[t].bootstrapping
        /\ thread'[t].pc = "look" /\ thread'[t].at = thread[t].at + 1
    <3>1. Round(t, "look", thread[t].at + 1) BY <1>4 DEF Alter
    <3>2. thread \in [Threads -> ThreadStates] BY DEF BootTypeOK
    <3> QED BY <3>1, <3>2 DEF Round, Others, ThreadStates
  <2>4. ThreadInv(t)'
    <3>1. 0..(thread'[t].at - 1) \subseteq schema' BY <1>p, <2>1, <2>2, <2>3
    <3>2. thread'[t].at \in 1..(Migrations + 1) BY <1>p, <2>2, <2>3
    <3> QED BY <2>3, <3>1, <3>2 DEF ThreadInv, Inside
  <2>5. schema \subseteq schema' /\ schema' \subseteq Objects BY <1>m, <1>p, <2>1
  <2>6. table[r] = "running" /\ Migrating(t) BY <1>m, <2>1
  <2> QED BY <1>0, <1>p, <2>1, <2>3, <2>4, <2>5, <2>6, TableStepKeeps
<1>5. CASE Migrated(t)
  <2>1. /\ thread[t].pc = "look" /\ thread[t].at > Migrations
        /\ OnceTable(r, "done") /\ EnsureReturns(t)
        /\ UNCHANGED <<settings, schema, process, engine>>
    BY <1>5 DEF Migrated, At
  <2>2. schema = Objects
    <3>1. thread[t].at \in 1..(Migrations + 1) /\ 0..(thread[t].at - 1) \subseteq schema
      BY <1>p, <2>1 DEF ThreadInv
    <3>2. thread[t].at - 1 = Migrations BY <1>p, <2>1, <3>1
    <3> QED BY <1>p, <3>1, <3>2 DEF Objects
  <2>3. ThreadInv(t)' BY <1>r, <2>1, <1>p DEF ThreadInv, Inside
  <2>4. table[r] = "running" /\ Migrating(t) BY <1>m, <2>1
  <2> QED BY <1>0, <1>p, <1>r, <1>o, <2>1, <2>2, <2>3, <2>4, TableStepKeeps
<1>6. CASE EnsureFails(t)
  <2>1. /\ OnceTable(r, "open") /\ EnsureThrows(t) /\ UNCHANGED <<settings, process, engine>>
        /\ thread[t].pc = "ensure" => table[r] = "open"
    BY <1>6 DEF EnsureFails, Reopened, At
  <2>2. schema \subseteq schema' /\ schema' \subseteq Objects
    BY <1>6, <1>m, <1>p DEF EnsureFails, Added, At
  <2>3. ThreadInv(t)' BY <1>r, <2>1, <1>p DEF ThreadInv, Inside
  <2>4. table[r] = "running" => Migrating(t) BY <1>0, <1>m, <2>1
  <2> QED BY <1>0, <1>p, <1>r, <1>o, <2>1, <2>2, <2>3, <2>4, TableStepKeeps
<1> QED BY <1>1, <1>2, <1>3, <1>4, <1>5, <1>6

\* What cachedConfig loads is what main has accepted, or the settings have changed.
LEMMA CachingKeeps ==
    ASSUME BootTypeOK, StartupInv, NEW r \in Backends, thread[r].pc \notin Early,
           process' = [process EXCEPT ![r] = [@ EXCEPT !.cached = cachedConfig(r)]],
           settings' = settings, thread'[r] = thread[r]
    PROVE  /\ SecretInv(r)'
           /\ process'[r].missed = process[r].missed /\ process'[r].cache = process[r].cache
           /\ \A p \in Backends : p # r => process'[p] = process[p]
<1>1. /\ process[r] \in ProcessStates /\ SecretInv(r)
      /\ process'[r] = [process[r] EXCEPT !.cached = cachedConfig(r)]
      /\ \A p \in Backends : p # r => process'[p] = process[p]
  BY DEF BootTypeOK, StartupInv
<1>2. /\ process'[r].loaded = process[r].loaded /\ process'[r].cached = cachedConfig(r)
      /\ process'[r].changed = process[r].changed /\ process'[r].missed = process[r].missed
      /\ process'[r].cache = process[r].cache
  BY <1>1 DEF ProcessStates
<1>3. SecretInv(r)'
  BY <1>1, <1>2 DEF SecretInv, cachedConfig, canLoad, loadConfig, insecureSecret, Early,
                    readEnvOrSecretFile, overrideSecretString
<1> QED BY <1>1, <1>2, <1>3

LEMMA RequestKeeps ==
    ASSUME BootTypeOK, StartupInv, NEW h \in Handlers, Authenticate(h) \/ RequestStep(h)
    PROVE  StartupInv'
<1> DEFINE r == Server[h]
<1>p. /\ h \in Threads /\ h \notin Backends /\ Process[h] = r /\ r \in Backends /\ r \in Threads
      /\ r # h /\ engine[r] \in EngineStates /\ thread[h] \in ThreadStates
      /\ MainInv(r) /\ EngineInv(r) /\ OneRuns(r) /\ ThreadInv(h) /\ HandlerInv(h)
  BY Processes DEF BootTypeOK, StartupInv
<1>1. CASE Authenticate(h)
  <2>1. /\ thread[h].pc \in Resting /\ thread[r].pc = "listening"
        /\ UNCHANGED <<settings, schema, engine, table>>
    BY <1>1 DEF Authenticate, At
  <2>2. /\ Others(h) /\ thread'[h].bootstrapping = thread[h].bootstrapping
        /\ thread'[h].pc \in {"refused", "ensure"}
    BY <1>1, <1>p, ThreadMoves DEF Authenticate
  <2>3. thread'[r] = thread[r] BY <1>p, <2>2 DEF Others
  <2>4. /\ SecretInv(r)'
        /\ process'[r].missed = process[r].missed /\ process'[r].cache = process[r].cache
        /\ \A p \in Backends : p # r => process'[p] = process[p]
    BY <1>1, <1>p, <2>1, <2>3, CachingKeeps DEF Authenticate, Early
  <2>5. MainInv(r)' BY <1>p, <2>1, <2>3, <2>4 DEF MainInv, Early, Inside
  <2>6. EngineInv(r)' BY <1>p, <2>1 DEF EngineInv, WorkersOf
  <2>7. OneRuns(r)'
    <3>1. ~Migrating(h) /\ ~Migrating(h)' BY <2>1, <2>2 DEF Migrating, Resting
    <3>2. \A u \in Threads : /\ thread'[u].bootstrapping <=> thread[u].bootstrapping
                             /\ Migrating(u)' <=> Migrating(u)
      BY <2>2, <3>1 DEF Others, Migrating
    <3> QED BY <1>p, <2>1, <3>2, RunsAsBefore DEF Migrating
  <2>8. ~thread[h].bootstrapping BY <1>p, <2>1 DEF ThreadInv, Inside, Resting
  <2>9. ThreadInv(h)' BY <2>2, <2>8 DEF ThreadInv, Inside
  <2>10. HandlerInv(h)' BY <2>1, <2>2, <2>3 DEF HandlerInv, Resting, Inside
  <2>11. Alone(h) BY <1>p, <2>1, <2>2, <2>4 DEF Alone, BootTypeOK
  <2> QED BY <1>p, <2>4, <2>5, <2>6, <2>7, <2>9, <2>10, <2>11, StepKeeps
<1>2. ASSUME Insert(h) \/ InsertFails(h) PROVE StartupInv'
  <2>0. /\ thread[h].pc = "insert" /\ UNCHANGED <<settings, schema, process, table>>
        /\ thread[r].pc = "listening" /\ schema = Objects
    BY <1>2, <1>p DEF Insert, InsertFails, At, HandlerInv
  <2>1. /\ Others(h) /\ thread'[h].bootstrapping = thread[h].bootstrapping
        /\ thread'[h].pc = IF Insert(h) THEN "bootstrap" ELSE "refused"
    BY <1>2, <1>p, ThreadMoves DEF Insert, InsertFails
  <2>2. /\ engine[r].config # "none" => engine'[r].config = engine[r].config
        /\ Insert(h) => engine'[r].config # "none"
        /\ engine'[r].cache = engine[r].cache /\ engine'[r].once = engine[r].once
        /\ engine'[r].threads = engine[r].threads /\ engine'[r].failures = engine[r].failures
        /\ \A p \in Backends : p # r => engine'[p] = engine[p]
    <3>1. CASE Insert(h)
      <4>1. /\ engine'[r] = [engine[r] EXCEPT !.config = Constructed(r)]
            /\ \A p \in Backends : p # r => engine'[p] = engine[p]
        BY <3>1, <1>p DEF Insert, BootTypeOK
      <4>2. /\ Constructed(r) # "none"
            /\ engine[r].config # "none" => Constructed(r) = engine[r].config
        BY DEF Constructed
      <4> QED BY <1>p, <4>1, <4>2 DEF EngineStates
    <3>2. CASE ~Insert(h) BY <1>2, <3>2 DEF InsertFails
    <3> QED BY <3>1, <3>2
  <2>3. EngineInv(r)'
    <3>1. engine[r].once = "done" => WorkersOf(r)' = WorkersOf(r)
      BY <1>p, <2>2 DEF EngineInv, WorkersOf
    <3> QED BY <1>p, <2>0, <2>2, <3>1 DEF EngineInv
  <2>4. OneRuns(r)'
    <3>1. ~Migrating(h) /\ ~Migrating(h)' BY <2>0, <2>1 DEF Migrating
    <3>2. \A u \in Threads : /\ thread'[u].bootstrapping <=> thread[u].bootstrapping
                             /\ Migrating(u)' <=> Migrating(u)
      BY <2>1, <3>1 DEF Others, Migrating
    <3> QED BY <1>p, <2>0, <2>2, <3>2, RunsAsBefore DEF Migrating
  <2>5. ~thread[h].bootstrapping BY <1>p, <2>0 DEF ThreadInv, Inside
  <2>6. ThreadInv(h)' BY <2>1, <2>5 DEF ThreadInv
  <2>7. HandlerInv(h)'
    <3>1. thread'[r] = thread[r] BY <1>p, <2>1 DEF Others
    <3> QED BY <2>0, <2>1, <2>2, <3>1 DEF HandlerInv, Resting
  <2> QED BY <1>p, <2>0, <2>1, <2>2, <2>3, <2>4, <2>6, <2>7, WorkKeeps DEF BootTypeOK
<1> QED BY <1>1, <1>2 DEF RequestStep

LEMMA OtherKeeps ==
    ASSUME BootTypeOK, StartupInv, NEW r \in Backends, WorkerReadsConfig(r) \/ ProcessEnds(r)
    PROVE  StartupInv'
<1>1. CASE WorkerReadsConfig(r)
  <2>1. /\ UNCHANGED <<settings, schema, engine, table, thread>>
        /\ \E i \in Indices : engine[r].threads[i] > 0
    BY <1>1 DEF WorkerReadsConfig
  <2>2. MainInv(r) /\ EngineInv(r) /\ OneRuns(r) BY DEF StartupInv
  <2>3. thread[r].pc \notin Early BY <2>1, <2>2 DEF MainInv, NewEngine
  <2>4. /\ SecretInv(r)'
        /\ process'[r].missed = process[r].missed /\ process'[r].cache = process[r].cache
        /\ \A p \in Backends : p # r => process'[p] = process[p]
    BY <1>1, <2>1, <2>3, CachingKeeps DEF WorkerReadsConfig
  <2>5. MainInv(r)' BY <2>1, <2>2, <2>3, <2>4 DEF MainInv
  <2>6. EngineInv(r)' BY <2>1, <2>2 DEF EngineInv, WorkersOf
  <2>7. OneRuns(r)' BY <2>1, <2>2 DEF OneRuns, Migrating
  <2>8. Apart(r) BY <2>1, <2>4 DEF Apart, BootTypeOK
  <2>9. /\ \A t \in Threads : ThreadInv(t)'
        /\ \A h \in Handlers : HandlerInv(h)'
    BY <2>1 DEF StartupInv, ThreadInv, HandlerInv
  <2> QED BY <2>4, <2>5, <2>6, <2>7, <2>8, <2>9, OthersKeep DEF StartupInv
<1>2. CASE ProcessEnds(r)
  BY <1>2, ExitsKeeps DEF ProcessEnds
<1> QED BY <1>1, <1>2

LEMMA ChangeKeeps == ASSUME BootTypeOK, StartupInv, NEW s \in Settings, Change(s) PROVE StartupInv'
<1>1. UNCHANGED <<schema, engine, table, thread>> BY DEF Change
<1>2. ASSUME NEW p \in Backends
      PROVE  /\ process'[p].loaded = process[p].loaded /\ process'[p].cached = process[p].cached
             /\ process'[p].missed = process[p].missed /\ process'[p].cache = process[p].cache
             /\ process'[p].changed <=> \/ process[p].changed
                                        \/ process[p].loaded # Unset /\ process[p].cached = Unset
  <2>1. process[p] \in ProcessStates BY DEF BootTypeOK
  <2> QED BY <2>1 DEF Change, ProcessStates
<1>3. ASSUME NEW p \in Backends PROVE MainInv(p)' /\ SecretInv(p)' /\ EngineInv(p)' /\ OneRuns(p)'
  <2>1. MainInv(p) /\ SecretInv(p) /\ EngineInv(p) /\ OneRuns(p) BY DEF StartupInv
  <2>2. MainInv(p)' BY <1>1, <1>2, <2>1 DEF MainInv, NewEngine
  <2>3. SecretInv(p)' BY <1>1, <1>2, <2>1 DEF SecretInv, insecureSecret
  <2>4. EngineInv(p)' BY <1>1, <2>1 DEF EngineInv, WorkersOf
  <2>5. OneRuns(p)' BY <1>1, <2>1 DEF OneRuns, Migrating
  <2> QED BY <2>2, <2>3, <2>4, <2>5
<1>4. /\ \A t \in Threads : ThreadInv(t)'
      /\ \A h \in Handlers : HandlerInv(h)'
  BY <1>1 DEF StartupInv, ThreadInv, HandlerInv
<1> QED BY <1>3, <1>4 DEF StartupInv

LEMMA StartupInit == BootInit => BootTypeOK /\ StartupInv
<1> SUFFICES ASSUME BootInit PROVE BootTypeOK /\ StartupInv
  OBVIOUS
<1>1. /\ \A r \in Backends : /\ process[r] = NewProcess /\ engine[r] = NewEngine
                             /\ table[r] = "open" /\ thread[r] = Idle("exited")
      /\ \A h \in Handlers : thread[h] = Idle("idle")
      /\ \A t \in Threads : thread[t].bootstrapping = FALSE /\ thread[t].pc \in {"exited", "idle"}
  BY Processes DEF BootInit, Idle
<1>2. BootTypeOK
  <2>1. schema \subseteq Objects BY StartupAssumption DEF BootInit, Objects
  <2>2. thread \in [Threads -> ThreadStates] BY NewIsTyped DEF BootInit
  <2> QED BY <2>1, <2>2, NewIsTyped, StartupAssumption DEF BootInit, BootTypeOK
<1>3. ASSUME NEW r \in Backends PROVE MainInv(r) /\ SecretInv(r) /\ EngineInv(r) /\ OneRuns(r)
  <2>1. /\ NewEngine.config = "none" /\ NewEngine.once = "open" /\ NewEngine.failures = 0
        /\ \A i \in Indices : NewEngine.threads[i] = 0
    BY DEF NewEngine
  <2>2. MainInv(r) BY <1>1 DEF MainInv, Early, Inside, Idle, NewProcess
  <2>3. SecretInv(r) BY <1>1 DEF SecretInv, Idle, NewProcess
  <2>4. EngineInv(r) BY <1>1, <2>1 DEF EngineInv
  <2>5. OneRuns(r) BY <1>1, <2>1 DEF OneRuns, Migrating
  <2> QED BY <2>2, <2>3, <2>4, <2>5
<1>4. ASSUME NEW t \in Threads PROVE ThreadInv(t)
  BY <1>1 DEF ThreadInv
<1>5. ASSUME NEW h \in Handlers PROVE HandlerInv(h)
  BY <1>1 DEF HandlerInv, Resting, Idle
<1> QED BY <1>2, <1>3, <1>4, <1>5 DEF StartupInv

LEMMA StartupStep == BootTypeOK /\ StartupInv /\ [BootNext]_bootVars => BootTypeOK' /\ StartupInv'
<1> SUFFICES ASSUME BootTypeOK, StartupInv, [BootNext]_bootVars PROVE BootTypeOK' /\ StartupInv'
  OBVIOUS
<1>a. AltersKnown BY DEF AltersKnown, StartupInv, ThreadInv, At
<1>1. ASSUME NEW r \in Backends, Start(r) \/ MainStep(r) PROVE BootTypeOK' /\ StartupInv'
  BY <1>1, MainTyped, MainKeeps
<1>2. ASSUME NEW r \in Backends, WorkerReadsConfig(r) \/ ProcessEnds(r)
      PROVE  BootTypeOK' /\ StartupInv'
  BY <1>2, OtherTyped, OtherKeeps
<1>3. ASSUME NEW t \in Threads, ThreadStep(t) PROVE BootTypeOK' /\ StartupInv'
  <2>1. CASE Bootstrap(t) \/ Spawn(t)
    <3> 0 \in Nat OBVIOUS
    <3> QED BY <2>1, EngineStepTyped, EngineKeeps
  <2>2. ASSUME NEW n \in 0..(WorkerCount + 1), SpawnFails(t, n) PROVE BootTypeOK' /\ StartupInv'
    <3> n \in Nat BY StartupAssumption
    <3> QED BY <2>2, EngineStepTyped, EngineKeeps
  <2>3. CASE \/ EnsureDone(t) \/ CreateTable(t) \/ Look(t)
             \/ Alter(t) \/ Migrated(t) \/ EnsureFails(t)
    BY <1>a, <2>3, TableStepTyped, TableKeeps
  <2> QED BY <1>3, <2>1, <2>2, <2>3 DEF ThreadStep
<1>4. ASSUME NEW h \in Handlers, Authenticate(h) \/ RequestStep(h) PROVE BootTypeOK' /\ StartupInv'
  BY <1>4, RequestTyped, RequestKeeps
<1>5. ASSUME NEW s \in Settings, Change(s) PROVE BootTypeOK' /\ StartupInv'
  BY <1>5, ChangeTyped, ChangeKeeps
<1>6. CASE UNCHANGED bootVars
  <2>1. BootTypeOK' BY <1>6 DEF bootVars, BootTypeOK
  <2>2. ASSUME NEW r \in Backends PROVE MainInv(r)' /\ SecretInv(r)' /\ EngineInv(r)' /\ OneRuns(r)'
    <3>1. MainInv(r) /\ SecretInv(r) /\ EngineInv(r) /\ OneRuns(r) BY DEF StartupInv
    <3>2. MainInv(r)' BY <1>6, <3>1 DEF bootVars, MainInv, NewEngine
    <3>3. SecretInv(r)'
      BY <1>6, <3>1 DEF bootVars, SecretInv, canLoad, loadConfig, insecureSecret,
                        readEnvOrSecretFile, overrideSecretString
    <3>4. EngineInv(r)' BY <1>6, <3>1 DEF bootVars, EngineInv, WorkersOf
    <3>5. OneRuns(r)' BY <1>6, <3>1 DEF bootVars, OneRuns, Migrating
    <3> QED BY <3>2, <3>3, <3>4, <3>5
  <2>3. /\ \A t \in Threads : ThreadInv(t)'
        /\ \A h \in Handlers : HandlerInv(h)'
    BY <1>6 DEF bootVars, StartupInv, ThreadInv, HandlerInv
  <2> QED BY <2>1, <2>2, <2>3 DEF StartupInv
<1> QED BY <1>1, <1>2, <1>3, <1>4, <1>5, <1>6 DEF BootNext

\* The inductive invariant.
THEOREM StartupInvariant == BootSpec => [](BootTypeOK /\ StartupInv)
  BY StartupInit, StartupStep, PTL DEF BootSpec

\* Type correctness of a backend that comes up.
THEOREM StartupTypeCorrect == BootSpec => []BootTypeOK
  BY StartupInvariant, PTL

\* Worker ids: task_engine.cpp:400.
THEOREM WorkerIdsDistinct == BootSpec => []WorkersOnce
<1>1. StartupInv => WorkersOnce BY DEF StartupInv, EngineInv, WorkersOnce
<1> QED BY <1>1, StartupInvariant, PTL

\* A task that was accepted has workers: main, or enqueue (task_engine.cpp:433).
THEOREM AcceptedHasWorkers == BootSpec => []WorkersStarted
<1>1. ASSUME StartupInv PROVE WorkersStarted
  <2> SUFFICES ASSUME NEW t \in Threads,
                      \/ At(t, "answered")
                      \/ /\ At(t, "listening") /\ ~process[Process[t]].missed
                         /\ engine[Process[t]].failures = 0
               PROVE  \A i \in Indices :
                          i <= WorkersOf(Process[t]) => engine[Process[t]].threads[i] > 0
    BY DEF WorkersStarted
  <2>1. Process[t] \in Backends /\ EngineInv(Process[t]) BY <1>1, Processes DEF StartupInv
  <2>2. CASE t \in Backends
    <3>1. Process[t] = t /\ MainInv(t) BY <1>1, <2>2, Processes DEF StartupInv
    <3>2. engine[t].once = "done" BY <3>1 DEF MainInv, At, Early, Inside
    <3> QED BY <2>1, <3>1, <3>2 DEF EngineInv
  <2>3. CASE t \notin Backends
    <3>1. t \in Handlers /\ Process[t] = Server[t] BY <2>3, Processes DEF Threads
    <3>2. HandlerInv(t) BY <1>1, <3>1 DEF StartupInv
    <3>3. engine[Process[t]].once = "done" BY <3>1, <3>2 DEF HandlerInv, At, Resting, Inside
    <3> QED BY <2>1, <3>3 DEF EngineInv
  <2> QED BY <2>2, <2>3
<1> QED BY <1>1, StartupInvariant, PTL

\* The secret of the tokens is one that main has accepted: main.cpp:107, Backend.cpp:381.
THEOREM SecretAccepted == BootSpec => []TokensSafe
<1>1. StartupInv => TokensSafe BY DEF StartupInv, SecretInv, TokensSafe
<1> QED BY <1>1, StartupInvariant, PTL

\* Workers and requests share main's cache: main.cpp:175, main.cpp:197.
THEOREM CacheShared == BootSpec => []SameCache
<1>1. StartupInv => SameCache BY DEF StartupInv, MainInv, SameCache, NewEngine
<1> QED BY <1>1, StartupInvariant, PTL

\* No statement runs on a table that is not migrated: ImageRepo.cpp:215.
THEOREM TableMigrated == BootSpec => []SchemaReady
<1>1. ASSUME StartupInv PROVE SchemaReady
  <2>1. ASSUME NEW t \in Threads, At(t, "insert") \/ (At(t, "bootstrap") /\ t \in Handlers)
        PROVE  schema = Objects
    <3>1. t \in Handlers BY <1>1, <2>1 DEF StartupInv, MainInv, Threads, At, Early, Inside
    <3> QED BY <1>1, <2>1, <3>1 DEF StartupInv, HandlerInv, At
  <2> QED BY <1>1, <2>1 DEF StartupInv, EngineInv, SchemaReady
<1> QED BY <1>1, StartupInvariant, PTL

\* Nobody waits for a call_once that nobody runs: task_engine.cpp:400, ImageRepo.cpp:216.
THEOREM OnceAlwaysHeld == BootSpec => []OnceHeld
<1>1. StartupInv => OnceHeld BY DEF StartupInv, OnceHeld
<1> QED BY <1>1, StartupInvariant, PTL
=============================================================================
