----------------------------- MODULE ImageRepo ------------------------------
(***************************************************************************)
(* The statements of Backend/src/database/ImageRepo.cpp that move a task,  *)
(* each as the guard of its WHERE clause and the row its SET clause leaves *)
(* behind.  A row carries only the columns the task engine decides on:     *)
(*   status, worker (worker_id), retry (retry_count), max (max_retries),   *)
(*   stored (storage_key names the object of this task) and lease: "none"  *)
(*   for NULL, "live" for lease_expires_at not yet passed, "expired" for   *)
(*   lease_expires_at < now.                                               *)
(* first and attempt are history variables, which no statement reads: the  *)
(* retry_count the row was inserted with, and how many times it was ever   *)
(* claimed.                                                                *)
(***************************************************************************)
EXTENDS TaskStatus

CONSTANTS Bodies,       \* what a request to create a task may say of its columns
          NoWorker      \* worker_id IS NULL, or '' as insert leaves it

\* Any integer is taken for retryCount and maxRetries, any text for workerId.
ASSUME BodiesAssumption ==
    \A b \in Bodies : /\ b.retry \in Int /\ b.max \in Int
                      /\ b.lease \in {"none", "live", "expired"}
                      /\ b.stored \in BOOLEAN

AbsentRow == [status |-> "absent", worker |-> NoWorker, lease |-> "none",
              retry |-> 0, max |-> 0, stored |-> FALSE, first |-> 0, attempt |-> 0]

\* fromJson takes these columns from the body, create resets none of them and
\* insert binds them; what the body leaves out is the default of the struct.
InsertedRow(b) == [status |-> "queued", worker |-> b.worker, lease |-> b.lease,
                   retry |-> b.retry, max |-> b.max, stored |-> b.stored,
                   first |-> b.retry, attempt |-> 0]

\* Mutant of ClaimableNext: the fallback claim asks for retries left.
ClaimableWithinBudget(r) ==
    r.status \in Waiting \cup {"generating"} /\ r.lease # "live" /\ r.retry < r.max

\* The two claims: claimTaskById takes waiting rows only, claimNextTask also a
\* generating row whose lease is NULL or has expired; neither counts a retry.
ClaimableById(r) == r.status \in Waiting
ClaimableNext(r) == \/ r.status \in Waiting
                    \/ r.status = "generating" /\ r.lease # "live"
Claimed(r, id) == [r EXCEPT !.status = "generating", !.worker = id,
                            !.lease = "live", !.attempt = @ + 1]

\* Mutant of OwnedBy: the WHERE clauses forget worker_id.
OwnedByAnyone(r, id) == r.status = "generating"

\* WHERE ... status = 'generating' AND worker_id = ?, which guards the read-back
\* of a claim, renewLease, finishClaimedTask and deferClaimedTaskForModelHealth.
OwnedBy(r, id) == r.status = "generating" /\ r.worker = id

Renewed(r) == [r EXCEPT !.lease = "live"]
Finished(r, status, stored) ==
    [r EXCEPT !.status = status, !.stored = stored,
              !.worker = NoWorker, !.lease = "none"]
Deferred(r) == [r EXCEPT !.status = "queued", !.retry = @ + 1,
                         !.worker = NoWorker, !.lease = "none"]

\* Mutant of Cancelled: the UPDATE leaves worker_id and lease_expires_at alone.
CancelledWithLease(r) == [r EXCEPT !.status = "cancelled"]

Cancelled(r) == [r EXCEPT !.status = "cancelled",
                          !.worker = NoWorker, !.lease = "none"]

Retriable(r) == canRetry(r.status, r.retry, r.max)
Retried(r) == [r EXCEPT !.status = "queued", !.retry = @ + 1, !.stored = FALSE,
                        !.worker = NoWorker, !.lease = "none"]

\* The two UPDATEs of expireLeasesUnsafe.
LeaseExpired(r) == r.status = "generating" /\ r.lease = "expired"

\* Mutant of RequeueExpired: the requeue is not counted.
RequeueUncounted(r) == IF LeaseExpired(r) /\ r.retry < r.max
                       THEN [r EXCEPT !.status = "queued", !.worker = NoWorker,
                                      !.lease = "none"]
                       ELSE r
RequeueExpired(r) == IF LeaseExpired(r) /\ r.retry < r.max
                     THEN [r EXCEPT !.status = "queued", !.retry = @ + 1,
                                    !.worker = NoWorker, !.lease = "none"]
                     ELSE r
TimeoutExpired(r) == IF LeaseExpired(r) /\ r.retry >= r.max
                     THEN [r EXCEPT !.status = "timeout",
                                    !.worker = NoWorker, !.lease = "none"]
                     ELSE r
=============================================================================
