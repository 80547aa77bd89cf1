---------------------------- MODULE ImageCreate -----------------------------
(***************************************************************************)
(* POST /api/images up to the inserted row: the token bucket of the user   *)
(* (rate_limiter.cpp), the validation, the quota of active tasks and the   *)
(* lookup of the idempotency key (image_service.cpp), and the requests     *)
(* that retry and delete rows.  Every call to Redis or MySQL is a step, so *)
(* that requests of one user interleave between the checks and the insert. *)
(* What becomes of a row after the insert is TaskEngine's subject: here a  *)
(* task is active until something ends it.                                 *)
(***************************************************************************)
EXTENDS Integers, FiniteSets

CONSTANTS Users, Admins,    \* Admins: the users whose role is admin
          Clients,          \* requests that can be in flight at once
          Signings,         \* who may be signed in where the requests come from
          Home,             \* the replica a request reaches
          Replicas,
          Skew,             \* Skew[r]: how far the clock of r is ahead
          Keys, NoKey,      \* request_id of the body; NoKey: none was sent
          FailOpen,         \* FailOpen[r]: rate_limit.fail_open of r
          Capacity, Window, \* user_create_capacity and user_create_window
          MaxActive,        \* max_active_tasks_per_user, 0 for no quota
          MaxRows,          \* bound: rows ever inserted
          MaxTime,          \* bound: ticks of the clock
          MaxBack           \* bound: time a bucket is set back in all

\* What parseRateLimitConfig makes of the configuration, and the deployment.
ASSUME ConfigAssumption ==
    /\ Capacity \in Nat /\ Window \in Nat \ {0} /\ MaxActive \in Nat
    /\ FailOpen \in [Replicas -> BOOLEAN]
    /\ Skew \in [Replicas -> Nat]
    /\ Users # {} /\ Admins \subseteq Users
    /\ Signings \subseteq [Clients -> Users] /\ Home \in [Clients -> Replicas]
    /\ IsFiniteSet(Clients)
    /\ NoKey \notin Keys
    /\ MaxRows \in Nat /\ MaxTime \in Nat /\ MaxBack \in Nat

Rows == 1..MaxRows

VARIABLES
    UserOf,    \* the user who is signed in where a request comes from
    now,       \* time
    bucket,    \* bucket[u]: the Redis hash <prefix>user:<u>
    up,        \* up[r]: available_ of the limiter of replica r
    row,       \* the image table
    nextRow,   \* the next AUTO_INCREMENT id
    req,       \* what every create request is doing
    granted,   \* history: requests of u that found a token
    back       \* history: how far calls have set back the time of u's bucket

vars == <<UserOf, now, bucket, up, row, nextRow, req, granted, back>>

\* tokens counts in units of 1 / Window token, so that a refill is a whole
\* number; touched is the time of the last call, from which the key expires.
Bucket == [present : BOOLEAN, tokens : Nat, refreshed : Nat, touched : Nat]

Row == [user : Users, key : Keys \cup {NoKey},
        state : {"absent", "active", "success", "failed"},
        by : {"create", "retry"}]          \* what made an active one active
Absent == [user |-> CHOOSE u \in Users : TRUE, key |-> NoKey, state |-> "absent",
           by |-> "create"]

\* at: the time the replica read for the script.
\* before: the rows of this user and key when the request began.
Request == [pc : {"idle", "limit", "count", "lookup", "insert"},
            key : Keys \cup {NoKey}, at : Nat, before : SUBSET Rows]
Idle == [pc |-> "idle", key |-> NoKey, at |-> 0, before |-> {}]

TypeOK ==
    /\ UserOf \in [Clients -> Users]
    /\ now \in 0..MaxTime
    /\ bucket \in [Users -> Bucket]
    /\ up \in [Replicas -> BOOLEAN]
    /\ row \in [Rows -> Row]
    /\ nextRow \in 1..(MaxRows + 1)
    /\ req \in [Clients -> Request]
    /\ granted \in [Users -> Nat] /\ back \in [Users -> 0..MaxBack]

Init ==
    /\ UserOf \in Signings
    /\ now = 0
    /\ bucket = [u \in Users |-> [present |-> FALSE, tokens |-> 0, refreshed |-> 0,
                                  touched |-> 0]]
    /\ up \in [Replicas -> BOOLEAN]       \* the ping of the constructor
    /\ row = [t \in Rows |-> Absent]
    /\ nextRow = 1
    /\ req = [c \in Clients |-> Idle]
    /\ granted = [u \in Users |-> 0] /\ back = [u \in Users |-> 0]

-----------------------------------------------------------------------------
Goto(c, q) == req' = [req EXCEPT ![c] = q]
At(c, pc) == req[c].pc = pc

Lesser(a, b) == IF a <= b THEN a ELSE b

(***************************************************************************)
(* The limiter.                                                            *)
(***************************************************************************)
\* EXPIRE with twice the window, renewed by every call.
Gone(u) == ~bucket[u].present \/ now - bucket[u].touched >= 2 * Window

\* nowMs() of replica r.
nowMs(r) == now + Skew[r]

\* Mutant of Elapsed: the time is not held at zero when the clock went back.
ElapsedAbsolute(u, at) ==
    IF at >= bucket[u].refreshed THEN at - bucket[u].refreshed
                                 ELSE bucket[u].refreshed - at

Elapsed(u, at) == IF at >= bucket[u].refreshed THEN at - bucket[u].refreshed ELSE 0

\* The tokens the script finds, refilled for the time that has passed.
Tokens(u, at) ==
    IF Gone(u) THEN Capacity * Window
    ELSE Lesser(Capacity * Window, bucket[u].tokens + Capacity * Elapsed(u, at))

Allowed(u, at) == Tokens(u, at) >= Window

Remaining(u, at) == IF Allowed(u, at) THEN Tokens(u, at) - Window ELSE Tokens(u, at)

\* How far the call sets back the time of the bucket.  A full bucket in place
\* of one that expired counts as one that was refilled for a window.
SetBack(u, at) ==
    LET due == IF Gone(u) /\ bucket[u].present THEN bucket[u].refreshed + Window
                                              ELSE bucket[u].refreshed
    IN  IF due > at THEN due - at ELSE 0

\* The token bucket script: HMSET stores what is left and the caller's time.
Eval(u, at) ==
    /\ bucket' = [bucket EXCEPT ![u] =
           [present |-> TRUE, tokens |-> Remaining(u, at),
            refreshed |-> at, touched |-> now]]
    /\ back[u] + SetBack(u, at) <= MaxBack
    /\ back' = [back EXCEPT ![u] = @ + SetBack(u, at)]

\* The tasks of request c's user with idempotency key k.
RowsOf(c, k) == {t \in Rows : /\ k # NoKey
                              /\ row[t].user = UserOf[c] /\ row[t].key = k
                              /\ row[t].state # "absent"}

\* tryAcquire with a capacity of 0 limits nothing.
Unlimited(c) == UserOf[c] \in Admins \/ Capacity = 0

\* A limiter that is off lets requests pass if fail_open says so.
Unchecked(c) == Unlimited(c) \/ (~up[Home[c]] /\ FailOpen[Home[c]])

\* ImageController::create: on to the limiter, or past it.  With the limiter
\* off and fail_open false the answer is 503 and nothing changes.
Begin(c, k) ==
    /\ At(c, "idle")
    /\ \/ Unchecked(c) /\ Goto(c, [pc |-> "count", key |-> k, at |-> 0, before |-> RowsOf(c, k)])
       \/ /\ ~Unlimited(c) /\ up[Home[c]]
          /\ Goto(c, [pc |-> "limit", key |-> k, at |-> nowMs(Home[c]), before |-> RowsOf(c, k)])
    /\ UNCHANGED <<UserOf, now, bucket, up, row, nextRow, granted, back>>

\* What is left of the limiter: the time read for the script is of no more use.
Passed(c) == [req[c] EXCEPT !.pc = "count", !.at = 0]

\* The body of a request that found a token is validated (400) or it goes on.
Acquire(c) ==
    LET u == UserOf[c] IN
    /\ At(c, "limit") /\ Allowed(u, req[c].at)
    /\ Eval(u, req[c].at) /\ (Goto(c, Passed(c)) \/ Goto(c, Idle))
    /\ granted' = [granted EXCEPT ![u] = @ + 1]
    /\ UNCHANGED <<UserOf, now, up, row, nextRow>>

\* 429 rate_limit_exceeded: the bucket is written all the same.
Refuse(c) ==
    LET u == UserOf[c] IN
    /\ At(c, "limit") /\ ~Allowed(u, req[c].at)
    /\ Eval(u, req[c].at) /\ Goto(c, Idle)
    /\ UNCHANGED <<UserOf, now, up, row, nextRow, granted>>

\* The call throws, with or without the script having run: the limiter of this
\* replica is off for good, and the request passes or gets a 503.
LimiterFails(c) ==
    /\ At(c, "limit")
    /\ up' = [up EXCEPT ![Home[c]] = FALSE]
    /\ Eval(UserOf[c], req[c].at) \/ UNCHANGED <<bucket, back>>
    /\ Goto(c, IF FailOpen[Home[c]] THEN Passed(c) ELSE Idle)
    /\ UNCHANGED <<UserOf, now, row, nextRow, granted>>

(***************************************************************************)
(* ImageService::create.                                                   *)
(***************************************************************************)
Active(u) == {t \in Rows : row[t].user = u /\ row[t].state = "active"}

\* Mutant of OverQuota: the limit may be exceeded by one.
OverQuotaByOne(c) ==
    /\ UserOf[c] \notin Admins /\ MaxActive > 0
    /\ Cardinality(Active(UserOf[c])) > MaxActive

OverQuota(c) ==
    /\ UserOf[c] \notin Admins /\ MaxActive > 0
    /\ Cardinality(Active(UserOf[c])) >= MaxActive

\* countActiveTasksByUserId: 429 too_many_active_tasks, an error, or on.
CountActive(c) ==
    /\ At(c, "count")
    /\ \/ Goto(c, Idle)
       \/ ~OverQuota(c) /\ Goto(c, [req[c] EXCEPT !.pc = "lookup"])
    /\ UNCHANGED <<UserOf, now, bucket, up, row, nextRow, granted, back>>

\* What findByRequestIdAndUserId matches; a generated id matches nothing.
Matches(c) == RowsOf(c, req[c].key)

\* Mutant of FindByRequestId: only a task that is still active is found.
FindActiveOnly(c) ==
    /\ At(c, "lookup")
    /\ \/ Goto(c, Idle)
       \/ /\ Matches(c) \cap Active(UserOf[c]) = {}
          /\ Goto(c, [req[c] EXCEPT !.pc = "insert"])
    /\ UNCHANGED <<UserOf, now, bucket, up, row, nextRow, granted, back>>

\* An existing task is the answer; otherwise the row will be inserted.
FindByRequestId(c) ==
    /\ At(c, "lookup")
    /\ \/ Goto(c, Idle)
       \/ Matches(c) = {} /\ Goto(c, [req[c] EXCEPT !.pc = "insert"])
    /\ UNCHANGED <<UserOf, now, bucket, up, row, nextRow, granted, back>>

\* insert: the request is answered, or fails before or after the row is there.
Insert(c) ==
    /\ At(c, "insert") /\ nextRow \in Rows
    /\ \/ /\ row' = [row EXCEPT ![nextRow] = [user |-> UserOf[c], key |-> req[c].key,
                                              state |-> "active", by |-> "create"]]
          /\ nextRow' = nextRow + 1
       \/ UNCHANGED <<row, nextRow>>
    /\ Goto(c, Idle)
    /\ UNCHANGED <<UserOf, now, bucket, up, granted, back>>

\* The engine, the scanner or a cancel brings the task to an end.
TaskEnds(t, s) ==
    /\ row[t].state = "active"
    /\ row' = [row EXCEPT ![t].state = s, ![t].by = "create"]
    /\ UNCHANGED <<UserOf, now, bucket, up, nextRow, req, granted, back>>

\* retryById asks neither the limiter nor the quota.
RetryById(t) ==
    /\ row[t].state = "failed"
    /\ row' = [row EXCEPT ![t].state = "active", ![t].by = "retry"]
    /\ UNCHANGED <<UserOf, now, bucket, up, nextRow, req, granted, back>>

DeleteById(t) ==
    /\ row[t].state \in {"success", "failed"}
    /\ row' = [row EXCEPT ![t] = Absent]
    /\ UNCHANGED <<UserOf, now, bucket, up, nextRow, req, granted, back>>

Tick ==
    /\ now < MaxTime /\ now' = now + 1
    /\ UNCHANGED <<UserOf, bucket, up, row, nextRow, req, granted, back>>

-----------------------------------------------------------------------------
Step(c) ==
    \/ \E k \in Keys \cup {NoKey} : Begin(c, k)
    \/ Acquire(c) \/ Refuse(c) \/ LimiterFails(c)
    \/ CountActive(c) \/ FindByRequestId(c) \/ Insert(c)

Next == \/ \E c \in Clients : Step(c)
        \/ \E t \in Rows : \/ \E s \in {"success", "failed"} : TaskEnds(t, s)
                            \/ RetryById(t) \/ DeleteById(t)
        \/ Tick

Spec == Init /\ [][Next]_vars

-----------------------------------------------------------------------------
\* No clock of the deployment is ahead by more than d.
IsLead(d) == \A r \in Replicas : Skew[r] <= d

\* A user's bucket gives out its capacity and what it refills over time, and
\* no more.  Its time comes from whoever calls (rate_limiter.cpp:36), from
\* clocks that differ and read before the script runs: every call that sets it
\* back lets the same time refill the bucket once more.  That time, and the
\* lead of the fastest clock, are all that is added; the expiry adds nothing.
RateBounded ==
    \A u \in Users : \A d \in 0..MaxTime : IsLead(d) =>
        granted[u] * Window <= Capacity * (Window + now + d + back[u])

\* The tasks of u that are active since they were created, and the requests of
\* u that have been counted.
Created(u) == {t \in Active(u) : row[t].by = "create"}
Counted(u) == {c \in Clients : UserOf[c] = u /\ req[c].pc \in {"lookup", "insert"}}

\* The quota is counted before the insert (image_service.cpp:285): requests in
\* flight together exceed it, but by no more than the others among them, and
\* only retries can add to that.
QuotaBounded ==
    MaxActive > 0 => \A u \in Users \ Admins :
        LET own == {c \in Clients : UserOf[c] = u}
        IN  own # {} => Cardinality(Created(u)) + Cardinality(Counted(u))
                          < MaxActive + Cardinality(own)

\* A request inserts a second row for its idempotency key only if it ran at
\* the same time as the first: every row of that key that was there when it
\* began has been deleted by the time it inserts (image_service.cpp:310).
InsertsOnlyNew ==
    \A c \in Clients : At(c, "insert") =>
        \A t \in req[c].before : row[t].state = "absent"
=============================================================================
