-------------------------- MODULE ImageCreateProofs --------------------------
(***************************************************************************)
(* Types, the bound of the token bucket, the bound of the quota and the    *)
(* guarantee of the idempotency key, for any number of users, replicas,    *)
(* clocks, rows and requests in flight.                                    *)
(***************************************************************************)
EXTENDS ImageCreate, FiniteSetTheorems, TLAPS

-----------------------------------------------------------------------------
(***************************************************************************)
(* Types.                                                                  *)
(***************************************************************************)
\* A row that is not there has the type of a row.
LEMMA AbsentType == Absent \in Row
  <1>1. (CHOOSE u \in Users : TRUE) \in Users
    BY ConfigAssumption
  <1> QED
    BY <1>1 DEF Absent, Row

\* A product of natural numbers is one.
LEMMA MulNat == ASSUME NEW a \in Nat, NEW b \in Nat PROVE a * b \in Nat
  OBVIOUS

\* The script finds and leaves a natural number of tokens, no more than the
\* capacity, and takes those of an allowed request.
LEMMA TokensType ==
    ASSUME NEW u \in Users, NEW at \in Nat, bucket \in [Users -> Bucket]
    PROVE  /\ Tokens(u, at) \in Nat
           /\ Elapsed(u, at) \in Nat
           /\ Remaining(u, at) \in Nat
  <1>1. bucket[u].tokens \in Nat /\ bucket[u].refreshed \in Nat
    BY DEF Bucket
  <1>2. Elapsed(u, at) \in Nat
    BY <1>1 DEF Elapsed
  <1>3. Capacity * Window \in Nat /\ Capacity * Elapsed(u, at) \in Nat
    BY <1>2, ConfigAssumption, MulNat
  <1>4. Tokens(u, at) \in Nat
    BY <1>1, <1>3 DEF Tokens, Lesser
  <1>5. Remaining(u, at) \in Nat
    BY <1>4, ConfigAssumption DEF Remaining, Allowed
  <1> QED
    BY <1>2, <1>4, <1>5

\* A run of the script leaves buckets of their type.
LEMMA EvalType ==
    ASSUME TypeOK, NEW u \in Users, NEW at \in Nat, Eval(u, at)
    PROVE  bucket' \in [Users -> Bucket] /\ back' \in [Users -> 0..MaxBack]
  <1>1. Remaining(u, at) \in Nat
    BY TokensType DEF TypeOK
  <1>2. [present |-> TRUE, tokens |-> Remaining(u, at), refreshed |-> at, touched |-> now]
          \in Bucket
    BY <1>1 DEF Bucket, TypeOK
  <1>3. bucket' \in [Users -> Bucket]
    BY <1>2 DEF Eval, TypeOK
  <1>4. bucket[u].refreshed \in Nat /\ back[u] \in 0..MaxBack
    BY DEF TypeOK, Bucket
  <1>5. SetBack(u, at) \in Nat
    BY <1>4, ConfigAssumption DEF SetBack
  <1>6. back[u] + SetBack(u, at) \in 0..MaxBack
    BY <1>4, <1>5, ConfigAssumption DEF Eval
  <1>7. back' \in [Users -> 0..MaxBack]
    BY <1>6 DEF Eval, TypeOK
  <1> QED
    BY <1>3, <1>7

\* The state of a request that began, passed the limiter or went on.
LEMMA RequestTypes ==
    ASSUME TypeOK, NEW c \in Clients
    PROVE  /\ req[c] \in Request /\ req[c].at \in Nat /\ UserOf[c] \in Users
           /\ Idle \in Request /\ Passed(c) \in Request
           /\ [req[c] EXCEPT !.pc = "lookup"] \in Request
           /\ [req[c] EXCEPT !.pc = "insert"] \in Request
  <1>1. req[c] \in Request /\ UserOf[c] \in Users
    BY DEF TypeOK
  <1>2. Idle \in Request
    BY DEF Idle, Request
  <1>3. Passed(c) \in Request
    BY <1>1 DEF Passed, Request
  <1>4. req[c].at \in Nat
    BY <1>1 DEF Request
  <1>5. [req[c] EXCEPT !.pc = "lookup"] \in Request
    BY <1>1 DEF Request
  <1>6. [req[c] EXCEPT !.pc = "insert"] \in Request
    BY <1>1 DEF Request
  <1> QED
    BY <1>1, <1>2, <1>3, <1>4, <1>5, <1>6

\* The clock of a replica is a natural number.
LEMMA ClockType == ASSUME TypeOK, NEW c \in Clients PROVE nowMs(Home[c]) \in Nat
  <1>1. now \in Nat
    BY ConfigAssumption DEF TypeOK
  <1>2. Home[c] \in Replicas /\ Skew[Home[c]] \in Nat
    BY ConfigAssumption
  <1> QED
    BY <1>1, <1>2 DEF nowMs

\* Every step keeps the types.
LEMMA TypeStep == TypeOK /\ [Next]_vars => TypeOK'
  <1> SUFFICES ASSUME TypeOK, [Next]_vars PROVE TypeOK'
    OBVIOUS
  <1>1. ASSUME NEW c \in Clients, NEW k \in Keys \cup {NoKey}, Begin(c, k) PROVE TypeOK'
    <2>1. RowsOf(c, k) \in SUBSET Rows
      BY DEF RowsOf
    <2>2. [pc |-> "count", key |-> k, at |-> 0, before |-> RowsOf(c, k)] \in Request
      BY <2>1 DEF Request
    <2>3. [pc |-> "limit", key |-> k, at |-> nowMs(Home[c]), before |-> RowsOf(c, k)] \in Request
      BY <2>1, ClockType DEF Request
    <2>4. req' \in [Clients -> Request]
      BY <1>1, <2>2, <2>3 DEF Begin, Goto, TypeOK
    <2> QED
      BY <1>1, <2>4 DEF Begin, TypeOK
  <1>2. ASSUME NEW c \in Clients, Acquire(c) PROVE TypeOK'
    <2>1. UserOf[c] \in Users /\ req[c].at \in Nat
      BY RequestTypes
    <2>2. bucket' \in [Users -> Bucket] /\ back' \in [Users -> 0..MaxBack]
      BY <1>2, <2>1, EvalType DEF Acquire
    <2>3. req' \in [Clients -> Request]
      BY <1>2, RequestTypes DEF Acquire, Goto, TypeOK
    <2>4. granted' \in [Users -> Nat]
      BY <1>2, <2>1 DEF Acquire, TypeOK
    <2> QED
      BY <1>2, <2>2, <2>3, <2>4 DEF Acquire, TypeOK
  <1>3. ASSUME NEW c \in Clients, Refuse(c) PROVE TypeOK'
    <2>1. UserOf[c] \in Users /\ req[c].at \in Nat
      BY RequestTypes
    <2>2. bucket' \in [Users -> Bucket] /\ back' \in [Users -> 0..MaxBack]
      BY <1>3, <2>1, EvalType DEF Refuse
    <2>3. req' \in [Clients -> Request]
      BY <1>3, RequestTypes DEF Refuse, Goto, TypeOK
    <2> QED
      BY <1>3, <2>2, <2>3 DEF Refuse, TypeOK
  <1>4. ASSUME NEW c \in Clients, LimiterFails(c) PROVE TypeOK'
    <2>1. UserOf[c] \in Users /\ req[c].at \in Nat
      BY RequestTypes
    <2>2. bucket' \in [Users -> Bucket] /\ back' \in [Users -> 0..MaxBack]
      <3>1. CASE Eval(UserOf[c], req[c].at)
        BY <3>1, <2>1, EvalType
      <3>2. CASE UNCHANGED <<bucket, back>>
        BY <3>2 DEF TypeOK
      <3> QED
        BY <1>4, <3>1, <3>2 DEF LimiterFails
    <2>3. req' \in [Clients -> Request]
      BY <1>4, RequestTypes DEF LimiterFails, Goto, TypeOK
    <2>4. up' \in [Replicas -> BOOLEAN]
      BY <1>4 DEF LimiterFails, TypeOK
    <2> QED
      BY <1>4, <2>2, <2>3, <2>4 DEF LimiterFails, TypeOK
  <1>5. ASSUME NEW c \in Clients, CountActive(c) PROVE TypeOK'
    <2>1. req' \in [Clients -> Request]
      BY <1>5, RequestTypes DEF CountActive, Goto, TypeOK
    <2> QED
      BY <1>5, <2>1 DEF CountActive, TypeOK
  <1>6. ASSUME NEW c \in Clients, FindByRequestId(c) PROVE TypeOK'
    <2>1. req' \in [Clients -> Request]
      BY <1>6, RequestTypes DEF FindByRequestId, Goto, TypeOK
    <2> QED
      BY <1>6, <2>1 DEF FindByRequestId, TypeOK
  <1>7. ASSUME NEW c \in Clients, Insert(c) PROVE TypeOK'
    <2>1. req' \in [Clients -> Request]
      BY <1>7, RequestTypes DEF Insert, Goto, TypeOK
    <2>2. req[c] \in Request /\ UserOf[c] \in Users
      BY RequestTypes
    <2>3. req[c].key \in Keys \cup {NoKey}
      BY <2>2 DEF Request
    <2>4. [user |-> UserOf[c], key |-> req[c].key, state |-> "active", by |-> "create"] \in Row
      BY <2>2, <2>3 DEF Row
    <2>5. row' \in [Rows -> Row]
      BY <1>7, <2>4 DEF Insert, TypeOK
    <2>6. nextRow' \in 1..(MaxRows + 1)
      BY <1>7, ConfigAssumption DEF Insert, TypeOK, Rows
    <2> QED
      BY <1>7, <2>1, <2>5, <2>6 DEF Insert, TypeOK
  <1>8. ASSUME NEW t \in Rows, NEW s \in {"success", "failed"}, TaskEnds(t, s) PROVE TypeOK'
    <2>1. row[t] \in Row
      BY DEF TypeOK
    <2>2. [row[t] EXCEPT !.state = s, !.by = "create"] \in Row
      BY <2>1 DEF Row
    <2>3. row' = [row EXCEPT ![t] = [row[t] EXCEPT !.state = s, !.by = "create"]]
      BY <1>8 DEF TaskEnds, TypeOK
    <2> QED
      BY <1>8, <2>2, <2>3 DEF TaskEnds, TypeOK
  <1>9. ASSUME NEW t \in Rows, RetryById(t) PROVE TypeOK'
    <2>1. row[t] \in Row
      BY DEF TypeOK
    <2>2. [row[t] EXCEPT !.state = "active", !.by = "retry"] \in Row
      BY <2>1 DEF Row
    <2>3. row' = [row EXCEPT ![t] = [row[t] EXCEPT !.state = "active", !.by = "retry"]]
      BY <1>9 DEF RetryById, TypeOK
    <2> QED
      BY <1>9, <2>2, <2>3 DEF RetryById, TypeOK
  <1>10. ASSUME NEW t \in Rows, DeleteById(t) PROVE TypeOK'
    BY <1>10, AbsentType DEF DeleteById, TypeOK
  <1>11. CASE Tick
    BY <1>11, ConfigAssumption DEF Tick, TypeOK
  <1>12. CASE UNCHANGED vars
    BY <1>12 DEF vars, TypeOK
  <1> QED
    BY <1>1, <1>2, <1>3, <1>4, <1>5, <1>6, <1>7, <1>8, <1>9, <1>10, <1>11, <1>12
       DEF Next, Step

\* Whatever requests interleave, a bucket never holds a negative number of
\* tokens and every request and row keeps its form.
THEOREM TypeCorrect == Spec => []TypeOK
  <1>1. Init => TypeOK
    BY AbsentType, ConfigAssumption DEF Init, TypeOK, Bucket, Request, Idle, Rows
  <1> QED
    BY <1>1, TypeStep, PTL DEF Spec

-----------------------------------------------------------------------------
(***************************************************************************)
(* The bucket.  What a user was granted and what the bucket still holds    *)
(* are paid for by the capacity, the time the bucket has reached and the   *)
(* time it was set back.                                                   *)
(***************************************************************************)
\* No time that was read for a bucket is ahead of the fastest clock.
TimesRead ==
    \A d \in Nat : IsLead(d) =>
        /\ \A c \in Clients : req[c].at <= now + d
        /\ \A u \in Users : bucket[u].refreshed <= now + d

PaidFor ==
    \A u \in Users :
        IF bucket[u].present
        THEN bucket[u].tokens + granted[u] * Window
               <= Capacity * (Window + bucket[u].refreshed + back[u])
        ELSE granted[u] = 0 /\ back[u] = 0 /\ bucket[u].refreshed = 0

\* Multiplication is monotonic, and distributes over sums.
LEMMA MulMono ==
    ASSUME NEW a \in Nat, NEW x \in Nat, NEW y \in Nat, x <= y
    PROVE  a * x <= a * y
  <1>1. PICK z \in Nat : y = x + z
    BY y - x \in Nat
  <1>2. a * y = a * x + a * z
    BY <1>1
  <1>3. a * z \in Nat /\ a * x \in Nat
    BY MulNat
  <1> QED
    BY <1>2, <1>3

LEMMA MulAdd ==
    ASSUME NEW a \in Nat, NEW x \in Nat, NEW y \in Nat
    PROVE  a * (x + y) = a * x + a * y
  OBVIOUS

\* What the script finds was there or is paid for by the time it moved on.
LEMMA FindsPaid ==
    ASSUME TypeOK, PaidFor, NEW u \in Users, NEW at \in Nat
    PROVE  Tokens(u, at) + granted[u] * Window
             <= Capacity * (Window + at + (back[u] + SetBack(u, at)))
  <1> DEFINE b == bucket[u]
  <1>1. /\ b.tokens \in Nat /\ b.refreshed \in Nat /\ b.present \in BOOLEAN
        /\ back[u] \in Nat /\ granted[u] \in Nat
        /\ Capacity \in Nat /\ Window \in Nat
    BY ConfigAssumption DEF TypeOK, Bucket
  <1>2. SetBack(u, at) \in Nat
    BY <1>1 DEF SetBack
  <1> DEFINE cw == Capacity * Window
             g == granted[u] * Window
  <1>3. cw \in Nat /\ g \in Nat
    BY <1>1, MulNat
  <1>4. CASE ~b.present
    <2>1. granted[u] = 0 /\ g = 0
      BY <1>1, <1>4 DEF PaidFor
    <2>2. Tokens(u, at) = cw
      BY <1>4 DEF Tokens, Gone
    <2>3. cw <= Capacity * (Window + at + (back[u] + SetBack(u, at)))
      BY <1>1, <1>2, MulMono
    <2> QED
      BY <1>3, <2>1, <2>2, <2>3
  <1>5. CASE b.present /\ Gone(u)
    <2>1. b.tokens + g <= Capacity * (Window + b.refreshed + back[u])
      BY <1>5 DEF PaidFor
    <2>2. Capacity * (Window + b.refreshed + back[u]) \in Nat
      BY <1>1, MulNat
    <2>3. Capacity * (Window + (Window + b.refreshed + back[u]))
            = cw + Capacity * (Window + b.refreshed + back[u])
      BY <1>1, MulAdd
    <2>4. Window + (Window + b.refreshed + back[u])
            <= Window + at + (back[u] + SetBack(u, at))
      BY <1>1, <1>5 DEF SetBack
    <2>5. Capacity * (Window + (Window + b.refreshed + back[u]))
            <= Capacity * (Window + at + (back[u] + SetBack(u, at)))
      BY <1>1, <1>2, <2>4, MulMono
    <2>6. Tokens(u, at) = cw
      BY <1>5 DEF Tokens
    <2>7. Capacity * (Window + at + (back[u] + SetBack(u, at))) \in Nat
      BY <1>1, <1>2, MulNat
    <2> DEFINE held == Capacity * (Window + b.refreshed + back[u])
               more == Capacity * (Window + (Window + b.refreshed + back[u]))
               paid == Capacity * (Window + at + (back[u] + SetBack(u, at)))
    <2>8. b.tokens + g <= held /\ more = cw + held /\ more <= paid /\ held \in Nat /\ paid \in Nat
      BY <2>1, <2>2, <2>3, <2>5, <2>7
    <2> HIDE DEF cw, g, held, more, paid
    <2>9. cw + g <= paid
      BY <1>1, <1>3, <2>8
    <2> QED
      BY <2>6, <2>9 DEF paid, g
  <1>6. CASE b.present /\ ~Gone(u)
    <2>1. b.tokens + g <= Capacity * (Window + b.refreshed + back[u])
      BY <1>6 DEF PaidFor
    <2>2. Elapsed(u, at) \in Nat
      BY TokensType DEF TypeOK
    <2>3. Capacity * ((Window + b.refreshed + back[u]) + Elapsed(u, at))
            = Capacity * (Window + b.refreshed + back[u]) + Capacity * Elapsed(u, at)
      BY <1>1, <2>2, MulAdd
    <2>4. (Window + b.refreshed + back[u]) + Elapsed(u, at)
            = Window + at + (back[u] + SetBack(u, at))
      BY <1>1, <1>6 DEF SetBack, Elapsed
    <2>5. Capacity * (Window + b.refreshed + back[u]) \in Nat /\ Capacity * Elapsed(u, at) \in Nat
      BY <1>1, <2>2, MulNat
    <2>6. Tokens(u, at) \in Nat /\ Tokens(u, at) <= b.tokens + Capacity * Elapsed(u, at)
      <3>1. Tokens(u, at) = Lesser(cw, b.tokens + Capacity * Elapsed(u, at))
        BY <1>6 DEF Tokens
      <3> HIDE DEF cw
      <3> QED
        BY <1>1, <1>3, <2>5, <3>1 DEF Lesser
    <2> DEFINE held == Capacity * (Window + b.refreshed + back[u])
               refill == Capacity * Elapsed(u, at)
               paid == Capacity * (Window + at + (back[u] + SetBack(u, at)))
    <2>7. paid = held + refill
      BY <2>3, <2>4
    <2>8. /\ b.tokens + g <= held /\ held \in Nat /\ refill \in Nat
          /\ Tokens(u, at) \in Nat /\ Tokens(u, at) <= b.tokens + refill
      BY <2>1, <2>5, <2>6
    <2> HIDE DEF g, held, refill, paid
    <2>9. Tokens(u, at) + g <= paid
      BY <1>1, <1>3, <2>7, <2>8
    <2> QED
      BY <2>9 DEF paid, g
  <1> QED
    BY <1>1, <1>4, <1>5, <1>6

\* A run of the script that grants g requests, paid for.
LEMMA EvalPaid ==
    ASSUME TypeOK, PaidFor, NEW u \in Users, NEW at \in Nat, Eval(u, at),
           \A v \in Users : v # u => granted'[v] = granted[v],
           \/ granted'[u] = granted[u]
           \/ Allowed(u, at) /\ granted'[u] = granted[u] + 1
    PROVE  PaidFor'
  <1>1. /\ Tokens(u, at) \in Nat /\ Remaining(u, at) \in Nat
    BY TokensType DEF TypeOK
  <1>2. granted[u] \in Nat /\ Window \in Nat /\ Capacity \in Nat
    BY ConfigAssumption DEF TypeOK
  <1>3. granted[u] * Window \in Nat /\ (granted[u] + 1) * Window = granted[u] * Window + Window
    BY <1>2, MulNat
  <1>4. Remaining(u, at) + granted'[u] * Window <= Tokens(u, at) + granted[u] * Window
    <2>1. CASE granted'[u] = granted[u]
      <3>1. Remaining(u, at) <= Tokens(u, at)
        BY <1>1, <1>2 DEF Remaining
      <3> QED
        BY <1>1, <1>3, <2>1, <3>1
    <2>2. CASE Allowed(u, at) /\ granted'[u] = granted[u] + 1
      <3>1. Remaining(u, at) = Tokens(u, at) - Window
        BY <2>2 DEF Remaining
      <3> QED
        BY <1>1, <1>2, <1>3, <2>2, <3>1
    <2> QED
      BY <2>1, <2>2
  <1>5. Tokens(u, at) + granted[u] * Window
             <= Capacity * (Window + at + (back[u] + SetBack(u, at)))
    BY FindsPaid
  <1>6. /\ bucket'[u].present = TRUE /\ bucket'[u].tokens = Remaining(u, at)
        /\ bucket'[u].refreshed = at /\ back'[u] = back[u] + SetBack(u, at)
    BY DEF Eval, TypeOK
  <1>7. \A v \in Users : v # u => bucket'[v] = bucket[v] /\ back'[v] = back[v]
    BY DEF Eval, TypeOK
  <1>8. granted'[u] \in Nat /\ granted'[u] * Window \in Nat
    BY <1>2, MulNat
  <1>9. Capacity * (Window + at + (back[u] + SetBack(u, at))) \in Nat
    <2>1. back[u] \in Nat /\ bucket[u].refreshed \in Nat
      BY ConfigAssumption DEF TypeOK, Bucket
    <2>2. SetBack(u, at) \in Nat
      BY <1>2, <2>1 DEF SetBack
    <2> QED
      BY <1>2, <2>1, <2>2, MulNat
  <1>10. Remaining(u, at) + granted'[u] * Window
             <= Capacity * (Window + at + (back[u] + SetBack(u, at)))
    BY <1>1, <1>3, <1>4, <1>5, <1>8, <1>9
  <1>11. ASSUME NEW v \in Users PROVE
            IF bucket'[v].present
            THEN bucket'[v].tokens + granted'[v] * Window
                   <= Capacity * (Window + bucket'[v].refreshed + back'[v])
            ELSE granted'[v] = 0 /\ back'[v] = 0 /\ bucket'[v].refreshed = 0
    <2>1. CASE v = u
      BY <1>6, <1>10, <2>1
    <2>2. CASE v # u
      BY <1>7, <2>2 DEF PaidFor
    <2> QED
      BY <2>1, <2>2
  <1> QED
    BY <1>11 DEF PaidFor

\* Steps that leave the buckets alone keep them paid for.
LEMMA PaidFrame ==
    ASSUME PaidFor, UNCHANGED <<bucket, granted, back>> PROVE PaidFor'
  BY DEF PaidFor

\* Every step keeps the buckets paid for.
LEMMA PaidStep == TypeOK /\ PaidFor /\ [Next]_vars => PaidFor'
  <1> SUFFICES ASSUME TypeOK, PaidFor, [Next]_vars PROVE PaidFor'
    OBVIOUS
  <1>1. ASSUME NEW c \in Clients, Acquire(c) PROVE PaidFor'
    <2>1. UserOf[c] \in Users /\ req[c].at \in Nat
      BY RequestTypes
    <2>2. /\ granted'[UserOf[c]] = granted[UserOf[c]] + 1
          /\ \A v \in Users : v # UserOf[c] => granted'[v] = granted[v]
      BY <1>1, <2>1 DEF Acquire, TypeOK
    <2>3. Eval(UserOf[c], req[c].at) /\ Allowed(UserOf[c], req[c].at)
      BY <1>1 DEF Acquire
    <2> QED
      BY <2>1, <2>2, <2>3, EvalPaid
  <1>2. ASSUME NEW c \in Clients, Refuse(c) PROVE PaidFor'
    BY <1>2, RequestTypes, EvalPaid DEF Refuse
  <1>3. ASSUME NEW c \in Clients, LimiterFails(c) PROVE PaidFor'
    <2>1. CASE Eval(UserOf[c], req[c].at)
      BY <1>3, <2>1, RequestTypes, EvalPaid DEF LimiterFails
    <2>2. CASE UNCHANGED <<bucket, back>>
      BY <1>3, <2>2, PaidFrame DEF LimiterFails
    <2> QED
      BY <1>3, <2>1, <2>2 DEF LimiterFails
  <1>4. CASE UNCHANGED <<bucket, granted, back>>
    BY <1>4, PaidFrame
  <1> QED
    BY <1>1, <1>2, <1>3, <1>4 DEF Next, Step, Begin, CountActive, FindByRequestId, Insert,
       TaskEnds, RetryById, DeleteById, Tick, vars

\* Every step keeps the times below the fastest clock.
LEMMA TimesStep == TypeOK /\ TimesRead /\ [Next]_vars => TimesRead'
  <1> SUFFICES ASSUME TypeOK, TimesRead, [Next]_vars, NEW d \in Nat, IsLead(d)
               PROVE  /\ \A c \in Clients : req'[c].at <= now' + d
                      /\ \A u \in Users : bucket'[u].refreshed <= now' + d
    BY DEF TimesRead, IsLead
  <1>1. /\ \A c \in Clients : req[c].at <= now + d /\ req[c].at \in Nat
        /\ \A u \in Users : bucket[u].refreshed <= now + d /\ bucket[u].refreshed \in Nat
    BY DEF TimesRead, TypeOK, Bucket, Request
  <1>2. now \in Nat /\ now' \in Nat /\ now <= now'
    <2>1. now' = now \/ now' = now + 1
      BY DEF Next, Step, Begin, Acquire, Refuse, LimiterFails, CountActive,
         FindByRequestId, Insert, TaskEnds, RetryById, DeleteById, Tick, vars
    <2>2. now \in Nat
      BY ConfigAssumption DEF TypeOK
    <2> QED
      BY <2>1, <2>2
  <1>3. ASSUME NEW c \in Clients, NEW q \in Request, Goto(c, q), q.at \in Nat, q.at <= now + d
        PROVE  \A e \in Clients : req'[e].at <= now' + d
    <2>1. \A e \in Clients : req'[e] = IF e = c THEN q ELSE req[e]
      BY <1>3 DEF Goto, TypeOK
    <2> QED
      BY <1>1, <1>2, <1>3, <2>1
  <1>4. ASSUME NEW c \in Clients, \/ Goto(c, Idle) \/ Goto(c, Passed(c))
                                  \/ Goto(c, [req[c] EXCEPT !.pc = "lookup"])
                                  \/ Goto(c, [req[c] EXCEPT !.pc = "insert"])
        PROVE  \A e \in Clients : req'[e].at <= now' + d
    <2>1. Idle.at = 0 /\ Passed(c).at = 0
      BY RequestTypes DEF Idle, Passed, Request
    <2>2. [req[c] EXCEPT !.pc = "lookup"].at = req[c].at
      BY RequestTypes DEF Request
    <2>3. [req[c] EXCEPT !.pc = "insert"].at = req[c].at
      BY RequestTypes DEF Request
    <2>4. CASE Goto(c, Idle)
      <3>1. Idle \in Request
        BY RequestTypes
      <3>2. Idle.at \in Nat /\ Idle.at <= now + d
        BY <1>2, <2>1
      <3> QED
        BY <1>3, <2>4, <3>1, <3>2
    <2>5. CASE Goto(c, Passed(c))
      <3>1. Passed(c) \in Request
        BY RequestTypes
      <3>2. Passed(c).at \in Nat /\ Passed(c).at <= now + d
        BY <1>2, <2>1
      <3> QED
        BY <1>3, <2>5, <3>1, <3>2
    <2>6. CASE Goto(c, [req[c] EXCEPT !.pc = "lookup"])
      BY <1>1, <1>3, <2>2, <2>6, RequestTypes
    <2>7. CASE Goto(c, [req[c] EXCEPT !.pc = "insert"])
      BY <1>1, <1>3, <2>3, <2>7, RequestTypes
    <2> QED
      BY <1>4, <2>4, <2>5, <2>6, <2>7
  <1>5. ASSUME NEW c \in Clients, Eval(UserOf[c], req[c].at)
        PROVE  \A u \in Users : bucket'[u].refreshed <= now' + d
    <2>1. UserOf[c] \in Users
      BY RequestTypes
    <2>2. \A u \in Users : bucket'[u].refreshed = IF u = UserOf[c] THEN req[c].at
                                                  ELSE bucket[u].refreshed
      BY <1>5, <2>1 DEF Eval, TypeOK
    <2> QED
      BY <1>1, <1>2, <2>2
  <1>6. UNCHANGED req => \A c \in Clients : req'[c].at <= now' + d
    BY <1>1, <1>2
  <1>7. UNCHANGED bucket => \A u \in Users : bucket'[u].refreshed <= now' + d
    BY <1>1, <1>2
  <1>8. ASSUME NEW c \in Clients, NEW k \in Keys \cup {NoKey}, Begin(c, k)
        PROVE  \A e \in Clients : req'[e].at <= now' + d
    <2>1. RowsOf(c, k) \in SUBSET Rows
      BY DEF RowsOf
    <2>2. nowMs(Home[c]) \in Nat /\ nowMs(Home[c]) <= now + d
      BY <1>2, ClockType, ConfigAssumption DEF nowMs, IsLead
    <2> DEFINE p == [pc |-> "count", key |-> k, at |-> 0, before |-> RowsOf(c, k)]
               q == [pc |-> "limit", key |-> k, at |-> nowMs(Home[c]), before |-> RowsOf(c, k)]
    <2>3. p \in Request /\ q \in Request
      BY <2>1, <2>2 DEF Request
    <2>4. p.at = 0 /\ q.at = nowMs(Home[c])
      OBVIOUS
    <2>5. Goto(c, p) \/ Goto(c, q)
      BY <1>8 DEF Begin
    <2> HIDE DEF p, q
    <2> QED
      BY <1>2, <1>3, <2>2, <2>3, <2>4, <2>5
  <1>9. ASSUME NEW c \in Clients, Acquire(c) \/ Refuse(c) \/ LimiterFails(c)
        PROVE  /\ \A e \in Clients : req'[e].at <= now' + d
               /\ \A u \in Users : bucket'[u].refreshed <= now' + d
    BY <1>4, <1>5, <1>7, <1>9 DEF Acquire, Refuse, LimiterFails
  <1>10. ASSUME NEW c \in Clients, CountActive(c) \/ FindByRequestId(c) \/ Insert(c)
        PROVE  /\ \A e \in Clients : req'[e].at <= now' + d
               /\ \A u \in Users : bucket'[u].refreshed <= now' + d
    BY <1>4, <1>7, <1>10 DEF CountActive, FindByRequestId, Insert
  <1>11. CASE UNCHANGED <<req, bucket>>
    BY <1>6, <1>7, <1>11
  <1> QED
    BY <1>7, <1>8, <1>9, <1>10, <1>11 DEF Next, Step, Begin, TaskEnds, RetryById, DeleteById,
       Tick, vars

\* A user's bucket never gives out more than its capacity and what it refills
\* in the time that has passed, apart from the time by which callers set it
\* back and the lead of the fastest clock, for any clocks of the replicas and
\* any delay between reading the clock and running the script.
THEOREM TokenBucket == Spec => []RateBounded
  <1>1. Init => TimesRead /\ PaidFor
    BY ConfigAssumption DEF Init, TimesRead, PaidFor, Idle
  <1>2. TypeOK /\ TimesRead /\ PaidFor => RateBounded
    <2> SUFFICES ASSUME TypeOK, TimesRead, PaidFor, NEW u \in Users, NEW d \in 0..MaxTime, IsLead(d)
                 PROVE  granted[u] * Window <= Capacity * (Window + now + d + back[u])
      BY DEF RateBounded
    <2>1. /\ bucket[u].tokens \in Nat /\ bucket[u].refreshed \in Nat
          /\ back[u] \in Nat /\ granted[u] \in Nat /\ now \in Nat /\ d \in Nat
          /\ Capacity \in Nat /\ Window \in Nat /\ bucket[u].present \in BOOLEAN
      BY ConfigAssumption DEF TypeOK, Bucket
    <2>2. bucket[u].refreshed <= now + d
      BY <2>1 DEF TimesRead
    <2>3. Capacity * (Window + bucket[u].refreshed + back[u])
            <= Capacity * (Window + now + d + back[u])
      BY <2>1, <2>2, MulMono
    <2>4. /\ granted[u] * Window \in Nat
          /\ Capacity * (Window + bucket[u].refreshed + back[u]) \in Nat
          /\ Capacity * (Window + now + d + back[u]) \in Nat
      BY <2>1, MulNat
    <2>5. CASE bucket[u].present
      <3>1. bucket[u].tokens + granted[u] * Window
              <= Capacity * (Window + bucket[u].refreshed + back[u])
        BY <2>5 DEF PaidFor
      <3> QED
        BY <2>1, <2>3, <2>4, <3>1
    <2>6. CASE ~bucket[u].present
      <3>1. granted[u] * Window = 0
        BY <2>1, <2>6 DEF PaidFor
      <3> QED
        BY <2>4, <3>1
    <2> QED
      BY <2>1, <2>5, <2>6
  <1> QED
    BY <1>1, <1>2, TypeCorrect, TimesStep, PaidStep, PTL DEF Spec

-----------------------------------------------------------------------------
(***************************************************************************)
(* The idempotency key.  A row a request met when it began is its own or   *)
(* gone, and ids are not used again.                                       *)
(***************************************************************************)
IdsFresh == \A t \in Rows : row[t].state # "absent" => t < nextRow

BeforeOK ==
    \A c \in Clients : \A t \in req[c].before :
        /\ t < nextRow
        /\ row[t].state # "absent" => /\ row[t].user = UserOf[c] /\ row[t].key = req[c].key
                                      /\ req[c].key # NoKey

KeysOK == IdsFresh /\ BeforeOK /\ InsertsOnlyNew

\* A step that keeps the rows, or only ends, retries or deletes one, keeps what
\* requests know of them.
LEMMA RowsOnlyGo ==
    ASSUME TypeOK, KeysOK, UNCHANGED <<UserOf, nextRow, req>>,
           \A t \in Rows : \/ row'[t].state = "absent"
                           \/ /\ row[t].state # "absent"
                              /\ row'[t].user = row[t].user /\ row'[t].key = row[t].key
    PROVE  KeysOK'
  <1>1. \A c \in Clients : req[c].before \subseteq Rows
    BY DEF TypeOK, Request
  <1>2. IdsFresh'
    BY DEF KeysOK, IdsFresh
  <1>3. BeforeOK'
    BY <1>1 DEF KeysOK, BeforeOK
  <1>4. InsertsOnlyNew'
    BY <1>1 DEF KeysOK, InsertsOnlyNew, At
  <1> QED
    BY <1>2, <1>3, <1>4 DEF KeysOK

\* A request that goes on with what it knew, or starts afresh.
LEMMA RequestGoesOn ==
    ASSUME TypeOK, KeysOK, UNCHANGED <<UserOf, nextRow, row>>,
           NEW c \in Clients, NEW q, Goto(c, q),
           \A t \in q.before : /\ t \in Rows /\ t < nextRow
                               /\ row[t].state # "absent" =>
                                    /\ row[t].user = UserOf[c] /\ row[t].key = q.key
                                    /\ q.key # NoKey,
           q.pc = "insert" => \A t \in q.before : row[t].state = "absent"
    PROVE  KeysOK'
  <1>1. \A e \in Clients : req'[e] = IF e = c THEN q ELSE req[e]
    BY DEF Goto, TypeOK
  <1>2. IdsFresh'
    BY DEF KeysOK, IdsFresh
  <1>3. BeforeOK'
    BY <1>1 DEF KeysOK, BeforeOK
  <1>4. InsertsOnlyNew'
    BY <1>1 DEF KeysOK, InsertsOnlyNew, At
  <1> QED
    BY <1>2, <1>3, <1>4 DEF KeysOK

\* In particular one whose before is kept, or that ends.
LEMMA RequestKeeps ==
    ASSUME TypeOK, KeysOK, UNCHANGED <<UserOf, nextRow, row>>, NEW c \in Clients,
           \/ Goto(c, Idle) \/ Goto(c, Passed(c)) \/ Goto(c, [req[c] EXCEPT !.pc = "lookup"])
    PROVE  KeysOK'
  <1>1. req[c] \in Request
    BY RequestTypes
  <1>2. req[c].before \subseteq Rows
    BY <1>1 DEF Request
  <1>3. CASE Goto(c, Idle)
    <2>1. Idle.before = {} /\ Idle.pc # "insert"
      BY DEF Idle
    <2> QED
      BY <1>3, <2>1, RequestGoesOn
  <1>4. CASE Goto(c, Passed(c))
    <2>1. Passed(c).before = req[c].before /\ Passed(c).key = req[c].key /\ Passed(c).pc = "count"
      BY <1>1 DEF Passed, Request
    <2> QED
      BY <1>2, <1>4, <2>1, RequestGoesOn DEF KeysOK, BeforeOK
  <1>5. CASE Goto(c, [req[c] EXCEPT !.pc = "lookup"])
    <2> DEFINE q == [req[c] EXCEPT !.pc = "lookup"]
    <2>1. q.before = req[c].before /\ q.key = req[c].key /\ q.pc = "lookup"
      BY <1>1 DEF Request
    <2>2. Goto(c, q)
      BY <1>5
    <2> HIDE DEF q
    <2> QED
      BY <1>2, <2>1, <2>2, RequestGoesOn DEF KeysOK, BeforeOK
  <1> QED
    BY <1>3, <1>4, <1>5

\* Every step keeps what requests know of the rows.
LEMMA KeysStep == TypeOK /\ KeysOK /\ [Next]_vars => KeysOK'
  <1> SUFFICES ASSUME TypeOK, KeysOK, [Next]_vars PROVE KeysOK'
    OBVIOUS
  <1>1. ASSUME NEW c \in Clients, NEW k \in Keys \cup {NoKey}, Begin(c, k) PROVE KeysOK'
    <2> DEFINE p == [pc |-> "count", key |-> k, at |-> 0, before |-> RowsOf(c, k)]
               q == [pc |-> "limit", key |-> k, at |-> nowMs(Home[c]), before |-> RowsOf(c, k)]
    <2>1. \A t \in RowsOf(c, k) : /\ t \in Rows /\ t < nextRow
                                  /\ row[t].user = UserOf[c] /\ row[t].key = k /\ k # NoKey
      BY DEF RowsOf, KeysOK, IdsFresh
    <2>2. /\ p.before = RowsOf(c, k) /\ p.key = k /\ p.pc # "insert"
          /\ q.before = RowsOf(c, k) /\ q.key = k /\ q.pc # "insert"
      OBVIOUS
    <2>3. (Goto(c, p) \/ Goto(c, q)) /\ UNCHANGED <<UserOf, nextRow, row>>
      BY <1>1 DEF Begin
    <2> HIDE DEF p, q
    <2> QED
      BY <2>1, <2>2, <2>3, RequestGoesOn
  <1>2. ASSUME NEW c \in Clients, Acquire(c) \/ Refuse(c) \/ LimiterFails(c) \/ CountActive(c)
        PROVE  KeysOK'
    BY <1>2, RequestKeeps DEF Acquire, Refuse, LimiterFails, CountActive
  <1>3. ASSUME NEW c \in Clients, FindByRequestId(c) PROVE KeysOK'
    <2>1. CASE Goto(c, Idle)
      BY <1>3, <2>1, RequestKeeps DEF FindByRequestId
    <2>2. CASE Matches(c) = {} /\ Goto(c, [req[c] EXCEPT !.pc = "insert"])
      <3> DEFINE q == [req[c] EXCEPT !.pc = "insert"]
      <3>1. req[c] \in Request
        BY RequestTypes
      <3>2. q.before = req[c].before /\ q.key = req[c].key /\ req[c].before \subseteq Rows
        BY <3>1 DEF Request
      <3>3. \A t \in req[c].before :
               /\ t < nextRow
               /\ row[t].state # "absent" => /\ row[t].user = UserOf[c] /\ row[t].key = req[c].key
                                             /\ req[c].key # NoKey
        BY DEF KeysOK, BeforeOK
      <3>4. \A t \in req[c].before : row[t].state = "absent"
        BY <2>2, <3>2, <3>3 DEF Matches, RowsOf
      <3>5. Goto(c, q) /\ UNCHANGED <<UserOf, nextRow, row>>
        BY <1>3, <2>2 DEF FindByRequestId
      <3> HIDE DEF q
      <3> QED
        BY <3>2, <3>3, <3>4, <3>5, RequestGoesOn
    <2> QED
      BY <1>3, <2>1, <2>2 DEF FindByRequestId
  <1>4. ASSUME NEW c \in Clients, Insert(c) PROVE KeysOK'
    <2>1. CASE UNCHANGED <<row, nextRow>>
      BY <1>4, <2>1, RequestKeeps DEF Insert
    <2>2. CASE nextRow' = nextRow + 1
               /\ row' = [row EXCEPT ![nextRow] = [user |-> UserOf[c], key |-> req[c].key,
                                                   state |-> "active", by |-> "create"]]
      <3>1. nextRow \in Nat /\ nextRow \in Rows /\ UNCHANGED UserOf
        BY <1>4, ConfigAssumption DEF Insert, Rows
      <3>2. \A t \in Rows : t # nextRow => row'[t] = row[t]
        BY <2>2, <3>1 DEF TypeOK
      <3>3. \A e \in Clients : /\ req'[e] = IF e = c THEN Idle ELSE req[e]
                               /\ req[e].before \subseteq Rows
        BY <1>4 DEF Insert, Goto, TypeOK, Request
      <3>4. Idle.before = {}
        BY DEF Idle
      <3>5. \A e \in Clients : \A t \in req'[e].before : /\ e # c /\ t \in Rows /\ t < nextRow
                                                          /\ row'[t] = row[t]
        <4> SUFFICES ASSUME NEW e \in Clients, NEW t \in req'[e].before
                     PROVE  e # c /\ t \in Rows /\ t < nextRow /\ row'[t] = row[t]
          OBVIOUS
        <4>1. e # c /\ t \in req[e].before /\ t \in Rows
          BY <3>3, <3>4
        <4>2. t < nextRow
          BY <4>1 DEF KeysOK, BeforeOK
        <4> QED
          BY <3>1, <3>2, <4>1, <4>2 DEF Rows
      <3>6. IdsFresh'
        BY <2>2, <3>1, <3>2 DEF KeysOK, IdsFresh, Rows
      <3>7. BeforeOK'
        BY <2>2, <3>1, <3>3, <3>5 DEF KeysOK, BeforeOK, Rows
      <3>8. InsertsOnlyNew'
        BY <3>3, <3>5 DEF KeysOK, InsertsOnlyNew, At
      <3> QED
        BY <3>6, <3>7, <3>8 DEF KeysOK
    <2> QED
      BY <1>4, <2>1, <2>2 DEF Insert
  <1>5. ASSUME NEW t \in Rows, NEW s \in {"success", "failed"}, TaskEnds(t, s) PROVE KeysOK'
    <2>1. \A x \in Rows : /\ x # t => row'[x] = row[x]
                          /\ row'[t].user = row[t].user /\ row'[t].key = row[t].key
      BY <1>5 DEF TaskEnds, TypeOK, Row
    <2>2. row[t].state # "absent" /\ UNCHANGED <<UserOf, nextRow, req>>
      BY <1>5 DEF TaskEnds
    <2> QED
      BY <2>1, <2>2, RowsOnlyGo
  <1>6. ASSUME NEW t \in Rows, RetryById(t) PROVE KeysOK'
    <2>1. \A x \in Rows : /\ x # t => row'[x] = row[x]
                          /\ row'[t].user = row[t].user /\ row'[t].key = row[t].key
      BY <1>6 DEF RetryById, TypeOK, Row
    <2>2. row[t].state # "absent" /\ UNCHANGED <<UserOf, nextRow, req>>
      BY <1>6 DEF RetryById
    <2> QED
      BY <2>1, <2>2, RowsOnlyGo
  <1>7. ASSUME NEW t \in Rows, DeleteById(t) PROVE KeysOK'
    <2>1. \A x \in Rows : (x # t => row'[x] = row[x]) /\ row'[t].state = "absent"
      BY <1>7 DEF DeleteById, TypeOK, Absent
    <2>2. UNCHANGED <<UserOf, nextRow, req>>
      BY <1>7 DEF DeleteById
    <2> QED
      BY <2>1, <2>2, RowsOnlyGo
  <1>8. CASE UNCHANGED <<UserOf, nextRow, req, row>>
    BY <1>8, RowsOnlyGo
  <1> QED
    BY <1>1, <1>2, <1>3, <1>4, <1>5, <1>6, <1>7, <1>8 DEF Next, Step, Tick, vars

\* A request that is about to insert has seen every task of its key that was
\* there when it began deleted: only requests that overlap can insert twice.
THEOREM IdempotentAfterwards == Spec => []InsertsOnlyNew
  <1>1. Init => KeysOK
    BY DEF Init, KeysOK, IdsFresh, BeforeOK, InsertsOnlyNew, Absent, Idle, At
  <1>2. KeysOK => InsertsOnlyNew
    BY DEF KeysOK
  <1> QED
    BY <1>1, <1>2, TypeCorrect, KeysStep, PTL DEF Spec

-----------------------------------------------------------------------------
(***************************************************************************)
(* The quota.                                                              *)
(***************************************************************************)
Own(u) == {c \in Clients : UserOf[c] = u}

\* The sets that are counted are finite.
LEMMA Finite ==
    ASSUME NEW u
    PROVE  /\ IsFiniteSet(Active(u)) /\ IsFiniteSet(Created(u)) /\ IsFiniteSet(Counted(u))
           /\ IsFiniteSet(Own(u))
           /\ Cardinality(Created(u)) \in Nat /\ Cardinality(Counted(u)) \in Nat
           /\ Cardinality(Own(u)) \in Nat /\ Cardinality(Active(u)) \in Nat
           /\ Cardinality(Created(u)) <= Cardinality(Active(u))
           /\ Cardinality(Counted(u)) <= Cardinality(Own(u))
  <1>1. IsFiniteSet(Rows)
    BY ConfigAssumption, FS_Interval DEF Rows
  <1>2. Active(u) \in SUBSET Rows /\ Created(u) \in SUBSET Active(u)
    BY DEF Active, Created
  <1>3. Own(u) \in SUBSET Clients /\ Counted(u) \in SUBSET Own(u)
    BY DEF Own, Counted
  <1>4. IsFiniteSet(Active(u)) /\ IsFiniteSet(Own(u))
    BY <1>1, <1>2, <1>3, FS_Subset, ConfigAssumption
  <1>5. /\ IsFiniteSet(Created(u)) /\ IsFiniteSet(Counted(u))
        /\ Cardinality(Created(u)) <= Cardinality(Active(u))
        /\ Cardinality(Counted(u)) <= Cardinality(Own(u))
    BY <1>2, <1>3, <1>4, FS_Subset
  <1> QED
    BY <1>4, <1>5, FS_CardinalityType

\* Fewer tasks and fewer requests are within the quota if more of them were.
LEMMA FewerWithin ==
    ASSUME QuotaBounded, UNCHANGED UserOf,
           \A u \in Users : Created(u)' \subseteq Created(u) /\ Counted(u)' \subseteq Counted(u)
    PROVE  QuotaBounded'
  <1> SUFFICES ASSUME MaxActive > 0, NEW u \in Users \ Admins, Own(u) # {}
               PROVE  Cardinality(Created(u)') + Cardinality(Counted(u)')
                        < MaxActive + Cardinality(Own(u))
    BY DEF QuotaBounded, Own
  <1>1. Cardinality(Created(u)) + Cardinality(Counted(u)) < MaxActive + Cardinality(Own(u))
    BY DEF QuotaBounded, Own
  <1>2. /\ Created(u)' \in SUBSET Created(u) /\ Counted(u)' \in SUBSET Counted(u)
    OBVIOUS
  <1>3. /\ IsFiniteSet(Created(u)) /\ IsFiniteSet(Counted(u))
        /\ Cardinality(Created(u)) \in Nat /\ Cardinality(Counted(u)) \in Nat
        /\ Cardinality(Own(u)) \in Nat
    BY Finite
  <1>4. Cardinality(Created(u)') <= Cardinality(Created(u)) /\ IsFiniteSet(Created(u)')
    BY <1>2, <1>3, FS_Subset
  <1>5. Cardinality(Counted(u)') <= Cardinality(Counted(u)) /\ IsFiniteSet(Counted(u)')
    BY <1>2, <1>3, FS_Subset
  <1>6. Cardinality(Created(u)') \in Nat /\ Cardinality(Counted(u)') \in Nat
    BY <1>4, <1>5, FS_CardinalityType
  <1> QED
    BY <1>1, <1>3, <1>4, <1>5, <1>6, ConfigAssumption

\* A step of one request changes who is counted at that request only.
LEMMA CountedStep ==
    ASSUME TypeOK, UNCHANGED UserOf, NEW c \in Clients, NEW q, Goto(c, q), NEW u
    PROVE  /\ q.pc \notin {"lookup", "insert"} => Counted(u)' = Counted(u) \ {c}
           /\ At(c, "lookup") => Counted(u)' \subseteq Counted(u)
           /\ UserOf[c] # u => Counted(u)' \subseteq Counted(u)
  <1>1. \A e \in Clients : req'[e] = IF e = c THEN q ELSE req[e]
    BY DEF Goto, TypeOK
  <1> QED
    BY <1>1 DEF Counted, At

\* The rows that are active since they were created, after a step that keeps
\* the rows.
LEMMA CreatedFrame == ASSUME UNCHANGED row PROVE \A u \in Users : Created(u)' = Created(u)
  BY DEF Created, Active

\* A request that leaves the count or the lookup, or does not come to it.
LEMMA NotCounted ==
    ASSUME TypeOK, QuotaBounded, UNCHANGED <<UserOf, row>>, NEW c \in Clients, NEW q, Goto(c, q),
           q.pc \notin {"lookup", "insert"} \/ At(c, "lookup")
    PROVE  QuotaBounded'
  <1>1. \A u \in Users : Counted(u)' \subseteq Counted(u)
    BY CountedStep
  <1> QED
    BY <1>1, CreatedFrame, FewerWithin

\* Every step keeps the quota.
LEMMA QuotaStep == TypeOK /\ QuotaBounded /\ [Next]_vars => QuotaBounded'
  <1> SUFFICES ASSUME TypeOK, QuotaBounded, [Next]_vars PROVE QuotaBounded'
    OBVIOUS
  <1>0. ASSUME NEW c \in Clients PROVE Idle.pc = "idle" /\ Passed(c).pc = "count"
    BY RequestTypes DEF Idle, Passed, Request
  <1>1. ASSUME NEW c \in Clients, NEW k \in Keys \cup {NoKey}, Begin(c, k) PROVE QuotaBounded'
    <2> DEFINE p == [pc |-> "count", key |-> k, at |-> 0, before |-> RowsOf(c, k)]
               q == [pc |-> "limit", key |-> k, at |-> nowMs(Home[c]), before |-> RowsOf(c, k)]
    <2>1. p.pc = "count" /\ q.pc = "limit"
      OBVIOUS
    <2>2. (Goto(c, p) \/ Goto(c, q)) /\ UNCHANGED <<UserOf, row>>
      BY <1>1 DEF Begin
    <2> HIDE DEF p, q
    <2> QED
      BY <2>1, <2>2, NotCounted
  <1>2. ASSUME NEW c \in Clients, Acquire(c) \/ Refuse(c) \/ LimiterFails(c) PROVE QuotaBounded'
    <2>1. (Goto(c, Idle) \/ Goto(c, Passed(c))) /\ UNCHANGED <<UserOf, row>>
      BY <1>2 DEF Acquire, Refuse, LimiterFails
    <2> QED
      BY <1>0, <2>1, NotCounted
  <1>3. ASSUME NEW c \in Clients, CountActive(c) PROVE QuotaBounded'
    <2>1. CASE Goto(c, Idle)
      BY <1>0, <1>3, <2>1, NotCounted DEF CountActive
    <2>2. CASE ~OverQuota(c) /\ Goto(c, [req[c] EXCEPT !.pc = "lookup"])
      <3> SUFFICES ASSUME MaxActive > 0, NEW u \in Users \ Admins, Own(u) # {}
                   PROVE  Cardinality(Created(u)') + Cardinality(Counted(u)')
                            < MaxActive + Cardinality(Own(u))
        BY <1>3 DEF QuotaBounded, Own, CountActive
      <3>1. Created(u)' = Created(u) /\ UNCHANGED UserOf
        BY <1>3, CreatedFrame DEF CountActive
      <3>2. /\ IsFiniteSet(Counted(u)) /\ IsFiniteSet(Own(u))
            /\ Cardinality(Created(u)) \in Nat /\ Cardinality(Counted(u)) \in Nat
            /\ Cardinality(Own(u)) \in Nat /\ Cardinality(Active(u)) \in Nat
            /\ Cardinality(Created(u)) <= Cardinality(Active(u))
        BY Finite
      <3>3. Counted(u)' \in SUBSET Own(u)
        BY <3>1 DEF Counted, Own
      <3>4. Cardinality(Counted(u)') <= Cardinality(Own(u)) /\ Cardinality(Counted(u)') \in Nat
        BY <3>2, <3>3, FS_Subset, FS_CardinalityType
      <3>5. CASE UserOf[c] = u
        <4>1. Cardinality(Active(u)) < MaxActive
          BY <2>2, <3>2, <3>5, ConfigAssumption DEF OverQuota
        <4> QED
          BY <3>1, <3>2, <3>4, <4>1, ConfigAssumption
      <3>6. CASE UserOf[c] # u
        <4> DEFINE q == [req[c] EXCEPT !.pc = "lookup"]
        <4>1. Goto(c, q)
          BY <2>2
        <4> HIDE DEF q
        <4>2. Counted(u)' \in SUBSET Counted(u)
          BY <3>1, <3>6, <4>1, CountedStep
        <4>3. Cardinality(Counted(u)') <= Cardinality(Counted(u))
          BY <3>2, <4>2, FS_Subset
        <4>4. Cardinality(Created(u)) + Cardinality(Counted(u)) < MaxActive + Cardinality(Own(u))
          BY DEF QuotaBounded, Own
        <4> QED
          BY <3>1, <3>2, <3>4, <4>3, <4>4, ConfigAssumption
      <3> QED
        BY <3>5, <3>6
    <2> QED
      BY <1>3, <2>1, <2>2 DEF CountActive
  <1>4. ASSUME NEW c \in Clients, FindByRequestId(c) PROVE QuotaBounded'
    <2> DEFINE q == [req[c] EXCEPT !.pc = "insert"]
    <2>1. At(c, "lookup") /\ UNCHANGED <<UserOf, row>> /\ (Goto(c, Idle) \/ Goto(c, q))
      BY <1>4 DEF FindByRequestId
    <2> HIDE DEF q
    <2> QED
      BY <2>1, NotCounted
  <1>5. ASSUME NEW c \in Clients, Insert(c) PROVE QuotaBounded'
    <2>1. CASE UNCHANGED <<row, nextRow>>
      BY <1>0, <1>5, <2>1, NotCounted DEF Insert
    <2>2. CASE row' = [row EXCEPT ![nextRow] = [user |-> UserOf[c], key |-> req[c].key,
                                                state |-> "active", by |-> "create"]]
      <3> SUFFICES ASSUME MaxActive > 0, NEW u \in Users \ Admins, Own(u) # {}
                   PROVE  Cardinality(Created(u)') + Cardinality(Counted(u)')
                            < MaxActive + Cardinality(Own(u))
        BY <1>5 DEF QuotaBounded, Own, Insert
      <3>1. Goto(c, Idle) /\ UNCHANGED UserOf /\ nextRow \in Rows /\ At(c, "insert")
        BY <1>5 DEF Insert
      <3>2. Counted(u)' = Counted(u) \ {c}
        BY <1>0, <3>1, CountedStep
      <3>3. \A t \in Rows : row'[t] = IF t = nextRow
                                      THEN [user |-> UserOf[c], key |-> req[c].key,
                                            state |-> "active", by |-> "create"]
                                      ELSE row[t]
        BY <2>2, <3>1 DEF TypeOK
      <3>4. /\ UserOf[c] = u => Created(u)' \subseteq Created(u) \cup {nextRow}
            /\ UserOf[c] # u => Created(u)' \subseteq Created(u)
        BY <3>3 DEF Created, Active
      <3>5. /\ IsFiniteSet(Created(u)) /\ IsFiniteSet(Counted(u))
            /\ Cardinality(Created(u)) \in Nat /\ Cardinality(Counted(u)) \in Nat
            /\ Cardinality(Own(u)) \in Nat
        BY Finite
      <3>6. Cardinality(Created(u)) + Cardinality(Counted(u)) < MaxActive + Cardinality(Own(u))
        BY DEF QuotaBounded, Own
      <3>7. CASE UserOf[c] = u
        <4>1. c \in Counted(u)
          BY <3>1, <3>7 DEF Counted, At
        <4>2. Cardinality(Counted(u)') = Cardinality(Counted(u)) - 1
          BY <3>2, <3>5, <4>1, FS_RemoveElement
        <4>3. /\ IsFiniteSet(Created(u) \cup {nextRow})
              /\ Cardinality(Created(u) \cup {nextRow}) <= Cardinality(Created(u)) + 1
              /\ Cardinality(Created(u) \cup {nextRow}) \in Nat
          <5>1. /\ IsFiniteSet(Created(u) \cup {nextRow})
                /\ \/ Cardinality(Created(u) \cup {nextRow}) = Cardinality(Created(u))
                   \/ Cardinality(Created(u) \cup {nextRow}) = Cardinality(Created(u)) + 1
            BY <3>5, FS_AddElement, Zenon
          <5> QED
            BY <3>5, <5>1
        <4>4. Cardinality(Created(u)') <= Cardinality(Created(u) \cup {nextRow})
              /\ IsFiniteSet(Created(u)')
          BY <3>4, <3>7, <4>3, FS_Subset
        <4>5. Cardinality(Created(u)') \in Nat
          BY <4>4, FS_CardinalityType
        <4> QED
          BY <3>5, <3>6, <4>2, <4>3, <4>4, <4>5, ConfigAssumption
      <3>8. CASE UserOf[c] # u
        <4>1. Counted(u)' \in SUBSET Counted(u) /\ Created(u)' \in SUBSET Created(u)
          BY <3>2, <3>4, <3>8
        <4>2. /\ Cardinality(Counted(u)') <= Cardinality(Counted(u)) /\ IsFiniteSet(Counted(u)')
              /\ Cardinality(Created(u)') <= Cardinality(Created(u)) /\ IsFiniteSet(Created(u)')
          BY <3>5, <4>1, FS_Subset
        <4>3. Cardinality(Counted(u)') \in Nat /\ Cardinality(Created(u)') \in Nat
          BY <4>2, FS_CardinalityType
        <4> QED
          BY <3>5, <3>6, <4>2, <4>3, ConfigAssumption
      <3> QED
        BY <3>7, <3>8
    <2> QED
      BY <1>5, <2>1, <2>2 DEF Insert
  <1>6. ASSUME NEW t \in Rows, \/ \E s \in {"success", "failed"} : TaskEnds(t, s)
                               \/ RetryById(t) \/ DeleteById(t)
        PROVE  QuotaBounded'
    <2>1. \A u \in Users : Created(u)' \subseteq Created(u)
      <3>1. \A x \in Rows : x # t => row'[x] = row[x]
        BY <1>6 DEF TaskEnds, RetryById, DeleteById, TypeOK
      <3>2. row'[t].state # "active" \/ row'[t].by = "retry"
        BY <1>6 DEF TaskEnds, RetryById, DeleteById, TypeOK, Absent, Row
      <3> QED
        BY <3>1, <3>2 DEF Created, Active
    <2>2. UNCHANGED <<UserOf, req>>
      BY <1>6 DEF TaskEnds, RetryById, DeleteById
    <2>3. \A u \in Users : Counted(u)' = Counted(u)
      BY <2>2 DEF Counted
    <2> QED
      BY <2>1, <2>2, <2>3, FewerWithin
  <1>7. CASE UNCHANGED <<UserOf, req, row>>
    <2>1. \A u \in Users : Counted(u)' = Counted(u)
      BY <1>7 DEF Counted
    <2> QED
      BY <1>7, <2>1, CreatedFrame, FewerWithin
  <1> QED
    BY <1>1, <1>2, <1>3, <1>4, <1>5, <1>6, <1>7 DEF Next, Step, Tick, vars

\* However many requests of a user pass the check together, the tasks they
\* create exceed the quota by fewer than the requests that can be in flight.
THEOREM Quota == Spec => []QuotaBounded
  <1>1. Init => QuotaBounded
    <2> SUFFICES ASSUME Init, MaxActive > 0, NEW u \in Users \ Admins, Own(u) # {}
                 PROVE  Cardinality(Created(u)) + Cardinality(Counted(u))
                          < MaxActive + Cardinality(Own(u))
      BY DEF QuotaBounded, Own
    <2>1. Created(u) = {} /\ Counted(u) = {}
      BY DEF Init, Created, Active, Counted, Absent, Idle
    <2>2. Cardinality(Own(u)) \in Nat
      BY Finite
    <2> QED
      BY <2>1, <2>2, FS_EmptySet, ConfigAssumption
  <1> QED
    BY <1>1, TypeCorrect, QuotaStep, PTL DEF Spec
=============================================================================
