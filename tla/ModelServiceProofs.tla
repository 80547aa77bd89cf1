------------------------- MODULE ModelServiceProofs --------------------------
(***************************************************************************)
(* What /health says of the generations, for any number of requests and    *)
(* slots.  The list of start times loses its oldest entry whoever ends, so *)
(* it is not the list of the starts of those that run.  What relates the   *)
(* two: at least i of them started no later than the i-th entry, and, for  *)
(* one that was not overtaken, the entry whose number is the count of      *)
(* those that started no later is itself no later.  Last, the files: the   *)
(* cleanup deletes no image that is younger than its age.                  *)
(***************************************************************************)
EXTENDS ModelService, FiniteSetTheorems, TLAPS

-----------------------------------------------------------------------------
(***************************************************************************)
(* Types.                                                                  *)
(***************************************************************************)
\* The steps of load_model, from the lock to its release.
Loads(r) == LockLoad(r) \/ BeginLoad(r) \/ LoadModel(r) \/ EndLoad(r) \/ UnlockLoad(r)

\* What Append does to a list of start times.
LEMMA Appended ==
    ASSUME NEW s \in Seq(Times), NEW t \in Times
    PROVE  /\ Append(s, t) \in Seq(Times) /\ Len(Append(s, t)) = Len(s) + 1
           /\ \A i \in 1..Len(s) : Append(s, t)[i] = s[i]
           /\ Append(s, t)[Len(s) + 1] = t
  OBVIOUS

\* What the removal of the oldest does to it.
LEMMA PoppedOne ==
    ASSUME NEW s \in Seq(Times), Len(s) > 0
    PROVE  /\ Popped(s) \in Seq(Times) /\ Len(Popped(s)) = Len(s) - 1
           /\ \A i \in 1..(Len(s) - 1) : Popped(s)[i] = s[i + 1]
  <1>1. s # << >>
    OBVIOUS
  <1> QED
    BY <1>1 DEF Popped

\* The thread of a request goes from one place to the next.
LEMMA GotoType ==
    ASSUME TypeOK, NEW r \in Requests, Goto(r, "check") \/ Goto(r, "lock") \/ Goto(r, "locked")
             \/ Goto(r, "load") \/ Goto(r, "loaded") \/ Goto(r, "unlock") \/ Goto(r, "acquire") \/ Goto(r, "admitted") \/ Goto(r, "ending")
             \/ Goto(r, "answered") \/ Goto(r, "refused")
    PROVE  req' \in [Requests -> Request]
  <1>1. req[r] \in Request
    BY DEF TypeOK
  <1>2. PICK pc \in {"check", "lock", "locked", "load", "loaded", "unlock", "acquire",
                        "admitted", "ending", "answered", "refused"} :
           Goto(r, pc)
    OBVIOUS
  <1>3. [req[r] EXCEPT !.pc = pc] \in Request
    BY <1>1 DEF Request
  <1>4. req' = [req EXCEPT ![r] = [req[r] EXCEPT !.pc = pc]]
    BY <1>2 DEF Goto, TypeOK
  <1> QED
    BY <1>3, <1>4 DEF TypeOK

\* The generation that ends is told, the others may be overtaken.
LEMMA FinishedType ==
    ASSUME TypeOK, NEW r \in Requests, MarkFinished(r)
    PROVE  req' \in [Requests -> Request]
  <1> DEFINE late(q) == req[q].overtaken \/ (q \in Running /\ req[q].start < req[r].start)
             new(q) == IF q = r THEN [pc |-> "leaving", start |-> 0, overtaken |-> FALSE]
                       ELSE [req[q] EXCEPT !.overtaken = late(q)]
  <1>1. req' = [q \in Requests |-> new(q)]
    BY DEF MarkFinished
  <1>2. ASSUME NEW q \in Requests PROVE new(q) \in Request
    <2>1. [pc |-> "leaving", start |-> 0, overtaken |-> FALSE] \in Request
      BY ServiceAssumption DEF Request, Times
    <2>2. req[q] \in Request
      BY DEF TypeOK
    <2>3. late(q) \in BOOLEAN
      BY <2>2 DEF Request
    <2> HIDE DEF late
    <2>4. [req[q] EXCEPT !.overtaken = late(q)] \in Request
      BY <2>2, <2>3 DEF Request
    <2> QED
      BY <2>1, <2>4
  <1> HIDE DEF new
  <1> QED
    BY <1>1, <1>2

\* Every step keeps the types.
LEMMA TypeStep == TypeOK /\ [Next]_vars => TypeOK'
  <1> SUFFICES ASSUME TypeOK, [Next]_vars PROVE TypeOK'
    OBVIOUS
  <1>1. ASSUME NEW r \in Requests, Generate(r) \/ CheckPipe(r) \/ Acquire(r) \/ Release(r)
        PROVE  TypeOK'
    <2>1. req' \in [Requests -> Request]
      BY <1>1, GotoType DEF Generate, CheckPipe, Acquire, Release
    <2> QED
      BY <1>1, <2>1 DEF Generate, CheckPipe, Acquire, Release, TypeOK
  <1>2. ASSUME NEW r \in Requests, Loads(r) PROVE TypeOK'
    <2>1. req' \in [Requests -> Request]
      BY <1>2, GotoType DEF Loads, LockLoad, BeginLoad, LoadModel, EndLoad, UnlockLoad
    <2> QED
      BY <1>2, <2>1 DEF Loads, LockLoad, BeginLoad, LoadModel, EndLoad, UnlockLoad, TypeOK
  <1>3. ASSUME NEW r \in Requests, MarkStarted(r) PROVE TypeOK'
    <2>1. req[r] \in Request /\ now \in Times
      BY DEF TypeOK
    <2>2. [req[r] EXCEPT !.pc = "running", !.start = now] \in Request
      BY <2>1 DEF Request
    <2>3. req' = [req EXCEPT ![r] = [req[r] EXCEPT !.pc = "running", !.start = now]]
      BY <1>3 DEF MarkStarted, TypeOK
    <2>4. req' \in [Requests -> Request]
      BY <2>2, <2>3 DEF TypeOK
    <2>5. starts' \in Seq(Times)
      BY <1>3, <2>1, Appended DEF MarkStarted, TypeOK
    <2> QED
      BY <1>3, <2>4, <2>5 DEF MarkStarted, TypeOK
  <1>4. ASSUME NEW r \in Requests, RunPipe(r) PROVE TypeOK'
    <2>1. req' \in [Requests -> Request]
      BY <1>4, GotoType DEF RunPipe
    <2>2. NameOf[r] \in Names
      BY ServiceAssumption
    <2>3. file' \in [Names -> Times \cup {None}]
      BY <1>4, <2>2 DEF RunPipe, TypeOK
    <2> QED
      BY <1>4, <2>1, <2>3 DEF RunPipe, TypeOK
  <1>5. ASSUME NEW r \in Requests, MarkFinished(r) PROVE TypeOK'
    <2>1. starts' \in Seq(Times)
      <3>1. CASE starts = << >>
        BY <1>5, <3>1 DEF MarkFinished, TypeOK
      <3>2. CASE starts # << >>
        <4>1. Len(starts) > 0
          BY <3>2 DEF TypeOK
        <4> QED
          BY <1>5, <3>2, <4>1, PoppedOne DEF MarkFinished, TypeOK
      <3> QED
        BY <3>1, <3>2
    <2> QED
      BY <1>5, <2>1, FinishedType DEF MarkFinished, TypeOK
  <1>6. CASE WakeCleaner
    <2>1. Cutoff \in (0 - MaxAge)..MaxTime
      BY ServiceAssumption DEF Cutoff, TypeOK, Times
    <2>2. cleaner' \in Cleaner
      BY <1>6, <2>1 DEF WakeCleaner, Cleaner
    <2> QED
      BY <1>6, <2>2 DEF WakeCleaner, TypeOK
  <1>7. ASSUME NEW n \in Names, Stat(n) PROVE TypeOK'
    <2> DEFINE pc == IF Expired(n) THEN "unlink" ELSE cleaner.pc
               name == IF Expired(n) THEN n ELSE cleaner.name
               todo == cleaner.todo \ {n}
    <2>1. cleaner \in Cleaner
      BY DEF TypeOK
    <2>2. /\ pc \in {"asleep", "stat", "unlink"} /\ name \in Names \cup {None}
          /\ todo \in SUBSET Names /\ cleaner.cutoff \in (0 - MaxAge)..MaxTime
      BY <2>1 DEF Cleaner
    <2>3. cleaner' = [pc |-> pc, todo |-> todo, name |-> name, cutoff |-> cleaner.cutoff]
      BY <1>7, <2>1 DEF Stat, Cleaner
    <2> HIDE DEF pc, name, todo
    <2>4. cleaner' \in Cleaner
      BY <2>2, <2>3 DEF Cleaner
    <2> QED
      BY <1>7, <2>4 DEF Stat, TypeOK
  <1>8. CASE Unlink
    <2>1. cleaner \in Cleaner
      BY DEF TypeOK
    <2>2. cleaner' \in Cleaner
      BY <1>8, <2>1 DEF Unlink, Cleaner
    <2>3. file' \in [Names -> Times \cup {None}]
      BY <1>8 DEF Unlink, TypeOK
    <2> QED
      BY <1>8, <2>2, <2>3 DEF Unlink, TypeOK
  <1>9. CASE SleepCleaner
    <2>1. Asleep \in Cleaner
      BY ServiceAssumption DEF Asleep, Cleaner
    <2> QED
      BY <1>9, <2>1 DEF SleepCleaner, TypeOK
  <1>10. CASE Tick
    BY <1>10, ServiceAssumption DEF Tick, TypeOK, Times
  <1>11. CASE UNCHANGED vars
    BY <1>11 DEF vars, TypeOK
  <1> QED
    BY <1>1, <1>2, <1>3, <1>4, <1>5, <1>6, <1>7, <1>8, <1>9, <1>10, <1>11 DEF Next, Step, Loads

\* The state of the service has its type in every behaviour.
THEOREM TypeCorrect == Spec => []TypeOK
  <1>1. Init => TypeOK
    <2> SUFFICES ASSUME Init PROVE TypeOK
      OBVIOUS
    <2>1. 0 \in Times
      BY ServiceAssumption DEF Times
    <2>2. [pc |-> "new", start |-> 0, overtaken |-> FALSE] \in Request
      BY <2>1 DEF Request
    <2>3. Asleep \in Cleaner
      BY ServiceAssumption DEF Asleep, Cleaner
    <2>4. << >> \in Seq(Times)
      OBVIOUS
    <2> QED
      BY <2>1, <2>2, <2>3, <2>4 DEF Init, TypeOK
  <1> QED
    BY <1>1, TypeStep, PTL DEF Spec

-----------------------------------------------------------------------------
(***************************************************************************)
(* The slots and the load lock.                                            *)
(***************************************************************************)
\* Between taking the load lock and giving it back; past load_model.
Guarded == {"locked", "load", "loaded", "unlock"}
Served == {"acquire", "admitted", "running", "ending", "leaving"}

Locks == /\ Cardinality(Holding) <= MaxConcurrent
         /\ \A r \in Requests : req[r].pc \in Guarded => loader = r
         /\ loading => loader # None
         /\ \A r \in Requests : req[r].pc = "load" => loading /\ ~pipe
         /\ \A r \in Requests : req[r].pc \in {"locked", "unlock"} => ~loading
         /\ \A r \in Requests : req[r].pc \in Served => pipe

\* Sets of requests are finite.
LEMMA FiniteRequests ==
    ASSUME NEW S \in SUBSET Requests
    PROVE  IsFiniteSet(S) /\ Cardinality(S) \in Nat
  BY ServiceAssumption, FS_Subset, FS_CardinalityType

\* The requests that hold slots are fewer or the same.
LEMMA FewerHold ==
    ASSUME Cardinality(Holding) <= MaxConcurrent, Holding' \subseteq Holding
    PROVE  Cardinality(Holding') <= MaxConcurrent
  <1>1. Holding \in SUBSET Requests /\ Holding' \in SUBSET Requests
    BY DEF Holding
  <1>2. IsFiniteSet(Holding) /\ Cardinality(Holding) \in Nat /\ Cardinality(Holding') \in Nat
    BY <1>1, FiniteRequests
  <1>3. Cardinality(Holding') <= Cardinality(Holding)
    BY <1>2, FS_Subset
  <1> QED
    BY <1>2, <1>3, ServiceAssumption

\* What a step of one request's thread does to the places of all.
LEMMA GotoPlaces ==
    ASSUME TypeOK, NEW r \in Requests, NEW pc, Goto(r, pc)
    PROVE  \A q \in Requests : /\ req'[q].pc = IF q = r THEN pc ELSE req[q].pc
                               /\ req'[q].start = req[q].start
                               /\ req'[q].overtaken = req[q].overtaken
  BY DEF Goto, TypeOK, Request

\* A step of one thread that has to do with neither the lock nor the flag.
LEMMA LocksFrame ==
    ASSUME Locks, Cardinality(Holding') <= MaxConcurrent, UNCHANGED <<loader, loading, pipe>>,
           \A q \in Requests :
              \/ req'[q].pc = req[q].pc
              \/ /\ req'[q].pc \notin Guarded
                 /\ req'[q].pc \in Served => pipe
    PROVE  Locks'
  BY DEF Locks, Guarded

LEMMA LocksStep == TypeOK /\ Locks /\ [Next]_vars => Locks'
  <1> SUFFICES ASSUME TypeOK, Locks, [Next]_vars PROVE Locks'
    OBVIOUS
  <1>1. ASSUME NEW r \in Requests, Generate(r) \/ CheckPipe(r) \/ Release(r) \/ RunPipe(r)
        PROVE  Locks'
    <2>1. PICK pc \in {"check", "refused", "acquire", "lock", "answered", "ending"} :
             Goto(r, pc) /\ (pc = "ending" => At(r, "running")) /\ (pc = "acquire" => pipe)
      BY <1>1 DEF Generate, CheckPipe, Release, RunPipe
    <2>2. \A q \in Requests : req'[q].pc = IF q = r THEN pc ELSE req[q].pc
      BY <2>1, GotoPlaces
    <2>3. Holding' \subseteq Holding
      BY <2>1, <2>2 DEF Holding, At
    <2>4. UNCHANGED <<loader, loading, pipe>>
      BY <1>1 DEF Generate, CheckPipe, Release, RunPipe
    <2>5. pc \notin Guarded /\ (pc \in Served => pipe)
      BY <2>1 DEF Guarded, Served, Locks, At
    <2>6. Cardinality(Holding') <= MaxConcurrent
      BY <2>3, FewerHold DEF Locks
    <2> QED
      BY <2>2, <2>4, <2>5, <2>6, LocksFrame
  <1>2. ASSUME NEW r \in Requests, Loads(r) PROVE Locks'
    <2>1. PICK pc \in {"locked", "load", "loaded", "unlock", "acquire", "refused"} : Goto(r, pc)
      BY <1>2 DEF Loads, LockLoad, BeginLoad, LoadModel, EndLoad, UnlockLoad
    <2>2. \A q \in Requests : req'[q].pc = IF q = r THEN pc ELSE req[q].pc
      BY <2>1, GotoPlaces
    <2>3. Holding' \subseteq Holding
      BY <2>1, <2>2 DEF Holding
    <2>4. Cardinality(Holding') <= MaxConcurrent
      BY <2>3, FewerHold DEF Locks
    <2>5. ASSUME NEW q \in Requests, q # r PROVE req'[q].pc = req[q].pc
      BY <2>2, <2>5
    <2>6. CASE LockLoad(r)
      <3>1. req'[r].pc = "locked"
        BY <2>6, GotoPlaces DEF LockLoad
      <3>2. loader = None /\ loader' = r /\ UNCHANGED <<loading, pipe>>
        BY <2>6 DEF LockLoad
      <3>3. \A q \in Requests : req[q].pc \notin Guarded
        BY <3>2, ServiceAssumption DEF Locks
      <3> QED
        BY <2>4, <2>5, <3>1, <3>2, <3>3, ServiceAssumption DEF Locks, Guarded, Served
    <2>7. CASE ~LockLoad(r)
      <3>1. At(r, "locked") \/ At(r, "load") \/ At(r, "loaded") \/ At(r, "unlock")
        BY <1>2, <2>7 DEF Loads, BeginLoad, LoadModel, EndLoad, UnlockLoad
      <3>2. loader = r /\ r # None
        BY <3>1, ServiceAssumption DEF Locks, Guarded, At
      <3>3. \A q \in Requests : q # r => req[q].pc \notin Guarded /\ req'[q].pc \notin Guarded
        BY <2>5, <3>2 DEF Locks
      <3>4. CASE BeginLoad(r)
        <4>1. /\ UNCHANGED <<loader, pipe>> /\ req'[r].pc = IF pipe THEN "unlock" ELSE "load"
              /\ IF pipe THEN loading' = loading ELSE loading'
          BY <3>4, GotoPlaces DEF BeginLoad
        <4>2. ~loading
          BY <3>4 DEF Locks, BeginLoad, At
        <4> QED
          BY <2>4, <2>5, <3>2, <3>3, <4>1, <4>2 DEF Locks, Guarded, Served
      <3>5. CASE LoadModel(r)
        <4>1. /\ UNCHANGED <<loader, loading>> /\ req'[r].pc = "loaded" /\ ~pipe
          BY <3>5, GotoPlaces DEF LoadModel, Locks, At
        <4> QED
          BY <2>4, <2>5, <3>2, <3>3, <4>1 DEF Locks, Guarded, Served
      <3>6. CASE EndLoad(r)
        <4>1. /\ UNCHANGED <<loader, pipe>> /\ req'[r].pc = "unlock" /\ ~loading'
          BY <3>6, GotoPlaces DEF EndLoad
        <4> QED
          BY <2>4, <2>5, <3>2, <3>3, <4>1 DEF Locks, Guarded, Served
      <3>7. CASE UnlockLoad(r)
        <4>1. /\ UNCHANGED <<loading, pipe>> /\ ~loading
              /\ req'[r].pc = IF pipe THEN "acquire" ELSE "refused"
          BY <3>7, GotoPlaces DEF UnlockLoad, Locks, At
        <4> QED
          BY <2>4, <2>5, <3>3, <4>1 DEF Locks, Guarded, Served
      <3> QED
        BY <1>2, <2>7, <3>4, <3>5, <3>6, <3>7 DEF Loads
    <2> QED
      BY <2>6, <2>7
  <1>3. ASSUME NEW r \in Requests, Acquire(r) PROVE Locks'
    <2>1. \A q \in Requests : req'[q].pc = IF q = r THEN "admitted" ELSE req[q].pc
      BY <1>3, GotoPlaces DEF Acquire
    <2>2. Holding' = Holding \cup {r} /\ r \notin Holding
      BY <1>3, <2>1 DEF Holding, Acquire, At
    <2>3. Holding \in SUBSET Requests
      BY DEF Holding
    <2>4. IsFiniteSet(Holding) /\ Cardinality(Holding) \in Nat
      BY <2>3, FiniteRequests
    <2>5. Cardinality(Holding \cup {r}) = Cardinality(Holding) + 1
      BY <2>2, <2>4, FS_AddElement
    <2>6. Cardinality(Holding') <= MaxConcurrent
      BY <1>3, <2>2, <2>4, <2>5, ServiceAssumption DEF Acquire
    <2>7. UNCHANGED <<loader, loading, pipe>> /\ pipe
      BY <1>3 DEF Acquire, Locks, Served, At
    <2>8. "admitted" \notin Guarded
      BY DEF Guarded
    <2> QED
      BY <2>1, <2>6, <2>7, <2>8, LocksFrame
  <1>4. ASSUME NEW r \in Requests, MarkStarted(r) \/ MarkFinished(r) PROVE Locks'
    <2>1. \A q \in Requests : q # r => req'[q].pc = req[q].pc
      BY <1>4 DEF MarkStarted, MarkFinished, TypeOK, Request
    <2>2. req'[r].pc \in {"running", "leaving"} /\ r \in Holding
      BY <1>4 DEF MarkStarted, MarkFinished, TypeOK, Request, Holding, At
    <2>3. Holding' \subseteq Holding
      BY <2>1, <2>2 DEF Holding
    <2>4. UNCHANGED <<loader, loading, pipe>>
      BY <1>4 DEF MarkStarted, MarkFinished
    <2>5. req'[r].pc \notin Guarded /\ pipe
      BY <2>2 DEF Guarded, Served, Holding, Locks
    <2>6. Cardinality(Holding') <= MaxConcurrent
      BY <2>3, FewerHold DEF Locks
    <2> QED
      BY <2>1, <2>4, <2>5, <2>6, LocksFrame
  <1>5. CASE UNCHANGED <<req, loader, loading, pipe>>
    BY <1>5 DEF Locks, Holding
  <1> QED
    BY <1>1, <1>2, <1>3, <1>4, <1>5 DEF Next, Step, Loads, WakeCleaner, Stat, Unlink,
       SleepCleaner, Tick, vars

-----------------------------------------------------------------------------
(***************************************************************************)
(* The start times.                                                        *)
(***************************************************************************)
\* The generations that run and started no later than t.
Older(t) == {r \in Running : req[r].start <= t}

Sorted == /\ \A i, j \in 1..Len(starts) : i <= j => starts[i] <= starts[j]
          /\ \A i \in 1..Len(starts) : starts[i] <= now
          /\ \A r \in Running : req[r].start <= now

EnoughOlder == \A i \in 1..Len(starts) : i <= Cardinality(Older(starts[i]))

NotOvertaken ==
    \A r \in Running : ~req[r].overtaken =>
        starts[Cardinality(Older(req[r].start))] <= req[r].start

Books == Len(starts) = Cardinality(Running) /\ Sorted /\ EnoughOlder /\ NotOvertaken

\* Facts about the sets that are counted.
LEMMA OlderFinite ==
    ASSUME NEW t
    PROVE  /\ IsFiniteSet(Older(t)) /\ Cardinality(Older(t)) \in Nat
           /\ IsFiniteSet(Running) /\ Cardinality(Running) \in Nat
           /\ Cardinality(Older(t)) <= Cardinality(Running)
  <1>1. Running \in SUBSET Requests /\ Older(t) \in SUBSET Requests /\ Older(t) \in SUBSET Running
    BY DEF Running, Older
  <1>2. IsFiniteSet(Running)
    BY <1>1, FiniteRequests
  <1>3. Cardinality(Older(t)) <= Cardinality(Running)
    BY <1>1, <1>2, FS_Subset
  <1> QED
    BY <1>1, <1>3, FiniteRequests

\* A step that leaves the running generations and the list alone.
LEMMA BooksFrame ==
    ASSUME TypeOK, Books, UNCHANGED starts, now' \in Times, now <= now',
           \A r \in Requests : /\ r \in Running' <=> r \in Running
                               /\ r \in Running => /\ req'[r].start = req[r].start
                                                  /\ req'[r].overtaken = req[r].overtaken
    PROVE  Books'
  <1>1. Running' = Running
    BY DEF Running
  <1>2. \A t : Older(t)' = Older(t)
    BY <1>1 DEF Older, Running
  <1>3. Len(starts) = Cardinality(Running)'
    BY <1>1 DEF Books
  <1>4. Sorted'
    <2>1. now \in Nat /\ now' \in Nat /\ \A i \in 1..Len(starts) : starts[i] \in Nat
      BY ServiceAssumption DEF TypeOK, Times
    <2>2. \A r \in Running : req[r].start \in Nat
      BY ServiceAssumption DEF TypeOK, Times, Request, Running
    <2> QED
      BY <1>1, <2>1, <2>2 DEF Books, Sorted, Running
  <1>5. EnoughOlder'
    BY <1>2 DEF Books, EnoughOlder
  <1>6. NotOvertaken'
    <2> SUFFICES ASSUME NEW r \in Running', ~req'[r].overtaken
                 PROVE  starts'[Cardinality({q \in Running' : req'[q].start <= req'[r].start})]
                          <= req'[r].start
      BY DEF NotOvertaken, Older
    <2>1. r \in Running /\ r \in Requests /\ req'[r].start = req[r].start /\ ~req[r].overtaken
      BY <1>1 DEF Running
    <2>2. starts[Cardinality(Older(req[r].start))] <= req[r].start
      BY <2>1 DEF Books, NotOvertaken
    <2>3. {q \in Running' : req'[q].start <= req'[r].start} = Older(req[r].start)
      BY <1>1, <2>1 DEF Older, Running
    <2> QED
      BY <2>1, <2>2, <2>3
  <1> QED
    BY <1>3, <1>4, <1>5, <1>6 DEF Books

\* A generation that starts is the latest of all.
LEMMA StartedBooks ==
    ASSUME TypeOK, Books, NEW r \in Requests, MarkStarted(r) PROVE Books'
  <1> DEFINE n == Len(starts)
  <1>1. /\ starts \in Seq(Times) /\ now \in Times /\ n \in Nat /\ now \in Nat
        /\ \A i \in 1..n : starts[i] \in Nat
        /\ \A q \in Requests : req[q].start \in Nat
    BY ServiceAssumption DEF TypeOK, Times, Request
  <1>2. /\ Len(starts') = n + 1 /\ starts'[n + 1] = now
        /\ \A i \in 1..n : starts'[i] = starts[i]
    BY <1>1, Appended DEF MarkStarted
  <1>3. /\ r \notin Running /\ now' = now
        /\ req'[r].pc = "running" /\ req'[r].start = now
        /\ \A q \in Requests : q # r => req'[q] = req[q]
    BY DEF MarkStarted, At, Running, TypeOK, Request
  <1>4. Running' = Running \cup {r}
    BY <1>3 DEF Running
  <1>5. Cardinality(Running') = n + 1 /\ IsFiniteSet(Running')
    <2>1. IsFiniteSet(Running) /\ Cardinality(Running) = n
      BY OlderFinite DEF Books
    <2> QED
      BY <1>3, <1>4, <2>1, FS_AddElement
  <1> DEFINE older(t) == {q \in Running' : req'[q].start <= t}
  <1>6. ASSUME NEW t \in Nat, t < now PROVE older(t) = Older(t)
    BY <1>1, <1>3, <1>4, <1>6 DEF Older, Running
  <1>7. older(now) = Running'
    <2>1. \A q \in Running : req[q].start <= now
      BY DEF Books, Sorted
    <2> QED
      BY <1>1, <1>3, <1>4, <2>1 DEF Running
  <1>8. Sorted'
    <2>1. \A i \in 1..(n + 1) : i \in 1..n \/ i = n + 1
      BY <1>1
    <2>2. \A i \in 1..n : starts[i] <= now
      BY DEF Books, Sorted
    <2>3. \A i \in 1..(n + 1) : starts'[i] <= now
      BY <1>1, <1>2, <2>1, <2>2
    <2>4. \A i, j \in 1..(n + 1) : i <= j => starts'[i] <= starts'[j]
      <3> SUFFICES ASSUME NEW i \in 1..(n + 1), NEW j \in 1..(n + 1), i <= j
                   PROVE  starts'[i] <= starts'[j]
        OBVIOUS
      <3>1. CASE j = n + 1
        BY <1>2, <2>3, <3>1
      <3>2. CASE j \in 1..n
        <4>1. i \in 1..n
          BY <1>1, <3>2
        <4> QED
          BY <1>2, <3>2, <4>1 DEF Books, Sorted
      <3> QED
        BY <2>1, <3>1, <3>2
    <2>5. \A q \in Running' : req'[q].start <= now'
      BY <1>1, <1>3, <1>4 DEF Books, Sorted, Running
    <2> QED
      BY <1>2, <1>3, <2>3, <2>4, <2>5 DEF Sorted
  <1>9. EnoughOlder'
    <2> SUFFICES ASSUME NEW i \in 1..(n + 1) PROVE i <= Cardinality(older(starts'[i]))
      BY <1>2 DEF EnoughOlder, Older
    <2>1. CASE starts'[i] = now
      <3>1. older(starts'[i]) = Running'
        BY <1>7, <2>1
      <3>2. Cardinality(older(starts'[i])) = n + 1
        BY <1>5, <3>1
      <3> HIDE DEF older
      <3> QED
        BY <1>1, <3>2
    <2>2. CASE starts'[i] # now
      <3>1. i \in 1..n /\ starts'[i] = starts[i]
        BY <1>1, <1>2, <2>2
      <3>2. starts[i] < now
        BY <1>1, <2>2, <3>1 DEF Books, Sorted
      <3>3. older(starts'[i]) = Older(starts[i])
        BY <1>1, <1>6, <3>1, <3>2
      <3> QED
        BY <3>1, <3>3 DEF Books, EnoughOlder
    <2> QED
      BY <2>1, <2>2
  <1>10. NotOvertaken'
    <2> SUFFICES ASSUME NEW q \in Running', ~req'[q].overtaken
                 PROVE  starts'[Cardinality(older(req'[q].start))] <= req'[q].start
      BY DEF NotOvertaken, Older
    <2>1. CASE req'[q].start = now
      BY <1>1, <1>2, <1>5, <1>7, <2>1
    <2>2. CASE req'[q].start # now
      <3>1. q \in Running /\ q \in Requests /\ req'[q] = req[q]
        BY <1>3, <1>4, <2>2 DEF Running
      <3>2. req[q].start < now /\ req[q].start \in Nat
        BY <1>1, <2>2, <3>1 DEF Books, Sorted
      <3>3. older(req'[q].start) = Older(req[q].start)
        BY <1>6, <3>1, <3>2
      <3>4. starts[Cardinality(Older(req[q].start))] <= req[q].start
        BY <3>1 DEF Books, NotOvertaken
      <3>5. Cardinality(Older(req[q].start)) \in 1..n
        <4>1. q \in Older(req[q].start)
          BY <3>1, <3>2 DEF Older
        <4>2. /\ Cardinality(Older(req[q].start)) \in Nat
              /\ Cardinality(Older(req[q].start)) <= n
              /\ IsFiniteSet(Older(req[q].start))
          BY OlderFinite DEF Books
        <4>3. Cardinality(Older(req[q].start)) # 0
          BY <4>1, <4>2, FS_EmptySet
        <4> QED
          BY <1>1, <4>2, <4>3
      <3> QED
        BY <1>2, <3>1, <3>3, <3>4, <3>5
    <2> QED
      BY <2>1, <2>2
  <1> QED
    BY <1>2, <1>5, <1>8, <1>9, <1>10 DEF Books

\* A generation that ends takes the oldest entry along, and if it started
\* after another the other one is marked.
LEMMA FinishedBooks ==
    ASSUME TypeOK, Books, NEW r \in Requests, MarkFinished(r) PROVE Books'
  <1> DEFINE n == Len(starts)
  <1>1. /\ starts \in Seq(Times) /\ now \in Times /\ n \in Nat /\ now \in Nat
        /\ \A i \in 1..n : starts[i] \in Nat
        /\ \A q \in Requests : req[q].start \in Nat
    BY ServiceAssumption DEF TypeOK, Times, Request
  <1>2. r \in Running /\ now' = now
    BY DEF MarkFinished, At, Running
  <1>3. \A q \in Requests : q # r =>
           /\ req'[q].pc = req[q].pc /\ req'[q].start = req[q].start
           /\ q \in Running /\ req[q].start < req[r].start => req'[q].overtaken
           /\ req[q].overtaken => req'[q].overtaken
    BY DEF MarkFinished, TypeOK, Request
  <1>4. Running' = Running \ {r}
    <2>1. req'[r].pc = "leaving"
      BY DEF MarkFinished
    <2> QED
      BY <1>3, <2>1 DEF Running
  <1>5. IsFiniteSet(Running) /\ Cardinality(Running) = n
    BY OlderFinite DEF Books
  <1>6. Cardinality(Running') = n - 1
    BY <1>2, <1>4, <1>5, FS_RemoveElement
  <1>7. n > 0
    <2>1. Running # {}
      BY <1>2
    <2> QED
      BY <1>1, <1>5, <2>1, FS_EmptySet
  <1>8. /\ Len(starts') = n - 1
        /\ \A i \in 1..(n - 1) : starts'[i] = starts[i + 1]
    <2>1. starts' = Popped(starts)
      BY <1>7 DEF MarkFinished
    <2> QED
      BY <1>1, <1>7, <2>1, PoppedOne
  <1> DEFINE older(t) == {q \in Running' : req'[q].start <= t}
  <1>9. ASSUME NEW t PROVE older(t) = Older(t) \ {r}
    BY <1>3, <1>4 DEF Older, Running
  <1>10. ASSUME NEW t
         PROVE  /\ Cardinality(older(t)) \in Nat
                /\ Cardinality(Older(t)) \in Nat
                /\ Cardinality(older(t)) = IF r \in Older(t) THEN Cardinality(Older(t)) - 1
                                           ELSE Cardinality(Older(t))
    <2>1. IsFiniteSet(Older(t)) /\ Cardinality(Older(t)) \in Nat
      BY OlderFinite
    <2>2. IsFiniteSet(Older(t) \ {r})
          /\ Cardinality(Older(t) \ {r}) = IF r \in Older(t) THEN Cardinality(Older(t)) - 1
                                            ELSE Cardinality(Older(t))
      BY <2>1, FS_RemoveElement
    <2>3. Cardinality(Older(t) \ {r}) \in Nat
      BY <2>2, FS_CardinalityType
    <2> QED
      BY <1>9, <2>1, <2>2, <2>3
  <1> HIDE DEF older
  <1>11. Sorted'
    <2>1. \A i \in 1..(n - 1) : starts'[i] <= now
      BY <1>1, <1>8 DEF Books, Sorted
    <2>2. \A i, j \in 1..(n - 1) : i <= j => starts'[i] <= starts'[j]
      BY SMTT(30), <1>1, <1>8 DEF Books, Sorted
    <2>3. \A q \in Running' : req'[q].start <= now
      BY <1>3, <1>4 DEF Books, Sorted, Running
    <2> QED
      BY <1>2, <1>8, <2>1, <2>2, <2>3 DEF Sorted
  <1>12. EnoughOlder'
    <2> SUFFICES ASSUME NEW i \in 1..(n - 1) PROVE i <= Cardinality(older(starts'[i]))
      BY <1>8 DEF EnoughOlder, Older, older
    <2>1. i + 1 <= Cardinality(Older(starts[i + 1])) /\ starts'[i] = starts[i + 1]
      BY <1>1, <1>8 DEF Books, EnoughOlder
    <2>2. /\ Cardinality(older(starts[i + 1])) \in Nat
          /\ Cardinality(Older(starts[i + 1])) \in Nat
          /\ \/ Cardinality(older(starts[i + 1])) = Cardinality(Older(starts[i + 1])) - 1
             \/ Cardinality(older(starts[i + 1])) = Cardinality(Older(starts[i + 1]))
      BY <1>10
    <2> QED
      BY <2>1, <2>2
  <1>13. NotOvertaken'
    <2> SUFFICES ASSUME NEW q \in Running', ~req'[q].overtaken
                 PROVE  starts'[Cardinality(older(req'[q].start))] <= req'[q].start
      BY DEF NotOvertaken, Older, older
    <2>1. /\ q \in Running /\ q \in Requests /\ q # r /\ req'[q].start = req[q].start
          /\ ~req[q].overtaken /\ ~(req[q].start < req[r].start)
      BY <1>3, <1>4 DEF Running
    <2> DEFINE t == req[q].start
               k == Cardinality(Older(t))
    <2>2. starts[k] <= t
      BY <2>1 DEF Books, NotOvertaken
    <2>3. r \in Older(t) /\ q \in Older(t) \ {r}
      BY <1>1, <1>2, <2>1 DEF Older
    <2>4. k \in Nat /\ k <= n /\ Cardinality(older(t)) = k - 1 /\ k - 1 \in Nat
      BY <1>10, <2>3, OlderFinite DEF Books
    <2>5. k - 1 # 0
      <3>1. IsFiniteSet(older(t)) /\ older(t) # {}
        <4>1. older(t) = Older(t) \ {r}
          BY <1>9
        <4>2. IsFiniteSet(Older(t) \ {r})
          BY OlderFinite, FS_RemoveElement
        <4> QED
          BY <2>3, <4>1, <4>2
      <3> QED
        BY <2>4, <3>1, FS_EmptySet
    <2> HIDE DEF k
    <2>6. k - 1 \in 1..(n - 1)
      BY <1>1, <2>4, <2>5
    <2>7. starts'[k - 1] = starts[(k - 1) + 1] /\ (k - 1) + 1 = k
      BY <1>8, <2>4, <2>6
    <2> QED
      BY <2>1, <2>2, <2>4, <2>7
  <1> QED
    BY <1>6, <1>8, <1>11, <1>12, <1>13 DEF Books

\* Every step keeps the books.
LEMMA BooksStep == TypeOK /\ Books /\ [Next]_vars => Books'
  <1> SUFFICES ASSUME TypeOK, Books, [Next]_vars PROVE Books'
    OBVIOUS
  <1>1. TypeOK'
    BY TypeStep
  <1>2. now' \in Times /\ (now' = now => now <= now')
    BY <1>1, ServiceAssumption DEF TypeOK, Times
  <1>3. ASSUME NEW r \in Requests,
               \/ Generate(r) \/ CheckPipe(r) \/ Loads(r) \/ Acquire(r)
               \/ RunPipe(r) \/ Release(r)
        PROVE  Books'
    <2>1. ASSUME NEW pc, Goto(r, pc), r \in Running <=> pc = "ending",
                 pc # "running", NEW q \in Requests
          PROVE  /\ q \in Running' <=> q \in Running
                 /\ req'[q].start = req[q].start /\ req'[q].overtaken = req[q].overtaken
      <3>1. \A x \in Requests : /\ req'[x].pc = IF x = r THEN pc ELSE req[x].pc
                                /\ req'[x].start = req[x].start
                                /\ req'[x].overtaken = req[x].overtaken
        BY <2>1, GotoPlaces
      <3> QED
        BY <2>1, <3>1 DEF Running
    <2>2. \/ (r \notin Running /\ \/ Goto(r, "check") \/ Goto(r, "refused") \/ Goto(r, "acquire")
                                  \/ Goto(r, "lock") \/ Goto(r, "locked") \/ Goto(r, "load")
                                  \/ Goto(r, "loaded") \/ Goto(r, "unlock")
                                  \/ Goto(r, "admitted") \/ Goto(r, "answered"))
          \/ (r \in Running /\ Goto(r, "ending"))
      BY <1>3 DEF Generate, CheckPipe, Loads, LockLoad, BeginLoad,
         LoadModel, EndLoad, UnlockLoad, Acquire, RunPipe, Release, Running, At
    <2>3. \A q \in Requests : /\ q \in Running' <=> q \in Running
                              /\ req'[q].start = req[q].start
                              /\ req'[q].overtaken = req[q].overtaken
      BY <2>1, <2>2
    <2>4. UNCHANGED <<starts, now>>
      BY <1>3 DEF Generate, CheckPipe, Loads, LockLoad, BeginLoad,
         LoadModel, EndLoad, UnlockLoad, Acquire, RunPipe, Release
    <2> QED
      BY <1>2, <2>3, <2>4, BooksFrame
  <1>4. CASE UNCHANGED <<starts, req, now>>
    <2>1. Running' = Running
      BY <1>4 DEF Running
    <2> QED
      BY <1>2, <1>4, <2>1, BooksFrame
  <1>5. CASE Tick
    <2>1. Running' = Running /\ UNCHANGED <<starts, req>>
      BY <1>5 DEF Tick, Running
    <2>2. now <= now'
      BY <1>5, ServiceAssumption DEF Tick, TypeOK, Times
    <2> QED
      BY <1>2, <2>1, <2>2, BooksFrame
  <1> QED
    BY <1>3, <1>4, <1>5, StartedBooks, FinishedBooks DEF Next, Step, Loads, WakeCleaner, Stat, Unlink,
       SleepCleaner, vars

\* Types, locks and books hold together.
LEMMA Invariants == Spec => [](TypeOK /\ Locks /\ Books)
  <1>1. Init => Locks /\ Books
    <2> SUFFICES ASSUME Init PROVE Locks /\ Books
      OBVIOUS
    <2>1. \A r \in Requests : req[r].pc = "new"
      BY DEF Init
    <2>2. Running = {} /\ Holding = {}
      BY <2>1 DEF Running, Holding
    <2>3. Cardinality(Running) = 0 /\ Cardinality(Holding) = 0
      BY <2>2, FS_EmptySet
    <2>4. Locks
      BY <2>1, <2>3, ServiceAssumption DEF Init, Locks, Guarded, Served
    <2>5. starts = << >> /\ Len(starts) = 0
      BY DEF Init
    <2>6. Sorted /\ EnoughOlder /\ NotOvertaken
      BY <2>2, <2>5 DEF Sorted, EnoughOlder, NotOvertaken
    <2> QED
      BY <2>3, <2>4, <2>5, <2>6 DEF Books
  <1> QED
    BY <1>1, TypeCorrect, LocksStep, BooksStep, PTL DEF Spec

\* /health counts exactly the generations under way, never more than the
\* slots; one thread at a time loads a model, and none while one is in use.
THEOREM AccountingHolds == Spec => []Accounting
  <1>1. Locks /\ Books => Accounting
    BY DEF Locks, Books, Accounting, Guarded, Served, Holding, At
  <1> QED
    BY <1>1, Invariants, PTL

\* The running generations that hold slots.
LEMMA RunningHolds ==
    Cardinality(Running) <= Cardinality(Holding) /\ Cardinality(Holding) \in Nat
  <1>1. Running \in SUBSET Holding /\ Holding \in SUBSET Requests
    BY DEF Running, Holding
  <1>2. IsFiniteSet(Holding) /\ Cardinality(Holding) \in Nat
    BY <1>1, FiniteRequests
  <1> QED
    BY <1>1, <1>2, FS_Subset

\* What a report of a loaded model says.
LEMMA LoadedStatus ==
    ASSUME TypeOK
    PROVE  Decision(TRUE) = "Proceed" <=>
             \/ Len(starts) = 0
             \/ ~Exceeded /\ Len(starts) < MaxConcurrent
  <1>1. Len(starts) \in Nat /\ MaxConcurrent \in Nat /\ MaxConcurrent > 0
    BY ServiceAssumption DEF TypeOK
  <1>2. CASE Len(starts) = 0
    <2>1. Status(TRUE) = "healthy"
      BY <1>1, <1>2 DEF Status
    <2> QED
      BY <1>2, <2>1 DEF Decision, Snapshot, decideForGenerate
  <1>3. CASE Len(starts) > 0 /\ Exceeded
    <2>1. Status(TRUE) = "unhealthy"
      BY <1>1, <1>3 DEF Status
    <2>2. Decision(TRUE) # "Proceed"
      BY <2>1 DEF Decision, Snapshot, decideForGenerate, deferOrFail
    <2>3. Len(starts) # 0
      BY <1>1, <1>3
    <2> QED
      BY <1>3, <2>2, <2>3, Zenon
  <1>4. CASE Len(starts) > 0 /\ ~Exceeded
    <2>1. Status(TRUE) = "busy"
      BY <1>1, <1>4 DEF Status
    <2>2. Decision(TRUE) = "Proceed" <=> ~(Len(starts) >= MaxConcurrent)
      BY <1>1, <1>4, <2>1 DEF Decision, Snapshot, decideForGenerate, deferOrFail,
         busyGenerationConflicts
    <2>3. Len(starts) # 0 /\ (~(Len(starts) >= MaxConcurrent) <=> Len(starts) < MaxConcurrent)
      BY <1>1, <1>4
    <2> QED
      BY <1>4, <2>2, <2>3, Zenon
  <1>5. Len(starts) = 0 \/ Len(starts) > 0
    BY <1>1
  <1> QED
    BY <1>2, <1>3, <1>4, <1>5, Zenon

\* The gate turns a task away only for a missing model, a full house or a
\* generation that really is past the threshold.
THEOREM NoFalseAlarms == Spec => []NoFalseAlarm
  <1>1. TypeOK /\ Locks /\ Books => NoFalseAlarm
    <2> SUFFICES ASSUME TypeOK, Locks, Books, NEW loaded \in Seen, Decision(loaded) # "Proceed",
                        loaded, Cardinality(Holding) # MaxConcurrent
                 PROVE  \E r \in Requests : Stuck(r)
      BY DEF NoFalseAlarm
    <2>1. loaded = TRUE
      BY DEF Seen
    <2>2. Len(starts) \in Nat /\ MaxConcurrent \in Nat /\ now \in Nat /\ Threshold \in Nat
      BY ServiceAssumption DEF TypeOK, Times
    <2>3. Len(starts) < MaxConcurrent
      <3>1. Len(starts) = Cardinality(Running) /\ Cardinality(Holding) <= MaxConcurrent
        BY DEF Locks, Books
      <3>2. Cardinality(Running) <= Cardinality(Holding) /\ Cardinality(Holding) \in Nat
        BY RunningHolds
      <3> QED
        BY <2>2, <3>1, <3>2
    <2>4. Len(starts) > 0 /\ Exceeded
      <3>1. Len(starts) # 0 /\ Exceeded
        BY <2>1, <2>3, LoadedStatus, Zenon
      <3> QED
        BY <2>2, <3>1
    <2>5. 1 <= Cardinality(Older(starts[1])) /\ starts[1] \in Nat
      <3>1. 1 \in 1..Len(starts)
        BY <2>2, <2>4
      <3>2. 1 <= Cardinality(Older(starts[1]))
        BY <3>1 DEF Books, EnoughOlder
      <3>3. starts[1] \in Nat
        BY <3>1, ServiceAssumption DEF TypeOK, Times
      <3> QED
        BY <3>2, <3>3
    <2>6. Older(starts[1]) # {}
      <3>1. Cardinality(Older(starts[1])) # 0
        BY <2>5, OlderFinite
      <3> QED
        BY <3>1, FS_EmptySet
    <2>7. PICK r \in Running : req[r].start <= starts[1]
      BY <2>6 DEF Older
    <2>8. r \in Requests /\ req[r].start \in Nat
      BY ServiceAssumption DEF Running, TypeOK, Request, Times
    <2>9. starts # << >>
      BY <2>4
    <2>10. now - starts[1] > Threshold
      BY <2>4, <2>9 DEF Exceeded, ActiveSeconds
    <2> QED
      BY <2>2, <2>5, <2>7, <2>8, <2>10 DEF Stuck
  <1> QED
    BY <1>1, Invariants, PTL

\* The gate lets a task through only to a model and a slot that are there, and
\* past a stuck generation only if one that started later has ended.
THEOREM StuckIsSeen == Spec => []StuckSeen
  <1>1. TypeOK /\ Locks /\ Books => StuckSeen
    <2> SUFFICES ASSUME TypeOK, Locks, Books, NEW loaded \in Seen, Decision(loaded) = "Proceed"
                 PROVE  /\ pipe /\ Cardinality(Running) < MaxConcurrent
                        /\ \A r \in Requests : Stuck(r) => req[r].overtaken
      BY DEF StuckSeen
    <2>1. loaded = TRUE /\ pipe
      <3>1. loaded \in BOOLEAN /\ (loaded => pipe)
        BY DEF Seen
      <3>2. CASE loaded = FALSE
        <4>1. Status(FALSE) \in {"loading", "unhealthy"}
          BY DEF Status
        <4>2. Decision(FALSE) # "Proceed"
          BY <4>1 DEF Decision, Snapshot, decideForGenerate, deferOrFail
        <4> QED
          BY <3>2, <4>2
      <3> QED
        BY <3>1, <3>2
    <2>2. /\ Len(starts) \in Nat /\ MaxConcurrent \in Nat /\ MaxConcurrent > 0 /\ now \in Nat
          /\ Threshold \in Nat /\ \A i \in 1..Len(starts) : starts[i] \in Nat
      BY ServiceAssumption DEF TypeOK, Times
    <2>3. Len(starts) = 0 \/ (~Exceeded /\ Len(starts) < MaxConcurrent)
      BY <2>1, LoadedStatus
    <2>4. Cardinality(Running) < MaxConcurrent
      BY <2>2, <2>3 DEF Books
    <2>5. ASSUME NEW r \in Requests, Stuck(r), ~req[r].overtaken PROVE FALSE
      <3> DEFINE t == req[r].start
                 k == Cardinality(Older(t))
      <3>1. r \in Running /\ now - t > Threshold /\ t \in Nat
        BY <2>5, ServiceAssumption DEF Stuck, TypeOK, Request, Times
      <3>2. starts[k] <= t
        BY <2>5, <3>1 DEF Books, NotOvertaken
      <3>3. r \in Older(t)
        BY <3>1 DEF Older
      <3>4. k \in Nat /\ k <= Len(starts) /\ IsFiniteSet(Older(t))
        BY OlderFinite DEF Books
      <3>5. k # 0
        BY <3>3, <3>4, FS_EmptySet
      <3> HIDE DEF k
      <3>6. k \in 1..Len(starts) /\ 1 \in 1..Len(starts) /\ 1 <= k
        BY <2>2, <3>4, <3>5
      <3>7. starts[1] <= starts[k]
        BY <3>6 DEF Books, Sorted
      <3>8. starts[1] \in Nat /\ starts[k] \in Nat
        BY <2>2, <3>6
      <3>9. now - starts[1] > Threshold
        BY <2>2, <3>1, <3>2, <3>7, <3>8
      <3>10. starts # << >> /\ Len(starts) # 0
        BY <2>2, <3>6
      <3>11. Exceeded
        BY <3>9, <3>10 DEF Exceeded, ActiveSeconds
      <3> QED
        BY <2>3, <3>10, <3>11
    <2> QED
      BY <2>1, <2>4, <2>5
  <1> QED
    BY <1>1, Invariants, PTL

-----------------------------------------------------------------------------
(***************************************************************************)
(* The files.  A file that the cleanup is about to delete was old when it  *)
(* was looked at; if it has been written since, then by another request of *)
(* its name than the one that had written it before.                       *)
(***************************************************************************)
Saved(r) == req[r].pc \in {"ending", "leaving", "answered"}
Named(n) == {r \in Requests : NameOf[r] = n}
TwoOf(n) == \E q, r \in Named(n) : q # r
Old(n) == file[n] <= cleaner.cutoff

FromRequest == \A n \in Names : file[n] # None => \E r \in Named(n) : Saved(r)

Aged == /\ cleaner.pc # "asleep" => cleaner.cutoff <= now - MaxAge
        /\ cleaner.pc = "unlink" =>
             /\ cleaner.name \in Names /\ file[cleaner.name] # None
             /\ Old(cleaner.name) \/ TwoOf(cleaner.name)

Files == FromRequest /\ Aged

\* A step that writes no file and moves no request back.
LEMMA FilesFrame ==
    ASSUME Files, UNCHANGED <<now, file, cleaner>>, \A r \in Requests : Saved(r) => Saved(r)'
    PROVE  Files'
  <1>1. FromRequest'
    <2> SUFFICES ASSUME NEW n \in Names, file'[n] # None
                 PROVE  \E r \in Named(n) : Saved(r)'
      BY DEF FromRequest, Named
    <2>1. PICK r \in Named(n) : Saved(r)
      BY DEF Files, FromRequest
    <2> QED
      BY <2>1 DEF Named
  <1>2. Aged'
    BY DEF Files, Aged, Old, TwoOf, Named
  <1> QED
    BY <1>1, <1>2 DEF Files

\* The image of a request is written.
LEMMA FilesWritten ==
    ASSUME TypeOK, Files, NEW r \in Requests, At(r, "running"), Goto(r, "ending"),
           file' = [file EXCEPT ![NameOf[r]] = now], UNCHANGED <<now, cleaner>>
    PROVE  Files'
  <1>1. NameOf[r] \in Names /\ r \in Named(NameOf[r]) /\ ~Saved(r)
    BY ServiceAssumption DEF Named, Saved, At
  <1>2. Saved(r)' /\ \A q \in Requests : Saved(q) => Saved(q)'
    BY GotoPlaces DEF Saved
  <1>3. \A n \in Names : n # NameOf[r] => file'[n] = file[n]
    BY DEF TypeOK
  <1>4. FromRequest'
    <2> SUFFICES ASSUME NEW n \in Names, file'[n] # None
                 PROVE  \E q \in Named(n) : Saved(q)'
      BY DEF FromRequest, Named
    <2>1. CASE n = NameOf[r]
      BY <1>1, <1>2, <2>1
    <2>2. CASE n # NameOf[r]
      <3>1. PICK q \in Named(n) : Saved(q)
        BY <1>3, <2>2 DEF Files, FromRequest
      <3> QED
        BY <1>2, <3>1 DEF Named
    <2> QED
      BY <2>1, <2>2
  <1>5. ASSUME cleaner.pc = "unlink", cleaner.name = NameOf[r] PROVE TwoOf(cleaner.name)
    <2>1. file[NameOf[r]] # None
      BY <1>5 DEF Files, Aged
    <2>2. PICK q \in Named(NameOf[r]) : Saved(q)
      BY <1>1, <2>1 DEF Files, FromRequest
    <2>3. q # r
      BY <1>1, <2>2
    <2> QED
      BY <1>1, <1>5, <2>2, <2>3 DEF TwoOf
  <1>6. ASSUME cleaner.pc = "unlink"
        PROVE  /\ cleaner.name \in Names /\ file'[cleaner.name] # None
               /\ file'[cleaner.name] <= cleaner.cutoff \/ TwoOf(cleaner.name)
    <2>1. cleaner.name \in Names /\ file[cleaner.name] # None
      BY <1>6 DEF Files, Aged
    <2>2. CASE cleaner.name = NameOf[r]
      <3>1. file'[NameOf[r]] = now /\ now # None
        BY <1>1, ServiceAssumption DEF TypeOK, Times
      <3> QED
        BY <1>5, <1>6, <2>1, <2>2, <3>1
    <2>3. CASE cleaner.name # NameOf[r]
      <3>1. file'[cleaner.name] = file[cleaner.name]
        BY <1>3, <2>1, <2>3
      <3> QED
        BY <1>6, <2>1, <3>1 DEF Files, Aged, Old
    <2> QED
      BY <2>2, <2>3
  <1>7. Aged'
    BY <1>6 DEF Files, Aged, Old, TwoOf, Named
  <1> QED
    BY <1>4, <1>7 DEF Files

\* The cleanup: it wakes, looks at a file, deletes one, and sleeps.
LEMMA FilesCleaned ==
    ASSUME TypeOK, Files, \/ WakeCleaner \/ (\E n \in Names : Stat(n)) \/ Unlink \/ SleepCleaner
    PROVE  Files'
  <1>1. /\ cleaner \in Cleaner /\ file \in [Names -> Times \cup {None}]
        /\ now' = now /\ \A r \in Requests : Saved(r)' <=> Saved(r)
    BY DEF TypeOK, WakeCleaner, Stat, Unlink, SleepCleaner, Saved
  <1>2. FromRequest'
    <2>1. \A n \in Names : file'[n] # None => file'[n] = file[n]
      BY <1>1 DEF WakeCleaner, Stat, Unlink, SleepCleaner
    <2> QED
      BY <1>1, <2>1 DEF Files, FromRequest, Named
  <1>3. CASE WakeCleaner
    <2>1. cleaner'.pc = "stat" /\ cleaner'.cutoff = now - MaxAge
      BY <1>3 DEF WakeCleaner, Cutoff
    <2>2. now - MaxAge <= now - MaxAge
      BY ServiceAssumption DEF TypeOK, Times
    <2> QED
      BY <1>1, <1>2, <2>1, <2>2 DEF Files, Aged
  <1>4. CASE \E n \in Names : Stat(n)
    <2>1. PICK n \in Names : Stat(n)
      BY <1>4
    <2>2. /\ cleaner.pc = "stat" /\ cleaner'.cutoff = cleaner.cutoff /\ file' = file
          /\ cleaner'.pc = "unlink" => Expired(n) /\ cleaner'.name = n
          /\ cleaner'.pc \in {"stat", "unlink"}
      BY <1>1, <2>1 DEF Stat, Cleaner
    <2>3. cleaner.cutoff <= now - MaxAge
      BY <2>2 DEF Files, Aged
    <2> QED
      BY <1>1, <1>2, <2>2, <2>3 DEF Files, Aged, Old, Expired
  <1>5. CASE Unlink
    <2>1. cleaner.pc = "unlink" /\ cleaner'.pc = "stat" /\ cleaner'.cutoff = cleaner.cutoff
      BY <1>1, <1>5 DEF Unlink, Cleaner
    <2>2. cleaner.cutoff <= now - MaxAge
      BY <2>1 DEF Files, Aged
    <2> QED
      BY <1>1, <1>2, <2>1, <2>2 DEF Files, Aged
  <1>6. CASE SleepCleaner
    <2>1. cleaner'.pc = "asleep"
      BY <1>6 DEF SleepCleaner, Asleep
    <2> QED
      BY <1>2, <2>1 DEF Files, Aged
  <1> QED
    BY <1>3, <1>4, <1>5, <1>6

LEMMA FilesStep == TypeOK /\ Files /\ [Next]_vars => Files'
  <1> SUFFICES ASSUME TypeOK, Files, [Next]_vars PROVE Files'
    OBVIOUS
  <1>1. ASSUME NEW r \in Requests, NEW pc, Goto(r, pc), ~Saved(r) \/ pc \in {"leaving", "answered"},
               UNCHANGED <<now, file, cleaner>>
        PROVE  Files'
    <2>1. \A q \in Requests : Saved(q) => Saved(q)'
      BY <1>1, GotoPlaces DEF Saved
    <2> QED
      BY <1>1, <2>1, FilesFrame
  <1>2. ASSUME NEW r \in Requests,
               \/ Generate(r) \/ CheckPipe(r) \/ Loads(r) \/ Acquire(r)
               \/ Release(r)
        PROVE  Files'
    <2>1. UNCHANGED <<now, file, cleaner>>
      BY <1>2 DEF Generate, CheckPipe, Loads, LockLoad, BeginLoad,
         LoadModel, EndLoad, UnlockLoad, Acquire, Release
    <2>2. \/ ~Saved(r) /\ \/ Goto(r, "check") \/ Goto(r, "refused") \/ Goto(r, "acquire")
                          \/ Goto(r, "lock") \/ Goto(r, "locked") \/ Goto(r, "load")
                          \/ Goto(r, "loaded") \/ Goto(r, "unlock") \/ Goto(r, "admitted")
          \/ Goto(r, "answered")
      BY <1>2 DEF Generate, CheckPipe, Loads, LockLoad, BeginLoad,
         LoadModel, EndLoad, UnlockLoad, Acquire, Release, At, Saved
    <2> QED
      BY <1>1, <2>1, <2>2
  <1>3. ASSUME NEW r \in Requests, MarkStarted(r) PROVE Files'
    <2>1. UNCHANGED <<now, file, cleaner>>
      BY <1>3 DEF MarkStarted
    <2>2. ~Saved(r) /\ \A q \in Requests : q # r => req'[q] = req[q]
      BY <1>3 DEF MarkStarted, At, Saved, TypeOK
    <2>3. \A q \in Requests : Saved(q) => Saved(q)'
      BY <2>2 DEF Saved
    <2> QED
      BY <2>1, <2>3, FilesFrame
  <1>4. ASSUME NEW r \in Requests, RunPipe(r) PROVE Files'
    <2>1. CASE UNCHANGED file
      <3>1. ~Saved(r) /\ Goto(r, "ending") /\ UNCHANGED <<now, file, cleaner>>
        BY <1>4, <2>1 DEF RunPipe, At, Saved
      <3> QED
        BY <1>1, <3>1
    <2>2. CASE file' = [file EXCEPT ![NameOf[r]] = now]
      BY <1>4, <2>2, FilesWritten DEF RunPipe
    <2> QED
      BY <1>4, <2>1, <2>2 DEF RunPipe
  <1>5. ASSUME NEW r \in Requests, MarkFinished(r) PROVE Files'
    <2>1. UNCHANGED <<now, file, cleaner>>
      BY <1>5 DEF MarkFinished
    <2>2. \A q \in Requests : req'[q].pc = IF q = r THEN "leaving" ELSE req[q].pc
      BY <1>5 DEF MarkFinished, TypeOK, Request
    <2>3. \A q \in Requests : Saved(q) => Saved(q)'
      BY <2>2 DEF Saved
    <2> QED
      BY <2>1, <2>3, FilesFrame
  <1>6. CASE Tick
    <2>1. now \in Nat /\ now' = now + 1 /\ MaxAge \in Nat /\ UNCHANGED <<req, file, cleaner>>
      BY <1>6, ServiceAssumption DEF Tick, TypeOK, Times
    <2>2. cleaner.cutoff \in Int
      BY ServiceAssumption DEF TypeOK, Cleaner, Times
    <2>3. cleaner.cutoff <= now - MaxAge => cleaner.cutoff <= now' - MaxAge
      BY <2>1, <2>2
    <2>4. FromRequest'
      BY <2>1 DEF Files, FromRequest, Saved, Named
    <2> QED
      BY <2>1, <2>3, <2>4 DEF Files, Aged, Old, TwoOf, Named
  <1>7. CASE UNCHANGED vars
    BY <1>7, FilesFrame DEF vars, Saved
  <1> QED
    BY <1>2, <1>3, <1>4, <1>5, <1>6, <1>7, FilesCleaned DEF Next, Step, Loads

\* An image is not deleted before its age, whatever is generated while the
\* cleanup goes through the files, unless two requests have its name.
THEOREM ImagesKept == Spec => []ImageKept
  <1>1. Init => Files
    BY DEF Init, Files, FromRequest, Aged, Asleep
  <1>2. TypeOK /\ Files => ImageKept
    <2> SUFFICES ASSUME TypeOK, Files, NEW n \in Names, file[n] # None, cleaner.pc = "unlink",
                        cleaner.name = n
                 PROVE  now - file[n] >= MaxAge \/ Cardinality({r \in Requests : NameOf[r] = n}) > 1
      BY DEF ImageKept
    <2>1. CASE Old(n)
      <3>1. cleaner.cutoff <= now - MaxAge /\ file[n] <= cleaner.cutoff
        BY <2>1 DEF Files, Aged, Old
      <3>2. now \in Nat /\ MaxAge \in Nat /\ file[n] \in Nat /\ cleaner.cutoff \in Int
        BY ServiceAssumption DEF TypeOK, Cleaner, Times
      <3> QED
        BY <3>1, <3>2
    <2>2. CASE TwoOf(n)
      <3>1. PICK q, r \in Named(n) : q # r
        BY <2>2 DEF TwoOf
      <3>2. IsFiniteSet(Named(n)) /\ Cardinality(Named(n)) \in Nat
        BY FiniteRequests DEF Named
      <3>3. Cardinality(Named(n)) # 0
        BY <3>1, <3>2, FS_EmptySet
      <3>4. Cardinality(Named(n)) # 1
        BY <3>1, <3>2, FS_Singleton
      <3> QED
        BY <3>2, <3>3, <3>4 DEF Named
    <2> QED
      BY <2>1, <2>2 DEF Files, Aged
  <1> QED
    BY <1>1, <1>2, TypeCorrect, FilesStep, PTL DEF Spec
=============================================================================
