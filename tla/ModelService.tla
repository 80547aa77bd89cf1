---------------------------- MODULE ModelService -----------------------------
(***************************************************************************)
(* The Python service that runs the model (ModelService/model_service_app):*)
(* loading on demand, admission by a semaphore, the book-keeping of        *)
(* generations behind /health, the temporary image files and their         *)
(* cleanup, and what the Backend's health gate makes of a report.  A       *)
(* generation runs in a thread of its own, /health and the cleanup on the  *)
(* event loop, so all of them interleave between calls.                    *)
(***************************************************************************)
EXTENDS Integers, Sequences, FiniteSets, ModelHealthGate

CONSTANTS Requests,       \* calls of /generate, each made once
          Names, NameOf,  \* the file a request is saved to, from its request_id
          MaxConcurrent,  \* MAX_CONCURRENT_GENERATIONS
          Threshold,      \* BUSY_UNHEALTHY_SECONDS
          MaxAge,         \* TEMP_FILE_MAX_AGE_HOURS
          None,
          MaxTime         \* bound: ticks of the clock

\* config.py raises what is configured to at least 1.
ASSUME ServiceAssumption ==
    /\ MaxConcurrent \in Nat \ {0} /\ Threshold \in Nat \ {0} /\ MaxAge \in Nat \ {0}
    /\ IsFiniteSet(Requests) /\ NameOf \in [Requests -> Names]
    /\ None \notin Requests \cup Nat
    /\ MaxTime \in Nat

VARIABLES
    now,       \* time
    pipe,      \* pipe is not None
    loader,    \* the request that holds _load_lock
    loading,   \* is_loading
    starts,    \* _active_generation_starts
    req,       \* what the thread of every request is doing
    file,      \* file[n]: when the file n was written, None if there is none
    cleaner    \* cleanup_temp_files_once

vars == <<now, pipe, loader, loading, starts, req, file, cleaner>>

Times == 0..MaxTime

\* start: when the generation was marked as started.
\* overtaken: one that started after it has finished before it.
Request == [pc : {"new", "check", "lock", "locked", "load", "loaded", "unlock",
                  "acquire", "admitted", "running", "ending", "leaving", "answered",
                  "refused"},
            start : Times, overtaken : BOOLEAN]

\* todo: the files still to be looked at; name: the one to be deleted.
Cleaner == [pc : {"asleep", "stat", "unlink"}, todo : SUBSET Names,
            name : Names \cup {None}, cutoff : (0 - MaxAge)..MaxTime]
Asleep == [pc |-> "asleep", todo |-> {}, name |-> None, cutoff |-> 0]

TypeOK ==
    /\ now \in Times
    /\ pipe \in BOOLEAN /\ loader \in Requests \cup {None} /\ loading \in BOOLEAN
    /\ starts \in Seq(Times)
    /\ req \in [Requests -> Request]
    /\ file \in [Names -> Times \cup {None}]
    /\ cleaner \in Cleaner

\* The application serves when the preload has succeeded or failed.
Init ==
    /\ now = 0
    /\ pipe \in BOOLEAN /\ loader = None /\ loading = FALSE
    /\ starts = << >>
    /\ req = [r \in Requests |-> [pc |-> "new", start |-> 0, overtaken |-> FALSE]]
    /\ file = [n \in Names |-> None]
    /\ cleaner = Asleep

-----------------------------------------------------------------------------
At(r, pc) == req[r].pc = pc
Goto(r, pc) == req' = [req EXCEPT ![r].pc = pc]

(***************************************************************************)
(* A request of /generate.                                                 *)
(***************************************************************************)
\* A valid request gets a thread; an invalid one is refused with 400.
Generate(r) ==
    /\ At(r, "new")
    /\ Goto(r, "check") \/ Goto(r, "refused")
    /\ UNCHANGED <<now, pipe, loader, loading, starts, file, cleaner>>

CheckPipe(r) ==
    /\ At(r, "check")
    /\ Goto(r, IF pipe THEN "acquire" ELSE "lock")
    /\ UNCHANGED <<now, pipe, loader, loading, starts, file, cleaner>>

LockLoad(r) ==
    /\ At(r, "lock") /\ loader = None
    /\ Goto(r, "locked") /\ loader' = r
    /\ UNCHANGED <<now, pipe, loading, starts, file, cleaner>>

\* Mutant of BeginLoad: no second look.
BeginLoadUnseen(r) ==
    /\ At(r, "locked")
    /\ Goto(r, "load") /\ loading' = TRUE
    /\ UNCHANGED <<now, pipe, loader, starts, file, cleaner>>

\* The second look at pipe, under the lock, and set_loading(True).
BeginLoad(r) ==
    /\ At(r, "locked")
    /\ IF pipe THEN Goto(r, "unlock") /\ UNCHANGED loading
               ELSE Goto(r, "load") /\ loading' = TRUE
    /\ UNCHANGED <<now, pipe, loader, starts, file, cleaner>>

\* from_pretrained returns or raises.
LoadModel(r) ==
    /\ At(r, "load")
    /\ Goto(r, "loaded") /\ pipe' \in BOOLEAN
    /\ UNCHANGED <<now, loader, loading, starts, file, cleaner>>

\* set_loading(False), whether it did.
EndLoad(r) ==
    /\ At(r, "loaded")
    /\ Goto(r, "unlock") /\ loading' = FALSE
    /\ UNCHANGED <<now, pipe, loader, starts, file, cleaner>>

\* Mutant of UnlockLoad: a load that failed does not give the lock back.
UnlockLoaded(r) ==
    /\ At(r, "unlock")
    /\ IF pipe THEN Goto(r, "acquire") /\ loader' = None
               ELSE Goto(r, "refused") /\ UNCHANGED loader
    /\ UNCHANGED <<now, pipe, loading, starts, file, cleaner>>

\* The lock is given back; a failure, which has left pipe None, is answered
\* with 503.
UnlockLoad(r) ==
    /\ At(r, "unlock")
    /\ Goto(r, IF pipe THEN "acquire" ELSE "refused") /\ loader' = None
    /\ UNCHANGED <<now, pipe, loading, starts, file, cleaner>>

Holding == {r \in Requests : req[r].pc \in {"admitted", "running", "ending", "leaving"}}

Acquire(r) ==
    /\ At(r, "acquire") /\ Cardinality(Holding) < MaxConcurrent
    /\ Goto(r, "admitted")
    /\ UNCHANGED <<now, pipe, loader, loading, starts, file, cleaner>>

MarkStarted(r) ==
    /\ At(r, "admitted")
    /\ starts' = Append(starts, now)
    /\ req' = [req EXCEPT ![r].pc = "running", ![r].start = now]
    /\ UNCHANGED <<now, pipe, loader, loading, file, cleaner>>

\* The pipeline returns and the image is saved, or one of them raises.
RunPipe(r) ==
    /\ At(r, "running")
    /\ Goto(r, "ending")
    /\ file' = [file EXCEPT ![NameOf[r]] = now] \/ UNCHANGED file
    /\ UNCHANGED <<now, pipe, loader, loading, starts, cleaner>>

Running == {r \in Requests : req[r].pc \in {"running", "ending"}}

\* Mutant of Popped: the newest start is removed instead of the oldest.
PoppedLast(s) == SubSeq(s, 1, Len(s) - 1)

Popped(s) == Tail(s)

\* The oldest start is removed, whoever's it is.
MarkFinished(r) ==
    /\ At(r, "ending")
    /\ starts' = IF starts = << >> THEN starts ELSE Popped(starts)
    /\ req' = [q \in Requests |->
           IF q = r THEN [pc |-> "leaving", start |-> 0, overtaken |-> FALSE]
           ELSE [req[q] EXCEPT !.overtaken =
                    @ \/ (q \in Running /\ req[q].start < req[r].start)]]
    /\ UNCHANGED <<now, pipe, loader, loading, file, cleaner>>

\* The semaphore is released and the answer sent, 500 or 503 if it raised.
Release(r) ==
    /\ At(r, "leaving")
    /\ Goto(r, "answered")
    /\ UNCHANGED <<now, pipe, loader, loading, starts, file, cleaner>>

(***************************************************************************)
(* The cleanup.                                                            *)
(***************************************************************************)
Cutoff == now - MaxAge

WakeCleaner ==
    /\ cleaner.pc = "asleep"
    /\ cleaner' = [pc |-> "stat", todo |-> {n \in Names : file[n] # None}, name |-> None,
                   cutoff |-> Cutoff]
    /\ UNCHANGED <<now, pipe, loader, loading, starts, req, file>>

\* Mutant of Expired: files are kept for one tick less.
ExpiredEarly(n) == file[n] # None /\ file[n] <= cleaner.cutoff + 1

Expired(n) == file[n] # None /\ file[n] <= cleaner.cutoff

Stat(n) ==
    /\ cleaner.pc = "stat" /\ n \in cleaner.todo
    /\ cleaner' = [cleaner EXCEPT !.todo = @ \ {n}, !.pc = IF Expired(n) THEN "unlink" ELSE @,
                                  !.name = IF Expired(n) THEN n ELSE @]
    /\ UNCHANGED <<now, pipe, loader, loading, starts, req, file>>

Unlink ==
    /\ cleaner.pc = "unlink"
    /\ file' = [file EXCEPT ![cleaner.name] = None]
    /\ cleaner' = [cleaner EXCEPT !.pc = "stat", !.name = None]
    /\ UNCHANGED <<now, pipe, loader, loading, starts, req>>

SleepCleaner ==
    /\ cleaner.pc = "stat" /\ cleaner.todo = {}
    /\ cleaner' = Asleep
    /\ UNCHANGED <<now, pipe, loader, loading, starts, req, file>>

(***************************************************************************)
(* /health: pipe is looked at first, the rest is read under the lock.      *)
(***************************************************************************)
\* min of the starts, which are in the order of time.
ActiveSeconds == IF starts = << >> THEN 0 ELSE now - starts[1]

\* Mutant of Exceeded: one tick late.
ExceededLate == ActiveSeconds > Threshold + 1

Exceeded == ActiveSeconds > Threshold

Status(loaded) ==
    CASE ~loaded -> IF loading THEN "loading" ELSE "unhealthy"
      [] loaded /\ Len(starts) > 0 /\ Exceeded -> "unhealthy"
      [] loaded /\ Len(starts) > 0 /\ ~Exceeded -> "busy"
      [] loaded /\ Len(starts) = 0 -> "healthy"

\* What the Backend reads from the answer.
Snapshot(loaded) == [status |-> Status(loaded), kind |-> Len(starts) > 0,
                     active |-> Len(starts), capacity |-> MaxConcurrent]

\* What pipe may have said when /health looked at it before the rest: it is
\* never taken back, but may have been set since.
Seen == {loaded \in BOOLEAN : loaded => pipe}

Tick ==
    /\ now < MaxTime /\ now' = now + 1
    /\ UNCHANGED <<pipe, loader, loading, starts, req, file, cleaner>>

-----------------------------------------------------------------------------
Step(r) ==
    \/ CheckPipe(r) \/ LockLoad(r) \/ BeginLoad(r) \/ LoadModel(r) \/ EndLoad(r)
    \/ UnlockLoad(r) \/ Acquire(r) \/ MarkStarted(r) \/ RunPipe(r) \/ MarkFinished(r)
    \/ Release(r)

Next ==
    \/ \E r \in Requests : Generate(r) \/ Step(r)
    \/ WakeCleaner \/ (\E n \in Names : Stat(n)) \/ Unlink \/ SleepCleaner
    \/ Tick

Spec == Init /\ [][Next]_vars

\* A thread that can go on does, and a load or a pipeline call that is under
\* way ends.  Every request is made once, so a free slot stays free for the
\* last that waits for it.
Fairness == \A r \in Requests : WF_vars(Step(r))

FairSpec == Spec /\ Fairness

-----------------------------------------------------------------------------
\* active_generations is the number of generations that are under way, never
\* above the capacity /health reports next to it, and they all have a model.
\* However the checks of pipe, the lock and is_loading interleave, one thread at
\* a time loads, with is_loading up and only while there is no model, so that
\* none is loaded under a generation; and is_loading does not outlive the lock.
\* (pipe is set before is_loading is cleared: /health can show both.)
Accounting ==
    /\ Len(starts) = Cardinality(Running)
    /\ Cardinality(Holding) <= MaxConcurrent
    /\ Holding # {} => pipe
    /\ \A r \in Requests : At(r, "load") => loading /\ loader = r /\ ~pipe
    /\ loading => loader # None

\* The decision of the Backend's gate on what /health reports.
Decision(loaded) == decideForGenerate(Snapshot(loaded), 0)

Stuck(r) == r \in Running /\ now - req[r].start > Threshold

\* The gate never turns a task away without cause, which would cost it one of
\* its attempts: the model was missing, every slot was taken, or a generation
\* really has run past the threshold.  The start times are not matched with
\* the generations that end (state.py:31), but they err on the side of "busy".
NoFalseAlarm ==
    \A loaded \in Seen : Decision(loaded) # "Proceed" =>
        \/ ~loaded
        \/ Cardinality(Holding) = MaxConcurrent
        \/ \E r \in Requests : Stuck(r)

\* The gate lets a task through only to a model that is there and to a slot
\* that no running generation has taken; and if a generation is stuck past the
\* threshold it does not, unless one that started later has finished and took
\* the start time of the stuck one along (state.py:31).
StuckSeen ==
    \A loaded \in Seen : Decision(loaded) = "Proceed" =>
        /\ pipe /\ Cardinality(Running) < MaxConcurrent
        /\ \A r \in Requests : Stuck(r) => req[r].overtaken

\* The image of a request stays for MaxAge after it was written, if no other
\* request has its name: whatever the cleanup looks at, it is not deleted
\* between being written and being fetched.
ImageKept ==
    \A n \in Names : file[n] # None /\ cleaner.pc = "unlink" /\ cleaner.name = n =>
        \/ now - file[n] >= MaxAge
        \/ Cardinality({r \in Requests : NameOf[r] = n}) > 1

\* Every request is answered: each is made once, and a time always comes when
\* none is under way, whoever loads, waits for the load or for a slot.
UnderWay(r) == req[r].pc \notin {"new", "answered", "refused"}
Answered == (\E r \in Requests : UnderWay(r)) ~> (\A r \in Requests : ~UnderWay(r))
=============================================================================
