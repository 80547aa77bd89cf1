----------------------------- MODULE ImageCache -----------------------------
(***************************************************************************)
(* The read cache in front of the image table (cache_client.cpp and the    *)
(* cache-aside paths of image_service.cpp and task_engine.cpp), for one    *)
(* task of one user and one page of the user's list.  The database is      *)
(* reduced to the number of writes committed so far: db = n means that a   *)
(* read sees the n-th write, 0 that the task does not exist.  A cached     *)
(* value is the db that was read for it, so what is stale is smaller.      *)
(* Pages are cached under the version of the list that the reader saw.     *)
(***************************************************************************)
EXTENDS Integers, FiniteSets

CONSTANTS Replicas,    \* backend processes, each with its cache client
          Threads,     \* threads that read and write
          Home,        \* Home[p]: the replica of thread p
          None,        \* no cache entry
          MaxWrites,   \* bound: writes of the task
          MaxResets,   \* bound: expiries of the version key
          MaxFaults    \* bound: failed cache calls and threads that die

ASSUME CacheAssumption ==
    /\ MaxWrites \in Nat /\ MaxResets \in Nat /\ MaxFaults \in Nat
    /\ Home \in [Threads -> Replicas]
    /\ None \notin Nat

Values == 0..MaxWrites
Versions == 0..MaxWrites

VARIABLES
    db,        \* the database: writes committed
    meta,      \* the entry img:meta:<user>:<id>
    version,   \* the key ver:img:list:<user>, 0 when it does not exist
    page,      \* page[v]: the entry img:list:my:<user>:v<v>:...
    available, \* available[r]: available_ of the cache client of replica r
    proc,      \* what every thread is doing
    settled,   \* history: the last write announced by a bump of the version
    resets,    \* version keys expired so far
    faults     \* failures so far

cached == <<meta, version, page>>
vars == <<db, meta, version, page, available, proc, settled, resets, faults>>

\* mine: the write a writer made, or the value a reader read; floor: the write
\* that was settled when the reader began; served: what the reader answered.
Proc == [pc : {"idle", "fill", "evict", "bump", "metaDb", "metaSet",
               "pageGet", "pageDb", "pageSet", "served"},
         mine : Values, ver : Versions, floor : Values]
Idle == [pc |-> "idle", mine |-> 0, ver |-> 0, floor |-> 0]

\* Types, and that nothing in the cache is newer than the database.
TypeOK ==
    /\ db \in Values /\ settled \in 0..db
    /\ meta \in (0..db) \cup {None}
    /\ version \in Versions
    /\ page \in [Versions -> (0..db) \cup {None}]
    /\ available \in [Replicas -> BOOLEAN]
    /\ proc \in [Threads -> Proc]
    /\ resets \in 0..MaxResets /\ faults \in 0..MaxFaults

Init ==
    /\ db = 0 /\ settled = 0
    /\ meta = None /\ version = 0
    /\ page = [v \in Versions |-> None]
    /\ available = [r \in Replicas |-> TRUE]
    /\ proc = [p \in Threads |-> Idle]
    /\ resets = 0 /\ faults = 0

-----------------------------------------------------------------------------
At(p, pc) == proc[p].pc = pc
Goto(p, q) == proc' = [proc EXCEPT ![p] = q]
Then(p, pc) == Goto(p, [proc[p] EXCEPT !.pc = pc])

\* A call of the cache client of p that changes x from old to new.  A client
\* that is not available does nothing; one that gets an error, whether or not
\* the command was executed, is not available from then on.
Call(p, old, new, x) ==
    \/ available[Home[p]] /\ x = new /\ UNCHANGED <<available, faults>>
    \/ ~available[Home[p]] /\ x = old /\ UNCHANGED <<available, faults>>
    \/ /\ available[Home[p]] /\ x \in {old, new}
       /\ faults < MaxFaults /\ faults' = faults + 1
       /\ available' = [available EXCEPT ![Home[p]] = FALSE]

\* A read through the cache client of p: v is what it returns, missing is what
\* it returns when it is not available or fails.
Get(p, entry, missing, v) ==
    \/ v = (IF available[Home[p]] THEN entry ELSE missing) /\ UNCHANGED <<available, faults>>
    \/ /\ available[Home[p]] /\ v = missing
       /\ faults < MaxFaults /\ faults' = faults + 1
       /\ available' = [available EXCEPT ![Home[p]] = FALSE]

\* Mutant of Write: the cache is filled although the insert was rolled back.
WriteRolledBack(p) ==
    /\ At(p, "idle") /\ db < MaxWrites
    /\ Goto(p, [Idle EXCEPT !.pc = IF db = 0 THEN "fill" ELSE "evict", !.mine = db + 1])
    /\ UNCHANGED <<db, cached, available, settled, resets, faults>>

\* A request or worker commits a write: create goes on to put the new row into
\* the cache, every other write to evict the entry.
Write(p) ==
    /\ At(p, "idle") /\ db < MaxWrites
    /\ db' = db + 1
    /\ Goto(p, [Idle EXCEPT !.pc = IF db = 0 THEN "fill" ELSE "evict", !.mine = db + 1])
    /\ UNCHANGED <<cached, available, settled, resets, faults>>

\* create: writeToCache
Fill(p) ==
    /\ At(p, "fill")
    /\ Call(p, meta, proc[p].mine, meta')
    /\ Then(p, "bump")
    /\ UNCHANGED <<db, version, page, settled, resets>>

\* cancelById, retryById, deleteById and invalidateAllForTask: del the entry
Evict(p) ==
    /\ At(p, "evict")
    /\ Call(p, meta, None, meta')
    /\ Then(p, "bump")
    /\ UNCHANGED <<db, version, page, settled, resets>>

\* Mutant of BumpVersion: the key is touched but not incremented.
TouchVersion(p) ==
    /\ At(p, "bump")
    /\ settled' = IF proc[p].mine > settled THEN proc[p].mine ELSE settled
    /\ Goto(p, Idle)
    /\ UNCHANGED <<db, cached, available, resets, faults>>

\* ... and bump the version of the user's list.
BumpVersion(p) ==
    /\ At(p, "bump")
    /\ Call(p, version, version + 1, version')
    /\ settled' = IF version' # version /\ proc[p].mine > settled
                  THEN proc[p].mine ELSE settled
    /\ Goto(p, Idle)
    /\ UNCHANGED <<db, meta, page, resets>>

-----------------------------------------------------------------------------
\* getById: the cache first, then the database, then fill the cache.  A task
\* that does not exist is cached as well (kNullMarker).
MetaGet(p) ==
    /\ At(p, "idle")
    /\ \E v \in Values \cup {None} :
          /\ Get(p, meta, None, v)
          /\ Goto(p, IF v = None THEN [Idle EXCEPT !.pc = "metaDb"] ELSE Idle)
    /\ UNCHANGED <<db, cached, settled, resets>>

MetaRead(p) ==
    /\ At(p, "metaDb")
    /\ Goto(p, [Idle EXCEPT !.pc = "metaSet", !.mine = db])
    /\ UNCHANGED <<db, cached, available, settled, resets, faults>>

MetaSet(p) ==
    /\ At(p, "metaSet")
    /\ Call(p, meta, proc[p].mine, meta')
    /\ Goto(p, Idle)
    /\ UNCHANGED <<db, version, page, settled, resets>>

\* listMy and listMyByStatus: the version, the page of that version, then the
\* database, and the page is cached under the version read first.
ListVersion(p) ==
    /\ At(p, "idle")
    /\ \E v \in Versions :
          /\ Get(p, version, 0, v)
          /\ Goto(p, [Idle EXCEPT !.pc = "pageGet", !.ver = v, !.floor = settled])
    /\ UNCHANGED <<db, cached, settled, resets>>

ListGet(p) ==
    /\ At(p, "pageGet")
    /\ \E v \in Values \cup {None} :
          /\ Get(p, page[proc[p].ver], None, v)
          /\ Goto(p, IF v = None THEN [proc[p] EXCEPT !.pc = "pageDb"]
                     ELSE [proc[p] EXCEPT !.pc = "served", !.mine = v])
    /\ UNCHANGED <<db, cached, settled, resets>>

ListRead(p) ==
    /\ At(p, "pageDb")
    /\ Goto(p, [proc[p] EXCEPT !.pc = "pageSet", !.mine = db])
    /\ UNCHANGED <<db, cached, available, settled, resets, faults>>

ListSet(p) ==
    /\ At(p, "pageSet")
    /\ Call(p, page, [page EXCEPT ![proc[p].ver] = proc[p].mine], page')
    /\ Then(p, "served")
    /\ UNCHANGED <<db, meta, version, settled, resets>>

ListDone(p) ==
    /\ At(p, "served")
    /\ Goto(p, Idle)
    /\ UNCHANGED <<db, cached, available, settled, resets, faults>>

-----------------------------------------------------------------------------
\* Mutant of MetaExpires: only the null marker has a TTL.
NullExpires ==
    /\ meta = 0 /\ meta' = None
    /\ UNCHANGED <<db, version, page, available, proc, settled, resets, faults>>

\* TTLs run out: of the entries after seconds or minutes, of the version key a
\* day after the last bump.
MetaExpires ==
    /\ meta # None /\ meta' = None
    /\ UNCHANGED <<db, version, page, available, proc, settled, resets, faults>>

PageExpires(v) ==
    /\ page[v] # None /\ page' = [page EXCEPT ![v] = None]
    /\ UNCHANGED <<db, meta, version, available, proc, settled, resets, faults>>

VersionExpires ==
    /\ version # 0 /\ resets < MaxResets
    /\ version' = 0 /\ resets' = resets + 1
    /\ UNCHANGED <<db, meta, page, available, proc, settled, faults>>

\* A thread dies between its write and the invalidation, as do the writes of
\* the scanner to rows it had not selected.
Dies(p) ==
    /\ ~At(p, "idle") /\ faults < MaxFaults
    /\ faults' = faults + 1
    /\ Goto(p, Idle)
    /\ UNCHANGED <<db, cached, available, settled, resets>>

-----------------------------------------------------------------------------
Continue(p) ==
    \/ Fill(p) \/ Evict(p) \/ BumpVersion(p) \/ MetaRead(p) \/ MetaSet(p)
    \/ ListGet(p) \/ ListRead(p) \/ ListSet(p) \/ ListDone(p)

Next ==
    \/ \E p \in Threads : Continue(p) \/ Write(p) \/ MetaGet(p) \/ ListVersion(p) \/ Dies(p)
    \/ MetaExpires \/ VersionExpires
    \/ \E v \in Versions : PageExpires(v)

Spec == Init /\ [][Next]_vars

\* What was begun goes on, and TTLs run out.
Fairness ==
    /\ \A p \in Threads : WF_vars(Continue(p))
    /\ WF_vars(MetaExpires)
    /\ \A v \in Versions : WF_vars(PageExpires(v))

FairSpec == Spec /\ Fairness

-----------------------------------------------------------------------------
\* A list request that begins after a write was announced by its version bump
\* is never answered with a page from before that write, from whichever entry
\* and whoever filled it in the meantime: "INCR ... to invalidate all
\* paginations for that user" (README.md).
AllPaginationsInvalidated ==
    \A p \in Threads : At(p, "served") => proc[p].mine >= proc[p].floor

\* The same as long as the version key has not expired.
ListsFresh == resets = 0 => AllPaginationsInvalidated

\* However entries and pages became stale (a reader that was overtaken, a failed
\* eviction, a cache that is given up, a version that starts again), once the
\* writes stop the cache agrees with the database for good.
CacheConverges ==
    <>[](/\ meta \in {None, db}
         /\ \A v \in Versions : page[v] \in {None, db})
=============================================================================
