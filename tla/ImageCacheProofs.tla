-------------------------- MODULE ImageCacheProofs --------------------------
(***************************************************************************)
(* Cached lists are fresh as long as the version key has not expired, for  *)
(* any number of replicas, threads, writes and failing cache calls.  The   *)
(* argument: a page is cached under the version its reader saw before it   *)
(* read the database, so a page of the current version is not older than   *)
(* the write that bumped it, and a reader that has seen a version v keeps  *)
(* its floor below every page that is or will be put under v.              *)
(***************************************************************************)
EXTENDS ImageCache, FiniteSetTheorems, TLAPS

Listing(p) == proc[p].pc \in {"pageGet", "pageDb", "pageSet", "served"}
Working(p) == available[Home[p]]

\* Types as in TypeOK, for a version that is any number, and nothing that was
\* read or written is ahead of the database.
Types ==
    /\ db \in Values /\ settled \in 0..db
    /\ meta \in (0..db) \cup {None}
    /\ version \in Nat
    /\ page \in [Versions -> (0..db) \cup {None}]
    /\ available \in [Replicas -> BOOLEAN]
    /\ proc \in [Threads -> Proc]
    /\ \A p \in Threads : proc[p].mine \in 0..db
    /\ faults \in Nat

\* What is cached for the current version is not older than what was announced,
\* and nothing is cached for versions to come.
PagesFresh ==
    \A v \in Versions : /\ v = version /\ page[v] # None => page[v] >= settled
                        /\ v > version => page[v] = None

\* A reader's floor was settled before; what it answers is not below it.
FloorsKept ==
    \A p \in Threads :
        /\ Listing(p) => proc[p].floor <= settled
        /\ proc[p].pc \in {"pageSet", "served"} => proc[p].mine >= proc[p].floor

\* What a reader may still put into the cache is fresh for its version.
FillsFresh ==
    \A p \in Threads : Listing(p) /\ Working(p) =>
        /\ proc[p].ver <= version
        /\ At(p, "pageSet") /\ proc[p].ver = version => proc[p].mine >= settled

\* What a reader may still find in the cache is fresh for it.
FindsFresh ==
    \A p \in Threads : At(p, "pageGet") /\ Working(p) =>
        /\ page[proc[p].ver] # None => page[proc[p].ver] >= proc[p].floor
        /\ \A q \in Threads : At(q, "pageSet") /\ Working(q) /\ proc[q].ver = proc[p].ver
                                 => proc[q].mine >= proc[p].floor

Fresh == PagesFresh /\ FloorsKept /\ FillsFresh /\ FindsFresh
Inv == Types /\ Fresh
WhileNoReset == resets \in Nat /\ (resets = 0 => Inv)

-----------------------------------------------------------------------------
\* The cache is empty and nobody reads or writes to begin with.
LEMMA InitInv == Init => Inv
  BY CacheAssumption DEF Init, Inv, Types, Fresh, PagesFresh, FloorsKept, FillsFresh, FindsFresh,
     Listing, Working, At, Idle, Proc, Values, Versions

\* A thread that is in no list request changes nothing that lists depend on:
\* neither the version, nor pages, nor what was announced.
LEMMA Elsewhere ==
    ASSUME Inv, Types', NEW p \in Threads, NEW q \in Proc,
           proc' = [proc EXCEPT ![p] = q],
           q.pc \notin {"pageGet", "pageDb", "pageSet", "served"},
           \A r \in Replicas : available'[r] => available[r],
           UNCHANGED <<version, page, settled>>
    PROVE  Inv'
  <1>0. proc'[p] = q /\ \A o \in Threads : o # p => proc'[o] = proc[o]
    BY DEF Inv, Types
  <1>1. \A o \in Threads : Working(o)' => Working(o)
    BY CacheAssumption DEF Working
  <1>2. \A o \in Threads : Listing(o)' => o # p /\ Listing(o)
    BY <1>0 DEF Listing
  <1>3. PagesFresh'
    BY DEF Inv, Fresh, PagesFresh
  <1>4. FloorsKept'
    BY <1>0, <1>2 DEF Inv, Fresh, FloorsKept, Listing
  <1>5. FillsFresh'
    BY <1>0, <1>1, <1>2 DEF Inv, Fresh, FillsFresh, At
  <1>6. FindsFresh'
    BY <1>0, <1>1, <1>2 DEF Inv, Fresh, FindsFresh, At, Listing
  <1> QED
    BY <1>3, <1>4, <1>5, <1>6 DEF Inv, Fresh

\* A call of the cache client can only make it give up.
LEMMA CallsGiveUp ==
    ASSUME NEW p \in Threads, NEW old, NEW new, NEW x, Call(p, old, new, x), Types
    PROVE  /\ x \in {old, new} /\ (x # old => Working(p))
           /\ available' \in [Replicas -> BOOLEAN]
           /\ \A r \in Replicas : available'[r] => available[r]
           /\ faults' \in Nat
  <1>1. /\ available \in [Replicas -> BOOLEAN] /\ faults \in Nat
        /\ Home[p] \in Replicas /\ MaxFaults \in Nat
    BY CacheAssumption DEF Types
  <1>2. CASE UNCHANGED <<available, faults>>
    BY <1>1, <1>2 DEF Call, Working
  <1>3. CASE /\ available[Home[p]] /\ x \in {old, new} /\ faults' = faults + 1
             /\ available' = [available EXCEPT ![Home[p]] = FALSE]
    BY <1>1, <1>3 DEF Working
  <1> QED
    BY <1>2, <1>3 DEF Call

\* So can a read, which returns the entry only while the client works.
LEMMA GetsGiveUp ==
    ASSUME NEW p \in Threads, NEW entry, NEW missing, NEW v, Get(p, entry, missing, v), Types
    PROVE  /\ v \in {entry, missing} /\ (v # missing => Working(p))
           /\ Working(p)' => Working(p) /\ v = entry
           /\ available' \in [Replicas -> BOOLEAN]
           /\ \A r \in Replicas : available'[r] => available[r]
           /\ faults' \in Nat
  <1>1. /\ available \in [Replicas -> BOOLEAN] /\ faults \in Nat
        /\ Home[p] \in Replicas /\ MaxFaults \in Nat
    BY CacheAssumption DEF Types
  <1>2. CASE /\ v = (IF available[Home[p]] THEN entry ELSE missing)
             /\ UNCHANGED <<available, faults>>
    BY <1>1, <1>2 DEF Working
  <1>3. CASE /\ available[Home[p]] /\ v = missing /\ faults' = faults + 1
             /\ available' = [available EXCEPT ![Home[p]] = FALSE]
    BY <1>1, <1>3 DEF Working
  <1> QED
    BY <1>2, <1>3 DEF Get

\* Types, when a thread goes on at q.
LEMMA StepTypes ==
    ASSUME Types, NEW p \in Threads, NEW q \in Proc, Goto(p, q), q.mine \in 0..db',
           db' \in Values, db' >= db, settled' \in 0..db', version' \in Nat,
           meta' \in (0..db') \cup {None}, page' \in [Versions -> (0..db') \cup {None}],
           available' \in [Replicas -> BOOLEAN], faults' \in Nat
    PROVE  Types'
  <1>1. proc' \in [Threads -> Proc]
    BY DEF Types, Goto
  <1>2. proc'[p] = q /\ \A o \in Threads : o # p => proc'[o] = proc[o]
    BY DEF Types, Goto
  <1>3. \A o \in Threads : proc[o].mine \in 0..db'
    BY DEF Types, Values
  <1>4. \A o \in Threads : proc'[o].mine \in 0..db'
    BY <1>2, <1>3
  <1> QED
    BY <1>1, <1>4 DEF Types

\* Values read from the database and the cache stay values when it grows.
LEMMA Grows ==
    ASSUME Types, NEW n \in Values, n >= db
    PROVE  /\ settled \in 0..n /\ meta \in (0..n) \cup {None}
           /\ page \in [Versions -> (0..n) \cup {None}]
  <1>1. (0..db) \cup {None} \subseteq (0..n) \cup {None}
    BY DEF Types, Values
  <1>2. settled \in 0..n
    BY DEF Types, Values
  <1> QED
    BY <1>1, <1>2 DEF Types

\* Requests and workers that write, and requests for one task.
LEMMA OtherSteps ==
    ASSUME Inv, NEW p \in Threads,
           \/ Write(p) \/ Fill(p) \/ Evict(p) \/ MetaGet(p) \/ MetaRead(p)
           \/ MetaSet(p) \/ ListDone(p) \/ Dies(p)
    PROVE  Inv'
  <1>0. /\ Types /\ proc[p] \in Proc /\ proc[p].mine \in 0..db /\ db \in Values /\ db \in Nat
        /\ available \in [Replicas -> BOOLEAN] /\ faults \in Nat /\ version \in Nat
    BY CacheAssumption DEF Inv, Types, Values
  <1>1. Idle \in Proc /\ Idle.pc = "idle" /\ Idle.mine = 0
    BY CacheAssumption DEF Idle, Proc, Values, Versions
  <1>01. 0 \in Values /\ 0 \in Versions
    BY CacheAssumption DEF Values, Versions
  <1> DEFINE Quiet(q) == /\ q \in Proc /\ q.mine \in 0..db' /\ Goto(p, q)
                         /\ q.pc \notin {"pageGet", "pageDb", "pageSet", "served"}
  <1>2. ASSUME NEW q, Quiet(q), db' \in Values, db' >= db, meta' \in (0..db') \cup {None},
               available' \in [Replicas -> BOOLEAN], faults' \in Nat,
               \A r \in Replicas : available'[r] => available[r],
               UNCHANGED <<version, page, settled>>
        PROVE  Inv'
    <2>1. Types'
      BY <1>0, <1>2, StepTypes, Grows
    <2> QED
      BY <1>2, <2>1, Elsewhere DEF Goto
  <1>3. CASE Write(p)
    <2> DEFINE q == [Idle EXCEPT !.pc = IF db = 0 THEN "fill" ELSE "evict", !.mine = db + 1]
    <2>1. db' = db + 1 /\ db' \in Values /\ db' >= db
      BY <1>0, <1>3, CacheAssumption DEF Write, Values
    <2>2. Quiet(q)
      <3>1. q \in Proc /\ q.mine = db + 1 /\ q.pc \in {"fill", "evict"}
        BY <1>01, <2>1 DEF Idle, Proc
      <3> QED
        BY <1>0, <1>3, <2>1, <3>1 DEF Write
    <2> QED
      BY <1>0, <1>2, <1>3, <2>1, <2>2, Grows DEF Write, cached
  <1>4. CASE Fill(p)
    <2>1. Quiet([proc[p] EXCEPT !.pc = "bump"])
      BY <1>0, <1>4 DEF Fill, Then, Proc
    <2> QED
      <3>1. /\ meta' \in (0..db) \cup {None} /\ available' \in [Replicas -> BOOLEAN]
            /\ faults' \in Nat /\ \A r \in Replicas : available'[r] => available[r]
        BY <1>0, <1>4, CallsGiveUp DEF Fill, Types
      <3>2. db' = db /\ db >= db /\ UNCHANGED <<version, page, settled>>
        BY <1>0, <1>4 DEF Fill
      <3> QED
        BY <1>0, <1>2, <2>1, <3>1, <3>2
  <1>5. CASE Evict(p)
    <2>1. Quiet([proc[p] EXCEPT !.pc = "bump"])
      BY <1>0, <1>5 DEF Evict, Then, Proc
    <2> QED
      <3>1. /\ meta' \in (0..db) \cup {None} /\ available' \in [Replicas -> BOOLEAN]
            /\ faults' \in Nat /\ \A r \in Replicas : available'[r] => available[r]
        BY <1>0, <1>5, CallsGiveUp DEF Evict, Types
      <3>2. db' = db /\ db >= db /\ UNCHANGED <<version, page, settled>>
        BY <1>0, <1>5 DEF Evict
      <3> QED
        BY <1>0, <1>2, <2>1, <3>1, <3>2
  <1>6. CASE MetaGet(p)
    <2>1. PICK v \in Values \cup {None} :
             /\ Get(p, meta, None, v)
             /\ Goto(p, IF v = None THEN [Idle EXCEPT !.pc = "metaDb"] ELSE Idle)
      BY <1>6 DEF MetaGet
    <2>2. Quiet(IF v = None THEN [Idle EXCEPT !.pc = "metaDb"] ELSE Idle)
      BY <1>0, <1>1, <1>6, <2>1 DEF MetaGet, Idle, Proc
    <2> QED
      <3>1. /\ available' \in [Replicas -> BOOLEAN] /\ faults' \in Nat
            /\ \A r \in Replicas : available'[r] => available[r]
        BY <1>0, <2>1, GetsGiveUp
      <3>2. db' = db /\ db >= db /\ UNCHANGED <<meta, version, page, settled>>
        BY <1>0, <1>6 DEF MetaGet, cached
      <3>3. meta \in (0..db) \cup {None}
        BY <1>0 DEF Types
      <3> QED
        BY <1>0, <1>2, <2>2, <3>1, <3>2, <3>3
  <1>7. CASE MetaRead(p)
    <2>1. Quiet([Idle EXCEPT !.pc = "metaSet", !.mine = db])
      <3> DEFINE q == [Idle EXCEPT !.pc = "metaSet", !.mine = db]
      <3>0. db \in Values /\ db \in 0..db
        BY <1>0
      <3>1. q \in Proc /\ q.mine = db /\ q.pc = "metaSet"
        BY <3>0, <1>01 DEF Idle, Proc
      <3>2. db' = db /\ Goto(p, q)
        BY <1>7 DEF MetaRead
      <3> QED
        BY <3>0, <3>1, <3>2
    <2> QED
      <3>1. /\ db' = db /\ db >= db
            /\ UNCHANGED <<meta, version, page, settled, available, faults>>
        BY <1>0, <1>7 DEF MetaRead, cached
      <3>2. meta \in (0..db) \cup {None}
        BY <1>0 DEF Types
      <3> QED
        BY <1>0, <1>2, <2>1, <3>1, <3>2
  <1>8. CASE MetaSet(p)
    <2>1. Quiet(Idle)
      BY <1>0, <1>1, <1>8 DEF MetaSet
    <2> QED
      BY <1>0, <1>2, <1>8, <2>1, CallsGiveUp DEF MetaSet, Types
  <1>9. CASE ListDone(p)
    <2>1. Quiet(Idle)
      BY <1>0, <1>1, <1>9 DEF ListDone
    <2> QED
      BY <1>0, <1>2, <1>9, <2>1 DEF ListDone, Types, cached
  <1>10. CASE Dies(p)
    <2>1. Quiet(Idle)
      BY <1>0, <1>1, <1>10 DEF Dies
    <2> QED
      BY <1>0, <1>2, <1>10, <2>1 DEF Dies, Types, cached
  <1> QED
    BY <1>3, <1>4, <1>5, <1>6, <1>7, <1>8, <1>9, <1>10

\* The bump makes pages that do not exist yet the current ones.
LEMMA BumpStep ==
    ASSUME Inv, NEW p \in Threads, BumpVersion(p)
    PROVE  Inv'
  <1>0. /\ Types /\ proc[p].mine \in 0..db /\ db \in Nat /\ settled \in 0..db /\ version \in Nat
    BY CacheAssumption DEF Inv, Types, Values
  <1>1. Idle \in Proc /\ Idle.pc = "idle" /\ Idle.mine = 0
    BY CacheAssumption DEF Idle, Proc, Values, Versions
  <1>2. /\ version' \in {version, version + 1} /\ available' \in [Replicas -> BOOLEAN]
        /\ faults' \in Nat /\ \A r \in Replicas : available'[r] => available[r]
    BY <1>0, CallsGiveUp DEF BumpVersion
  <1>3. UNCHANGED <<db, meta, page>> /\ Goto(p, Idle)
    BY DEF BumpVersion
  <1>4. settled' \in 0..db /\ settled' >= settled /\ (version' = version => settled' = settled)
    BY <1>0 DEF BumpVersion
  <1>5. Types'
    <2>1. Idle.mine \in 0..db' /\ db' \in Values /\ db' >= db /\ version' \in Nat
      BY <1>0, <1>1, <1>2, <1>3 DEF Types
    <2>2. meta' \in (0..db') \cup {None} /\ page' \in [Versions -> (0..db') \cup {None}]
      BY <1>0, <1>3 DEF Types
    <2> QED
      BY <1>0, <1>1, <1>2, <1>3, <1>4, <2>1, <2>2, StepTypes
  <1>6. CASE version' = version
    BY <1>1, <1>2, <1>3, <1>4, <1>5, <1>6, Elsewhere DEF Goto
  <1>7. CASE version' = version + 1
    <2>0. proc'[p] = Idle /\ \A o \in Threads : o # p => proc'[o] = proc[o]
      BY <1>0, <1>3 DEF Types, Goto
    <2>1. \A o \in Threads : Listing(o)' => o # p /\ Listing(o)
      BY <1>1, <2>0 DEF Listing
    <2>2. \A o \in Threads : Working(o)' => Working(o)
      BY <1>2, CacheAssumption DEF Working
    <2>3. \A o \in Threads : proc[o].floor \in Nat /\ proc[o].ver \in Nat
      BY CacheAssumption, <1>0 DEF Types, Proc, Values, Versions
    <2>4. PagesFresh'
      BY <1>0, <1>3, <1>7, CacheAssumption DEF Inv, Fresh, PagesFresh, Versions
    <2>5. FloorsKept'
      BY <1>0, <1>4, <2>0, <2>1, <2>3 DEF Inv, Fresh, FloorsKept, Listing
    <2>6. FillsFresh'
      BY <1>0, <1>7, <2>0, <2>1, <2>2, <2>3 DEF Inv, Fresh, FillsFresh, At
    <2>7. FindsFresh'
      BY <1>3, <2>0, <2>1, <2>2 DEF Inv, Fresh, FindsFresh, At, Listing
    <2> QED
      BY <1>5, <2>4, <2>5, <2>6, <2>7 DEF Inv, Fresh
  <1> QED
    BY <1>2, <1>6, <1>7

\* A list request goes on at q: what that needs to keep pages fresh for all.
LEMMA ListStep ==
    ASSUME Inv, Types', NEW p \in Threads, NEW q \in Proc, Goto(p, q),
           \A r \in Replicas : available'[r] => available[r],
           UNCHANGED <<version, settled, db>>, PagesFresh',
           q.floor <= settled,
           q.pc \in {"pageSet", "served"} => q.mine >= q.floor,
           Working(p)' => q.ver <= version,
           q.pc = "pageSet" => q.mine >= settled,
           FindsFresh'
    PROVE  Inv'
  <1>0. proc'[p] = q /\ \A o \in Threads : o # p => proc'[o] = proc[o]
    BY DEF Inv, Types, Goto
  <1>1. \A o \in Threads : Working(o)' => Working(o)
    BY CacheAssumption DEF Working
  <1>2. FloorsKept'
    BY <1>0 DEF Inv, Fresh, FloorsKept, Listing
  <1>3. FillsFresh'
    BY <1>0, <1>1 DEF Inv, Fresh, FillsFresh, At, Listing
  <1> QED
    BY <1>2, <1>3 DEF Inv, Fresh

\* The request reads the version, ...
LEMMA ListVersionStep ==
    ASSUME Inv, NEW p \in Threads, ListVersion(p)
    PROVE  Inv'
  <1>0. /\ Types /\ db \in Nat /\ settled \in 0..db /\ db \in Values /\ version \in Nat
    BY CacheAssumption DEF Inv, Types, Values
  <1>1. PICK v \in Versions :
           /\ Get(p, version, 0, v)
           /\ Goto(p, [Idle EXCEPT !.pc = "pageGet", !.ver = v, !.floor = settled])
    BY DEF ListVersion
  <1> DEFINE q == [Idle EXCEPT !.pc = "pageGet", !.ver = v, !.floor = settled]
  <1>2. settled \in Values /\ 0 \in Values
    BY <1>0, CacheAssumption DEF Values
  <1>3. /\ q \in Proc /\ q.pc = "pageGet" /\ q.ver = v /\ q.floor = settled /\ q.mine = 0
    BY <1>2 DEF Idle, Proc
  <1>4. /\ v \in {version, 0} /\ (Working(p)' => Working(p) /\ v = version)
        /\ available' \in [Replicas -> BOOLEAN] /\ faults' \in Nat
        /\ \A r \in Replicas : available'[r] => available[r]
    BY <1>0, <1>1, GetsGiveUp
  <1>5. UNCHANGED <<db, meta, version, page, settled>>
    BY DEF ListVersion, cached
  <1> HIDE DEF q
  <1>6. Types'
    <2>1. /\ q.mine \in 0..db' /\ db' >= db /\ meta' \in (0..db') \cup {None}
          /\ page' \in [Versions -> (0..db') \cup {None}]
      BY <1>0, <1>3, <1>5 DEF Types
    <2> QED
      BY <1>0, <1>1, <1>3, <1>4, <1>5, <2>1, StepTypes DEF q
  <1>7. PagesFresh'
    BY <1>5 DEF Inv, Fresh, PagesFresh
  <1>8. FindsFresh'
    <2>0. proc'[p] = q /\ \A o \in Threads : o # p => proc'[o] = proc[o]
      BY <1>0, <1>1 DEF Types, Goto, q
    <2>1. \A o \in Threads : Working(o)' => Working(o)
      BY <1>4, CacheAssumption DEF Working
    <2>2. Working(p)' => /\ page[v] # None => page[v] >= settled
                         /\ \A o \in Threads : At(o, "pageSet") /\ Working(o) /\ proc[o].ver = v
                                                  => proc[o].mine >= settled
      BY <1>4 DEF Inv, Fresh, PagesFresh, FillsFresh, Listing, At
    <2> QED
      BY <1>3, <1>5, <2>0, <2>1, <2>2 DEF Inv, Fresh, FindsFresh, At
  <1>9. q.floor <= settled /\ (Working(p)' => q.ver <= version) /\ Goto(p, q)
    BY <1>0, <1>1, <1>3, <1>4 DEF q
  <1> QED
    BY <1>3, <1>4, <1>5, <1>6, <1>7, <1>8, <1>9, ListStep

\* ... looks for the page, ...
LEMMA ListGetStep ==
    ASSUME Inv, NEW p \in Threads, ListGet(p)
    PROVE  Inv'
  <1>0. /\ Types /\ proc[p] \in Proc /\ proc[p].mine \in 0..db /\ db \in Nat /\ db \in Values
        /\ settled \in 0..db /\ version \in Nat /\ page[proc[p].ver] \in (0..db) \cup {None}
    <2>1. Types /\ proc[p] \in Proc /\ proc[p].mine \in 0..db
      BY DEF Inv, Types
    <2>2. proc[p].ver \in Versions
      BY <2>1 DEF Proc
    <2>3. db \in Nat /\ db \in Values /\ settled \in 0..db /\ version \in Nat
      BY <2>1, CacheAssumption DEF Types, Values
    <2> QED
      BY <2>1, <2>2, <2>3 DEF Types
  <1>1. PICK v \in Values \cup {None} :
           /\ Get(p, page[proc[p].ver], None, v)
           /\ Goto(p, IF v = None THEN [proc[p] EXCEPT !.pc = "pageDb"]
                      ELSE [proc[p] EXCEPT !.pc = "served", !.mine = v])
    BY DEF ListGet
  <1> DEFINE q == IF v = None THEN [proc[p] EXCEPT !.pc = "pageDb"]
                  ELSE [proc[p] EXCEPT !.pc = "served", !.mine = v]
  <1>2. /\ v \in {page[proc[p].ver], None} /\ (v # None => Working(p))
        /\ available' \in [Replicas -> BOOLEAN] /\ faults' \in Nat
        /\ \A r \in Replicas : available'[r] => available[r]
    BY <1>0, <1>1, GetsGiveUp
  <1>3. /\ q \in Proc /\ q.pc \in {"pageDb", "served"} /\ q.mine \in 0..db
        /\ q.ver = proc[p].ver /\ q.floor = proc[p].floor
        /\ q.pc = "served" => v # None /\ q.mine = v
    BY <1>0, <1>2 DEF Proc
  <1>4. UNCHANGED <<db, meta, version, page, settled>> /\ At(p, "pageGet")
    BY DEF ListGet, cached
  <1> HIDE DEF q
  <1>5. Types'
    <2>1. /\ db' >= db /\ meta' \in (0..db') \cup {None}
          /\ page' \in [Versions -> (0..db') \cup {None}]
      BY <1>0, <1>4 DEF Types
    <2> QED
      BY <1>0, <1>1, <1>2, <1>3, <1>4, <2>1, StepTypes DEF q
  <1>6. PagesFresh'
    BY <1>4 DEF Inv, Fresh, PagesFresh
  <1>7. proc'[p] = q /\ \A o \in Threads : o # p => proc'[o] = proc[o]
    BY <1>0, <1>1 DEF Types, Goto, q
  <1>8. \A o \in Threads : Working(o)' => Working(o)
    BY <1>2, CacheAssumption DEF Working
  <1>9. FindsFresh'
    BY <1>3, <1>4, <1>7, <1>8 DEF Inv, Fresh, FindsFresh, At
  <1>10. /\ proc[p].floor <= settled /\ (Working(p) => proc[p].ver <= version)
         /\ q.pc = "served" => q.mine >= proc[p].floor
    BY <1>2, <1>3, <1>4 DEF Inv, Fresh, FloorsKept, FillsFresh, FindsFresh, Listing, At
  <1> QED
    BY <1>1, <1>2, <1>3, <1>4, <1>5, <1>6, <1>8, <1>9, <1>10, ListStep DEF q

\* ... reads the database on a miss ...
LEMMA ListReadStep ==
    ASSUME Inv, NEW p \in Threads, ListRead(p)
    PROVE  Inv'
  <1> DEFINE q == [proc[p] EXCEPT !.pc = "pageSet", !.mine = db]
  <1>0. /\ Types /\ proc[p] \in Proc /\ db \in Nat /\ db \in Values /\ settled \in 0..db
        /\ version \in Nat
    BY CacheAssumption DEF Inv, Types, Values
  <1>1. /\ q \in Proc /\ q.pc = "pageSet" /\ q.mine = db
        /\ q.ver = proc[p].ver /\ q.floor = proc[p].floor
    BY <1>0 DEF Proc
  <1>2. /\ UNCHANGED <<db, meta, version, page, settled, available, faults>>
        /\ At(p, "pageDb") /\ Goto(p, q)
    BY DEF ListRead, cached
  <1> HIDE DEF q
  <1>3. Types'
    <2>1. /\ db' >= db /\ q.mine \in 0..db' /\ meta' \in (0..db') \cup {None}
          /\ page' \in [Versions -> (0..db') \cup {None}]
          /\ available' \in [Replicas -> BOOLEAN] /\ faults' \in Nat
      BY <1>0, <1>1, <1>2 DEF Types
    <2> QED
      BY <1>0, <1>1, <1>2, <2>1, StepTypes
  <1>4. PagesFresh'
    BY <1>2 DEF Inv, Fresh, PagesFresh
  <1>5. proc'[p] = q /\ \A o \in Threads : o # p => proc'[o] = proc[o]
    BY <1>0, <1>2 DEF Types, Goto
  <1>6. \A o \in Threads : At(o, "pageGet") => db >= proc[o].floor
    <2>1. \A o \in Threads : proc[o].floor \in Nat
      BY <1>0, CacheAssumption DEF Types, Proc, Values
    <2> QED
      BY <1>0, <2>1 DEF Inv, Fresh, FloorsKept, Listing, At
  <1>7. FindsFresh'
    BY <1>1, <1>2, <1>5, <1>6 DEF Inv, Fresh, FindsFresh, At, Working
  <1>8. /\ proc[p].floor <= settled /\ (Working(p) => proc[p].ver <= version)
    BY <1>2 DEF Inv, Fresh, FloorsKept, FillsFresh, Listing, At
  <1>9. q.mine >= q.floor /\ q.mine >= settled /\ (Working(p)' => q.ver <= version)
    <2>1. proc[p].floor \in Nat
      BY <1>0, CacheAssumption DEF Proc, Values
    <2> QED
      BY <1>0, <1>1, <1>2, <1>8, <2>1 DEF Working
  <1> QED
    BY <1>1, <1>2, <1>3, <1>4, <1>7, <1>8, <1>9, ListStep

\* ... and caches what it read under the version it saw.
LEMMA ListSetStep ==
    ASSUME Inv, NEW p \in Threads, ListSet(p)
    PROVE  Inv'
  <1> DEFINE q == [proc[p] EXCEPT !.pc = "served"]
             w == proc[p].ver
             n == proc[p].mine
  <1>0. /\ Types /\ proc[p] \in Proc /\ db \in Nat /\ db \in Values /\ settled \in 0..db
        /\ version \in Nat /\ n \in 0..db
        /\ page \in [Versions -> (0..db) \cup {None}]
    BY CacheAssumption DEF Inv, Types, Values
  <1>1. /\ q \in Proc /\ q.pc = "served" /\ q.mine = n /\ q.ver = w /\ q.floor = proc[p].floor
        /\ w \in Versions /\ w \in Nat
    BY <1>0, CacheAssumption DEF Proc, Versions
  <1>2. UNCHANGED <<db, meta, version, settled>> /\ At(p, "pageSet") /\ Goto(p, q)
    BY DEF ListSet, Then
  <1>3. /\ page' = page \/ (page' = [page EXCEPT ![w] = n] /\ Working(p))
        /\ available' \in [Replicas -> BOOLEAN] /\ faults' \in Nat
        /\ \A r \in Replicas : available'[r] => available[r]
    <2> DEFINE new == [page EXCEPT ![w] = n]
    <2>1. Call(p, page, new, page')
      BY DEF ListSet
    <2> HIDE DEF new
    <2>2. page' \in {page, new} /\ (page' # page => Working(p))
      BY <1>0, <2>1, CallsGiveUp
    <2>3. /\ available' \in [Replicas -> BOOLEAN] /\ faults' \in Nat
          /\ \A r \in Replicas : available'[r] => available[r]
      BY <1>0, <2>1, CallsGiveUp
    <2> QED
      BY <2>2, <2>3 DEF new
  <1> HIDE DEF q
  <1>4. Types'
    <2>1. page' \in [Versions -> (0..db) \cup {None}]
      BY <1>0, <1>1, <1>3
    <2>2. db' >= db /\ q.mine \in 0..db' /\ meta' \in (0..db') \cup {None}
      BY <1>0, <1>1, <1>2 DEF Types
    <2> QED
      BY <1>0, <1>1, <1>2, <1>3, <2>1, <2>2, StepTypes
  <1>5. /\ proc[p].floor <= settled /\ n >= proc[p].floor
        /\ Working(p) => w <= version /\ (w = version => n >= settled)
    BY <1>2 DEF Inv, Fresh, FloorsKept, FillsFresh, Listing, At
  <1>6. \A v \in Versions : \/ page'[v] = page[v]
                            \/ v = w /\ page'[v] = n /\ Working(p)
    BY <1>0, <1>1, <1>3
  <1>7. PagesFresh'
    <2>1. \A v \in Versions : v \in Nat
      BY CacheAssumption DEF Versions
    <2> QED
      BY <1>0, <1>1, <1>2, <1>5, <1>6, <2>1 DEF Inv, Fresh, PagesFresh
  <1>8. FindsFresh'
    <2>1. proc'[p] = q /\ \A o \in Threads : o # p => proc'[o] = proc[o]
      BY <1>0, <1>2 DEF Types, Goto
    <2>2. \A o \in Threads : /\ Working(o)' => Working(o)
                             /\ At(o, "pageGet")' => o # p /\ At(o, "pageGet")
                             /\ At(o, "pageSet")' => o # p /\ At(o, "pageSet")
      BY <1>1, <1>3, <2>1, CacheAssumption DEF Working, At
    <2>3. \A o \in Threads : proc[o].ver \in Versions
      BY <1>0 DEF Types, Proc
    <2>4. \A o \in Threads : At(o, "pageGet") /\ Working(o) =>
             (page'[proc[o].ver] # None => page'[proc[o].ver] >= proc[o].floor)
      BY <1>2, <1>6, <2>3 DEF Inv, Fresh, FindsFresh
    <2> QED
      BY <2>1, <2>2, <2>4 DEF Inv, Fresh, FindsFresh
  <1>9. Working(p)' => Working(p)
    BY <1>3, CacheAssumption DEF Working
  <1> QED
    BY <1>1, <1>2, <1>3, <1>4, <1>5, <1>7, <1>8, <1>9, ListStep

\* Entries that expire; the version key does not.
LEMMA Expiries ==
    ASSUME Inv, MetaExpires \/ \E v \in Versions : PageExpires(v)
    PROVE  Inv'
  <1>0. Types /\ page \in [Versions -> (0..db) \cup {None}]
    BY DEF Inv, Types
  <1>1. /\ UNCHANGED <<db, version, available, proc, settled, faults>>
        /\ meta' \in {meta, None} /\ page' \in [Versions -> (0..db) \cup {None}]
        /\ \A v \in Versions : page'[v] \in {page[v], None}
    BY <1>0 DEF MetaExpires, PageExpires
  <1>2. Types'
    BY <1>0, <1>1 DEF Types
  <1>3. PagesFresh' /\ FloorsKept' /\ FillsFresh'
    BY <1>1 DEF Inv, Fresh, PagesFresh, FloorsKept, FillsFresh, Listing, Working, At
  <1>4. \A o \in Threads : proc[o].ver \in Versions
    BY <1>0 DEF Types, Proc
  <1>5. FindsFresh'
    BY <1>1, <1>4 DEF Inv, Fresh, FindsFresh, Working, At
  <1> QED
    BY <1>2, <1>3, <1>5 DEF Inv, Fresh

\* A list request is never answered with a page from before a write that was
\* announced when the request began, as long as the version key has not
\* expired (ImageService::listMy over RedisCacheClient::bumpVersion).
THEOREM ListsStayFresh == Spec => []ListsFresh
  <1>1. WhileNoReset /\ [Next]_vars => WhileNoReset'
    <2> SUFFICES ASSUME WhileNoReset, [Next]_vars PROVE WhileNoReset'
      OBVIOUS
    <2>1. CASE VersionExpires
      BY <2>1 DEF VersionExpires, WhileNoReset
    <2>2. CASE ~VersionExpires
      <3>1. resets' = resets
        BY <2>2 DEF Next, vars, Continue, Write, MetaGet, ListVersion, Dies, Fill, Evict,
                    BumpVersion, MetaRead, MetaSet, ListGet, ListRead, ListSet, ListDone,
                    MetaExpires, PageExpires
      <3>2. ASSUME Inv, UNCHANGED vars PROVE Inv'
        BY <3>2 DEF vars, Inv, Types, Fresh, PagesFresh, FloorsKept, FillsFresh, FindsFresh,
                    Listing, Working, At
      <3>3. ASSUME Inv, Next PROVE Inv'
        BY <2>2, <3>3, OtherSteps, BumpStep, ListVersionStep, ListGetStep, ListReadStep,
           ListSetStep, Expiries DEF Next, Continue
      <3> QED
        BY <3>1, <3>2, <3>3 DEF WhileNoReset
    <2> QED
      BY <2>1, <2>2
  <1>2. Init => WhileNoReset
    BY InitInv DEF Init, WhileNoReset
  <1>3. WhileNoReset => ListsFresh
    BY DEF WhileNoReset, Inv, Fresh, FloorsKept, ListsFresh, AllPaginationsInvalidated, At
  <1> QED
    BY <1>1, <1>2, <1>3, PTL DEF Spec

-----------------------------------------------------------------------------
(***************************************************************************)
(* The types, also when the version key has expired: the version counts    *)
(* writes that were announced, and every other one that is under way may   *)
(* still raise it once.                                                    *)
(***************************************************************************)
Writes(p) == proc[p].pc \in {"fill", "evict", "bump"}
UnderWay == {m \in 1..db : \E p \in Threads : Writes(p) /\ proc[p].mine = m}

\* Writes under way are different ones.
WritesDiffer ==
    \A p \in Threads : Writes(p) =>
        /\ proc[p].mine \in 1..db
        /\ \A q \in Threads : Writes(q) /\ proc[q].mine = proc[p].mine => q = p

VersionCounts == version + Cardinality(UnderWay) <= db

Bounded == resets \in 0..MaxResets /\ faults \in 0..MaxFaults

TypeInv == Types /\ WritesDiffer /\ VersionCounts /\ Bounded

LEMMA UnderWayFinite ==
    ASSUME Types
    PROVE  IsFiniteSet(UnderWay) /\ Cardinality(UnderWay) \in Nat
  <1>1. db \in Nat /\ 1 \in Int /\ db \in Int
    BY CacheAssumption DEF Types, Values
  <1>2. IsFiniteSet(1..db)
    BY <1>1, FS_Interval
  <1>3. UnderWay \subseteq 1..db
    BY DEF UnderWay
  <1> QED
    BY <1>2, <1>3, FS_Subset, FS_CardinalityType

\* A step that begins no write and does not raise the version.
LEMMA NoWriteBegun ==
    ASSUME TypeInv, Types', db' = db, version' <= version,
           \A o \in Threads : Writes(o)' => Writes(o) /\ proc'[o].mine = proc[o].mine
    PROVE  WritesDiffer' /\ VersionCounts'
  <1>1. WritesDiffer'
    BY DEF TypeInv, WritesDiffer
  <1>2. UnderWay' \subseteq UnderWay
    BY DEF UnderWay
  <1>3. IsFiniteSet(UnderWay) /\ Cardinality(UnderWay) \in Nat /\ Cardinality(UnderWay') \in Nat
    BY UnderWayFinite, <1>2, FS_Subset, FS_CardinalityType DEF TypeInv
  <1>4. Cardinality(UnderWay') <= Cardinality(UnderWay)
    BY <1>2, <1>3, FS_Subset
  <1>5. version \in Nat /\ version' \in Nat /\ db \in Nat
    BY CacheAssumption DEF TypeInv, Types, Values
  <1> QED
    BY <1>1, <1>3, <1>4, <1>5 DEF TypeInv, VersionCounts

\* The next write is one that is not under way.
LEMMA WriteCounts ==
    ASSUME TypeInv, Types', NEW p \in Threads, Write(p)
    PROVE  WritesDiffer' /\ VersionCounts'
  <1>0. /\ db \in Nat /\ version \in Nat /\ proc \in [Threads -> Proc]
        /\ ~Writes(p) /\ db' = db + 1 /\ version' = version
    BY CacheAssumption DEF TypeInv, Types, Values, Write, At, Writes, cached
  <1> DEFINE q == [Idle EXCEPT !.pc = IF db = 0 THEN "fill" ELSE "evict", !.mine = db + 1]
  <1>1. q.mine = db + 1 /\ q.pc \in {"fill", "evict"}
    BY DEF Idle
  <1>2. proc'[p] = q /\ \A o \in Threads : o # p => proc'[o] = proc[o]
    BY <1>0 DEF Write, Goto
  <1> HIDE DEF q
  <1>3. \A o \in Threads : Writes(o) => proc[o].mine \in 1..db
    BY DEF TypeInv, WritesDiffer
  <1>4. Writes(p)' /\ \A o \in Threads : o # p => (Writes(o)' <=> Writes(o))
    BY <1>1, <1>2 DEF Writes
  <1>5. WritesDiffer'
    BY <1>0, <1>1, <1>2, <1>3, <1>4 DEF TypeInv, WritesDiffer
  <1>6. UnderWay' \subseteq UnderWay \cup {db + 1}
    BY <1>0, <1>1, <1>2, <1>3, <1>4 DEF UnderWay
  <1>7. /\ IsFiniteSet(UnderWay) /\ Cardinality(UnderWay) \in Nat
        /\ IsFiniteSet(UnderWay \cup {db + 1})
        /\ Cardinality(UnderWay \cup {db + 1}) <= Cardinality(UnderWay) + 1
        /\ Cardinality(UnderWay \cup {db + 1}) \in Nat
    BY UnderWayFinite, FS_AddElement, FS_CardinalityType DEF TypeInv
  <1>8. Cardinality(UnderWay') <= Cardinality(UnderWay) + 1 /\ Cardinality(UnderWay') \in Nat
    BY <1>6, <1>7, FS_Subset, FS_CardinalityType
  <1> QED
    BY <1>0, <1>5, <1>7, <1>8 DEF TypeInv, VersionCounts

\* The write that is announced is under way no more.
LEMMA BumpCounts ==
    ASSUME TypeInv, Types', NEW p \in Threads, BumpVersion(p)
    PROVE  WritesDiffer' /\ VersionCounts'
  <1>0. /\ db \in Nat /\ version \in Nat /\ proc \in [Threads -> Proc]
        /\ Writes(p) /\ db' = db /\ version' \in {version, version + 1}
        /\ proc'[p] = Idle /\ \A o \in Threads : o # p => proc'[o] = proc[o]
    BY CacheAssumption, CallsGiveUp DEF TypeInv, Types, Values, BumpVersion, At, Writes, Goto
  <1>1. \A o \in Threads : Writes(o)' => o # p /\ Writes(o)
    BY <1>0 DEF Writes, Idle
  <1>2. WritesDiffer'
    BY <1>0, <1>1 DEF TypeInv, WritesDiffer
  <1> DEFINE m == proc[p].mine
  <1>3. m \in UnderWay
    BY <1>0 DEF TypeInv, WritesDiffer, UnderWay
  <1>4. UnderWay' \subseteq UnderWay \ {m}
    BY <1>0, <1>1 DEF TypeInv, WritesDiffer, UnderWay
  <1> HIDE DEF m
  <1>5. /\ IsFiniteSet(UnderWay) /\ Cardinality(UnderWay) \in Nat
        /\ IsFiniteSet(UnderWay \ {m})
        /\ Cardinality(UnderWay \ {m}) = Cardinality(UnderWay) - 1
    BY <1>3, UnderWayFinite, FS_RemoveElement DEF TypeInv
  <1>6. Cardinality(UnderWay') <= Cardinality(UnderWay) - 1 /\ Cardinality(UnderWay') \in Nat
    BY <1>4, <1>5, FS_Subset, FS_CardinalityType
  <1> QED
    BY <1>0, <1>2, <1>5, <1>6 DEF TypeInv, VersionCounts

\* Every other step of a thread goes on at q, with no write but its own.
LEMMA ThreadTypes ==
    ASSUME TypeInv, NEW p \in Threads, NEW q \in Proc, Goto(p, q), q.mine \in 0..db,
           q.pc \in {"fill", "evict", "bump"} => Writes(p) /\ q.mine = proc[p].mine,
           UNCHANGED <<db, version, settled>>,
           meta' \in (0..db) \cup {None}, page' \in [Versions -> (0..db) \cup {None}],
           available' \in [Replicas -> BOOLEAN], faults' \in Nat
    PROVE  Types' /\ WritesDiffer' /\ VersionCounts'
  <1>1. Types /\ db \in Nat /\ db \in Values /\ settled \in 0..db /\ version \in Nat
    BY CacheAssumption DEF TypeInv, Types, Values
  <1>2. Types'
    <2>1. /\ q.mine \in 0..db' /\ db' \in Values /\ db' >= db /\ settled' \in 0..db' /\ version' \in Nat
          /\ meta' \in (0..db') \cup {None} /\ page' \in [Versions -> (0..db') \cup {None}]
      BY <1>1
    <2> QED
      BY <1>1, <2>1, StepTypes
  <1>3. proc'[p] = q /\ \A o \in Threads : o # p => proc'[o] = proc[o]
    BY <1>1 DEF Types, Goto
  <1>4. \A o \in Threads : Writes(o)' => Writes(o) /\ proc'[o].mine = proc[o].mine
    BY <1>3 DEF Writes
  <1> QED
    BY <1>1, <1>2, <1>4, NoWriteBegun

\* Failures are counted to their bound.
LEMMA BoundsKept == TypeInv /\ [Next]_vars => Bounded'
  <1> SUFFICES ASSUME TypeInv, [Next]_vars PROVE Bounded'
    OBVIOUS
  <1>1. resets \in 0..MaxResets /\ faults \in 0..MaxFaults /\ MaxResets \in Nat /\ MaxFaults \in Nat
    BY CacheAssumption DEF TypeInv, Bounded
  <1>2. faults' = faults \/ (faults < MaxFaults /\ faults' = faults + 1)
    BY DEF Next, vars, Continue, Write, MetaGet, ListVersion, Dies, Fill, Evict, BumpVersion, MetaRead,
           MetaSet, ListGet, ListRead, ListSet, ListDone, MetaExpires, PageExpires, VersionExpires,
           Call, Get
  <1>3. resets' = resets \/ (resets < MaxResets /\ resets' = resets + 1)
    BY DEF Next, vars, Continue, Write, MetaGet, ListVersion, Dies, Fill, Evict, BumpVersion, MetaRead,
           MetaSet, ListGet, ListRead, ListSet, ListDone, MetaExpires, PageExpires, VersionExpires
  <1> QED
    BY <1>1, <1>2, <1>3 DEF Bounded

\* Steps that write, and bump.
LEMMA WriterTypes ==
    ASSUME TypeInv, NEW p \in Threads, Write(p) \/ Fill(p) \/ Evict(p) \/ BumpVersion(p)
    PROVE  Types' /\ WritesDiffer' /\ VersionCounts'
  <1>0. /\ Types /\ proc[p] \in Proc /\ proc[p].mine \in 0..db /\ db \in Values /\ db \in Nat
        /\ settled \in 0..db /\ version \in Nat /\ meta \in (0..db) \cup {None}
        /\ page \in [Versions -> (0..db) \cup {None}]
        /\ available \in [Replicas -> BOOLEAN] /\ faults \in Nat
    BY CacheAssumption DEF TypeInv, Types, Values
  <1>1. Idle \in Proc /\ Idle.pc = "idle" /\ Idle.mine = 0 /\ 0 \in Values /\ 0 \in Versions
    BY CacheAssumption DEF Idle, Proc, Values, Versions
  <1>2. CASE Write(p)
    <2> DEFINE q == [Idle EXCEPT !.pc = IF db = 0 THEN "fill" ELSE "evict", !.mine = db + 1]
    <2>1. /\ db' = db + 1 /\ db' \in Values /\ db' >= db /\ Goto(p, q)
          /\ UNCHANGED <<settled, version, meta, page, available, faults>>
      BY <1>0, <1>2, CacheAssumption DEF Write, Values, cached
    <2>2. q \in Proc /\ q.mine = db + 1
      BY <1>1, <2>1 DEF Idle, Proc
    <2>3. q.mine \in 0..db'
      BY <1>0, <2>1, <2>2
    <2> HIDE DEF q
    <2>4. Types'
      <3>1. settled \in 0..db' /\ meta \in (0..db') \cup {None} /\ page \in [Versions -> (0..db') \cup {None}]
        BY <1>0, <2>1, Grows
      <3> QED
        BY <1>0, <2>1, <2>2, <2>3, <3>1, StepTypes
    <2> QED
      BY <1>2, <2>4, WriteCounts
  <1>3. CASE Fill(p) \/ Evict(p)
    <2> DEFINE q == [proc[p] EXCEPT !.pc = "bump"]
    <2>1. q \in Proc /\ q.mine = proc[p].mine /\ Writes(p)
      BY <1>0, <1>3 DEF Proc, Fill, Evict, At, Writes
    <2>2. Goto(p, q) /\ UNCHANGED <<db, version, settled, page>>
      BY <1>3 DEF Fill, Evict, Then
    <2>3. PICK new \in (0..db) \cup {None} : Call(p, meta, new, meta')
      BY <1>0, <1>3 DEF Fill, Evict
    <2>4. meta' \in {meta, new} /\ available' \in [Replicas -> BOOLEAN] /\ faults' \in Nat
      BY <1>0, <2>3, CallsGiveUp
    <2> HIDE DEF q
    <2> QED
      BY <1>0, <2>1, <2>2, <2>4, ThreadTypes
  <1>4. CASE BumpVersion(p)
    <2>1. /\ version' \in {version, version + 1} /\ available' \in [Replicas -> BOOLEAN] /\ faults' \in Nat
          /\ UNCHANGED <<db, meta, page>> /\ Goto(p, Idle) /\ settled' \in 0..db
      BY <1>0, <1>4, CallsGiveUp DEF BumpVersion
    <2>2. Types'
      <3>1. /\ Idle.mine \in 0..db' /\ db' \in Values /\ db' >= db /\ version' \in Nat /\ settled' \in 0..db'
            /\ meta' \in (0..db') \cup {None} /\ page' \in [Versions -> (0..db') \cup {None}]
        BY <1>0, <1>1, <2>1
      <3> QED
        BY <1>0, <1>1, <2>1, <3>1, StepTypes
    <2> QED
      BY <1>4, <2>2, BumpCounts
  <1> QED
    BY <1>2, <1>3, <1>4

\* Steps that read, and the end of a thread.
LEMMA ReaderTypes ==
    ASSUME TypeInv, NEW p \in Threads,
           \/ MetaGet(p) \/ MetaRead(p) \/ MetaSet(p) \/ ListVersion(p) \/ ListGet(p)
           \/ ListRead(p) \/ ListSet(p) \/ ListDone(p) \/ Dies(p)
    PROVE  Types' /\ WritesDiffer' /\ VersionCounts'
  <1>0. /\ Types /\ proc[p] \in Proc /\ proc[p].mine \in 0..db /\ db \in Values /\ db \in Nat
        /\ settled \in 0..db /\ version \in Nat /\ meta \in (0..db) \cup {None} /\ 0 \in 0..db /\ db \in 0..db
        /\ page \in [Versions -> (0..db) \cup {None}] /\ proc[p].ver \in Versions
        /\ available \in [Replicas -> BOOLEAN] /\ faults \in Nat /\ settled \in Values
    BY CacheAssumption DEF TypeInv, Types, Values, Proc
  <1>1. Idle \in Proc /\ Idle.pc = "idle" /\ Idle.mine = 0 /\ 0 \in Values /\ 0 \in Versions
    BY CacheAssumption DEF Idle, Proc, Values, Versions
  <1> DEFINE Reads(q) == /\ q \in Proc /\ q.mine \in 0..db
                         /\ q.pc \notin {"fill", "evict", "bump"} /\ Goto(p, q)
             Done == Types' /\ WritesDiffer' /\ VersionCounts'
  <1>2. ASSUME NEW q, Reads(q), UNCHANGED <<db, version, settled>>,
               meta' \in (0..db) \cup {None}, page' \in [Versions -> (0..db) \cup {None}],
               available' \in [Replicas -> BOOLEAN], faults' \in Nat
        PROVE  Done
    BY <1>2, ThreadTypes
  <1>3. Reads(Idle) <=> Goto(p, Idle)
    BY <1>0, <1>1
  <1> HIDE DEF Done
  <1>4. ASSUME MetaGet(p) PROVE Done
    <2>1. PICK v \in Values \cup {None} :
             /\ Get(p, meta, None, v)
             /\ Goto(p, IF v = None THEN [Idle EXCEPT !.pc = "metaDb"] ELSE Idle)
      BY <1>4 DEF MetaGet
    <2>2. [Idle EXCEPT !.pc = "metaDb"] \in Proc /\ [Idle EXCEPT !.pc = "metaDb"].mine = 0
      BY <1>1 DEF Idle, Proc
    <2>3. Reads(IF v = None THEN [Idle EXCEPT !.pc = "metaDb"] ELSE Idle)
      BY <1>0, <1>1, <2>1, <2>2 DEF Idle
    <2>4. available' \in [Replicas -> BOOLEAN] /\ faults' \in Nat
      BY <1>0, <2>1, GetsGiveUp
    <2> HIDE DEF Reads
    <2> QED
      BY <1>0, <1>2, <1>4, <2>3, <2>4 DEF MetaGet, cached
  <1>5. ASSUME MetaRead(p) PROVE Done
    <2> DEFINE q == [Idle EXCEPT !.pc = "metaSet", !.mine = db]
    <2>1. q \in Proc /\ q.mine = db /\ q.pc = "metaSet"
      BY <1>0, <1>1 DEF Idle, Proc
    <2>2. Goto(p, q) /\ UNCHANGED <<db, version, settled, meta, page, available, faults>>
      BY <1>5 DEF MetaRead, cached
    <2> HIDE DEF q
    <2> QED
      BY <1>0, <1>2, <2>1, <2>2
  <1>6. ASSUME MetaSet(p) PROVE Done
    <2>1. /\ meta' \in (0..db) \cup {None} /\ available' \in [Replicas -> BOOLEAN] /\ faults' \in Nat
          /\ Goto(p, Idle) /\ UNCHANGED <<db, version, settled, page>>
      BY <1>0, <1>6, CallsGiveUp DEF MetaSet
    <2> HIDE DEF Reads
    <2> QED
      BY <1>0, <1>2, <1>3, <2>1
  <1>7. ASSUME ListVersion(p) PROVE Done
    <2>1. PICK v \in Versions :
             /\ Get(p, version, 0, v)
             /\ Goto(p, [Idle EXCEPT !.pc = "pageGet", !.ver = v, !.floor = settled])
      BY <1>7 DEF ListVersion
    <2> DEFINE q == [Idle EXCEPT !.pc = "pageGet", !.ver = v, !.floor = settled]
    <2>2. q \in Proc /\ q.mine = 0 /\ q.pc = "pageGet" /\ Goto(p, q)
      BY <1>0, <1>1, <2>1 DEF Idle, Proc
    <2>3. available' \in [Replicas -> BOOLEAN] /\ faults' \in Nat
      BY <1>0, <2>1, GetsGiveUp
    <2> HIDE DEF q
    <2> QED
      BY <1>0, <1>2, <1>7, <2>2, <2>3 DEF ListVersion, cached
  <1>8. ASSUME ListGet(p) PROVE Done
    <2> DEFINE q(v) == IF v = None THEN [proc[p] EXCEPT !.pc = "pageDb"]
                       ELSE [proc[p] EXCEPT !.pc = "served", !.mine = v]
    <2>1. PICK v \in Values \cup {None} : Get(p, page[proc[p].ver], None, v) /\ Goto(p, q(v))
      BY <1>8 DEF ListGet
    <2>2. v \in (0..db) \cup {None} /\ available' \in [Replicas -> BOOLEAN] /\ faults' \in Nat
      BY <1>0, <2>1, GetsGiveUp
    <2>3. Reads(q(v))
      <3>1. CASE v = None
        <4>1. [proc[p] EXCEPT !.pc = "pageDb"] \in Proc /\ [proc[p] EXCEPT !.pc = "pageDb"].mine = proc[p].mine
          BY <1>0 DEF Proc
        <4> QED
          BY <1>0, <2>1, <3>1, <4>1 DEF Proc
      <3>2. CASE v # None
        <4>1. v \in Values /\ v \in 0..db
          BY <2>1, <2>2, <3>2
        <4>2. [proc[p] EXCEPT !.pc = "served", !.mine = v] \in Proc
          BY <1>0, <4>1 DEF Proc
        <4>3. q(v) \in Proc /\ q(v).mine = v /\ q(v).pc = "served"
          BY <1>0, <3>2, <4>2 DEF Proc
        <4> QED
          BY <2>1, <4>1, <4>3
      <3> QED
        BY <3>1, <3>2
    <2> HIDE DEF q, Reads
    <2> QED
      BY <1>0, <1>2, <1>8, <2>2, <2>3 DEF ListGet, cached
  <1>9. ASSUME ListRead(p) PROVE Done
    <2> DEFINE q == [proc[p] EXCEPT !.pc = "pageSet", !.mine = db]
    <2>1. q \in Proc /\ q.mine = db /\ q.pc = "pageSet"
      <3>1. q \in Proc
        BY <1>0 DEF Proc
      <3> QED
        BY <1>0, <3>1 DEF Proc
    <2>2. Goto(p, q) /\ UNCHANGED <<db, version, settled, meta, page, available, faults>>
      BY <1>9 DEF ListRead, cached
    <2> HIDE DEF q
    <2> QED
      BY <1>0, <1>2, <2>1, <2>2
  <1>10. ASSUME ListSet(p) PROVE Done
    <2> DEFINE q == [proc[p] EXCEPT !.pc = "served"]
               new == [page EXCEPT ![proc[p].ver] = proc[p].mine]
    <2>1. q \in Proc /\ q.mine = proc[p].mine /\ q.pc = "served"
      BY <1>0 DEF Proc
    <2>2. new \in [Versions -> (0..db) \cup {None}]
      BY <1>0
    <2>3. Goto(p, q) /\ Call(p, page, new, page') /\ UNCHANGED <<db, version, settled, meta>>
      BY <1>10 DEF ListSet, Then
    <2> HIDE DEF q, new
    <2>4. /\ page' \in {page, new} /\ available' \in [Replicas -> BOOLEAN] /\ faults' \in Nat
      BY <1>0, <2>3, CallsGiveUp
    <2> QED
      BY <1>0, <1>2, <2>1, <2>2, <2>3, <2>4
  <1>11. ASSUME ListDone(p) \/ Dies(p) PROVE Done
    <2>1. /\ Goto(p, Idle) /\ UNCHANGED <<db, version, settled, meta, page, available>>
          /\ faults' \in Nat
      BY <1>0, <1>11 DEF ListDone, Dies, cached
    <2> HIDE DEF Reads
    <2> QED
      BY <1>0, <1>2, <1>3, <2>1
  <1> QED
    BY <1>4, <1>5, <1>6, <1>7, <1>8, <1>9, <1>10, <1>11 DEF Done

\* Entries and the version key expire.
LEMMA ExpiryTypes ==
    ASSUME TypeInv, MetaExpires \/ VersionExpires \/ (\E v \in Versions : PageExpires(v)) \/ UNCHANGED vars
    PROVE  Types' /\ WritesDiffer' /\ VersionCounts'
  <1>0. Types /\ page \in [Versions -> (0..db) \cup {None}] /\ version \in Nat
    BY DEF TypeInv, Types
  <1>1. /\ UNCHANGED <<db, available, proc, settled, faults>> /\ version' \in {0, version}
        /\ meta' \in {meta, None} /\ page' \in [Versions -> (0..db) \cup {None}]
    BY <1>0 DEF MetaExpires, PageExpires, VersionExpires, vars
  <1>2. Types'
    BY <1>0, <1>1 DEF Types
  <1>3. version' <= version /\ \A o \in Threads : Writes(o)' => Writes(o) /\ proc'[o].mine = proc[o].mine
    BY <1>0, <1>1 DEF Writes
  <1> QED
    BY <1>1, <1>2, <1>3, NoWriteBegun

\* The cache and its readers keep their types; the version never exceeds the
\* number of writes, also when the key expires and starts again, since a write
\* bumps it at most once (RedisCacheClient::bumpVersion).
THEOREM TypeCorrect == Spec => []TypeOK
  <1>1. Init => TypeInv
    <2> SUFFICES ASSUME Init PROVE TypeInv
      OBVIOUS
    <2>1. Types /\ Bounded
      BY InitInv, CacheAssumption DEF Inv, Init, Bounded
    <2>2. \A p \in Threads : ~Writes(p)
      BY DEF Init, Idle, Writes
    <2>3. UnderWay = {}
      BY <2>2 DEF UnderWay
    <2>4. version = 0 /\ db = 0 /\ Cardinality(UnderWay) = 0
      BY <2>3, FS_EmptySet DEF Init
    <2> QED
      BY <2>1, <2>2, <2>4 DEF TypeInv, WritesDiffer, VersionCounts
  <1>2. TypeInv /\ [Next]_vars => TypeInv'
    <2> SUFFICES ASSUME TypeInv, [Next]_vars PROVE TypeInv'
      OBVIOUS
    <2>1. Types' /\ WritesDiffer' /\ VersionCounts'
      BY WriterTypes, ReaderTypes, ExpiryTypes DEF Next, Continue
    <2> QED
      BY <2>1, BoundsKept DEF TypeInv
  <1>3. TypeInv => TypeOK
    <2> SUFFICES ASSUME TypeInv PROVE TypeOK
      OBVIOUS
    <2>1. Cardinality(UnderWay) \in Nat /\ db \in 0..MaxWrites /\ version \in Nat /\ MaxWrites \in Nat
      BY UnderWayFinite, CacheAssumption DEF TypeInv, Types, Values
    <2>2. version \in Versions
      BY <2>1 DEF TypeInv, VersionCounts, Versions
    <2> QED
      BY <2>2 DEF TypeInv, Types, Bounded, TypeOK
  <1> QED
    BY <1>1, <1>2, <1>3, PTL DEF Spec
=============================================================================
